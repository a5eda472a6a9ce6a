----------------------------- MODULE MCWatchlist -----------------------------
(* Two races, two screens, two clicks.                                       *)
EXTENDS Watchlist
===============================================================================
