---------------------------- MODULE MCRaceScreen ----------------------------
(* Two races, one of which another user reviews; one review on a page. *)
EXTENDS RaceScreen
MCOthers == [race: {"bieg"}, by: {"ala"}, id: {0}]
===============================================================================
