---------------------------- MODULE MCSearchScreen ----------------------------
(* One field and one value of it, two areas of the map, two pages.           *)
EXTENDS SearchScreen
===============================================================================
