----------------------------- MODULE MCRaceEvents -----------------------------
(* One race, in Gdynia: "ala" watches the city, "ola" has no watchlist.      *)
EXTENDS RaceEvents

MCCityOf == [r \in Races |-> "Gdynia"]
MCWatches == {<<"ala", "Gdynia">>}
=============================================================================
