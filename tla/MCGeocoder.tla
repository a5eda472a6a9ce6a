------------------------------ MODULE MCGeocoder ------------------------------
(* Two calls that share a city, two workers each: the second call finds in   *)
(* the cache what the first fetched, or races it to Nominatim.               *)
EXTENDS Geocoder

MCCities == [c \in Calls |-> IF c = "a" THEN <<"Gdynia", "Sopot">> ELSE <<"Gdynia">>]
=============================================================================
