SPECIFICATION FairSpec
CONSTANTS
  Races = {"zawody"}
  Cities = {"Gdynia"}
  CityOf <- MCCityOf
  Users = {"ala", "ola"}
  Watches <- MCWatches
  MaxImports = 1
  MaxEnrichments = 1
  MaxTries = 2
  MaxFaulty = 2
  MaxDeaths = 1
INVARIANTS TypeOK DigestRepeatedOnlyByFailure WatchersAreTold LocatedIsIndexed
PROPERTIES QueueDrains
CHECK_DEADLOCK FALSE
