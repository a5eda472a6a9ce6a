SPECIFICATION FairSpec
CONSTANTS
  Calls = {"a", "b"}
  Pool = {1, 2}
  Cities <- MCCities
INVARIANTS TypeOK EachCityOnce NoSendOnClosed CompleteUnlessExpired
PROPERTIES KeepsPromise CallsReturn
CHECK_DEADLOCK FALSE
