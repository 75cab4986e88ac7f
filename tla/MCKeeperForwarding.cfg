SPECIFICATION FairSpec
CHECK_DEADLOCK FALSE
CONSTANTS
  AuctionIds = {a1}
  Monitors = {m1}
  Dispatchers = {d1}
  Submitters = {s1}
  Listeners = {}
  NoAuction = none
  MaxRetries = 0
  MaxFaults = 0
  MaxCrashes = 0
  MaxFailures = 1
PROPERTIES ResolutionsForwarded
