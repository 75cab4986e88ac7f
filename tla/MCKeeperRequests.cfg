SPECIFICATION FairSpec
CHECK_DEADLOCK FALSE
CONSTANTS
  AuctionIds = {a1}
  Monitors = {m1}
  Dispatchers = {d1}
  Submitters = {}
  Listeners = {l1}
  NoAuction = none
  MaxRetries = 0
  MaxFaults = 0
  MaxCrashes = 0
  MaxFailures = 1
PROPERTIES RequestsAnswered SettlementNoticed
