SPECIFICATION FairSpec
CHECK_DEADLOCK FALSE
CONSTANTS
  AuctionIds = {a1}
  Monitors = {m1, m2}
  Dispatchers = {}
  Submitters = {}
  Listeners = {}
  NoAuction = none
  MaxRetries = 0
  MaxFaults = 0
  MaxCrashes = 1
  MaxFailures = 1
INVARIANTS AttemptsExclusive
PROPERTIES ClosureTriggered
