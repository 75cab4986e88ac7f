SPECIFICATION Spec
CHECK_DEADLOCK FALSE
CONSTANTS
  AuctionIds = {a1}
  Monitors = {m1}
  Dispatchers = {d1}
  Submitters = {s1}
  Listeners = {}
  NoAuction = none
  MaxRetries = 1
  MaxFaults = 1
  MaxCrashes = 1
  MaxFailures = 1
INVARIANTS TypeOK RecordsNotAhead SubmittedMeansDone
