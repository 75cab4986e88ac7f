SPECIFICATION FairSpec
CONSTANTS
  AuctionIds = {lot}
  Lot = lot
  Accounts = {s, b}
  Seller = s
  NoAccount = none
  lot = lot
  s = s
  b = b
  Amounts = {1}
  Entries = {0, 1, 3}
  ActionLimit = 2
  Visits <- Uses
INVARIANTS ReportsTrue RoutesBelong ReviewComplete
PROPERTIES ShownEscrowCovered ControlsComeBack
