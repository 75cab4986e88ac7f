SPECIFICATION Spec
CHECK_DEADLOCK FALSE
SYMMETRY Symmetry
CONSTANTS
  AuctionIds = {a1}
  Operators = {o1, o2, o3}
  Outcomes = {x1, x2}
  MaxEntries = 3
  MaxSlashes = 1
INVARIANTS ThresholdInReach AgreementSettles
PROPERTIES SettledByQuorum SlashedOnce
