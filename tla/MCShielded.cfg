SPECIFICATION Spec
CHECK_DEADLOCK FALSE
CONSTANTS
  NumAuctions = 1
  NumAccounts = 3
  NumCommitments = 2
  NumIdentities = 2
  NumPots = 1
  NumVaults = 1
  NumRegistries = 1
  NumTokens = 1
  RejectsValue = {}
  RejectsToken = {}
  EngineAtStart = 1
  VaultAtStart = 1
  RegistryAtStart = 1
  VerifierAtStart = "MOCK"
  Sellers = {1}
  Bidders = {2}
  Executors = {2}
  Authorities = {3}
  Recipients = {3}
  Durations = {60}
  StartingPrices = {2}
  Deposits = {999}
  EscrowAmounts = {2}
  ShieldedAmounts = {1, 3}
  BidCiphertexts <- ShieldedBids
  WinningAmounts = {0, 2, 3}
  Deadlines = {9999}
  Verifiers = {"MOCK"}
  Donations = {1}
  TokenRecipients = {}
  MaxEscrow = 2
  MaxDonated = 1
  MaxBidCount = 4
  MaxConfidentialBidValue = 3
  BlockTimes = {41, 61, 7300}
INVARIANTS VaultSolvent NoStrandedReserve BidsSettleable BidCountExact HighestBidResolved
PROPERTIES SalesImplemented
