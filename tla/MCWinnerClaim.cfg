SPECIFICATION Spec
CHECK_DEADLOCK FALSE
CONSTANTS
  NumAuctions = 2
  NumAccounts = 3
  NumCommitments = 1
  NumIdentities = 1
  NumPots = 1
  NumVaults = 1
  NumRegistries = 1
  NumTokens = 2
  RejectsValue = {}
  RejectsToken = {}
  EngineAtStart = 1
  VaultAtStart = 1
  RegistryAtStart = 1
  VerifierAtStart = "MOCK"
  Sellers = {1}
  Bidders = {}
  Executors = {2}
  Authorities = {3}
  Recipients = {3}
  Durations = {60}
  StartingPrices = {2}
  Deposits = {999}
  EscrowAmounts = {}
  ShieldedAmounts = {2}
  BidCiphertexts <- OneBid
  WinningAmounts = {2}
  Deadlines = {9999}
  Verifiers = {}
  Donations = {}
  TokenRecipients = {}
  MaxEscrow = 2
  MaxDonated = 0
  MaxBidCount = 4
  MaxConfidentialBidValue = 3
  BlockTimes = {61}
INVARIANTS ShieldedWinnerCanClaim
