SPECIFICATION Spec
CHECK_DEADLOCK FALSE
CONSTANTS
  NumAuctions = 2
  NumAccounts = 2
  NumCommitments = 1
  NumIdentities = 1
  NumPots = 2
  NumVaults = 2
  NumRegistries = 1
  NumTokens = 1
  RejectsValue = {}
  RejectsToken = {}
  EngineAtStart = 1
  VaultAtStart = 1
  RegistryAtStart = 1
  VerifierAtStart = "MOCK"
  Sellers = {1}
  Bidders = {2}
  Executors = {2}
  Authorities = {2}
  Recipients = {2}
  Durations = {60}
  StartingPrices = {2}
  Deposits = {999}
  EscrowAmounts = {2}
  ShieldedAmounts = {2}
  BidCiphertexts = {}
  WinningAmounts = {}
  Deadlines = {9999}
  Verifiers = {}
  Donations = {}
  TokenRecipients = {}
  MaxEscrow = 2
  MaxDonated = 0
  MaxBidCount = 4
  MaxConfidentialBidValue = 3
  BlockTimes = {61, 7300}
INVARIANTS SlashBacked Custody ShieldedRefundsReachable FallbackOpen
PROPERTIES PhasesImplemented PromisesKept
