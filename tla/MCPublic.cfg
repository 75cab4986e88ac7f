SPECIFICATION FairSpec
CHECK_DEADLOCK FALSE
CONSTANTS
  NumAuctions = 1
  NumAccounts = 3
  NumCommitments = 0
  NumIdentities = 0
  NumPots = 1
  NumVaults = 0
  NumRegistries = 0
  NumTokens = 1
  RejectsValue = {}
  RejectsToken = {}
  EngineAtStart = 0
  VaultAtStart = 0
  RegistryAtStart = 0
  VerifierAtStart = "NONE"
  Sellers = {1}
  Bidders = {2, 3}
  Executors = {2}
  Authorities = {}
  Recipients = {}
  Durations = {60}
  StartingPrices = {2}
  Deposits = {999}
  EscrowAmounts = {1, 2}
  ShieldedAmounts = {}
  BidCiphertexts <- PublicBids
  WinningAmounts = {0, 1, 3}
  Deadlines = {}
  Verifiers = {}
  Donations = {}
  TokenRecipients = {0}
  MaxEscrow = 3
  MaxDonated = 0
  MaxBidCount = 4
  MaxConfidentialBidValue = 3
  BlockTimes = {61, 561, 961, 8161}
INVARIANTS TypeOK MarketSolvent PotSolvent OutcomeCovered PublicRefundsReachable FallbackAvailable
PROPERTIES BidsFrozenAtEnd AuctionsSettle RefundsPaid
