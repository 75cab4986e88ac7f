----------------------------- MODULE FairMarket -----------------------------
(***************************************************************************)
(* FhenixFairMarket.sol together with the contracts it calls: the slashed  *)
(* pot, the shielded escrow vault and the identity registry.  A            *)
(* transaction is atomic: it happens as a whole or reverts, so an action   *)
(* is one external call with everything it calls, and its guard is the     *)
(* conjunction of the checks that would revert it.  The nonReentrant lock  *)
(* rules out that a callback re-enters the market, so callbacks appear     *)
(* only as the reverts they can cause (RejectsValue, RejectsToken).        *)
(***************************************************************************)
EXTENDS NetworkClock, SlashedPot, ShieldedEscrowVault, ShieldedIdentityRegistry, Sums

CONSTANTS
  NumTokens,         \* NFTs that can be listed
  RejectsToken,      \* accounts that are contracts without onERC721Received
  EngineAtStart, VaultAtStart, RegistryAtStart,  \* what the deployment has configured
  \* The inputs of transactions.
  Sellers, Bidders, Executors, Authorities, Recipients,
  Durations, StartingPrices, Deposits, EscrowAmounts, ShieldedAmounts,
  BidCiphertexts, WinningAmounts, Deadlines, Verifiers, Donations,
  TokenRecipients,   \* where tokens go outside the market, 0 for the market itself
  MaxEscrow,         \* bound: public escrow of one bidder in one auction
  MaxDonated,        \* bound: value sent to receive() by outsiders
  MaxBidCount,       \* the largest bidCount, type(uint32).max in the code
  MaxConfidentialBidValue  \* the largest starting price, type(uint96).max in the code

CiphertextKind == {"UNKNOWN", "EUINT32", "EBOOL", "EUINT96"}
Ciphertext == [kind : CiphertextKind, payload : Nat]
ZeroWord == [kind |-> "UNKNOWN", payload |-> 0]

MIN_AUCTION_DURATION == 60
MAX_AUCTION_DURATION == 90 * 86400

ASSUME MarketAssumption ==
  /\ NumTokens \in Nat
  /\ EngineAtStart \in {0, 1}
  /\ VaultAtStart \in 0..NumVaults
  /\ RegistryAtStart \in 0..NumRegistries
  /\ Sellers \subseteq Accounts /\ Bidders \subseteq Accounts
  /\ Executors \subseteq Accounts /\ Authorities \subseteq Accounts
  /\ Recipients \subseteq Accounts
  /\ Durations \subseteq Nat /\ StartingPrices \subseteq Nat /\ Deposits \subseteq Nat
  /\ EscrowAmounts \subseteq Nat /\ ShieldedAmounts \subseteq Nat
  /\ BidCiphertexts \subseteq Ciphertext
  /\ WinningAmounts \subseteq Nat /\ Deadlines \subseteq Nat
  /\ Verifiers \subseteq VerifierKind
  /\ TokenRecipients \subseteq 0..NumAccounts
  /\ Donations \subseteq Nat /\ MaxEscrow \in Nat /\ MaxDonated \in Nat
  /\ MaxBidCount \in Nat /\ MaxConfidentialBidValue \in Nat

Tokens == 1..NumTokens
Market == 0             \* the owner of a token that the market holds

VARIABLES
  \* The contracts the market calls for new auctions.
  dependencies,
  \* Auctions: what creation fixes, and what later transactions change.
  auctionCounter, listing, state, totalEscrow, slashAmount, resolvingSince,
  winner, winningAmount, winningIdentityHash, sellerClaimed, assetClaimed,
  \* Bids.
  encryptedBids, bidders, shieldedEncryptedBids, shieldedBidders, bidCount,
  \* The pending resolution request and the finalization incentive.
  requestExists, finalizationExecutors, finalizationRewards, finalizationRewardClaimed,
  \* Money and refunds.
  escrowBalances, hasWithdrawn, shieldedRefundsUnlocked, shieldedRefundClaimed,
  marketBalance,
  donated,              \* ghost: value received outside any auction
  nftOwner              \* external: the ERC-721 ledger

outcomeVars == <<winner, winningAmount, winningIdentityHash>>
bidVars == <<encryptedBids, bidders, shieldedEncryptedBids, shieldedBidders, bidCount>>
requestVars == <<requestExists, finalizationExecutors, finalizationRewards>>
claimFlags == <<sellerClaimed, assetClaimed, finalizationRewardClaimed, shieldedRefundClaimed>>
creationVars == <<auctionCounter, listing>>
escrowVars == <<totalEscrow, escrowBalances, hasWithdrawn>>
phaseVars == <<state, slashAmount, resolvingSince, shieldedRefundsUnlocked>>
balanceVars == <<marketBalance, donated>>

vars == <<clockVars, potVars, vaultVars, registryVars, dependencies, creationVars,
          phaseVars, outcomeVars, bidVars, requestVars, claimFlags, escrowVars,
          balanceVars, nftOwner>>

-----------------------------------------------------------------------------
(* State.                                                                  *)

AuctionState == {"CREATED", "ACTIVE", "RESOLVING", "FINALIZED", "CANCELLED", "VOIDED"}
Terminal == {"FINALIZED", "CANCELLED", "VOIDED"}

Dependencies ==
  [settlementEngine : {0, 1}, slashedPot : Pots,
   shieldedEscrowVault : 0..NumVaults, shieldedIdentityRegistry : 0..NumRegistries]

(* The fields of the Auction struct that are set by createAuction, and the *)
(* auction's dependency snapshot.                                          *)
Listing ==
  [seller : 0..NumAccounts, tokenId : 0..NumTokens, createdAt : Nat, endTime : Nat,
   sellerDeposit : Nat, startingPrice : Nat, dependencies : Dependencies]

CreationTypeOK ==
  /\ auctionCounter \in 0..NumAuctions
  /\ listing \in [Auctions -> Listing]

PhaseTypeOK ==
  /\ state \in [Auctions -> AuctionState]
  /\ slashAmount \in [Auctions -> Nat]
  /\ resolvingSince \in [Auctions -> Nat]
  /\ shieldedRefundsUnlocked \in [Auctions -> BOOLEAN]

OutcomeTypeOK ==
  /\ winner \in [Auctions -> 0..NumAccounts]
  /\ winningAmount \in [Auctions -> Nat]
  /\ winningIdentityHash \in [Auctions -> 0..NumIdentities]

BidTypeOK ==
  /\ encryptedBids \in [Auctions -> [Accounts -> Ciphertext]]
  /\ bidders \in [Auctions -> SUBSET Accounts]
  /\ shieldedEncryptedBids \in [Auctions -> [Commitments -> Ciphertext]]
  /\ shieldedBidders \in [Auctions -> SUBSET Commitments]
  /\ bidCount \in [Auctions -> 0..MaxBidCount]

RequestTypeOK ==
  /\ requestExists \in [Auctions -> BOOLEAN]
  /\ finalizationExecutors \in [Auctions -> 0..NumAccounts]
  /\ finalizationRewards \in [Auctions -> Nat]

ClaimTypeOK ==
  /\ sellerClaimed \in [Auctions -> BOOLEAN]
  /\ assetClaimed \in [Auctions -> BOOLEAN]
  /\ finalizationRewardClaimed \in [Auctions -> BOOLEAN]
  /\ shieldedRefundClaimed \in [Auctions -> SUBSET Commitments]

EscrowTypeOK ==
  /\ totalEscrow \in [Auctions -> Nat]
  /\ escrowBalances \in [Auctions -> [Accounts -> Nat]]
  /\ hasWithdrawn \in [Auctions -> [Accounts -> BOOLEAN]]

BalanceTypeOK == marketBalance \in Nat /\ donated \in Nat

(* Every variable has its type.                                            *)
TypeOK ==
  /\ ClockTypeOK /\ PotTypeOK /\ VaultTypeOK /\ RegistryTypeOK
  /\ dependencies \in Dependencies
  /\ CreationTypeOK /\ PhaseTypeOK /\ OutcomeTypeOK /\ BidTypeOK /\ RequestTypeOK
  /\ ClaimTypeOK /\ EscrowTypeOK /\ BalanceTypeOK
  /\ nftOwner \in [Tokens -> 0..NumAccounts]

NoListing ==
  [seller |-> 0, tokenId |-> 0, createdAt |-> 0, endTime |-> 0, sellerDeposit |-> 0,
   startingPrice |-> 0,
   dependencies |-> [settlementEngine |-> 0, slashedPot |-> 1,
                     shieldedEscrowVault |-> 0, shieldedIdentityRegistry |-> 0]]

(* After initialize and the deployment scripts: no auction, the configured *)
(* dependencies, and tokens in any hands.                                  *)
Init ==
  /\ ClockInit /\ PotInit /\ VaultInit /\ RegistryInit
  /\ dependencies = [settlementEngine |-> EngineAtStart, slashedPot |-> 1,
                     shieldedEscrowVault |-> VaultAtStart,
                     shieldedIdentityRegistry |-> RegistryAtStart]
  /\ auctionCounter = 0
  /\ listing = [a \in Auctions |-> NoListing]
  /\ state = [a \in Auctions |-> "CREATED"]
  /\ totalEscrow = [a \in Auctions |-> 0]
  /\ slashAmount = [a \in Auctions |-> 0]
  /\ resolvingSince = [a \in Auctions |-> 0]
  /\ winner = [a \in Auctions |-> 0]
  /\ winningAmount = [a \in Auctions |-> 0]
  /\ winningIdentityHash = [a \in Auctions |-> 0]
  /\ sellerClaimed = [a \in Auctions |-> FALSE]
  /\ assetClaimed = [a \in Auctions |-> FALSE]
  /\ encryptedBids = [a \in Auctions |-> [u \in Accounts |-> ZeroWord]]
  /\ bidders = [a \in Auctions |-> {}]
  /\ shieldedEncryptedBids = [a \in Auctions |-> [c \in Commitments |-> ZeroWord]]
  /\ shieldedBidders = [a \in Auctions |-> {}]
  /\ bidCount = [a \in Auctions |-> 0]
  /\ requestExists = [a \in Auctions |-> FALSE]
  /\ finalizationExecutors = [a \in Auctions |-> 0]
  /\ finalizationRewards = [a \in Auctions |-> 0]
  /\ finalizationRewardClaimed = [a \in Auctions |-> FALSE]
  /\ escrowBalances = [a \in Auctions |-> [u \in Accounts |-> 0]]
  /\ hasWithdrawn = [a \in Auctions |-> [u \in Accounts |-> FALSE]]
  /\ shieldedRefundsUnlocked = [a \in Auctions |-> FALSE]
  /\ shieldedRefundClaimed = [a \in Auctions |-> {}]
  /\ marketBalance = 0
  /\ donated = 0
  /\ nftOwner \in [Tokens -> Sellers]

-----------------------------------------------------------------------------
(* Helpers.                                                                *)

(* Auction storage auction.exists                                          *)
Exists(a) == a <= auctionCounter

(* The contracts an auction uses are those of its snapshot, whatever the   *)
(* owner configures later.                                                 *)
EngineOf(a) == listing[a].dependencies.settlementEngine

(* Mutant of PotOf: the pot configured now.                                *)
CurrentPot(a) == dependencies.slashedPot

PotOf(a) == listing[a].dependencies.slashedPot

(* Mutant of VaultOf: the vault configured now.                            *)
CurrentVault(a) == dependencies.shieldedEscrowVault

VaultOf(a) == listing[a].dependencies.shieldedEscrowVault
RegistryOf(a) == listing[a].dependencies.shieldedIdentityRegistry

(* decodeNumeric reverts on the other kinds.                               *)
Numeric(ct) == ct.kind \in {"EUINT32", "EUINT96"}

DEFAULT_DYNAMIC_TIMEOUT == 1800

PreviewDynamicTimeoutForAuction(a) ==
  IF EngineOf(a) = 0 THEN DEFAULT_DYNAMIC_TIMEOUT
  ELSE computeDynamicTimeout(movingAverageBlockDelta)

KEEPER_FINALIZE_REWARD_BPS == 20

ComputeFinalizeReward(deposit) ==
  (deposit * KEEPER_FINALIZE_REWARD_BPS) \div BPS_DENOMINATOR

ShieldedEscrowTotal(a) == IF VaultOf(a) = 0 THEN 0 ELSE auctionTotals[VaultOf(a)][a]

TotalEscrowIncludingShielded(a) == totalEscrow[a] + ShieldedEscrowTotal(a)

ComputeCancellationSlash(a) ==
  IF TotalEscrowIncludingShielded(a) = 0 THEN 0
  ELSE IF EngineOf(a) = 0 THEN listing[a].sellerDeposit \div 2
  ELSE computeCancellationSlash(listing[a].sellerDeposit,
         now - listing[a].createdAt,
         listing[a].endTime - listing[a].createdAt,
         TotalEscrowIncludingShielded(a))

(* Mutant of ComputeVoidSlash: the reserved reward is slashed as well.     *)
VoidSlashWholeDeposit(a) ==
  IF TotalEscrowIncludingShielded(a) = 0 THEN 0 ELSE listing[a].sellerDeposit

(* The deposit less the reserved reward is lost when bidders were let down. *)
ComputeVoidSlash(a) ==
  IF TotalEscrowIncludingShielded(a) = 0 THEN 0
  ELSE SaturatingSub(listing[a].sellerDeposit, finalizationRewards[a])

(* Mutant of PreviewEscrowRefund: refunds open when resolution starts.     *)
RefundWhileResolving(a, u) ==
  IF state[a] = "RESOLVING" THEN escrowBalances[a][u]
  ELSE IF state[a] = "FINALIZED" /\ u = winner[a]
    THEN computeWinningRefund(escrowBalances[a][u], winningAmount[a])
    ELSE escrowBalances[a][u]

(* previewRefund, its two results.                                         *)
PreviewEscrowRefund(a, u) ==
  CASE state[a] = "FINALIZED" /\ u = winner[a] ->
         computeWinningRefund(escrowBalances[a][u], winningAmount[a])
    [] state[a] \in Terminal /\ ~(state[a] = "FINALIZED" /\ u = winner[a]) ->
         escrowBalances[a][u]
    [] OTHER -> 0

PreviewCompensation(a, u) ==
  IF /\ state[a] \in {"CANCELLED", "VOIDED"}
     /\ escrowBalances[a][u] # 0
     /\ slashAmount[a] # 0
    THEN Pot_previewClaim(PotOf(a), a, escrowBalances[a][u])
    ELSE 0

PreviewSellerPayout(a) ==
  CASE state[a] = "FINALIZED" ->
         SaturatingSub(computeSellerPayout(listing[a].sellerDeposit, winningAmount[a]),
                       finalizationRewards[a])
    [] state[a] = "CANCELLED" ->
         computeSellerCancellationPayout(listing[a].sellerDeposit, slashAmount[a])
    [] state[a] = "VOIDED" ->
         IF slashAmount[a] # 0 \/ TotalEscrowIncludingShielded(a) # 0 THEN 0
         ELSE SaturatingSub(listing[a].sellerDeposit, finalizationRewards[a])
    [] OTHER -> 0

(* _transitionState                                                        *)
ValidTransition(from, to) ==
  \/ from = "CREATED" /\ to = "ACTIVE"
  \/ from = "ACTIVE" /\ to \in {"RESOLVING", "CANCELLED"}
  \/ from = "RESOLVING" /\ to \in {"FINALIZED", "VOIDED"}

TransitionState(a, next) ==
  /\ ValidTransition(state[a], next)
  /\ state' = [state EXCEPT ![a] = next]

(* _sendValue: reverts when the market cannot pay or the recipient refuses. *)
SendValue(u, amount) ==
  /\ u \notin RejectsValue
  /\ amount <= marketBalance
  /\ marketBalance' = marketBalance - amount

(* Mutant of LockIntoEscrow: the owner of the token is not checked.        *)
LockAnyToken(t, u) == nftOwner' = [nftOwner EXCEPT ![t] = Market]

(* The ownerOf check of createAuction and NFTGuard.lockIntoEscrow.         *)
LockIntoEscrow(t, u) ==
  /\ nftOwner[t] = u
  /\ nftOwner' = [nftOwner EXCEPT ![t] = Market]

(* NFTGuard.releaseFromEscrow: safeTransferFrom out of the market.         *)
ReleaseFromEscrow(t, recipient) ==
  /\ nftOwner[t] = Market
  /\ recipient \notin RejectsToken
  /\ nftOwner' = [nftOwner EXCEPT ![t] = recipient]

(* _registerSlash: the slash goes to the vault, which keeps the shielded   *)
(* bidders' part and hands the rest back for the pot.                      *)
RegisterSlash(a, slash) ==
  LET v == VaultOf(a)
      public == IF v = 0 THEN slash
                ELSE PublicSlashAllocation(v, a, slash, totalEscrow[a]) IN
  /\ slash <= marketBalance
  /\ marketBalance' = marketBalance - slash
  /\ IF slash # 0 /\ v # 0
       THEN Vault_allocateSlash(v, a, slash, totalEscrow[a])
       ELSE UNCHANGED <<shieldedSlashReserves, vaultBalance>>
  /\ IF slash # 0 /\ public # 0
       THEN Pot_registerSlash(PotOf(a), a, totalEscrow[a], public)
       ELSE UNCHANGED potVars

(* Mutant of OpenShieldedRefundPath: the vault is not told.                *)
OpenRefundPathInMarketOnly(a) ==
  /\ shieldedRefundsUnlocked' =
       [shieldedRefundsUnlocked EXCEPT ![a] = @ \/ VaultOf(a) # 0]
  /\ UNCHANGED refundsUnlocked

(* _openShieldedRefundPath                                                 *)
OpenShieldedRefundPath(a) ==
  IF shieldedRefundsUnlocked[a] \/ VaultOf(a) = 0
    THEN UNCHANGED <<shieldedRefundsUnlocked, refundsUnlocked>>
    ELSE /\ shieldedRefundsUnlocked' = [shieldedRefundsUnlocked EXCEPT ![a] = TRUE]
         /\ Vault_unlockRefunds(VaultOf(a), a)

-----------------------------------------------------------------------------
(* Configuration by the owner.                                             *)

SetDependencies(next) ==
  /\ dependencies' = next
  /\ UNCHANGED <<clockVars, potVars, vaultVars, registryVars, creationVars, phaseVars,
                 outcomeVars, bidVars, requestVars, claimFlags, escrowVars, balanceVars,
                 nftOwner>>

setSettlementEngine == SetDependencies([dependencies EXCEPT !.settlementEngine = 1])

setSlashedPot(p) == SetDependencies([dependencies EXCEPT !.slashedPot = p])

setShieldedEscrowVault(v) ==
  SetDependencies([dependencies EXCEPT !.shieldedEscrowVault = v])

setShieldedIdentityRegistry(r) ==
  SetDependencies([dependencies EXCEPT !.shieldedIdentityRegistry = r])

(* The owners of the other contracts point them at the market.             *)
WireContracts ==
  /\ \/ /\ \E p \in Pots : Pot_setMarket(p)
        /\ UNCHANGED <<vaultVars, registryVars>>
     \/ /\ \E v \in Vaults :
             Vault_setMarket(v) \/ \E k \in Verifiers : Vault_setShieldedBidVerifier(v, k)
        /\ UNCHANGED <<potVars, registryVars>>
     \/ /\ \E r \in Registries : Registry_setMarket(r)
        /\ UNCHANGED <<potVars, vaultVars>>
  /\ UNCHANGED <<clockVars, dependencies, creationVars, phaseVars, outcomeVars, bidVars,
                 requestVars, claimFlags, escrowVars, balanceVars, nftOwner>>

-----------------------------------------------------------------------------
(* Bidding.                                                                *)

(* Both overloads of createAuction: the short one has startingPrice 0.     *)
(* The seller's approval of the transfer is a choice of the seller.        *)
createAuction(u, t, duration, startingPrice, deposit) ==
  LET a == auctionCounter + 1 IN
  /\ a <= NumAuctions
  /\ duration \in MIN_AUCTION_DURATION..MAX_AUCTION_DURATION
  /\ startingPrice <= MaxConfidentialBidValue
  /\ deposit # 0
  /\ auctionCounter' = a
  /\ listing' = [listing EXCEPT ![a] =
       [seller |-> u, tokenId |-> t, createdAt |-> now, endTime |-> now + duration,
        sellerDeposit |-> deposit, startingPrice |-> startingPrice,
        dependencies |-> dependencies]]
  /\ ObserveNetwork
  /\ TransitionState(a, "ACTIVE")
  /\ LockIntoEscrow(t, u)
  /\ marketBalance' = marketBalance + deposit
  /\ UNCHANGED <<potVars, vaultVars, registryVars, dependencies, slashAmount, resolvingSince,
                 shieldedRefundsUnlocked, outcomeVars, bidVars, requestVars, claimFlags,
                 escrowVars, donated>>

(* Mutant of OpenForBids: the end time is not checked.                     *)
OpenWhileActive(a) == Exists(a) /\ state[a] = "ACTIVE"

(* auctionExists, onlyAuctionState(ACTIVE) and the end-time check.         *)
OpenForBids(a) == Exists(a) /\ state[a] = "ACTIVE" /\ now < listing[a].endTime

lockEscrow(u, a, value) ==
  /\ OpenForBids(a)
  /\ value # 0
  /\ escrowBalances[a][u] + value <= MaxEscrow
  /\ escrowBalances' = [escrowBalances EXCEPT ![a][u] = @ + value]
  /\ totalEscrow' = [totalEscrow EXCEPT ![a] = @ + value]
  /\ ObserveNetwork
  /\ marketBalance' = marketBalance + value
  /\ UNCHANGED <<potVars, vaultVars, registryVars, dependencies, creationVars, phaseVars,
                 outcomeVars, bidVars, requestVars, claimFlags, hasWithdrawn, donated, nftOwner>>

(* The value passes straight through to the vault.                         *)
lockShieldedEscrow(a, i, c, claimAuthority, value) ==
  /\ OpenForBids(a)
  /\ value # 0
  /\ VaultOf(a) # 0
  /\ RegistryOf(a) # 0
  /\ ObserveNetwork
  /\ Registry_bindIdentity(RegistryOf(a), a, i, c)
  /\ Vault_lockEscrow(VaultOf(a), a, c, claimAuthority, value)
  /\ UNCHANGED <<potVars, dependencies, creationVars, phaseVars, outcomeVars, bidVars,
                 requestVars, claimFlags, escrowVars, balanceVars, nftOwner>>

(* Mutant of MeetsStartingPrice: the floor itself is off by one.           *)
MeetsStartingPriceLessOne(a, ct) ==
  listing[a].startingPrice # 0 => Numeric(ct) /\ ct.payload >= listing[a].startingPrice - 1

(* gt(encryptedBid, startingPrice - 1), skipped when there is no minimum.  *)
MeetsStartingPrice(a, ct) ==
  listing[a].startingPrice # 0 => Numeric(ct) /\ ct.payload >= listing[a].startingPrice

(* Mutant of IsFirstBid: a replacement counts as a new bid.                *)
EveryBidIsFirst(word) == TRUE

(* An empty slot: the bid is counted.                                      *)
IsFirstBid(word) == word = ZeroWord

placeBid(u, a, ct) ==
  /\ OpenForBids(a)
  /\ escrowBalances[a][u] # 0
  /\ MeetsStartingPrice(a, ct)
  /\ Numeric(ct) /\ ct.payload <= escrowBalances[a][u]
  /\ IsFirstBid(encryptedBids[a][u]) => bidCount[a] < MaxBidCount
  /\ bidCount' = [bidCount EXCEPT ![a] = IF IsFirstBid(encryptedBids[a][u]) THEN @ + 1 ELSE @]
  /\ bidders' = [bidders EXCEPT ![a] = @ \cup {u}]
  /\ encryptedBids' = [encryptedBids EXCEPT ![a][u] = ct]
  /\ ObserveNetwork
  /\ UNCHANGED <<potVars, vaultVars, registryVars, dependencies, creationVars, phaseVars,
                 outcomeVars, shieldedEncryptedBids, shieldedBidders, requestVars, claimFlags,
                 escrowVars, balanceVars, nftOwner>>

placeShieldedBid(a, c, ct, deadline) ==
  LET v == VaultOf(a) IN
  /\ OpenForBids(a)
  /\ v # 0
  /\ commitments[v][c].auctionId = a /\ ~commitments[v][c].claimed
  /\ ~refundsUnlocked[v][a]
  /\ MeetsStartingPrice(a, ct)
  /\ BidCovered(v, c, Numeric(ct), ct.payload, deadline, now)
  /\ IsFirstBid(shieldedEncryptedBids[a][c]) => bidCount[a] < MaxBidCount
  /\ bidCount' = [bidCount EXCEPT ![a] =
                    IF IsFirstBid(shieldedEncryptedBids[a][c]) THEN @ + 1 ELSE @]
  /\ shieldedBidders' = [shieldedBidders EXCEPT ![a] = @ \cup {c}]
  /\ shieldedEncryptedBids' = [shieldedEncryptedBids EXCEPT ![a][c] = ct]
  /\ ObserveNetwork
  /\ UNCHANGED <<potVars, vaultVars, registryVars, dependencies, creationVars, phaseVars,
                 outcomeVars, encryptedBids, bidders, requestVars, claimFlags, escrowVars,
                 balanceVars, nftOwner>>

-----------------------------------------------------------------------------
(* Resolution.                                                             *)

(* The vault's state that neither a slash nor an unlocking touches.        *)
vaultRecords == <<commitments, auctionTotals, winningCommitments, usedClaimAuthorizations,
                  shieldedBidVerifier, vaultWired>>

(* Anyone may trigger; the caller is recorded for the reward.  The ids and *)
(* the salt of the request are opaque.                                     *)
triggerFinalize(u, a) ==
  /\ Exists(a)
  /\ now >= listing[a].endTime
  /\ ~requestExists[a]
  /\ ObserveNetwork
  /\ TransitionState(a, "RESOLVING")
  /\ resolvingSince' = [resolvingSince EXCEPT ![a] = now]
  /\ finalizationExecutors' = [finalizationExecutors EXCEPT ![a] = u]
  /\ finalizationRewards' = [finalizationRewards EXCEPT ![a] =
                               ComputeFinalizeReward(listing[a].sellerDeposit)]
  /\ requestExists' = [requestExists EXCEPT ![a] = TRUE]
  /\ UNCHANGED <<potVars, vaultVars, registryVars, dependencies, creationVars, slashAmount,
                 shieldedRefundsUnlocked, outcomeVars, bidVars, claimFlags, escrowVars,
                 balanceVars, nftOwner>>

(* Mutant of ResolutionAdmissible: the price is not compared with escrow.  *)
PriceNotCompared(a, w, ct, amount) ==
  IF w = 0 THEN amount = 0
  ELSE /\ amount # 0
       /\ amount >= listing[a].startingPrice
       /\ encryptedBids[a][w] # ZeroWord
       /\ Numeric(ct) /\ ct.payload <= escrowBalances[a][w]

(* What the market itself checks of a public outcome before it asks the    *)
(* AVS: no price without a winner, and a winner with a bid who can pay.    *)
ResolutionAdmissible(a, w, ct, amount) ==
  IF w = 0 THEN amount = 0
  ELSE /\ amount # 0
       /\ amount >= listing[a].startingPrice
       /\ encryptedBids[a][w] # ZeroWord
       /\ Numeric(ct) /\ ct.payload <= escrowBalances[a][w]
       /\ amount <= escrowBalances[a][w]

(* The outcome is whatever a quorum of operators attests; a rejected proof *)
(* leaves the market as it is.                                             *)
submitResolution(a, w, ct, amount) ==
  /\ Exists(a)
  /\ state[a] = "RESOLVING"
  /\ requestExists[a]
  /\ EngineOf(a) # 0
  /\ ResolutionAdmissible(a, w, ct, amount)
  /\ winner' = [winner EXCEPT ![a] = w]
  /\ winningAmount' = [winningAmount EXCEPT ![a] = amount]
  /\ requestExists' = [requestExists EXCEPT ![a] = FALSE]
  /\ ObserveNetwork
  /\ TransitionState(a, "FINALIZED")
  /\ OpenShieldedRefundPath(a)
  /\ UNCHANGED <<potVars, vaultRecords, shieldedSlashReserves, vaultBalance, registryVars,
                 dependencies, creationVars, slashAmount, resolvingSince, winningIdentityHash,
                 bidVars, finalizationExecutors, finalizationRewards, claimFlags, escrowVars,
                 balanceVars, nftOwner>>

(* _validateShieldedResolutionBid: the identity is bound to a commitment   *)
(* of this auction whose stored bid is the attested ciphertext.            *)
ShieldedResolutionAdmissible(a, i, c, ct, amount) ==
  /\ amount # 0
  /\ amount >= listing[a].startingPrice
  /\ RegistryOf(a) # 0
  /\ c # 0 /\ c = identityToCommitment[RegistryOf(a)][a][i]
  /\ shieldedEncryptedBids[a][c] # ZeroWord
  /\ shieldedEncryptedBids[a][c] = ct
  /\ VaultOf(a) # 0
  /\ commitments[VaultOf(a)][c].auctionId = a
  /\ ~commitments[VaultOf(a)][c].claimed

submitShieldedResolution(a, i, c, ct, amount) ==
  /\ Exists(a)
  /\ state[a] = "RESOLVING"
  /\ requestExists[a]
  /\ EngineOf(a) # 0
  /\ ShieldedResolutionAdmissible(a, i, c, ct, amount)
  /\ winner' = [winner EXCEPT ![a] = 0]
  /\ winningAmount' = [winningAmount EXCEPT ![a] = amount]
  /\ winningIdentityHash' = [winningIdentityHash EXCEPT ![a] = i]
  /\ requestExists' = [requestExists EXCEPT ![a] = FALSE]
  /\ TransitionState(a, "FINALIZED")
  /\ ObserveNetwork
  /\ Vault_settleWinningCommitment(VaultOf(a), a, c, amount)
  /\ marketBalance' = marketBalance + amount
  /\ OpenShieldedRefundPath(a)
  /\ Registry_markWinningIdentity(RegistryOf(a), a, i)
  /\ UNCHANGED <<potVars, shieldedSlashReserves, usedClaimAuthorizations, shieldedBidVerifier,
                 vaultWired, dependencies, creationVars, slashAmount, resolvingSince, bidVars,
                 finalizationExecutors, finalizationRewards, claimFlags, escrowVars, donated,
                 nftOwner>>

cancelAuction(u, a) ==
  LET slash == ComputeCancellationSlash(a) IN
  /\ OpenForBids(a)
  /\ u = listing[a].seller
  /\ slashAmount' = [slashAmount EXCEPT ![a] = slash]
  /\ ObserveNetwork
  /\ TransitionState(a, "CANCELLED")
  /\ RegisterSlash(a, slash)
  /\ OpenShieldedRefundPath(a)
  /\ ReleaseFromEscrow(listing[a].tokenId, listing[a].seller)
  /\ UNCHANGED <<vaultRecords, registryVars, dependencies, creationVars, resolvingSince,
                 outcomeVars, bidVars, requestVars, claimFlags, escrowVars, donated>>

(* Anyone may void an auction whose resolution is overdue.                 *)
triggerFallbackVoid(a) ==
  LET slash == ComputeVoidSlash(a) IN
  /\ Exists(a)
  /\ state[a] = "RESOLVING"
  /\ now - resolvingSince[a] >= PreviewDynamicTimeoutForAuction(a)
  /\ slashAmount' = [slashAmount EXCEPT ![a] = slash]
  /\ ObserveNetwork
  /\ requestExists' = [requestExists EXCEPT ![a] = FALSE]
  /\ TransitionState(a, "VOIDED")
  /\ RegisterSlash(a, slash)
  /\ OpenShieldedRefundPath(a)
  /\ ReleaseFromEscrow(listing[a].tokenId, listing[a].seller)
  /\ UNCHANGED <<vaultRecords, registryVars, dependencies, creationVars, resolvingSince,
                 outcomeVars, bidVars, finalizationExecutors, finalizationRewards, claimFlags,
                 escrowVars, donated>>

-----------------------------------------------------------------------------
(* Claims: every party pulls what it is owed.                              *)

claimRefund(u, a) ==
  LET escrowRefund == PreviewEscrowRefund(a, u)
      compensation == PreviewCompensation(a, u) IN
  /\ Exists(a)
  /\ ~hasWithdrawn[a][u]
  /\ escrowRefund # 0 \/ compensation # 0
  /\ hasWithdrawn' = [hasWithdrawn EXCEPT ![a][u] = TRUE]
  /\ IF escrowRefund # 0
       THEN /\ escrowBalances' = [escrowBalances EXCEPT ![a][u] = 0]
            /\ SendValue(u, escrowRefund)
       ELSE UNCHANGED <<escrowBalances, marketBalance>>
  /\ IF compensation # 0
       THEN Pot_claimFor(PotOf(a), a, u, escrowRefund)
       ELSE UNCHANGED potVars
  /\ UNCHANGED <<clockVars, vaultVars, registryVars, dependencies, creationVars, phaseVars,
                 outcomeVars, bidVars, requestVars, claimFlags, totalEscrow, donated, nftOwner>>

claimSellerProceeds(u, a) ==
  /\ Exists(a)
  /\ u = listing[a].seller
  /\ ~sellerClaimed[a]
  /\ PreviewSellerPayout(a) # 0
  /\ sellerClaimed' = [sellerClaimed EXCEPT ![a] = TRUE]
  /\ SendValue(u, PreviewSellerPayout(a))
  /\ UNCHANGED <<clockVars, potVars, vaultVars, registryVars, dependencies, creationVars,
                 phaseVars, outcomeVars, bidVars, requestVars, assetClaimed,
                 finalizationRewardClaimed, shieldedRefundClaimed, escrowVars, donated, nftOwner>>

claimFinalizeReward(u, a) ==
  /\ Exists(a)
  /\ u = finalizationExecutors[a]
  /\ ~finalizationRewardClaimed[a]
  /\ state[a] \in {"FINALIZED", "VOIDED"}
  /\ finalizationRewardClaimed' = [finalizationRewardClaimed EXCEPT ![a] = TRUE]
  /\ IF finalizationRewards[a] # 0
       THEN SendValue(u, finalizationRewards[a])
       ELSE UNCHANGED marketBalance
  /\ UNCHANGED <<clockVars, potVars, vaultVars, registryVars, dependencies, creationVars,
                 phaseVars, outcomeVars, bidVars, requestVars, sellerClaimed, assetClaimed,
                 shieldedRefundClaimed, escrowVars, donated, nftOwner>>

(* The winner, or the seller when there is none, takes the token.          *)
claimAsset(u, a) ==
  /\ Exists(a)
  /\ state[a] = "FINALIZED"
  /\ ~assetClaimed[a]
  /\ winningIdentityHash[a] = 0
  /\ u = IF winner[a] = 0 THEN listing[a].seller ELSE winner[a]
  /\ assetClaimed' = [assetClaimed EXCEPT ![a] = TRUE]
  /\ ReleaseFromEscrow(listing[a].tokenId, u)
  /\ UNCHANGED <<clockVars, potVars, vaultVars, registryVars, dependencies, creationVars,
                 phaseVars, outcomeVars, bidVars, requestVars, sellerClaimed,
                 finalizationRewardClaimed, shieldedRefundClaimed, escrowVars, balanceVars>>

(* claimShieldedAssetWithAuthorization, sent by anyone who holds a         *)
(* signature of the winning commitment's claim authority.                  *)
claimShieldedAsset(a, recipient, deadline, signer) ==
  LET c == identityToCommitment[RegistryOf(a)][a][winningIdentityHash[a]] IN
  /\ Exists(a)
  /\ state[a] = "FINALIZED"
  /\ ~assetClaimed[a]
  /\ VaultOf(a) # 0
  /\ winningIdentityHash[a] # 0
  /\ RegistryOf(a) # 0
  /\ c # 0
  /\ assetClaimed' = [assetClaimed EXCEPT ![a] = TRUE]
  /\ Vault_authorizeAssetClaim(VaultOf(a), a, c, recipient, deadline, signer, now)
  /\ ReleaseFromEscrow(listing[a].tokenId, recipient)
  /\ UNCHANGED <<clockVars, potVars, registryVars, dependencies, creationVars, phaseVars,
                 outcomeVars, bidVars, requestVars, sellerClaimed, finalizationRewardClaimed,
                 shieldedRefundClaimed, escrowVars, balanceVars>>

(* The vault's claimRefundWithAuthorization with the market's              *)
(* settleShieldedRefund, which it calls for the commitment's auction.      *)
claimShieldedRefund(v, c, recipient, deadline, signer) ==
  LET a == commitments[v][c].auctionId IN
  /\ Vault_claimRefundWithAuthorization(v, c, recipient, deadline, signer, now)
  /\ vaultWired[v]
  /\ Exists(a)
  /\ VaultOf(a) = v
  /\ c \notin shieldedRefundClaimed[a]
  /\ state[a] \in Terminal
  /\ shieldedRefundsUnlocked[a]
  /\ shieldedRefundClaimed' = [shieldedRefundClaimed EXCEPT ![a] = @ \cup {c}]
  /\ UNCHANGED <<clockVars, potVars, registryVars, dependencies, creationVars, phaseVars,
                 outcomeVars, bidVars, requestVars, sellerClaimed, assetClaimed,
                 finalizationRewardClaimed, escrowVars, balanceVars, nftOwner>>

-----------------------------------------------------------------------------
(* The environment.                                                        *)

(* receive(): value that belongs to no auction.                            *)
receive(value) ==
  /\ donated + value <= MaxDonated
  /\ donated' = donated + value
  /\ marketBalance' = marketBalance + value
  /\ UNCHANGED <<clockVars, potVars, vaultVars, registryVars, dependencies, creationVars,
                 phaseVars, outcomeVars, bidVars, requestVars, claimFlags, escrowVars, nftOwner>>

(* A token changes hands outside the market.  The market takes one from    *)
(* anybody: onERC721Received accepts every transfer.                       *)
TransferToken(t, u) ==
  /\ nftOwner[t] # Market
  /\ nftOwner' = [nftOwner EXCEPT ![t] = u]
  /\ UNCHANGED <<clockVars, potVars, vaultVars, registryVars, dependencies, creationVars,
                 phaseVars, outcomeVars, bidVars, requestVars, claimFlags, escrowVars, balanceVars>>

NewBlock ==
  /\ Tick
  /\ UNCHANGED <<potVars, vaultVars, registryVars, dependencies, creationVars, phaseVars,
                 outcomeVars, bidVars, requestVars, claimFlags, escrowVars, balanceVars, nftOwner>>

Configure ==
  \/ setSettlementEngine
  \/ \E p \in Pots : setSlashedPot(p)
  \/ \E v \in Vaults : setShieldedEscrowVault(v)
  \/ \E r \in Registries : setShieldedIdentityRegistry(r)
  \/ WireContracts

Bid(a) ==
  \/ \E u \in Bidders, value \in EscrowAmounts : lockEscrow(u, a, value)
  \/ \E u \in Bidders, ct \in BidCiphertexts : placeBid(u, a, ct)
  \/ \E i \in Identities, c \in Commitments, s \in Authorities, value \in ShieldedAmounts :
       lockShieldedEscrow(a, i, c, s, value)
  \/ \E c \in Commitments, ct \in BidCiphertexts, d \in Deadlines :
       placeShieldedBid(a, c, ct, d)

Resolve(a) ==
  \/ \E u \in Executors : triggerFinalize(u, a)
  \/ \E w \in 0..NumAccounts, ct \in BidCiphertexts, amount \in WinningAmounts :
       submitResolution(a, w, ct, amount)
  \/ \E i \in Identities, c \in Commitments, ct \in BidCiphertexts, amount \in WinningAmounts :
       submitShieldedResolution(a, i, c, ct, amount)
  \/ \E u \in Sellers : cancelAuction(u, a)
  \/ triggerFallbackVoid(a)

Claim(a) ==
  \/ \E u \in Accounts :
       \/ claimRefund(u, a)
       \/ claimSellerProceeds(u, a)
       \/ claimFinalizeReward(u, a)
       \/ claimAsset(u, a)
  \/ \E u \in Recipients, d \in Deadlines, s \in Authorities : claimShieldedAsset(a, u, d, s)

Next ==
  \/ NewBlock
  \/ Configure
  \/ \E u \in Sellers, t \in Tokens, d \in Durations, p \in StartingPrices, e \in Deposits :
       createAuction(u, t, d, p, e)
  \/ \E a \in Auctions : Bid(a) \/ Resolve(a) \/ Claim(a)
  \/ \E v \in Vaults, c \in Commitments, u \in Recipients, d \in Deadlines, s \in Authorities :
       claimShieldedRefund(v, c, u, d, s)
  \/ \E value \in Donations : receive(value)
  \/ \E t \in Tokens, u \in TokenRecipients : TransferToken(t, u)

Spec == Init /\ [][Next]_vars
=============================================================================
