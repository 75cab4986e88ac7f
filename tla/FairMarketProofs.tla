-------------------------- MODULE FairMarketProofs --------------------------
(***************************************************************************)
(* Type correctness of the market and of the contracts it calls, for every *)
(* number of auctions, accounts, commitments, pots, vaults and tokens.     *)
(* TypeOK is inductive: the guards (a balance covers a payment, a vault    *)
(* total covers a refund) keep every difference a natural number.          *)
(***************************************************************************)
EXTENDS FairMarketProperties, ArithmeticProofs

(* No auction was created in the future or ends before its creation: the   *)
(* differences in _computeCancellationSlash do not underflow.              *)
ListingTimes ==
  \A a \in Auctions :
    listing[a].createdAt <= now /\ listing[a].createdAt <= listing[a].endTime

-----------------------------------------------------------------------------
(* What a step leaves alone keeps its type.                                *)

LEMMA Untouched ==
  ASSUME TypeOK
  PROVE  /\ UNCHANGED clockVars => ClockTypeOK'
         /\ UNCHANGED potVars => PotTypeOK'
         /\ UNCHANGED vaultVars => VaultTypeOK'
         /\ UNCHANGED registryVars => RegistryTypeOK'
         /\ UNCHANGED creationVars => CreationTypeOK'
         /\ UNCHANGED phaseVars => PhaseTypeOK'
         /\ UNCHANGED outcomeVars => OutcomeTypeOK'
         /\ UNCHANGED bidVars => BidTypeOK'
         /\ UNCHANGED requestVars => RequestTypeOK'
         /\ UNCHANGED claimFlags => ClaimTypeOK'
         /\ UNCHANGED escrowVars => EscrowTypeOK'
         /\ UNCHANGED balanceVars => BalanceTypeOK'
BY DEF TypeOK, ClockTypeOK, PotTypeOK, VaultTypeOK, RegistryTypeOK, CreationTypeOK,
       PhaseTypeOK, OutcomeTypeOK, BidTypeOK, RequestTypeOK, ClaimTypeOK, EscrowTypeOK,
       BalanceTypeOK, clockVars, potVars, vaultVars, registryVars, creationVars, phaseVars,
       outcomeVars, bidVars, requestVars, claimFlags, escrowVars, balanceVars

-----------------------------------------------------------------------------
(* The parts of a step.                                                    *)

(* An average of samples stays within the ceiling (_observeNetwork).       *)
LEMMA ObserveNetworkType ==
  ASSUME ClockTypeOK, ObserveNetwork
  PROVE  ClockTypeOK'
BY DEF ClockTypeOK, ObserveNetwork, NextAverage, IsSample, NETWORK_SAMPLE_CEILING

(* An auction's snapshot points to deployed contracts or to none.          *)
LEMMA SnapshotType ==
  ASSUME TypeOK, NEW a \in Auctions
  PROVE  /\ EngineOf(a) \in {0, 1}
         /\ PotOf(a) \in Pots
         /\ VaultOf(a) \in 0..NumVaults /\ (VaultOf(a) # 0 => VaultOf(a) \in Vaults)
         /\ RegistryOf(a) \in 0..NumRegistries
         /\ RegistryOf(a) # 0 => RegistryOf(a) \in Registries
         /\ listing[a].seller \in 0..NumAccounts /\ listing[a].tokenId \in 0..NumTokens
         /\ listing[a].createdAt \in Nat /\ listing[a].endTime \in Nat
         /\ listing[a].sellerDeposit \in Nat /\ listing[a].startingPrice \in Nat
<1>1. listing[a] \in Listing
  BY DEF TypeOK, CreationTypeOK
<1>2. listing[a].dependencies \in Dependencies
  BY <1>1 DEF Listing
<1> QED
  BY <1>1, <1>2, VaultAssumption, RegistryAssumption
     DEF Listing, Dependencies, EngineOf, PotOf, VaultOf, RegistryOf, Vaults, Registries

(* The finalization reward is less than the deposit it is taken from.      *)
LEMMA FinalizeRewardRange ==
  ASSUME NEW deposit \in Nat
  PROVE  /\ ComputeFinalizeReward(deposit) \in 0..deposit
         /\ deposit # 0 => ComputeFinalizeReward(deposit) < deposit
BY DEF ComputeFinalizeReward, KEEPER_FINALIZE_REWARD_BPS, BPS_DENOMINATOR

LEMMA TransitionStateType ==
  ASSUME TypeOK, NEW a \in Auctions, NEW next \in AuctionState, TransitionState(a, next)
  PROVE  state' \in [Auctions -> AuctionState]
BY DEF TypeOK, PhaseTypeOK, TransitionState

-----------------------------------------------------------------------------
(* The slashed pot.                                                        *)

LEMMA Pot_setMarketType ==
  ASSUME PotTypeOK, NEW p \in Pots, Pot_setMarket(p)
  PROVE  PotTypeOK'
BY DEF PotTypeOK, Pot_setMarket

LEMMA Pot_registerSlashType ==
  ASSUME PotTypeOK, NEW p \in Pots, NEW a \in Auctions, NEW escrow \in Nat, NEW value \in Nat,
         Pot_registerSlash(p, a, escrow, value)
  PROVE  PotTypeOK'
<1>1. pots[p][a] \in Pot /\ potBalance[p] \in Nat
  BY DEF PotTypeOK
<1>2. [exists |-> TRUE,
       totalEscrow |-> IF pots[p][a].exists THEN pots[p][a].totalEscrow ELSE escrow,
       totalSlash |-> pots[p][a].totalSlash + value] \in Pot
  BY <1>1 DEF Pot
<1>3. pots' \in [Pots -> [Auctions -> Pot]]
  BY <1>2 DEF PotTypeOK, Pot_registerSlash
<1> QED
  BY <1>1, <1>3 DEF PotTypeOK, Pot_registerSlash

LEMMA Pot_previewClaimNat ==
  ASSUME PotTypeOK, NEW p \in Pots, NEW a \in Auctions, NEW contribution \in Nat
  PROVE  Pot_previewClaim(p, a, contribution) \in Nat
<1>1. pots[p][a].totalEscrow \in Nat /\ pots[p][a].totalSlash \in Nat
  BY DEF PotTypeOK, Pot
<1> QED
  BY <1>1, ProRataShareNat DEF Pot_previewClaim

LEMMA Pot_claimForType ==
  ASSUME PotTypeOK, NEW p \in Pots, NEW a \in Auctions, NEW u \in Accounts,
         NEW contribution \in Nat, Pot_claimFor(p, a, u, contribution)
  PROVE  PotTypeOK'
<1> DEFINE amount == Pot_previewClaim(p, a, contribution)
<1>1. amount \in Nat /\ potBalance[p] \in Nat
  BY Pot_previewClaimNat DEF PotTypeOK
<1>2. amount # 0 => amount <= potBalance[p]
  BY DEF Pot_claimFor
<1>3. potBalance' = [potBalance EXCEPT ![p] = @ - amount]
  BY DEF Pot_claimFor
<1> HIDE DEF amount
<1>4. potBalance' \in [Pots -> Nat]
  BY <1>1, <1>2, <1>3 DEF PotTypeOK
<1>5. hasClaimedCompensation' \in [Pots -> [Auctions -> [Accounts -> BOOLEAN]]]
  BY DEF PotTypeOK, Pot_claimFor
<1> QED
  BY <1>4, <1>5 DEF PotTypeOK, Pot_claimFor

-----------------------------------------------------------------------------
(* The shielded vault.                                                     *)

LEMMA Vault_setMarketType ==
  ASSUME VaultTypeOK, NEW v \in Vaults, Vault_setMarket(v)
  PROVE  VaultTypeOK'
BY DEF VaultTypeOK, Vault_setMarket

LEMMA Vault_setShieldedBidVerifierType ==
  ASSUME VaultTypeOK, NEW v \in Vaults, NEW kind \in VerifierKind,
         Vault_setShieldedBidVerifier(v, kind)
  PROVE  VaultTypeOK'
BY DEF VaultTypeOK, Vault_setShieldedBidVerifier

LEMMA Vault_lockEscrowType ==
  ASSUME VaultTypeOK, NEW v \in Vaults, NEW a \in Auctions, NEW c \in Commitments,
         NEW claimAuthority \in Accounts, NEW value \in Nat,
         Vault_lockEscrow(v, a, c, claimAuthority, value)
  PROVE  VaultTypeOK'
<1>1. commitments[v][c].claimed \in BOOLEAN
  BY DEF VaultTypeOK, CommitmentDeposit
<1>2. [auctionId |-> a, amount |-> value, claimed |-> commitments[v][c].claimed,
       claimAuthority |-> claimAuthority] \in CommitmentDeposit
  BY <1>1, DomainAssumption DEF CommitmentDeposit, Auctions, Accounts
<1>3. commitments' \in [Vaults -> [Commitments -> CommitmentDeposit]]
  BY <1>2 DEF VaultTypeOK, Vault_lockEscrow
<1>4. auctionTotals' \in [Vaults -> [Auctions -> Nat]] /\ vaultBalance' \in [Vaults -> Nat]
  BY DEF VaultTypeOK, Vault_lockEscrow
<1> QED
  BY <1>3, <1>4 DEF VaultTypeOK, Vault_lockEscrow

(* The public part of a slash is a part of it (allocateSlash).             *)
LEMMA PublicSlashAllocationRange ==
  ASSUME VaultTypeOK, NEW v \in Vaults, NEW a \in Auctions, NEW value \in Nat,
         NEW publicEscrow \in Nat
  PROVE  PublicSlashAllocation(v, a, value, publicEscrow) \in 0..value
<1> DEFINE total == auctionTotals[v][a]
           x == value * publicEscrow
           d == publicEscrow + total
<1>1. total \in Nat
  BY DEF VaultTypeOK
<1>2. CASE total = 0
  BY <1>2 DEF PublicSlashAllocation
<1>3. CASE total # 0
  <2> HIDE DEF total
  <2>1. d \in Nat \ {0} /\ publicEscrow <= d
    BY <1>1, <1>3
  <2> HIDE DEF d
  <2>2. x \in Nat /\ x <= d * value
    BY <2>1, MulMonotone
  <2> HIDE DEF x
  <2>3. x \div d \in 0..value
    BY <2>1, <2>2, DivBound
  <2>4. PublicSlashAllocation(v, a, value, publicEscrow) = x \div d
    BY <1>3, Zenon DEF PublicSlashAllocation, x, d, total
  <2> QED
    BY <2>3, <2>4
<1> QED
  BY <1>2, <1>3

LEMMA Vault_allocateSlashType ==
  ASSUME VaultTypeOK, NEW v \in Vaults, NEW a \in Auctions, NEW value \in Nat,
         NEW publicEscrow \in Nat, Vault_allocateSlash(v, a, value, publicEscrow)
  PROVE  /\ shieldedSlashReserves' \in [Vaults -> [Auctions -> Nat]]
         /\ vaultBalance' \in [Vaults -> Nat]
<1> DEFINE shielded == value - PublicSlashAllocation(v, a, value, publicEscrow)
<1>1. shielded \in Nat
  BY PublicSlashAllocationRange
<1>2. /\ shieldedSlashReserves' = [shieldedSlashReserves EXCEPT ![v][a] = @ + shielded]
      /\ vaultBalance' = [vaultBalance EXCEPT ![v] = @ + shielded]
  BY Zenon DEF Vault_allocateSlash
<1> HIDE DEF shielded
<1> QED
  BY <1>1, <1>2 DEF VaultTypeOK

LEMMA Vault_unlockRefundsType ==
  ASSUME VaultTypeOK, NEW v \in Vaults, NEW a \in Auctions, Vault_unlockRefunds(v, a)
  PROVE  refundsUnlocked' \in [Vaults -> [Auctions -> BOOLEAN]]
BY DEF VaultTypeOK, Vault_unlockRefunds

LEMMA Vault_settleWinningCommitmentType ==
  ASSUME VaultTypeOK, NEW v \in Vaults, NEW a \in Auctions, NEW c \in Commitments,
         NEW amount \in Nat, Vault_settleWinningCommitment(v, a, c, amount)
  PROVE  /\ commitments' \in [Vaults -> [Commitments -> CommitmentDeposit]]
         /\ auctionTotals' \in [Vaults -> [Auctions -> Nat]]
         /\ winningCommitments' \in [Vaults -> [Auctions -> 0..NumCommitments]]
         /\ vaultBalance' \in [Vaults -> Nat]
<1>1. commitments[v][c] \in CommitmentDeposit
  BY DEF VaultTypeOK
<1>2. [commitments[v][c] EXCEPT !.amount = @ - amount] \in CommitmentDeposit
  BY <1>1 DEF Vault_settleWinningCommitment, CommitmentDeposit
<1>3. commitments' = [commitments EXCEPT
                        ![v] = [commitments[v] EXCEPT
                          ![c] = [commitments[v][c] EXCEPT !.amount = @ - amount]]]
  BY DEF Vault_settleWinningCommitment, VaultTypeOK
<1>4. commitments' \in [Vaults -> [Commitments -> CommitmentDeposit]]
  BY <1>2, <1>3 DEF VaultTypeOK
<1>5. auctionTotals' \in [Vaults -> [Auctions -> Nat]] /\ vaultBalance' \in [Vaults -> Nat]
  BY DEF VaultTypeOK, Vault_settleWinningCommitment
<1>6. winningCommitments' \in [Vaults -> [Auctions -> 0..NumCommitments]]
  BY DomainAssumption DEF VaultTypeOK, Vault_settleWinningCommitment, Commitments
<1> QED
  BY <1>4, <1>5, <1>6

-----------------------------------------------------------------------------
(* The identity registry.                                                  *)

LEMMA Registry_setMarketType ==
  ASSUME RegistryTypeOK, NEW r \in Registries, Registry_setMarket(r)
  PROVE  RegistryTypeOK'
BY DEF RegistryTypeOK, Registry_setMarket

LEMMA Registry_bindIdentityType ==
  ASSUME RegistryTypeOK, NEW r \in Registries, NEW a \in Auctions, NEW i \in Identities,
         NEW c \in Commitments, Registry_bindIdentity(r, a, i, c)
  PROVE  RegistryTypeOK'
<1>1. c \in 0..NumCommitments /\ i \in 0..NumIdentities
  BY DomainAssumption DEF Identities, Commitments
<1>2. identityToCommitment' \in [Registries -> [Auctions -> [Identities -> 0..NumCommitments]]]
  <2> DEFINE F == [Identities -> 0..NumCommitments]
             g == [identityToCommitment[r][a] EXCEPT ![i] = c]
             h == [identityToCommitment[r] EXCEPT ![a] = g]
  <2>1. identityToCommitment[r] \in [Auctions -> F] /\ identityToCommitment \in [Registries -> [Auctions -> F]]
    BY DEF RegistryTypeOK
  <2>2. g \in F
    BY <1>1, <2>1
  <2>3. identityToCommitment' = identityToCommitment \/ identityToCommitment' = [identityToCommitment EXCEPT ![r] = h]
    BY Zenon DEF Registry_bindIdentity
  <2> HIDE DEF g, F
  <2>4. h \in [Auctions -> F]
    BY <2>1, <2>2
  <2> HIDE DEF h
  <2>5. identityToCommitment' \in [Registries -> [Auctions -> F]]
    BY <2>1, <2>3, <2>4
  <2> QED
    BY <2>5 DEF F
<1>3. commitmentToIdentity' \in [Registries -> [Auctions -> [Commitments -> 0..NumIdentities]]]
  <2> DEFINE F == [Commitments -> 0..NumIdentities]
             g == [commitmentToIdentity[r][a] EXCEPT ![c] = i]
             h == [commitmentToIdentity[r] EXCEPT ![a] = g]
  <2>1. commitmentToIdentity[r] \in [Auctions -> F] /\ commitmentToIdentity \in [Registries -> [Auctions -> F]]
    BY DEF RegistryTypeOK
  <2>2. g \in F
    BY <1>1, <2>1
  <2>3. commitmentToIdentity' = commitmentToIdentity \/ commitmentToIdentity' = [commitmentToIdentity EXCEPT ![r] = h]
    BY Zenon DEF Registry_bindIdentity
  <2> HIDE DEF g, F
  <2>4. h \in [Auctions -> F]
    BY <2>1, <2>2
  <2> HIDE DEF h
  <2>5. commitmentToIdentity' \in [Registries -> [Auctions -> F]]
    BY <2>1, <2>3, <2>4
  <2> QED
    BY <2>5 DEF F
<1> QED
  BY <1>2, <1>3 DEF RegistryTypeOK, Registry_bindIdentity

LEMMA Registry_markWinningIdentityType ==
  ASSUME RegistryTypeOK, NEW r \in Registries, NEW a \in Auctions, NEW i \in Identities,
         Registry_markWinningIdentity(r, a, i)
  PROVE  RegistryTypeOK'
BY DEF RegistryTypeOK, Registry_markWinningIdentity, Identities

-----------------------------------------------------------------------------
(* Configuration.                                                          *)

LEMMA SetDependenciesType ==
  ASSUME TypeOK, NEW next \in Dependencies, SetDependencies(next)
  PROVE  TypeOK'
BY Untouched DEF TypeOK, SetDependencies

LEMMA createAuctionType ==
  ASSUME TypeOK, NEW u \in Sellers, NEW t \in Tokens, NEW d \in Durations,
         NEW p \in StartingPrices, NEW e \in Deposits, createAuction(u, t, d, p, e)
  PROVE  TypeOK'
<1> DEFINE a == auctionCounter + 1
<1>1. a \in Auctions /\ auctionCounter' = a
  BY DomainAssumption DEF createAuction, TypeOK, CreationTypeOK, Auctions
<1>2. CreationTypeOK'
  <2>1. [seller |-> u, tokenId |-> t, createdAt |-> now, endTime |-> now + d,
         sellerDeposit |-> e, startingPrice |-> p, dependencies |-> dependencies] \in Listing
    BY MarketAssumption DEF TypeOK, ClockTypeOK, Listing, Accounts, Tokens
  <2> QED
    BY <1>1, <2>1 DEF createAuction, TypeOK, CreationTypeOK, Auctions
<1>3. ClockTypeOK'
  BY ObserveNetworkType DEF createAuction, TypeOK
<1>4. PhaseTypeOK'
  BY <1>1, TransitionStateType DEF createAuction, TypeOK, PhaseTypeOK, AuctionState
<1>5. BalanceTypeOK'
  BY MarketAssumption DEF createAuction, TypeOK, BalanceTypeOK
<1>6. nftOwner' \in [Tokens -> 0..NumAccounts]
  BY DomainAssumption DEF createAuction, LockIntoEscrow, Market, TypeOK
<1> QED
  BY <1>2, <1>3, <1>4, <1>5, <1>6, Untouched DEF createAuction, TypeOK

LEMMA ConfigureType ==
  ASSUME TypeOK, Configure
  PROVE  TypeOK'
<1>1. CASE setSettlementEngine
  BY <1>1, SetDependenciesType DEF setSettlementEngine, TypeOK, Dependencies
<1>2. ASSUME NEW p \in Pots, setSlashedPot(p) PROVE TypeOK'
  BY <1>2, SetDependenciesType DEF setSlashedPot, TypeOK, Dependencies
<1>3. ASSUME NEW v \in Vaults, setShieldedEscrowVault(v) PROVE TypeOK'
  BY <1>3, SetDependenciesType, VaultAssumption
     DEF setShieldedEscrowVault, TypeOK, Dependencies, Vaults
<1>4. ASSUME NEW r \in Registries, setShieldedIdentityRegistry(r) PROVE TypeOK'
  BY <1>4, SetDependenciesType, RegistryAssumption
     DEF setShieldedIdentityRegistry, TypeOK, Dependencies, Registries
<1>5. CASE WireContracts
  <2>1. PotTypeOK'
    BY <1>5, Pot_setMarketType, Untouched DEF WireContracts, TypeOK
  <2>2. VaultTypeOK'
    BY <1>5, Vault_setMarketType, Vault_setShieldedBidVerifierType, MarketAssumption, Untouched
       DEF WireContracts, TypeOK
  <2>3. RegistryTypeOK'
    BY <1>5, Registry_setMarketType, Untouched DEF WireContracts, TypeOK
  <2> QED
    BY <1>5, <2>1, <2>2, <2>3, Untouched DEF WireContracts, TypeOK
<1> QED
  BY <1>1, <1>2, <1>3, <1>4, <1>5 DEF Configure

-----------------------------------------------------------------------------
(* Bidding.                                                                *)

LEMMA lockEscrowType ==
  ASSUME TypeOK, NEW u \in Bidders, NEW a \in Auctions, NEW value \in EscrowAmounts,
         lockEscrow(u, a, value)
  PROVE  TypeOK'
<1>1. u \in Accounts /\ value \in Nat
  BY MarketAssumption
<1>2. EscrowTypeOK'
  BY <1>1 DEF lockEscrow, TypeOK, EscrowTypeOK
<1>3. ClockTypeOK'
  BY ObserveNetworkType DEF lockEscrow, TypeOK
<1>4. BalanceTypeOK'
  BY <1>1 DEF lockEscrow, TypeOK, BalanceTypeOK
<1> QED
  BY <1>2, <1>3, <1>4, Untouched DEF lockEscrow, TypeOK

LEMMA placeBidType ==
  ASSUME TypeOK, NEW u \in Bidders, NEW a \in Auctions, NEW ct \in BidCiphertexts,
         placeBid(u, a, ct)
  PROVE  TypeOK'
<1>1. u \in Accounts /\ ct \in Ciphertext /\ MaxBidCount \in Nat
  BY MarketAssumption
<1>2. BidTypeOK'
  BY <1>1 DEF placeBid, TypeOK, BidTypeOK
<1>3. ClockTypeOK'
  BY ObserveNetworkType DEF placeBid, TypeOK
<1> QED
  BY <1>2, <1>3, Untouched DEF placeBid, TypeOK

LEMMA placeShieldedBidType ==
  ASSUME TypeOK, NEW a \in Auctions, NEW c \in Commitments, NEW ct \in BidCiphertexts,
         NEW d \in Deadlines, placeShieldedBid(a, c, ct, d)
  PROVE  TypeOK'
<1>1. ct \in Ciphertext /\ MaxBidCount \in Nat
  BY MarketAssumption
<1>2. BidTypeOK'
  BY <1>1 DEF placeShieldedBid, TypeOK, BidTypeOK
<1>3. ClockTypeOK'
  BY ObserveNetworkType DEF placeShieldedBid, TypeOK
<1> QED
  BY <1>2, <1>3, Untouched DEF placeShieldedBid, TypeOK

LEMMA lockShieldedEscrowType ==
  ASSUME TypeOK, NEW a \in Auctions, NEW i \in Identities, NEW c \in Commitments,
         NEW s \in Authorities, NEW value \in ShieldedAmounts,
         lockShieldedEscrow(a, i, c, s, value)
  PROVE  TypeOK'
<1>1. s \in Accounts /\ value \in Nat
  BY MarketAssumption
<1>2. VaultOf(a) \in Vaults /\ RegistryOf(a) \in Registries
  BY SnapshotType DEF lockShieldedEscrow
<1>3. VaultTypeOK'
  BY <1>1, <1>2, Vault_lockEscrowType DEF lockShieldedEscrow, TypeOK
<1>4. RegistryTypeOK'
  BY <1>2, Registry_bindIdentityType DEF lockShieldedEscrow, TypeOK
<1>5. ClockTypeOK'
  BY ObserveNetworkType DEF lockShieldedEscrow, TypeOK
<1> QED
  BY <1>3, <1>4, <1>5, Untouched DEF lockShieldedEscrow, TypeOK

-----------------------------------------------------------------------------
(* Resolution.                                                             *)

LEMMA triggerFinalizeType ==
  ASSUME TypeOK, NEW u \in Executors, NEW a \in Auctions, triggerFinalize(u, a)
  PROVE  TypeOK'
<1>1. ClockTypeOK' /\ now \in Nat
  BY ObserveNetworkType DEF triggerFinalize, TypeOK, ClockTypeOK
<1>2. PhaseTypeOK'
  BY <1>1, TransitionStateType DEF triggerFinalize, TypeOK, PhaseTypeOK, AuctionState
<1>3. u \in 0..NumAccounts /\ ComputeFinalizeReward(listing[a].sellerDeposit) \in Nat
  BY MarketAssumption, SnapshotType, FinalizeRewardRange DEF Accounts
<1>4. RequestTypeOK'
  BY <1>3 DEF triggerFinalize, TypeOK, RequestTypeOK
<1> QED
  BY <1>1, <1>2, <1>4, Untouched DEF triggerFinalize, TypeOK

LEMMA OpenShieldedRefundPathType ==
  ASSUME TypeOK, NEW a \in Auctions, OpenShieldedRefundPath(a)
  PROVE  /\ shieldedRefundsUnlocked' \in [Auctions -> BOOLEAN]
         /\ refundsUnlocked' \in [Vaults -> [Auctions -> BOOLEAN]]
BY SnapshotType, Vault_unlockRefundsType
   DEF OpenShieldedRefundPath, TypeOK, PhaseTypeOK, VaultTypeOK

LEMMA submitResolutionType ==
  ASSUME TypeOK, NEW a \in Auctions, NEW w \in 0..NumAccounts, NEW ct \in BidCiphertexts,
         NEW amount \in WinningAmounts, submitResolution(a, w, ct, amount)
  PROVE  TypeOK'
<1>1. amount \in Nat
  BY MarketAssumption
<1>2. OutcomeTypeOK'
  BY <1>1 DEF submitResolution, TypeOK, OutcomeTypeOK
<1>3. RequestTypeOK'
  BY DEF submitResolution, TypeOK, RequestTypeOK
<1>4. ClockTypeOK'
  BY ObserveNetworkType DEF submitResolution, TypeOK
<1>5. PhaseTypeOK'
  BY TransitionStateType, OpenShieldedRefundPathType
     DEF submitResolution, TypeOK, PhaseTypeOK, AuctionState
<1>6. VaultTypeOK'
  BY OpenShieldedRefundPathType DEF submitResolution, TypeOK, VaultTypeOK, vaultRecords
<1> QED
  BY <1>2, <1>3, <1>4, <1>5, <1>6, Untouched DEF submitResolution, TypeOK

LEMMA submitShieldedResolutionType ==
  ASSUME TypeOK, NEW a \in Auctions, NEW i \in Identities, NEW c \in Commitments,
         NEW ct \in BidCiphertexts, NEW amount \in WinningAmounts,
         submitShieldedResolution(a, i, c, ct, amount)
  PROVE  TypeOK'
<1>1. amount \in Nat /\ 0 \in 0..NumAccounts /\ i \in 0..NumIdentities
  BY MarketAssumption, DomainAssumption DEF Identities
<1>2. VaultOf(a) \in Vaults /\ RegistryOf(a) \in Registries
  BY SnapshotType DEF submitShieldedResolution, ShieldedResolutionAdmissible
<1>3. OutcomeTypeOK'
  BY <1>1 DEF submitShieldedResolution, TypeOK, OutcomeTypeOK
<1>4. RequestTypeOK'
  BY DEF submitShieldedResolution, TypeOK, RequestTypeOK
<1>5. ClockTypeOK'
  BY ObserveNetworkType DEF submitShieldedResolution, TypeOK
<1>6. PhaseTypeOK'
  BY TransitionStateType, OpenShieldedRefundPathType
     DEF submitShieldedResolution, TypeOK, PhaseTypeOK, AuctionState
<1>7. VaultTypeOK'
  BY <1>1, <1>2, Vault_settleWinningCommitmentType, OpenShieldedRefundPathType
     DEF submitShieldedResolution, TypeOK, VaultTypeOK
<1>8. RegistryTypeOK'
  BY <1>2, Registry_markWinningIdentityType DEF submitShieldedResolution, TypeOK
<1>9. BalanceTypeOK'
  BY <1>1 DEF submitShieldedResolution, TypeOK, BalanceTypeOK
<1> QED
  BY <1>3, <1>4, <1>5, <1>6, <1>7, <1>8, <1>9, Untouched DEF submitShieldedResolution, TypeOK

(* The slash fits the deposit in both paths that record one.               *)
LEMMA SlashRange ==
  ASSUME TypeOK, NEW a \in Auctions
  PROVE  /\ ComputeVoidSlash(a) \in 0..listing[a].sellerDeposit
         /\ listing[a].createdAt <= now /\ listing[a].createdAt <= listing[a].endTime
              => ComputeCancellationSlash(a) \in 0..listing[a].sellerDeposit
<1> DEFINE deposit == listing[a].sellerDeposit
           elapsed == now - listing[a].createdAt
           duration == listing[a].endTime - listing[a].createdAt
           escrow == TotalEscrowIncludingShielded(a)
<1>1. deposit \in Nat /\ listing[a].createdAt \in Nat /\ listing[a].endTime \in Nat
  BY SnapshotType
<1>2. escrow \in Nat
  BY SnapshotType DEF TotalEscrowIncludingShielded, ShieldedEscrowTotal, TypeOK, EscrowTypeOK,
                      VaultTypeOK
<1>3. ComputeVoidSlash(a) \in 0..deposit
  <2>1. finalizationRewards[a] \in Nat
    BY DEF TypeOK, RequestTypeOK
  <2> QED
    BY <1>1, <2>1, SaturatingSubNat DEF ComputeVoidSlash
<1>4. ASSUME listing[a].createdAt <= now, listing[a].createdAt <= listing[a].endTime
      PROVE  ComputeCancellationSlash(a) \in 0..deposit
  <2>1. elapsed \in Nat /\ duration \in Nat
    BY <1>1, <1>4 DEF TypeOK, ClockTypeOK
  <2> HIDE DEF deposit, elapsed, duration, escrow
  <2>2. computeCancellationSlash(deposit, elapsed, duration, escrow) \in 0..deposit
    BY <1>1, <1>2, <2>1, CancellationSlashBounded DEF deposit
  <2>3. deposit \in Nat /\ deposit \div 2 \in 0..deposit
    BY <1>1 DEF deposit
  <2>4. \/ ComputeCancellationSlash(a) = 0
        \/ ComputeCancellationSlash(a) = deposit \div 2
        \/ ComputeCancellationSlash(a) = computeCancellationSlash(deposit, elapsed, duration, escrow)
    BY Zenon DEF ComputeCancellationSlash, deposit, elapsed, duration, escrow
  <2> QED
    BY <2>2, <2>3, <2>4
<1> QED
  BY <1>3, <1>4

LEMMA RegisterSlashType ==
  ASSUME TypeOK, NEW a \in Auctions, NEW slash \in Nat, RegisterSlash(a, slash)
  PROVE  /\ marketBalance' \in Nat
         /\ shieldedSlashReserves' \in [Vaults -> [Auctions -> Nat]]
         /\ vaultBalance' \in [Vaults -> Nat]
         /\ PotTypeOK'
<1>1. PotOf(a) \in Pots /\ totalEscrow[a] \in Nat
  BY SnapshotType DEF TypeOK, EscrowTypeOK
<1>2. VaultOf(a) = 0 \/ VaultOf(a) \in Vaults
  BY SnapshotType
<1>3. marketBalance' \in Nat
  BY DEF RegisterSlash, TypeOK, BalanceTypeOK
<1>4. CASE slash # 0 /\ VaultOf(a) # 0
  <2> DEFINE public == PublicSlashAllocation(VaultOf(a), a, slash, totalEscrow[a])
  <2>1. public \in Nat
    BY <1>1, <1>2, <1>4, PublicSlashAllocationRange DEF TypeOK
  <2>2. Vault_allocateSlash(VaultOf(a), a, slash, totalEscrow[a])
    BY <1>4 DEF RegisterSlash
  <2>3. Pot_registerSlash(PotOf(a), a, totalEscrow[a], public) \/ UNCHANGED potVars
    BY <1>4, Zenon DEF RegisterSlash
  <2> HIDE DEF public
  <2>4. PotTypeOK'
    BY <1>1, <2>1, <2>3, Pot_registerSlashType, Untouched DEF TypeOK
  <2> QED
    BY <1>1, <1>2, <1>3, <1>4, <2>2, <2>4, Vault_allocateSlashType DEF TypeOK
<1>5. CASE ~(slash # 0 /\ VaultOf(a) # 0)
  <2>1. UNCHANGED <<shieldedSlashReserves, vaultBalance>>
    BY <1>5, Zenon DEF RegisterSlash
  <2>2. Pot_registerSlash(PotOf(a), a, totalEscrow[a], slash) \/ UNCHANGED potVars
    BY <1>5 DEF RegisterSlash
  <2>3. PotTypeOK'
    BY <1>1, <2>2, Pot_registerSlashType, Untouched DEF TypeOK
  <2> QED
    BY <1>3, <2>1, <2>3 DEF TypeOK, VaultTypeOK
<1> QED
  BY <1>4, <1>5

LEMMA ReleaseFromEscrowType ==
  ASSUME TypeOK, NEW t, NEW u \in 0..NumAccounts, ReleaseFromEscrow(t, u)
  PROVE  nftOwner' \in [Tokens -> 0..NumAccounts]
BY DEF ReleaseFromEscrow, TypeOK

(* Both ways to end an auction without a sale.                             *)
LEMMA triggerFallbackVoidType ==
  ASSUME TypeOK, NEW a \in Auctions, triggerFallbackVoid(a)
  PROVE  TypeOK'
<1> DEFINE slash == ComputeVoidSlash(a)
<1>1. slash \in Nat
  BY SlashRange, SnapshotType
<1>2. RegisterSlash(a, slash) /\ slashAmount' = [slashAmount EXCEPT ![a] = slash]
  BY Zenon DEF triggerFallbackVoid
<1> HIDE DEF slash
<1>3. ClockTypeOK'
  BY ObserveNetworkType DEF triggerFallbackVoid, TypeOK
<1>4. PhaseTypeOK'
  BY <1>1, <1>2, TransitionStateType, OpenShieldedRefundPathType
     DEF triggerFallbackVoid, TypeOK, PhaseTypeOK, AuctionState
<1>5. PotTypeOK' /\ BalanceTypeOK'
  BY <1>1, <1>2, RegisterSlashType DEF triggerFallbackVoid, TypeOK, BalanceTypeOK
<1>6. VaultTypeOK'
  BY <1>1, <1>2, RegisterSlashType, OpenShieldedRefundPathType
     DEF triggerFallbackVoid, TypeOK, VaultTypeOK, vaultRecords
<1>7. nftOwner' \in [Tokens -> 0..NumAccounts]
  BY ReleaseFromEscrowType, SnapshotType DEF triggerFallbackVoid
<1>8. RequestTypeOK'
  BY DEF triggerFallbackVoid, TypeOK, RequestTypeOK
<1> QED
  BY <1>3, <1>4, <1>5, <1>6, <1>7, <1>8, Untouched DEF triggerFallbackVoid, TypeOK

LEMMA cancelAuctionType ==
  ASSUME TypeOK, ListingTimes, NEW u \in Sellers, NEW a \in Auctions, cancelAuction(u, a)
  PROVE  TypeOK'
<1> DEFINE slash == ComputeCancellationSlash(a)
<1>1. slash \in Nat
  BY SlashRange, SnapshotType DEF ListingTimes
<1>2. RegisterSlash(a, slash) /\ slashAmount' = [slashAmount EXCEPT ![a] = slash]
  BY Zenon DEF cancelAuction
<1> HIDE DEF slash
<1>3. ClockTypeOK'
  BY ObserveNetworkType DEF cancelAuction, TypeOK
<1>4. PhaseTypeOK'
  BY <1>1, <1>2, TransitionStateType, OpenShieldedRefundPathType
     DEF cancelAuction, TypeOK, PhaseTypeOK, AuctionState
<1>5. PotTypeOK' /\ BalanceTypeOK'
  BY <1>1, <1>2, RegisterSlashType DEF cancelAuction, TypeOK, BalanceTypeOK
<1>6. VaultTypeOK'
  BY <1>1, <1>2, RegisterSlashType, OpenShieldedRefundPathType
     DEF cancelAuction, TypeOK, VaultTypeOK, vaultRecords
<1>7. nftOwner' \in [Tokens -> 0..NumAccounts]
  BY ReleaseFromEscrowType, SnapshotType DEF cancelAuction
<1> QED
  BY <1>3, <1>4, <1>5, <1>6, <1>7, Untouched DEF cancelAuction, TypeOK

-----------------------------------------------------------------------------
(* Claims.                                                                 *)

LEMMA SendValueType ==
  ASSUME BalanceTypeOK, NEW u, NEW amount \in Nat, SendValue(u, amount)
  PROVE  marketBalance' \in Nat
BY DEF SendValue, BalanceTypeOK

(* What the preview functions promise is an amount of money.               *)
LEMMA PreviewType ==
  ASSUME TypeOK, NEW a \in Auctions, NEW u \in Accounts
  PROVE  PreviewEscrowRefund(a, u) \in 0..escrowBalances[a][u] /\ PreviewSellerPayout(a) \in Nat
<1>1. escrowBalances[a][u] \in Nat /\ winningAmount[a] \in Nat /\ slashAmount[a] \in Nat
      /\ finalizationRewards[a] \in Nat /\ listing[a].sellerDeposit \in Nat
  BY SnapshotType DEF TypeOK, EscrowTypeOK, OutcomeTypeOK, PhaseTypeOK, RequestTypeOK
<1>2. PreviewEscrowRefund(a, u) \in 0..escrowBalances[a][u]
  BY <1>1, SaturatingSubNat DEF PreviewEscrowRefund, computeWinningRefund, Terminal
<1>3. PreviewSellerPayout(a) \in Nat
  BY <1>1, SaturatingSubNat
     DEF PreviewSellerPayout, computeSellerPayout, computeSellerCancellationPayout
<1> QED
  BY <1>2, <1>3

LEMMA claimRefundType ==
  ASSUME TypeOK, NEW u \in Accounts, NEW a \in Auctions, claimRefund(u, a)
  PROVE  TypeOK'
<1> DEFINE refund == PreviewEscrowRefund(a, u)
<1>1. refund \in Nat /\ PotOf(a) \in Pots
  BY PreviewType, SnapshotType DEF TypeOK, EscrowTypeOK
<1>2. /\ IF refund # 0
            THEN /\ escrowBalances' = [escrowBalances EXCEPT ![a][u] = 0]
                 /\ SendValue(u, refund)
            ELSE UNCHANGED <<escrowBalances, marketBalance>>
      /\ Pot_claimFor(PotOf(a), a, u, refund) \/ UNCHANGED potVars
  BY Zenon DEF claimRefund
<1> HIDE DEF refund
<1>3. EscrowTypeOK'
  BY <1>2 DEF claimRefund, TypeOK, EscrowTypeOK
<1>4. BalanceTypeOK'
  BY <1>1, <1>2, SendValueType DEF claimRefund, TypeOK, BalanceTypeOK
<1>5. PotTypeOK'
  BY <1>1, <1>2, Pot_claimForType, Untouched DEF TypeOK
<1> QED
  BY <1>3, <1>4, <1>5, Untouched DEF claimRefund, TypeOK

LEMMA claimSellerProceedsType ==
  ASSUME TypeOK, NEW u \in Accounts, NEW a \in Auctions, claimSellerProceeds(u, a)
  PROVE  TypeOK'
<1>1. BalanceTypeOK'
  BY PreviewType, SendValueType DEF claimSellerProceeds, TypeOK, BalanceTypeOK
<1>2. ClaimTypeOK'
  BY DEF claimSellerProceeds, TypeOK, ClaimTypeOK
<1> QED
  BY <1>1, <1>2, Untouched DEF claimSellerProceeds, TypeOK

LEMMA claimFinalizeRewardType ==
  ASSUME TypeOK, NEW u \in Accounts, NEW a \in Auctions, claimFinalizeReward(u, a)
  PROVE  TypeOK'
<1>1. BalanceTypeOK'
  BY SendValueType DEF claimFinalizeReward, TypeOK, BalanceTypeOK, RequestTypeOK
<1>2. ClaimTypeOK'
  BY DEF claimFinalizeReward, TypeOK, ClaimTypeOK
<1> QED
  BY <1>1, <1>2, Untouched DEF claimFinalizeReward, TypeOK

LEMMA claimAssetType ==
  ASSUME TypeOK, NEW u \in Accounts, NEW a \in Auctions, claimAsset(u, a)
  PROVE  TypeOK'
<1>1. ClaimTypeOK'
  BY DEF claimAsset, TypeOK, ClaimTypeOK
<1>2. nftOwner' \in [Tokens -> 0..NumAccounts]
  BY ReleaseFromEscrowType, DomainAssumption DEF claimAsset, Accounts
<1> QED
  BY <1>1, <1>2, Untouched DEF claimAsset, TypeOK

(* A digest is stored only for a commitment that is registered with an     *)
(* auction (_consumeClaimAuthorization).                                   *)
LEMMA ConsumeClaimAuthorizationType ==
  ASSUME VaultTypeOK, NEW v \in Vaults, NEW tag \in {"ASSET_CLAIM", "REFUND_CLAIM"},
         NEW c \in Commitments, NEW recipient \in Accounts, NEW deadline \in Nat,
         NEW signer, NEW time,
         ConsumeClaimAuthorization(v, tag, c, recipient, deadline, signer, time)
  PROVE  /\ usedClaimAuthorizations' \in [Vaults -> SUBSET AuthorizationDigest]
         /\ commitments[v][c].auctionId \in Auctions
<1>1. commitments[v][c] \in CommitmentDeposit
  BY DEF VaultTypeOK
<1>2. commitments[v][c].auctionId \in Auctions
  BY <1>1, DomainAssumption
     DEF CommitmentDeposit, ConsumeClaimAuthorization, Registered, Auctions
<1>3. [tag |-> tag, auctionId |-> commitments[v][c].auctionId, commitment |-> c,
       recipient |-> recipient, deadline |-> deadline] \in AuthorizationDigest
  BY <1>2 DEF AuthorizationDigest
<1> QED
  BY <1>2, <1>3 DEF ConsumeClaimAuthorization, VaultTypeOK

LEMMA claimShieldedAssetType ==
  ASSUME TypeOK, NEW a \in Auctions, NEW recipient \in Recipients, NEW deadline \in Deadlines,
         NEW signer \in Authorities, claimShieldedAsset(a, recipient, deadline, signer)
  PROVE  TypeOK'
<1> DEFINE c == identityToCommitment[RegistryOf(a)][a][winningIdentityHash[a]]
<1>1. VaultOf(a) \in Vaults /\ RegistryOf(a) \in Registries
  BY SnapshotType DEF claimShieldedAsset
<1>2. recipient \in Accounts /\ recipient \in 0..NumAccounts /\ deadline \in Nat
  BY MarketAssumption, DomainAssumption DEF Accounts
<1>3. winningIdentityHash[a] \in Identities
  BY DomainAssumption DEF claimShieldedAsset, TypeOK, OutcomeTypeOK, Identities
<1>4. c \in Commitments
  <2>1. c \in 0..NumCommitments
    BY <1>1, <1>3 DEF TypeOK, RegistryTypeOK
  <2>2. c # 0
    BY Zenon DEF claimShieldedAsset
  <2> QED
    BY <2>1, <2>2, DomainAssumption DEF Commitments
<1>5. Vault_authorizeAssetClaim(VaultOf(a), a, c, recipient, deadline, signer, now)
  BY Zenon DEF claimShieldedAsset
<1> HIDE DEF c
<1>6. VaultTypeOK'
  <2>1. usedClaimAuthorizations' \in [Vaults -> SUBSET AuthorizationDigest]
    BY <1>1, <1>2, <1>4, <1>5, ConsumeClaimAuthorizationType
       DEF Vault_authorizeAssetClaim, TypeOK
  <2> QED
    BY <1>5, <2>1 DEF Vault_authorizeAssetClaim, TypeOK, VaultTypeOK
<1>7. ClaimTypeOK'
  BY DEF claimShieldedAsset, TypeOK, ClaimTypeOK
<1>8. nftOwner' \in [Tokens -> 0..NumAccounts]
  BY <1>2, ReleaseFromEscrowType DEF claimShieldedAsset
<1> QED
  BY <1>6, <1>7, <1>8, Untouched DEF claimShieldedAsset, TypeOK

LEMMA Vault_claimRefundType ==
  ASSUME VaultTypeOK, NEW v \in Vaults, NEW c \in Commitments, NEW recipient \in Accounts,
         NEW deadline \in Nat, NEW signer, NEW time,
         Vault_claimRefundWithAuthorization(v, c, recipient, deadline, signer, time)
  PROVE  VaultTypeOK'
<1> DEFINE a == commitments[v][c].auctionId
           principal == commitments[v][c].amount
           compensation == ShieldedCompensation(v, a, principal)
<1>1. commitments[v][c] \in CommitmentDeposit
  BY DEF VaultTypeOK
<1>2. principal \in Nat
  BY <1>1 DEF CommitmentDeposit
<1>3. usedClaimAuthorizations' \in [Vaults -> SUBSET AuthorizationDigest] /\ a \in Auctions
  BY ConsumeClaimAuthorizationType DEF Vault_claimRefundWithAuthorization
<1>4. compensation \in Nat
  <2>1. shieldedSlashReserves[v][a] \in Nat /\ auctionTotals[v][a] \in Nat
    BY <1>3 DEF VaultTypeOK
  <2>2. principal * shieldedSlashReserves[v][a] \in Nat
    BY <1>2, <2>1
  <2> HIDE DEF a, principal
  <2> QED
    BY <2>1, <2>2, DivNat DEF ShieldedCompensation
<1>5. /\ compensation <= shieldedSlashReserves[v][a]
      /\ principal <= auctionTotals[v][a]
      /\ principal + compensation <= vaultBalance[v]
      /\ shieldedSlashReserves' = [shieldedSlashReserves EXCEPT ![v][a] = @ - compensation]
      /\ auctionTotals' = [auctionTotals EXCEPT ![v][a] = @ - principal]
      /\ vaultBalance' = [vaultBalance EXCEPT ![v] = @ - (principal + compensation)]
  BY Zenon DEF Vault_claimRefundWithAuthorization
<1>6. commitments' \in [Vaults -> [Commitments -> CommitmentDeposit]]
  <2>1. [commitments[v][c] EXCEPT !.claimed = TRUE, !.amount = 0] \in CommitmentDeposit
    BY <1>1 DEF CommitmentDeposit
  <2>2. commitments' = [commitments EXCEPT
                          ![v] = [commitments[v] EXCEPT
                            ![c] = [commitments[v][c] EXCEPT !.claimed = TRUE, !.amount = 0]]]
    BY DEF Vault_claimRefundWithAuthorization, VaultTypeOK
  <2> QED
    BY <2>1, <2>2 DEF VaultTypeOK
<1> HIDE DEF a, principal, compensation
<1>7. /\ shieldedSlashReserves' \in [Vaults -> [Auctions -> Nat]]
      /\ auctionTotals' \in [Vaults -> [Auctions -> Nat]]
      /\ vaultBalance' \in [Vaults -> Nat]
  BY <1>2, <1>3, <1>4, <1>5 DEF VaultTypeOK
<1> QED
  BY <1>3, <1>6, <1>7 DEF Vault_claimRefundWithAuthorization, VaultTypeOK

LEMMA claimShieldedRefundType ==
  ASSUME TypeOK, NEW v \in Vaults, NEW c \in Commitments, NEW recipient \in Recipients,
         NEW deadline \in Deadlines, NEW signer \in Authorities,
         claimShieldedRefund(v, c, recipient, deadline, signer)
  PROVE  TypeOK'
<1>1. recipient \in Accounts /\ deadline \in Nat
  BY MarketAssumption
<1>2. VaultTypeOK'
  BY <1>1, Vault_claimRefundType DEF claimShieldedRefund, TypeOK
<1>3. ClaimTypeOK'
  BY DEF claimShieldedRefund, TypeOK, ClaimTypeOK
<1> QED
  BY <1>2, <1>3, Untouched DEF claimShieldedRefund, TypeOK

-----------------------------------------------------------------------------
(* The environment.                                                        *)

LEMMA receiveType ==
  ASSUME TypeOK, NEW value \in Donations, receive(value)
  PROVE  TypeOK'
<1>1. BalanceTypeOK'
  BY MarketAssumption DEF receive, TypeOK, BalanceTypeOK
<1> QED
  BY <1>1, Untouched DEF receive, TypeOK

LEMMA TransferTokenType ==
  ASSUME TypeOK, NEW t \in Tokens, NEW u \in TokenRecipients, TransferToken(t, u)
  PROVE  TypeOK'
<1>1. nftOwner' \in [Tokens -> 0..NumAccounts]
  BY MarketAssumption DEF TransferToken, TypeOK
<1> QED
  BY <1>1, Untouched DEF TransferToken, TypeOK

LEMMA NewBlockType ==
  ASSUME TypeOK, NewBlock
  PROVE  TypeOK'
<1>1. ClockTypeOK'
  BY ClockAssumption DEF NewBlock, Tick, TypeOK, ClockTypeOK
<1> QED
  BY <1>1, Untouched DEF NewBlock, TypeOK

-----------------------------------------------------------------------------
(* Every step, in the form in which Next offers it.                        *)

LEMMA InitType == Init => TypeOK /\ ListingTimes
<1> SUFFICES ASSUME Init PROVE TypeOK /\ ListingTimes
  OBVIOUS
<1>1. ClockTypeOK /\ PotTypeOK /\ RegistryTypeOK
  BY DomainAssumption
     DEF Init, ClockInit, ClockTypeOK, NETWORK_SAMPLE_CEILING, PotInit, PotTypeOK, Pot,
         RegistryInit, RegistryTypeOK
<1>2. VaultTypeOK
  BY DomainAssumption, VaultAssumption DEF Init, VaultInit, VaultTypeOK, CommitmentDeposit
<1>3. dependencies \in Dependencies
  BY MarketAssumption, PotAssumption DEF Init, Dependencies, Pots
<1>4. NoListing \in Listing
  BY DomainAssumption, MarketAssumption, VaultAssumption, RegistryAssumption, PotAssumption
     DEF NoListing, Listing, Dependencies, Pots
<1>5. CreationTypeOK /\ ListingTimes
  BY <1>4, DomainAssumption DEF Init, CreationTypeOK, ListingTimes, NoListing, ClockInit
<1>6. PhaseTypeOK /\ OutcomeTypeOK /\ RequestTypeOK /\ ClaimTypeOK /\ EscrowTypeOK
      /\ BalanceTypeOK
  BY DomainAssumption
     DEF Init, PhaseTypeOK, OutcomeTypeOK, RequestTypeOK, ClaimTypeOK, EscrowTypeOK,
         BalanceTypeOK, AuctionState
<1>7. BidTypeOK
  <2>1. ZeroWord \in Ciphertext
    BY DEF ZeroWord, Ciphertext, CiphertextKind
  <2> QED
    BY <2>1, MarketAssumption DEF Init, BidTypeOK
<1>8. nftOwner \in [Tokens -> 0..NumAccounts]
  <2>1. Sellers \subseteq 0..NumAccounts
    BY MarketAssumption, DomainAssumption DEF Accounts
  <2>2. nftOwner \in [Tokens -> Sellers]
    BY DEF Init
  <2> QED
    BY <2>1, <2>2
<1> QED
  BY <1>1, <1>2, <1>3, <1>5, <1>6, <1>7, <1>8 DEF Init, TypeOK

LEMMA BidType ==
  ASSUME TypeOK, NEW a \in Auctions, Bid(a)
  PROVE  TypeOK'
BY lockEscrowType, placeBidType, lockShieldedEscrowType, placeShieldedBidType DEF Bid

LEMMA ResolveType ==
  ASSUME TypeOK, ListingTimes, NEW a \in Auctions, Resolve(a)
  PROVE  TypeOK'
BY triggerFinalizeType, submitResolutionType, submitShieldedResolutionType, cancelAuctionType,
   triggerFallbackVoidType DEF Resolve

LEMMA ClaimType ==
  ASSUME TypeOK, NEW a \in Auctions, Claim(a)
  PROVE  TypeOK'
BY claimRefundType, claimSellerProceedsType, claimFinalizeRewardType, claimAssetType,
   claimShieldedAssetType DEF Claim

LEMMA NextType ==
  ASSUME TypeOK, ListingTimes, [Next]_vars
  PROVE  TypeOK'
<1>1. CASE Next
  BY <1>1, NewBlockType, ConfigureType, createAuctionType, BidType, ResolveType, ClaimType,
     claimShieldedRefundType, receiveType, TransferTokenType DEF Next
<1>2. CASE UNCHANGED vars
  BY <1>2, Untouched DEF vars, TypeOK
<1> QED
  BY <1>1, <1>2

(* Time does not run backwards, and only createAuction writes a listing.   *)
LEMMA ClockAdvances ==
  ASSUME ClockTypeOK, UNCHANGED clockVars \/ ObserveNetwork \/ Tick
  PROVE  now' >= now
BY ClockAssumption DEF ClockTypeOK, clockVars, ObserveNetwork, Tick

LEMMA ListingStep ==
  ASSUME TypeOK, [Next]_vars
  PROVE  \/ UNCHANGED creationVars /\ (UNCHANGED clockVars \/ ObserveNetwork \/ Tick)
         \/ \E u \in Sellers, t \in Tokens, d \in Durations, p \in StartingPrices,
                e \in Deposits : createAuction(u, t, d, p, e)
BY DEF Next, NewBlock, Configure, setSettlementEngine, setSlashedPot, setShieldedEscrowVault,
       setShieldedIdentityRegistry, SetDependencies, WireContracts, Bid, lockEscrow, placeBid,
       lockShieldedEscrow, placeShieldedBid, Resolve, triggerFinalize, submitResolution,
       submitShieldedResolution, cancelAuction, triggerFallbackVoid, Claim, claimRefund,
       claimSellerProceeds, claimFinalizeReward, claimAsset, claimShieldedAsset,
       claimShieldedRefund, receive, TransferToken, vars

LEMMA ListingTimesStep ==
  ASSUME TypeOK, ListingTimes, [Next]_vars
  PROVE  ListingTimes'
<1>1. CASE UNCHANGED creationVars /\ (UNCHANGED clockVars \/ ObserveNetwork \/ Tick)
  <2>1. now' >= now /\ now \in Nat /\ now' \in Nat
    BY <1>1, ClockAdvances, NextType DEF TypeOK, ClockTypeOK
  <2>2. \A a \in Auctions : listing[a].createdAt \in Nat
    BY SnapshotType
  <2> QED
    BY <1>1, <2>1, <2>2 DEF ListingTimes, creationVars
<1>2. ASSUME NEW u \in Sellers, NEW t \in Tokens, NEW d \in Durations, NEW p \in StartingPrices,
             NEW e \in Deposits, createAuction(u, t, d, p, e)
      PROVE  ListingTimes'
  <2>1. now' = now /\ now \in Nat /\ d \in Nat
    BY <1>2, MarketAssumption DEF createAuction, ObserveNetwork, TypeOK, ClockTypeOK
  <2> QED
    BY <1>2, <2>1 DEF createAuction, ListingTimes, TypeOK, CreationTypeOK
<1> QED
  BY <1>1, <1>2, ListingStep

(* Type correctness of the specification: balances, totals, reserves and   *)
(* slashes never become negative, bid counts and the moving average stay   *)
(* within their limits, and every reference points to something that       *)
(* exists.                                                                 *)
THEOREM TypeCorrect == Spec => []TypeOK
<1> DEFINE Inv == TypeOK /\ ListingTimes
<1>1. Init => Inv
  BY InitType
<1>2. Inv /\ [Next]_vars => Inv'
  BY NextType, ListingTimesStep
<1>3. Inv => TypeOK
  OBVIOUS
<1> QED
  BY <1>1, <1>2, <1>3, PTL DEF Spec
=============================================================================
