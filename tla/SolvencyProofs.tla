--------------------------- MODULE SolvencyProofs ---------------------------
(***************************************************************************)
(* The market and the vaults can pay what they owe.                        *)
(*                                                                         *)
(* MarketSolvent is not inductive by itself: that the settlement of an     *)
(* auction keeps the sum also needs that nothing has been claimed before,  *)
(* that the reward is the one the deposit covers, and that a voided        *)
(* auction without a slash had no escrow.                                  *)
(*                                                                         *)
(* A vault's books balance by themselves.  That every refund they promise  *)
(* can be claimed needs that market and vault agree on when refunds open,  *)
(* and that a commitment which holds value has not been paid before.       *)
(* What is owed to a live auction only grows, step by step.                *)
(*                                                                         *)
(* A pot holds the shares of a slash, which are rounded down one by one:   *)
(* that they add up to no more than the slash needs that the escrow they   *)
(* are computed from is the sum of the escrows that were not yet refunded. *)
(***************************************************************************)
EXTENDS FairMarketProofs

(* The strengthening, auction by auction.                                  *)
Booked(a) ==
  /\ state[a] = "CREATED" <=> a > auctionCounter
  /\ state[a] = "CREATED" => \A u \in Accounts : escrowBalances[a][u] = 0
  /\ state[a] \notin Terminal => ~sellerClaimed[a] /\ ~finalizationRewardClaimed[a]
  /\ state[a] \in {"RESOLVING", "FINALIZED", "VOIDED"} =>
       finalizationRewards[a] = ComputeFinalizeReward(listing[a].sellerDeposit)
  /\ state[a] # "CREATED" => listing[a].sellerDeposit # 0
  /\ state[a] = "VOIDED" /\ slashAmount[a] = 0 => TotalEscrowIncludingShielded(a) = 0

MoneyInv == TypeOK /\ ListingTimes /\ MarketSolvent /\ \A a \in Auctions : Booked(a)

-----------------------------------------------------------------------------
(* Sums of dues.                                                           *)

LEMMA SellerPayoutNat ==
  ASSUME TypeOK, NEW a \in Auctions
  PROVE  PreviewSellerPayout(a) \in Nat
<1>1. winningAmount[a] \in Nat /\ slashAmount[a] \in Nat
        /\ finalizationRewards[a] \in Nat /\ listing[a].sellerDeposit \in Nat
  BY SnapshotType DEF TypeOK, OutcomeTypeOK, PhaseTypeOK, RequestTypeOK
<1> QED
  BY <1>1, SaturatingSubNat
     DEF PreviewSellerPayout, computeSellerPayout, computeSellerCancellationPayout

LEMMA DueType ==
  ASSUME TypeOK, NEW a \in Auctions
  PROVE  /\ \A u \in Accounts : RefundDue(a, u) \in Nat /\ escrowBalances[a][u] \in Nat
         /\ SellerDue(a) \in Nat /\ RewardDue(a) \in Nat
         /\ RefundsDue(a) \in Int /\ Owed(a) \in Int
<1>1. ASSUME NEW u \in Accounts
      PROVE  escrowBalances[a][u] \in Nat /\ RefundDue(a, u) \in Nat
  BY PreviewType DEF RefundDue, TypeOK, EscrowTypeOK
<1>2. SellerDue(a) \in Nat
  <2>1. listing[a].sellerDeposit \in Nat
    BY SnapshotType
  <2> QED
    BY <2>1, SellerPayoutNat DEF SellerDue
<1>3. RewardDue(a) \in Nat
  BY DEF RewardDue, TypeOK, RequestTypeOK
<1>4. RefundsDue(a) \in Int
  <2>1. [u \in Accounts |-> RefundDue(a, u)] \in [1..NumAccounts -> Int]
    BY <1>1 DEF Accounts
  <2> QED
    BY <2>1, SumInt, DomainAssumption DEF RefundsDue
<1> QED
  BY <1>1, <1>2, <1>3, <1>4 DEF Owed

LEMMA RefundsSame ==
  ASSUME NEW a \in Auctions, \A u \in Accounts : RefundDue(a, u)' = RefundDue(a, u)
  PROVE  RefundsDue(a)' = RefundsDue(a)
<1>1. [u \in Accounts |-> RefundDue(a, u)'] = [u \in Accounts |-> RefundDue(a, u)]
  OBVIOUS
<1> QED
  BY <1>1 DEF RefundsDue, Accounts

(* One refund changes to r.                                                *)
LEMMA RefundsChange ==
  ASSUME TypeOK, NEW a \in Auctions, NEW w \in Accounts, NEW r \in Int,
         RefundDue(a, w)' = r,
         \A u \in Accounts \ {w} : RefundDue(a, u)' = RefundDue(a, u)
  PROVE  RefundsDue(a)' = RefundsDue(a) + r - RefundDue(a, w)
<1> DEFINE f == [u \in 1..NumAccounts |-> RefundDue(a, u)]
           g == [u \in 1..NumAccounts |-> RefundDue(a, u)']
<1>1. f \in [1..NumAccounts -> Int] /\ w \in 1..NumAccounts /\ f[w] = RefundDue(a, w)
  BY DueType DEF Accounts
<1>2. g = [f EXCEPT ![w] = r]
  BY DEF Accounts
<1>3. RefundsDue(a) = SumTo(f, NumAccounts) /\ RefundsDue(a)' = SumTo(g, NumAccounts)
  BY DEF RefundsDue, Accounts
<1> HIDE DEF f, g
<1>4. NumAccounts \in Nat
  BY DomainAssumption
<1>5. SumTo([f EXCEPT ![w] = r], NumAccounts) = SumTo(f, NumAccounts) + r - f[w]
  BY <1>1, <1>4, SumUpdate
<1> QED
  BY <1>1, <1>2, <1>3, <1>5

(* A step that changes what is owed for one auction by as much as the      *)
(* market's balance, or changes nothing, keeps the market solvent.         *)
LEMMA OwedChange ==
  ASSUME TypeOK, MarketSolvent, NEW a \in Auctions, NEW delta \in Int,
         Owed(a)' = Owed(a) + delta,
         \A b \in Auctions \ {a} : Owed(b)' = Owed(b),
         marketBalance' = marketBalance + delta, donated' = donated
  PROVE  MarketSolvent'
<1> DEFINE f == [b \in 1..NumAuctions |-> Owed(b)]
           g == [b \in 1..NumAuctions |-> Owed(b)']
<1>1. f \in [1..NumAuctions -> Int] /\ a \in 1..NumAuctions /\ f[a] = Owed(a)
  BY DueType DEF Auctions
<1>2. g = [f EXCEPT ![a] = Owed(a) + delta]
  BY DEF Auctions
<1>3. SumTo(g, NumAuctions) = SumTo(f, NumAuctions) + (Owed(a) + delta) - Owed(a)
  <2> HIDE DEF f, g
  <2> DEFINE r == Owed(a) + delta
  <2>1. r \in Int /\ NumAuctions \in Nat
    BY DueType, DomainAssumption
  <2> HIDE DEF r
  <2>2. SumTo([f EXCEPT ![a] = r], NumAuctions) = SumTo(f, NumAuctions) + r - f[a]
    BY <1>1, <2>1, SumUpdate
  <2> QED
    BY <1>1, <1>2, <2>2 DEF r
<1>4. MarketSolvent <=> marketBalance = SumTo(f, NumAuctions) + donated
  BY DEF MarketSolvent, Auctions
<1>5. MarketSolvent' <=> marketBalance' = SumTo(g, NumAuctions) + donated'
  BY DEF MarketSolvent, Auctions
<1>6. SumTo(f, NumAuctions) \in Int /\ Owed(a) \in Int
  BY <1>1, SumInt, DomainAssumption
<1> HIDE DEF f, g
<1> QED
  BY <1>3, <1>4, <1>5, <1>6 DEF TypeOK, BalanceTypeOK

LEMMA OwedSame ==
  ASSUME MarketSolvent, TypeOK, \A b \in Auctions : Owed(b)' = Owed(b),
         marketBalance' - donated' = marketBalance - donated,
         marketBalance' \in Nat, donated' \in Nat
  PROVE  MarketSolvent'
<1>1. [b \in Auctions |-> Owed(b)'] = [b \in Auctions |-> Owed(b)]
  OBVIOUS
<1> DEFINE f == [b \in Auctions |-> Owed(b)]
<1>2. f \in [1..NumAuctions -> Int] /\ NumAuctions \in Nat
  BY DueType, DomainAssumption DEF Auctions
<1>3. MarketSolvent <=> marketBalance = SumTo(f, NumAuctions) + donated
  BY DEF MarketSolvent
<1>4. MarketSolvent' <=> marketBalance' = SumTo(f, NumAuctions) + donated'
  BY <1>1 DEF MarketSolvent, Auctions
<1> HIDE DEF f
<1>5. SumTo(f, NumAuctions) \in Int
  BY <1>2, SumInt
<1> QED
  BY <1>3, <1>4, <1>5 DEF TypeOK, BalanceTypeOK

-----------------------------------------------------------------------------
(* Auctions that a step leaves alone.                                      *)

SameBooks(b) ==
  /\ state'[b] = state[b] /\ listing'[b] = listing[b] /\ slashAmount'[b] = slashAmount[b]
  /\ winner'[b] = winner[b] /\ winningAmount'[b] = winningAmount[b]
  /\ escrowBalances'[b] = escrowBalances[b]
  /\ sellerClaimed'[b] = sellerClaimed[b]
  /\ finalizationRewards'[b] = finalizationRewards[b]
  /\ finalizationRewardClaimed'[b] = finalizationRewardClaimed[b]
  /\ state[b] = "VOIDED" /\ slashAmount[b] = 0 =>
       TotalEscrowIncludingShielded(b)' = TotalEscrowIncludingShielded(b)
  /\ b > auctionCounter' <=> b > auctionCounter

LEMMA SameRefund ==
  ASSUME NEW b \in Auctions, NEW u \in Accounts, state'[b] = state[b], winner'[b] = winner[b],
         winningAmount'[b] = winningAmount[b], escrowBalances'[b][u] = escrowBalances[b][u]
  PROVE  RefundDue(b, u)' = RefundDue(b, u)
BY DEF RefundDue, PreviewEscrowRefund, Terminal, Live

LEMMA SameBooksOwed ==
  ASSUME NEW b \in Auctions, SameBooks(b)
  PROVE  Owed(b)' = Owed(b) /\ (Booked(b) => Booked(b)')
<1>1. RefundsDue(b)' = RefundsDue(b)
  <2>1. \A u \in Accounts : RefundDue(b, u)' = RefundDue(b, u)
    BY SameRefund DEF SameBooks
  <2> QED
    BY <2>1, RefundsSame
<1>2. SellerDue(b)' = SellerDue(b)
  <2>1. PreviewSellerPayout(b)' = PreviewSellerPayout(b)
    BY DEF PreviewSellerPayout, SameBooks
  <2> QED
    BY <2>1 DEF SellerDue, SameBooks
<1>3. RewardDue(b)' = RewardDue(b)
  BY DEF RewardDue, SameBooks
<1>4. Booked(b) => Booked(b)'
  BY DEF Booked, SameBooks
<1> QED
  BY <1>1, <1>2, <1>3, <1>4 DEF Owed

(* Total escrow depends on the auction's own entries.                      *)
LEMMA SameTotal ==
  ASSUME NEW b \in Auctions, listing'[b] = listing[b], totalEscrow'[b] = totalEscrow[b],
         VaultOf(b) = 0 \/ auctionTotals'[VaultOf(b)][b] = auctionTotals[VaultOf(b)][b]
  PROVE  TotalEscrowIncludingShielded(b)' = TotalEscrowIncludingShielded(b)
BY DEF TotalEscrowIncludingShielded, ShieldedEscrowTotal, VaultOf

(* Steps that move no money of the market.                                 *)
LEMMA QuietStep ==
  ASSUME MoneyInv, TypeOK', ListingTimes', \A b \in Auctions : SameBooks(b),
         marketBalance' - donated' = marketBalance - donated
  PROVE  MoneyInv'
<1>1. marketBalance' \in Nat /\ donated' \in Nat
  BY DEF TypeOK, BalanceTypeOK
<1>2. MarketSolvent'
  BY <1>1, SameBooksOwed, OwedSame DEF MoneyInv
<1> QED
  BY <1>2, SameBooksOwed DEF MoneyInv

(* Steps that settle, or pay, one auction.                                 *)
LEMMA BookedStep ==
  ASSUME MoneyInv, TypeOK', ListingTimes', NEW a \in Auctions, NEW delta \in Int,
         Owed(a)' = Owed(a) + delta, Booked(a)',
         \A b \in Auctions \ {a} : SameBooks(b),
         marketBalance' = marketBalance + delta, donated' = donated
  PROVE  MoneyInv'
<1>1. MarketSolvent'
  BY SameBooksOwed, OwedChange DEF MoneyInv
<1> QED
  BY <1>1, SameBooksOwed DEF MoneyInv

-----------------------------------------------------------------------------
(* Steps that move no money of the market.                                 *)

LEMMA SameLedger ==
  ASSUME UNCHANGED <<creationVars, phaseVars, outcomeVars, requestVars, escrowVars>>,
         UNCHANGED <<sellerClaimed, finalizationRewardClaimed>>,
         UNCHANGED auctionTotals
  PROVE  \A b \in Auctions : SameBooks(b)
BY SameTotal DEF SameBooks, creationVars, phaseVars, outcomeVars, requestVars, escrowVars

LEMMA NewBlockMoney ==
  ASSUME MoneyInv, TypeOK', ListingTimes', NewBlock
  PROVE  MoneyInv'
BY SameLedger, QuietStep DEF NewBlock, claimFlags, vaultVars, balanceVars

LEMMA ConfigureMoney ==
  ASSUME MoneyInv, TypeOK', ListingTimes', Configure
  PROVE  MoneyInv'
<1>1. UNCHANGED auctionTotals
  BY DEF Configure, setSettlementEngine, setSlashedPot, setShieldedEscrowVault,
         setShieldedIdentityRegistry, SetDependencies, WireContracts, Vault_setMarket,
         Vault_setShieldedBidVerifier, vaultVars
<1>2. UNCHANGED <<creationVars, phaseVars, outcomeVars, requestVars, claimFlags, escrowVars,
                  balanceVars>>
  BY DEF Configure, setSettlementEngine, setSlashedPot, setShieldedEscrowVault,
         setShieldedIdentityRegistry, SetDependencies, WireContracts
<1> QED
  BY <1>1, <1>2, SameLedger, QuietStep DEF claimFlags, balanceVars

LEMMA placeBidMoney ==
  ASSUME MoneyInv, TypeOK', ListingTimes', NEW u, NEW a \in Auctions, NEW ct, placeBid(u, a, ct)
  PROVE  MoneyInv'
BY SameLedger, QuietStep DEF placeBid, claimFlags, vaultVars, balanceVars

LEMMA placeShieldedBidMoney ==
  ASSUME MoneyInv, TypeOK', ListingTimes', NEW a \in Auctions, NEW c, NEW ct, NEW d,
         placeShieldedBid(a, c, ct, d)
  PROVE  MoneyInv'
BY SameLedger, QuietStep DEF placeShieldedBid, claimFlags, vaultVars, balanceVars

LEMMA claimAssetMoney ==
  ASSUME MoneyInv, TypeOK', ListingTimes', NEW u, NEW a \in Auctions, claimAsset(u, a)
  PROVE  MoneyInv'
BY SameLedger, QuietStep DEF claimAsset, vaultVars, balanceVars

LEMMA claimShieldedAssetMoney ==
  ASSUME MoneyInv, TypeOK', ListingTimes', NEW a \in Auctions, NEW recipient, NEW deadline,
         NEW signer, claimShieldedAsset(a, recipient, deadline, signer)
  PROVE  MoneyInv'
<1>1. UNCHANGED auctionTotals
  BY DEF claimShieldedAsset, Vault_authorizeAssetClaim
<1> QED
  BY <1>1, SameLedger, QuietStep DEF claimShieldedAsset, balanceVars

LEMMA receiveMoney ==
  ASSUME MoneyInv, TypeOK', ListingTimes', NEW value \in Donations, receive(value)
  PROVE  MoneyInv'
<1>1. marketBalance' - donated' = marketBalance - donated
  BY MarketAssumption DEF receive, MoneyInv, TypeOK, BalanceTypeOK
<1> QED
  BY <1>1, SameLedger, QuietStep DEF receive, claimFlags, vaultVars

LEMMA TransferTokenMoney ==
  ASSUME MoneyInv, TypeOK', ListingTimes', NEW t, NEW u, TransferToken(t, u)
  PROVE  MoneyInv'
BY SameLedger, QuietStep DEF TransferToken, claimFlags, vaultVars, balanceVars

(* Shielded escrow is the vault's: only the total of an open auction grows. *)
LEMMA lockShieldedEscrowMoney ==
  ASSUME MoneyInv, TypeOK', ListingTimes', NEW a \in Auctions, NEW i, NEW c, NEW s,
         NEW value \in ShieldedAmounts, lockShieldedEscrow(a, i, c, s, value)
  PROVE  MoneyInv'
<1>1. state[a] = "ACTIVE"
  BY DEF lockShieldedEscrow, OpenForBids
<1>2. ASSUME NEW b \in Auctions
      PROVE  SameBooks(b)
  <2>1. CASE b = a
    BY <1>1, <2>1 DEF lockShieldedEscrow, SameBooks, creationVars, phaseVars, outcomeVars,
                      requestVars, claimFlags, escrowVars
  <2>2. CASE b # a
    <3>1. VaultOf(b) = 0 \/ auctionTotals'[VaultOf(b)][b] = auctionTotals[VaultOf(b)][b]
      <4>1. auctionTotals' = [auctionTotals EXCEPT ![VaultOf(a)][a] = @ + value]
        BY Zenon DEF lockShieldedEscrow, Vault_lockEscrow
      <4>2. VaultOf(a) \in Vaults /\ (VaultOf(b) # 0 => VaultOf(b) \in Vaults)
        <5>1. VaultOf(a) # 0
          BY Zenon DEF lockShieldedEscrow
        <5> QED
          BY <5>1, SnapshotType DEF MoneyInv
      <4>3. auctionTotals \in [Vaults -> [Auctions -> Nat]]
        BY DEF MoneyInv, TypeOK, VaultTypeOK
      <4>4. CASE VaultOf(b) # 0
        <5> DEFINE v == VaultOf(a)
                   w == VaultOf(b)
        <5>1. v \in Vaults /\ w \in Vaults /\ auctionTotals' = [auctionTotals EXCEPT ![v][a] = @ + value]
          BY <4>1, <4>2, <4>4
        <5> HIDE DEF v, w
        <5>2. auctionTotals'[w][b] = auctionTotals[w][b]
          BY <2>2, <4>3, <5>1
        <5> QED
          BY <5>2 DEF w
      <4> QED
        BY <4>4
    <3> QED
      BY <3>1, SameTotal
         DEF lockShieldedEscrow, SameBooks, creationVars, phaseVars, outcomeVars, requestVars,
             claimFlags, escrowVars
  <2> QED
    BY <2>1, <2>2
<1> QED
  BY <1>2, QuietStep DEF lockShieldedEscrow, balanceVars

(* A shielded refund lowers a total; a voided auction that had none pays   *)
(* no shielded refund.                                                     *)
LEMMA claimShieldedRefundMoney ==
  ASSUME MoneyInv, TypeOK', ListingTimes', NEW v \in Vaults, NEW c \in Commitments,
         NEW recipient \in Recipients, NEW deadline \in Deadlines, NEW signer \in Authorities,
         claimShieldedRefund(v, c, recipient, deadline, signer)
  PROVE  MoneyInv'
<1> DEFINE a == commitments[v][c].auctionId
           principal == commitments[v][c].amount
<1>1. a \in Auctions
  BY MarketAssumption, ConsumeClaimAuthorizationType
     DEF claimShieldedRefund, Vault_claimRefundWithAuthorization, MoneyInv, TypeOK
<1>2. principal \in Nat /\ principal # 0 /\ principal <= auctionTotals[v][a]
  <2>1. commitments[v][c] \in CommitmentDeposit
    BY DEF MoneyInv, TypeOK, VaultTypeOK
  <2>2. principal \in Nat
    BY <2>1 DEF CommitmentDeposit
  <2>3. principal # 0 /\ principal <= auctionTotals[v][a]
    BY Zenon DEF claimShieldedRefund, Vault_claimRefundWithAuthorization, Spendable
  <2> QED
    BY <2>2, <2>3
<1>3. auctionTotals' = [auctionTotals EXCEPT ![v][a] = @ - principal] /\ VaultOf(a) = v
  BY Zenon DEF claimShieldedRefund, Vault_claimRefundWithAuthorization
<1> HIDE DEF a, principal
<1>4. UNCHANGED <<creationVars, phaseVars, outcomeVars, requestVars, sellerClaimed,
                  finalizationRewardClaimed, escrowVars, balanceVars>>
  BY DEF claimShieldedRefund
<1>5. ASSUME NEW b \in Auctions, state[b] = "VOIDED", slashAmount[b] = 0
      PROVE  VaultOf(b) = 0 \/ auctionTotals'[VaultOf(b)][b] = auctionTotals[VaultOf(b)][b]
  <2>1. CASE b = a
    <3>1. auctionTotals[v][a] \in Nat /\ totalEscrow[a] \in Nat /\ v # 0
      <4>1. auctionTotals \in [Vaults -> [Auctions -> Nat]] /\ totalEscrow \in [Auctions -> Nat]
        BY DEF MoneyInv, TypeOK, VaultTypeOK, EscrowTypeOK
      <4>2. v # 0
        BY DEF Vaults
      <4> QED
        BY <1>1, <4>1, <4>2
    <3>2. totalEscrow[a] + auctionTotals[v][a] = 0
      BY <1>3, <1>5, <2>1, <3>1
         DEF MoneyInv, Booked, TotalEscrowIncludingShielded, ShieldedEscrowTotal
    <3> QED
      BY <1>2, <3>1, <3>2
  <2>2. CASE b # a
    BY <1>1, <1>3, <2>2, SnapshotType DEF MoneyInv, TypeOK, VaultTypeOK
  <2> QED
    BY <2>1, <2>2
<1>6. ASSUME NEW b \in Auctions PROVE SameBooks(b)
  BY <1>4, <1>5, SameTotal DEF SameBooks, creationVars, phaseVars, outcomeVars, requestVars,
     escrowVars
<1> QED
  BY <1>4, <1>6, QuietStep DEF balanceVars

-----------------------------------------------------------------------------
(* Steps that bring money in.                                              *)

LEMMA createAuctionMoney ==
  ASSUME MoneyInv, TypeOK', ListingTimes', NEW u \in Sellers, NEW t \in Tokens,
         NEW d \in Durations, NEW p \in StartingPrices, NEW e \in Deposits,
         createAuction(u, t, d, p, e)
  PROVE  MoneyInv'
<1>0. PICK a \in Auctions : a = auctionCounter + 1
  BY DomainAssumption DEF createAuction, MoneyInv, TypeOK, CreationTypeOK, Auctions
<1>1. auctionCounter' = a /\ auctionCounter \in Nat /\ e \in Nat /\ e # 0
  BY <1>0, DomainAssumption, MarketAssumption
     DEF createAuction, MoneyInv, TypeOK, CreationTypeOK, Auctions
<1>2. state' = [state EXCEPT ![a] = "ACTIVE"] /\ state[a] = "CREATED"
  BY <1>0, <1>1 DEF createAuction, TransitionState, ValidTransition, MoneyInv, Booked
<1>3. /\ \A b \in Auctions : b # a => listing'[b] = listing[b]
      /\ listing'[a].sellerDeposit = e
  BY <1>0, <1>1 DEF createAuction, MoneyInv, TypeOK, CreationTypeOK
<1>4. /\ marketBalance' = marketBalance + e
      /\ UNCHANGED <<slashAmount, outcomeVars, requestVars, claimFlags, escrowVars, donated,
                     auctionTotals>>
  BY DEF createAuction, vaultVars
<1>5. ASSUME NEW b \in Auctions \ {a} PROVE SameBooks(b)
  <2>1. TotalEscrowIncludingShielded(b)' = TotalEscrowIncludingShielded(b)
    BY <1>3, <1>4, SameTotal DEF escrowVars
  <2>2. b > auctionCounter' <=> b > auctionCounter
    BY <1>0, <1>1 DEF Auctions
  <2>3. state'[b] = state[b]
    BY <1>2 DEF MoneyInv, TypeOK, PhaseTypeOK
  <2> QED
    BY <1>3, <1>4, <2>1, <2>2, <2>3
       DEF SameBooks, outcomeVars, requestVars, claimFlags, escrowVars
<1>6. state'[a] = "ACTIVE"
  BY <1>1, <1>2 DEF MoneyInv, TypeOK, PhaseTypeOK
<1>7. Owed(a) = 0 /\ Owed(a)' = e
  <2>1. \A w \in Accounts : escrowBalances[a][w] = 0 /\ escrowBalances'[a][w] = 0
    BY <1>1, <1>2, <1>4 DEF MoneyInv, Booked, escrowVars
  <2>2. \A w \in Accounts : RefundDue(a, w) = 0 /\ RefundDue(a, w)' = 0
    BY <1>2, <1>6, <2>1 DEF RefundDue, PreviewEscrowRefund, Live, Terminal
  <2>3. RefundsDue(a) = 0 /\ RefundsDue(a)' = 0
    <3>1. [w \in Accounts |-> RefundDue(a, w)] = [w \in 1..NumAccounts |-> 0]
      BY <2>2 DEF Accounts
    <3>2. [w \in Accounts |-> RefundDue(a, w)'] = [w \in 1..NumAccounts |-> 0]
      BY <2>2 DEF Accounts
    <3> QED
      BY <3>1, <3>2, SumZero, DomainAssumption DEF RefundsDue, Accounts
  <2>4. SellerDue(a) = 0 /\ SellerDue(a)' = e
    BY <1>2, <1>3, <1>6 DEF SellerDue, PreviewSellerPayout, Live
  <2>5. RewardDue(a) = 0 /\ RewardDue(a)' = 0
    BY <1>2, <1>6 DEF RewardDue
  <2> QED
    BY <1>1, <2>3, <2>4, <2>5 DEF Owed
<1>8. Booked(a)'
  <2>2. ~(a > auctionCounter')
    BY <1>1 DEF Auctions
  <2>3. ~sellerClaimed'[a] /\ ~finalizationRewardClaimed'[a]
    BY <1>1, <1>2, <1>4 DEF MoneyInv, Booked, Terminal, claimFlags
  <2> QED
    BY <1>1, <1>3, <1>6, <2>2, <2>3 DEF Booked
<1>9. e \in Int /\ Owed(a)' = Owed(a) + e
  BY <1>1, <1>7
<1> QED
  BY <1>9, <1>4, <1>5, <1>7, <1>8, BookedStep

LEMMA lockEscrowMoney ==
  ASSUME MoneyInv, TypeOK', ListingTimes', NEW u \in Bidders, NEW a \in Auctions,
         NEW value \in EscrowAmounts, lockEscrow(u, a, value)
  PROVE  MoneyInv'
<1>1. u \in Accounts /\ value \in Nat
  BY MarketAssumption
<1>2. /\ state[a] = "ACTIVE"
      /\ escrowBalances' = [escrowBalances EXCEPT ![a][u] = @ + value]
      /\ totalEscrow' = [totalEscrow EXCEPT ![a] = @ + value]
      /\ marketBalance' = marketBalance + value
      /\ UNCHANGED <<creationVars, phaseVars, outcomeVars, requestVars, claimFlags,
                     auctionTotals, donated>>
  BY DEF lockEscrow, OpenForBids, vaultVars
<1>3. escrowBalances \in [Auctions -> [Accounts -> Nat]] /\ totalEscrow \in [Auctions -> Nat]
  BY DEF MoneyInv, TypeOK, EscrowTypeOK
<1>4. ASSUME NEW b \in Auctions \ {a} PROVE SameBooks(b)
  <2>1. totalEscrow'[b] = totalEscrow[b] /\ escrowBalances'[b] = escrowBalances[b]
    BY <1>2, <1>3
  <2> QED
    BY <1>2, <2>1, SameTotal
       DEF SameBooks, creationVars, phaseVars, outcomeVars, requestVars, claimFlags
<1>5. RefundsDue(a)' = RefundsDue(a) + value
  <2>1. RefundDue(a, u) \in Nat /\ RefundDue(a, u)' = RefundDue(a, u) + value
    BY <1>1, <1>2, <1>3 DEF RefundDue, Live, phaseVars
  <2>2. \A w \in Accounts \ {u} : RefundDue(a, w)' = RefundDue(a, w)
    BY <1>2, <1>3 DEF RefundDue, Live, phaseVars
  <2> DEFINE r == RefundDue(a, u) + value
  <2>3. r \in Int /\ RefundDue(a, u)' = r
    BY <1>1, <2>1
  <2> HIDE DEF r
  <2>4. RefundsDue(a)' = RefundsDue(a) + r - RefundDue(a, u)
    BY <1>1, <2>2, <2>3, RefundsChange DEF MoneyInv
  <2> QED
    BY <1>1, <2>1, <2>4, DueType DEF r, MoneyInv
<1>6. SellerDue(a)' = SellerDue(a) /\ RewardDue(a)' = RewardDue(a)
  BY <1>2 DEF SellerDue, RewardDue, Live, phaseVars, creationVars
<1>7. Owed(a)' = Owed(a) + value
  BY <1>1, <1>5, <1>6, DueType DEF Owed, MoneyInv
<1>8. Booked(a)'
  BY <1>2 DEF MoneyInv, Booked, phaseVars, creationVars, claimFlags, requestVars
<1> QED
  BY <1>1, <1>2, <1>4, <1>7, <1>8, BookedStep

-----------------------------------------------------------------------------
(* Resolution.                                                             *)

(* Starting to resolve fixes the reward and moves nothing.                 *)
LEMMA triggerFinalizeMoney ==
  ASSUME MoneyInv, TypeOK', ListingTimes', NEW u \in Executors, NEW a \in Auctions,
         triggerFinalize(u, a)
  PROVE  MoneyInv'
<1>1. /\ state[a] = "ACTIVE" /\ state' = [state EXCEPT ![a] = "RESOLVING"]
      /\ finalizationRewards' = [finalizationRewards EXCEPT ![a] =
                                   ComputeFinalizeReward(listing[a].sellerDeposit)]
      /\ UNCHANGED <<creationVars, slashAmount, outcomeVars, claimFlags, escrowVars,
                     auctionTotals, balanceVars>>
  BY DEF triggerFinalize, TransitionState, ValidTransition, vaultVars
<1>2. state \in [Auctions -> AuctionState] /\ finalizationRewards \in [Auctions -> Nat]
  BY DEF MoneyInv, TypeOK, PhaseTypeOK, RequestTypeOK
<1>3. ASSUME NEW b \in Auctions \ {a} PROVE SameBooks(b)
  <2>1. TotalEscrowIncludingShielded(b)' = TotalEscrowIncludingShielded(b)
    BY <1>1, SameTotal DEF escrowVars, creationVars
  <2> QED
    BY <1>1, <1>2, <2>1
       DEF SameBooks, creationVars, outcomeVars, claimFlags, escrowVars
<1>4. state'[a] = "RESOLVING"
        /\ finalizationRewards'[a] = ComputeFinalizeReward(listing[a].sellerDeposit)
  BY <1>1, <1>2
<1>5. Owed(a)' = Owed(a) + 0
  <2>1. RefundsDue(a)' = RefundsDue(a)
    BY <1>1, <1>4, RefundsSame DEF RefundDue, Live, escrowVars
  <2>2. SellerDue(a)' = SellerDue(a) /\ RewardDue(a)' = RewardDue(a)
    BY <1>1, <1>4 DEF SellerDue, RewardDue, Live, creationVars
  <2> QED
    BY <2>1, <2>2, DueType DEF Owed, MoneyInv
<1>6. Booked(a)'
  BY <1>1, <1>4 DEF MoneyInv, Booked, Terminal, creationVars, claimFlags
<1>7. marketBalance' = marketBalance + 0 /\ donated' = donated
  BY <1>1 DEF balanceVars, MoneyInv, TypeOK, BalanceTypeOK
<1> QED
  BY <1>3, <1>5, <1>6, <1>7, BookedStep

(* A sale moves the price from the winner's side to the seller's.          *)
LEMMA SaleDue ==
  ASSUME MoneyInv, NEW a \in Auctions, NEW amount \in Nat,
         state[a] = "RESOLVING", state'[a] = "FINALIZED", winningAmount'[a] = amount,
         UNCHANGED <<listing, finalizationRewards, sellerClaimed, finalizationRewardClaimed>>
  PROVE  /\ SellerDue(a)' + RewardDue(a)' = SellerDue(a) + RewardDue(a) + amount
         /\ SellerDue(a)' \in Nat /\ RewardDue(a)' \in Nat
<1> DEFINE deposit == listing[a].sellerDeposit
           reward == finalizationRewards[a]
<1>1. deposit \in Nat /\ reward \in Nat /\ reward <= deposit
  BY SnapshotType, FinalizeRewardRange DEF MoneyInv, Booked
<1>2. ~sellerClaimed[a] /\ ~finalizationRewardClaimed[a]
  BY DEF MoneyInv, Booked, Terminal
<1>3. SellerDue(a)' = SaturatingSub(deposit + amount, reward)
  BY <1>2 DEF SellerDue, PreviewSellerPayout, computeSellerPayout, Live
<1>4. RewardDue(a)' = reward /\ RewardDue(a) = 0 /\ SellerDue(a) = deposit
  BY <1>2 DEF RewardDue, SellerDue, Live
<1> HIDE DEF deposit, reward
<1>5. deposit + amount \in Nat /\ reward <= deposit + amount
  BY <1>1
<1>6. /\ SaturatingSub(deposit + amount, reward) = deposit + amount - reward
      /\ deposit + amount - reward \in Nat
  BY <1>1, <1>5 DEF SaturatingSub
<1> QED
  BY <1>1, <1>3, <1>4, <1>6

LEMMA submitResolutionMoney ==
  ASSUME MoneyInv, TypeOK', ListingTimes', NEW a \in Auctions, NEW w \in 0..NumAccounts, NEW ct,
         NEW amount \in WinningAmounts, submitResolution(a, w, ct, amount)
  PROVE  MoneyInv'
<1>1. /\ state[a] = "RESOLVING" /\ state' = [state EXCEPT ![a] = "FINALIZED"]
      /\ winner' = [winner EXCEPT ![a] = w]
      /\ winningAmount' = [winningAmount EXCEPT ![a] = amount]
      /\ IF w = 0 THEN amount = 0 ELSE amount <= escrowBalances[a][w]
      /\ UNCHANGED <<creationVars, slashAmount, finalizationRewards, claimFlags, escrowVars,
                     auctionTotals, balanceVars>>
  BY DEF submitResolution, ResolutionAdmissible, TransitionState, vaultRecords
<1>2. /\ state \in [Auctions -> AuctionState] /\ winner \in [Auctions -> 0..NumAccounts]
      /\ winningAmount \in [Auctions -> Nat] /\ amount \in Nat
      /\ escrowBalances \in [Auctions -> [Accounts -> Nat]]
  BY MarketAssumption DEF MoneyInv, TypeOK, PhaseTypeOK, OutcomeTypeOK, EscrowTypeOK
<1>3. ASSUME NEW b \in Auctions \ {a} PROVE SameBooks(b)
  <2>1. TotalEscrowIncludingShielded(b)' = TotalEscrowIncludingShielded(b)
    BY <1>1, SameTotal DEF escrowVars, creationVars
  <2> QED
    BY <1>1, <1>2, <2>1 DEF SameBooks, creationVars, claimFlags, escrowVars
<1>4. state'[a] = "FINALIZED" /\ winner'[a] = w /\ winningAmount'[a] = amount
  BY <1>1, <1>2
<1>5. RefundsDue(a)' = RefundsDue(a) - amount
  <2>1. \A u \in Accounts \ {w} : RefundDue(a, u)' = RefundDue(a, u)
    BY <1>1, <1>4 DEF RefundDue, PreviewEscrowRefund, Live, Terminal, escrowVars
  <2>2. CASE w = 0
    <3>1. \A u \in Accounts : RefundDue(a, u)' = RefundDue(a, u)
      BY <2>1, <2>2 DEF Accounts
    <3> QED
      BY <1>1, <2>2, <3>1, RefundsSame, DueType DEF MoneyInv
  <2>3. CASE w # 0
    <3>1. w \in Accounts
      BY <2>3, DomainAssumption DEF Accounts
    <3>2. RefundDue(a, w) = escrowBalances[a][w] /\ escrowBalances[a][w] \in Nat
      BY <1>1, <1>2, <3>1 DEF RefundDue, Live
    <3> DEFINE r == escrowBalances[a][w] - amount
    <3>3. RefundDue(a, w)' = r /\ r \in Int
      <4>1. RefundDue(a, w)' = computeWinningRefund(escrowBalances[a][w], amount)
        BY <1>1, <1>4 DEF RefundDue, PreviewEscrowRefund, Live, escrowVars
      <4>2. amount <= escrowBalances[a][w]
        BY <1>1, <2>3
      <4>3. SaturatingSub(escrowBalances[a][w], amount) = r
        BY <1>2, <3>2, <4>2, SaturatingSubNat
      <4> QED
        BY <1>2, <3>2, <4>1, <4>3 DEF computeWinningRefund
    <3> HIDE DEF r
    <3>4. RefundsDue(a)' = RefundsDue(a) + r - RefundDue(a, w)
      BY <2>1, <3>1, <3>3, RefundsChange DEF MoneyInv
    <3> QED
      BY <1>2, <3>2, <3>4, DueType DEF r, MoneyInv
  <2> QED
    BY <2>2, <2>3
<1>6. /\ SellerDue(a)' + RewardDue(a)' = SellerDue(a) + RewardDue(a) + amount
      /\ SellerDue(a)' \in Nat /\ RewardDue(a)' \in Nat
  BY <1>1, <1>2, <1>4, SaleDue DEF creationVars, claimFlags
<1>7. Owed(a)' = Owed(a) + 0
  <2>1. /\ Owed(a) = RefundsDue(a) + SellerDue(a) + RewardDue(a)
        /\ Owed(a)' = RefundsDue(a)' + SellerDue(a)' + RewardDue(a)'
    BY DEF Owed
  <2>2. RefundsDue(a) \in Int /\ SellerDue(a) \in Nat /\ RewardDue(a) \in Nat
    BY DueType DEF MoneyInv
  <2>3. amount \in Nat
    BY <1>2
  <2> QED
    BY <1>5, <1>6, <2>1, <2>2, <2>3
<1>8. Booked(a)'
  BY <1>1, <1>4 DEF MoneyInv, Booked, Terminal, creationVars, claimFlags
<1>9. marketBalance' = marketBalance + 0 /\ donated' = donated
  BY <1>1 DEF balanceVars, MoneyInv, TypeOK, BalanceTypeOK
<1> QED
  BY <1>3, <1>7, <1>8, <1>9, BookedStep

(* A shielded winner's price comes from the vault.                         *)
LEMMA submitShieldedResolutionMoney ==
  ASSUME MoneyInv, TypeOK', ListingTimes', NEW a \in Auctions, NEW i, NEW c, NEW ct,
         NEW amount \in WinningAmounts, submitShieldedResolution(a, i, c, ct, amount)
  PROVE  MoneyInv'
<1>1. /\ state[a] = "RESOLVING" /\ state' = [state EXCEPT ![a] = "FINALIZED"]
      /\ winner' = [winner EXCEPT ![a] = 0]
      /\ winningAmount' = [winningAmount EXCEPT ![a] = amount]
      /\ marketBalance' = marketBalance + amount
      /\ UNCHANGED <<creationVars, slashAmount, finalizationRewards, claimFlags, escrowVars,
                     donated>>
  BY DEF submitShieldedResolution, TransitionState
<1>2. /\ state \in [Auctions -> AuctionState] /\ winner \in [Auctions -> 0..NumAccounts]
      /\ winningAmount \in [Auctions -> Nat] /\ amount \in Nat
      /\ escrowBalances \in [Auctions -> [Accounts -> Nat]]
  BY MarketAssumption DEF MoneyInv, TypeOK, PhaseTypeOK, OutcomeTypeOK, EscrowTypeOK
<1>3. ASSUME NEW b \in Auctions \ {a} PROVE SameBooks(b)
  <2>1. VaultOf(b) = 0 \/ auctionTotals'[VaultOf(b)][b] = auctionTotals[VaultOf(b)][b]
    <3> DEFINE v == VaultOf(a)
               w == VaultOf(b)
    <3>1. v \in Vaults /\ (w # 0 => w \in Vaults)
      <4>1. v # 0
        BY Zenon DEF submitShieldedResolution, ShieldedResolutionAdmissible
      <4> QED
        BY <4>1, SnapshotType DEF MoneyInv
    <3>2. auctionTotals' = [auctionTotals EXCEPT ![v][a] = @ - amount]
      BY Zenon DEF submitShieldedResolution, Vault_settleWinningCommitment
    <3>3. auctionTotals \in [Vaults -> [Auctions -> Nat]]
      BY DEF MoneyInv, TypeOK, VaultTypeOK
    <3> HIDE DEF v, w
    <3>4. w # 0 => auctionTotals'[w][b] = auctionTotals[w][b]
      BY <3>1, <3>2, <3>3
    <3> QED
      BY <3>4 DEF w
  <2>2. TotalEscrowIncludingShielded(b)' = TotalEscrowIncludingShielded(b)
    BY <1>1, <2>1, SameTotal DEF escrowVars, creationVars
  <2> QED
    BY <1>1, <1>2, <2>2 DEF SameBooks, creationVars, claimFlags, escrowVars
<1>4. state'[a] = "FINALIZED" /\ winner'[a] = 0 /\ winningAmount'[a] = amount
  BY <1>1, <1>2, DomainAssumption
<1>5. RefundsDue(a)' = RefundsDue(a)
  <2>1. \A u \in Accounts : u # 0
    BY DEF Accounts
  <2>2. \A u \in Accounts : RefundDue(a, u)' = RefundDue(a, u)
    BY <1>1, <1>4, <2>1 DEF RefundDue, PreviewEscrowRefund, Live, Terminal, escrowVars
  <2> QED
    BY <2>2, RefundsSame
<1>6. /\ SellerDue(a)' + RewardDue(a)' = SellerDue(a) + RewardDue(a) + amount
      /\ SellerDue(a)' \in Nat /\ RewardDue(a)' \in Nat
  BY <1>1, <1>2, <1>4, SaleDue DEF creationVars, claimFlags
<1>7. Owed(a)' = Owed(a) + amount
  <2>1. /\ Owed(a) = RefundsDue(a) + SellerDue(a) + RewardDue(a)
        /\ Owed(a)' = RefundsDue(a)' + SellerDue(a)' + RewardDue(a)'
    BY DEF Owed
  <2>2. RefundsDue(a) \in Int /\ SellerDue(a) \in Nat /\ RewardDue(a) \in Nat
    BY DueType DEF MoneyInv
  <2>3. amount \in Nat
    BY <1>2
  <2> QED
    BY <1>5, <1>6, <2>1, <2>2, <2>3
<1>8. Booked(a)'
  BY <1>1, <1>4 DEF MoneyInv, Booked, Terminal, creationVars, claimFlags
<1>9. amount \in Int /\ donated' = donated
  BY <1>1, <1>2
<1> QED
  BY <1>1, <1>3, <1>7, <1>8, <1>9, BookedStep

(* An auction that ends without a sale: escrow is due in full, and the     *)
(* slash leaves the market for the pot and the vault.                      *)
LEMMA SlashStep ==
  ASSUME MoneyInv, TypeOK', ListingTimes', NEW a \in Auctions, NEW slash \in Nat,
         NEW next \in {"CANCELLED", "VOIDED"},
         state[a] \in Live, state' = [state EXCEPT ![a] = next],
         slashAmount' = [slashAmount EXCEPT ![a] = slash],
         marketBalance' = marketBalance - slash,
         UNCHANGED <<creationVars, outcomeVars, finalizationRewards, claimFlags, escrowVars,
                     auctionTotals, donated>>,
         SellerDue(a)' + RewardDue(a)' = SellerDue(a) + RewardDue(a) - slash,
         SellerDue(a)' \in Nat, RewardDue(a)' \in Nat,
         next = "VOIDED" => /\ slash = 0 => TotalEscrowIncludingShielded(a) = 0
                            /\ state[a] = "RESOLVING"
  PROVE  MoneyInv'
<1>1. /\ state \in [Auctions -> AuctionState] /\ slashAmount \in [Auctions -> Nat]
  BY DEF MoneyInv, TypeOK, PhaseTypeOK
<1>2. \A b \in Auctions : TotalEscrowIncludingShielded(b)' = TotalEscrowIncludingShielded(b)
  BY SameTotal DEF escrowVars, creationVars
<1>3. ASSUME NEW b \in Auctions \ {a} PROVE SameBooks(b)
  BY <1>1, <1>2 DEF SameBooks, creationVars, outcomeVars, claimFlags, escrowVars
<1>4. state'[a] = next /\ slashAmount'[a] = slash
  BY <1>1
<1>5. RefundsDue(a)' = RefundsDue(a)
  <2>1. \A u \in Accounts : RefundDue(a, u)' = RefundDue(a, u)
    BY <1>4 DEF RefundDue, PreviewEscrowRefund, Live, Terminal, escrowVars
  <2> QED
    BY <2>1, RefundsSame
<1>6. Owed(a)' = Owed(a) + (0 - slash)
  <2>1. /\ Owed(a) = RefundsDue(a) + SellerDue(a) + RewardDue(a)
        /\ Owed(a)' = RefundsDue(a)' + SellerDue(a)' + RewardDue(a)'
    BY DEF Owed
  <2>2. RefundsDue(a) \in Int /\ SellerDue(a) \in Nat /\ RewardDue(a) \in Nat
    BY DueType DEF MoneyInv
  <2>3. SellerDue(a)' + RewardDue(a)' = SellerDue(a) + RewardDue(a) - slash /\ slash \in Nat
    OBVIOUS
  <2>4. SellerDue(a)' \in Nat /\ RewardDue(a)' \in Nat
    OBVIOUS
  <2> DEFINE r == RefundsDue(a)
             x == SellerDue(a)
             y == RewardDue(a)
  <2>5. \A x1, y1 \in Nat :
          x1 + y1 = x + y - slash => r + x1 + y1 = (r + x + y) + (0 - slash)
    <3>1. r \in Int /\ x \in Nat /\ y \in Nat
      BY <2>2
    <3> HIDE DEF r, x, y
    <3> QED
      BY <3>1
  <2> QED
    BY <1>5, <2>1, <2>3, <2>4, <2>5
<1>7. Booked(a)'
  BY <1>2, <1>4 DEF MoneyInv, Booked, Live, Terminal, creationVars, claimFlags
<1>8. 0 - slash \in Int /\ marketBalance' = marketBalance + (0 - slash) /\ donated' = donated
  BY DEF MoneyInv, TypeOK, BalanceTypeOK
<1> QED
  BY <1>3, <1>6, <1>7, <1>8, BookedStep

LEMMA cancelAuctionMoney ==
  ASSUME MoneyInv, TypeOK', ListingTimes', NEW u, NEW a \in Auctions, cancelAuction(u, a)
  PROVE  MoneyInv'
<1> DEFINE slash == ComputeCancellationSlash(a)
           deposit == listing[a].sellerDeposit
<1>1. PICK s \in 0..deposit : s = slash
  BY SlashRange DEF MoneyInv, ListingTimes, cancelAuction, OpenForBids, Exists
<1>2. /\ state[a] = "ACTIVE" /\ state' = [state EXCEPT ![a] = "CANCELLED"]
      /\ slashAmount' = [slashAmount EXCEPT ![a] = slash]
      /\ UNCHANGED <<creationVars, outcomeVars, finalizationRewards, claimFlags, escrowVars,
                     auctionTotals, donated>>
  BY DEF cancelAuction, OpenForBids, TransitionState, vaultRecords, requestVars
<1>3. marketBalance' = marketBalance - slash
  BY Zenon DEF cancelAuction, RegisterSlash
<1>4. deposit \in Nat /\ s \in Nat
  BY <1>1, SnapshotType DEF MoneyInv
<1> HIDE DEF slash
<1>5. state'[a] = "CANCELLED" /\ slashAmount'[a] = s
  BY <1>1, <1>2 DEF MoneyInv, TypeOK, PhaseTypeOK
<1>6. /\ SellerDue(a) = deposit /\ RewardDue(a) = 0 /\ RewardDue(a)' = 0
      /\ SellerDue(a)' = SaturatingSub(deposit, s)
  BY <1>2, <1>5 DEF SellerDue, RewardDue, PreviewSellerPayout, computeSellerCancellationPayout,
                    Live, MoneyInv, Booked, Terminal, creationVars, claimFlags
<1> HIDE DEF deposit
<1>7. SaturatingSub(deposit, s) = deposit - s /\ deposit - s \in Nat
  BY <1>1, <1>4 DEF SaturatingSub
<1>8. /\ SellerDue(a)' + RewardDue(a)' = SellerDue(a) + RewardDue(a) - s
      /\ SellerDue(a)' \in Nat /\ RewardDue(a)' \in Nat
  BY <1>4, <1>6, <1>7
<1> QED
  BY <1>1, <1>2, <1>3, <1>4, <1>8, SlashStep DEF Live

LEMMA triggerFallbackVoidMoney ==
  ASSUME MoneyInv, TypeOK', ListingTimes', NEW a \in Auctions, triggerFallbackVoid(a)
  PROVE  MoneyInv'
<1> DEFINE slash == ComputeVoidSlash(a)
           deposit == listing[a].sellerDeposit
           reward == finalizationRewards[a]
           escrow == TotalEscrowIncludingShielded(a)
<1>1. /\ state[a] = "RESOLVING" /\ state' = [state EXCEPT ![a] = "VOIDED"]
      /\ slashAmount' = [slashAmount EXCEPT ![a] = slash]
      /\ UNCHANGED <<creationVars, outcomeVars, finalizationRewards, claimFlags, escrowVars,
                     auctionTotals, donated>>
  BY DEF triggerFallbackVoid, TransitionState, vaultRecords
<1>2. marketBalance' = marketBalance - slash
  BY Zenon DEF triggerFallbackVoid, RegisterSlash
<1>3. deposit \in Nat /\ reward \in Nat /\ reward < deposit
  BY <1>1, SnapshotType, FinalizeRewardRange DEF MoneyInv, Booked
<1>4. SaturatingSub(deposit, reward) = deposit - reward
  BY <1>3, SaturatingSubNat
<1>5. slash = IF escrow = 0 THEN 0 ELSE deposit - reward
  BY <1>4 DEF ComputeVoidSlash
<1>6. PICK s \in Nat : s = slash
  BY <1>3, <1>5
<1>7. state'[a] = "VOIDED" /\ slashAmount'[a] = s
  BY <1>1, <1>6 DEF MoneyInv, TypeOK, PhaseTypeOK
<1>8. TotalEscrowIncludingShielded(a)' = escrow
  BY <1>1, SameTotal DEF escrowVars, creationVars
<1>9. /\ SellerDue(a) = deposit /\ RewardDue(a) = 0 /\ RewardDue(a)' = reward
      /\ SellerDue(a)' = IF s # 0 \/ escrow # 0 THEN 0 ELSE SaturatingSub(deposit, reward)
  <2>1. ~sellerClaimed'[a] /\ ~finalizationRewardClaimed'[a]
    BY <1>1 DEF MoneyInv, Booked, Terminal, claimFlags
  <2>2. SellerDue(a) = deposit /\ RewardDue(a) = 0 /\ RewardDue(a)' = reward
    BY <1>1, <1>7, <2>1 DEF SellerDue, RewardDue, Live
  <2>3. SellerDue(a)' = PreviewSellerPayout(a)'
    BY <1>7, <2>1 DEF SellerDue, Live
  <2>4. PreviewSellerPayout(a)' =
          IF s # 0 \/ escrow # 0 THEN 0 ELSE SaturatingSub(deposit, reward)
    BY <1>1, <1>7, <1>8 DEF PreviewSellerPayout, creationVars
  <2> QED
    BY <2>2, <2>3, <2>4
<1> HIDE DEF slash, deposit, reward, escrow
<1>10. /\ SellerDue(a)' + RewardDue(a)' = SellerDue(a) + RewardDue(a) - s
       /\ SellerDue(a)' \in Nat /\ RewardDue(a)' \in Nat
  BY <1>3, <1>4, <1>5, <1>6, <1>9
<1>11. s = 0 => TotalEscrowIncludingShielded(a) = 0
  BY <1>3, <1>5, <1>6 DEF escrow
<1> QED
  BY <1>1, <1>2, <1>6, <1>10, <1>11, SlashStep DEF Live

-----------------------------------------------------------------------------
(* Claims.                                                                 *)

LEMMA claimRefundMoney ==
  ASSUME MoneyInv, TypeOK', ListingTimes', NEW u \in Accounts, NEW a \in Auctions,
         claimRefund(u, a)
  PROVE  MoneyInv'
<1> DEFINE refund == PreviewEscrowRefund(a, u)
<1>1. UNCHANGED <<creationVars, phaseVars, outcomeVars, requestVars, claimFlags, totalEscrow,
                  auctionTotals, donated>>
  BY DEF claimRefund, vaultVars
<1>2. \A b \in Auctions : TotalEscrowIncludingShielded(b)' = TotalEscrowIncludingShielded(b)
  BY <1>1, SameTotal DEF creationVars
<1>3. CASE refund = 0
  <2>1. UNCHANGED <<escrowBalances, marketBalance>>
    BY <1>3 DEF claimRefund
  <2>2. \A b \in Auctions : SameBooks(b)
    BY <1>1, <1>2, <2>1
       DEF SameBooks, creationVars, phaseVars, outcomeVars, requestVars, claimFlags
  <2> QED
    BY <1>1, <2>1, <2>2, QuietStep
<1>4. CASE refund # 0
  <2>1. /\ escrowBalances' = [escrowBalances EXCEPT ![a][u] = 0]
        /\ marketBalance' = marketBalance - refund
    BY <1>4 DEF claimRefund, SendValue
  <2>2. PICK r \in Nat : r = refund
    BY PreviewType DEF MoneyInv, TypeOK, EscrowTypeOK
  <2>3. state[a] \in Terminal
    BY <1>4 DEF PreviewEscrowRefund, Terminal
  <2>4. RefundDue(a, u) = r
    BY <2>2, <2>3 DEF RefundDue, Live, Terminal
  <2> HIDE DEF refund
  <2>5. escrowBalances \in [Auctions -> [Accounts -> Nat]]
    BY DEF MoneyInv, TypeOK, EscrowTypeOK
  <2>6. RefundDue(a, u)' = 0
    <3>1. escrowBalances'[a][u] = 0
      BY <2>1, <2>5
    <3>2. winningAmount'[a] \in Nat
      BY DEF TypeOK, OutcomeTypeOK
    <3>3. computeWinningRefund(escrowBalances'[a][u], winningAmount'[a]) = 0
      BY <3>1, <3>2 DEF computeWinningRefund, SaturatingSub
    <3>4. state'[a] \in Terminal
      BY <1>1, <2>3 DEF phaseVars
    <3> QED
      BY <3>1, <3>3, <3>4 DEF RefundDue, PreviewEscrowRefund, Live, Terminal
  <2>7. \A w \in Accounts \ {u} : RefundDue(a, w)' = RefundDue(a, w)
    BY <1>1, <2>1, <2>5, SameRefund DEF phaseVars, outcomeVars
  <2>8. RefundsDue(a)' = RefundsDue(a) + 0 - r
    BY <2>4, <2>6, <2>7, RefundsChange DEF MoneyInv
  <2>9. SellerDue(a)' = SellerDue(a) /\ RewardDue(a)' = RewardDue(a)
    <3>1. PreviewSellerPayout(a)' = PreviewSellerPayout(a)
      BY <1>1, <1>2
         DEF PreviewSellerPayout, creationVars, phaseVars, outcomeVars, requestVars
    <3> QED
      BY <1>1, <3>1 DEF SellerDue, RewardDue, creationVars, phaseVars, requestVars, claimFlags
  <2>10. Owed(a)' = Owed(a) + (0 - r)
    <3>1. RefundsDue(a) \in Int /\ SellerDue(a) \in Nat /\ RewardDue(a) \in Nat
      BY DueType DEF MoneyInv
    <3> QED
      BY <2>8, <2>9, <3>1 DEF Owed
  <2>11. ASSUME NEW b \in Auctions \ {a} PROVE SameBooks(b)
    BY <1>1, <1>2, <2>1, <2>5
       DEF SameBooks, creationVars, phaseVars, outcomeVars, requestVars, claimFlags
  <2>12. Booked(a)'
    BY <1>1, <1>2, <2>3
       DEF MoneyInv, Booked, Terminal, creationVars, phaseVars, requestVars, claimFlags
  <2>13. 0 - r \in Int /\ marketBalance' = marketBalance + (0 - r) /\ donated' = donated
    BY <1>1, <2>1, <2>2 DEF MoneyInv, TypeOK, BalanceTypeOK
  <2> QED
    BY <2>10, <2>11, <2>12, <2>13, BookedStep
<1> QED
  BY <1>3, <1>4

(* The seller's and the executor's claims settle one due each.             *)
LEMMA ClaimStep ==
  ASSUME MoneyInv, TypeOK', ListingTimes', NEW a \in Auctions, NEW paid \in Nat,
         state[a] \in Terminal,
         UNCHANGED <<creationVars, phaseVars, outcomeVars, requestVars, escrowVars,
                     auctionTotals, donated>>,
         \A b \in Auctions \ {a} :
           /\ sellerClaimed'[b] = sellerClaimed[b]
           /\ finalizationRewardClaimed'[b] = finalizationRewardClaimed[b],
         SellerDue(a)' + RewardDue(a)' = SellerDue(a) + RewardDue(a) - paid,
         marketBalance' = marketBalance - paid
  PROVE  MoneyInv'
<1>1. \A b \in Auctions : TotalEscrowIncludingShielded(b)' = TotalEscrowIncludingShielded(b)
  BY SameTotal DEF creationVars, escrowVars
<1>2. ASSUME NEW b \in Auctions \ {a} PROVE SameBooks(b)
  BY <1>1 DEF SameBooks, creationVars, phaseVars, outcomeVars, requestVars, escrowVars
<1>3. Booked(a)'
  BY <1>1 DEF MoneyInv, Booked, Terminal, creationVars, phaseVars, requestVars, escrowVars
<1>4. RefundsDue(a)' = RefundsDue(a)
  BY SameRefund, RefundsSame DEF phaseVars, outcomeVars, escrowVars
<1>5. SellerDue(a)' \in Int /\ RewardDue(a)' \in Int
  <2>1. PreviewSellerPayout(a)' = PreviewSellerPayout(a)
    BY <1>1 DEF PreviewSellerPayout, creationVars, phaseVars, outcomeVars, requestVars
  <2>2. finalizationRewards[a] \in Nat /\ PreviewSellerPayout(a) \in Nat
         /\ listing[a].sellerDeposit \in Nat
    BY SellerPayoutNat, SnapshotType DEF MoneyInv, TypeOK, RequestTypeOK
  <2> QED
    BY <2>1, <2>2 DEF SellerDue, RewardDue, creationVars, requestVars
<1>6. Owed(a)' = Owed(a) + (0 - paid)
  <2> DEFINE r == RefundsDue(a)
             x == SellerDue(a)
             y == RewardDue(a)
  <2>1. \A x1, y1 \in Int :
          x1 + y1 = x + y - paid => r + x1 + y1 = (r + x + y) + (0 - paid)
    <3>1. r \in Int /\ x \in Nat /\ y \in Nat
      BY DueType DEF MoneyInv
    <3> HIDE DEF r, x, y
    <3> QED
      BY <3>1
  <2>2. SellerDue(a)' + RewardDue(a)' = x + y - paid
    OBVIOUS
  <2> QED
    BY <1>4, <1>5, <2>1, <2>2 DEF Owed
<1>7. 0 - paid \in Int /\ marketBalance' = marketBalance + (0 - paid) /\ donated' = donated
  BY DEF MoneyInv, TypeOK, BalanceTypeOK
<1> QED
  BY <1>2, <1>3, <1>6, <1>7, BookedStep

LEMMA claimSellerProceedsMoney ==
  ASSUME MoneyInv, TypeOK', ListingTimes', NEW u, NEW a \in Auctions, claimSellerProceeds(u, a)
  PROVE  MoneyInv'
<1>1. PICK paid \in Nat : paid = PreviewSellerPayout(a)
  BY SellerPayoutNat DEF MoneyInv
<1>2. /\ ~sellerClaimed[a] /\ paid # 0
      /\ sellerClaimed' = [sellerClaimed EXCEPT ![a] = TRUE]
      /\ marketBalance' = marketBalance - paid
      /\ UNCHANGED <<creationVars, phaseVars, outcomeVars, requestVars, escrowVars,
                     auctionTotals, donated, finalizationRewardClaimed>>
  BY <1>1 DEF claimSellerProceeds, SendValue, vaultVars
<1>3. state[a] \in Terminal
  BY <1>1, <1>2 DEF PreviewSellerPayout, Terminal
<1>4. sellerClaimed \in [Auctions -> BOOLEAN]
  BY DEF MoneyInv, TypeOK, ClaimTypeOK
<1>5. SellerDue(a) = paid /\ SellerDue(a)' = 0
  BY <1>1, <1>2, <1>3, <1>4 DEF SellerDue, Live, Terminal, phaseVars
<1>6. RewardDue(a)' = RewardDue(a) /\ RewardDue(a) \in Nat
  BY <1>2, DueType DEF RewardDue, phaseVars, requestVars, MoneyInv
<1>7. SellerDue(a)' + RewardDue(a)' = SellerDue(a) + RewardDue(a) - paid
  BY <1>5, <1>6
<1> QED
  BY <1>2, <1>3, <1>4, <1>7, ClaimStep

LEMMA claimFinalizeRewardMoney ==
  ASSUME MoneyInv, TypeOK', ListingTimes', NEW u, NEW a \in Auctions, claimFinalizeReward(u, a)
  PROVE  MoneyInv'
<1>1. PICK paid \in Nat : paid = finalizationRewards[a]
  BY DEF MoneyInv, TypeOK, RequestTypeOK
<1>2. /\ ~finalizationRewardClaimed[a] /\ state[a] \in {"FINALIZED", "VOIDED"}
      /\ finalizationRewardClaimed' = [finalizationRewardClaimed EXCEPT ![a] = TRUE]
      /\ marketBalance' = marketBalance - paid
      /\ UNCHANGED <<creationVars, phaseVars, outcomeVars, requestVars, escrowVars,
                     auctionTotals, donated, sellerClaimed>>
  BY <1>1 DEF claimFinalizeReward, SendValue, vaultVars, MoneyInv, TypeOK, BalanceTypeOK
<1>3. finalizationRewardClaimed \in [Auctions -> BOOLEAN]
  BY DEF MoneyInv, TypeOK, ClaimTypeOK
<1>4. RewardDue(a) = paid /\ RewardDue(a)' = 0
  BY <1>1, <1>2, <1>3 DEF RewardDue
<1>5. SellerDue(a)' = SellerDue(a) /\ SellerDue(a) \in Nat
  <2>1. TotalEscrowIncludingShielded(a)' = TotalEscrowIncludingShielded(a)
    BY <1>2, SameTotal DEF creationVars, escrowVars
  <2>2. PreviewSellerPayout(a)' = PreviewSellerPayout(a)
    BY <1>2, <2>1 DEF PreviewSellerPayout, creationVars, phaseVars, outcomeVars, requestVars
  <2> QED
    BY <1>2, <2>2, DueType DEF SellerDue, phaseVars, creationVars, MoneyInv
<1>6. SellerDue(a)' + RewardDue(a)' = SellerDue(a) + RewardDue(a) - paid
  BY <1>4, <1>5
<1>7. state[a] \in Terminal
  BY <1>2 DEF Terminal
<1> QED
  BY <1>2, <1>3, <1>6, <1>7, ClaimStep

-----------------------------------------------------------------------------
(* The invariant.                                                          *)

LEMMA InitMoney ==
  ASSUME Init
  PROVE  MoneyInv
<1>1. TypeOK /\ ListingTimes
  BY InitType
<1>2. \A a \in Auctions : Owed(a) = 0
  <2> TAKE a \in Auctions
  <2>1. \A u \in Accounts : RefundDue(a, u) = 0
    BY DEF Init, RefundDue, PreviewEscrowRefund, Live, Terminal
  <2>2. [u \in Accounts |-> RefundDue(a, u)] = [u \in 1..NumAccounts |-> 0]
    BY <2>1 DEF Accounts
  <2>3. RefundsDue(a) = 0
    BY <2>2, SumZero, DomainAssumption DEF RefundsDue
  <2>4. SellerDue(a) = 0 /\ RewardDue(a) = 0
    BY DEF Init, SellerDue, RewardDue, PreviewSellerPayout, Live
  <2> QED
    BY <2>3, <2>4 DEF Owed
<1>3. MarketSolvent
  <2>1. [a \in Auctions |-> Owed(a)] = [a \in 1..NumAuctions |-> 0]
    BY <1>2 DEF Auctions
  <2>2. SumTo([a \in 1..NumAuctions |-> 0], NumAuctions) = 0
    BY SumZero, DomainAssumption
  <2>3. marketBalance = 0 /\ donated = 0
    BY DEF Init
  <2>4. SumTo([a \in Auctions |-> Owed(a)], NumAuctions) = 0
    BY Zenon, <2>1, <2>2
  <2> QED
    BY <2>3, <2>4 DEF MarketSolvent
<1>4. \A a \in Auctions : Booked(a)
  BY DEF Init, Booked, Auctions, Terminal
<1> QED
  BY <1>1, <1>3, <1>4 DEF MoneyInv

LEMMA BidMoney ==
  ASSUME MoneyInv, TypeOK', ListingTimes', NEW a \in Auctions, Bid(a)
  PROVE  MoneyInv'
BY lockEscrowMoney, placeBidMoney, lockShieldedEscrowMoney, placeShieldedBidMoney DEF Bid

LEMMA ResolveMoney ==
  ASSUME MoneyInv, TypeOK', ListingTimes', NEW a \in Auctions, Resolve(a)
  PROVE  MoneyInv'
BY triggerFinalizeMoney, submitResolutionMoney, submitShieldedResolutionMoney,
   cancelAuctionMoney, triggerFallbackVoidMoney DEF Resolve

LEMMA ClaimMoney ==
  ASSUME MoneyInv, TypeOK', ListingTimes', NEW a \in Auctions, Claim(a)
  PROVE  MoneyInv'
BY claimRefundMoney, claimSellerProceedsMoney, claimFinalizeRewardMoney, claimAssetMoney,
   claimShieldedAssetMoney DEF Claim

LEMMA NextMoney ==
  ASSUME MoneyInv, [Next]_vars
  PROVE  MoneyInv'
<1>1. TypeOK' /\ ListingTimes'
  BY NextType, ListingTimesStep DEF MoneyInv
<1>2. CASE Next
  BY <1>1, <1>2, NewBlockMoney, ConfigureMoney, createAuctionMoney, BidMoney, ResolveMoney,
     ClaimMoney, claimShieldedRefundMoney, receiveMoney, TransferTokenMoney DEF Next
<1>3. CASE UNCHANGED vars
  <2>1. \A b \in Auctions : SameBooks(b)
    BY <1>3, SameLedger DEF vars, claimFlags, vaultVars
  <2> QED
    BY <1>1, <1>3, <2>1, QuietStep DEF vars, balanceVars
<1> QED
  BY <1>2, <1>3

(* For every number of auctions, bidders, commitments and contracts, and   *)
(* every order of transactions, the market's balance is exactly what it    *)
(* owes to bidders, sellers and executors, plus what receive() took: no    *)
(* claim is uncovered and nothing is stranded.                             *)
THEOREM MarketAlwaysSolvent == Spec => []MarketSolvent
<1>1. Init => MoneyInv
  BY InitMoney
<1>2. MoneyInv /\ [Next]_vars => MoneyInv'
  BY NextMoney
<1>3. MoneyInv => MarketSolvent
  BY DEF MoneyInv
<1> QED
  BY <1>1, <1>2, <1>3, PTL DEF Spec

-----------------------------------------------------------------------------
(* The vaults.                                                             *)

(* A commitment that was ever locked belongs to an auction of its vault;   *)
(* one that holds value has an authority and was never paid.               *)
DepositSound(v, c) ==
  /\ commitments[v][c].auctionId # 0 =>
       Exists(commitments[v][c].auctionId) /\ VaultOf(commitments[v][c].auctionId) = v
  /\ commitments[v][c].amount # 0 =>
       /\ commitments[v][c].auctionId # 0
       /\ commitments[v][c].claimAuthority # 0
       /\ ~commitments[v][c].claimed

(* Refunds are open, for the market and in the vault of the snapshot only, *)
(* from the outcome on; before it there is neither a reserve nor a paid    *)
(* refund, and a reserve never outlives the escrow it compensates.         *)
PathSound(a) ==
  /\ shieldedRefundsUnlocked[a] <=> state[a] \in Terminal /\ VaultOf(a) # 0
  /\ \A v \in Vaults : refundsUnlocked[v][a] <=> state[a] \in Terminal /\ VaultOf(a) = v
  /\ \A v \in Vaults : shieldedSlashReserves[v][a] # 0 =>
       state[a] \in Terminal /\ VaultOf(a) = v /\ auctionTotals[v][a] # 0
  /\ \A c \in shieldedRefundClaimed[a] :
       state[a] \in Terminal /\ VaultOf(a) # 0 /\ commitments[VaultOf(a)][c].claimed

VaultFacts ==
  /\ VaultSolvent
  /\ \A v \in Vaults, c \in Commitments : DepositSound(v, c)
  /\ \A a \in Auctions : PathSound(a)

VaultInv == TypeOK /\ ListingTimes /\ VaultFacts

(* The terms of the vault's sums.                                          *)
Amounts(v) == [c \in Commitments |-> commitments[v][c].amount]
AmountsOf(v, a) ==
  [c \in Commitments |-> IF commitments[v][c].auctionId = a THEN commitments[v][c].amount ELSE 0]

LEMMA VaultTypes ==
  ASSUME TypeOK, NEW v \in Vaults
  PROVE  /\ vaultBalance[v] \in Nat
         /\ shieldedSlashReserves[v] \in [Auctions -> Nat]
         /\ \A a \in Auctions : auctionTotals[v][a] \in Nat /\ shieldedSlashReserves[v][a] \in Nat
         /\ \A c \in Commitments : /\ commitments[v][c] \in CommitmentDeposit
                                   /\ commitments[v][c].amount \in Nat
                                   /\ commitments[v][c].auctionId \in 0..NumAuctions
         /\ Amounts(v) \in [Commitments -> Nat]
         /\ \A a \in Auctions : AmountsOf(v, a) \in [Commitments -> Nat]
<1>1. \A c \in Commitments : /\ commitments[v][c] \in CommitmentDeposit
                             /\ commitments[v][c].amount \in Nat
                             /\ commitments[v][c].auctionId \in 0..NumAuctions
  BY DEF TypeOK, VaultTypeOK, CommitmentDeposit
<1>2. /\ vaultBalance[v] \in Nat /\ shieldedSlashReserves[v] \in [Auctions -> Nat]
      /\ \A a \in Auctions : auctionTotals[v][a] \in Nat /\ shieldedSlashReserves[v][a] \in Nat
  BY DEF TypeOK, VaultTypeOK
<1> QED
  BY <1>1, <1>2 DEF Amounts, AmountsOf

LEMMA VaultTerms ==
  ASSUME TypeOK, NEW v \in Vaults
  PROVE  /\ NumCommitments \in Nat /\ NumAuctions \in Nat
         /\ Amounts(v) \in [1..NumCommitments -> Int]
         /\ shieldedSlashReserves[v] \in [1..NumAuctions -> Int]
         /\ \A a \in Auctions : AmountsOf(v, a) \in [1..NumCommitments -> Int]
BY VaultTypes, DomainAssumption DEF Commitments, Auctions

LEMMA VaultBalancedSums ==
  VaultBalanced <=> \A v \in Vaults :
    vaultBalance[v] = SumTo(Amounts(v), NumCommitments) + SumTo(shieldedSlashReserves[v], NumAuctions)
BY Zenon DEF VaultBalanced, Amounts

LEMMA VaultTotalsSums ==
  VaultTotals <=> \A v \in Vaults, a \in Auctions :
    auctionTotals[v][a] = SumTo(AmountsOf(v, a), NumCommitments)
BY Zenon DEF VaultTotals, AmountsOf

(* The sums after one deposit has changed.                                 *)
LEMMA DepositSums ==
  ASSUME TypeOK, NEW v \in Vaults, NEW c \in Commitments, NEW a \in Auctions, NEW m \in Nat,
         commitments'[v][c].amount = m, commitments'[v][c].auctionId = a,
         commitments[v][c].amount = 0 \/ commitments[v][c].auctionId = a,
         \A o \in Commitments \ {c} : commitments'[v][o] = commitments[v][o]
  PROVE  /\ SumTo(Amounts(v)', NumCommitments)
              = SumTo(Amounts(v), NumCommitments) + m - commitments[v][c].amount
         /\ SumTo(AmountsOf(v, a)', NumCommitments)
              = SumTo(AmountsOf(v, a), NumCommitments) + m - commitments[v][c].amount
         /\ \A b \in Auctions \ {a} : AmountsOf(v, b)' = AmountsOf(v, b)
<1> DEFINE n == commitments[v][c].amount
<1>0. c \in 1..NumCommitments /\ NumCommitments \in Nat /\ m \in Int
  BY DomainAssumption DEF Commitments
<1>1. SumTo(Amounts(v)', NumCommitments) = SumTo(Amounts(v), NumCommitments) + m - n
  <2> DEFINE f == Amounts(v)
  <2>1. Amounts(v)' = [f EXCEPT ![c] = m] /\ f[c] = n
    BY DEF Amounts
  <2>2. f \in [1..NumCommitments -> Int]
    BY VaultTerms
  <2> HIDE DEF n, f
  <2>3. SumTo([f EXCEPT ![c] = m], NumCommitments) = SumTo(f, NumCommitments) + m - f[c]
    BY <1>0, <2>2, SumUpdate
  <2> QED
    BY <2>1, <2>3 DEF f
<1>2. SumTo(AmountsOf(v, a)', NumCommitments) = SumTo(AmountsOf(v, a), NumCommitments) + m - n
  <2> DEFINE f == AmountsOf(v, a)
  <2>1. AmountsOf(v, a)' = [f EXCEPT ![c] = m] /\ f[c] = n
    BY DEF AmountsOf
  <2>2. f \in [1..NumCommitments -> Int]
    BY VaultTerms
  <2> HIDE DEF n, f
  <2>3. SumTo([f EXCEPT ![c] = m], NumCommitments) = SumTo(f, NumCommitments) + m - f[c]
    BY <1>0, <2>2, SumUpdate
  <2> QED
    BY <2>1, <2>3 DEF f
<1>3. \A b \in Auctions \ {a} : AmountsOf(v, b)' = AmountsOf(v, b)
  BY DEF AmountsOf
<1> QED
  BY <1>1, <1>2, <1>3

LEMMA ReserveSum ==
  ASSUME NEW f \in [Auctions -> Nat], NEW a \in Auctions, NEW r \in Int
  PROVE  SumTo([f EXCEPT ![a] = @ + r], NumAuctions) = SumTo(f, NumAuctions) + r
<1> DEFINE k == f[a] + r
<1>1. f \in [1..NumAuctions -> Int] /\ a \in 1..NumAuctions /\ NumAuctions \in Nat
      /\ k \in Int /\ f[a] \in Int
  BY DomainAssumption DEF Auctions
<1> HIDE DEF k
<1>2. SumTo([f EXCEPT ![a] = k], NumAuctions) = SumTo(f, NumAuctions) + k - f[a]
  BY <1>1, SumUpdate
<1>3. SumTo(f, NumAuctions) \in Int
  BY <1>1, SumInt
<1> QED
  BY <1>1, <1>2, <1>3 DEF k

(* One deposit of one auction changes to m, and the auction's reserve by   *)
(* r: the books stay balanced if total and balance follow.                 *)
LEMMA DepositChange ==
  ASSUME TypeOK, VaultSolvent, NEW v \in Vaults, NEW c \in Commitments, NEW a \in Auctions,
         NEW m \in Nat, NEW r \in Int,
         commitments'[v][c].amount = m, commitments'[v][c].auctionId = a,
         commitments[v][c].amount = 0 \/ commitments[v][c].auctionId = a,
         \A o \in Commitments \ {c} : commitments'[v][o] = commitments[v][o],
         \A w \in Vaults \ {v} : commitments'[w] = commitments[w],
         vaultBalance'[v] = vaultBalance[v] + (m - commitments[v][c].amount) + r,
         auctionTotals'[v][a] = auctionTotals[v][a] + m - commitments[v][c].amount,
         \A b \in Auctions \ {a} : auctionTotals'[v][b] = auctionTotals[v][b],
         shieldedSlashReserves'[v] = [shieldedSlashReserves[v] EXCEPT ![a] = @ + r],
         \A w \in Vaults \ {v} : /\ vaultBalance'[w] = vaultBalance[w]
                                 /\ auctionTotals'[w] = auctionTotals[w]
                                 /\ shieldedSlashReserves'[w] = shieldedSlashReserves[w]
  PROVE  VaultSolvent'
<1> DEFINE n == commitments[v][c].amount
<1>0. n \in Nat
  BY VaultTypes, Zenon
<1>1. /\ SumTo(Amounts(v)', NumCommitments) = SumTo(Amounts(v), NumCommitments) + m - n
      /\ SumTo(AmountsOf(v, a)', NumCommitments) = SumTo(AmountsOf(v, a), NumCommitments) + m - n
      /\ \A b \in Auctions \ {a} : AmountsOf(v, b)' = AmountsOf(v, b)
  BY DepositSums, SMTT(60)
<1>2. \A w \in Vaults \ {v} : Amounts(w)' = Amounts(w)
        /\ \A b \in Auctions : AmountsOf(w, b)' = AmountsOf(w, b)
  BY DEF Amounts, AmountsOf
<1>3. SumTo(shieldedSlashReserves'[v], NumAuctions) = SumTo(shieldedSlashReserves[v], NumAuctions) + r
  <2>1. shieldedSlashReserves[v] \in [Auctions -> Nat]
    BY VaultTypes, Zenon
  <2> QED
    BY <2>1, ReserveSum
<1>4. /\ SumTo(Amounts(v), NumCommitments) \in Int
      /\ SumTo(shieldedSlashReserves[v], NumAuctions) \in Int
      /\ SumTo(AmountsOf(v, a), NumCommitments) \in Int
  BY VaultTerms, SumInt, Zenon
<1> HIDE DEF n
<1>5. VaultBalanced'
  <2> SUFFICES ASSUME NEW w \in Vaults
               PROVE  vaultBalance'[w] = SumTo(Amounts(w)', NumCommitments)
                                           + SumTo(shieldedSlashReserves'[w], NumAuctions)
    BY Zenon DEF VaultBalanced, Amounts, Vaults, Commitments
  <2>1. vaultBalance[w] = SumTo(Amounts(w), NumCommitments)
                            + SumTo(shieldedSlashReserves[w], NumAuctions)
    BY VaultBalancedSums DEF VaultSolvent
  <2>2. CASE w = v
    BY <2>1, <2>2, <1>0, <1>1, <1>3, <1>4 DEF n
  <2>3. CASE w # v
    BY <2>1, <2>3, <1>2
  <2> QED
    BY <2>2, <2>3
<1>6. VaultTotals'
  <2> SUFFICES ASSUME NEW w \in Vaults, NEW b \in Auctions
               PROVE  auctionTotals'[w][b] = SumTo(AmountsOf(w, b)', NumCommitments)
    BY Zenon DEF VaultTotals, AmountsOf, Vaults, Auctions, Commitments
  <2>1. auctionTotals[w][b] = SumTo(AmountsOf(w, b), NumCommitments)
    BY VaultTotalsSums DEF VaultSolvent
  <2>2. CASE w = v /\ b = a
    BY <2>1, <2>2, <1>0, <1>1, <1>4 DEF n
  <2>3. CASE w = v /\ b # a
    BY <2>1, <2>3, <1>1
  <2>4. CASE w # v
    BY <2>1, <2>4, <1>2
  <2> QED
    BY <2>2, <2>3, <2>4
<1> QED
  BY <1>5, <1>6 DEF VaultSolvent

-----------------------------------------------------------------------------
(* Steps of the vaults.                                                    *)

(* A step that leaves the vaults, the claims and the ends of auctions as   *)
(* they are.                                                               *)
VaultsUntouched ==
  /\ UNCHANGED <<commitments, auctionTotals, refundsUnlocked, shieldedSlashReserves, vaultBalance>>
  /\ UNCHANGED <<creationVars, shieldedRefundsUnlocked, shieldedRefundClaimed>>
  /\ \A a \in Auctions : state'[a] \in Terminal <=> state[a] \in Terminal

LEMMA UntouchedVaults ==
  ASSUME VaultFacts, VaultsUntouched
  PROVE  VaultFacts'
<1>1. VaultSolvent'
  BY DEF VaultsUntouched, VaultFacts, VaultSolvent, VaultBalanced, VaultTotals
<1>2. \A v \in Vaults, c \in Commitments : DepositSound(v, c)'
  BY DEF VaultsUntouched, VaultFacts, DepositSound, Exists, VaultOf, creationVars
<1>3. \A a \in Auctions : PathSound(a)'
  BY DEF VaultsUntouched, VaultFacts, PathSound, VaultOf, creationVars
<1> QED
  BY <1>1, <1>2, <1>3, Zenon DEF VaultFacts, Vaults, Commitments, Auctions

(* A new auction has no snapshot that any deposit or reserve refers to.    *)
LEMMA createAuctionVaults ==
  ASSUME TypeOK, VaultFacts, NEW u, NEW t, NEW d, NEW p, NEW e, createAuction(u, t, d, p, e)
  PROVE  VaultFacts'
<1> PICK a \in Auctions : a = auctionCounter + 1
  BY DomainAssumption DEF createAuction, TypeOK, CreationTypeOK, Auctions
<1>1. /\ auctionCounter \in Nat /\ auctionCounter' = a
      /\ state[a] = "CREATED" /\ state' = [state EXCEPT ![a] = "ACTIVE"]
      /\ \A b \in Auctions \ {a} : listing'[b] = listing[b]
      /\ UNCHANGED vaultVars /\ UNCHANGED shieldedRefundsUnlocked /\ UNCHANGED claimFlags
  BY DomainAssumption
     DEF createAuction, TransitionState, ValidTransition, TypeOK, CreationTypeOK
<1>2. state \in [Auctions -> AuctionState]
  BY DEF TypeOK, PhaseTypeOK
<1>3. VaultSolvent'
  BY <1>1 DEF vaultVars, VaultFacts, VaultSolvent, VaultBalanced, VaultTotals
<1>4. ASSUME NEW v \in Vaults, NEW c \in Commitments
      PROVE  DepositSound(v, c)'
  <2>1. DepositSound(v, c) /\ commitments[v][c].auctionId \in 0..NumAuctions
    BY VaultTypes DEF VaultFacts
  <2> QED
    BY <1>1, <2>1 DEF DepositSound, Exists, VaultOf, vaultVars, Auctions
<1>5. ASSUME NEW b \in Auctions
      PROVE  PathSound(b)'
  <2>1. PathSound(b)
    BY DEF VaultFacts
  <2>2. CASE b = a
    BY <1>1, <1>2, <2>1, <2>2 DEF PathSound, Terminal, vaultVars, claimFlags
  <2>3. CASE b # a
    BY <1>1, <1>2, <2>1, <2>3 DEF PathSound, VaultOf, vaultVars, claimFlags
  <2> QED
    BY <2>2, <2>3
<1> QED
  BY <1>3, <1>4, <1>5, Zenon DEF VaultFacts, Vaults, Commitments, Auctions

LEMMA lockShieldedEscrowVaults ==
  ASSUME TypeOK, VaultFacts, NEW a \in Auctions, NEW i \in Identities, NEW c \in Commitments,
         NEW s \in Authorities, NEW value \in ShieldedAmounts, lockShieldedEscrow(a, i, c, s, value)
  PROVE  VaultFacts'
<1> PICK v \in Vaults : v = VaultOf(a)
  BY SnapshotType DEF lockShieldedEscrow
<1>1. /\ Exists(a) /\ state[a] = "ACTIVE" /\ value \in Nat /\ value # 0 /\ s # 0
      /\ UNCHANGED creationVars /\ UNCHANGED phaseVars /\ UNCHANGED claimFlags
  BY MarketAssumption DEF lockShieldedEscrow, OpenForBids, Vault_lockEscrow
<1>2. /\ commitments[v][c].amount = 0 /\ ~commitments[v][c].claimed
      /\ commitments' = [commitments EXCEPT
           ![v][c] = [auctionId |-> a, amount |-> value, claimed |-> @.claimed,
                      claimAuthority |-> s]]
      /\ auctionTotals' = [auctionTotals EXCEPT ![v][a] = @ + value]
      /\ vaultBalance' = [vaultBalance EXCEPT ![v] = @ + value]
      /\ UNCHANGED <<refundsUnlocked, shieldedSlashReserves>>
  BY DEF lockShieldedEscrow, Vault_lockEscrow, Lockable
<1>3. /\ commitments'[v][c] = [auctionId |-> a, amount |-> value, claimed |-> FALSE,
                               claimAuthority |-> s]
      /\ \A o \in Commitments \ {c} : commitments'[v][o] = commitments[v][o]
      /\ \A w \in Vaults \ {v} : commitments'[w] = commitments[w]
  <2>1. commitments[v][c].claimed = FALSE
    BY <1>2 DEF TypeOK, VaultTypeOK, CommitmentDeposit
  <2> QED
    BY <1>2, <2>1 DEF TypeOK, VaultTypeOK
<1>4. VaultSolvent'
  <2>1. /\ vaultBalance'[v] = vaultBalance[v] + value
        /\ auctionTotals'[v][a] = auctionTotals[v][a] + value
        /\ \A b \in Auctions \ {a} : auctionTotals'[v][b] = auctionTotals[v][b]
        /\ \A w \in Vaults \ {v} : /\ vaultBalance'[w] = vaultBalance[w]
                                   /\ auctionTotals'[w] = auctionTotals[w]
                                   /\ shieldedSlashReserves'[w] = shieldedSlashReserves[w]
    BY <1>2 DEF TypeOK, VaultTypeOK
  <2>2. shieldedSlashReserves'[v] = [shieldedSlashReserves[v] EXCEPT ![a] = @ + 0]
    <3>1. shieldedSlashReserves[v] \in [Auctions -> Nat]
      BY VaultTypes
    <3> QED
      BY <1>2, <3>1
  <2>3. vaultBalance[v] \in Nat /\ auctionTotals[v][a] \in Nat
    BY VaultTypes
  <2>4. /\ vaultBalance'[v] = vaultBalance[v] + (value - commitments[v][c].amount) + 0
        /\ auctionTotals'[v][a] = auctionTotals[v][a] + value - commitments[v][c].amount
    BY <1>1, <1>2, <2>1, <2>3
  <2>5. commitments'[v][c].amount = value /\ commitments'[v][c].auctionId = a
    BY <1>3
  <2>6. VaultSolvent /\ value \in Nat /\ commitments[v][c].amount = 0
    BY <1>1, <1>2 DEF VaultFacts
  <2> QED
    BY <1>3, <2>1, <2>2, <2>4, <2>5, <2>6, DepositChange
<1>5. ASSUME NEW w \in Vaults, NEW o \in Commitments
      PROVE  DepositSound(w, o)'
  <2>1. DepositSound(w, o)
    BY DEF VaultFacts
  <2>2. CASE w = v /\ o = c
    <3>1. /\ commitments'[v][c].auctionId = a /\ commitments'[v][c].claimAuthority = s
          /\ commitments'[v][c].claimed = FALSE /\ a # 0
      BY <1>3 DEF Auctions
    <3>2. Exists(a)' /\ VaultOf(a)' = v
      BY <1>1 DEF Exists, VaultOf, creationVars
    <3> QED
      BY <1>1, <2>2, <3>1, <3>2 DEF DepositSound, Exists, VaultOf
  <2>3. CASE ~(w = v /\ o = c)
    <3>1. commitments'[w][o] = commitments[w][o]
      BY <1>3, <2>3
    <3> QED
      BY <1>1, <2>1, <3>1 DEF DepositSound, Exists, VaultOf, creationVars
  <2> QED
    BY <2>2, <2>3
<1>6. ASSUME NEW b \in Auctions
      PROVE  PathSound(b)'
  <2>1. PathSound(b)
    BY DEF VaultFacts
  <2>2. \A w \in Vaults : shieldedSlashReserves[w][b] # 0 => auctionTotals'[w][b] = auctionTotals[w][b]
    <3>1. \A w \in Vaults : ~(w = v /\ b = a) => auctionTotals'[w][b] = auctionTotals[w][b]
      BY <1>2 DEF TypeOK, VaultTypeOK
    <3>2. state[a] \notin Terminal
      BY <1>1 DEF Terminal
    <3> QED
      BY <2>1, <3>1, <3>2 DEF PathSound
  <2>3. \A o \in Commitments : VaultOf(b) \in Vaults /\ commitments[VaultOf(b)][o].claimed
          => commitments'[VaultOf(b)][o].claimed
    BY <1>2, <1>3
  <2>4. shieldedRefundClaimed[b] \subseteq Commitments /\ (VaultOf(b) # 0 => VaultOf(b) \in Vaults)
    BY SnapshotType DEF TypeOK, ClaimTypeOK
  <2>5. VaultOf(b)' = VaultOf(b)
    BY <1>1 DEF VaultOf, creationVars
  <2> QED
    BY <1>1, <1>2, <2>1, <2>2, <2>3, <2>4, <2>5 DEF PathSound, phaseVars, claimFlags
<1> QED
  BY <1>4, <1>5, <1>6, Zenon DEF VaultFacts, Vaults, Commitments, Auctions

(* An outcome opens the refunds of its auction, in the vault of the        *)
(* snapshot only (_openShieldedRefundPath).                                *)
LEMMA PathOpens ==
  ASSUME TypeOK, VaultFacts, NEW a \in Auctions, NEW to \in Terminal, TransitionState(a, to),
         OpenShieldedRefundPath(a), UNCHANGED creationVars
  PROVE  /\ state[a] \notin Terminal /\ state'[a] \in Terminal
         /\ \A b \in Auctions \ {a} : state'[b] = state[b]
         /\ shieldedRefundsUnlocked'[a] <=> VaultOf(a) # 0
         /\ \A b \in Auctions \ {a} : shieldedRefundsUnlocked'[b] = shieldedRefundsUnlocked[b]
         /\ \A v \in Vaults : refundsUnlocked'[v][a] <=> VaultOf(a) = v
         /\ \A v \in Vaults, b \in Auctions \ {a} : refundsUnlocked'[v][b] = refundsUnlocked[v][b]
<1>1. /\ state[a] \notin Terminal /\ state'[a] \in Terminal
      /\ \A b \in Auctions \ {a} : state'[b] = state[b]
  BY DEF TransitionState, ValidTransition, Terminal, TypeOK, PhaseTypeOK
<1>2. ~shieldedRefundsUnlocked[a] /\ \A v \in Vaults : ~refundsUnlocked[v][a]
  BY <1>1 DEF VaultFacts, PathSound
<1>3. CASE VaultOf(a) = 0
  <2>1. UNCHANGED <<shieldedRefundsUnlocked, refundsUnlocked>>
    BY <1>3 DEF OpenShieldedRefundPath
  <2> QED
    BY <1>1, <1>2, <1>3, <2>1 DEF Vaults
<1>4. CASE VaultOf(a) # 0
  <2>1. /\ shieldedRefundsUnlocked' = [shieldedRefundsUnlocked EXCEPT ![a] = TRUE]
        /\ refundsUnlocked' = [refundsUnlocked EXCEPT ![VaultOf(a)][a] = TRUE]
        /\ VaultOf(a) \in Vaults
    BY <1>2, <1>4, SnapshotType DEF OpenShieldedRefundPath, Vault_unlockRefunds
  <2>2. /\ refundsUnlocked \in [Vaults -> [Auctions -> BOOLEAN]]
        /\ shieldedRefundsUnlocked \in [Auctions -> BOOLEAN]
    BY DEF TypeOK, VaultTypeOK, PhaseTypeOK
  <2> QED
    BY <1>1, <1>2, <1>4, <2>1, <2>2
<1> QED
  BY <1>3, <1>4

LEMMA OutcomePaths ==
  ASSUME TypeOK, VaultFacts, NEW a \in Auctions, NEW to \in Terminal, TransitionState(a, to),
         OpenShieldedRefundPath(a), UNCHANGED creationVars, UNCHANGED claimFlags,
         \A v \in Vaults, c \in Commitments :
           commitments'[v][c].claimed = commitments[v][c].claimed,
         \A v \in Vaults, b \in Auctions \ {a} :
           /\ shieldedSlashReserves'[v][b] = shieldedSlashReserves[v][b]
           /\ auctionTotals'[v][b] = auctionTotals[v][b],
         \A v \in Vaults : shieldedSlashReserves'[v][a] # 0 =>
           VaultOf(a) = v /\ auctionTotals'[v][a] # 0
  PROVE  \A b \in Auctions : PathSound(b)'
<1> SUFFICES ASSUME NEW b \in Auctions PROVE PathSound(b)'
  OBVIOUS
<1>1. PathSound(b) /\ VaultOf(b)' = VaultOf(b) /\ (VaultOf(b) # 0 => VaultOf(b) \in Vaults)
      /\ shieldedRefundClaimed'[b] = shieldedRefundClaimed[b]
      /\ shieldedRefundClaimed[b] \subseteq Commitments
  BY SnapshotType DEF VaultFacts, VaultOf, creationVars, claimFlags, TypeOK, ClaimTypeOK
<1>2. CASE b = a
  BY <1>1, <1>2, PathOpens DEF PathSound
<1>3. CASE b # a
  BY <1>1, <1>3, PathOpens DEF PathSound
<1> QED
  BY <1>2, <1>3

LEMMA submitResolutionVaults ==
  ASSUME TypeOK, VaultFacts, NEW a \in Auctions, NEW w, NEW ct, NEW amount,
         submitResolution(a, w, ct, amount)
  PROVE  VaultFacts'
<1>1. /\ UNCHANGED <<commitments, auctionTotals, shieldedSlashReserves, vaultBalance>>
      /\ UNCHANGED creationVars /\ UNCHANGED claimFlags
      /\ TransitionState(a, "FINALIZED") /\ OpenShieldedRefundPath(a)
  BY DEF submitResolution, vaultRecords
<1>2. state[a] \notin Terminal /\ "FINALIZED" \in Terminal
  BY DEF submitResolution, Terminal
<1>3. VaultSolvent'
  BY <1>1 DEF VaultFacts, VaultSolvent, VaultBalanced, VaultTotals
<1>4. \A v \in Vaults, c \in Commitments : DepositSound(v, c)'
  BY <1>1 DEF VaultFacts, DepositSound, Exists, VaultOf, creationVars
<1>5. \A v \in Vaults : shieldedSlashReserves'[v][a] = 0
  BY <1>1, <1>2 DEF VaultFacts, PathSound
<1>6. \A b \in Auctions : PathSound(b)'
  BY <1>1, <1>2, <1>5, OutcomePaths
<1> QED
  BY <1>3, <1>4, <1>6, Zenon DEF VaultFacts, Vaults, Commitments, Auctions

(* The price leaves the winning deposit, the total and the balance.        *)
LEMMA submitShieldedResolutionVaults ==
  ASSUME TypeOK, VaultFacts, NEW a \in Auctions, NEW i \in Identities, NEW c \in Commitments,
         NEW ct, NEW amount \in WinningAmounts, submitShieldedResolution(a, i, c, ct, amount)
  PROVE  VaultFacts'
<1> PICK v \in Vaults : v = VaultOf(a)
  BY SnapshotType DEF submitShieldedResolution, ShieldedResolutionAdmissible
<1>1. /\ UNCHANGED shieldedSlashReserves /\ UNCHANGED creationVars /\ UNCHANGED claimFlags
      /\ TransitionState(a, "FINALIZED") /\ OpenShieldedRefundPath(a)
  BY DEF submitShieldedResolution
<1>2. /\ commitments[v][c].amount # 0 /\ commitments[v][c].auctionId = a
      /\ amount <= commitments[v][c].amount /\ amount \in Nat
      /\ commitments' = [commitments EXCEPT ![v][c].amount = @ - amount]
      /\ auctionTotals' = [auctionTotals EXCEPT ![v][a] = @ - amount]
      /\ vaultBalance' = [vaultBalance EXCEPT ![v] = @ - amount]
  BY MarketAssumption DEF submitShieldedResolution, Vault_settleWinningCommitment
<1> DEFINE n == commitments[v][c].amount
<1>3. /\ commitments'[v][c] = [commitments[v][c] EXCEPT !.amount = n - amount]
      /\ \A o \in Commitments \ {c} : commitments'[v][o] = commitments[v][o]
      /\ \A w \in Vaults \ {v} : commitments'[w] = commitments[w]
  BY <1>2 DEF TypeOK, VaultTypeOK
<1>4. /\ commitments'[v][c].amount = n - amount /\ commitments'[v][c].auctionId = a
      /\ commitments'[v][c].claimed = commitments[v][c].claimed
      /\ commitments'[v][c].claimAuthority = commitments[v][c].claimAuthority
  <2>1. commitments[v][c] \in CommitmentDeposit
    BY VaultTypes
  <2> QED
    BY <1>2, <1>3, <2>1 DEF CommitmentDeposit
<1>5. /\ vaultBalance'[v] = vaultBalance[v] - amount
      /\ auctionTotals'[v][a] = auctionTotals[v][a] - amount
      /\ \A b \in Auctions \ {a} : auctionTotals'[v][b] = auctionTotals[v][b]
      /\ \A w \in Vaults \ {v} : /\ vaultBalance'[w] = vaultBalance[w]
                                 /\ auctionTotals'[w] = auctionTotals[w]
                                 /\ shieldedSlashReserves'[w] = shieldedSlashReserves[w]
  BY <1>1, <1>2 DEF TypeOK, VaultTypeOK
<1>6. VaultSolvent'
  <2>1. n \in Nat /\ vaultBalance[v] \in Nat /\ auctionTotals[v][a] \in Nat
        /\ shieldedSlashReserves[v] \in [Auctions -> Nat]
    BY VaultTypes
  <2>2. PICK m \in Nat : m = n - amount
    BY <1>2, <2>1
  <2>3. shieldedSlashReserves'[v] = [shieldedSlashReserves[v] EXCEPT ![a] = @ + 0]
    BY <1>1, <2>1
  <2>4. /\ vaultBalance'[v] = vaultBalance[v] + (m - n) + 0
        /\ auctionTotals'[v][a] = auctionTotals[v][a] + m - n
        /\ commitments'[v][c].amount = m /\ commitments[v][c].auctionId = a
    BY <1>2, <1>4, <1>5, <2>1, <2>2
  <2>5. VaultSolvent
    BY DEF VaultFacts
  <2>6. /\ \A o \in Commitments \ {c} : commitments'[v][o] = commitments[v][o]
        /\ \A w \in Vaults \ {v} : commitments'[w] = commitments[w]
        /\ commitments'[v][c].auctionId = a
    BY <1>3, <1>4
  <2> QED
    BY <1>5, <2>3, <2>4, <2>5, <2>6, DepositChange
<1>7. ASSUME NEW w \in Vaults, NEW o \in Commitments
      PROVE  DepositSound(w, o)'
  <2>1. DepositSound(w, o)
    BY DEF VaultFacts
  <2>2. CASE w = v /\ o = c
    BY <1>1, <1>2, <1>4, <2>1, <2>2 DEF DepositSound, Exists, VaultOf, creationVars
  <2>3. CASE ~(w = v /\ o = c)
    <3>1. commitments'[w][o] = commitments[w][o]
      BY <1>3, <2>3
    <3> QED
      BY <1>1, <2>1, <3>1 DEF DepositSound, Exists, VaultOf, creationVars
  <2> QED
    BY <2>2, <2>3
<1>8. \A b \in Auctions : PathSound(b)'
  <2>1. state[a] \notin Terminal /\ "FINALIZED" \in Terminal
    BY DEF submitShieldedResolution, Terminal
  <2>2. \A w \in Vaults : shieldedSlashReserves'[w][a] = 0
    BY <1>1, <2>1 DEF VaultFacts, PathSound
  <2>3. \A w \in Vaults, o \in Commitments : commitments'[w][o].claimed = commitments[w][o].claimed
    BY <1>3, <1>4
  <2>4. \A w \in Vaults, b \in Auctions \ {a} :
          /\ shieldedSlashReserves'[w][b] = shieldedSlashReserves[w][b]
          /\ auctionTotals'[w][b] = auctionTotals[w][b]
    BY <1>1, <1>5
  <2> QED
    BY <1>1, <2>1, <2>2, <2>3, <2>4, OutcomePaths
<1> QED
  BY <1>6, <1>7, <1>8, Zenon DEF VaultFacts, Vaults, Commitments, Auctions

(* A reserve and the balance change by the same amount.                    *)
LEMMA ReserveChange ==
  ASSUME TypeOK, VaultSolvent, NEW v \in Vaults, NEW a \in Auctions, NEW r \in Int,
         UNCHANGED <<commitments, auctionTotals>>,
         vaultBalance'[v] = vaultBalance[v] + r,
         shieldedSlashReserves'[v] = [shieldedSlashReserves[v] EXCEPT ![a] = @ + r],
         \A w \in Vaults \ {v} : /\ vaultBalance'[w] = vaultBalance[w]
                                 /\ shieldedSlashReserves'[w] = shieldedSlashReserves[w]
  PROVE  VaultSolvent'
<1>1. SumTo(shieldedSlashReserves'[v], NumAuctions) = SumTo(shieldedSlashReserves[v], NumAuctions) + r
  <2>1. shieldedSlashReserves[v] \in [Auctions -> Nat]
    BY VaultTypes, Zenon
  <2> QED
    BY <2>1, ReserveSum
<1>2. /\ SumTo(Amounts(v), NumCommitments) \in Int
      /\ SumTo(shieldedSlashReserves[v], NumAuctions) \in Int
  BY VaultTerms, SumInt, Zenon
<1>3. VaultBalanced'
  <2> SUFFICES ASSUME NEW w \in Vaults
               PROVE  vaultBalance'[w] = SumTo(Amounts(w)', NumCommitments)
                                           + SumTo(shieldedSlashReserves'[w], NumAuctions)
    BY Zenon DEF VaultBalanced, Amounts, Vaults, Commitments
  <2>1. vaultBalance[w] = SumTo(Amounts(w), NumCommitments)
                            + SumTo(shieldedSlashReserves[w], NumAuctions)
    BY VaultBalancedSums DEF VaultSolvent
  <2>2. Amounts(w)' = Amounts(w)
    BY DEF Amounts
  <2>3. CASE w = v
    BY <2>1, <2>2, <2>3, <1>1, <1>2
  <2>4. CASE w # v
    BY <2>1, <2>2, <2>4
  <2> QED
    BY <2>3, <2>4
<1>4. VaultTotals'
  BY DEF VaultSolvent, VaultTotals
<1> QED
  BY <1>3, <1>4 DEF VaultSolvent

(* A slash fills the reserve of the auction's vault, if there is shielded  *)
(* escrow, and opens the refunds.                                          *)
LEMMA SlashVaults ==
  ASSUME TypeOK, VaultFacts, NEW a \in Auctions, NEW slash \in Nat,
         NEW to \in {"CANCELLED", "VOIDED"}, TransitionState(a, to), RegisterSlash(a, slash),
         OpenShieldedRefundPath(a), UNCHANGED vaultRecords, UNCHANGED creationVars,
         UNCHANGED claimFlags
  PROVE  VaultFacts'
<1>0. UNCHANGED <<commitments, auctionTotals>> /\ to \in Terminal
  BY DEF vaultRecords, Terminal
<1>1. \A v \in Vaults : shieldedSlashReserves[v][a] = 0
  BY <1>0, PathOpens DEF VaultFacts, PathSound
<1>2. \A v \in Vaults, c \in Commitments : DepositSound(v, c)'
  BY <1>0 DEF VaultFacts, DepositSound, Exists, VaultOf, creationVars
<1>3. CASE UNCHANGED <<shieldedSlashReserves, vaultBalance>>
  <2>1. VaultSolvent'
    BY <1>0, <1>3 DEF VaultFacts, VaultSolvent, VaultBalanced, VaultTotals
  <2>2. \A b \in Auctions : PathSound(b)'
    BY <1>0, <1>1, <1>3, OutcomePaths
  <2> QED
    BY <1>2, <2>1, <2>2, Zenon DEF VaultFacts, Vaults, Commitments, Auctions
<1>4. ASSUME VaultOf(a) # 0, Vault_allocateSlash(VaultOf(a), a, slash, totalEscrow[a])
      PROVE  VaultFacts'
  <2> PICK v \in Vaults : v = VaultOf(a)
    BY <1>4, SnapshotType
  <2> DEFINE public == PublicSlashAllocation(v, a, slash, totalEscrow[a])
  <2>1. totalEscrow[a] \in Nat /\ VaultTypeOK
    BY DEF TypeOK, EscrowTypeOK
  <2>2. public \in 0..slash /\ (auctionTotals[v][a] = 0 => public = slash)
    BY <2>1, PublicSlashAllocationRange DEF PublicSlashAllocation
  <2>3. /\ shieldedSlashReserves' = [shieldedSlashReserves EXCEPT ![v][a] = @ + (slash - public)]
        /\ vaultBalance' = [vaultBalance EXCEPT ![v] = @ + (slash - public)]
    BY <1>4, Zenon DEF Vault_allocateSlash
  <2> HIDE DEF public
  <2>4. PICK r \in Nat : r = slash - public
    BY <2>2
  <2>5. /\ vaultBalance'[v] = vaultBalance[v] + r
        /\ shieldedSlashReserves'[v] = [shieldedSlashReserves[v] EXCEPT ![a] = @ + r]
        /\ \A w \in Vaults \ {v} : /\ vaultBalance'[w] = vaultBalance[w]
                                   /\ shieldedSlashReserves'[w] = shieldedSlashReserves[w]
    BY <2>3, <2>4 DEF TypeOK, VaultTypeOK
  <2>6. VaultSolvent'
    <3>1. VaultSolvent
      BY DEF VaultFacts
    <3> QED
      BY <1>0, <2>5, <3>1, ReserveChange
  <2>7. \A w \in Vaults, b \in Auctions \ {a} :
          shieldedSlashReserves'[w][b] = shieldedSlashReserves[w][b]
    BY <2>3 DEF TypeOK, VaultTypeOK
  <2>8. \A w \in Vaults : shieldedSlashReserves'[w][a] # 0 => v = w /\ auctionTotals[w][a] # 0
    <3>1. shieldedSlashReserves'[v][a] = shieldedSlashReserves[v][a] + r
      BY <2>3, <2>4 DEF TypeOK, VaultTypeOK
    <3>2. auctionTotals[v][a] = 0 => r = 0
      BY <2>2, <2>4
    <3>3. \A w \in Vaults \ {v} : shieldedSlashReserves'[w][a] = 0
      BY <1>1, <2>5
    <3>4. shieldedSlashReserves'[v][a] # 0 => auctionTotals[v][a] # 0
      BY <1>1, <3>1, <3>2
    <3> QED
      BY <3>3, <3>4
  <2>9. \A b \in Auctions : PathSound(b)'
    BY <1>0, <2>7, <2>8, OutcomePaths
  <2> QED
    BY <1>2, <2>6, <2>9, Zenon DEF VaultFacts, Vaults, Commitments, Auctions
<1> QED
  BY <1>3, <1>4 DEF RegisterSlash

LEMMA ResolveVaults ==
  ASSUME TypeOK, ListingTimes, VaultFacts, NEW a \in Auctions, Resolve(a)
  PROVE  VaultFacts'
<1>1. ASSUME NEW u \in Executors, triggerFinalize(u, a) PROVE VaultFacts'
  <2>1. \A b \in Auctions : state'[b] \in Terminal <=> state[b] \in Terminal
    BY <1>1 DEF triggerFinalize, TransitionState, ValidTransition, Terminal, TypeOK, PhaseTypeOK
  <2> QED
    BY <1>1, <2>1, UntouchedVaults DEF triggerFinalize, VaultsUntouched, vaultVars, claimFlags
<1>2. ASSUME NEW u \in Sellers, cancelAuction(u, a) PROVE VaultFacts'
  <2> PICK slash \in Nat : slash = ComputeCancellationSlash(a)
    BY SlashRange, SnapshotType DEF ListingTimes
  <2>1. /\ TransitionState(a, "CANCELLED") /\ RegisterSlash(a, slash)
        /\ OpenShieldedRefundPath(a) /\ UNCHANGED vaultRecords /\ UNCHANGED creationVars
        /\ UNCHANGED claimFlags
    BY <1>2 DEF cancelAuction
  <2> QED
    BY <2>1, SlashVaults
<1>3. ASSUME triggerFallbackVoid(a) PROVE VaultFacts'
  <2> PICK slash \in Nat : slash = ComputeVoidSlash(a)
    BY SlashRange, SnapshotType
  <2>1. /\ TransitionState(a, "VOIDED") /\ RegisterSlash(a, slash)
        /\ OpenShieldedRefundPath(a) /\ UNCHANGED vaultRecords /\ UNCHANGED creationVars
        /\ UNCHANGED claimFlags
    BY <1>3 DEF triggerFallbackVoid
  <2> QED
    BY <2>1, SlashVaults
<1> QED
  BY <1>1, <1>2, <1>3, submitResolutionVaults, submitShieldedResolutionVaults DEF Resolve

(* A refund takes its whole deposit, and the last one of an auction the    *)
(* whole of what is left of the reserve.                                   *)
LEMMA ShieldedCompensationLast ==
  ASSUME TypeOK, NEW v \in Vaults, NEW a \in Auctions
  PROVE  /\ \A principal \in Nat : ShieldedCompensation(v, a, principal) \in Nat
         /\ auctionTotals[v][a] # 0 =>
              ShieldedCompensation(v, a, auctionTotals[v][a]) = shieldedSlashReserves[v][a]
<1>1. PICK total \in Nat : total = auctionTotals[v][a]
  BY VaultTypes
<1>2. PICK reserve \in Nat : reserve = shieldedSlashReserves[v][a]
  BY VaultTypes
<1>3. ASSUME NEW principal \in Nat
      PROVE  ShieldedCompensation(v, a, principal) \in Nat
  <2> DEFINE x == principal * reserve
  <2>1. x \in Nat
    OBVIOUS
  <2>2. ShieldedCompensation(v, a, principal)
          = IF reserve = 0 \/ total = 0 THEN 0 ELSE x \div total
    BY <1>1, <1>2, Zenon DEF ShieldedCompensation
  <2> HIDE DEF x
  <2> QED
    BY <2>1, <2>2, DivNat
<1>4. total # 0 => ShieldedCompensation(v, a, total) = reserve
  <2>1. ShieldedCompensation(v, a, total)
          = IF reserve = 0 \/ total = 0 THEN 0 ELSE (total * reserve) \div total
    BY <1>1, <1>2, Zenon DEF ShieldedCompensation
  <2>2. total # 0 => (total * reserve) \div total = reserve
    BY QuotientExact
  <2> QED
    BY <2>1, <2>2
<1> QED
  BY <1>1, <1>2, <1>3, <1>4

LEMMA claimShieldedRefundVaults ==
  ASSUME TypeOK, VaultFacts, NEW v \in Vaults, NEW c \in Commitments, NEW recipient \in Recipients,
         NEW deadline \in Deadlines, NEW signer \in Authorities,
         claimShieldedRefund(v, c, recipient, deadline, signer)
  PROVE  VaultFacts'
<1> PICK n \in Nat : n = commitments[v][c].amount
  BY VaultTypes
<1>1. commitments[v][c].auctionId \in Auctions
  <2>1. commitments[v][c].auctionId \in 0..NumAuctions /\ commitments[v][c].auctionId # 0
    BY VaultTypes
       DEF claimShieldedRefund, Vault_claimRefundWithAuthorization, ConsumeClaimAuthorization,
           Registered
  <2> QED
    BY <2>1, DomainAssumption DEF Auctions
<1> PICK a \in Auctions : a = commitments[v][c].auctionId
  BY <1>1
<1> PICK compensation \in Nat : compensation = ShieldedCompensation(v, a, n)
  BY ShieldedCompensationLast
<1>2. /\ n # 0 /\ n <= auctionTotals[v][a]
      /\ state[a] \in Terminal /\ VaultOf(a) = v
      /\ shieldedSlashReserves' =
           [shieldedSlashReserves EXCEPT ![v][a] = @ - compensation]
      /\ commitments' = [commitments EXCEPT ![v][c].claimed = TRUE, ![v][c].amount = 0]
      /\ auctionTotals' = [auctionTotals EXCEPT ![v][a] = @ - n]
      /\ vaultBalance' = [vaultBalance EXCEPT ![v] = @ - (n + compensation)]
      /\ shieldedRefundClaimed' = [shieldedRefundClaimed EXCEPT ![a] = @ \cup {c}]
  BY Zenon DEF claimShieldedRefund, Vault_claimRefundWithAuthorization, Spendable
<1>3. UNCHANGED refundsUnlocked /\ UNCHANGED creationVars /\ UNCHANGED phaseVars
  BY DEF claimShieldedRefund, Vault_claimRefundWithAuthorization
<1>4. /\ commitments'[v][c].amount = 0 /\ commitments'[v][c].auctionId = a
      /\ commitments'[v][c].claimed
      /\ commitments'[v][c].claimAuthority = commitments[v][c].claimAuthority
      /\ \A o \in Commitments \ {c} : commitments'[v][o] = commitments[v][o]
      /\ \A w \in Vaults \ {v} : commitments'[w] = commitments[w]
  BY <1>2 DEF TypeOK, VaultTypeOK, CommitmentDeposit
<1>5. /\ vaultBalance'[v] = vaultBalance[v] - (n + compensation)
      /\ auctionTotals'[v][a] = auctionTotals[v][a] - n
      /\ shieldedSlashReserves'[v][a] = shieldedSlashReserves[v][a] - compensation
      /\ \A b \in Auctions \ {a} : /\ auctionTotals'[v][b] = auctionTotals[v][b]
                                  /\ shieldedSlashReserves'[v][b] = shieldedSlashReserves[v][b]
      /\ \A w \in Vaults \ {v} : /\ vaultBalance'[w] = vaultBalance[w]
                                 /\ auctionTotals'[w] = auctionTotals[w]
                                 /\ shieldedSlashReserves'[w] = shieldedSlashReserves[w]
  BY <1>2 DEF TypeOK, VaultTypeOK
<1>6. /\ vaultBalance[v] \in Nat /\ auctionTotals[v][a] \in Nat /\ shieldedSlashReserves[v][a] \in Nat
      /\ shieldedSlashReserves[v] \in [Auctions -> Nat]
  BY VaultTypes
<1>7. n # 0 /\ n <= auctionTotals[v][a] /\ state[a] \in Terminal /\ VaultOf(a) = v
  BY <1>2
<1>8. VaultSolvent'
  <2>1. PICK r \in Int : r = 0 - compensation
    OBVIOUS
  <2>2. shieldedSlashReserves'[v] = [shieldedSlashReserves[v] EXCEPT ![a] = @ + r]
    <3>1. shieldedSlashReserves'[v] = [shieldedSlashReserves[v] EXCEPT ![a] = @ - compensation]
      BY <1>2 DEF TypeOK, VaultTypeOK
    <3>2. shieldedSlashReserves[v][a] - compensation = shieldedSlashReserves[v][a] + r
      BY <1>6, <2>1
    <3> QED
      BY <3>1, <3>2
  <2>3. /\ vaultBalance'[v] = vaultBalance[v] + (0 - commitments[v][c].amount) + r
        /\ auctionTotals'[v][a] = auctionTotals[v][a] + 0 - commitments[v][c].amount
    BY <1>5, <1>6, <2>1
  <2>4. VaultSolvent
    BY DEF VaultFacts
  <2> QED
    BY <1>4, <1>5, <2>2, <2>3, <2>4, DepositChange
<1>9. ASSUME NEW w \in Vaults, NEW o \in Commitments
      PROVE  DepositSound(w, o)'
  <2>1. DepositSound(w, o)
    BY DEF VaultFacts
  <2>2. CASE w = v /\ o = c
    BY <1>3, <1>4, <2>1, <2>2 DEF DepositSound, Exists, VaultOf, creationVars
  <2>3. CASE ~(w = v /\ o = c)
    <3>1. commitments'[w][o] = commitments[w][o]
      BY <1>4, <2>3
    <3> QED
      BY <1>3, <2>1, <3>1 DEF DepositSound, Exists, VaultOf, creationVars
  <2> QED
    BY <2>2, <2>3
<1>10. ASSUME NEW b \in Auctions
      PROVE  PathSound(b)'
  <2>1. PathSound(b) /\ VaultOf(b)' = VaultOf(b) /\ (VaultOf(b) # 0 => VaultOf(b) \in Vaults)
        /\ shieldedRefundClaimed[b] \subseteq Commitments
    BY <1>3, SnapshotType DEF VaultFacts, VaultOf, creationVars, TypeOK, ClaimTypeOK
  <2>2. UNCHANGED <<state, shieldedRefundsUnlocked, refundsUnlocked>>
    BY <1>3 DEF phaseVars
  <2>3. \A w \in Vaults : shieldedSlashReserves'[w][b] # 0 =>
          state'[b] \in Terminal /\ VaultOf(b)' = w /\ auctionTotals'[w][b] # 0
    <3>1. CASE b = a
      <4>1. shieldedSlashReserves'[v][a] # 0 => auctionTotals'[v][a] # 0
        <5>1. n = auctionTotals[v][a] => compensation = shieldedSlashReserves[v][a]
          BY <1>7, ShieldedCompensationLast
        <5>2. /\ auctionTotals'[v][a] = auctionTotals[v][a] - n
              /\ shieldedSlashReserves'[v][a] = shieldedSlashReserves[v][a] - compensation
          BY <1>5
        <5> QED
          BY <1>6, <5>1, <5>2
      <4>2. \A w \in Vaults \ {v} : shieldedSlashReserves'[w][a] = 0
        <5>1. \A w \in Vaults \ {v} : shieldedSlashReserves[w][a] = 0
          BY <1>7, <2>1, <3>1 DEF PathSound
        <5> QED
          BY <1>5, <5>1
      <4> QED
        BY <1>7, <2>1, <2>2, <3>1, <4>1, <4>2
    <3>2. CASE b # a
      BY <1>5, <2>1, <2>2, <3>2 DEF PathSound
    <3> QED
      BY <3>1, <3>2
  <2>4. \A o \in shieldedRefundClaimed'[b] :
          state'[b] \in Terminal /\ VaultOf(b)' # 0 /\ commitments'[VaultOf(b)'][o].claimed
    <3>1. \A w \in Vaults, o \in Commitments : commitments[w][o].claimed => commitments'[w][o].claimed
      BY <1>4
    <3>2. v # 0
      BY DEF Vaults
    <3>3. \A o \in shieldedRefundClaimed'[b] : o \in shieldedRefundClaimed[b] \/ (b = a /\ o = c)
      BY <1>2 DEF TypeOK, ClaimTypeOK
    <3>4. \A o \in shieldedRefundClaimed[b] :
            state[b] \in Terminal /\ VaultOf(b) # 0 /\ commitments[VaultOf(b)][o].claimed
      BY <2>1 DEF PathSound
    <3>5. \A o \in shieldedRefundClaimed[b] :
            state'[b] \in Terminal /\ VaultOf(b)' # 0 /\ commitments'[VaultOf(b)'][o].claimed
      BY <2>1, <2>2, <3>1, <3>4
    <3>6. commitments'[v][c].claimed
      BY <1>4
    <3>7. b = a => state'[b] \in Terminal /\ VaultOf(b)' # 0 /\ commitments'[VaultOf(b)'][c].claimed
      BY <1>7, <2>1, <2>2, <3>2, <3>6
    <3> QED
      BY <3>3, <3>5, <3>7
  <2> QED
    BY <2>1, <2>2, <2>3, <2>4 DEF PathSound
<1> QED
  BY <1>8, <1>9, <1>10, Zenon DEF VaultFacts, Vaults, Commitments, Auctions

-----------------------------------------------------------------------------
(* What the vaults promise.                                                *)

LEMMA InitVaults == Init => VaultFacts
<1> SUFFICES ASSUME Init PROVE VaultFacts
  OBVIOUS
<1>0. NumCommitments \in Nat /\ NumAuctions \in Nat
  BY DomainAssumption
<1>1. SumTo([c \in Commitments |-> 0], NumCommitments) = 0
  BY <1>0, SumZero DEF Commitments
<1>2. SumTo([a \in Auctions |-> 0], NumAuctions) = 0
  BY <1>0, SumZero DEF Auctions
<1>3. ASSUME NEW v \in Vaults
      PROVE  /\ Amounts(v) = [c \in Commitments |-> 0]
             /\ \A a \in Auctions : AmountsOf(v, a) = [c \in Commitments |-> 0]
             /\ shieldedSlashReserves[v] = [a \in Auctions |-> 0]
             /\ vaultBalance[v] = 0 /\ \A a \in Auctions : auctionTotals[v][a] = 0
  BY DEF Init, VaultInit, Amounts, AmountsOf
<1>4. VaultBalanced
  <2> SUFFICES ASSUME NEW v \in Vaults
               PROVE  vaultBalance[v] = SumTo(Amounts(v), NumCommitments)
                                          + SumTo(shieldedSlashReserves[v], NumAuctions)
    BY VaultBalancedSums
  <2>1. SumTo(Amounts(v), NumCommitments) = 0 /\ SumTo(shieldedSlashReserves[v], NumAuctions) = 0
    BY <1>1, <1>2, <1>3, Zenon
  <2> QED
    BY <1>3, <2>1
<1>5. VaultTotals
  <2> SUFFICES ASSUME NEW v \in Vaults, NEW a \in Auctions
               PROVE  auctionTotals[v][a] = SumTo(AmountsOf(v, a), NumCommitments)
    BY VaultTotalsSums
  <2> QED
    BY <1>1, <1>3, Zenon
<1>6. \A v \in Vaults, c \in Commitments : DepositSound(v, c)
  BY DEF Init, VaultInit, DepositSound
<1>7. \A a \in Auctions : PathSound(a)
  BY DEF Init, VaultInit, PathSound, Terminal
<1> QED
  BY <1>4, <1>5, <1>6, <1>7 DEF VaultFacts, VaultSolvent

LEMMA ClaimVaults ==
  ASSUME VaultFacts, NEW a \in Auctions, Claim(a)
  PROVE  VaultFacts'
BY UntouchedVaults
   DEF Claim, claimRefund, claimSellerProceeds, claimFinalizeReward, claimAsset,
       claimShieldedAsset, Vault_authorizeAssetClaim, VaultsUntouched, vaultVars, phaseVars,
       claimFlags

LEMMA BidVaults ==
  ASSUME TypeOK, VaultFacts, NEW a \in Auctions, Bid(a)
  PROVE  VaultFacts'
BY UntouchedVaults, lockShieldedEscrowVaults
   DEF Bid, lockEscrow, placeBid, placeShieldedBid, VaultsUntouched, vaultVars, phaseVars,
       claimFlags

LEMMA ConfigureVaults ==
  ASSUME VaultFacts, Configure
  PROVE  VaultFacts'
BY UntouchedVaults
   DEF Configure, setSettlementEngine, setSlashedPot, setShieldedEscrowVault,
       setShieldedIdentityRegistry, SetDependencies, WireContracts, Vault_setMarket,
       Vault_setShieldedBidVerifier, VaultsUntouched, vaultVars, phaseVars, claimFlags

LEMMA NextVaults ==
  ASSUME VaultInv, [Next]_vars
  PROVE  VaultInv'
<1>0. TypeOK /\ ListingTimes /\ VaultFacts
  BY DEF VaultInv
<1>1. ASSUME NewBlock \/ (\E value \in Donations : receive(value))
               \/ (\E t \in Tokens, u \in TokenRecipients : TransferToken(t, u))
      PROVE  VaultFacts'
  BY <1>0, <1>1, UntouchedVaults
     DEF NewBlock, receive, TransferToken, VaultsUntouched, vaultVars, phaseVars, claimFlags
<1>2. ASSUME NEW u \in Sellers, NEW t \in Tokens, NEW d \in Durations, NEW p \in StartingPrices,
             NEW e \in Deposits, createAuction(u, t, d, p, e)
      PROVE  VaultFacts'
  BY <1>0, <1>2, createAuctionVaults
<1>3. ASSUME NEW a \in Auctions, Bid(a) \/ Resolve(a) \/ Claim(a)
      PROVE  VaultFacts'
  BY <1>0, <1>3, BidVaults, ResolveVaults, ClaimVaults
<1>4. ASSUME UNCHANGED vars
      PROVE  VaultFacts'
  <2>1. UNCHANGED vaultVars /\ UNCHANGED creationVars /\ UNCHANGED phaseVars /\ UNCHANGED claimFlags
    BY <1>4, SMT DEF vars
  <2>2. VaultsUntouched
    BY <2>1 DEF VaultsUntouched, vaultVars, phaseVars, claimFlags
  <2> QED
    BY <1>0, <2>2, UntouchedVaults
<1>5. ASSUME NEW v \in Vaults, NEW c \in Commitments, NEW u \in Recipients, NEW d \in Deadlines,
             NEW s \in Authorities, claimShieldedRefund(v, c, u, d, s)
      PROVE  VaultFacts'
  BY <1>0, <1>5, claimShieldedRefundVaults
<1>6. ASSUME Configure
      PROVE  VaultFacts'
  BY <1>0, <1>6, ConfigureVaults
<1>7. VaultFacts'
  <2>1. CASE UNCHANGED vars
    BY <1>4, <2>1
  <2>2. CASE Next
    BY <1>1, <1>2, <1>3, <1>5, <1>6, <2>2, Zenon DEF Next
  <2> QED
    BY <2>1, <2>2
<1> QED
  BY <1>0, <1>7, NextType, ListingTimesStep DEF VaultInv

LEMMA SpecVaults == Spec => []VaultInv
<1>1. Init => VaultInv
  BY InitType, InitVaults DEF VaultInv
<1>2. VaultInv /\ [Next]_vars => VaultInv'
  BY NextVaults
<1> QED
  BY <1>1, <1>2, PTL DEF Spec

(* For every number of vaults, auctions and commitments a vault's balance  *)
(* is exactly its deposits plus its slash reserves, and _auctionTotals is  *)
(* the sum of the deposits of the auction.                                 *)
THEOREM VaultsAlwaysSolvent == Spec => []VaultSolvent
<1>1. VaultInv => VaultSolvent
  BY DEF VaultInv, VaultFacts
<1> QED
  BY <1>1, SpecVaults, PTL

(* The last refund of an auction takes the last wei of its reserve, for    *)
(* all amounts: what a share loses by rounding stays in the reserve, and   *)
(* the last share is the whole of it (_consumeShieldedCompensation).       *)
THEOREM ReservesNeverStranded == Spec => []NoStrandedReserve
<1>1. VaultInv => NoStrandedReserve
  BY DEF VaultInv, VaultFacts, PathSound, NoStrandedReserve
<1> QED
  BY <1>1, SpecVaults, PTL

(* What a deposit is worth with its compensation is in the vault.          *)
LEMMA RefundCovered ==
  ASSUME VaultInv, NEW v \in Vaults, NEW c \in Commitments, NEW a \in Auctions,
         commitments[v][c].auctionId = a
  PROVE  commitments[v][c].amount + ShieldedCompensation(v, a, commitments[v][c].amount)
           <= vaultBalance[v]
<1> PICK n \in Nat : n = commitments[v][c].amount
  BY VaultTypes DEF VaultInv
<1> PICK total \in Nat : total = auctionTotals[v][a]
  BY VaultTypes DEF VaultInv
<1> PICK reserve \in Nat : reserve = shieldedSlashReserves[v][a]
  BY VaultTypes DEF VaultInv
<1>0. /\ Amounts(v) \in [1..NumCommitments -> Nat] /\ AmountsOf(v, a) \in [1..NumCommitments -> Nat]
      /\ shieldedSlashReserves[v] \in [1..NumAuctions -> Nat]
      /\ c \in 1..NumCommitments /\ a \in 1..NumAuctions
      /\ NumCommitments \in Nat /\ NumAuctions \in Nat
  BY VaultTypes, DomainAssumption DEF VaultInv, Commitments, Auctions
<1>1. n <= SumTo(Amounts(v), NumCommitments) /\ SumTo(Amounts(v), NumCommitments) \in Nat
  <2>1. Amounts(v)[c] = n
    BY DEF Amounts
  <2> QED
    BY <1>0, <2>1, SumBound
<1>2. n <= total
  <2>1. AmountsOf(v, a)[c] = n
    BY DEF AmountsOf
  <2>2. total = SumTo(AmountsOf(v, a), NumCommitments)
    BY VaultTotalsSums DEF VaultInv, VaultFacts, VaultSolvent
  <2> QED
    BY <1>0, <2>1, <2>2, SumBound
<1>3. reserve <= SumTo(shieldedSlashReserves[v], NumAuctions)
      /\ SumTo(shieldedSlashReserves[v], NumAuctions) \in Nat
  BY <1>0, SumBound
<1>4. ShieldedCompensation(v, a, n) \in 0..reserve
  <2> DEFINE x == n * reserve
  <2>1. x \in Nat /\ x <= reserve * total
    <3>1. reserve * n <= reserve * total /\ reserve * n \in Nat
      BY <1>2, MulMonotone
    <3> QED
      BY <3>1
  <2>2. ShieldedCompensation(v, a, n) = IF reserve = 0 \/ total = 0 THEN 0 ELSE x \div total
    BY Zenon DEF ShieldedCompensation
  <2> HIDE DEF x
  <2>3. total # 0 => x \div total \in 0..reserve
    <3>1. reserve * total = total * reserve
      OBVIOUS
    <3> QED
      BY <2>1, <3>1, DivBound
  <2> QED
    BY <2>2, <2>3
<1>5. vaultBalance[v] = SumTo(Amounts(v), NumCommitments) + SumTo(shieldedSlashReserves[v], NumAuctions)
  BY VaultBalancedSums DEF VaultInv, VaultFacts, VaultSolvent
<1> QED
  BY <1>1, <1>3, <1>4, <1>5

(* From the outcome on every deposit that is worth something can be        *)
(* refunded with its compensation, and before it none: market and vault    *)
(* never disagree on that, whatever the owner rotates and whoever claims   *)
(* first (_openShieldedRefundPath, settleShieldedRefund,                   *)
(* claimRefundWithAuthorization).                                          *)
THEOREM ShieldedRefundsNeverBlocked == Spec => []ShieldedRefundsReachable
<1>1. ASSUME VaultInv, NEW v \in Vaults, NEW c \in Commitments, NEW a, NEW principal,
             a = commitments[v][c].auctionId, principal = commitments[v][c].amount, principal # 0
      PROVE  IF state[a] \in Terminal
               THEN /\ VaultOf(a) = v /\ Registered(v, c)
                    /\ refundsUnlocked[v][a] /\ shieldedRefundsUnlocked[a]
                    /\ c \notin shieldedRefundClaimed[a]
                    /\ principal + ShieldedCompensation(v, a, principal) <= vaultBalance[v]
               ELSE ~refundsUnlocked[v][a] /\ ~shieldedRefundsUnlocked[a]
  <2>1. /\ a # 0 /\ VaultOf(a) = v /\ commitments[v][c].claimAuthority # 0
        /\ ~commitments[v][c].claimed
    BY <1>1 DEF VaultInv, VaultFacts, DepositSound
  <2>2. a \in Auctions
    <3>1. commitments[v][c].auctionId \in 0..NumAuctions
      BY <1>1, VaultTypes DEF VaultInv
    <3> QED
      BY <1>1, <2>1, <3>1, DomainAssumption DEF Auctions
  <2>3. PathSound(a) /\ v # 0
    BY <1>1, <2>2 DEF VaultInv, VaultFacts, Vaults
  <2>4. CASE state[a] \in Terminal
    <3>1. refundsUnlocked[v][a] /\ shieldedRefundsUnlocked[a]
      BY <2>1, <2>3, <2>4 DEF PathSound
    <3>2. c \notin shieldedRefundClaimed[a]
      BY <2>1, <2>3 DEF PathSound
    <3>3. principal + ShieldedCompensation(v, a, principal) <= vaultBalance[v]
      BY <1>1, <2>2, RefundCovered
    <3> QED
      BY <1>1, <2>1, <2>4, <3>1, <3>2, <3>3 DEF Registered
  <2>5. CASE state[a] \notin Terminal
    BY <2>3, <2>5 DEF PathSound
  <2> QED
    BY <2>4, <2>5
<1>2. VaultInv => ShieldedRefundsReachable
  BY <1>1, Zenon DEF ShieldedRefundsReachable
<1> QED
  BY <1>2, SpecVaults, PTL

-----------------------------------------------------------------------------
(* Live auctions.                                                          *)

(* Nothing is taken from an auction, in either lane.                       *)
OnlyGrows(b) ==
  /\ listing'[b] = listing[b]
  /\ \A u \in Accounts : escrowBalances'[b][u] >= escrowBalances[b][u]
  /\ \A v \in Vaults : auctionTotals'[v][b] >= auctionTotals[v][b]

LEMMA LiveOwed ==
  ASSUME TypeOK, TypeOK', NEW b \in Auctions, state[b] \in Live, state'[b] \in Live, OnlyGrows(b)
  PROVE  Owed(b)' >= Owed(b)
<1> DEFINE f == [u \in 1..NumAccounts |-> escrowBalances'[b][u]]
           g == [u \in 1..NumAccounts |-> escrowBalances[b][u]]
<1>1. f \in [1..NumAccounts -> Nat] /\ g \in [1..NumAccounts -> Nat] /\ NumAccounts \in Nat
  BY DomainAssumption DEF TypeOK, EscrowTypeOK, Accounts
<1>2. \A u \in 1..NumAccounts : g[u] <= f[u]
  BY DEF OnlyGrows, Accounts, TypeOK, EscrowTypeOK
<1>3. RefundsDue(b) = SumTo(g, NumAccounts)
  <2>1. [u \in Accounts |-> RefundDue(b, u)] = g
    BY DEF RefundDue, Accounts
  <2> QED
    BY <2>1, Zenon DEF RefundsDue
<1>4. RefundsDue(b)' = SumTo(f, NumAccounts)
  <2>1. [u \in Accounts |-> RefundDue(b, u)'] = f
    BY DEF RefundDue, Accounts
  <2> QED
    BY <2>1, Zenon DEF RefundsDue, Accounts
<1> HIDE DEF f, g
<1>5. SumTo(g, NumAccounts) <= SumTo(f, NumAccounts)
      /\ SumTo(g, NumAccounts) \in Nat /\ SumTo(f, NumAccounts) \in Nat
  BY <1>1, <1>2, SumMonotone, SumBound
<1>6. /\ SellerDue(b) = listing[b].sellerDeposit /\ SellerDue(b)' = listing[b].sellerDeposit
      /\ RewardDue(b) = 0 /\ RewardDue(b)' = 0 /\ listing[b].sellerDeposit \in Nat
  BY SnapshotType DEF SellerDue, RewardDue, Live, OnlyGrows
<1> QED
  BY <1>3, <1>4, <1>5, <1>6 DEF Owed

LEMMA NothingTaken ==
  ASSUME TypeOK, UNCHANGED creationVars, UNCHANGED escrowBalances, UNCHANGED auctionTotals,
         NEW b \in Auctions
  PROVE  OnlyGrows(b)
BY DEF OnlyGrows, creationVars, TypeOK, EscrowTypeOK, VaultTypeOK

LEMMA BidGrows ==
  ASSUME TypeOK, NEW a \in Auctions, Bid(a), NEW b \in Auctions
  PROVE  OnlyGrows(b)
<1>0. /\ escrowBalances \in [Auctions -> [Accounts -> Nat]]
      /\ auctionTotals \in [Vaults -> [Auctions -> Nat]]
  BY DEF TypeOK, EscrowTypeOK, VaultTypeOK
<1>1. ASSUME NEW u \in Bidders, NEW value \in EscrowAmounts, lockEscrow(u, a, value)
      PROVE  OnlyGrows(b)
  <2>1. /\ escrowBalances' = [escrowBalances EXCEPT ![a][u] = @ + value]
        /\ UNCHANGED listing /\ UNCHANGED auctionTotals
    BY <1>1 DEF lockEscrow, creationVars, vaultVars
  <2>2. u \in Accounts /\ value \in Nat
    BY MarketAssumption
  <2>3. \A w \in Accounts : escrowBalances'[b][w] >= escrowBalances[b][w]
    BY <1>0, <2>1, <2>2
  <2> QED
    BY <1>0, <2>1, <2>3 DEF OnlyGrows
<1>2. ASSUME NEW i \in Identities, NEW c \in Commitments, NEW s \in Authorities,
             NEW value \in ShieldedAmounts, lockShieldedEscrow(a, i, c, s, value)
      PROVE  OnlyGrows(b)
  <2>1. VaultOf(a) \in Vaults /\ value \in Nat
    BY <1>2, SnapshotType, MarketAssumption DEF lockShieldedEscrow
  <2>2. /\ auctionTotals' = [auctionTotals EXCEPT ![VaultOf(a)][a] = @ + value]
        /\ UNCHANGED listing /\ UNCHANGED escrowBalances
    BY <1>2 DEF lockShieldedEscrow, Vault_lockEscrow, creationVars, escrowVars
  <2>3. \A v \in Vaults : auctionTotals'[v][b] >= auctionTotals[v][b]
    BY <1>0, <2>1, <2>2
  <2> QED
    BY <1>0, <2>2, <2>3 DEF OnlyGrows
<1>3. CASE UNCHANGED creationVars /\ UNCHANGED escrowBalances /\ UNCHANGED auctionTotals
  BY <1>3, NothingTaken
<1> QED
  BY <1>1, <1>2, <1>3 DEF Bid, placeBid, placeShieldedBid, escrowVars, vaultVars

(* An outcome takes value from its own auction only, which is live no      *)
(* longer.                                                                 *)
LEMMA ResolveGrows ==
  ASSUME TypeOK, NEW a \in Auctions, Resolve(a), NEW b \in Auctions, state'[b] \in Live
  PROVE  OnlyGrows(b)
<1>1. UNCHANGED creationVars /\ UNCHANGED escrowBalances
  BY DEF Resolve, triggerFinalize, submitResolution, submitShieldedResolution, cancelAuction,
         triggerFallbackVoid, escrowVars
<1>2. ASSUME NEW i \in Identities, NEW c \in Commitments, NEW ct \in BidCiphertexts,
             NEW amount \in WinningAmounts, submitShieldedResolution(a, i, c, ct, amount)
      PROVE  OnlyGrows(b)
  <2>1. b # a
    BY <1>2 DEF submitShieldedResolution, TransitionState, TypeOK, PhaseTypeOK, Live
  <2>2. VaultOf(a) \in Vaults
    BY <1>2, SnapshotType DEF submitShieldedResolution, ShieldedResolutionAdmissible
  <2>3. auctionTotals' = [auctionTotals EXCEPT ![VaultOf(a)][a] = @ - amount]
    BY <1>2 DEF submitShieldedResolution, Vault_settleWinningCommitment
  <2>4. \A v \in Vaults : auctionTotals'[v][b] = auctionTotals[v][b] /\ auctionTotals[v][b] \in Nat
    BY <2>1, <2>2, <2>3 DEF TypeOK, VaultTypeOK
  <2> QED
    BY <1>1, <2>4 DEF OnlyGrows, creationVars, TypeOK, EscrowTypeOK
<1>3. CASE UNCHANGED auctionTotals
  BY <1>1, <1>3, NothingTaken
<1> QED
  BY <1>2, <1>3
     DEF Resolve, triggerFinalize, submitResolution, cancelAuction, triggerFallbackVoid,
         vaultVars, vaultRecords

LEMMA ClaimGrows ==
  ASSUME TypeOK, NEW a \in Auctions, Claim(a), NEW b \in Auctions, state[b] \in Live
  PROVE  OnlyGrows(b)
<1>1. UNCHANGED creationVars /\ UNCHANGED auctionTotals
  BY DEF Claim, claimRefund, claimSellerProceeds, claimFinalizeReward, claimAsset,
         claimShieldedAsset, Vault_authorizeAssetClaim, ConsumeClaimAuthorization, vaultVars
<1>2. ASSUME NEW u \in Accounts, claimRefund(u, a)
      PROVE  OnlyGrows(b)
  <2>1. CASE UNCHANGED escrowBalances
    BY <1>1, <2>1, NothingTaken
  <2>2. CASE PreviewEscrowRefund(a, u) # 0
    <3>1. escrowBalances' = [escrowBalances EXCEPT ![a][u] = 0]
      BY <1>2, <2>2 DEF claimRefund
    <3>2. state[a] \in Terminal
      BY <2>2 DEF PreviewEscrowRefund, Terminal
    <3>3. b # a
      BY <3>2 DEF Live, Terminal
    <3>4. \A w \in Accounts : escrowBalances'[b][w] = escrowBalances[b][w]
                              /\ escrowBalances[b][w] \in Nat
      BY <3>1, <3>3 DEF TypeOK, EscrowTypeOK
    <3> QED
      BY <1>1, <3>4 DEF OnlyGrows, creationVars, TypeOK, VaultTypeOK
  <2> QED
    BY <1>2, <2>1, <2>2 DEF claimRefund
<1>3. CASE UNCHANGED escrowBalances
  BY <1>1, <1>3, NothingTaken
<1> QED
  BY <1>2, <1>3
     DEF Claim, claimSellerProceeds, claimFinalizeReward, claimAsset, claimShieldedAsset,
         escrowVars

LEMMA ShieldedRefundGrows ==
  ASSUME TypeOK, NEW v \in Vaults, NEW c \in Commitments, NEW u \in Recipients,
         NEW d \in Deadlines, NEW s \in Authorities, claimShieldedRefund(v, c, u, d, s),
         NEW b \in Auctions, state[b] \in Live
  PROVE  OnlyGrows(b)
<1> DEFINE a == commitments[v][c].auctionId
           principal == commitments[v][c].amount
<1>1. /\ auctionTotals' = [auctionTotals EXCEPT ![v][a] = @ - principal]
      /\ UNCHANGED listing /\ UNCHANGED escrowBalances /\ state[a] \in Terminal
  BY Zenon DEF claimShieldedRefund, Vault_claimRefundWithAuthorization, escrowVars, creationVars
<1> HIDE DEF a, principal
<1>2. b # a
  BY <1>1 DEF Live, Terminal
<1>3. \A w \in Vaults : auctionTotals'[w][b] = auctionTotals[w][b] /\ auctionTotals[w][b] \in Nat
  BY <1>1, <1>2 DEF TypeOK, VaultTypeOK
<1> QED
  BY <1>1, <1>3 DEF OnlyGrows, TypeOK, EscrowTypeOK

LEMMA LiveStep ==
  ASSUME TypeOK, [Next]_vars, NEW b \in Auctions, state[b] \in Live, state'[b] \in Live
  PROVE  OnlyGrows(b)
<1>1. ASSUME UNCHANGED creationVars, UNCHANGED escrowBalances, UNCHANGED auctionTotals
      PROVE  OnlyGrows(b)
  BY <1>1, NothingTaken
<1>2. CASE NewBlock
  BY <1>2, <1>1 DEF NewBlock, escrowVars, vaultVars
<1>3. CASE Configure
  BY <1>3, <1>1
     DEF Configure, setSettlementEngine, setSlashedPot, setShieldedEscrowVault,
         setShieldedIdentityRegistry, SetDependencies, WireContracts, Vault_setMarket,
         Vault_setShieldedBidVerifier, escrowVars, vaultVars
<1>4. ASSUME NEW u \in Sellers, NEW t \in Tokens, NEW d \in Durations, NEW p \in StartingPrices,
             NEW e \in Deposits, createAuction(u, t, d, p, e)
      PROVE  OnlyGrows(b)
  <2>1. b # auctionCounter + 1
    BY <1>4 DEF createAuction, TransitionState, ValidTransition, Live
  <2>2. listing'[b] = listing[b]
    BY <1>4, <2>1 DEF createAuction, TypeOK, CreationTypeOK
  <2> QED
    BY <1>4, <2>2 DEF createAuction, escrowVars, vaultVars, OnlyGrows, TypeOK, EscrowTypeOK,
       VaultTypeOK
<1>5. ASSUME NEW a \in Auctions, Bid(a) \/ Resolve(a) \/ Claim(a)
      PROVE  OnlyGrows(b)
  BY <1>5, BidGrows, ResolveGrows, ClaimGrows
<1>6. ASSUME NEW value \in Donations, receive(value) PROVE OnlyGrows(b)
  BY <1>6, <1>1 DEF receive, escrowVars, vaultVars
<1>7. ASSUME NEW t \in Tokens, NEW u \in TokenRecipients, TransferToken(t, u) PROVE OnlyGrows(b)
  BY <1>7, <1>1 DEF TransferToken, escrowVars, vaultVars
<1>8. CASE UNCHANGED vars
  BY <1>8, <1>1 DEF vars, escrowVars, vaultVars
<1> QED
  BY <1>2, <1>3, <1>4, <1>5, <1>6, <1>7, <1>8, ShieldedRefundGrows DEF Next

(* Whatever others bid, claim, cancel or configure: what the market owes   *)
(* for an auction and what the vault holds for it never shrink while it is *)
(* open or being resolved.                                                 *)
THEOREM LiveAuctionsNeverDrained == Spec => LiveAuctionsKeepValue
<1>1. TypeOK /\ TypeOK' /\ [Next]_vars =>
        [\A a \in Auctions : state[a] \in Live /\ state'[a] \in Live =>
           /\ Owed(a)' >= Owed(a)
           /\ \A v \in Vaults : auctionTotals'[v][a] >= auctionTotals[v][a]]_vars
  BY LiveStep, LiveOwed DEF OnlyGrows
<1> QED
  BY <1>1, TypeCorrect, PTL DEF Spec, LiveAuctionsKeepValue

-----------------------------------------------------------------------------
(* The pots.                                                               *)

Slashed == {"CANCELLED", "VOIDED"}

EmptyPot(p, a) ==
  /\ ~pots[p][a].exists /\ pots[p][a].totalSlash = 0
  /\ \A u \in Accounts : ~hasClaimedCompensation[p][a][u]

EscrowSum(a) == SumTo([u \in Accounts |-> escrowBalances[a][u]], NumAccounts)

(* A pot other than that of the snapshot has nothing for the auction, and  *)
(* that one only what its slash brought, in shares over the escrow as it   *)
(* was then.                                                               *)
SlashSound(a) ==
  /\ \A p \in Pots : EmptyPot(p, a) \/ (p = PotOf(a) /\ state[a] \in Slashed)
  /\ \A p \in Pots : pots[p][a].totalSlash # 0 =>
       /\ potWired[p]
       /\ pots[p][a].totalEscrow = totalEscrow[a] /\ totalEscrow[a] # 0
  /\ state[a] \in Slashed /\ shieldedRefundClaimed[a] = {} =>
       pots[PotOf(a)][a].totalSlash
         + (IF VaultOf(a) = 0 THEN 0 ELSE shieldedSlashReserves[VaultOf(a)][a]) = slashAmount[a]

(* The total that shares are computed from is the sum of the escrows, and  *)
(* both flags that a refund sets mean that it took the escrow.             *)
RefundSound(a) ==
  /\ state[a] \notin Terminal => totalEscrow[a] = EscrowSum(a)
  /\ \A u \in Accounts : hasWithdrawn[a][u] => state[a] \in Terminal /\ escrowBalances[a][u] = 0
  /\ \A p \in Pots, u \in Accounts : hasClaimedCompensation[p][a][u] => hasWithdrawn[a][u]

PotFacts == PotSolvent /\ \A a \in Auctions : SlashSound(a) /\ RefundSound(a)

PotInv == VaultInv /\ PotFacts

(* The compensations still due from a pot.                                 *)
Compensations(a) == SumTo([u \in Accounts |-> PreviewCompensation(a, u)], NumAccounts)
DueFrom(p, a) == IF PotOf(a) = p THEN Compensations(a) ELSE 0

LEMMA PotTypes ==
  ASSUME TypeOK, NEW p \in Pots, NEW a \in Auctions
  PROVE  /\ potBalance[p] \in Nat /\ pots[p][a] \in Pot
         /\ pots[p][a].totalEscrow \in Nat /\ pots[p][a].totalSlash \in Nat
         /\ pots[p][a].exists \in BOOLEAN
<1>1. potBalance[p] \in Nat /\ pots[p][a] \in Pot
  BY DEF TypeOK, PotTypeOK
<1> QED
  BY <1>1 DEF Pot

LEMMA CompensationType ==
  ASSUME TypeOK, NEW a \in Auctions
  PROVE  /\ \A u \in Accounts : PreviewCompensation(a, u) \in Nat
         /\ Compensations(a) \in Nat
         /\ \A u \in Accounts : PreviewCompensation(a, u) <= Compensations(a)
         /\ \A p \in Pots : DueFrom(p, a) \in Nat
<1>1. ASSUME NEW u \in Accounts PROVE PreviewCompensation(a, u) \in Nat
  <2>1. escrowBalances[a][u] \in Nat /\ PotTypeOK /\ PotOf(a) \in Pots
    BY SnapshotType DEF TypeOK, EscrowTypeOK
  <2> QED
    BY <2>1, Pot_previewClaimNat DEF PreviewCompensation
<1> DEFINE f == [u \in 1..NumAccounts |-> PreviewCompensation(a, u)]
<1>2. f \in [1..NumAccounts -> Nat] /\ Compensations(a) = SumTo(f, NumAccounts)
  BY <1>1 DEF Compensations, Accounts
<1>3. \A u \in Accounts : f[u] = PreviewCompensation(a, u)
  BY DEF Accounts
<1> HIDE DEF f
<1>4. NumAccounts \in Nat
  BY DomainAssumption
<1>5. Compensations(a) \in Nat /\ \A u \in Accounts : f[u] <= Compensations(a)
  BY <1>2, <1>4, SumBound DEF Accounts
<1> QED
  BY <1>1, <1>3, <1>5 DEF DueFrom

LEMMA PotSolventSums ==
  PotSolvent <=> \A p \in Pots : SumTo([a \in Auctions |-> DueFrom(p, a)], NumAuctions) <= potBalance[p]
BY DEF PotSolvent, DueFrom, Compensations

(* What is due from each pot stays, and so do the balances.                *)
LEMMA PotsSame ==
  ASSUME PotSolvent, UNCHANGED potBalance,
         \A p \in Pots, b \in Auctions : DueFrom(p, b)' = DueFrom(p, b)
  PROVE  PotSolvent'
<1>1. ASSUME NEW p \in Pots
      PROVE  SumTo([b \in Auctions |-> DueFrom(p, b)'], NumAuctions) <= potBalance'[p]
  <2>1. [b \in Auctions |-> DueFrom(p, b)'] = [b \in Auctions |-> DueFrom(p, b)]
    OBVIOUS
  <2> QED
    BY <2>1, PotSolventSums
<1> QED
  BY <1>1, Zenon DEF PotSolvent, DueFrom, Compensations, Pots, Auctions

(* One auction's compensations grow by no more than the balance of its pot. *)
LEMMA PotChange ==
  ASSUME TypeOK, TypeOK', PotSolvent, NEW a \in Auctions, NEW p \in Pots, NEW delta \in Int,
         DueFrom(p, a)' <= DueFrom(p, a) + delta,
         \A q \in Pots, b \in Auctions : q # p \/ b # a => DueFrom(q, b)' = DueFrom(q, b),
         potBalance'[p] = potBalance[p] + delta,
         \A q \in Pots \ {p} : potBalance'[q] = potBalance[q]
  PROVE  PotSolvent'
<1>1. ASSUME NEW q \in Pots
      PROVE  SumTo([b \in Auctions |-> DueFrom(q, b)'], NumAuctions) <= potBalance'[q]
  <2>1. CASE q # p
    <3>1. [b \in Auctions |-> DueFrom(q, b)'] = [b \in Auctions |-> DueFrom(q, b)]
      BY <2>1
    <3> QED
      BY <2>1, <3>1, PotSolventSums
  <2>2. CASE q = p
    <3> DEFINE f == [b \in 1..NumAuctions |-> DueFrom(p, b)]
               g == [b \in 1..NumAuctions |-> DueFrom(p, b)']
               new == DueFrom(p, a)'
               old == DueFrom(p, a)
    <3>1. old \in Nat
      BY CompensationType
    <3>2. new \in Int
      <4>1. TypeOK' => Compensations(a)' \in Nat
        <5>1. ASSUME TypeOK', NEW u \in Accounts PROVE PreviewCompensation(a, u)' \in Nat
          <6>1. escrowBalances'[a][u] \in Nat /\ PotTypeOK' /\ PotOf(a)' \in Pots
            <7>1. listing'[a] \in Listing
              BY <5>1 DEF TypeOK, CreationTypeOK
            <7> QED
              BY <5>1, <7>1 DEF TypeOK, EscrowTypeOK, Listing, Dependencies, PotOf
          <6>2. /\ pots'[PotOf(a)'][a].totalEscrow \in Nat /\ pots'[PotOf(a)'][a].totalSlash \in Nat
            BY <6>1 DEF PotTypeOK, Pot
          <6> QED
            BY <6>1, <6>2, ProRataShareNat DEF PreviewCompensation, Pot_previewClaim
        <5> DEFINE h == [u \in 1..NumAccounts |-> PreviewCompensation(a, u)']
        <5>2. h \in [1..NumAccounts -> Nat] /\ Compensations(a)' = SumTo(h, NumAccounts)
          BY <5>1 DEF Compensations, Accounts
        <5> HIDE DEF h
        <5> QED
          BY <5>2, SumBound, DomainAssumption
      <4> QED
        BY <4>1 DEF DueFrom
    <3>3. f \in [1..NumAuctions -> Int] /\ f[a] = old /\ a \in 1..NumAuctions
      BY CompensationType DEF Auctions
    <3>4. g = [f EXCEPT ![a] = new]
      BY DEF Auctions
    <3>5. [b \in Auctions |-> DueFrom(p, b)] = f /\ [b \in Auctions |-> DueFrom(p, b)'] = g
      BY DEF Auctions
    <3>6. new <= old + delta
      OBVIOUS
    <3> HIDE DEF f, g, new, old
    <3>7. NumAuctions \in Nat
      BY DomainAssumption
    <3>8. SumTo([f EXCEPT ![a] = new], NumAuctions) = SumTo(f, NumAuctions) + new - f[a]
      BY <3>2, <3>3, <3>7, SumUpdate
    <3>9. SumTo(f, NumAuctions) <= potBalance[p]
      BY <3>5, PotSolventSums
    <3>10. SumTo(f, NumAuctions) \in Int /\ potBalance[p] \in Nat
      BY <3>3, <3>7, SumInt, PotTypes
    <3>11. SumTo(g, NumAuctions) <= potBalance'[p]
      BY <3>1, <3>2, <3>3, <3>4, <3>6, <3>8, <3>9, <3>10
    <3> QED
      BY <2>2, <3>5, <3>11
  <2> QED
    BY <2>1, <2>2
<1> QED
  BY <1>1, Zenon DEF PotSolvent, DueFrom, Compensations, Pots, Auctions

(* A pot that is empty for an auction owes nobody anything for it.         *)
LEMMA NothingDue ==
  ASSUME TypeOK, NEW a \in Auctions, state[a] \notin Slashed
  PROVE  /\ \A u \in Accounts : PreviewCompensation(a, u) = 0
         /\ Compensations(a) = 0
         /\ \A p \in Pots : DueFrom(p, a) = 0
<1>1. \A u \in Accounts : PreviewCompensation(a, u) = 0
  BY DEF PreviewCompensation, Slashed
<1>2. Compensations(a) = 0
  <2>1. [u \in Accounts |-> PreviewCompensation(a, u)] = [u \in 1..NumAccounts |-> 0]
    BY <1>1 DEF Accounts
  <2> QED
    BY <2>1, SumZero, DomainAssumption DEF Compensations
<1> QED
  BY <1>1, <1>2 DEF DueFrom

LEMMA NothingDueNext ==
  ASSUME NEW a \in Auctions, state'[a] \notin Slashed
  PROVE  /\ \A p \in Pots : DueFrom(p, a)' = 0
<1>1. \A u \in Accounts : PreviewCompensation(a, u)' = 0
  BY DEF PreviewCompensation, Slashed
<1>2. Compensations(a)' = 0
  <2>1. [u \in Accounts |-> PreviewCompensation(a, u)'] = [u \in 1..NumAccounts |-> 0]
    BY <1>1 DEF Accounts
  <2>2. Compensations(a)' = SumTo([u \in Accounts |-> PreviewCompensation(a, u)'], NumAccounts)
    BY DEF Compensations, Accounts
  <2> QED
    BY <2>1, <2>2, SumZero, DomainAssumption
<1> QED
  BY <1>2 DEF DueFrom

-----------------------------------------------------------------------------
(* Auctions whose slash and escrow a step leaves alone.                    *)

PotKept(b) ==
  /\ listing'[b] = listing[b]
  /\ \A p \in Pots : /\ pots'[p][b] = pots[p][b]
                     /\ hasClaimedCompensation'[p][b] = hasClaimedCompensation[p][b]
                     /\ potWired[p] => potWired'[p]
  /\ totalEscrow'[b] = totalEscrow[b] /\ escrowBalances'[b] = escrowBalances[b]
  /\ hasWithdrawn'[b] = hasWithdrawn[b]
  /\ state'[b] = state[b]
       \/ (state[b] \notin Terminal /\ state'[b] \in {"RESOLVING", "FINALIZED"})
  /\ state[b] \in Slashed =>
       /\ slashAmount'[b] = slashAmount[b]
       /\ shieldedRefundClaimed'[b] = {} =>
            /\ shieldedRefundClaimed[b] = {}
            /\ \A v \in Vaults : shieldedSlashReserves'[v][b] = shieldedSlashReserves[v][b]

LEMMA PotKeptSlash ==
  ASSUME TypeOK, NEW b \in Auctions, SlashSound(b), PotKept(b)
  PROVE  SlashSound(b)'
<1>1. PotOf(b)' = PotOf(b) /\ VaultOf(b)' = VaultOf(b) /\ PotOf(b) \in Pots
      /\ (VaultOf(b) # 0 => VaultOf(b) \in Vaults)
  BY SnapshotType DEF PotKept, PotOf, VaultOf
<1>2. state'[b] \in Slashed <=> state[b] \in Slashed
  BY DEF PotKept, Slashed, Terminal
<1>3. \A p \in Pots : EmptyPot(p, b) => EmptyPot(p, b)'
  BY DEF EmptyPot, PotKept
<1>4. \A p \in Pots : EmptyPot(p, b)' \/ (p = PotOf(b)' /\ state'[b] \in Slashed)
  BY <1>1, <1>2, <1>3 DEF SlashSound
<1>5. \A p \in Pots : pots'[p][b].totalSlash # 0 =>
        /\ potWired'[p]
        /\ pots'[p][b].totalEscrow = totalEscrow'[b] /\ totalEscrow'[b] # 0
  BY DEF SlashSound, PotKept
<1>6. state'[b] \in Slashed /\ shieldedRefundClaimed'[b] = {} =>
        pots'[PotOf(b)'][b].totalSlash
          + (IF VaultOf(b)' = 0 THEN 0 ELSE shieldedSlashReserves'[VaultOf(b)'][b]) = slashAmount'[b]
  BY <1>1, <1>2 DEF SlashSound, PotKept
<1> QED
  BY <1>4, <1>5, <1>6, Zenon DEF SlashSound, Pots

LEMMA PotKeptRefund ==
  ASSUME TypeOK, NEW b \in Auctions, RefundSound(b), PotKept(b)
  PROVE  RefundSound(b)'
<1>1. EscrowSum(b)' = EscrowSum(b)
  <2>1. [u \in Accounts |-> escrowBalances'[b][u]] = [u \in Accounts |-> escrowBalances[b][u]]
    BY DEF PotKept
  <2> QED
    BY <2>1 DEF EscrowSum, Accounts
<1>2. state'[b] \notin Terminal => totalEscrow'[b] = EscrowSum(b)'
  BY <1>1 DEF RefundSound, PotKept, Terminal, Slashed
<1>3. \A u \in Accounts :
        hasWithdrawn'[b][u] => state'[b] \in Terminal /\ escrowBalances'[b][u] = 0
  BY DEF RefundSound, PotKept, Terminal, Slashed
<1>4. \A p \in Pots, u \in Accounts : hasClaimedCompensation'[p][b][u] => hasWithdrawn'[b][u]
  BY DEF RefundSound, PotKept
<1> QED
  BY <1>2, <1>3, <1>4, Zenon DEF RefundSound, Pots, Accounts

LEMMA PotKeptDue ==
  ASSUME TypeOK, NEW b \in Auctions, PotKept(b), NEW p \in Pots
  PROVE  DueFrom(p, b)' = DueFrom(p, b)
<1>1. CASE state[b] \in Slashed
  <2>1. PotOf(b)' = PotOf(b) /\ PotOf(b) \in Pots
    BY SnapshotType DEF PotKept, PotOf
  <2>2. state'[b] = state[b] /\ slashAmount'[b] = slashAmount[b]
    BY <1>1 DEF PotKept, Slashed, Terminal
  <2>3. pots'[PotOf(b)][b] = pots[PotOf(b)][b] /\ escrowBalances'[b] = escrowBalances[b]
    BY <2>1 DEF PotKept
  <2>4. \A u \in Accounts : PreviewCompensation(b, u)' = PreviewCompensation(b, u)
    BY <2>1, <2>2, <2>3 DEF PreviewCompensation, Pot_previewClaim
  <2>5. [u \in Accounts |-> PreviewCompensation(b, u)'] = [u \in Accounts |-> PreviewCompensation(b, u)]
    BY <2>4
  <2>6. Compensations(b)' = Compensations(b)
    BY <2>5 DEF Compensations, Accounts
  <2> QED
    BY <2>1, <2>6 DEF DueFrom
<1>2. CASE state[b] \notin Slashed
  <2>1. state'[b] \notin Slashed
    BY <1>2 DEF PotKept, Slashed
  <2> QED
    BY <1>2, <2>1, NothingDue, NothingDueNext
<1> QED
  BY <1>1, <1>2

LEMMA PotsKept ==
  ASSUME TypeOK, PotFacts, UNCHANGED potBalance, \A b \in Auctions : PotKept(b)
  PROVE  PotFacts'
<1>1. PotSolvent'
  BY PotKeptDue, PotsSame DEF PotFacts
<1>2. \A b \in Auctions : SlashSound(b)' /\ RefundSound(b)'
  BY PotKeptSlash, PotKeptRefund DEF PotFacts
<1> QED
  BY <1>1, <1>2, Zenon DEF PotFacts, Auctions

(* Steps without a slash or a refund.                                      *)
LEMMA PotQuiet ==
  ASSUME TypeOK, UNCHANGED <<listing, state, slashAmount, pots, hasClaimedCompensation>>,
         \A p \in Pots : potWired[p] => potWired'[p], UNCHANGED escrowVars,
         UNCHANGED shieldedRefundClaimed, UNCHANGED shieldedSlashReserves
  PROVE  \A b \in Auctions : PotKept(b)
BY DEF PotKept, escrowVars

LEMMA ConfigurePots ==
  ASSUME TypeOK, PotFacts, Configure
  PROVE  PotFacts'
<1>1. /\ UNCHANGED <<listing, state, slashAmount, pots, hasClaimedCompensation, potBalance>>
      /\ UNCHANGED escrowVars /\ UNCHANGED shieldedRefundClaimed /\ UNCHANGED shieldedSlashReserves
  BY DEF Configure, setSettlementEngine, setSlashedPot, setShieldedEscrowVault,
         setShieldedIdentityRegistry, SetDependencies, WireContracts, Pot_setMarket,
         Vault_setMarket, Vault_setShieldedBidVerifier, creationVars, phaseVars, potVars,
         claimFlags, vaultVars
<1>2. \A p \in Pots : potWired[p] => potWired'[p]
  <2>1. CASE \E q \in Pots : Pot_setMarket(q)
    BY <2>1 DEF Pot_setMarket, TypeOK, PotTypeOK
  <2>2. CASE UNCHANGED potWired
    BY <2>2
  <2> QED
    BY <2>1, <2>2
       DEF Configure, setSettlementEngine, setSlashedPot, setShieldedEscrowVault,
           setShieldedIdentityRegistry, SetDependencies, WireContracts, potVars
<1> QED
  BY <1>1, <1>2, PotQuiet, PotsKept

LEMMA createAuctionPots ==
  ASSUME TypeOK, PotFacts, NEW u \in Sellers, NEW t \in Tokens, NEW d \in Durations,
         NEW p \in StartingPrices, NEW e \in Deposits, createAuction(u, t, d, p, e)
  PROVE  PotFacts'
<1> PICK a \in Auctions : a = auctionCounter + 1
  BY DomainAssumption DEF createAuction, TypeOK, CreationTypeOK, Auctions
<1>1. /\ state[a] = "CREATED" /\ state' = [state EXCEPT ![a] = "ACTIVE"]
      /\ state \in [Auctions -> AuctionState]
      /\ \A b \in Auctions \ {a} : listing'[b] = listing[b]
      /\ UNCHANGED slashAmount /\ UNCHANGED potVars /\ UNCHANGED escrowVars
      /\ UNCHANGED shieldedRefundClaimed /\ UNCHANGED shieldedSlashReserves
  BY DEF createAuction, TransitionState, ValidTransition, TypeOK, CreationTypeOK, PhaseTypeOK,
         claimFlags, vaultVars
<1>2. ASSUME NEW b \in Auctions \ {a} PROVE PotKept(b)
  BY <1>1 DEF PotKept, escrowVars, potVars
<1>3. state[a] \notin Slashed /\ state'[a] \notin Slashed
      /\ state[a] \notin Terminal /\ state'[a] \notin Terminal
  BY <1>1 DEF Slashed, Terminal
<1>4. SlashSound(a)'
  <2>1. /\ \A q \in Pots : EmptyPot(q, a)
        /\ \A q \in Pots : pots[q][a].totalSlash = 0
    BY <1>3 DEF PotFacts, SlashSound, EmptyPot
  <2>2. /\ \A q \in Pots : EmptyPot(q, a)'
        /\ \A q \in Pots : pots'[q][a].totalSlash = 0
    BY <1>1, <2>1 DEF EmptyPot, potVars
  <2> QED
    BY <1>3, <2>2, Zenon DEF SlashSound, Pots
<1>5. RefundSound(a)'
  <2>1. EscrowSum(a)' = EscrowSum(a)
    BY <1>1 DEF EscrowSum, escrowVars, Accounts
  <2>2. RefundSound(a)
    BY DEF PotFacts
  <2>3. state'[a] \notin Terminal => totalEscrow'[a] = EscrowSum(a)'
    BY <1>1, <1>3, <2>1, <2>2 DEF RefundSound, escrowVars
  <2>4. \A w \in Accounts : ~hasWithdrawn'[a][w]
    BY <1>1, <1>3, <2>2 DEF RefundSound, escrowVars
  <2>5. \A q \in Pots, w \in Accounts : ~hasClaimedCompensation'[q][a][w]
    BY <1>1, <2>2, <2>4 DEF RefundSound, escrowVars, potVars
  <2> QED
    BY <2>3, <2>4, <2>5, Zenon DEF RefundSound, Pots, Accounts
<1>6. PotSolvent'
  <2>1. \A q \in Pots : DueFrom(q, a)' = DueFrom(q, a)
    BY <1>3, NothingDue, NothingDueNext
  <2>2. \A q \in Pots, b \in Auctions : DueFrom(q, b)' = DueFrom(q, b)
    BY <1>2, <2>1, PotKeptDue
  <2>3. UNCHANGED potBalance
    BY <1>1 DEF potVars
  <2> QED
    BY <2>2, <2>3, PotsSame DEF PotFacts
<1>7. \A b \in Auctions : SlashSound(b)' /\ RefundSound(b)'
  BY <1>2, <1>4, <1>5, PotKeptSlash, PotKeptRefund DEF PotFacts
<1> QED
  BY <1>6, <1>7, Zenon DEF PotFacts, Auctions

(* A lock adds as much to the bidder's escrow as to the total.             *)
LEMMA lockEscrowPots ==
  ASSUME TypeOK, PotFacts, NEW u \in Bidders, NEW a \in Auctions, NEW value \in EscrowAmounts,
         lockEscrow(u, a, value)
  PROVE  PotFacts'
<1>1. /\ state[a] = "ACTIVE" /\ UNCHANGED state /\ UNCHANGED listing /\ UNCHANGED slashAmount
      /\ UNCHANGED potVars /\ UNCHANGED hasWithdrawn
      /\ UNCHANGED shieldedRefundClaimed /\ UNCHANGED shieldedSlashReserves
      /\ escrowBalances' = [escrowBalances EXCEPT ![a][u] = @ + value]
      /\ totalEscrow' = [totalEscrow EXCEPT ![a] = @ + value]
  BY DEF lockEscrow, OpenForBids, phaseVars, creationVars, claimFlags, vaultVars
<1>2. /\ u \in Accounts /\ value \in Nat
      /\ escrowBalances \in [Auctions -> [Accounts -> Nat]] /\ totalEscrow \in [Auctions -> Nat]
  BY MarketAssumption DEF TypeOK, EscrowTypeOK
<1>3. ASSUME NEW b \in Auctions \ {a} PROVE PotKept(b)
  BY <1>1, <1>2 DEF PotKept, potVars
<1>4. state[a] \notin Slashed /\ state'[a] \notin Slashed /\ state[a] \notin Terminal
  BY <1>1 DEF Slashed, Terminal
<1>5. SlashSound(a)'
  <2>1. \A q \in Pots : EmptyPot(q, a) /\ pots[q][a].totalSlash = 0
    BY <1>4 DEF PotFacts, SlashSound, EmptyPot
  <2>2. \A q \in Pots : EmptyPot(q, a)' /\ pots'[q][a].totalSlash = 0
    BY <1>1, <2>1 DEF EmptyPot, potVars
  <2> QED
    BY <1>4, <2>2, Zenon DEF SlashSound, Pots
<1>6. RefundSound(a)'
  <2>0. RefundSound(a)
    BY DEF PotFacts
  <2>1. EscrowSum(a)' = EscrowSum(a) + value
    <3> DEFINE f == [w \in 1..NumAccounts |-> escrowBalances[a][w]]
               old == escrowBalances[a][u]
               g == [w \in 1..NumAccounts |-> escrowBalances'[a][w]]
    <3>0. \A w \in Accounts : escrowBalances[a][w] \in Nat
      BY <1>2
    <3>1. f \in [1..NumAccounts -> Int] /\ u \in 1..NumAccounts /\ f[u] = old /\ old \in Nat
      <4>1. u \in 1..NumAccounts /\ old \in Nat
        BY <1>2, <3>0 DEF Accounts
      <4>2. f \in [1..NumAccounts -> Int]
        BY <3>0 DEF Accounts
      <4> QED
        BY <4>1, <4>2
    <3>2. g = [f EXCEPT ![u] = old + value]
      BY <1>1, <1>2 DEF Accounts
    <3>3. EscrowSum(a) = SumTo(f, NumAccounts) /\ EscrowSum(a)' = SumTo(g, NumAccounts)
      BY DEF EscrowSum, Accounts
    <3> HIDE DEF f, g, old
    <3> DEFINE new == old + value
    <3>4. new \in Int /\ NumAccounts \in Nat
      BY <1>2, <3>1, DomainAssumption
    <3> HIDE DEF new
    <3>5. SumTo([f EXCEPT ![u] = new], NumAccounts) = SumTo(f, NumAccounts) + new - f[u]
      BY <3>1, <3>4, SumUpdate
    <3>6. SumTo(f, NumAccounts) \in Int
      BY <3>1, <3>4, SumInt
    <3>7. g = [f EXCEPT ![u] = new]
      BY <3>2 DEF new
    <3>8. EscrowSum(a)' = EscrowSum(a) + new - old
      BY <3>1, <3>3, <3>5, <3>7
    <3> QED
      BY <1>2, <3>1, <3>3, <3>6, <3>8 DEF new
  <2>2. totalEscrow'[a] = EscrowSum(a)'
    <3>1. totalEscrow[a] = EscrowSum(a) /\ totalEscrow'[a] = totalEscrow[a] + value
      BY <1>1, <1>2, <1>4, <2>0 DEF RefundSound
    <3> QED
      BY <2>1, <3>1
  <2>3. \A w \in Accounts : ~hasWithdrawn'[a][w]
    BY <1>1, <1>4, <2>0 DEF RefundSound
  <2>4. \A q \in Pots, w \in Accounts : ~hasClaimedCompensation'[q][a][w]
    BY <1>1, <2>0, <2>3 DEF RefundSound, potVars
  <2> QED
    BY <2>2, <2>3, <2>4, Zenon DEF RefundSound, Pots, Accounts
<1>7. PotSolvent'
  <2>1. \A q \in Pots : DueFrom(q, a)' = DueFrom(q, a)
    BY <1>4, NothingDue, NothingDueNext
  <2>2. \A q \in Pots, b \in Auctions : DueFrom(q, b)' = DueFrom(q, b)
    BY <1>3, <2>1, PotKeptDue
  <2>3. UNCHANGED potBalance
    BY <1>1 DEF potVars
  <2> QED
    BY <2>2, <2>3, PotsSame DEF PotFacts
<1>8. \A b \in Auctions : SlashSound(b)' /\ RefundSound(b)'
  BY <1>3, <1>5, <1>6, PotKeptSlash, PotKeptRefund DEF PotFacts
<1> QED
  BY <1>7, <1>8, Zenon DEF PotFacts, Auctions

(* A transition that slashes nothing.                                      *)
LEMMA SettledPots ==
  ASSUME TypeOK, PotFacts, NEW a \in Auctions, NEW to \in {"RESOLVING", "FINALIZED"},
         TransitionState(a, to), UNCHANGED listing, UNCHANGED slashAmount, UNCHANGED potVars,
         UNCHANGED escrowVars, UNCHANGED shieldedRefundClaimed, UNCHANGED shieldedSlashReserves
  PROVE  PotFacts'
<1>1. \A b \in Auctions : PotKept(b)
  BY DEF PotKept, TransitionState, ValidTransition, Terminal, TypeOK, PhaseTypeOK, escrowVars,
         potVars
<1> QED
  BY <1>1, PotsKept DEF potVars

LEMMA claimShieldedRefundPots ==
  ASSUME TypeOK, PotFacts, NEW v \in Vaults, NEW c \in Commitments, NEW u \in Recipients,
         NEW d \in Deadlines, NEW s \in Authorities, claimShieldedRefund(v, c, u, d, s)
  PROVE  PotFacts'
<1> DEFINE a == commitments[v][c].auctionId
           rest == shieldedSlashReserves[v][a] - ShieldedCompensation(v, a, commitments[v][c].amount)
<1>0. a \in Auctions
  BY MarketAssumption, ConsumeClaimAuthorizationType
     DEF claimShieldedRefund, Vault_claimRefundWithAuthorization, TypeOK
<1>1. /\ UNCHANGED <<listing, state, slashAmount>> /\ UNCHANGED potVars /\ UNCHANGED escrowVars
      /\ shieldedRefundClaimed' = [shieldedRefundClaimed EXCEPT ![a] = @ \cup {c}]
      /\ shieldedSlashReserves' = [shieldedSlashReserves EXCEPT ![v][a] = rest]
  BY Zenon DEF claimShieldedRefund, Vault_claimRefundWithAuthorization, creationVars, phaseVars
<1> HIDE DEF a, rest
<1>2. ASSUME NEW b \in Auctions PROVE PotKept(b)
  <2>1. CASE b = a
    <3>1. shieldedRefundClaimed'[b] # {}
      BY <1>0, <1>1, <2>1 DEF TypeOK, ClaimTypeOK
    <3> QED
      BY <1>1, <3>1 DEF PotKept, escrowVars, potVars
  <2>2. CASE b # a
    <3>1. shieldedRefundClaimed'[b] = shieldedRefundClaimed[b]
      BY <1>0, <1>1, <2>2 DEF TypeOK, ClaimTypeOK
    <3>2. \A w \in Vaults : shieldedSlashReserves'[w][b] = shieldedSlashReserves[w][b]
      BY <1>0, <1>1, <2>2 DEF TypeOK, VaultTypeOK
    <3> QED
      BY <1>1, <3>1, <3>2 DEF PotKept, escrowVars, potVars
  <2> QED
    BY <2>1, <2>2
<1> QED
  BY <1>1, <1>2, PotsKept DEF potVars

(* What a slash leaves in the pot of the snapshot, which had nothing of    *)
(* the auction before.                                                     *)
Deposited(a, slash, r) ==
  /\ pots'[PotOf(a)][a].totalSlash = r
  /\ r + (IF VaultOf(a) = 0 THEN 0 ELSE shieldedSlashReserves'[VaultOf(a)][a]) = slash
  /\ potBalance'[PotOf(a)] = potBalance[PotOf(a)] + r
  /\ r # 0 => /\ potWired[PotOf(a)] /\ pots'[PotOf(a)][a].totalEscrow = totalEscrow[a]
              /\ totalEscrow[a] # 0
  /\ \A p \in Pots \ {PotOf(a)} : potBalance'[p] = potBalance[p] /\ pots'[p][a] = pots[p][a]
  /\ \A p \in Pots, b \in Auctions \ {a} : pots'[p][b] = pots[p][b]
  /\ UNCHANGED <<hasClaimedCompensation, potWired>>

LEMMA PotDeposited ==
  ASSUME TypeOK, NEW a \in Auctions, NEW r \in Nat, EmptyPot(PotOf(a), a), NEW slash \in Nat,
         IF r # 0 THEN Pot_registerSlash(PotOf(a), a, totalEscrow[a], r) ELSE UNCHANGED potVars,
         r # 0 => totalEscrow[a] # 0,
         r + (IF VaultOf(a) = 0 THEN 0 ELSE shieldedSlashReserves'[VaultOf(a)][a]) = slash
  PROVE  Deposited(a, slash, r)
<1> PICK q \in Pots : q = PotOf(a)
  BY SnapshotType
<1>1. /\ potBalance \in [Pots -> Nat] /\ pots \in [Pots -> [Auctions -> Pot]]
      /\ pots[q][a].totalSlash = 0 /\ pots[q][a].exists = FALSE
  BY DEF TypeOK, PotTypeOK, EmptyPot, Pot
<1>2. CASE r = 0
  <2>1. UNCHANGED potVars
    BY <1>2
  <2> QED
    BY <1>1, <1>2, <2>1 DEF Deposited, potVars
<1>3. CASE r # 0
  <2> DEFINE new == [exists      |-> TRUE,
                     totalEscrow |-> IF pots[q][a].exists THEN pots[q][a].totalEscrow
                                     ELSE totalEscrow[a],
                     totalSlash  |-> pots[q][a].totalSlash + r]
  <2>1. /\ potWired[q] /\ potBalance' = [potBalance EXCEPT ![q] = @ + r]
        /\ UNCHANGED <<hasClaimedCompensation, potWired>>
        /\ pots' = [pots EXCEPT ![q][a] = new]
    BY <1>3 DEF Pot_registerSlash
  <2>2. new.totalSlash = r /\ new.totalEscrow = totalEscrow[a]
    BY <1>1
  <2> HIDE DEF new
  <2>3. /\ pots'[q][a] = new
        /\ \A p \in Pots \ {q} : pots'[p] = pots[p]
        /\ \A b \in Auctions \ {a} : pots'[q][b] = pots[q][b]
    BY <1>1, <2>1
  <2>4. \A p \in Pots, b \in Auctions \ {a} : pots'[p][b] = pots[p][b]
    BY <2>3
  <2>5. potBalance'[q] = potBalance[q] + r /\ \A p \in Pots \ {q} : potBalance'[p] = potBalance[p]
    BY <1>1, <2>1
  <2> QED
    BY <1>3, <2>1, <2>2, <2>3, <2>4, <2>5 DEF Deposited
<1> QED
  BY <1>2, <1>3

LEMMA RegisterSlashDeposits ==
  ASSUME TypeOK, NEW a \in Auctions, NEW slash \in Nat, RegisterSlash(a, slash),
         slash # 0 => TotalEscrowIncludingShielded(a) # 0,
         \A v \in Vaults : shieldedSlashReserves[v][a] = 0, EmptyPot(PotOf(a), a)
  PROVE  /\ \E r \in Nat : Deposited(a, slash, r)
         /\ \A v \in Vaults, b \in Auctions \ {a} :
              shieldedSlashReserves'[v][b] = shieldedSlashReserves[v][b]
<1>0. totalEscrow[a] \in Nat /\ VaultTypeOK
  BY DEF TypeOK, EscrowTypeOK
<1>1. CASE VaultOf(a) = 0
  <2>1. /\ UNCHANGED shieldedSlashReserves
        /\ IF slash # 0 THEN Pot_registerSlash(PotOf(a), a, totalEscrow[a], slash)
           ELSE UNCHANGED potVars
    BY <1>1 DEF RegisterSlash
  <2>2. slash # 0 => totalEscrow[a] # 0
    BY <1>0, <1>1 DEF TotalEscrowIncludingShielded, ShieldedEscrowTotal
  <2>3. slash + (IF VaultOf(a) = 0 THEN 0 ELSE shieldedSlashReserves'[VaultOf(a)][a]) = slash
    BY <1>1
  <2>4. Deposited(a, slash, slash)
    BY <2>1, <2>2, <2>3, PotDeposited
  <2> QED
    BY <2>1, <2>4
<1>2. CASE VaultOf(a) # 0 /\ slash = 0
  <2>1. UNCHANGED shieldedSlashReserves /\ UNCHANGED potVars
    BY <1>2 DEF RegisterSlash
  <2>2. 0 + (IF VaultOf(a) = 0 THEN 0 ELSE shieldedSlashReserves'[VaultOf(a)][a]) = slash
    BY <1>2, <2>1, SnapshotType
  <2>3. Deposited(a, slash, 0)
    BY <2>1, <2>2, PotDeposited
  <2> QED
    BY <2>1, <2>3
<1>3. CASE VaultOf(a) # 0 /\ slash # 0
  <2> PICK v \in Vaults : v = VaultOf(a)
    BY <1>3, SnapshotType
  <2> DEFINE public == PublicSlashAllocation(v, a, slash, totalEscrow[a])
  <2>1. /\ shieldedSlashReserves' = [shieldedSlashReserves EXCEPT ![v][a] = @ + (slash - public)]
        /\ totalEscrow[a] + auctionTotals[v][a] # 0
        /\ IF public # 0 THEN Pot_registerSlash(PotOf(a), a, totalEscrow[a], public)
           ELSE UNCHANGED potVars
    BY <1>3, Zenon DEF RegisterSlash, Vault_allocateSlash
  <2>2. public \in 0..slash
    BY <1>0, PublicSlashAllocationRange
  <2>3. public # 0 => totalEscrow[a] # 0
    <3>1. CASE auctionTotals[v][a] = 0
      BY <2>1, <3>1, <1>0
    <3>2. CASE auctionTotals[v][a] # 0 /\ totalEscrow[a] = 0
      <4>1. slash * 0 = 0
        OBVIOUS
      <4>2. auctionTotals[v][a] \in Nat \ {0}
        BY <1>0, <3>2 DEF VaultTypeOK
      <4>3. 0 \div (0 + auctionTotals[v][a]) = 0
        BY <4>2
      <4> QED
        BY <3>2, <4>1, <4>3 DEF PublicSlashAllocation
    <3> QED
      BY <3>1, <3>2
  <2> HIDE DEF public
  <2>4. PICK r \in Nat : r = public
    BY <2>2
  <2>5. shieldedSlashReserves'[v][a] = slash - r
    BY <1>0, <2>1, <2>2, <2>4 DEF VaultTypeOK
  <2>6. r + (IF VaultOf(a) = 0 THEN 0 ELSE shieldedSlashReserves'[VaultOf(a)][a]) = slash
    BY <1>3, <2>5
  <2>7. Deposited(a, slash, r)
    BY <2>1, <2>3, <2>4, <2>6, PotDeposited
  <2>8. \A w \in Vaults, b \in Auctions \ {a} :
          shieldedSlashReserves'[w][b] = shieldedSlashReserves[w][b]
    BY <1>0, <2>1 DEF VaultTypeOK
  <2> QED
    BY <2>7, <2>8
<1> QED
  BY <1>1, <1>2, <1>3

(* A share is a floor.                                                     *)
LEMMA ShareFloor ==
  ASSUME NEW x \in Nat, NEW t \in Nat, NEW r \in Nat
  PROVE  t * computeProRataShare(x, t, r) <= r * x
<1>1. CASE x = 0 \/ t = 0 \/ r = 0
  <2>1. computeProRataShare(x, t, r) = 0
    BY <1>1 DEF computeProRataShare
  <2>2. t * 0 = 0 /\ r * x \in Nat
    OBVIOUS
  <2> QED
    BY <2>1, <2>2
<1>2. CASE ~(x = 0 \/ t = 0 \/ r = 0)
  <2>1. computeProRataShare(x, t, r) = (x * r) \div t
    BY <1>2 DEF computeProRataShare
  <2>2. x * r \in Nat /\ x * r = r * x /\ t \in Nat \ {0}
    BY <1>2
  <2>3. t * ((x * r) \div t) <= x * r
    BY <2>2, DivNat
  <2> QED
    BY <2>1, <2>2, <2>3
<1> QED
  BY <1>1, <1>2

(* The shares of a slash add up to no more than the slash.                 *)
LEMMA SharesCovered ==
  ASSUME TypeOK, NEW a \in Auctions, NEW r \in Nat, totalEscrow[a] = EscrowSum(a),
         UNCHANGED escrowVars, UNCHANGED listing,
         pots'[PotOf(a)][a].totalSlash = r,
         r # 0 => pots'[PotOf(a)][a].totalEscrow = totalEscrow[a] /\ totalEscrow[a] # 0
  PROVE  Compensations(a)' <= r
<1> DEFINE x(u) == escrowBalances[a][u]
           share(u) == computeProRataShare(x(u), totalEscrow[a], r)
           g == [u \in 1..NumAccounts |-> PreviewCompensation(a, u)']
           f == [u \in 1..NumAccounts |-> x(u)]
<1>1. totalEscrow[a] \in Nat /\ \A u \in Accounts : x(u) \in Nat
  BY DEF TypeOK, EscrowTypeOK
<1>2. NumAccounts \in Nat
  BY DomainAssumption
<1>3. Compensations(a)' = SumTo(g, NumAccounts) /\ totalEscrow[a] = SumTo(f, NumAccounts)
  BY DEF Compensations, EscrowSum, Accounts
<1>4. PotOf(a)' = PotOf(a)
  BY DEF PotOf
<1>5. CASE r = 0
  <2>1. \A u \in Accounts : PreviewCompensation(a, u)' = 0
    BY <1>4, <1>5 DEF PreviewCompensation, Pot_previewClaim, computeProRataShare
  <2>2. g = [u \in 1..NumAccounts |-> 0]
    BY <2>1 DEF Accounts
  <2> QED
    BY <1>2, <1>3, <1>5, <2>2, SumZero
<1>6. CASE r # 0
  <2>1. ASSUME NEW u \in Accounts
        PROVE  PreviewCompensation(a, u)' = 0 \/ PreviewCompensation(a, u)' = share(u)
    BY <1>4, <1>6 DEF PreviewCompensation, Pot_previewClaim, escrowVars
  <2>2. ASSUME NEW u \in Accounts
        PROVE  share(u) \in Nat /\ totalEscrow[a] * share(u) <= r * x(u)
    BY <1>1, <2>2, ProRataShareNat, ShareFloor
  <2>3. \A u \in Accounts : totalEscrow[a] * 0 <= r * x(u)
    <3>1. ASSUME NEW u \in Accounts PROVE totalEscrow[a] * 0 <= r * x(u)
      <4>1. x(u) \in Nat
        BY <1>1
      <4> HIDE DEF x
      <4>2. r * x(u) \in Nat
        BY <4>1
      <4> QED
        BY <1>1, <4>2
    <3> QED
      BY <3>1
  <2> HIDE DEF share
  <2>4. ASSUME NEW u \in Accounts
        PROVE  /\ PreviewCompensation(a, u)' \in Nat
               /\ totalEscrow[a] * PreviewCompensation(a, u)' <= r * x(u)
    <3>1. CASE PreviewCompensation(a, u)' = 0
      BY <2>3, <3>1
    <3>2. CASE PreviewCompensation(a, u)' = share(u)
      BY <2>2, <3>2
    <3> QED
      BY <2>1, <3>1, <3>2
  <2>5. f \in [1..NumAccounts -> Nat] /\ g \in [1..NumAccounts -> Nat]
    BY <1>1, <2>4 DEF Accounts
  <2>6. \A k \in 1..NumAccounts : totalEscrow[a] * g[k] <= r * f[k]
    BY <2>4 DEF Accounts
  <2>7. totalEscrow[a] \in Nat \ {0}
    BY <1>1, <1>6
  <2> HIDE DEF f, g, x
  <2>8. ASSUME NEW t \in Nat \ {0}, t = totalEscrow[a] PROVE SumTo(g, NumAccounts) <= r
    <3>1. \A k \in 1..NumAccounts : t * g[k] <= r * f[k]
      BY <2>6, <2>8
    <3>2. SumTo(f, NumAccounts) = t
      BY <1>3, <2>8
    <3> QED
      BY <1>2, <2>5, <3>1, <3>2, SharesFit
  <2> QED
    BY <1>3, <2>7, <2>8
<1> QED
  BY <1>5, <1>6

LEMMA SlashPots ==
  ASSUME TypeOK, TypeOK', VaultFacts, PotFacts, NEW a \in Auctions, NEW slash \in Nat,
         NEW to \in Slashed, TransitionState(a, to), RegisterSlash(a, slash),
         slash # 0 => TotalEscrowIncludingShielded(a) # 0,
         slashAmount' = [slashAmount EXCEPT ![a] = slash],
         UNCHANGED listing, UNCHANGED escrowVars, UNCHANGED shieldedRefundClaimed
  PROVE  PotFacts'
<1>1. /\ state[a] \notin Terminal /\ state[a] \notin Slashed /\ state'[a] \in Slashed
      /\ state'[a] \in Terminal /\ slashAmount'[a] = slash
      /\ \A b \in Auctions \ {a} : state'[b] = state[b] /\ slashAmount'[b] = slashAmount[b]
  BY DEF TransitionState, ValidTransition, Slashed, Terminal, TypeOK, PhaseTypeOK
<1>2. PotOf(a) \in Pots /\ PotOf(a)' = PotOf(a) /\ VaultOf(a)' = VaultOf(a)
  BY SnapshotType DEF PotOf, VaultOf
<1>3. /\ \A p \in Pots : EmptyPot(p, a)
      /\ \A v \in Vaults : shieldedSlashReserves[v][a] = 0
      /\ RefundSound(a)
  BY <1>1 DEF PotFacts, SlashSound, VaultFacts, PathSound
<1>4. PICK r \in Nat : Deposited(a, slash, r)
  BY <1>2, <1>3, RegisterSlashDeposits
<1>5. \A v \in Vaults, b \in Auctions \ {a} :
        shieldedSlashReserves'[v][b] = shieldedSlashReserves[v][b]
  BY <1>2, <1>3, RegisterSlashDeposits
<1>6. ASSUME NEW b \in Auctions \ {a} PROVE PotKept(b)
  <2>1. \A p \in Pots : pots'[p][b] = pots[p][b]
    BY <1>4 DEF Deposited
  <2> QED
    BY <1>1, <1>4, <1>5, <2>1 DEF PotKept, Deposited, escrowVars
<1>7. SlashSound(a)'
  <2>1. \A p \in Pots \ {PotOf(a)} : EmptyPot(p, a)'
    BY <1>3, <1>4 DEF EmptyPot, Deposited
  <2>2. \A p \in Pots : EmptyPot(p, a)' \/ (p = PotOf(a)' /\ state'[a] \in Slashed)
    BY <1>1, <1>2, <2>1
  <2>3. \A p \in Pots : pots'[p][a].totalSlash # 0 =>
          /\ potWired'[p]
          /\ pots'[p][a].totalEscrow = totalEscrow'[a] /\ totalEscrow'[a] # 0
    <3>1. CASE r = 0
      BY <1>2, <1>4, <2>1, <3>1 DEF EmptyPot, Deposited
    <3>2. CASE r # 0
      BY <1>2, <1>4, <2>1, <3>2 DEF EmptyPot, Deposited, escrowVars
    <3> QED
      BY <3>1, <3>2
  <2>4. pots'[PotOf(a)'][a].totalSlash
          + (IF VaultOf(a)' = 0 THEN 0 ELSE shieldedSlashReserves'[VaultOf(a)'][a]) = slashAmount'[a]
    BY <1>1, <1>2, <1>4 DEF Deposited
  <2> QED
    BY <2>2, <2>3, <2>4, Zenon DEF SlashSound, Pots
<1>8. RefundSound(a)'
  <2>1. \A w \in Accounts : ~hasWithdrawn'[a][w]
    BY <1>1, <1>3 DEF RefundSound, escrowVars
  <2>2. \A q \in Pots, w \in Accounts : ~hasClaimedCompensation'[q][a][w]
    BY <1>1, <1>3, <1>4 DEF RefundSound, escrowVars, Deposited
  <2> QED
    BY <1>1, <2>1, <2>2, Zenon DEF RefundSound, Pots, Accounts
<1>9. PotSolvent'
  <2> PICK p \in Pots : p = PotOf(a)
    BY <1>2
  <2>1. DueFrom(p, a)' <= DueFrom(p, a) + r
    <3>1. Compensations(a)' <= r
      <4>1. totalEscrow[a] = EscrowSum(a)
        BY <1>1, <1>3 DEF RefundSound
      <4> QED
        BY <1>4, <4>1, SharesCovered DEF Deposited
    <3>2. DueFrom(p, a) = 0
      BY <1>1, NothingDue
    <3>3. DueFrom(p, a)' = Compensations(a)'
      BY <1>2 DEF DueFrom
    <3> QED
      BY <3>1, <3>2, <3>3
  <2>2. \A b \in Auctions \ {a} : \A q \in Pots : DueFrom(q, b)' = DueFrom(q, b)
    BY <1>6, PotKeptDue
  <2>3. \A q \in Pots \ {p} : DueFrom(q, a)' = DueFrom(q, a)
    <3>1. \A q \in Pots : DueFrom(q, a) = 0
      BY <1>1, NothingDue
    <3>2. \A q \in Pots \ {p} : DueFrom(q, a)' = 0
      BY <1>2 DEF DueFrom
    <3> QED
      BY <3>1, <3>2
  <2>4. \A q \in Pots, b \in Auctions : q # p \/ b # a => DueFrom(q, b)' = DueFrom(q, b)
    BY <2>2, <2>3
  <2>5. potBalance'[p] = potBalance[p] + r /\ \A q \in Pots \ {p} : potBalance'[q] = potBalance[q]
    BY <1>4 DEF Deposited
  <2>6. r \in Int /\ PotSolvent
    BY DEF PotFacts
  <2> QED
    BY <2>1, <2>4, <2>5, <2>6, PotChange
<1>10. \A b \in Auctions : SlashSound(b)' /\ RefundSound(b)'
  BY <1>6, <1>7, <1>8, PotKeptSlash, PotKeptRefund DEF PotFacts
<1> QED
  BY <1>9, <1>10, Zenon DEF PotFacts, Auctions

LEMMA ResolvePots ==
  ASSUME TypeOK, TypeOK', ListingTimes, VaultFacts, PotFacts, NEW a \in Auctions, Resolve(a)
  PROVE  PotFacts'
<1>1. ASSUME NEW u \in Executors, triggerFinalize(u, a) PROVE PotFacts'
  <2>1. /\ TransitionState(a, "RESOLVING") /\ UNCHANGED listing /\ UNCHANGED slashAmount
        /\ UNCHANGED potVars /\ UNCHANGED escrowVars /\ UNCHANGED shieldedRefundClaimed
        /\ UNCHANGED shieldedSlashReserves
    BY <1>1 DEF triggerFinalize, creationVars, claimFlags, vaultVars
  <2> QED
    BY <2>1, SettledPots
<1>2. ASSUME NEW w, NEW ct, NEW amount, submitResolution(a, w, ct, amount) PROVE PotFacts'
  <2>1. /\ TransitionState(a, "FINALIZED") /\ UNCHANGED listing /\ UNCHANGED slashAmount
        /\ UNCHANGED potVars /\ UNCHANGED escrowVars /\ UNCHANGED shieldedRefundClaimed
        /\ UNCHANGED shieldedSlashReserves
    BY <1>2 DEF submitResolution, creationVars, claimFlags
  <2> QED
    BY <2>1, SettledPots
<1>3. ASSUME NEW i, NEW c, NEW ct, NEW amount, submitShieldedResolution(a, i, c, ct, amount)
      PROVE  PotFacts'
  <2>1. /\ TransitionState(a, "FINALIZED") /\ UNCHANGED listing /\ UNCHANGED slashAmount
        /\ UNCHANGED potVars /\ UNCHANGED escrowVars /\ UNCHANGED shieldedRefundClaimed
        /\ UNCHANGED shieldedSlashReserves
    BY <1>3 DEF submitShieldedResolution, creationVars, claimFlags
  <2> QED
    BY <2>1, SettledPots
<1>4. ASSUME NEW u \in Sellers, cancelAuction(u, a) PROVE PotFacts'
  <2> PICK slash \in Nat : slash = ComputeCancellationSlash(a)
    BY SlashRange, SnapshotType DEF ListingTimes
  <2>1. slash # 0 => TotalEscrowIncludingShielded(a) # 0
    BY DEF ComputeCancellationSlash
  <2>2. /\ TransitionState(a, "CANCELLED") /\ RegisterSlash(a, slash)
        /\ slashAmount' = [slashAmount EXCEPT ![a] = slash]
        /\ UNCHANGED listing /\ UNCHANGED escrowVars /\ UNCHANGED shieldedRefundClaimed
    BY <1>4 DEF cancelAuction, creationVars, claimFlags
  <2>3. "CANCELLED" \in Slashed
    BY DEF Slashed
  <2> QED
    BY <2>1, <2>2, <2>3, SlashPots
<1>5. ASSUME triggerFallbackVoid(a) PROVE PotFacts'
  <2> PICK slash \in Nat : slash = ComputeVoidSlash(a)
    BY SlashRange, SnapshotType
  <2>1. slash # 0 => TotalEscrowIncludingShielded(a) # 0
    BY DEF ComputeVoidSlash
  <2>2. /\ TransitionState(a, "VOIDED") /\ RegisterSlash(a, slash)
        /\ slashAmount' = [slashAmount EXCEPT ![a] = slash]
        /\ UNCHANGED listing /\ UNCHANGED escrowVars /\ UNCHANGED shieldedRefundClaimed
    BY <1>5 DEF triggerFallbackVoid, creationVars, claimFlags
  <2>3. "VOIDED" \in Slashed
    BY DEF Slashed
  <2> QED
    BY <2>1, <2>2, <2>3, SlashPots
<1> QED
  BY <1>1, <1>2, <1>3, <1>4, <1>5 DEF Resolve

(* A refund takes its compensation from the pot exactly once.              *)
LEMMA claimRefundPots ==
  ASSUME TypeOK, TypeOK', PotFacts, NEW a \in Auctions, NEW u \in Accounts, claimRefund(u, a)
  PROVE  PotFacts'
<1> DEFINE pay == PreviewCompensation(a, u)
           refund == PreviewEscrowRefund(a, u)
<1>1. /\ UNCHANGED <<listing, state, slashAmount, totalEscrow, shieldedRefundClaimed,
                     shieldedSlashReserves>>
      /\ hasWithdrawn' = [hasWithdrawn EXCEPT ![a][u] = TRUE]
  BY DEF claimRefund, creationVars, phaseVars, claimFlags, vaultVars
<1>2. /\ escrowBalances \in [Auctions -> [Accounts -> Nat]]
      /\ hasWithdrawn \in [Auctions -> [Accounts -> BOOLEAN]]
  BY DEF TypeOK, EscrowTypeOK
<1>3. /\ refund # 0 /\ state[a] \in Terminal
      /\ escrowBalances' = [escrowBalances EXCEPT ![a][u] = 0]
      /\ state[a] \in Slashed => refund = escrowBalances[a][u]
  <2>1. refund # 0 \/ pay # 0
    BY DEF claimRefund
  <2>2. pay # 0 => refund # 0
    BY DEF PreviewCompensation, PreviewEscrowRefund, Terminal
  <2>3. refund # 0 => state[a] \in Terminal
    BY DEF PreviewEscrowRefund, Terminal
  <2>4. refund # 0 => escrowBalances' = [escrowBalances EXCEPT ![a][u] = 0]
    BY DEF claimRefund
  <2>5. state[a] \in Slashed => refund = escrowBalances[a][u]
    BY DEF PreviewEscrowRefund, Slashed, Terminal
  <2> QED
    BY <2>1, <2>2, <2>3, <2>4, <2>5
<1>4. /\ PotOf(a) \in Pots /\ PotOf(a)' = PotOf(a) /\ VaultOf(a)' = VaultOf(a)
      /\ pay \in Nat /\ pay <= Compensations(a)
  BY <1>1, SnapshotType, CompensationType DEF PotOf, VaultOf
<1> PICK p \in Pots : p = PotOf(a)
  BY <1>4
<1>5. /\ UNCHANGED <<pots, potWired>>
      /\ potBalance'[p] = potBalance[p] - pay
      /\ \A q \in Pots \ {p} : potBalance'[q] = potBalance[q]
      /\ \A q \in Pots, b \in Auctions \ {a} :
           hasClaimedCompensation'[q][b] = hasClaimedCompensation[q][b]
      /\ \A q \in Pots, w \in Accounts : hasClaimedCompensation'[q][a][w] =>
           hasClaimedCompensation[q][a][w] \/ (pay # 0 /\ q = p /\ w = u)
  <2>1. /\ potBalance \in [Pots -> Nat]
        /\ hasClaimedCompensation \in [Pots -> [Auctions -> [Accounts -> BOOLEAN]]]
    BY DEF TypeOK, PotTypeOK
  <2>2. CASE pay = 0
    <3>1. UNCHANGED potVars
      BY <2>2 DEF claimRefund
    <3>2. \A q \in Pots : potBalance[q] \in Nat
      BY <2>1
    <3> QED
      BY <2>1, <2>2, <3>1, <3>2 DEF potVars
  <2>3. CASE pay # 0
    <3>1. Pot_claimFor(p, a, u, refund)
      BY <2>3 DEF claimRefund
    <3>2. pay = Pot_previewClaim(p, a, refund)
      BY <1>3, <2>3 DEF PreviewCompensation, Slashed
    <3>3. /\ hasClaimedCompensation' = [hasClaimedCompensation EXCEPT ![p][a][u] = TRUE]
          /\ potBalance' = [potBalance EXCEPT ![p] = @ - pay]
          /\ UNCHANGED <<pots, potWired>>
      BY <3>1, <3>2 DEF Pot_claimFor
    <3> HIDE DEF pay
    <3>4. /\ potBalance'[p] = potBalance[p] - pay
          /\ \A q \in Pots \ {p} : potBalance'[q] = potBalance[q]
      BY <2>1, <3>3
    <3>5. \A q \in Pots, b \in Auctions \ {a} :
            hasClaimedCompensation'[q][b] = hasClaimedCompensation[q][b]
      BY <2>1, <3>3
    <3>6. ASSUME NEW q \in Pots, NEW w \in Accounts, q # p \/ w # u
          PROVE  hasClaimedCompensation'[q][a][w] = hasClaimedCompensation[q][a][w]
      BY <2>1, <3>3, <3>6
    <3> QED
      BY <2>3, <3>3, <3>4, <3>5, <3>6
  <2> QED
    BY <2>2, <2>3
<1> HIDE DEF pay, refund
<1>6. /\ escrowBalances'[a][u] = 0 /\ hasWithdrawn'[a][u]
      /\ \A w \in Accounts \ {u} : /\ escrowBalances'[a][w] = escrowBalances[a][w]
                                   /\ hasWithdrawn'[a][w] = hasWithdrawn[a][w]
      /\ \A b \in Auctions \ {a} : /\ escrowBalances'[b] = escrowBalances[b]
                                   /\ hasWithdrawn'[b] = hasWithdrawn[b]
  BY <1>1, <1>2, <1>3
<1>7. ASSUME NEW b \in Auctions \ {a} PROVE PotKept(b)
  BY <1>1, <1>5, <1>6 DEF PotKept
<1>8. SlashSound(a)'
  <2>1. ASSUME NEW q \in Pots PROVE EmptyPot(q, a)' \/ (q = PotOf(a)' /\ state'[a] \in Slashed)
    <3>1. CASE pay # 0
      <4>1. state[a] \in Slashed
        BY <3>1, NothingDue DEF pay
      <4>2. CASE q = p
        BY <1>1, <1>4, <4>1, <4>2
      <4>3. CASE q # p
        <5>1. EmptyPot(q, a)
          BY <4>3 DEF PotFacts, SlashSound
        <5> QED
          BY <1>5, <4>3, <5>1 DEF EmptyPot
      <4> QED
        BY <4>2, <4>3
    <3>2. CASE pay = 0
      <4>1. EmptyPot(q, a) \/ (q = PotOf(a) /\ state[a] \in Slashed)
        BY DEF PotFacts, SlashSound
      <4>2. EmptyPot(q, a) => EmptyPot(q, a)'
        BY <1>5, <3>2 DEF EmptyPot
      <4> QED
        BY <1>1, <1>4, <4>1, <4>2
    <3> QED
      BY <3>1, <3>2
  <2>2. SlashSound(a)
    BY DEF PotFacts
  <2>3. \A q \in Pots : pots'[q][a].totalSlash # 0 =>
          /\ potWired'[q]
          /\ pots'[q][a].totalEscrow = totalEscrow'[a] /\ totalEscrow'[a] # 0
    BY <1>1, <1>5, <2>2 DEF SlashSound
  <2>4. state'[a] \in Slashed /\ shieldedRefundClaimed'[a] = {} =>
          pots'[PotOf(a)'][a].totalSlash
            + (IF VaultOf(a)' = 0 THEN 0 ELSE shieldedSlashReserves'[VaultOf(a)'][a]) = slashAmount'[a]
    BY <1>1, <1>4, <1>5, <2>2 DEF SlashSound
  <2> QED
    BY <2>1, <2>3, <2>4, Zenon DEF SlashSound, Pots
<1>9. RefundSound(a)'
  <2>1. RefundSound(a) /\ state'[a] \in Terminal
    BY <1>1, <1>3 DEF PotFacts
  <2>2. \A w \in Accounts :
          hasWithdrawn'[a][w] => state'[a] \in Terminal /\ escrowBalances'[a][w] = 0
    BY <1>6, <2>1 DEF RefundSound
  <2>3. \A q \in Pots, w \in Accounts : hasClaimedCompensation'[q][a][w] => hasWithdrawn'[a][w]
    BY <1>5, <1>6, <2>1 DEF RefundSound
  <2> QED
    BY <2>1, <2>2, <2>3, Zenon DEF RefundSound, Pots, Accounts
<1>10. PotSolvent'
  <2>1. Compensations(a)' = Compensations(a) - pay
    <3> DEFINE f == [w \in 1..NumAccounts |-> PreviewCompensation(a, w)]
               g == [w \in 1..NumAccounts |-> PreviewCompensation(a, w)']
    <3>1. PreviewCompensation(a, u)' = 0
      BY <1>6 DEF PreviewCompensation
    <3>2. \A w \in Accounts \ {u} : PreviewCompensation(a, w)' = PreviewCompensation(a, w)
      BY <1>1, <1>4, <1>5, <1>6 DEF PreviewCompensation, Pot_previewClaim
    <3>3. g = [f EXCEPT ![u] = 0]
      BY <3>1, <3>2 DEF Accounts
    <3>4. f \in [1..NumAccounts -> Int]
      BY CompensationType DEF Accounts
    <3>5. f[u] = pay /\ u \in 1..NumAccounts
      BY DEF Accounts, pay
    <3>6. Compensations(a) = SumTo(f, NumAccounts) /\ Compensations(a)' = SumTo(g, NumAccounts)
      BY DEF Compensations, Accounts
    <3> HIDE DEF f, g
    <3>7. NumAccounts \in Nat
      BY DomainAssumption
    <3>8. SumTo([f EXCEPT ![u] = 0], NumAccounts) = SumTo(f, NumAccounts) + 0 - f[u]
      <4>1. \A v \in Int : SumTo([f EXCEPT ![u] = v], NumAccounts) = SumTo(f, NumAccounts) + v - f[u]
        BY <3>4, <3>5, <3>7, SumUpdate
      <4> QED
        BY <4>1
    <3>9. SumTo(f, NumAccounts) \in Int
      BY <3>4, <3>7, SumInt
    <3> QED
      BY <1>4, <3>3, <3>5, <3>6, <3>8, <3>9
  <2>2. DueFrom(p, a)' <= DueFrom(p, a) + (0 - pay)
    <3>1. DueFrom(p, a)' = Compensations(a)' /\ DueFrom(p, a) = Compensations(a)
      BY <1>4 DEF DueFrom
    <3>2. Compensations(a) \in Nat
      BY CompensationType
    <3> QED
      BY <1>4, <2>1, <3>1, <3>2
  <2>3. \A b \in Auctions \ {a} : \A q \in Pots : DueFrom(q, b)' = DueFrom(q, b)
    BY <1>7, PotKeptDue
  <2>4. \A q \in Pots \ {p} : DueFrom(q, a)' = DueFrom(q, a)
    BY <1>4 DEF DueFrom
  <2>5. \A q \in Pots, b \in Auctions : q # p \/ b # a => DueFrom(q, b)' = DueFrom(q, b)
    BY <2>3, <2>4
  <2>6. 0 - pay \in Int /\ potBalance'[p] = potBalance[p] + (0 - pay) /\ PotSolvent
    BY <1>4, <1>5, PotTypes DEF PotFacts
  <2> QED
    BY <1>5, <2>2, <2>5, <2>6, PotChange
<1>11. \A b \in Auctions : SlashSound(b)' /\ RefundSound(b)'
  BY <1>7, <1>8, <1>9, PotKeptSlash, PotKeptRefund DEF PotFacts
<1> QED
  BY <1>10, <1>11, Zenon DEF PotFacts, Auctions

LEMMA BidPots ==
  ASSUME TypeOK, PotFacts, NEW a \in Auctions, Bid(a)
  PROVE  PotFacts'
<1>1. ASSUME NEW u \in Bidders, NEW ct, placeBid(u, a, ct) PROVE PotFacts'
  <2>1. /\ UNCHANGED potVars /\ UNCHANGED vaultVars /\ UNCHANGED creationVars
        /\ UNCHANGED phaseVars /\ UNCHANGED claimFlags /\ UNCHANGED escrowVars
    BY <1>1 DEF placeBid
  <2> QED
    BY <2>1, PotQuiet, PotsKept DEF potVars, vaultVars, creationVars, phaseVars, claimFlags
<1>2. ASSUME NEW c, NEW ct, NEW d, placeShieldedBid(a, c, ct, d) PROVE PotFacts'
  <2>1. /\ UNCHANGED potVars /\ UNCHANGED vaultVars /\ UNCHANGED creationVars
        /\ UNCHANGED phaseVars /\ UNCHANGED claimFlags /\ UNCHANGED escrowVars
    BY <1>2 DEF placeShieldedBid
  <2> QED
    BY <2>1, PotQuiet, PotsKept DEF potVars, vaultVars, creationVars, phaseVars, claimFlags
<1>3. ASSUME NEW i, NEW c, NEW s, NEW value, lockShieldedEscrow(a, i, c, s, value)
      PROVE  PotFacts'
  <2>1. /\ UNCHANGED potVars /\ UNCHANGED shieldedSlashReserves /\ UNCHANGED creationVars
        /\ UNCHANGED phaseVars /\ UNCHANGED claimFlags /\ UNCHANGED escrowVars
    BY <1>3 DEF lockShieldedEscrow, Vault_lockEscrow
  <2> QED
    BY <2>1, PotQuiet, PotsKept DEF potVars, creationVars, phaseVars, claimFlags
<1> QED
  BY <1>1, <1>2, <1>3, lockEscrowPots DEF Bid

LEMMA ClaimPots ==
  ASSUME TypeOK, TypeOK', PotFacts, NEW a \in Auctions, Claim(a)
  PROVE  PotFacts'
<1>1. ASSUME (\E u \in Accounts : \/ claimSellerProceeds(u, a) \/ claimFinalizeReward(u, a)
                                  \/ claimAsset(u, a))
               \/ (\E u, d, s : claimShieldedAsset(a, u, d, s))
      PROVE  PotFacts'
  <2>1. /\ UNCHANGED potVars /\ UNCHANGED shieldedSlashReserves /\ UNCHANGED creationVars
        /\ UNCHANGED phaseVars /\ UNCHANGED shieldedRefundClaimed /\ UNCHANGED escrowVars
    BY <1>1 DEF claimSellerProceeds, claimFinalizeReward, claimAsset, claimShieldedAsset,
                Vault_authorizeAssetClaim, vaultVars
  <2> QED
    BY <2>1, PotQuiet, PotsKept DEF potVars, creationVars, phaseVars
<1> QED
  BY <1>1, claimRefundPots DEF Claim

LEMMA NextPots ==
  ASSUME PotInv, [Next]_vars
  PROVE  PotInv'
<1>1. /\ TypeOK /\ ListingTimes /\ VaultFacts /\ PotFacts /\ VaultInv /\ VaultInv' /\ TypeOK'
  BY NextVaults DEF PotInv, VaultInv
<1>2. ASSUME \/ NewBlock \/ (\E value \in Donations : receive(value))
             \/ (\E t \in Tokens, u \in TokenRecipients : TransferToken(t, u))
             \/ UNCHANGED vars
      PROVE  PotFacts'
  <2>1. /\ UNCHANGED potVars /\ UNCHANGED vaultVars /\ UNCHANGED creationVars
        /\ UNCHANGED phaseVars /\ UNCHANGED claimFlags /\ UNCHANGED escrowVars
    BY <1>2, SMT DEF NewBlock, receive, TransferToken, vars
  <2> QED
    BY <1>1, <2>1, PotQuiet, PotsKept DEF potVars, vaultVars, creationVars, phaseVars, claimFlags
<1>3. ASSUME NEW a \in Auctions, Bid(a) \/ Resolve(a) \/ Claim(a) PROVE PotFacts'
  BY <1>1, <1>3, BidPots, ResolvePots, ClaimPots
<1>4. ASSUME NEW u \in Sellers, NEW t \in Tokens, NEW d \in Durations, NEW p \in StartingPrices,
             NEW e \in Deposits, createAuction(u, t, d, p, e)
      PROVE  PotFacts'
  BY <1>1, <1>4, createAuctionPots
<1>5. ASSUME NEW v \in Vaults, NEW c \in Commitments, NEW u \in Recipients, NEW d \in Deadlines,
             NEW s \in Authorities, claimShieldedRefund(v, c, u, d, s)
      PROVE  PotFacts'
  BY <1>1, <1>5, claimShieldedRefundPots
<1>6. ASSUME Configure PROVE PotFacts'
  BY <1>1, <1>6, ConfigurePots
<1>7. PotFacts'
  <2>1. CASE UNCHANGED vars
    BY <1>2, <2>1
  <2>2. CASE Next
    BY <1>2, <1>3, <1>4, <1>5, <1>6, <2>2, Zenon DEF Next
  <2> QED
    BY <2>1, <2>2
<1> QED
  BY <1>1, <1>7 DEF PotInv

LEMMA InitPots == Init => PotFacts
<1> SUFFICES ASSUME Init PROVE PotFacts
  OBVIOUS
<1>1. /\ \A a \in Auctions : state[a] = "CREATED"
      /\ \A p \in Pots, a \in Auctions : EmptyPot(p, a) /\ pots[p][a].totalSlash = 0
      /\ \A p \in Pots : potBalance[p] = 0
  BY DEF Init, PotInit, EmptyPot
<1>2. \A a \in Auctions : SlashSound(a)
  BY <1>1 DEF SlashSound, Slashed
<1>3. ASSUME NEW a \in Auctions PROVE RefundSound(a)
  <2>1. totalEscrow[a] = 0 /\ EscrowSum(a) = SumTo([u \in 1..NumAccounts |-> 0], NumAccounts)
    BY DEF Init, EscrowSum, Accounts
  <2>2. EscrowSum(a) = 0
    BY <2>1, SumZero, DomainAssumption
  <2>3. /\ \A u \in Accounts : ~hasWithdrawn[a][u]
        /\ \A p \in Pots, u \in Accounts : ~hasClaimedCompensation[p][a][u]
    BY DEF Init, PotInit
  <2> QED
    BY <2>1, <2>2, <2>3 DEF RefundSound
<1>4. PotSolvent
  <2>1. ASSUME NEW p \in Pots
        PROVE  SumTo([a \in Auctions |-> DueFrom(p, a)], NumAuctions) = 0
    <3>1. \A a \in Auctions : DueFrom(p, a) = 0
      <4>1. TypeOK
        BY InitType
      <4> QED
        BY <1>1, <4>1, NothingDue DEF Slashed
    <3>2. [a \in Auctions |-> DueFrom(p, a)] = [a \in 1..NumAuctions |-> 0]
      BY <3>1 DEF Auctions
    <3> QED
      BY <3>2, SumZero, DomainAssumption
  <2> QED
    BY <1>1, <2>1, PotSolventSums
<1> QED
  BY <1>2, <1>3, <1>4 DEF PotFacts

LEMMA SpecPots == Spec => []PotInv
<1>1. Init => PotInv
  BY InitType, InitVaults, InitPots DEF PotInv, VaultInv
<1>2. PotInv /\ [Next]_vars => PotInv'
  BY NextPots
<1> QED
  BY <1>1, <1>2, PTL DEF Spec

(* For every number of pots, auctions and bidders a pot holds the          *)
(* compensations still due from it: claimFor never runs out of balance,    *)
(* because the floors of the shares add up to no more than the slash.      *)
THEOREM PotsAlwaysSolvent == Spec => []PotSolvent
<1>1. PotInv => PotSolvent
  BY DEF PotInv, PotFacts
<1> QED
  BY <1>1, SpecPots, PTL

(* Nothing of a slash is lost on its way through allocateSlash and         *)
(* registerSlash, whatever the amounts: pot and reserve add up to it, and  *)
(* neither receives a part without bidders to share it.                    *)
THEOREM SlashesBacked == Spec => []SlashBacked
<1>1. PotInv => SlashBacked
  <2> SUFFICES ASSUME PotInv, NEW a \in Auctions, state[a] \in Slashed,
                      shieldedRefundClaimed[a] = {}
               PROVE  LET pot     == pots[PotOf(a)][a]
                          reserve == IF VaultOf(a) = 0 THEN 0
                                     ELSE shieldedSlashReserves[VaultOf(a)][a] IN
                      /\ pot.totalSlash + reserve = slashAmount[a]
                      /\ pot.totalSlash # 0 =>
                           pot.totalEscrow = totalEscrow[a] /\ totalEscrow[a] # 0
                      /\ reserve # 0 => ShieldedEscrowTotal(a) # 0
    BY DEF SlashBacked, Slashed
  <2>1. SlashSound(a) /\ PathSound(a) /\ TypeOK
    BY DEF PotInv, PotFacts, VaultInv, VaultFacts
  <2>2. PotOf(a) \in Pots /\ (VaultOf(a) # 0 => VaultOf(a) \in Vaults)
    BY <2>1, SnapshotType
  <2>3. VaultOf(a) # 0 /\ shieldedSlashReserves[VaultOf(a)][a] # 0 => ShieldedEscrowTotal(a) # 0
    BY <2>1, <2>2 DEF PathSound, ShieldedEscrowTotal
  <2> QED
    BY <2>1, <2>2, <2>3 DEF SlashSound
<1> QED
  BY <1>1, SpecPots, PTL

(* What a bidder is owed is in the market.                                 *)
LEMMA RefundInMarket ==
  ASSUME MoneyInv, NEW a \in Auctions, NEW u \in Accounts
  PROVE  RefundDue(a, u) <= marketBalance
<1> DEFINE f == [w \in 1..NumAccounts |-> RefundDue(a, w)]
           g == [b \in 1..NumAuctions |-> Owed(b)]
<1>0. TypeOK /\ MarketSolvent /\ donated \in Nat /\ NumAccounts \in Nat /\ NumAuctions \in Nat
  BY DomainAssumption DEF MoneyInv, TypeOK, BalanceTypeOK
<1>1. ASSUME NEW b \in Auctions
      PROVE  /\ \A w \in Accounts : RefundDue(b, w) <= RefundsDue(b)
             /\ RefundsDue(b) \in Nat /\ RefundsDue(b) <= Owed(b) /\ Owed(b) \in Nat
  <2> DEFINE h == [w \in 1..NumAccounts |-> RefundDue(b, w)]
  <2>1. h \in [1..NumAccounts -> Nat] /\ RefundsDue(b) = SumTo(h, NumAccounts)
    BY <1>0, DueType DEF RefundsDue, Accounts
  <2>2. \A w \in Accounts : w \in 1..NumAccounts /\ h[w] = RefundDue(b, w)
    BY DEF Accounts
  <2> HIDE DEF h
  <2>3. RefundsDue(b) \in Nat /\ \A w \in Accounts : h[w] <= RefundsDue(b)
    BY <1>0, <2>1, <2>2, SumBound
  <2>4. SellerDue(b) \in Nat /\ RewardDue(b) \in Nat
    BY <1>0, DueType
  <2> QED
    BY <2>2, <2>3, <2>4 DEF Owed
<1>2. g \in [1..NumAuctions -> Nat] /\ a \in 1..NumAuctions /\ g[a] = Owed(a)
      /\ marketBalance = SumTo(g, NumAuctions) + donated
  BY <1>0, <1>1 DEF MarketSolvent, Auctions
<1> HIDE DEF g
<1>3. SumTo(g, NumAuctions) \in Nat /\ Owed(a) <= SumTo(g, NumAuctions)
  BY <1>0, <1>2, SumBound
<1>4. RefundDue(a, u) \in Nat
  BY <1>0, DueType
<1> QED
  BY <1>0, <1>1, <1>2, <1>3, <1>4

(* A compensation is in its pot.                                           *)
LEMMA CompensationInPot ==
  ASSUME PotInv, NEW a \in Auctions, NEW u \in Accounts
  PROVE  PreviewCompensation(a, u) <= potBalance[PotOf(a)]
<1>0. TypeOK /\ PotSolvent /\ NumAuctions \in Nat
  BY DomainAssumption DEF PotInv, PotFacts, VaultInv
<1> PICK p \in Pots : p = PotOf(a)
  BY <1>0, SnapshotType
<1> DEFINE g == [b \in 1..NumAuctions |-> DueFrom(p, b)]
<1>1. g \in [1..NumAuctions -> Nat] /\ a \in 1..NumAuctions /\ g[a] = Compensations(a)
  BY <1>0, CompensationType DEF Auctions, DueFrom
<1>2. SumTo(g, NumAuctions) <= potBalance[p]
  BY <1>0, PotSolventSums DEF Auctions
<1> HIDE DEF g
<1>3. SumTo(g, NumAuctions) \in Nat /\ Compensations(a) <= SumTo(g, NumAuctions)
  BY <1>0, <1>1, SumBound
<1>4. /\ PreviewCompensation(a, u) <= Compensations(a) /\ PreviewCompensation(a, u) \in Nat
      /\ Compensations(a) \in Nat /\ potBalance[p] \in Nat
  BY <1>0, CompensationType, PotTypes
<1> QED
  BY <1>2, <1>3, <1>4

(* Whatever previewRefund promises a public bidder can be claimed, escrow  *)
(* and compensation alike, for every number of bidders and every order of  *)
(* claims: no balance runs out, no pot is unwired, and neither flag that a *)
(* claim sets is set while there is something left (claimRefund, claimFor). *)
THEOREM PublicRefundsNeverBlocked == Spec => []PublicRefundsReachable
<1>1. Init => MoneyInv
  BY InitMoney
<1>2. MoneyInv /\ [Next]_vars => MoneyInv'
  BY NextMoney
<1>3. MoneyInv /\ PotInv => PublicRefundsReachable
  <2> SUFFICES ASSUME MoneyInv, PotInv, NEW a \in Auctions, NEW u \in Accounts,
                      state[a] \in Terminal, PreviewEscrowRefund(a, u) # 0
               PROVE  /\ ~hasWithdrawn[a][u]
                      /\ PreviewEscrowRefund(a, u) <= marketBalance
                      /\ PreviewCompensation(a, u) # 0 =>
                           /\ potWired[PotOf(a)]
                           /\ ~hasClaimedCompensation[PotOf(a)][a][u]
                           /\ PreviewCompensation(a, u) <= potBalance[PotOf(a)]
    BY DEF PublicRefundsReachable
  <2>1. TypeOK /\ SlashSound(a) /\ RefundSound(a)
    BY DEF PotInv, PotFacts, VaultInv
  <2>2. escrowBalances[a][u] # 0
    <3>1. PreviewEscrowRefund(a, u) \in 0..escrowBalances[a][u] /\ escrowBalances[a][u] \in Nat
      BY <2>1, PreviewType DEF TypeOK, EscrowTypeOK
    <3> QED
      BY <3>1
  <2>3. ~hasWithdrawn[a][u]
    BY <2>1, <2>2 DEF RefundSound
  <2>4. PreviewEscrowRefund(a, u) <= marketBalance
    <3>1. RefundDue(a, u) = PreviewEscrowRefund(a, u)
      BY DEF RefundDue, Live, Terminal
    <3> QED
      BY <3>1, RefundInMarket
  <2>5. ASSUME PreviewCompensation(a, u) # 0
        PROVE  potWired[PotOf(a)] /\ ~hasClaimedCompensation[PotOf(a)][a][u]
    <3>1. PotOf(a) \in Pots
      BY <2>1, SnapshotType
    <3>2. pots[PotOf(a)][a].totalSlash # 0
      BY <2>5 DEF PreviewCompensation, Pot_previewClaim, computeProRataShare
    <3> QED
      BY <2>1, <2>3, <3>1, <3>2 DEF SlashSound, RefundSound
  <2> QED
    BY <2>3, <2>4, <2>5, CompensationInPot
<1> QED
  BY <1>1, <1>2, <1>3, SpecPots, PTL DEF Spec
=============================================================================
