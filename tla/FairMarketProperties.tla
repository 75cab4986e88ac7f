------------------------ MODULE FairMarketProperties ------------------------
(***************************************************************************)
(* What makes the market correct, stated on the state of FairMarket.       *)
(***************************************************************************)
EXTENDS FairMarket, FiniteSets

Live == {"ACTIVE", "RESOLVING"}

-----------------------------------------------------------------------------
(* Money.                                                                  *)

(* What the market still owes to a bidder, to the seller and to the        *)
(* executor of an auction.  A live auction holds all escrow and the whole  *)
(* deposit; a settled one what the preview functions promise.              *)
RefundDue(a, u) ==
  IF state[a] \in Live THEN escrowBalances[a][u] ELSE PreviewEscrowRefund(a, u)

SellerDue(a) ==
  IF state[a] \in Live THEN listing[a].sellerDeposit
  ELSE IF sellerClaimed[a] THEN 0
  ELSE PreviewSellerPayout(a)

RewardDue(a) ==
  IF state[a] \in {"FINALIZED", "VOIDED"} /\ ~finalizationRewardClaimed[a]
    THEN finalizationRewards[a]
    ELSE 0

RefundsDue(a) == SumTo([u \in Accounts |-> RefundDue(a, u)], NumAccounts)

Owed(a) == RefundsDue(a) + SellerDue(a) + RewardDue(a)

(* The market's balance is exactly what it owes, plus what was sent to     *)
(* receive() from outside: no sequence of deposits, resolutions, slashes   *)
(* and claims, over all auctions, leaves a claim uncovered or value        *)
(* stranded (the bookkeeping of escrowBalances, sellerClaimed,             *)
(* _finalizationRewards and the payments of _sendValue and _registerSlash). *)
MarketSolvent ==
  marketBalance = SumTo([a \in Auctions |-> Owed(a)], NumAuctions) + donated

(* A pot can pay every compensation that is still unclaimed, whatever the  *)
(* order of claims and however computeProRataShare rounds.                 *)
PotSolvent ==
  \A p \in Pots :
    SumTo([a \in Auctions |->
             IF PotOf(a) = p
               THEN SumTo([u \in Accounts |-> PreviewCompensation(a, u)], NumAccounts)
               ELSE 0], NumAuctions) <= potBalance[p]

(* A vault's balance is exactly the escrow under its commitments plus the  *)
(* slash reserves it holds for them.                                       *)
VaultBalanced ==
  \A v \in Vaults :
    vaultBalance[v] =
      SumTo([c \in Commitments |-> commitments[v][c].amount], NumCommitments)
        + SumTo(shieldedSlashReserves[v], NumAuctions)

(* _auctionTotals, which decides slashes and shares, is the sum of the     *)
(* commitments of the auction, also after a winner's part has been taken   *)
(* and commitments have been refunded or locked again.                     *)
VaultTotals ==
  \A v \in Vaults, a \in Auctions :
    auctionTotals[v][a] =
      SumTo([c \in Commitments |->
               IF commitments[v][c].auctionId = a THEN commitments[v][c].amount ELSE 0],
            NumCommitments)

(* A vault's two sets of books agree with each other and with its balance, *)
(* through every lock, settlement and refund of every auction it serves.   *)
VaultSolvent == VaultBalanced /\ VaultTotals

(* The last shielded refund of an auction takes the last wei of its slash  *)
(* reserve: _consumeShieldedCompensation leaves no dust behind.            *)
NoStrandedReserve ==
  \A v \in Vaults, a \in Auctions :
    auctionTotals[v][a] = 0 => shieldedSlashReserves[v][a] = 0

(* Until a shielded bidder has been paid, the whole slash of a cancelled   *)
(* or voided auction lies in the pot and the vault of the auction's own    *)
(* snapshot, split over the escrow totals that the shares are computed     *)
(* from, whatever the owner has rotated to since (_registerSlash,          *)
(* allocateSlash, registerSlash).                                          *)
SlashBacked ==
  \A a \in Auctions :
    state[a] \in {"CANCELLED", "VOIDED"} /\ shieldedRefundClaimed[a] = {} =>
      LET pot     == pots[PotOf(a)][a]
          reserve == IF VaultOf(a) = 0 THEN 0 ELSE shieldedSlashReserves[VaultOf(a)][a] IN
      /\ pot.totalSlash + reserve = slashAmount[a]
      /\ pot.totalSlash # 0 => pot.totalEscrow = totalEscrow[a] /\ totalEscrow[a] # 0
      /\ reserve # 0 => ShieldedEscrowTotal(a) # 0

-----------------------------------------------------------------------------
(* Assets.                                                                 *)

InCustody(a) == state[a] \in Live \/ (state[a] = "FINALIZED" /\ ~assetClaimed[a])

(* Every auction that has not handed out its token holds it, and no two    *)
(* such auctions share one: the token leaves the market once, whichever    *)
(* of cancelAuction, triggerFallbackVoid, claimAsset and                   *)
(* claimShieldedAssetWithAuthorization releases it.                        *)
Custody ==
  \A a \in Auctions : InCustody(a) =>
    /\ nftOwner[listing[a].tokenId] = Market
    /\ \A b \in Auctions \ {a} :
         InCustody(b) => listing[b].tokenId # listing[a].tokenId

-----------------------------------------------------------------------------
(* Bids and outcomes.                                                      *)

(* The checks of placeBid and placeShieldedBid still hold when the auction *)
(* is resolved: for every bid above zero the outcome "this bid wins at its *)
(* own price" passes each check of submitResolution, respectively of       *)
(* submitShieldedResolution and the vault's settleWinningCommitment.       *)
BidsSettleable ==
  \A a \in Auctions : state[a] = "RESOLVING" =>
    /\ \A u \in bidders[a] :
         LET bid == encryptedBids[a][u] IN
         bid.payload # 0 => ResolutionAdmissible(a, u, bid, bid.payload)
    /\ \A c \in shieldedBidders[a] :
         LET bid == shieldedEncryptedBids[a][c]
             i   == commitmentToIdentity[RegistryOf(a)][a][c] IN
         bid.payload # 0 =>
           /\ i # 0
           /\ ShieldedResolutionAdmissible(a, i, c, bid, bid.payload)
           /\ bid.payload <= commitments[VaultOf(a)][c].amount
           /\ bid.payload <= auctionTotals[VaultOf(a)][a]

(* bidCount, which goes into the id of the resolution request, counts each *)
(* bidder and each commitment once, however often it bids again.           *)
BidCountExact ==
  \A a \in Auctions :
    bidCount[a] = Cardinality(bidders[a]) + Cardinality(shieldedBidders[a])

(* A finalized auction has one kind of winner at a price the rules allow,  *)
(* and the winner's escrow still covers the price until it has been        *)
(* refunded (submitResolution, submitShieldedResolution, claimRefund).     *)
OutcomeCovered ==
  \A a \in Auctions : state[a] = "FINALIZED" =>
    /\ winner[a] = 0 \/ winningIdentityHash[a] = 0
    /\ winningAmount[a] = 0 <=> winner[a] = 0 /\ winningIdentityHash[a] = 0
    /\ winningAmount[a] # 0 => winningAmount[a] >= listing[a].startingPrice
    /\ winner[a] # 0 /\ ~hasWithdrawn[a][winner[a]]
         => escrowBalances[a][winner[a]] >= winningAmount[a]

-----------------------------------------------------------------------------
(* Refund paths.                                                           *)

(* Once an auction is settled, every commitment of it that holds value can *)
(* be refunded: market and vault agree that refunds are open, the          *)
(* commitment is registered and not marked as paid, and the vault can pay. *)
(* Before that none of them can (_openShieldedRefundPath,                  *)
(* settleShieldedRefund, claimRefundWithAuthorization).                    *)
ShieldedRefundsReachable ==
  \A v \in Vaults, c \in Commitments :
    LET a == commitments[v][c].auctionId
        principal == commitments[v][c].amount IN
    principal # 0 =>
      IF state[a] \in Terminal
        THEN /\ VaultOf(a) = v /\ Registered(v, c)
             /\ refundsUnlocked[v][a] /\ shieldedRefundsUnlocked[a]
             /\ c \notin shieldedRefundClaimed[a]
             /\ principal + ShieldedCompensation(v, a, principal) <= vaultBalance[v]
        ELSE ~refundsUnlocked[v][a] /\ ~shieldedRefundsUnlocked[a]

(* Once an auction is settled, every bidder with a refund due can be paid: *)
(* by the market, and for a slashed auction by the pot of the auction's    *)
(* snapshot, which has not paid this bidder before.                        *)
PublicRefundsReachable ==
  \A a \in Auctions, u \in Accounts :
    state[a] \in Terminal /\ PreviewEscrowRefund(a, u) # 0 =>
      /\ ~hasWithdrawn[a][u]
      /\ PreviewEscrowRefund(a, u) <= marketBalance
      /\ PreviewCompensation(a, u) # 0 =>
           /\ potWired[PotOf(a)]
           /\ ~hasClaimedCompensation[PotOf(a)][a][u]
           /\ PreviewCompensation(a, u) <= potBalance[PotOf(a)]

(* The recovery path cannot be blocked: from MAX_DYNAMIC_TIMEOUT after the *)
(* start of resolution on, triggerFallbackVoid succeeds, whatever happened *)
(* to the average, the balances and the token.                             *)
FallbackAvailable ==
  \A a \in Auctions :
    state[a] = "RESOLVING" /\ now - resolvingSince[a] >= MAX_DYNAMIC_TIMEOUT =>
      ENABLED triggerFallbackVoid(a)

(* Pot and vault of the auction answer to the market, the pot if there is  *)
(* anything for it, and the seller takes the token back.                   *)
Connected(a) ==
  /\ totalEscrow[a] # 0 => potWired[PotOf(a)]
  /\ VaultOf(a) # 0 => vaultWired[VaultOf(a)]
  /\ listing[a].seller \notin RejectsToken

(* Everything that could revert triggerFallbackVoid, call by call.         *)
FallbackUnobstructed(a) ==
  LET v == VaultOf(a)
      slash == ComputeVoidSlash(a)
      public == IF v = 0 THEN slash ELSE PublicSlashAllocation(v, a, slash, totalEscrow[a])
  IN
  /\ Exists(a) /\ ValidTransition(state[a], "VOIDED")
  /\ now - resolvingSince[a] >= PreviewDynamicTimeoutForAuction(a)
  /\ slash <= marketBalance
  /\ slash # 0 /\ v # 0 => vaultWired[v] /\ totalEscrow[a] + auctionTotals[v][a] # 0
  /\ slash # 0 /\ public # 0 => potWired[PotOf(a)]
  /\ v # 0 => vaultWired[v]
  /\ nftOwner[listing[a].tokenId] = Market /\ listing[a].seller \notin RejectsToken

(* The same under every rotation, guard by guard: from MAX_DYNAMIC_TIMEOUT *)
(* after the start of resolution on nothing on the way of                  *)
(* triggerFallbackVoid (_registerSlash, the vault's allocateSlash and      *)
(* unlockRefunds, releaseFromEscrow) reverts, unless the owner left a pot  *)
(* or vault unwired or the seller refuses the token.                       *)
FallbackOpen ==
  \A a \in Auctions :
    /\ state[a] = "RESOLVING" /\ now - resolvingSince[a] >= MAX_DYNAMIC_TIMEOUT
    /\ Connected(a)
    => FallbackUnobstructed(a)

-----------------------------------------------------------------------------
(* What the documentation says and the code does not do.                   *)

(* The token of a finalized auction stays claimable by a shielded winner:  *)
(* the winning commitment still belongs to the auction                     *)
(* (claimShieldedAssetWithAuthorization, authorizeAssetClaim).             *)
ShieldedWinnerCanClaim ==
  \A a \in Auctions :
    state[a] = "FINALIZED" /\ winningIdentityHash[a] # 0 /\ ~assetClaimed[a] =>
      LET c == identityToCommitment[RegistryOf(a)][a][winningIdentityHash[a]] IN
      Registered(VaultOf(a), c) /\ commitments[VaultOf(a)][c].auctionId = a

-----------------------------------------------------------------------------
(* Steps.                                                                  *)

(* From the end time on no bid and no escrow is added or replaced, in      *)
(* either lane (the end-time checks of the four bidding functions).        *)
BidsFrozenAtEnd ==
  [][\A a \in Auctions : Exists(a) /\ now >= listing[a].endTime =>
       /\ encryptedBids'[a] = encryptedBids[a]
       /\ shieldedEncryptedBids'[a] = shieldedEncryptedBids[a]
       /\ totalEscrow'[a] = totalEscrow[a]
       /\ \A v \in Vaults : auctionTotals'[v][a] <= auctionTotals[v][a]]_vars

(* No value leaves a live auction: what the market owes for it and what    *)
(* the vault holds for it only grow until an outcome is recorded.          *)
LiveAuctionsKeepValue ==
  [][\A a \in Auctions : state[a] \in Live /\ state'[a] \in Live =>
       /\ Owed(a)' >= Owed(a)
       /\ \A v \in Vaults : auctionTotals'[v][a] >= auctionTotals[v][a]]_vars

(* What a settled auction promises a public bidder, escrow and share of    *)
(* the slash, it promises until one claim takes both, whole: neither the   *)
(* owner's rotations nor anybody else's claims move it (previewRefund,     *)
(* claimRefund, the pot's claimFor).                                       *)
PromisesKept ==
  [][\A a \in Auctions, u \in Accounts : state[a] \in Terminal =>
       LET refund == PreviewEscrowRefund(a, u)
           share == PreviewCompensation(a, u)
       IN
       \/ UNCHANGED <<refund, share>>
       \/ /\ ~hasWithdrawn[a][u] /\ hasWithdrawn'[a][u] /\ refund' = 0 /\ share' = 0
          /\ marketBalance' = marketBalance - refund
          /\ potBalance' = [potBalance EXCEPT ![PotOf(a)] = @ - share]]_vars

-----------------------------------------------------------------------------
(* What the keepers build on.                                              *)

Ended == {a \in Auctions : Exists(a) /\ now >= listing[a].endTime}

Phases == INSTANCE AuctionPhases WITH AuctionIds <- Auctions, phase <- state, ended <- Ended

(* The market implements the course of an auction that the keeper relies   *)
(* on: a withdrawal only before the end, resolution only after it, one     *)
(* outcome, and none after an outcome, whatever bids, claims, rotations    *)
(* and average intervals do (_transitionState and the guards around it).   *)
PhasesImplemented == Phases!PhasesSpec

(* The deposit under a commitment that belongs to the auction.             *)
SealedDue(a, c) ==
  LET v == VaultOf(a) IN
  IF v # 0 /\ commitments[v][c].auctionId = a THEN commitments[v][c].amount ELSE 0

SaleStage(a) ==
  IF state[a] = "CREATED" THEN "unlisted" ELSE IF state[a] \in Live THEN "open" ELSE "settled"

(* What the market, and the vault for it, still owe for each auction.      *)
Stages == [a \in Auctions |-> SaleStage(a)]
Refunds == [a \in Auctions |-> [u \in Accounts |-> RefundDue(a, u)]]
Proceeds == [a \in Auctions |-> SellerDue(a)]
Rewards == [a \in Auctions |-> RewardDue(a)]
SealedDues == [a \in Auctions |-> [c \in Commitments |-> SealedDue(a, c)]]

Sales == INSTANCE EscrowedSale WITH
  SaleIds <- Auctions, SaleBidders <- Accounts, Envelopes <- Commitments,
  cash <- marketBalance, stage <- Stages, refund <- Refunds, proceeds <- Proceeds,
  reward <- Rewards, sealed <- SealedDues

(* The market implements sales in escrow: what it owes only grows while an *)
(* auction is live, one outcome shifts it within the limits of escrow and  *)
(* deposit, slashing a seller only if some bidder had value in the         *)
(* auction, and afterwards every party is paid once, whole, and at the     *)
(* expense of no other, whatever is rotated, replaced, sent or claimed     *)
(* (the payments of claimRefund, claimSellerProceeds, claimFinalizeReward, *)
(* claimRefundWithAuthorization and the outcomes' bookkeeping).            *)
SalesImplemented == Sales!SalesSpec

-----------------------------------------------------------------------------
(* Progress.                                                               *)

(* Blocks keep coming; the monitor of some keeper keeps trying to finalize *)
(* an auction that has ended, somebody voids one whose resolution is       *)
(* overdue, and a bidder with a refund due claims it.  Nothing is assumed  *)
(* of the operators who resolve auctions.                                  *)
Fairness ==
  /\ WF_vars(NewBlock)
  /\ \A a \in Auctions :
       /\ WF_vars(\E u \in Executors : triggerFinalize(u, a))
       /\ WF_vars(triggerFallbackVoid(a))
       /\ \A u \in Accounts : WF_vars(claimRefund(u, a))

FairSpec == Spec /\ Fairness

(* No auction stays open for ever: one that has ended starts to be         *)
(* resolved, and one that is being resolved is finalized or voided within  *)
(* MAX_DYNAMIC_TIMEOUT, operators or not (triggerFinalize,                 *)
(* triggerFallbackVoid).  Both where BlockTimes reaches that far.          *)
AuctionsSettle ==
  \A a \in Auctions :
    /\ state[a] = "ACTIVE" /\ (\E t \in BlockTimes : t >= listing[a].endTime)
         ~> state[a] # "ACTIVE"
    /\ state[a] = "RESOLVING"
         /\ (\E t \in BlockTimes : t >= resolvingSince[a] + MAX_DYNAMIC_TIMEOUT)
         ~> state[a] \in Terminal

(* Every refund that is due is paid, in whatever order the other parties   *)
(* claim theirs (claimRefund).                                             *)
RefundsPaid ==
  \A a \in Auctions, u \in Accounts :
    state[a] \in Terminal /\ PreviewEscrowRefund(a, u) # 0 ~> escrowBalances[a][u] = 0
=============================================================================
