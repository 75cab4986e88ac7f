--------------------------- MODULE AuctionProofs ----------------------------
(***************************************************************************)
(* The course of an auction, for every number of auctions and every order  *)
(* of transactions.  The market implements AuctionPhases, keeps every      *)
(* token it has not handed out, admits no bid after the end, and records   *)
(* outcomes that escrow covers.  A step that writes neither the state nor  *)
(* a listing nor the time is a stutter of the abstract specification, the  *)
(* others map to one abstract action each.                                 *)
(*                                                                         *)
(* A bid can be settled because its escrow stays where it was checked, and *)
(* its commitment keeps the identity it was bound to, until the outcome.   *)
(* The same makes the outcome that a keeper works out from the chain       *)
(* admissible.  Each bidder is counted once because an empty slot tells    *)
(* who has not bid yet.                                                    *)
(*                                                                         *)
(* An auction without an answer can be voided: solvency and custody imply, *)
(* call by call, the checks on the recovery path.                          *)
(*                                                                         *)
(* The market also implements EscrowedSale.  A step writes the dues of at  *)
(* most one auction; the solvency invariants give the amounts, that the    *)
(* deposit covers reward and slash, that a slashed seller let down a       *)
(* bidder whose value is still there, and that a commitment belongs to one *)
(* auction.                                                                *)
(*                                                                         *)
(* What is settled stays: no step writes what the refunds of a settled     *)
(* auction are computed from, but the claim of the bidder who is paid.     *)
(***************************************************************************)
EXTENDS SolvencyProofs, BidResolution, FiniteSetTheorems

(* No auction that exists is in its initial state: createAuction leaves it *)
(* ACTIVE, and _transitionState never goes back.                           *)
Begun == \A a \in Auctions : Exists(a) => state[a] # "CREATED"

PhasesInv == TypeOK /\ ListingTimes /\ Begun

-----------------------------------------------------------------------------
(* Steps within one block.                                                 *)

LEMMA EndedStable ==
  ASSUME UNCHANGED creationVars, UNCHANGED now
  PROVE  UNCHANGED Ended
BY DEF creationVars, Ended, Exists

LEMMA ObservationKeepsTime == ASSUME ObserveNetwork PROVE UNCHANGED now
BY DEF ObserveNetwork

LEMMA Stutter ==
  ASSUME UNCHANGED creationVars, UNCHANGED phaseVars, UNCHANGED now
  PROVE  UNCHANGED Phases!phaseView
BY EndedStable DEF phaseVars, Phases!phaseView

(* A transition is a move of the abstract auction.                         *)
LEMMA TransitionIsMove ==
  ASSUME NEW a \in Auctions, NEW to, UNCHANGED creationVars, UNCHANGED now,
         TransitionState(a, to)
  PROVE  Phases!Move(a, state[a], to)
BY EndedStable DEF TransitionState, Phases!Move

LEMMA BidStutters ==
  ASSUME NEW a \in Auctions, Bid(a)
  PROVE  UNCHANGED Phases!phaseView
<1>1. UNCHANGED creationVars /\ UNCHANGED phaseVars /\ ObserveNetwork
  BY DEF Bid, lockEscrow, placeBid, lockShieldedEscrow, placeShieldedBid
<1> QED
  BY <1>1, ObservationKeepsTime, Stutter

LEMMA ClaimStutters ==
  ASSUME NEW a \in Auctions, Claim(a)
  PROVE  UNCHANGED Phases!phaseView
<1>1. UNCHANGED creationVars /\ UNCHANGED phaseVars /\ UNCHANGED clockVars
  BY DEF Claim, claimRefund, claimSellerProceeds, claimFinalizeReward, claimAsset,
         claimShieldedAsset
<1> QED
  BY <1>1, Stutter DEF clockVars

LEMMA ConfigureStutters ==
  ASSUME Configure
  PROVE  UNCHANGED Phases!phaseView
<1>1. UNCHANGED creationVars /\ UNCHANGED phaseVars /\ UNCHANGED clockVars
  BY DEF Configure, setSettlementEngine, setSlashedPot, setShieldedEscrowVault,
         setShieldedIdentityRegistry, SetDependencies, WireContracts
<1> QED
  BY <1>1, Stutter DEF clockVars

-----------------------------------------------------------------------------
(* Steps that move an auction.                                             *)

LEMMA createAuctionIsCreate ==
  ASSUME PhasesInv, NEW u \in Sellers, NEW t \in Tokens, NEW d \in Durations,
         NEW p \in StartingPrices, NEW e \in Deposits, createAuction(u, t, d, p, e)
  PROVE  \E a \in Auctions : Phases!Create(a)
<1> PICK a \in Auctions : a = auctionCounter + 1
  BY DomainAssumption DEF createAuction, PhasesInv, TypeOK, CreationTypeOK, Auctions
<1>1. now' = now /\ now \in Nat /\ d \in Nat /\ d >= 60
  <2>1. ObserveNetwork /\ d \in MIN_AUCTION_DURATION..MAX_AUCTION_DURATION
    BY DEF createAuction
  <2>2. MIN_AUCTION_DURATION \in Nat /\ MAX_AUCTION_DURATION \in Nat
        /\ MIN_AUCTION_DURATION >= 60
    BY DEF MIN_AUCTION_DURATION, MAX_AUCTION_DURATION
  <2>3. d \in Nat /\ d >= 60
    BY <2>1, <2>2
  <2>4. now \in Nat
    BY DEF PhasesInv, TypeOK, ClockTypeOK
  <2> QED
    BY <2>1, <2>3, <2>4, ObservationKeepsTime
<1>2. auctionCounter \in Nat /\ auctionCounter' = a /\ listing \in [Auctions -> Listing]
  BY DomainAssumption DEF createAuction, PhasesInv, TypeOK, CreationTypeOK
<1>3. listing'[a].endTime = now + d /\ \A b \in Auctions \ {a} : listing'[b] = listing[b]
  BY <1>2 DEF createAuction
<1>4. a \notin Ended /\ a \notin Ended'
  BY <1>1, <1>2, <1>3 DEF Ended, Exists
<1>5. Ended' = Ended
  <2>1. \A b \in Auctions \ {a} : b <= auctionCounter' <=> b <= auctionCounter
    BY <1>2 DEF Auctions
  <2> QED
    BY <1>1, <1>3, <1>4, <2>1 DEF Ended, Exists
<1>6. state[a] = "CREATED" /\ state' = [state EXCEPT ![a] = "ACTIVE"]
  BY DEF createAuction, TransitionState, ValidTransition
<1> QED
  BY <1>4, <1>5, <1>6 DEF Phases!Create, Phases!Move

LEMMA ResolveIsMove ==
  ASSUME PhasesInv, NEW a \in Auctions, Resolve(a)
  PROVE  \/ Phases!Finalize(a) \/ Phases!Settle(a)
         \/ Phases!Cancel(a) \/ Phases!VoidAuction(a)
<1>1. UNCHANGED creationVars /\ ObserveNetwork
  BY DEF Resolve, triggerFinalize, submitResolution, submitShieldedResolution, cancelAuction,
         triggerFallbackVoid
<1>2. UNCHANGED now
  BY <1>1, ObservationKeepsTime
<1>3. ASSUME NEW u \in Executors, triggerFinalize(u, a)
      PROVE  Phases!Finalize(a)
  <2>1. state[a] = "ACTIVE" /\ a \in Ended
    BY <1>3 DEF triggerFinalize, TransitionState, ValidTransition, Ended
  <2> QED
    BY <1>1, <1>2, <1>3, <2>1, TransitionIsMove DEF triggerFinalize, Phases!Finalize
<1>4. ASSUME state[a] = "RESOLVING", TransitionState(a, "FINALIZED")
      PROVE  Phases!Settle(a)
  BY <1>1, <1>2, <1>4, TransitionIsMove DEF Phases!Settle
<1>5. ASSUME NEW u \in Sellers, cancelAuction(u, a)
      PROVE  Phases!Cancel(a)
  <2>1. listing[a].endTime \in Nat /\ now \in Nat
    BY SnapshotType DEF PhasesInv, TypeOK, ClockTypeOK
  <2>2. state[a] = "ACTIVE" /\ a \notin Ended
    BY <1>5, <2>1 DEF cancelAuction, OpenForBids, Ended
  <2> QED
    BY <1>1, <1>2, <1>5, <2>2, TransitionIsMove DEF cancelAuction, Phases!Cancel
<1>6. ASSUME triggerFallbackVoid(a)
      PROVE  Phases!VoidAuction(a)
  BY <1>1, <1>2, <1>6, TransitionIsMove DEF triggerFallbackVoid, Phases!VoidAuction
<1> QED
  BY <1>3, <1>4, <1>5, <1>6 DEF Resolve, submitResolution, submitShieldedResolution

LEMMA NewBlockIsTimePasses ==
  ASSUME PhasesInv, NewBlock
  PROVE  Phases!TimePasses
<1>1. now' >= now /\ now \in Nat /\ now' \in Nat
  BY ClockAssumption DEF NewBlock, Tick, PhasesInv, TypeOK, ClockTypeOK
<1>2. \A a \in Auctions : listing[a].endTime \in Nat
  BY SnapshotType DEF PhasesInv
<1>3. UNCHANGED creationVars /\ UNCHANGED state
  BY DEF NewBlock, phaseVars
<1>4. Ended \subseteq Ended'
  BY <1>1, <1>2, <1>3 DEF Ended, Exists, creationVars
<1>5. Ended' \subseteq {a \in Auctions : state[a] # "CREATED"}
  BY <1>3 DEF Ended, Exists, creationVars, PhasesInv, Begun
<1>6. Ended' = Ended \cup Ended'
  BY <1>4
<1> QED
  BY <1>3, <1>5, <1>6 DEF Phases!TimePasses

-----------------------------------------------------------------------------
(* The refinement.                                                         *)

LEMMA StepIsPhaseStep ==
  ASSUME PhasesInv, [Next]_vars
  PROVE  [Phases!PhasesNext]_(Phases!phaseView)
<1>1. CASE NewBlock
  BY <1>1, NewBlockIsTimePasses DEF Phases!PhasesNext
<1>2. CASE Configure
  BY <1>2, ConfigureStutters
<1>3. ASSUME NEW u \in Sellers, NEW t \in Tokens, NEW d \in Durations, NEW p \in StartingPrices,
             NEW e \in Deposits, createAuction(u, t, d, p, e)
      PROVE  [Phases!PhasesNext]_(Phases!phaseView)
  BY <1>3, createAuctionIsCreate DEF Phases!PhasesNext
<1>4. ASSUME NEW a \in Auctions, Bid(a) \/ Resolve(a) \/ Claim(a)
      PROVE  [Phases!PhasesNext]_(Phases!phaseView)
  BY <1>4, BidStutters, ResolveIsMove, ClaimStutters DEF Phases!PhasesNext
<1>5. ASSUME UNCHANGED creationVars, UNCHANGED phaseVars, UNCHANGED clockVars
      PROVE  [Phases!PhasesNext]_(Phases!phaseView)
  BY <1>5, Stutter DEF clockVars
<1> QED
  BY <1>1, <1>2, <1>3, <1>4, <1>5 DEF Next, claimShieldedRefund, receive, TransferToken, vars

LEMMA BegunStep ==
  ASSUME PhasesInv, [Next]_vars
  PROVE  Begun'
<1>1. CASE UNCHANGED creationVars
  <2>1. \A a \in Auctions : state[a] # "CREATED" => state'[a] # "CREATED"
    BY StepIsPhaseStep
       DEF Phases!PhasesNext, Phases!phaseView, Phases!Create, Phases!Cancel, Phases!Finalize,
           Phases!Settle, Phases!VoidAuction, Phases!TimePasses, Phases!Move,
           PhasesInv, TypeOK, PhaseTypeOK
  <2> QED
    BY <1>1, <2>1 DEF PhasesInv, Begun, Exists, creationVars
<1>2. ASSUME NEW u \in Sellers, NEW t \in Tokens, NEW d \in Durations, NEW p \in StartingPrices,
             NEW e \in Deposits, createAuction(u, t, d, p, e)
      PROVE  Begun'
  <2>1. auctionCounter \in Nat /\ auctionCounter' = auctionCounter + 1
    BY <1>2, DomainAssumption DEF createAuction, PhasesInv, TypeOK, CreationTypeOK
  <2>2. state' = [state EXCEPT ![auctionCounter + 1] = "ACTIVE"]
    BY <1>2 DEF createAuction, TransitionState
  <2>3. \A a \in Auctions : a <= auctionCounter + 1 => a <= auctionCounter \/ a = auctionCounter + 1
    BY <2>1 DEF Auctions
  <2> QED
    BY <2>1, <2>2, <2>3 DEF PhasesInv, Begun, Exists, TypeOK, PhaseTypeOK
<1> QED
  BY <1>1, <1>2, ListingStep DEF PhasesInv

LEMMA InitIsPhasesInit == Init => PhasesInv /\ Phases!PhasesInit
<1> SUFFICES ASSUME Init PROVE PhasesInv /\ Phases!PhasesInit
  OBVIOUS
<1>1. TypeOK /\ ListingTimes
  BY InitType
<1>2. \A a \in Auctions : ~Exists(a)
  BY DEF Init, Exists, Auctions
<1> QED
  BY <1>1, <1>2 DEF Init, PhasesInv, Begun, Ended, Phases!PhasesInit

(* The market implements the abstract course of an auction: it is          *)
(* withdrawn only before its end, resolved only after it, and gets one     *)
(* outcome that nothing changes (_transitionState, cancelAuction,          *)
(* triggerFinalize, the resolutions and triggerFallbackVoid).              *)
THEOREM MarketImplementsPhases == Spec => PhasesImplemented
<1>1. Init => PhasesInv /\ Phases!PhasesInit
  BY InitIsPhasesInit
<1>2. PhasesInv /\ [Next]_vars => PhasesInv'
  BY NextType, ListingTimesStep, BegunStep DEF PhasesInv
<1>3. PhasesInv /\ [Next]_vars => [Phases!PhasesNext]_(Phases!phaseView)
  BY StepIsPhaseStep
<1> QED
  BY <1>1, <1>2, <1>3, PTL DEF Spec, PhasesImplemented, Phases!PhasesSpec

-----------------------------------------------------------------------------
(* Custody.                                                                *)

(* Only tokens that exist are listed.                                      *)
RealTokens == \A a \in Auctions : InCustody(a) => listing[a].tokenId \in Tokens

CustodyInv == TypeOK /\ ListingTimes /\ Custody /\ RealTokens

(* The auction keeps its listing, holds a token after the step only if it  *)
(* held one before, and that token stays where it is.                      *)
StillHeld(a) ==
  /\ listing'[a] = listing[a]
  /\ InCustody(a)' => InCustody(a) /\ nftOwner'[listing[a].tokenId] = nftOwner[listing[a].tokenId]

LEMMA CustodyKept ==
  ASSUME CustodyInv, \A a \in Auctions : StillHeld(a)
  PROVE  Custody' /\ RealTokens'
<1>1. ASSUME NEW a \in Auctions, InCustody(a)'
      PROVE  /\ InCustody(a) /\ listing'[a] = listing[a]
             /\ nftOwner'[listing[a].tokenId] = nftOwner[listing[a].tokenId]
  BY <1>1 DEF StillHeld
<1>2. ASSUME NEW a \in Auctions, InCustody(a)
      PROVE  /\ nftOwner[listing[a].tokenId] = Market
             /\ listing[a].tokenId \in Tokens
             /\ \A b \in Auctions \ {a} : InCustody(b) => listing[b].tokenId # listing[a].tokenId
  BY <1>2 DEF CustodyInv, Custody, RealTokens
<1>3. Custody'
  <2> SUFFICES ASSUME NEW a \in Auctions, InCustody(a)'
               PROVE  /\ nftOwner'[listing'[a].tokenId] = Market
                      /\ \A b \in Auctions \ {a} :
                           InCustody(b)' => listing'[b].tokenId # listing'[a].tokenId
    BY Zenon DEF Custody, Market
  <2> QED
    BY <1>1, <1>2
<1>4. RealTokens'
  <2> SUFFICES ASSUME NEW a \in Auctions, InCustody(a)'
               PROVE  listing'[a].tokenId \in Tokens
    BY Zenon DEF RealTokens, Tokens
  <2> QED
    BY <1>1, <1>2
<1> QED
  BY <1>3, <1>4

(* Nothing is released in such a step, and a transition, if any, goes on   *)
(* from one state of custody to the next.                                  *)
LEMMA NothingReleased ==
  ASSUME UNCHANGED listing, UNCHANGED nftOwner, NEW a \in Auctions,
         InCustody(a)' => InCustody(a)
  PROVE  StillHeld(a)
BY DEF StillHeld

LEMMA SameCustody ==
  ASSUME UNCHANGED state, UNCHANGED assetClaimed, NEW a \in Auctions
  PROVE  InCustody(a)' <=> InCustody(a)
BY DEF InCustody

(* Who takes the token of an auction out of the market takes no other one. *)
LEMMA ReleasedOnce ==
  ASSUME CustodyInv, UNCHANGED listing, NEW a \in Auctions, InCustody(a), ~InCustody(a)',
         \A b \in Auctions \ {a} : InCustody(b)' => InCustody(b),
         NEW u, ReleaseFromEscrow(listing[a].tokenId, u)
  PROVE  \A b \in Auctions : StillHeld(b)
<1> SUFFICES ASSUME NEW b \in Auctions, InCustody(b)'
             PROVE  /\ InCustody(b)
                    /\ nftOwner'[listing[b].tokenId] = nftOwner[listing[b].tokenId]
  BY DEF StillHeld
<1>1. b # a /\ InCustody(b)
  OBVIOUS
<1>2. listing[b].tokenId \in Tokens /\ listing[b].tokenId # listing[a].tokenId
  BY <1>1 DEF CustodyInv, Custody, RealTokens
<1>3. nftOwner \in [Tokens -> 0..NumAccounts]
      /\ nftOwner' = [nftOwner EXCEPT ![listing[a].tokenId] = u]
  BY DEF CustodyInv, TypeOK, ReleaseFromEscrow
<1> QED
  BY <1>1, <1>2, <1>3

LEMMA createAuctionKeepsCustody ==
  ASSUME CustodyInv, NEW u \in Sellers, NEW t \in Tokens, NEW d \in Durations,
         NEW p \in StartingPrices, NEW e \in Deposits, createAuction(u, t, d, p, e)
  PROVE  Custody' /\ RealTokens'
<1> PICK a \in Auctions : a = auctionCounter + 1
  BY DomainAssumption DEF createAuction, CustodyInv, TypeOK, CreationTypeOK, Auctions
<1>1. /\ state[a] = "CREATED" /\ state' = [state EXCEPT ![a] = "ACTIVE"]
      /\ UNCHANGED assetClaimed
      /\ nftOwner[t] = u /\ nftOwner' = [nftOwner EXCEPT ![t] = Market]
  BY DEF createAuction, TransitionState, ValidTransition, LockIntoEscrow, claimFlags
<1>2. listing'[a].tokenId = t /\ \A b \in Auctions \ {a} : listing'[b] = listing[b]
  BY DEF createAuction, CustodyInv, TypeOK, CreationTypeOK
<1>3. u # Market /\ nftOwner \in [Tokens -> 0..NumAccounts]
  BY MarketAssumption DEF Accounts, Market, CustodyInv, TypeOK
<1>4. \A b \in Auctions \ {a} : InCustody(b)' <=> InCustody(b)
  BY <1>1 DEF InCustody, CustodyInv, TypeOK, PhaseTypeOK
<1>5. ASSUME NEW b \in Auctions \ {a}, InCustody(b)
      PROVE  /\ listing[b].tokenId \in Tokens /\ listing[b].tokenId # t
             /\ nftOwner'[listing[b].tokenId] = Market
  <2>1. nftOwner[listing[b].tokenId] = Market /\ listing[b].tokenId \in Tokens
    BY <1>5 DEF CustodyInv, Custody, RealTokens
  <2> QED
    BY <2>1, <1>1, <1>3
<1>6. nftOwner'[t] = Market
  BY <1>1, <1>3
<1>7. \A b, o \in Auctions \ {a} :
        InCustody(b) /\ InCustody(o) /\ o # b => listing[o].tokenId # listing[b].tokenId
  BY DEF CustodyInv, Custody
<1>8. Custody'
  <2> SUFFICES ASSUME NEW b \in Auctions, InCustody(b)'
               PROVE  /\ nftOwner'[listing'[b].tokenId] = Market
                      /\ \A o \in Auctions \ {b} :
                           InCustody(o)' => listing'[o].tokenId # listing'[b].tokenId
    BY Zenon DEF Custody, Market
  <2>1. CASE b = a
    BY <2>1, <1>2, <1>4, <1>5, <1>6
  <2>2. CASE b # a
    BY <2>2, <1>2, <1>4, <1>5, <1>7
  <2> QED
    BY <2>1, <2>2
<1>9. RealTokens'
  <2> SUFFICES ASSUME NEW b \in Auctions, InCustody(b)'
               PROVE  listing'[b].tokenId \in Tokens
    BY Zenon DEF RealTokens, Tokens
  <2> QED
    BY <1>2, <1>4, <1>5
<1> QED
  BY <1>8, <1>9

LEMMA ResolveHolds ==
  ASSUME CustodyInv, NEW a \in Auctions, Resolve(a)
  PROVE  \A b \in Auctions : StillHeld(b)
<1>0. UNCHANGED listing /\ UNCHANGED assetClaimed /\ state \in [Auctions -> AuctionState]
  BY DEF Resolve, triggerFinalize, submitResolution, submitShieldedResolution, cancelAuction,
         triggerFallbackVoid, creationVars, claimFlags, CustodyInv, TypeOK, PhaseTypeOK
<1>1. ASSUME NEW to \in {"RESOLVING", "FINALIZED"}, TransitionState(a, to), UNCHANGED nftOwner
      PROVE  \A b \in Auctions : StillHeld(b)
  <2> SUFFICES ASSUME NEW b \in Auctions, InCustody(b)' PROVE InCustody(b)
    BY <1>0, <1>1, NothingReleased
  <2>1. CASE b = a
    BY <2>1, <1>1 DEF TransitionState, ValidTransition, InCustody, Live
  <2>2. CASE b # a
    BY <2>2, <1>0, <1>1 DEF TransitionState, InCustody
  <2> QED
    BY <2>1, <2>2
<1>2. ASSUME NEW to \in {"CANCELLED", "VOIDED"}, TransitionState(a, to), NEW u,
             ReleaseFromEscrow(listing[a].tokenId, u)
      PROVE  \A b \in Auctions : StillHeld(b)
  <2>1. InCustody(a) /\ ~InCustody(a)'
    BY <1>0, <1>2 DEF TransitionState, ValidTransition, InCustody, Live
  <2>2. \A b \in Auctions \ {a} : InCustody(b)' => InCustody(b)
    BY <1>0, <1>2 DEF TransitionState, InCustody
  <2> QED
    BY <1>0, <1>2, <2>1, <2>2, ReleasedOnce
<1>3. CASE \E u \in Executors : triggerFinalize(u, a)
  BY <1>3, <1>1 DEF triggerFinalize
<1>4. CASE \E w \in 0..NumAccounts, ct \in BidCiphertexts, amount \in WinningAmounts :
             submitResolution(a, w, ct, amount)
  BY <1>4, <1>1 DEF submitResolution
<1>5. CASE \E i \in Identities, c \in Commitments, ct \in BidCiphertexts,
             amount \in WinningAmounts : submitShieldedResolution(a, i, c, ct, amount)
  BY <1>5, <1>1 DEF submitShieldedResolution
<1>6. CASE \E u \in Sellers : cancelAuction(u, a)
  BY <1>6, <1>2 DEF cancelAuction
<1>7. CASE triggerFallbackVoid(a)
  BY <1>7, <1>2 DEF triggerFallbackVoid
<1> QED
  BY <1>3, <1>4, <1>5, <1>6, <1>7 DEF Resolve

LEMMA ClaimHolds ==
  ASSUME CustodyInv, NEW a \in Auctions, Claim(a)
  PROVE  \A b \in Auctions : StillHeld(b)
<1>0. UNCHANGED listing /\ UNCHANGED state
  BY DEF Claim, claimRefund, claimSellerProceeds, claimFinalizeReward, claimAsset,
         claimShieldedAsset, creationVars, phaseVars
<1>1. ASSUME state[a] = "FINALIZED", ~assetClaimed[a],
             assetClaimed' = [assetClaimed EXCEPT ![a] = TRUE], NEW u,
             ReleaseFromEscrow(listing[a].tokenId, u)
      PROVE  \A b \in Auctions : StillHeld(b)
  <2>1. InCustody(a) /\ ~InCustody(a)'
    BY <1>0, <1>1 DEF InCustody, Live, CustodyInv, TypeOK, ClaimTypeOK
  <2>2. \A b \in Auctions \ {a} : InCustody(b)' => InCustody(b)
    BY <1>0, <1>1 DEF InCustody, CustodyInv, TypeOK, ClaimTypeOK
  <2> QED
    BY <1>0, <1>1, <2>1, <2>2, ReleasedOnce
<1>2. CASE UNCHANGED assetClaimed /\ UNCHANGED nftOwner
  BY <1>0, <1>2, SameCustody, NothingReleased
<1>3. CASE \E u \in Accounts :
             claimRefund(u, a) \/ claimSellerProceeds(u, a) \/ claimFinalizeReward(u, a)
  BY <1>3, <1>2 DEF claimRefund, claimSellerProceeds, claimFinalizeReward, claimFlags
<1>4. CASE \E u \in Accounts : claimAsset(u, a)
  BY <1>4, <1>1 DEF claimAsset
<1>5. CASE \E u \in Recipients, d \in Deadlines, s \in Authorities :
             claimShieldedAsset(a, u, d, s)
  BY <1>5, <1>1 DEF claimShieldedAsset
<1> QED
  BY <1>3, <1>4, <1>5 DEF Claim

LEMMA CustodyStep ==
  ASSUME CustodyInv, [Next]_vars
  PROVE  Custody' /\ RealTokens'
<1>1. ASSUME UNCHANGED listing, UNCHANGED nftOwner, UNCHANGED state, UNCHANGED assetClaimed
      PROVE  Custody' /\ RealTokens'
  BY <1>1, SameCustody, NothingReleased, CustodyKept
<1>2. CASE NewBlock
  BY <1>2, <1>1 DEF NewBlock, creationVars, phaseVars, claimFlags
<1>3. CASE Configure
  BY <1>3, <1>1
     DEF Configure, setSettlementEngine, setSlashedPot, setShieldedEscrowVault,
         setShieldedIdentityRegistry, SetDependencies, WireContracts, creationVars, phaseVars,
         claimFlags
<1>4. ASSUME NEW a \in Auctions, Bid(a) PROVE Custody' /\ RealTokens'
  BY <1>4, <1>1 DEF Bid, lockEscrow, placeBid, lockShieldedEscrow, placeShieldedBid,
         creationVars, phaseVars, claimFlags
<1>5. ASSUME NEW a \in Auctions, Resolve(a) \/ Claim(a) PROVE Custody' /\ RealTokens'
  BY <1>5, ResolveHolds, ClaimHolds, CustodyKept
<1>6. ASSUME NEW t \in Tokens, NEW u \in TokenRecipients, TransferToken(t, u)
      PROVE  Custody' /\ RealTokens'
  <2>1. UNCHANGED listing /\ UNCHANGED state /\ UNCHANGED assetClaimed
    BY <1>6 DEF TransferToken, creationVars, phaseVars, claimFlags
  <2>2. nftOwner[t] # Market /\ nftOwner' = [nftOwner EXCEPT ![t] = u]
        /\ nftOwner \in [Tokens -> 0..NumAccounts]
    BY <1>6 DEF TransferToken, CustodyInv, TypeOK
  <2>3. \A a \in Auctions : StillHeld(a)
    BY <2>1, <2>2, SameCustody DEF StillHeld, CustodyInv, Custody
  <2> QED
    BY <2>3, CustodyKept
<1>7. ASSUME NEW v \in Vaults, NEW c \in Commitments, NEW u \in Recipients,
             NEW d \in Deadlines, NEW s \in Authorities, claimShieldedRefund(v, c, u, d, s)
      PROVE  Custody' /\ RealTokens'
  BY <1>7, <1>1 DEF claimShieldedRefund, creationVars, phaseVars
<1>8. ASSUME NEW value \in Donations, receive(value) PROVE Custody' /\ RealTokens'
  BY <1>8, <1>1 DEF receive, creationVars, phaseVars, claimFlags
<1>9. CASE UNCHANGED vars
  BY <1>9, <1>1 DEF vars, creationVars, phaseVars, claimFlags
<1> QED
  BY <1>2, <1>3, <1>4, <1>5, <1>6, <1>7, <1>8, <1>9, createAuctionKeepsCustody DEF Next

LEMMA InitCustody == Init => CustodyInv
<1> SUFFICES ASSUME Init PROVE CustodyInv
  OBVIOUS
<1>1. \A a \in Auctions : ~InCustody(a)
  BY DEF Init, InCustody, Live
<1> QED
  BY <1>1, InitType DEF CustodyInv, Custody, RealTokens

LEMMA NextCustody == CustodyInv /\ [Next]_vars => CustodyInv'
BY NextType, ListingTimesStep, CustodyStep DEF CustodyInv

(* An auction that has not handed out its token holds it, and no two such  *)
(* auctions share one, for every number of auctions, tokens and accounts:  *)
(* cancelAuction, triggerFallbackVoid and the two asset claims release a   *)
(* token once, and createAuction takes none that the market holds already. *)
THEOREM TokensInCustody == Spec => []Custody
<1>1. CustodyInv => Custody
  BY DEF CustodyInv
<1> QED
  BY <1>1, InitCustody, NextCustody, PTL DEF Spec

-----------------------------------------------------------------------------
(* Bids after the end.                                                     *)

(* What BidsFrozenAtEnd says of one auction.                               *)
Frozen(a) ==
  /\ encryptedBids'[a] = encryptedBids[a]
  /\ shieldedEncryptedBids'[a] = shieldedEncryptedBids[a]
  /\ totalEscrow'[a] = totalEscrow[a]
  /\ \A v \in Vaults : auctionTotals'[v][a] <= auctionTotals[v][a]

LEMMA TotalsNat ==
  ASSUME TypeOK, NEW v \in Vaults, NEW a \in Auctions
  PROVE  auctionTotals[v][a] \in Nat
BY DEF TypeOK, VaultTypeOK

LEMMA NoBidIsFrozen ==
  ASSUME TypeOK, UNCHANGED bidVars, UNCHANGED totalEscrow, UNCHANGED auctionTotals,
         NEW a \in Auctions
  PROVE  Frozen(a)
BY TotalsNat DEF bidVars, Frozen

(* A bid or a lock touches its own auction only, and that one is open.     *)
LEMMA BidElsewhere ==
  ASSUME TypeOK, NEW a \in Auctions, Bid(a), NEW b \in Auctions, now >= listing[b].endTime
  PROVE  Frozen(b)
<1>1. OpenForBids(a)
  BY DEF Bid, lockEscrow, placeBid, lockShieldedEscrow, placeShieldedBid
<1>2. b # a
  <2>1. now \in Nat /\ listing[a].endTime \in Nat
    BY SnapshotType DEF TypeOK, ClockTypeOK
  <2> QED
    BY <1>1, <2>1 DEF OpenForBids
<1>3. CASE \E u \in Bidders, value \in EscrowAmounts : lockEscrow(u, a, value)
  BY <1>2, <1>3, TotalsNat DEF lockEscrow, Frozen, bidVars, vaultVars, TypeOK, EscrowTypeOK
<1>4. CASE \E u \in Bidders, ct \in BidCiphertexts : placeBid(u, a, ct)
  BY <1>2, <1>4, TotalsNat DEF placeBid, Frozen, escrowVars, vaultVars, TypeOK, BidTypeOK
<1>5. ASSUME NEW i \in Identities, NEW c \in Commitments, NEW s \in Authorities,
             NEW value \in ShieldedAmounts, lockShieldedEscrow(a, i, c, s, value)
      PROVE  Frozen(b)
  <2>1. VaultOf(a) \in Vaults
    BY <1>5, SnapshotType DEF lockShieldedEscrow
  <2>2. auctionTotals' = [auctionTotals EXCEPT ![VaultOf(a)][a] = @ + value]
    BY <1>5 DEF lockShieldedEscrow, Vault_lockEscrow
  <2>3. \A v \in Vaults : auctionTotals'[v][b] = auctionTotals[v][b]
    BY <1>2, <2>1, <2>2 DEF TypeOK, VaultTypeOK
  <2> QED
    BY <1>5, <2>3, TotalsNat DEF lockShieldedEscrow, Frozen, bidVars, escrowVars
<1>6. CASE \E c \in Commitments, ct \in BidCiphertexts, d \in Deadlines :
             placeShieldedBid(a, c, ct, d)
  BY <1>2, <1>6, TotalsNat
     DEF placeShieldedBid, Frozen, escrowVars, vaultVars, TypeOK, BidTypeOK
<1> QED
  BY <1>3, <1>4, <1>5, <1>6 DEF Bid

(* The price and the refunds of shielded bidders leave the total.          *)
LEMMA ResolveFreezes ==
  ASSUME TypeOK, NEW a \in Auctions, Resolve(a), NEW b \in Auctions
  PROVE  Frozen(b)
<1>1. UNCHANGED bidVars /\ UNCHANGED totalEscrow
  BY DEF Resolve, triggerFinalize, submitResolution, submitShieldedResolution, cancelAuction,
         triggerFallbackVoid, escrowVars
<1>2. ASSUME NEW i \in Identities, NEW c \in Commitments, NEW ct \in BidCiphertexts,
             NEW amount \in WinningAmounts, submitShieldedResolution(a, i, c, ct, amount)
      PROVE  Frozen(b)
  <2>1. VaultOf(a) \in Vaults /\ amount \in Nat
    BY <1>2, SnapshotType, MarketAssumption
       DEF submitShieldedResolution, ShieldedResolutionAdmissible
  <2>2. /\ auctionTotals' = [auctionTotals EXCEPT ![VaultOf(a)][a] = @ - amount]
        /\ amount <= auctionTotals[VaultOf(a)][a]
    BY <1>2 DEF submitShieldedResolution, Vault_settleWinningCommitment
  <2>3. \A v \in Vaults : auctionTotals'[v][b] <= auctionTotals[v][b]
    BY <2>1, <2>2, TotalsNat DEF TypeOK, VaultTypeOK
  <2> QED
    BY <1>1, <2>3 DEF Frozen, bidVars
<1>3. CASE UNCHANGED auctionTotals
  BY <1>1, <1>3, NoBidIsFrozen
<1> QED
  BY <1>2, <1>3
     DEF Resolve, triggerFinalize, submitResolution, cancelAuction, triggerFallbackVoid,
         vaultVars, vaultRecords

LEMMA ShieldedRefundFreezes ==
  ASSUME TypeOK, NEW v \in Vaults, NEW c \in Commitments, NEW u \in Recipients,
         NEW d \in Deadlines, NEW s \in Authorities, claimShieldedRefund(v, c, u, d, s),
         NEW b \in Auctions
  PROVE  Frozen(b)
<1> DEFINE a == commitments[v][c].auctionId
           principal == commitments[v][c].amount
<1>1. principal \in Nat
  BY DEF TypeOK, VaultTypeOK, CommitmentDeposit
<1>2. /\ auctionTotals' = [auctionTotals EXCEPT ![v][a] = @ - principal]
      /\ UNCHANGED bidVars /\ UNCHANGED totalEscrow
  BY Zenon DEF claimShieldedRefund, Vault_claimRefundWithAuthorization, escrowVars
<1> HIDE DEF principal, a
<1>3. \A w \in Vaults : auctionTotals'[w][b] <= auctionTotals[w][b]
  BY <1>1, <1>2, TotalsNat DEF TypeOK, VaultTypeOK
<1> QED
  BY <1>2, <1>3 DEF Frozen, bidVars

LEMMA ClaimFreezes ==
  ASSUME TypeOK, NEW a \in Auctions, Claim(a), NEW b \in Auctions
  PROVE  Frozen(b)
<1>1. UNCHANGED bidVars /\ UNCHANGED totalEscrow /\ UNCHANGED auctionTotals
  BY DEF Claim, claimRefund, claimSellerProceeds, claimFinalizeReward, claimAsset,
         claimShieldedAsset, Vault_authorizeAssetClaim, ConsumeClaimAuthorization, escrowVars,
         vaultVars
<1> QED
  BY <1>1, NoBidIsFrozen

LEMMA FrozenAfterEnd ==
  ASSUME TypeOK, [Next]_vars, NEW b \in Auctions, now >= listing[b].endTime
  PROVE  Frozen(b)
<1>1. ASSUME UNCHANGED bidVars, UNCHANGED totalEscrow, UNCHANGED auctionTotals
      PROVE  Frozen(b)
  BY <1>1, NoBidIsFrozen
<1>2. CASE NewBlock
  BY <1>2, <1>1 DEF NewBlock, escrowVars, vaultVars
<1>3. CASE Configure
  BY <1>3, <1>1
     DEF Configure, setSettlementEngine, setSlashedPot, setShieldedEscrowVault,
         setShieldedIdentityRegistry, SetDependencies, WireContracts, Vault_setMarket,
         Vault_setShieldedBidVerifier, escrowVars, vaultVars
<1>4. ASSUME NEW u \in Sellers, NEW t \in Tokens, NEW d \in Durations, NEW p \in StartingPrices,
             NEW e \in Deposits, createAuction(u, t, d, p, e)
      PROVE  Frozen(b)
  BY <1>4, <1>1 DEF createAuction, escrowVars, vaultVars
<1>5. ASSUME NEW a \in Auctions, Bid(a) \/ Resolve(a) \/ Claim(a)
      PROVE  Frozen(b)
  BY <1>5, BidElsewhere, ResolveFreezes, ClaimFreezes
<1>6. ASSUME NEW value \in Donations, receive(value) PROVE Frozen(b)
  BY <1>6, <1>1 DEF receive, escrowVars, vaultVars
<1>7. ASSUME NEW t \in Tokens, NEW u \in TokenRecipients, TransferToken(t, u) PROVE Frozen(b)
  BY <1>7, <1>1 DEF TransferToken, escrowVars, vaultVars
<1>8. CASE UNCHANGED vars
  BY <1>8, <1>1 DEF vars, escrowVars, vaultVars
<1> QED
  BY <1>2, <1>3, <1>4, <1>5, <1>6, <1>7, <1>8, ShieldedRefundFreezes DEF Next

(* From the end time on no transaction of anybody adds or replaces a bid   *)
(* or escrow of an auction, in either lane: the four bidding functions     *)
(* check the end of their own auction and touch no other one, and only the *)
(* price and refunds leave the vault.                                      *)
THEOREM NoBidAfterEnd == Spec => BidsFrozenAtEnd
<1>1. TypeOK /\ [Next]_vars =>
        [\A a \in Auctions : Exists(a) /\ now >= listing[a].endTime =>
           /\ encryptedBids'[a] = encryptedBids[a]
           /\ shieldedEncryptedBids'[a] = shieldedEncryptedBids[a]
           /\ totalEscrow'[a] = totalEscrow[a]
           /\ \A v \in Vaults : auctionTotals'[v][a] <= auctionTotals[v][a]]_vars
  BY FrozenAfterEnd DEF Frozen
<1> QED
  BY <1>1, TypeCorrect, PTL DEF Spec, BidsFrozenAtEnd

-----------------------------------------------------------------------------
(* Outcomes.                                                               *)

(* What OutcomeCovered says of one auction.                                *)
Covered(a) ==
  /\ winner[a] = 0 \/ winningIdentityHash[a] = 0
  /\ winningAmount[a] = 0 <=> winner[a] = 0 /\ winningIdentityHash[a] = 0
  /\ winningAmount[a] # 0 => winningAmount[a] >= listing[a].startingPrice
  /\ winner[a] # 0 /\ ~hasWithdrawn[a][winner[a]]
       => escrowBalances[a][winner[a]] >= winningAmount[a]

(* A public outcome leaves the winning identity alone, which therefore     *)
(* must be empty before.                                                   *)
OutcomeSound(a) ==
  IF state[a] = "FINALIZED" THEN Covered(a) ELSE winningIdentityHash[a] = 0

OutcomeInv == TypeOK /\ ListingTimes /\ \A a \in Auctions : OutcomeSound(a)

(* The outcome stays, and the escrow of a winner who has not withdrawn.    *)
SameOutcome(b) ==
  /\ state'[b] = state[b] /\ winner'[b] = winner[b] /\ winningAmount'[b] = winningAmount[b]
  /\ winningIdentityHash'[b] = winningIdentityHash[b]
  /\ state[b] = "FINALIZED" =>
       /\ listing'[b] = listing[b]
       /\ \A u \in Accounts : ~hasWithdrawn'[b][u] =>
            ~hasWithdrawn[b][u] /\ escrowBalances'[b][u] = escrowBalances[b][u]

LEMMA OutcomeKept ==
  ASSUME TypeOK, NEW b \in Auctions, OutcomeSound(b), SameOutcome(b)
  PROVE  OutcomeSound(b)'
<1>1. winner[b] # 0 => winner[b] \in Accounts
  BY DomainAssumption DEF TypeOK, OutcomeTypeOK, Accounts
<1> QED
  BY <1>1 DEF OutcomeSound, Covered, SameOutcome

LEMMA NoOutcome ==
  ASSUME TypeOK, NEW b \in Auctions, UNCHANGED phaseVars, UNCHANGED outcomeVars,
         UNCHANGED creationVars, UNCHANGED escrowVars
  PROVE  SameOutcome(b)
BY DEF SameOutcome, phaseVars, outcomeVars, creationVars, escrowVars

LEMMA BidOutcome ==
  ASSUME OutcomeInv, NEW a \in Auctions, Bid(a), NEW b \in Auctions
  PROVE  SameOutcome(b)
<1>1. CASE \E u \in Bidders, value \in EscrowAmounts : lockEscrow(u, a, value)
  <2>1. /\ state[a] = "ACTIVE" /\ UNCHANGED hasWithdrawn
        /\ UNCHANGED phaseVars /\ UNCHANGED outcomeVars /\ UNCHANGED creationVars
    BY <1>1 DEF lockEscrow, OpenForBids
  <2>2. b # a => escrowBalances'[b] = escrowBalances[b]
    BY <1>1 DEF lockEscrow, OutcomeInv, TypeOK, EscrowTypeOK
  <2> QED
    BY <2>1, <2>2 DEF SameOutcome, phaseVars, outcomeVars, creationVars
<1>2. CASE UNCHANGED <<phaseVars, outcomeVars, creationVars, escrowVars>>
  BY <1>2, NoOutcome DEF OutcomeInv
<1> QED
  BY <1>1, <1>2, Zenon DEF Bid, placeBid, lockShieldedEscrow, placeShieldedBid

(* The outcome of a lot is recorded in the step that finalizes it.         *)
LEMMA TransitionOutcome ==
  ASSUME TypeOK, NEW a \in Auctions, NEW to \in AuctionState, TransitionState(a, to),
         UNCHANGED creationVars, UNCHANGED escrowVars, NEW b \in Auctions \ {a},
         winner'[b] = winner[b], winningAmount'[b] = winningAmount[b],
         winningIdentityHash'[b] = winningIdentityHash[b]
  PROVE  SameOutcome(b)
BY DEF TransitionState, SameOutcome, TypeOK, PhaseTypeOK, creationVars, escrowVars

LEMMA ResolveOutcome ==
  ASSUME OutcomeInv, NEW a \in Auctions, Resolve(a), NEW b \in Auctions
  PROVE  OutcomeSound(b)'
<1>0. /\ OutcomeSound(b) /\ TypeOK /\ state \in [Auctions -> AuctionState]
      /\ winner \in [Auctions -> 0..NumAccounts] /\ winningAmount \in [Auctions -> Nat]
      /\ winningIdentityHash \in [Auctions -> 0..NumIdentities]
  BY DEF OutcomeInv, TypeOK, OutcomeTypeOK, PhaseTypeOK
<1>1. UNCHANGED creationVars /\ UNCHANGED escrowVars
  BY DEF Resolve, triggerFinalize, submitResolution, submitShieldedResolution, cancelAuction,
         triggerFallbackVoid
<1>2. ASSUME NEW to \in AuctionState \ {"FINALIZED"}, TransitionState(a, to), UNCHANGED outcomeVars
      PROVE  OutcomeSound(b)'
  <2>1. CASE b = a
    <3>1. state[a] # "FINALIZED" /\ state'[a] = to
      BY <1>0, <1>2 DEF TransitionState, ValidTransition
    <3> QED
      BY <1>0, <1>2, <2>1, <3>1 DEF OutcomeSound, outcomeVars
  <2>2. CASE b # a
    BY <1>0, <1>1, <1>2, <2>2, TransitionOutcome, OutcomeKept DEF outcomeVars
  <2> QED
    BY <2>1, <2>2
<1>3. ASSUME NEW w \in 0..NumAccounts, NEW ct \in BidCiphertexts, NEW amount \in WinningAmounts,
             submitResolution(a, w, ct, amount)
      PROVE  OutcomeSound(b)'
  <2>1. /\ TransitionState(a, "FINALIZED") /\ ResolutionAdmissible(a, w, ct, amount)
        /\ winner' = [winner EXCEPT ![a] = w]
        /\ winningAmount' = [winningAmount EXCEPT ![a] = amount]
        /\ UNCHANGED winningIdentityHash
    BY <1>3 DEF submitResolution
  <2>2. CASE b = a
    <3>1. state[a] = "RESOLVING" /\ state'[a] = "FINALIZED"
      BY <1>0, <2>1 DEF TransitionState, ValidTransition
    <3>2. winningIdentityHash'[a] = 0 /\ winner'[a] = w /\ winningAmount'[a] = amount
      BY <1>0, <2>1, <2>2, <3>1 DEF OutcomeSound
    <3>3. /\ w = 0 => amount = 0
          /\ w # 0 => amount # 0 /\ amount >= listing[a].startingPrice
                      /\ amount <= escrowBalances[a][w]
      BY <2>1 DEF ResolutionAdmissible
    <3>4. w # 0 => w \in Accounts /\ escrowBalances[a][w] \in Nat
      BY <1>0, DomainAssumption DEF Accounts, TypeOK, EscrowTypeOK
    <3>5. amount \in Nat /\ UNCHANGED listing /\ UNCHANGED escrowBalances
      BY <1>1, MarketAssumption DEF creationVars, escrowVars
    <3> QED
      BY <2>2, <3>1, <3>2, <3>3, <3>4, <3>5 DEF OutcomeSound, Covered
  <2>3. CASE b # a
    <3>1. SameOutcome(b)
      BY <1>0, <1>1, <2>1, <2>3, TransitionOutcome DEF AuctionState
    <3> QED
      BY <1>0, <3>1, OutcomeKept
  <2> QED
    BY <2>2, <2>3
<1>4. ASSUME NEW i \in Identities, NEW c \in Commitments, NEW ct \in BidCiphertexts,
             NEW amount \in WinningAmounts, submitShieldedResolution(a, i, c, ct, amount)
      PROVE  OutcomeSound(b)'
  <2>1. /\ TransitionState(a, "FINALIZED") /\ amount # 0 /\ amount >= listing[a].startingPrice
        /\ winner' = [winner EXCEPT ![a] = 0]
        /\ winningAmount' = [winningAmount EXCEPT ![a] = amount]
        /\ winningIdentityHash' = [winningIdentityHash EXCEPT ![a] = i]
    BY <1>4 DEF submitShieldedResolution, ShieldedResolutionAdmissible
  <2>2. CASE b = a
    <3>1. state'[a] = "FINALIZED" /\ i # 0
      BY <1>0, <2>1 DEF TransitionState, Identities
    <3>2. winningIdentityHash'[a] = i /\ winner'[a] = 0 /\ winningAmount'[a] = amount
      BY <1>0, <2>1
    <3>3. UNCHANGED listing
      BY <1>1 DEF creationVars
    <3> QED
      BY <2>1, <2>2, <3>1, <3>2, <3>3 DEF OutcomeSound, Covered
  <2>3. CASE b # a
    <3>1. SameOutcome(b)
      BY <1>0, <1>1, <2>1, <2>3, TransitionOutcome DEF AuctionState
    <3> QED
      BY <1>0, <3>1, OutcomeKept
  <2> QED
    BY <2>2, <2>3
<1>5. CASE \/ \E u \in Executors : triggerFinalize(u, a)
           \/ \E u \in Sellers : cancelAuction(u, a)
           \/ triggerFallbackVoid(a)
  BY <1>5, <1>2 DEF triggerFinalize, cancelAuction, triggerFallbackVoid, AuctionState
<1> QED
  BY <1>3, <1>4, <1>5 DEF Resolve

(* A refund is paid once and recorded.                                     *)
LEMMA ClaimOutcome ==
  ASSUME OutcomeInv, NEW a \in Auctions, Claim(a), NEW b \in Auctions
  PROVE  SameOutcome(b)
<1>1. ASSUME NEW u \in Accounts, claimRefund(u, a)
      PROVE  SameOutcome(b)
  <2>1. /\ UNCHANGED phaseVars /\ UNCHANGED outcomeVars /\ UNCHANGED creationVars
        /\ hasWithdrawn' = [hasWithdrawn EXCEPT ![a][u] = TRUE]
        /\ \/ escrowBalances' = [escrowBalances EXCEPT ![a][u] = 0]
           \/ UNCHANGED escrowBalances
    BY <1>1 DEF claimRefund
  <2>2. /\ escrowBalances \in [Auctions -> [Accounts -> Nat]]
        /\ hasWithdrawn \in [Auctions -> [Accounts -> BOOLEAN]]
    BY DEF OutcomeInv, TypeOK, EscrowTypeOK
  <2>3. ASSUME NEW w \in Accounts, ~hasWithdrawn'[b][w]
        PROVE  ~hasWithdrawn[b][w] /\ escrowBalances'[b][w] = escrowBalances[b][w]
    BY <2>1, <2>2, <2>3
  <2> QED
    BY <2>1, <2>3 DEF SameOutcome, phaseVars, outcomeVars, creationVars
<1>2. CASE UNCHANGED <<phaseVars, outcomeVars, creationVars, escrowVars>>
  BY <1>2, NoOutcome DEF OutcomeInv
<1> QED
  BY <1>1, <1>2, Zenon
     DEF Claim, claimSellerProceeds, claimFinalizeReward, claimAsset, claimShieldedAsset

LEMMA createAuctionOutcome ==
  ASSUME OutcomeInv, NEW u \in Sellers, NEW t \in Tokens, NEW d \in Durations,
         NEW p \in StartingPrices, NEW e \in Deposits, createAuction(u, t, d, p, e),
         NEW b \in Auctions
  PROVE  OutcomeSound(b)'
<1> PICK a \in Auctions : a = auctionCounter + 1
  BY DomainAssumption DEF createAuction, OutcomeInv, TypeOK, CreationTypeOK, Auctions
<1>1. /\ state[a] = "CREATED" /\ state' = [state EXCEPT ![a] = "ACTIVE"]
      /\ UNCHANGED outcomeVars /\ UNCHANGED escrowVars
      /\ \A o \in Auctions \ {a} : listing'[o] = listing[o]
      /\ state \in [Auctions -> AuctionState]
  BY DEF createAuction, TransitionState, ValidTransition, OutcomeInv, TypeOK, CreationTypeOK,
         PhaseTypeOK
<1>2. OutcomeSound(b) /\ TypeOK
  BY DEF OutcomeInv
<1>3. CASE b = a
  BY <1>1, <1>2, <1>3 DEF OutcomeSound, outcomeVars
<1>4. CASE b # a
  BY <1>1, <1>2, <1>4, OutcomeKept DEF SameOutcome, outcomeVars, escrowVars
<1> QED
  BY <1>3, <1>4

LEMMA OutcomeStep ==
  ASSUME OutcomeInv, [Next]_vars, NEW b \in Auctions
  PROVE  OutcomeSound(b)'
<1>1. ASSUME SameOutcome(b) PROVE OutcomeSound(b)'
  BY <1>1, OutcomeKept DEF OutcomeInv
<1>2. ASSUME UNCHANGED <<phaseVars, outcomeVars, creationVars, escrowVars>>
      PROVE  OutcomeSound(b)'
  BY <1>1, <1>2, NoOutcome DEF OutcomeInv
<1>3. CASE NewBlock \/ Configure
  BY <1>2, <1>3, Zenon
     DEF NewBlock, Configure, setSettlementEngine, setSlashedPot, setShieldedEscrowVault,
         setShieldedIdentityRegistry, SetDependencies, WireContracts
<1>4. ASSUME NEW a \in Auctions, Bid(a) \/ Resolve(a) \/ Claim(a) PROVE OutcomeSound(b)'
  BY <1>1, <1>4, BidOutcome, ResolveOutcome, ClaimOutcome
<1>5. ASSUME NEW v \in Vaults, NEW c \in Commitments, NEW u \in Recipients,
             NEW d \in Deadlines, NEW s \in Authorities, claimShieldedRefund(v, c, u, d, s)
      PROVE  OutcomeSound(b)'
  BY <1>2, <1>5, Zenon DEF claimShieldedRefund
<1>6. CASE \/ \E value \in Donations : receive(value)
           \/ \E t \in Tokens, u \in TokenRecipients : TransferToken(t, u)
  BY <1>2, <1>6, Zenon DEF receive, TransferToken
<1>7. CASE UNCHANGED vars
  BY <1>2, <1>7 DEF vars
<1>8. ASSUME NEW u \in Sellers, NEW t \in Tokens, NEW d \in Durations, NEW p \in StartingPrices,
             NEW e \in Deposits, createAuction(u, t, d, p, e)
      PROVE  OutcomeSound(b)'
  BY <1>8, createAuctionOutcome
<1>9. CASE Next
  BY <1>3, <1>4, <1>5, <1>6, <1>8, <1>9, Zenon DEF Next
<1> QED
  BY <1>7, <1>9

(* For all bids, prices and orders of claims: a finalized auction has one  *)
(* kind of winner, at a price of at least the starting price, which the    *)
(* winner's escrow covers until it has been refunded (submitResolution,    *)
(* submitShieldedResolution, claimRefund).                                 *)
THEOREM OutcomesCovered == Spec => []OutcomeCovered
<1>1. Init => OutcomeInv
  <2> SUFFICES ASSUME Init PROVE OutcomeInv
    OBVIOUS
  <2>1. \A a \in Auctions : OutcomeSound(a)
    BY DEF Init, OutcomeSound
  <2> QED
    BY <2>1, InitType DEF OutcomeInv
<1>2. OutcomeInv /\ [Next]_vars => OutcomeInv'
  <2> SUFFICES ASSUME OutcomeInv, [Next]_vars PROVE OutcomeInv'
    OBVIOUS
  <2>1. \A b \in Auctions : OutcomeSound(b)'
    BY OutcomeStep
  <2>2. TypeOK' /\ ListingTimes'
    BY NextType, ListingTimesStep DEF OutcomeInv
  <2> QED
    BY <2>1, <2>2, Zenon DEF OutcomeInv, Auctions
<1>3. OutcomeInv => OutcomeCovered
  BY DEF OutcomeInv, OutcomeSound, Covered, OutcomeCovered
<1> QED
  BY <1>1, <1>2, <1>3, PTL DEF Spec

-----------------------------------------------------------------------------
(* The bids.                                                               *)

(* While an auction lives, escrow covers each of its bids; in the shielded *)
(* lane it stays under the commitment it was locked with.                  *)
PublicBidsSound(b) ==
  /\ state[b] = "CREATED" => bidders[b] = {}
  /\ state[b] \in Live => \A u \in bidders[b] :
       /\ Numeric(encryptedBids[b][u])
       /\ encryptedBids[b][u].payload <= escrowBalances[b][u]
       /\ encryptedBids[b][u].payload >= listing[b].startingPrice

ShieldedBidsSound(b) ==
  /\ state[b] = "CREATED" => shieldedBidders[b] = {}
  /\ state[b] \in Live => \A c \in shieldedBidders[b] :
       /\ VaultOf(b) # 0
       /\ commitments[VaultOf(b)][c].auctionId = b /\ commitments[VaultOf(b)][c].amount # 0
       /\ shieldedEncryptedBids[b][c].payload <= commitments[VaultOf(b)][c].amount
       /\ shieldedEncryptedBids[b][c].payload >= listing[b].startingPrice

(* The two maps of a registry are inverse to each other.                   *)
BindingsSound(r, b) ==
  /\ \A i \in Identities : identityToCommitment[r][b][i] # 0 =>
       commitmentToIdentity[r][b][identityToCommitment[r][b][i]] = i
  /\ \A c \in Commitments : commitmentToIdentity[r][b][c] # 0 =>
       identityToCommitment[r][b][commitmentToIdentity[r][b][c]] = c

(* A commitment that was ever locked for an auction has an identity there. *)
Bound(b, c) ==
  /\ RegistryOf(b) # 0
  /\ commitmentToIdentity[RegistryOf(b)][b][c] # 0
  /\ identityToCommitment[RegistryOf(b)][b][commitmentToIdentity[RegistryOf(b)][b][c]] = c

BidFacts ==
  /\ \A b \in Auctions : PublicBidsSound(b) /\ ShieldedBidsSound(b)
  /\ \A r \in Registries, b \in Auctions : BindingsSound(r, b)
  /\ \A v \in Vaults, c \in Commitments :
       commitments[v][c].auctionId # 0 => Bound(commitments[v][c].auctionId, c)

BidInv == VaultInv /\ BidFacts

(* A step that moves no auction, or one along _transitionState.            *)
LEMMA StateMoves ==
  ASSUME TypeOK, [Next]_vars, NEW b \in Auctions
  PROVE  state'[b] = state[b] \/ ValidTransition(state[b], state'[b])
<1>0. state \in [Auctions -> AuctionState]
  BY DEF TypeOK, PhaseTypeOK
<1>1. ASSUME NEW a, NEW to, TransitionState(a, to)
      PROVE  state'[b] = state[b] \/ ValidTransition(state[b], state'[b])
  BY <1>0, <1>1 DEF TransitionState
<1>2. CASE UNCHANGED state
  BY <1>2
<1>3. ASSUME NEW a \in Auctions, Resolve(a)
      PROVE  \E to : TransitionState(a, to)
  BY <1>3 DEF Resolve, triggerFinalize, submitResolution, submitShieldedResolution,
              cancelAuction, triggerFallbackVoid
<1>4. ASSUME NEW a \in Auctions, Bid(a) \/ Claim(a)
      PROVE  UNCHANGED state
  BY <1>4 DEF Bid, lockEscrow, placeBid, lockShieldedEscrow, placeShieldedBid, Claim, claimRefund,
              claimSellerProceeds, claimFinalizeReward, claimAsset, claimShieldedAsset, phaseVars
<1>5. ASSUME NewBlock \/ Configure \/ UNCHANGED vars
               \/ (\E value \in Donations : receive(value))
               \/ (\E t \in Tokens, u \in TokenRecipients : TransferToken(t, u))
      PROVE  UNCHANGED state
  BY <1>5 DEF NewBlock, Configure, setSettlementEngine, setSlashedPot, setShieldedEscrowVault,
              setShieldedIdentityRegistry, SetDependencies, WireContracts, receive,
              TransferToken, vars, phaseVars
<1>6. ASSUME NEW u \in Sellers, NEW t \in Tokens, NEW d \in Durations, NEW p \in StartingPrices,
             NEW e \in Deposits, createAuction(u, t, d, p, e)
      PROVE  \E a : TransitionState(a, "ACTIVE")
  BY <1>6 DEF createAuction
<1>7. ASSUME NEW v \in Vaults, NEW c \in Commitments, NEW u \in Recipients,
             NEW d \in Deadlines, NEW s \in Authorities, claimShieldedRefund(v, c, u, d, s)
      PROVE  UNCHANGED state
  BY <1>7, Zenon DEF claimShieldedRefund, phaseVars
<1> QED
  BY <1>1, <1>2, <1>3, <1>4, <1>5, <1>6, <1>7, Zenon DEF Next

(* A bid is placed, or nothing about bids changes.                         *)
LEMMA WhoBids ==
  ASSUME [Next]_vars
  PROVE  \/ UNCHANGED bidVars
         \/ \E a \in Auctions, u \in Bidders, ct \in BidCiphertexts : placeBid(u, a, ct)
         \/ \E a \in Auctions, c \in Commitments, ct \in BidCiphertexts, d \in Deadlines :
              placeShieldedBid(a, c, ct, d)
<1>1. ASSUME NEW a \in Auctions, Resolve(a) \/ Claim(a)
      PROVE  UNCHANGED bidVars
  BY <1>1 DEF Resolve, triggerFinalize, submitResolution, submitShieldedResolution,
              cancelAuction, triggerFallbackVoid, Claim, claimRefund, claimSellerProceeds,
              claimFinalizeReward, claimAsset, claimShieldedAsset
<1>2. ASSUME NewBlock \/ Configure \/ UNCHANGED vars
               \/ (\E value \in Donations : receive(value))
               \/ (\E t \in Tokens, u \in TokenRecipients : TransferToken(t, u))
               \/ (\E u \in Sellers, t \in Tokens, d \in Durations, p \in StartingPrices,
                     e \in Deposits : createAuction(u, t, d, p, e))
      PROVE  UNCHANGED bidVars
  BY <1>2 DEF NewBlock, Configure, setSettlementEngine, setSlashedPot, setShieldedEscrowVault,
              setShieldedIdentityRegistry, SetDependencies, WireContracts, receive,
              TransferToken, createAuction, vars
<1>3. ASSUME NEW v \in Vaults, NEW c \in Commitments, NEW u \in Recipients,
             NEW d \in Deadlines, NEW s \in Authorities, claimShieldedRefund(v, c, u, d, s)
      PROVE  UNCHANGED bidVars
  BY <1>3, Zenon DEF claimShieldedRefund
<1>4. ASSUME NEW a \in Auctions,
             \/ \E u \in Bidders, value \in EscrowAmounts : lockEscrow(u, a, value)
             \/ \E i \in Identities, c \in Commitments, s \in Authorities,
                   value \in ShieldedAmounts : lockShieldedEscrow(a, i, c, s, value)
      PROVE  UNCHANGED bidVars
  BY <1>4, Zenon DEF lockEscrow, lockShieldedEscrow
<1> QED
  BY <1>1, <1>2, <1>3, <1>4, Zenon DEF Next, Bid

(* Only a bid changes the bids, and only those of its auction.             *)
LEMMA BidsElsewhere ==
  ASSUME TypeOK, [Next]_vars, NEW b \in Auctions
  PROVE  /\ \/ bidders'[b] = bidders[b] /\ encryptedBids'[b] = encryptedBids[b]
            \/ \E u \in Bidders, ct \in BidCiphertexts : placeBid(u, b, ct)
         /\ \/ /\ shieldedBidders'[b] = shieldedBidders[b]
               /\ shieldedEncryptedBids'[b] = shieldedEncryptedBids[b]
            \/ \E c \in Commitments, ct \in BidCiphertexts, d \in Deadlines :
                 placeShieldedBid(b, c, ct, d)
<1>0. BidTypeOK
  BY DEF TypeOK
<1>1. CASE UNCHANGED bidVars
  BY <1>1 DEF bidVars
<1>2. ASSUME NEW a \in Auctions, NEW u \in Bidders, NEW ct \in BidCiphertexts, placeBid(u, a, ct)
      PROVE  /\ \/ bidders'[b] = bidders[b] /\ encryptedBids'[b] = encryptedBids[b]
                \/ a = b
             /\ UNCHANGED <<shieldedBidders, shieldedEncryptedBids>>
  BY <1>0, <1>2 DEF placeBid, BidTypeOK
<1>3. ASSUME NEW a \in Auctions, NEW c \in Commitments, NEW ct \in BidCiphertexts,
             NEW d \in Deadlines, placeShieldedBid(a, c, ct, d)
      PROVE  /\ \/ /\ shieldedBidders'[b] = shieldedBidders[b]
                   /\ shieldedEncryptedBids'[b] = shieldedEncryptedBids[b]
                \/ a = b
             /\ UNCHANGED <<bidders, encryptedBids>>
  BY <1>0, <1>3 DEF placeShieldedBid, BidTypeOK
<1> QED
  BY <1>1, <1>2, <1>3, WhoBids, Zenon

(* While the auction lives nobody touches a deposit that backs a bid.      *)
LEMMA DepositStays ==
  ASSUME TypeOK, [Next]_vars, NEW v \in Vaults, NEW c \in Commitments, NEW b \in Auctions,
         commitments[v][c].auctionId = b, commitments[v][c].amount # 0,
         state[b] \in Live, state'[b] \in Live
  PROVE  commitments'[v][c] = commitments[v][c]
<1>0. commitments \in [Vaults -> [Commitments -> CommitmentDeposit]]
  BY DEF TypeOK, VaultTypeOK
<1>1. CASE UNCHANGED commitments
  BY <1>1
<1>2. ASSUME NEW a \in Auctions, NEW i \in Identities, NEW o \in Commitments,
             NEW s \in Authorities, NEW value \in ShieldedAmounts,
             lockShieldedEscrow(a, i, o, s, value)
      PROVE  commitments'[v][c] = commitments[v][c]
  <2> PICK w \in Vaults : w = VaultOf(a)
    BY <1>2, SnapshotType DEF lockShieldedEscrow
  <2>1. /\ commitments[w][o].amount = 0
        /\ commitments' = [commitments EXCEPT
             ![w][o] = [auctionId |-> a, amount |-> value, claimed |-> @.claimed,
                        claimAuthority |-> s]]
    BY <1>2 DEF lockShieldedEscrow, Vault_lockEscrow, Lockable
  <2>2. ~(w = v /\ o = c)
    BY <2>1
  <2> QED
    BY <1>0, <2>1, <2>2
<1>3. ASSUME NEW a \in Auctions, NEW i \in Identities, NEW o \in Commitments,
             NEW ct \in BidCiphertexts, NEW amount \in WinningAmounts,
             submitShieldedResolution(a, i, o, ct, amount)
      PROVE  commitments'[v][c] = commitments[v][c]
  <2> PICK w \in Vaults : w = VaultOf(a)
    BY <1>3, SnapshotType DEF submitShieldedResolution, ShieldedResolutionAdmissible
  <2>1. /\ commitments[w][o].auctionId = a
        /\ commitments' = [commitments EXCEPT ![w][o].amount = @ - amount]
    BY <1>3 DEF submitShieldedResolution, Vault_settleWinningCommitment
  <2>2. b # a
    BY <1>3 DEF submitShieldedResolution, TransitionState, TypeOK, PhaseTypeOK, Live
  <2>3. ~(w = v /\ o = c)
    BY <2>1, <2>2
  <2> QED
    BY <1>0, <2>1, <2>3
<1>4. ASSUME NEW w \in Vaults, NEW o \in Commitments, NEW u \in Recipients,
             NEW d \in Deadlines, NEW s \in Authorities, claimShieldedRefund(w, o, u, d, s)
      PROVE  commitments'[v][c] = commitments[v][c]
  <2>1. /\ state[commitments[w][o].auctionId] \in Terminal
        /\ commitments' = [commitments EXCEPT ![w][o].claimed = TRUE, ![w][o].amount = 0]
    BY <1>4, Zenon DEF claimShieldedRefund, Vault_claimRefundWithAuthorization
  <2>2. ~(w = v /\ o = c)
    BY <2>1 DEF Live, Terminal
  <2> QED
    BY <1>0, <2>1, <2>2
<1>5. ASSUME NEW a \in Auctions, Claim(a)
      PROVE  UNCHANGED commitments
  BY <1>5 DEF Claim, claimRefund, claimSellerProceeds, claimFinalizeReward, claimAsset,
              claimShieldedAsset, Vault_authorizeAssetClaim, vaultVars
<1>6. ASSUME NewBlock \/ Configure \/ UNCHANGED vars
               \/ (\E value \in Donations : receive(value))
               \/ (\E t \in Tokens, u \in TokenRecipients : TransferToken(t, u))
               \/ (\E u \in Sellers, t \in Tokens, d \in Durations, p \in StartingPrices,
                     e \in Deposits : createAuction(u, t, d, p, e))
      PROVE  UNCHANGED commitments
  BY <1>6 DEF NewBlock, Configure, setSettlementEngine, setSlashedPot, setShieldedEscrowVault,
              setShieldedIdentityRegistry, SetDependencies, WireContracts, receive,
              TransferToken, createAuction, Vault_setMarket, Vault_setShieldedBidVerifier,
              vars, vaultVars
<1>7. ASSUME NEW a \in Auctions, Bid(a)
      PROVE  \/ UNCHANGED commitments
             \/ \E i \in Identities, o \in Commitments, s \in Authorities,
                   value \in ShieldedAmounts : lockShieldedEscrow(a, i, o, s, value)
  BY <1>7, Zenon DEF Bid, lockEscrow, placeBid, placeShieldedBid, vaultVars
<1>8. ASSUME NEW a \in Auctions, Resolve(a)
      PROVE  \/ UNCHANGED commitments
             \/ \E i \in Identities, o \in Commitments, ct \in BidCiphertexts,
                   amount \in WinningAmounts : submitShieldedResolution(a, i, o, ct, amount)
  BY <1>8, Zenon DEF Resolve, triggerFinalize, submitResolution, cancelAuction,
                     triggerFallbackVoid, vaultVars, vaultRecords
<1> QED
  BY <1>1, <1>2, <1>3, <1>4, <1>5, <1>6, <1>7, <1>8, Zenon DEF Next

LEMMA PublicBidsStep ==
  ASSUME TypeOK, TypeOK', [Next]_vars, NEW b \in Auctions, PublicBidsSound(b)
  PROVE  PublicBidsSound(b)'
<1>1. \/ state'[b] = state[b] \/ state[b] = "CREATED" \/ state'[b] \notin Live \cup {"CREATED"}
      \/ (state[b] \in Live /\ state'[b] \in Live)
  BY StateMoves DEF ValidTransition, Live
<1>2. CASE bidders'[b] = bidders[b] /\ encryptedBids'[b] = encryptedBids[b]
  <2>1. CASE state[b] = "CREATED"
    BY <1>2, <2>1, StateMoves DEF PublicBidsSound, ValidTransition
  <2>2. CASE state[b] \in Live /\ state'[b] \in Live
    <3>1. /\ listing'[b] = listing[b]
          /\ \A u \in Accounts : escrowBalances'[b][u] >= escrowBalances[b][u]
      BY <2>2, LiveStep DEF OnlyGrows
    <3>2. ASSUME NEW u \in bidders[b]
          PROVE  /\ Numeric(encryptedBids[b][u])
                 /\ encryptedBids[b][u].payload <= escrowBalances'[b][u]
                 /\ encryptedBids[b][u].payload >= listing[b].startingPrice
      <4>1. u \in Accounts
        BY DEF TypeOK, BidTypeOK
      <4>2. /\ encryptedBids[b][u].payload \in Nat
            /\ escrowBalances[b][u] \in Nat /\ escrowBalances'[b][u] \in Nat
        BY <4>1 DEF TypeOK, BidTypeOK, EscrowTypeOK, Ciphertext
      <4>3. escrowBalances'[b][u] >= escrowBalances[b][u]
        BY <3>1, <4>1
      <4>4. /\ Numeric(encryptedBids[b][u])
            /\ encryptedBids[b][u].payload <= escrowBalances[b][u]
            /\ encryptedBids[b][u].payload >= listing[b].startingPrice
        BY <2>2 DEF PublicBidsSound
      <4> QED
        BY <4>2, <4>3, <4>4
    <3>3. state'[b] # "CREATED"
      BY <2>2 DEF Live
    <3> QED
      BY <1>2, <3>1, <3>2, <3>3 DEF PublicBidsSound
  <2>3. CASE state'[b] \notin Live \cup {"CREATED"}
    BY <2>3 DEF PublicBidsSound
  <2> QED
    BY <1>1, <2>1, <2>2, <2>3 DEF PublicBidsSound, Live, ValidTransition, TypeOK, PhaseTypeOK,
       AuctionState
<1>3. ASSUME NEW u \in Bidders, NEW ct \in BidCiphertexts, placeBid(u, b, ct)
      PROVE  PublicBidsSound(b)'
  <2>1. /\ state[b] = "ACTIVE" /\ Numeric(ct) /\ ct.payload <= escrowBalances[b][u]
        /\ MeetsStartingPrice(b, ct)
        /\ bidders' = [bidders EXCEPT ![b] = @ \cup {u}]
        /\ encryptedBids' = [encryptedBids EXCEPT ![b][u] = ct]
        /\ UNCHANGED <<state, listing, escrowBalances>>
    BY <1>3 DEF placeBid, OpenForBids, phaseVars, creationVars, escrowVars
  <2>2. ct.payload >= listing[b].startingPrice
    <3>1. ct.payload \in Nat /\ listing[b].startingPrice \in Nat
      BY SnapshotType, MarketAssumption DEF Ciphertext
    <3> QED
      BY <2>1, <3>1 DEF MeetsStartingPrice
  <2>3. /\ bidders'[b] = bidders[b] \cup {u} /\ encryptedBids'[b][u] = ct
        /\ \A w \in Accounts \ {u} : encryptedBids'[b][w] = encryptedBids[b][w]
        /\ bidders[b] \subseteq Accounts
    BY <2>1, MarketAssumption DEF TypeOK, BidTypeOK
  <2>4. state[b] \in Live /\ state[b] # "CREATED"
    BY <2>1 DEF Live
  <2>5. ASSUME NEW w \in bidders'[b]
        PROVE  /\ Numeric(encryptedBids'[b][w])
               /\ encryptedBids'[b][w].payload <= escrowBalances[b][w]
               /\ encryptedBids'[b][w].payload >= listing[b].startingPrice
    BY <2>1, <2>2, <2>3, <2>4 DEF PublicBidsSound
  <2> QED
    BY <2>1, <2>4, <2>5 DEF PublicBidsSound, Numeric
<1> QED
  BY <1>2, <1>3, BidsElsewhere

LEMMA ShieldedBidsStep ==
  ASSUME TypeOK, TypeOK', VaultFacts, [Next]_vars, NEW b \in Auctions, ShieldedBidsSound(b)
  PROVE  ShieldedBidsSound(b)'
<1>1. \/ state[b] = "CREATED" \/ state'[b] \notin Live \cup {"CREATED"}
      \/ (state[b] \in Live /\ state'[b] \in Live)
  BY StateMoves DEF ValidTransition, Live
<1>2. CASE /\ shieldedBidders'[b] = shieldedBidders[b]
           /\ shieldedEncryptedBids'[b] = shieldedEncryptedBids[b]
  <2>1. CASE state[b] = "CREATED"
    BY <1>2, <2>1, StateMoves DEF ShieldedBidsSound, ValidTransition
  <2>2. CASE state[b] \in Live /\ state'[b] \in Live
    <3>1. listing'[b] = listing[b] /\ VaultOf(b)' = VaultOf(b)
      BY <2>2, LiveStep DEF OnlyGrows, VaultOf
    <3>2. ASSUME NEW c \in shieldedBidders[b]
          PROVE  /\ VaultOf(b) # 0
                 /\ commitments'[VaultOf(b)][c].auctionId = b
                 /\ commitments'[VaultOf(b)][c].amount # 0
                 /\ shieldedEncryptedBids[b][c].payload <= commitments'[VaultOf(b)][c].amount
                 /\ shieldedEncryptedBids[b][c].payload >= listing[b].startingPrice
      <4>1. /\ VaultOf(b) # 0 /\ commitments[VaultOf(b)][c].auctionId = b
            /\ commitments[VaultOf(b)][c].amount # 0
            /\ shieldedEncryptedBids[b][c].payload <= commitments[VaultOf(b)][c].amount
            /\ shieldedEncryptedBids[b][c].payload >= listing[b].startingPrice
        BY <2>2 DEF ShieldedBidsSound
      <4>2. c \in Commitments /\ VaultOf(b) \in Vaults
        BY <4>1, SnapshotType DEF TypeOK, BidTypeOK
      <4>3. commitments'[VaultOf(b)][c] = commitments[VaultOf(b)][c]
        BY <2>2, <4>1, <4>2, DepositStays
      <4> QED
        BY <4>1, <4>3
    <3>3. state'[b] # "CREATED"
      BY <2>2 DEF Live
    <3> QED
      BY <1>2, <3>1, <3>2, <3>3 DEF ShieldedBidsSound
  <2>3. CASE state'[b] \notin Live \cup {"CREATED"}
    BY <2>3 DEF ShieldedBidsSound
  <2> QED
    BY <1>1, <2>1, <2>2, <2>3
<1>3. ASSUME NEW c \in Commitments, NEW ct \in BidCiphertexts, NEW d \in Deadlines,
             placeShieldedBid(b, c, ct, d)
      PROVE  ShieldedBidsSound(b)'
  <2> PICK v \in Vaults : v = VaultOf(b)
    BY <1>3, SnapshotType DEF placeShieldedBid
  <2>1. /\ state[b] = "ACTIVE" /\ commitments[v][c].auctionId = b /\ commitments[v][c].amount # 0
        /\ ct.payload <= commitments[v][c].amount /\ MeetsStartingPrice(b, ct)
        /\ shieldedBidders' = [shieldedBidders EXCEPT ![b] = @ \cup {c}]
        /\ shieldedEncryptedBids' = [shieldedEncryptedBids EXCEPT ![b][c] = ct]
        /\ UNCHANGED <<state, listing, commitments>>
    BY <1>3 DEF placeShieldedBid, OpenForBids, BidCovered, Spendable, phaseVars, creationVars,
                vaultVars
  <2>2. ct.payload >= listing[b].startingPrice
    <3>1. ct.payload \in Nat /\ listing[b].startingPrice \in Nat
      BY SnapshotType, MarketAssumption DEF Ciphertext
    <3> QED
      BY <2>1, <3>1 DEF MeetsStartingPrice
  <2>3. /\ shieldedBidders'[b] = shieldedBidders[b] \cup {c} /\ shieldedEncryptedBids'[b][c] = ct
        /\ \A o \in Commitments \ {c} : shieldedEncryptedBids'[b][o] = shieldedEncryptedBids[b][o]
        /\ shieldedBidders[b] \subseteq Commitments
    BY <2>1 DEF TypeOK, BidTypeOK
  <2>4. state[b] \in Live /\ state[b] # "CREATED" /\ VaultOf(b)' = v /\ v # 0
    BY <2>1 DEF Live, VaultOf, Vaults
  <2>5. ASSUME NEW o \in shieldedBidders'[b]
        PROVE  /\ commitments[v][o].auctionId = b /\ commitments[v][o].amount # 0
               /\ shieldedEncryptedBids'[b][o].payload <= commitments[v][o].amount
               /\ shieldedEncryptedBids'[b][o].payload >= listing[b].startingPrice
    BY <2>1, <2>2, <2>3, <2>4 DEF ShieldedBidsSound
  <2> QED
    BY <2>1, <2>4, <2>5 DEF ShieldedBidsSound
<1> QED
  BY <1>2, <1>3, BidsElsewhere

(* Bindings are only added, by locks, and in pairs.                        *)
LEMMA BindingsStep ==
  ASSUME TypeOK, [Next]_vars,
         \A r \in Registries, b \in Auctions : BindingsSound(r, b)
  PROVE  /\ \A r \in Registries, b \in Auctions : BindingsSound(r, b)'
         /\ \A r \in Registries, b \in Auctions, c \in Commitments :
              commitmentToIdentity[r][b][c] # 0 =>
                /\ commitmentToIdentity'[r][b][c] = commitmentToIdentity[r][b][c]
                /\ identityToCommitment'[r][b][commitmentToIdentity[r][b][c]]
                     = identityToCommitment[r][b][commitmentToIdentity[r][b][c]]
<1>1. CASE UNCHANGED <<identityToCommitment, commitmentToIdentity>>
  BY <1>1 DEF BindingsSound
<1>2. ASSUME NEW a \in Auctions, NEW i \in Identities, NEW o \in Commitments,
             NEW s \in Authorities, NEW value \in ShieldedAmounts,
             lockShieldedEscrow(a, i, o, s, value),
             ~UNCHANGED <<identityToCommitment, commitmentToIdentity>>,
             NEW r \in Registries, NEW b \in Auctions
      PROVE  /\ BindingsSound(r, b)'
             /\ \A c \in Commitments : commitmentToIdentity[r][b][c] # 0 =>
                  /\ commitmentToIdentity'[r][b][c] = commitmentToIdentity[r][b][c]
                  /\ identityToCommitment'[r][b][commitmentToIdentity[r][b][c]]
                       = identityToCommitment[r][b][commitmentToIdentity[r][b][c]]
  <2> PICK q \in Registries : q = RegistryOf(a)
    BY <1>2, SnapshotType DEF lockShieldedEscrow
  <2>1. /\ identityToCommitment[q][a][i] = 0 /\ commitmentToIdentity[q][a][o] \in {0, i}
        /\ identityToCommitment' = [identityToCommitment EXCEPT ![q][a][i] = o]
        /\ commitmentToIdentity' = [commitmentToIdentity EXCEPT ![q][a][o] = i]
    BY <1>2 DEF lockShieldedEscrow, Registry_bindIdentity
  <2>2. /\ identityToCommitment \in [Registries -> [Auctions -> [Identities -> 0..NumCommitments]]]
        /\ commitmentToIdentity \in [Registries -> [Auctions -> [Commitments -> 0..NumIdentities]]]
    BY DEF TypeOK, RegistryTypeOK
  <2>3. BindingsSound(q, a) /\ BindingsSound(r, b)
    OBVIOUS
  <2>4. commitmentToIdentity[q][a][o] = 0
    BY <2>1, <2>3 DEF BindingsSound, Identities, Commitments
  <2>5. CASE r = q /\ b = a
    <3>1. /\ identityToCommitment'[r][b][i] = o /\ commitmentToIdentity'[r][b][o] = i
          /\ \A j \in Identities \ {i} : identityToCommitment'[r][b][j] = identityToCommitment[r][b][j]
          /\ \A c \in Commitments \ {o} : commitmentToIdentity'[r][b][c] = commitmentToIdentity[r][b][c]
      BY <2>1, <2>2, <2>5
    <3>2. /\ \A j \in Identities : identityToCommitment[r][b][j] \in 0..NumCommitments
          /\ \A c \in Commitments : commitmentToIdentity[r][b][c] \in 0..NumIdentities
      BY <2>2
    <3>3. \A j \in Identities : identityToCommitment[r][b][j] # 0 =>
            /\ identityToCommitment[r][b][j] \in Commitments
            /\ identityToCommitment[r][b][j] # o /\ j # i
      BY <2>1, <2>3, <2>4, <2>5, <3>2, DomainAssumption
         DEF BindingsSound, Identities, Commitments
    <3>4. \A c \in Commitments : commitmentToIdentity[r][b][c] # 0 =>
            /\ commitmentToIdentity[r][b][c] \in Identities
            /\ commitmentToIdentity[r][b][c] # i /\ c # o
      BY <2>1, <2>3, <2>4, <2>5, <3>2, DomainAssumption
         DEF BindingsSound, Identities, Commitments
    <3>5. \A j \in Identities : identityToCommitment'[r][b][j] # 0 =>
            commitmentToIdentity'[r][b][identityToCommitment'[r][b][j]] = j
      BY <2>3, <3>1, <3>3 DEF BindingsSound
    <3>6. \A c \in Commitments : commitmentToIdentity'[r][b][c] # 0 =>
            identityToCommitment'[r][b][commitmentToIdentity'[r][b][c]] = c
      BY <2>3, <3>1, <3>4 DEF BindingsSound
    <3>7. BindingsSound(r, b)'
      BY <3>5, <3>6, Zenon DEF BindingsSound, Identities, Commitments
    <3> QED
      BY <3>1, <3>4, <3>7
  <2>6. CASE ~(r = q /\ b = a)
    <3>1. /\ identityToCommitment'[r][b] = identityToCommitment[r][b]
          /\ commitmentToIdentity'[r][b] = commitmentToIdentity[r][b]
      BY <2>1, <2>2, <2>6
    <3> QED
      BY <2>3, <3>1 DEF BindingsSound
  <2> QED
    BY <2>5, <2>6
<1>3. \/ UNCHANGED <<identityToCommitment, commitmentToIdentity>>
      \/ \E a \in Auctions, i \in Identities, o \in Commitments, s \in Authorities,
            value \in ShieldedAmounts : lockShieldedEscrow(a, i, o, s, value)
  <2>1. ASSUME NEW a \in Auctions, Resolve(a) \/ Claim(a)
        PROVE  UNCHANGED <<identityToCommitment, commitmentToIdentity>>
    BY <2>1 DEF Resolve, triggerFinalize, submitResolution, submitShieldedResolution,
                cancelAuction, triggerFallbackVoid, Registry_markWinningIdentity, Claim,
                claimRefund, claimSellerProceeds, claimFinalizeReward, claimAsset,
                claimShieldedAsset, registryVars
  <2>2. ASSUME NewBlock \/ Configure \/ UNCHANGED vars
                 \/ (\E value \in Donations : receive(value))
                 \/ (\E t \in Tokens, u \in TokenRecipients : TransferToken(t, u))
                 \/ (\E u \in Sellers, t \in Tokens, d \in Durations, p \in StartingPrices,
                       e \in Deposits : createAuction(u, t, d, p, e))
        PROVE  UNCHANGED <<identityToCommitment, commitmentToIdentity>>
    BY <2>2 DEF NewBlock, Configure, setSettlementEngine, setSlashedPot, setShieldedEscrowVault,
                setShieldedIdentityRegistry, SetDependencies, WireContracts, Registry_setMarket,
                receive, TransferToken, createAuction, vars, registryVars
  <2>3. ASSUME NEW v \in Vaults, NEW c \in Commitments, NEW u \in Recipients,
               NEW d \in Deadlines, NEW s \in Authorities, claimShieldedRefund(v, c, u, d, s)
        PROVE  UNCHANGED <<identityToCommitment, commitmentToIdentity>>
    BY <2>3, Zenon DEF claimShieldedRefund, registryVars
  <2>4. ASSUME NEW a \in Auctions, Bid(a)
        PROVE  \/ UNCHANGED <<identityToCommitment, commitmentToIdentity>>
               \/ \E i \in Identities, o \in Commitments, s \in Authorities,
                     value \in ShieldedAmounts : lockShieldedEscrow(a, i, o, s, value)
    BY <2>4, Zenon DEF Bid, lockEscrow, placeBid, placeShieldedBid, registryVars
  <2> QED
    BY <2>1, <2>2, <2>3, <2>4, Zenon DEF Next
<1> QED
  BY <1>1, <1>2, <1>3

(* What a commitment refers to after a step: what it did, or the auction   *)
(* that has just locked it.                                                *)
LEMMA DepositAuction ==
  ASSUME TypeOK, [Next]_vars, NEW v \in Vaults, NEW c \in Commitments
  PROVE  \/ commitments'[v][c].auctionId = commitments[v][c].auctionId
         \/ \E a \in Auctions, i \in Identities, s \in Authorities, value \in ShieldedAmounts :
              lockShieldedEscrow(a, i, c, s, value) /\ commitments'[v][c].auctionId = a
<1>0. commitments \in [Vaults -> [Commitments -> CommitmentDeposit]]
  BY DEF TypeOK, VaultTypeOK
<1>1. CASE UNCHANGED commitments
  BY <1>1
<1>2. ASSUME NEW a \in Auctions, NEW i \in Identities, NEW o \in Commitments,
             NEW s \in Authorities, NEW value \in ShieldedAmounts,
             lockShieldedEscrow(a, i, o, s, value)
      PROVE  \/ commitments'[v][c].auctionId = commitments[v][c].auctionId
             \/ o = c /\ commitments'[v][c].auctionId = a
  <2> PICK w \in Vaults : w = VaultOf(a)
    BY <1>2, SnapshotType DEF lockShieldedEscrow
  <2>1. commitments' = [commitments EXCEPT
          ![w][o] = [auctionId |-> a, amount |-> value, claimed |-> @.claimed,
                     claimAuthority |-> s]]
    BY <1>2 DEF lockShieldedEscrow, Vault_lockEscrow
  <2> QED
    BY <1>0, <2>1
<1>3. ASSUME NEW a \in Auctions, NEW i \in Identities, NEW o \in Commitments,
             NEW ct \in BidCiphertexts, NEW amount \in WinningAmounts,
             submitShieldedResolution(a, i, o, ct, amount)
      PROVE  commitments'[v][c].auctionId = commitments[v][c].auctionId
  <2> PICK w \in Vaults : w = VaultOf(a)
    BY <1>3, SnapshotType DEF submitShieldedResolution, ShieldedResolutionAdmissible
  <2>1. commitments' = [commitments EXCEPT ![w][o].amount = @ - amount]
    BY <1>3 DEF submitShieldedResolution, Vault_settleWinningCommitment
  <2> QED
    BY <1>0, <2>1 DEF CommitmentDeposit
<1>4. ASSUME NEW w \in Vaults, NEW o \in Commitments, NEW u \in Recipients,
             NEW d \in Deadlines, NEW s \in Authorities, claimShieldedRefund(w, o, u, d, s)
      PROVE  commitments'[v][c].auctionId = commitments[v][c].auctionId
  <2>1. commitments' = [commitments EXCEPT ![w][o].claimed = TRUE, ![w][o].amount = 0]
    BY <1>4, Zenon DEF claimShieldedRefund, Vault_claimRefundWithAuthorization
  <2> QED
    BY <1>0, <2>1 DEF CommitmentDeposit
<1>5. ASSUME NEW a \in Auctions, Claim(a)
      PROVE  UNCHANGED commitments
  BY <1>5 DEF Claim, claimRefund, claimSellerProceeds, claimFinalizeReward, claimAsset,
              claimShieldedAsset, Vault_authorizeAssetClaim, vaultVars
<1>6. ASSUME NewBlock \/ Configure \/ UNCHANGED vars
               \/ (\E value \in Donations : receive(value))
               \/ (\E t \in Tokens, u \in TokenRecipients : TransferToken(t, u))
               \/ (\E u \in Sellers, t \in Tokens, d \in Durations, p \in StartingPrices,
                     e \in Deposits : createAuction(u, t, d, p, e))
      PROVE  UNCHANGED commitments
  BY <1>6 DEF NewBlock, Configure, setSettlementEngine, setSlashedPot, setShieldedEscrowVault,
              setShieldedIdentityRegistry, SetDependencies, WireContracts, receive,
              TransferToken, createAuction, Vault_setMarket, Vault_setShieldedBidVerifier,
              vars, vaultVars
<1>7. ASSUME NEW a \in Auctions, Bid(a)
      PROVE  \/ UNCHANGED commitments
             \/ \E i \in Identities, o \in Commitments, s \in Authorities,
                   value \in ShieldedAmounts : lockShieldedEscrow(a, i, o, s, value)
  BY <1>7, Zenon DEF Bid, lockEscrow, placeBid, placeShieldedBid, vaultVars
<1>8. ASSUME NEW a \in Auctions, Resolve(a)
      PROVE  \/ UNCHANGED commitments
             \/ \E i \in Identities, o \in Commitments, ct \in BidCiphertexts,
                   amount \in WinningAmounts : submitShieldedResolution(a, i, o, ct, amount)
  BY <1>8, Zenon DEF Resolve, triggerFinalize, submitResolution, cancelAuction,
                     triggerFallbackVoid, vaultVars, vaultRecords
<1> QED
  BY <1>1, <1>2, <1>3, <1>4, <1>5, <1>6, <1>7, <1>8, Zenon DEF Next

(* An existing auction keeps its snapshot.                                 *)
LEMMA ListingStays ==
  ASSUME TypeOK, [Next]_vars, NEW b \in Auctions, Exists(b)
  PROVE  listing'[b] = listing[b]
<1>1. CASE UNCHANGED listing
  BY <1>1
<1>2. ASSUME NEW u, NEW t, NEW d, NEW p, NEW e, createAuction(u, t, d, p, e)
      PROVE  listing'[b] = listing[b]
  <2>1. PICK l : listing' = [listing EXCEPT ![auctionCounter + 1] = l]
    BY <1>2 DEF createAuction
  <2>2. b # auctionCounter + 1
    BY DEF Exists, Auctions, TypeOK, CreationTypeOK
  <2> QED
    BY <2>1, <2>2 DEF TypeOK, CreationTypeOK
<1>3. ASSUME NEW a \in Auctions, Resolve(a) \/ Claim(a) \/ Bid(a)
      PROVE  UNCHANGED listing
  BY <1>3 DEF Resolve, triggerFinalize, submitResolution, submitShieldedResolution,
              cancelAuction, triggerFallbackVoid, Claim, claimRefund, claimSellerProceeds,
              claimFinalizeReward, claimAsset, claimShieldedAsset, Bid, lockEscrow, placeBid,
              lockShieldedEscrow, placeShieldedBid, creationVars
<1>4. ASSUME NewBlock \/ Configure \/ UNCHANGED vars
               \/ (\E value \in Donations : receive(value))
               \/ (\E t \in Tokens, u \in TokenRecipients : TransferToken(t, u))
      PROVE  UNCHANGED listing
  BY <1>4 DEF NewBlock, Configure, setSettlementEngine, setSlashedPot, setShieldedEscrowVault,
              setShieldedIdentityRegistry, SetDependencies, WireContracts, receive,
              TransferToken, vars, creationVars
<1>5. ASSUME NEW v \in Vaults, NEW c \in Commitments, NEW u \in Recipients,
             NEW d \in Deadlines, NEW s \in Authorities, claimShieldedRefund(v, c, u, d, s)
      PROVE  UNCHANGED listing
  BY <1>5, Zenon DEF claimShieldedRefund, creationVars
<1> QED
  BY <1>1, <1>2, <1>3, <1>4, <1>5, Zenon DEF Next

LEMMA BoundStep ==
  ASSUME TypeOK, TypeOK', VaultFacts, [Next]_vars,
         \A r \in Registries, b \in Auctions : BindingsSound(r, b),
         NEW v \in Vaults, NEW c \in Commitments,
         commitments[v][c].auctionId # 0 => Bound(commitments[v][c].auctionId, c),
         commitments'[v][c].auctionId # 0
  PROVE  Bound(commitments[v][c].auctionId, c)'
<1>1. CASE commitments'[v][c].auctionId = commitments[v][c].auctionId
  <2> PICK b \in Auctions : b = commitments[v][c].auctionId
    BY <1>1, VaultTypes DEF Auctions
  <2>1. Bound(b, c) /\ Exists(b)
    BY <1>1 DEF VaultFacts, DepositSound
  <2>2. RegistryOf(b)' = RegistryOf(b) /\ RegistryOf(b) \in Registries
    BY <2>1, ListingStays, SnapshotType DEF RegistryOf, Bound
  <2>3. /\ commitmentToIdentity'[RegistryOf(b)][b][c] = commitmentToIdentity[RegistryOf(b)][b][c]
        /\ identityToCommitment'[RegistryOf(b)][b][commitmentToIdentity[RegistryOf(b)][b][c]]
             = identityToCommitment[RegistryOf(b)][b][commitmentToIdentity[RegistryOf(b)][b][c]]
    BY <2>1, <2>2, BindingsStep DEF Bound
  <2>4. Bound(b, c)'
    BY <2>1, <2>2, <2>3 DEF Bound
  <2> QED
    BY <1>1, <2>4
<1>2. ASSUME NEW a \in Auctions, NEW i \in Identities, NEW s \in Authorities,
             NEW value \in ShieldedAmounts, lockShieldedEscrow(a, i, c, s, value),
             commitments'[v][c].auctionId = a
      PROVE  Bound(commitments[v][c].auctionId, c)'
  <2> PICK q \in Registries : q = RegistryOf(a)
    BY <1>2, SnapshotType DEF lockShieldedEscrow
  <2>1. RegistryOf(a)' = q /\ q # 0 /\ i # 0
    BY <1>2 DEF lockShieldedEscrow, creationVars, RegistryOf, Registries, Identities
  <2>2. /\ identityToCommitment \in [Registries -> [Auctions -> [Identities -> 0..NumCommitments]]]
        /\ commitmentToIdentity \in [Registries -> [Auctions -> [Commitments -> 0..NumIdentities]]]
    BY DEF TypeOK, RegistryTypeOK
  <2>3. commitmentToIdentity'[q][a][c] = i /\ identityToCommitment'[q][a][i] = c
    <3>1. CASE identityToCommitment[q][a][i] = 0
      <4>1. /\ identityToCommitment' = [identityToCommitment EXCEPT ![q][a][i] = c]
            /\ commitmentToIdentity' = [commitmentToIdentity EXCEPT ![q][a][c] = i]
        BY <1>2, <3>1 DEF lockShieldedEscrow, Registry_bindIdentity
      <4> QED
        BY <2>2, <4>1
    <3>2. CASE identityToCommitment[q][a][i] # 0
      <4>1. /\ identityToCommitment[q][a][i] = c
            /\ UNCHANGED <<identityToCommitment, commitmentToIdentity>>
        BY <1>2, <3>2 DEF lockShieldedEscrow, Registry_bindIdentity
      <4>2. BindingsSound(q, a)
        OBVIOUS
      <4> QED
        BY <3>2, <4>1, <4>2 DEF BindingsSound
    <3> QED
      BY <3>1, <3>2
  <2>4. Bound(a, c)'
    BY <2>1, <2>3 DEF Bound
  <2> QED
    BY <1>2, <2>4
<1> QED
  BY <1>1, <1>2, DepositAuction

LEMMA NextBids ==
  ASSUME BidInv, [Next]_vars
  PROVE  BidInv'
<1>1. VaultInv /\ VaultInv' /\ BidFacts
  BY NextVaults DEF BidInv
<1>2. TypeOK /\ TypeOK' /\ VaultFacts
  BY <1>1 DEF VaultInv
<1>3. \A r \in Registries, b \in Auctions : BindingsSound(r, b)
  BY <1>1 DEF BidFacts
<1>4. \A b \in Auctions : PublicBidsSound(b)'
  BY <1>1, <1>2, PublicBidsStep DEF BidFacts
<1>5. \A b \in Auctions : ShieldedBidsSound(b)'
  BY <1>1, <1>2, ShieldedBidsStep DEF BidFacts
<1>6. \A r \in Registries, b \in Auctions : BindingsSound(r, b)'
  BY <1>2, <1>3, BindingsStep
<1>7. ASSUME NEW v \in Vaults, NEW c \in Commitments, commitments'[v][c].auctionId # 0
      PROVE  Bound(commitments[v][c].auctionId, c)'
  <2>1. commitments[v][c].auctionId # 0 => Bound(commitments[v][c].auctionId, c)
    BY <1>1 DEF BidFacts
  <2> QED
    BY <1>2, <1>3, <1>7, <2>1, BoundStep
<1>8. BidFacts'
  BY <1>4, <1>5, <1>6, <1>7, Zenon DEF BidFacts, Auctions, Registries, Vaults, Commitments
<1> QED
  BY <1>1, <1>8 DEF BidInv

LEMMA InitBids == Init => BidInv
<1> SUFFICES ASSUME Init
             PROVE  BidInv
  OBVIOUS
<1>1. VaultInv
  BY InitType, InitVaults DEF VaultInv
<1>2. \A b \in Auctions : PublicBidsSound(b) /\ ShieldedBidsSound(b)
  BY DEF Init, PublicBidsSound, ShieldedBidsSound, Live
<1>3. \A r \in Registries, b \in Auctions : BindingsSound(r, b)
  BY DEF Init, RegistryInit, BindingsSound
<1>4. \A v \in Vaults, c \in Commitments : commitments[v][c].auctionId = 0
  BY DEF Init, VaultInit
<1> QED
  BY <1>1, <1>2, <1>3, <1>4 DEF BidInv, BidFacts

LEMMA SpecBids == Spec => []BidInv
<1>1. Init => BidInv
  BY InitBids
<1>2. BidInv /\ [Next]_vars => BidInv'
  BY NextBids
<1> QED
  BY <1>1, <1>2, PTL DEF Spec

LEMMA BidsSettle == BidInv => BidsSettleable
<1>1. ASSUME BidInv, NEW a \in Auctions, state[a] = "RESOLVING", NEW u \in bidders[a],
             encryptedBids[a][u].payload # 0
      PROVE  ResolutionAdmissible(a, u, encryptedBids[a][u], encryptedBids[a][u].payload)
  <2>1. PublicBidsSound(a) /\ u \in Accounts
    BY <1>1 DEF BidInv, BidFacts, VaultInv, TypeOK, BidTypeOK
  <2>2. /\ Numeric(encryptedBids[a][u])
        /\ encryptedBids[a][u].payload <= escrowBalances[a][u]
        /\ encryptedBids[a][u].payload >= listing[a].startingPrice
    BY <1>1, <2>1 DEF PublicBidsSound, Live
  <2>3. encryptedBids[a][u] # ZeroWord /\ u # 0
    BY <1>1, <2>1 DEF ZeroWord, Accounts
  <2> QED
    BY <1>1, <2>2, <2>3 DEF ResolutionAdmissible
<1>2. ASSUME BidInv, NEW a \in Auctions, state[a] = "RESOLVING", NEW c \in shieldedBidders[a],
             shieldedEncryptedBids[a][c].payload # 0
      PROVE  LET bid == shieldedEncryptedBids[a][c]
                 i   == commitmentToIdentity[RegistryOf(a)][a][c] IN
             /\ i # 0
             /\ ShieldedResolutionAdmissible(a, i, c, bid, bid.payload)
             /\ bid.payload <= commitments[VaultOf(a)][c].amount
             /\ bid.payload <= auctionTotals[VaultOf(a)][a]
  <2>0. TypeOK /\ VaultFacts /\ BidFacts
    BY <1>1, <1>2 DEF BidInv, VaultInv
  <2>1. ShieldedBidsSound(a) /\ c \in Commitments /\ c # 0
    BY <1>2, <2>0 DEF BidFacts, TypeOK, BidTypeOK, Commitments
  <2> PICK v \in Vaults : v = VaultOf(a)
    BY <1>2, <2>0, <2>1, SnapshotType DEF ShieldedBidsSound, Live
  <2>2. /\ v # 0
        /\ commitments[v][c].auctionId = a /\ commitments[v][c].amount # 0
        /\ shieldedEncryptedBids[a][c].payload <= commitments[v][c].amount
        /\ shieldedEncryptedBids[a][c].payload >= listing[a].startingPrice
    BY <1>2, <2>1 DEF ShieldedBidsSound, Live
  <2>3. Bound(a, c) /\ ~commitments[v][c].claimed
    <3>1. a # 0
      BY DEF Auctions
    <3> QED
      BY <2>0, <2>1, <2>2, <3>1 DEF BidFacts, VaultFacts, DepositSound
  <2>4. shieldedEncryptedBids[a][c] # ZeroWord
    BY <1>2 DEF ZeroWord
  <2>5. shieldedEncryptedBids[a][c].payload <= auctionTotals[v][a]
    <3>1. /\ shieldedEncryptedBids[a][c].payload \in Nat
          /\ commitments[v][c].amount \in Nat /\ auctionTotals[v][a] \in Nat
      BY <2>0, <2>1, VaultTypes DEF TypeOK, BidTypeOK, Ciphertext
    <3>2. commitments[v][c].amount <= auctionTotals[v][a]
      <4>1. AmountsOf(v, a)[c] = commitments[v][c].amount
        BY <2>1, <2>2 DEF AmountsOf
      <4>2. auctionTotals[v][a] = SumTo(AmountsOf(v, a), NumCommitments)
        BY <2>0, VaultTotalsSums DEF VaultFacts, VaultSolvent
      <4>3. /\ AmountsOf(v, a) \in [1..NumCommitments -> Nat]
            /\ NumCommitments \in Nat /\ c \in 1..NumCommitments
        BY <2>0, <2>1, VaultTypes, DomainAssumption DEF Commitments
      <4> QED
        BY <4>1, <4>2, <4>3, SumBound
    <3> QED
      BY <2>2, <3>1, <3>2
  <2>6. /\ VaultOf(a) # 0 /\ shieldedEncryptedBids[a][c].payload >= listing[a].startingPrice
        /\ commitments[VaultOf(a)][c].auctionId = a /\ ~commitments[VaultOf(a)][c].claimed
        /\ shieldedEncryptedBids[a][c].payload <= commitments[VaultOf(a)][c].amount
        /\ shieldedEncryptedBids[a][c].payload <= auctionTotals[VaultOf(a)][a]
    BY <2>2, <2>3, <2>5
  <2>7. /\ RegistryOf(a) # 0 /\ commitmentToIdentity[RegistryOf(a)][a][c] # 0
        /\ c = identityToCommitment[RegistryOf(a)][a][commitmentToIdentity[RegistryOf(a)][a][c]]
    BY <2>3 DEF Bound
  <2> HIDE DEF Bound
  <2> QED
    BY <1>2, <2>1, <2>4, <2>6, <2>7, Zenon DEF ShieldedResolutionAdmissible
<1> QED
  BY <1>1, <1>2, Zenon DEF BidsSettleable

(* What placeBid and placeShieldedBid have checked of a bid still holds    *)
(* when submitResolution, or submitShieldedResolution with the vault's     *)
(* settleWinningCommitment, checks it again, for every number of auctions, *)
(* vaults, registries and bidders: no bid that could win is refused.       *)
THEOREM BidsAlwaysSettleable == Spec => []BidsSettleable
BY BidsSettle, SpecBids, PTL

(* Counting: the slots that hold a word are those of the bidders, if no    *)
(* bid is the empty word.  The market decodes every public bid and every   *)
(* shielded one that a MOCK verifier passed; only the ZK verifier takes a  *)
(* word that does not decode.                                              *)
WordsDecode == ZeroWord \notin BidCiphertexts \/ "ZK" \notin Verifiers \cup {VerifierAtStart}

Counted(a) ==
  /\ bidCount[a] = Cardinality(bidders[a]) + Cardinality(shieldedBidders[a])
  /\ \A u \in Accounts : encryptedBids[a][u] = ZeroWord <=> u \notin bidders[a]
  /\ \A c \in Commitments : shieldedEncryptedBids[a][c] = ZeroWord <=> c \notin shieldedBidders[a]

VerifiersKnown == \A v \in Vaults : shieldedBidVerifier[v] \in Verifiers \cup {VerifierAtStart}

CountInv == TypeOK /\ ListingTimes /\ VerifiersKnown /\ \A a \in Auctions : Counted(a)

LEMMA VerifiersStep ==
  ASSUME TypeOK, VerifiersKnown, [Next]_vars
  PROVE  VerifiersKnown'
<1>1. shieldedBidVerifier \in [Vaults -> VerifierKind]
  BY DEF TypeOK, VaultTypeOK
<1>2. CASE UNCHANGED shieldedBidVerifier
  BY <1>2 DEF VerifiersKnown
<1>3. ASSUME NEW v \in Vaults, NEW k \in Verifiers, Vault_setShieldedBidVerifier(v, k)
      PROVE  VerifiersKnown'
  BY <1>1, <1>3 DEF Vault_setShieldedBidVerifier, VerifiersKnown
<1>4. ASSUME NEW a \in Auctions, Resolve(a) \/ Claim(a) \/ Bid(a)
      PROVE  UNCHANGED shieldedBidVerifier
  BY <1>4 DEF Resolve, triggerFinalize, submitResolution, submitShieldedResolution,
              cancelAuction, triggerFallbackVoid, Claim, claimRefund, claimSellerProceeds,
              claimFinalizeReward, claimAsset, claimShieldedAsset, Vault_authorizeAssetClaim,
              Bid, lockEscrow, placeBid, lockShieldedEscrow, Vault_lockEscrow, placeShieldedBid,
              vaultVars, vaultRecords
<1>5. ASSUME NewBlock \/ UNCHANGED vars
               \/ (\E value \in Donations : receive(value))
               \/ (\E t \in Tokens, u \in TokenRecipients : TransferToken(t, u))
               \/ (\E u \in Sellers, t \in Tokens, d \in Durations, p \in StartingPrices,
                     e \in Deposits : createAuction(u, t, d, p, e))
      PROVE  UNCHANGED shieldedBidVerifier
  BY <1>5 DEF NewBlock, receive, TransferToken, createAuction, vars, vaultVars
<1>6. ASSUME NEW v \in Vaults, NEW c \in Commitments, NEW u \in Recipients,
             NEW d \in Deadlines, NEW s \in Authorities, claimShieldedRefund(v, c, u, d, s)
      PROVE  UNCHANGED shieldedBidVerifier
  BY <1>6, Zenon DEF claimShieldedRefund, Vault_claimRefundWithAuthorization
<1>7. ASSUME Configure
      PROVE  \/ UNCHANGED shieldedBidVerifier
             \/ \E v \in Vaults, k \in Verifiers : Vault_setShieldedBidVerifier(v, k)
  BY <1>7 DEF Configure, setSettlementEngine, setSlashedPot, setShieldedEscrowVault,
              setShieldedIdentityRegistry, SetDependencies, WireContracts, Vault_setMarket, vaultVars
<1> QED
  BY <1>2, <1>3, <1>4, <1>5, <1>6, <1>7, Zenon DEF Next

(* A bid in an empty slot adds its bidder to the set, another one keeps it. *)
LEMMA OneMore ==
  ASSUME NEW n \in Nat, NEW S \in SUBSET (1..n), NEW x
  PROVE  /\ Cardinality(S) \in Nat
         /\ Cardinality(S \cup {x}) = IF x \in S THEN Cardinality(S) ELSE Cardinality(S) + 1
<1>1. IsFiniteSet(1..n)
  BY FS_Interval
<1>2. IsFiniteSet(S)
  BY <1>1, FS_Subset
<1> QED
  BY <1>2, FS_CardinalityType, FS_AddElement

LEMMA CountStep ==
  ASSUME WordsDecode, CountInv, [Next]_vars, NEW b \in Auctions
  PROVE  Counted(b)'
<1>0. /\ Counted(b) /\ TypeOK /\ BidTypeOK /\ VerifiersKnown
      /\ NumAccounts \in Nat /\ NumCommitments \in Nat
      /\ bidders[b] \in SUBSET (1..NumAccounts)
      /\ shieldedBidders[b] \in SUBSET (1..NumCommitments)
  BY DomainAssumption DEF CountInv, TypeOK, BidTypeOK, Accounts, Commitments
<1>1. CASE UNCHANGED bidVars
  BY <1>0, <1>1 DEF Counted, bidVars
<1>2. ASSUME NEW a \in Auctions, NEW u \in Bidders, NEW ct \in BidCiphertexts, placeBid(u, a, ct)
      PROVE  Counted(b)'
  <2>1. /\ ct # ZeroWord
        /\ bidCount' = [bidCount EXCEPT ![a] = IF encryptedBids[a][u] = ZeroWord THEN @ + 1 ELSE @]
        /\ bidders' = [bidders EXCEPT ![a] = @ \cup {u}]
        /\ encryptedBids' = [encryptedBids EXCEPT ![a][u] = ct]
        /\ UNCHANGED <<shieldedEncryptedBids, shieldedBidders>>
    BY <1>2 DEF placeBid, IsFirstBid, Numeric, ZeroWord
  <2>2. CASE a = b
    <3>1. /\ bidCount'[b] = IF encryptedBids[b][u] = ZeroWord THEN bidCount[b] + 1 ELSE bidCount[b]
          /\ bidders'[b] = bidders[b] \cup {u} /\ encryptedBids'[b][u] = ct
          /\ \A w \in Accounts \ {u} : encryptedBids'[b][w] = encryptedBids[b][w]
      BY <1>0, <2>1, <2>2, MarketAssumption DEF BidTypeOK
    <3>2. /\ Cardinality(bidders'[b]) = IF u \in bidders[b] THEN Cardinality(bidders[b])
                                        ELSE Cardinality(bidders[b]) + 1
          /\ Cardinality(bidders[b]) \in Nat /\ Cardinality(shieldedBidders[b]) \in Nat
      BY <1>0, <3>1, OneMore
    <3>3. u \in Accounts /\ (encryptedBids[b][u] = ZeroWord <=> u \notin bidders[b])
      BY <1>0, MarketAssumption DEF Counted
    <3>4. bidCount'[b] = Cardinality(bidders'[b]) + Cardinality(shieldedBidders[b])
      BY <1>0, <3>1, <3>2, <3>3 DEF Counted
    <3>5. \A w \in Accounts : encryptedBids'[b][w] = ZeroWord <=> w \notin bidders'[b]
      BY <1>0, <2>1, <3>1 DEF Counted
    <3> QED
      BY <1>0, <2>1, <3>4, <3>5 DEF Counted
  <2>3. CASE a # b
    BY <1>0, <2>1, <2>3 DEF Counted, BidTypeOK
  <2> QED
    BY <2>2, <2>3
<1>3. ASSUME NEW a \in Auctions, NEW c \in Commitments, NEW ct \in BidCiphertexts,
             NEW d \in Deadlines, placeShieldedBid(a, c, ct, d)
      PROVE  Counted(b)'
  <2>0. ct # ZeroWord
    <3> PICK v \in Vaults : v = VaultOf(a)
      BY <1>0, <1>3, SnapshotType DEF placeShieldedBid
    <3>1. Numeric(ct) \/ shieldedBidVerifier[v] = "ZK"
      BY <1>3 DEF placeShieldedBid, BidCovered
    <3>2. shieldedBidVerifier[v] \in Verifiers \cup {VerifierAtStart}
      BY <1>0 DEF VerifiersKnown
    <3> QED
      BY <3>1, <3>2 DEF WordsDecode, Numeric, ZeroWord
  <2>1. /\ bidCount' = [bidCount EXCEPT ![a] =
                          IF shieldedEncryptedBids[a][c] = ZeroWord THEN @ + 1 ELSE @]
        /\ shieldedBidders' = [shieldedBidders EXCEPT ![a] = @ \cup {c}]
        /\ shieldedEncryptedBids' = [shieldedEncryptedBids EXCEPT ![a][c] = ct]
        /\ UNCHANGED <<encryptedBids, bidders>>
    BY <1>3 DEF placeShieldedBid, IsFirstBid
  <2>2. CASE a = b
    <3>1. /\ bidCount'[b] = IF shieldedEncryptedBids[b][c] = ZeroWord THEN bidCount[b] + 1
                            ELSE bidCount[b]
          /\ shieldedBidders'[b] = shieldedBidders[b] \cup {c}
          /\ shieldedEncryptedBids'[b][c] = ct
          /\ \A o \in Commitments \ {c} :
               shieldedEncryptedBids'[b][o] = shieldedEncryptedBids[b][o]
      BY <1>0, <2>1, <2>2 DEF BidTypeOK
    <3>2. /\ Cardinality(shieldedBidders'[b]) =
               IF c \in shieldedBidders[b] THEN Cardinality(shieldedBidders[b])
               ELSE Cardinality(shieldedBidders[b]) + 1
          /\ Cardinality(bidders[b]) \in Nat /\ Cardinality(shieldedBidders[b]) \in Nat
      BY <1>0, <3>1, OneMore
    <3>3. shieldedEncryptedBids[b][c] = ZeroWord <=> c \notin shieldedBidders[b]
      BY <1>0 DEF Counted
    <3>4. bidCount'[b] = Cardinality(bidders[b]) + Cardinality(shieldedBidders'[b])
      BY <1>0, <3>1, <3>2, <3>3 DEF Counted
    <3>5. \A o \in Commitments : shieldedEncryptedBids'[b][o] = ZeroWord <=> o \notin shieldedBidders'[b]
      BY <1>0, <2>0, <3>1 DEF Counted
    <3> QED
      BY <1>0, <2>1, <3>4, <3>5 DEF Counted
  <2>3. CASE a # b
    BY <1>0, <2>1, <2>3 DEF Counted, BidTypeOK
  <2> QED
    BY <2>2, <2>3
<1> QED
  BY <1>1, <1>2, <1>3, WhoBids

(* bidCount is exact for every number of bidders and commitments, whatever *)
(* is bid again, as long as no zero word passes for a bid: in a deployment *)
(* without the ZK verifier none can, behind one its callers must not send  *)
(* any (placeBid, placeShieldedBid, verifyBidCoverageProof).               *)
THEOREM BidsCountedOnce ==
  ASSUME WordsDecode
  PROVE  Spec => []BidCountExact
<1>1. Init => CountInv
  <2> SUFFICES ASSUME Init
               PROVE  CountInv
    OBVIOUS
  <2>1. TypeOK /\ ListingTimes
    BY InitType
  <2>2. VerifiersKnown
    BY DEF Init, VaultInit, VerifiersKnown
  <2>3. \A a \in Auctions : Counted(a)
    BY FS_EmptySet DEF Init, Counted
  <2> QED
    BY <2>1, <2>2, <2>3 DEF CountInv
<1>2. CountInv /\ [Next]_vars => CountInv'
  <2> SUFFICES ASSUME CountInv, [Next]_vars
               PROVE  CountInv'
    OBVIOUS
  <2>1. TypeOK' /\ ListingTimes' /\ VerifiersKnown'
    BY NextType, ListingTimesStep, VerifiersStep DEF CountInv
  <2>2. \A a \in Auctions : Counted(a)'
    BY CountStep
  <2> QED
    BY <2>1, <2>2, Zenon DEF CountInv, Auctions
<1>3. CountInv => BidCountExact
  BY DEF CountInv, Counted, BidCountExact
<1> QED
  BY <1>1, <1>2, <1>3, PTL DEF Spec

-----------------------------------------------------------------------------
(* The keeper's choice.                                                    *)

(* The largest of a set of numbers that is bounded.                        *)
LEMMA BoundedMax ==
  ASSUME NEW S, S \subseteq Nat, S # {}, NEW n \in Nat, \A s \in S : s <= n
  PROVE  \E m \in S : \A s \in S : s <= m
<1> DEFINE T == {k \in Nat : (\A s \in S : s <= k) => \E m \in S : \A s \in S : s <= m}
<1>1. 0 \in T
  <2> SUFFICES ASSUME \A s \in S : s <= 0
               PROVE  \E m \in S : \A s \in S : s <= m
    OBVIOUS
  <2>1. PICK m \in S : TRUE
    OBVIOUS
  <2>2. m = 0 /\ \A s \in S : s <= m
    BY <2>1
  <2> QED
    BY <2>1, <2>2
<1>2. ASSUME NEW k \in Nat, k \in T
      PROVE  k + 1 \in T
  <2> SUFFICES ASSUME \A s \in S : s <= k + 1
               PROVE  \E m \in S : \A s \in S : s <= m
    OBVIOUS
  <2>1. CASE k + 1 \in S
    BY <2>1
  <2>2. CASE k + 1 \notin S
    <3>1. \A s \in S : s <= k
      BY <2>2
    <3> QED
      BY <1>2, <3>1
  <2> QED
    BY <2>1, <2>2
<1> HIDE DEF T
<1>3. n \in T
  BY <1>1, <1>2, SetInduction
<1> QED
  BY <1>3 DEF T

(* The records of the two lanes, one by one.                               *)
PublicRecord(a, u) ==
  [isShielded |-> FALSE, bidder |-> u, encryptedBid |-> encryptedBids[a][u],
   availableEscrow |-> escrowBalances[a][u]]

CurrentVaultId == dependencies.shieldedEscrowVault
CurrentRegistry == dependencies.shieldedIdentityRegistry

ShieldedRecord(a, c) ==
  [isShielded |-> TRUE, bidder |-> IdentityFor(CurrentRegistry, a, c),
   encryptedBid |-> shieldedEncryptedBids[a][c],
   availableEscrow |-> commitments[CurrentVaultId][c].amount]

Held(a) ==
  {c \in shieldedBidders[a] :
     CurrentVaultId # 0 /\ commitments[CurrentVaultId][c].auctionId = a
     /\ ~refundsUnlocked[CurrentVaultId][a] /\ ~commitments[CurrentVaultId][c].claimed}

LEMMA Collected ==
  ASSUME NEW a
  PROVE  CollectEncryptedBids(a) =
           {PublicRecord(a, u) : u \in bidders[a]} \cup {ShieldedRecord(a, c) : c \in Held(a)}
BY Zenon DEF CollectEncryptedBids, PublicBidRecords, ShieldedBidRecords, PublicRecord,
             ShieldedRecord, Held, CurrentVaultId, CurrentRegistry

LEMMA CurrentVaultType ==
  ASSUME TypeOK, CurrentVaultId # 0
  PROVE  CurrentVaultId \in Vaults
BY DomainAssumption DEF TypeOK, Dependencies, CurrentVaultId, Vaults

LEMMA RecordTypes ==
  ASSUME TypeOK, NEW a \in Auctions, NEW b \in CollectEncryptedBids(a)
  PROVE  /\ b.encryptedBid.payload \in Nat /\ b.availableEscrow \in Nat
         /\ b.availableEscrow <= EscrowSum(a)
              + (IF CurrentVaultId = 0 THEN 0 ELSE SumTo(Amounts(CurrentVaultId), NumCommitments))
         /\ EscrowSum(a) \in Nat
         /\ CurrentVaultId # 0 => SumTo(Amounts(CurrentVaultId), NumCommitments) \in Nat
<1>1. /\ bidders[a] \subseteq Accounts /\ shieldedBidders[a] \subseteq Commitments
      /\ \A u \in Accounts : encryptedBids[a][u].payload \in Nat /\ escrowBalances[a][u] \in Nat
      /\ \A c \in Commitments : shieldedEncryptedBids[a][c].payload \in Nat
  BY DEF TypeOK, BidTypeOK, EscrowTypeOK, Ciphertext
<1>2. EscrowSum(a) \in Nat /\ \A u \in Accounts : escrowBalances[a][u] <= EscrowSum(a)
  <2> DEFINE f == [u \in Accounts |-> escrowBalances[a][u]]
  <2>1. f \in [1..NumAccounts -> Nat] /\ NumAccounts \in Nat
    BY <1>1, DomainAssumption DEF Accounts
  <2>2. SumTo(f, NumAccounts) \in Nat /\ \A u \in Accounts : f[u] <= SumTo(f, NumAccounts)
    BY <2>1, SumBound, Zenon DEF Accounts
  <2> QED
    BY <2>2 DEF EscrowSum
<1>3. ASSUME CurrentVaultId # 0
      PROVE  /\ SumTo(Amounts(CurrentVaultId), NumCommitments) \in Nat
             /\ \A c \in Commitments : /\ commitments[CurrentVaultId][c].amount \in Nat
                                       /\ commitments[CurrentVaultId][c].amount
                                            <= SumTo(Amounts(CurrentVaultId), NumCommitments)
  <2> PICK v \in Vaults : v = CurrentVaultId
    BY <1>3, CurrentVaultType
  <2>1. Amounts(v) \in [1..NumCommitments -> Nat] /\ NumCommitments \in Nat
    BY VaultTypes, DomainAssumption DEF Commitments
  <2>2. SumTo(Amounts(v), NumCommitments) \in Nat
        /\ \A c \in Commitments : Amounts(v)[c] <= SumTo(Amounts(v), NumCommitments)
    BY <2>1, SumBound, Zenon DEF Commitments
  <2>3. \A c \in Commitments : Amounts(v)[c] = commitments[v][c].amount
                               /\ commitments[v][c].amount \in Nat
    BY VaultTypes DEF Amounts
  <2> QED
    BY <2>2, <2>3
<1>4. CASE \E u \in bidders[a] : b = PublicRecord(a, u)
  BY <1>1, <1>2, <1>3, <1>4 DEF PublicRecord
<1>5. CASE \E c \in Held(a) : b = ShieldedRecord(a, c)
  <2> PICK c \in Held(a) : b = ShieldedRecord(a, c)
    BY <1>5
  <2>1. /\ CurrentVaultId # 0 /\ c \in Commitments
        /\ b.encryptedBid = shieldedEncryptedBids[a][c]
        /\ b.availableEscrow = commitments[CurrentVaultId][c].amount
    BY <1>1 DEF Held, ShieldedRecord
  <2> QED
    BY <1>1, <1>2, <1>3, <2>1
<1> QED
  BY <1>4, <1>5, Collected, Zenon

(* Among bids that reach the price and are covered one is the highest.     *)
LEMMA HighestExists ==
  ASSUME TypeOK, NEW a \in Auctions, NEW p,
         Eligible(CollectEncryptedBids(a), p) # {}
  PROVE  PickHighest(CollectEncryptedBids(a), p) # {}
<1> DEFINE E == Eligible(CollectEncryptedBids(a), p)
           S == {b.encryptedBid.payload : b \in E}
           n == EscrowSum(a)
                  + (IF CurrentVaultId = 0 THEN 0 ELSE SumTo(Amounts(CurrentVaultId), NumCommitments))
<1>1. \A b \in E : /\ b \in CollectEncryptedBids(a)
                   /\ b.encryptedBid.payload <= b.availableEscrow
  BY DEF Eligible
<1>2. ASSUME NEW b \in E
      PROVE  n \in Nat /\ b.encryptedBid.payload \in Nat /\ b.encryptedBid.payload <= n
  <2>1. b \in CollectEncryptedBids(a) /\ b.encryptedBid.payload <= b.availableEscrow
    BY <1>1
  <2> QED
    BY <2>1, RecordTypes
<1> HIDE DEF E, n
<1>3. PICK b0 : b0 \in E
  BY DEF E
<1>4. S \subseteq Nat /\ S # {} /\ n \in Nat /\ \A s \in S : s <= n
  BY <1>2, <1>3
<1>5. PICK m \in S : \A s \in S : s <= m
  <2> HIDE DEF S
  <2> QED
    BY <1>4, BoundedMax
<1>6. PICK b \in E : b.encryptedBid.payload = m
  OBVIOUS
<1>7. \A o \in E : o.encryptedBid.payload <= b.encryptedBid.payload
  BY <1>5, <1>6
<1> QED
  BY <1>6, <1>7 DEF PickHighest, E

(* The dispatcher takes what it picked itself.                             *)
LEMMA CollectedParses ==
  ASSUME TypeOK, NEW a \in Auctions, NEW b \in CollectEncryptedBids(a),
         b.encryptedBid.payload # 0
  PROVE  ParseLiveResolution(CollectEncryptedBids(a), ResolutionFor(b))
<1>1. b.encryptedBid.payload \in Nat
  BY RecordTypes
<1>2. ASSUME NEW u \in bidders[a], b = PublicRecord(a, u)
      PROVE  b.bidder # 0 /\ b.isShielded \in BOOLEAN
  BY <1>2 DEF PublicRecord, TypeOK, BidTypeOK, Accounts
<1>3. ASSUME NEW c \in Held(a), b = ShieldedRecord(a, c)
      PROVE  b.bidder # 0 /\ b.isShielded \in BOOLEAN
  <2>1. b.isShielded = TRUE /\ b.bidder = IdentityFor(CurrentRegistry, a, c)
    BY <1>3 DEF ShieldedRecord
  <2>2. c \in Nat /\ c # 0 /\ NumIdentities \in Nat
    BY DomainAssumption DEF Held, TypeOK, BidTypeOK, Commitments
  <2>3. NumIdentities + c # 0
    BY <2>2
  <2> QED
    BY <2>1, <2>3 DEF IdentityFor
<1>4. b.bidder # 0 /\ b.isShielded \in BOOLEAN
  <2>1. \/ b \in {PublicRecord(a, u) : u \in bidders[a]}
        \/ b \in {ShieldedRecord(a, c) : c \in Held(a)}
    BY Collected, Zenon
  <2>2. (\E u \in bidders[a] : b = PublicRecord(a, u)) \/ (\E c \in Held(a) : b = ShieldedRecord(a, c))
    BY <2>1
  <2> QED
    BY <1>2, <1>3, <2>2, Zenon
<1> QED
  BY <1>1, <1>4 DEF ParseLiveResolution, ResolutionFor

(* What the keeper picks the market admits, a shielded bid if the identity *)
(* comes from the registry that bound it.                                  *)
LEMMA CollectedAdmitted ==
  ASSUME BidInv, NEW a \in Auctions, state[a] = "RESOLVING",
         NEW b \in CollectEncryptedBids(a), b.encryptedBid.payload # 0,
         ~b.isShielded \/ CurrentRegistry = RegistryOf(a)
  PROVE  Admitted(a, ResolutionFor(b))
<1>0. TypeOK /\ VaultFacts /\ BidsSettleable
  BY BidsSettle DEF BidInv, VaultInv
<1>1. ASSUME NEW u \in bidders[a], b = PublicRecord(a, u)
      PROVE  Admitted(a, ResolutionFor(b))
  <2>1. /\ b.isShielded = FALSE /\ b.bidder = u /\ b.encryptedBid = encryptedBids[a][u]
    BY <1>1 DEF PublicRecord
  <2>2. ResolutionAdmissible(a, u, b.encryptedBid, b.encryptedBid.payload)
    BY <1>0, <2>1 DEF BidsSettleable
  <2> QED
    BY <2>1, <2>2 DEF Admitted, ResolutionFor
<1>2. ASSUME NEW c \in Held(a), b = ShieldedRecord(a, c)
      PROVE  Admitted(a, ResolutionFor(b))
  <2> DEFINE i == commitmentToIdentity[RegistryOf(a)][a][c]
  <2>1. /\ b.isShielded = TRUE /\ b.bidder = IdentityFor(RegistryOf(a), a, c)
        /\ b.encryptedBid = shieldedEncryptedBids[a][c]
        /\ c \in shieldedBidders[a] /\ c \in Commitments
    BY <1>0, <1>2 DEF ShieldedRecord, Held, TypeOK, BidTypeOK
  <2>2. /\ i # 0
        /\ ShieldedResolutionAdmissible(a, i, c, b.encryptedBid, b.encryptedBid.payload)
        /\ b.encryptedBid.payload <= commitments[VaultOf(a)][c].amount
        /\ b.encryptedBid.payload <= auctionTotals[VaultOf(a)][a]
    BY <1>0, <2>1 DEF BidsSettleable
  <2>3. RegistryOf(a) \in Registries /\ RegistryOf(a) # 0
    BY <1>0, <2>2, SnapshotType DEF ShieldedResolutionAdmissible
  <2>4. i \in Identities
    BY <1>0, <2>1, <2>2, <2>3, DomainAssumption DEF TypeOK, RegistryTypeOK, Identities
  <2>5. b.bidder = i /\ identityToCommitment[RegistryOf(a)][a][i] = c
    BY <2>1, <2>2, <2>3 DEF IdentityFor, ShieldedResolutionAdmissible
  <2> HIDE DEF i
  <2> QED
    BY <2>1, <2>2, <2>4, <2>5 DEF Admitted, ResolutionFor
<1>3. \/ b \in {PublicRecord(a, u) : u \in bidders[a]}
      \/ b \in {ShieldedRecord(a, c) : c \in Held(a)}
  BY Collected, Zenon
<1>4. (\E u \in bidders[a] : b = PublicRecord(a, u)) \/ (\E c \in Held(a) : b = ShieldedRecord(a, c))
  BY <1>3
<1> QED
  BY <1>1, <1>2, <1>4, Zenon

(* What the market would admit the keeper has among the eligible bids.     *)
LEMMA AdmittedEligible ==
  ASSUME BidInv, NEW a \in Auctions, state[a] = "RESOLVING",
         NEW other \in Candidates(a), Admitted(a, other),
         other.winnerKind = "public" \/ CurrentVaultId = VaultOf(a)
  PROVE  \E b \in Eligible(CollectEncryptedBids(a), listing[a].startingPrice) :
           b.encryptedBid.payload = other.winningAmount
<1>0. TypeOK /\ VaultFacts /\ BidsSettleable /\ BidFacts
  BY BidsSettle DEF BidInv, VaultInv
<1>1. ASSUME NEW u \in bidders[a],
             other = [winnerKind |-> "public", winner |-> u,
                      winnerCiphertext |-> encryptedBids[a][u],
                      winningAmount |-> encryptedBids[a][u].payload]
      PROVE  \E b \in Eligible(CollectEncryptedBids(a), listing[a].startingPrice) :
               b.encryptedBid.payload = other.winningAmount
  <2>1. u # 0
    BY <1>0 DEF TypeOK, BidTypeOK, Accounts
  <2>2. /\ encryptedBids[a][u].payload >= listing[a].startingPrice
        /\ encryptedBids[a][u].payload <= escrowBalances[a][u]
    BY <1>1, <2>1 DEF Admitted, ResolutionAdmissible
  <2>3. PublicRecord(a, u) \in CollectEncryptedBids(a)
    BY Collected, Zenon
  <2>4. /\ PublicRecord(a, u).encryptedBid = encryptedBids[a][u]
        /\ PublicRecord(a, u).availableEscrow = escrowBalances[a][u]
    BY DEF PublicRecord
  <2>5. listing[a].startingPrice \in Nat /\ encryptedBids[a][u].payload \in Nat
    BY <1>0, SnapshotType DEF TypeOK, BidTypeOK, Ciphertext
  <2>6. listing[a].startingPrice <= encryptedBids[a][u].payload
    BY <2>2, <2>5
  <2>7. PublicRecord(a, u) \in Eligible(CollectEncryptedBids(a), listing[a].startingPrice)
    BY <2>2, <2>3, <2>4, <2>6 DEF Eligible
  <2> QED
    BY <1>1, <2>4, <2>7
<1>2. ASSUME NEW c \in shieldedBidders[a],
             other = [winnerKind |-> "shielded",
                      winner |-> commitmentToIdentity[RegistryOf(a)][a][c],
                      winnerCiphertext |-> shieldedEncryptedBids[a][c],
                      winningAmount |-> shieldedEncryptedBids[a][c].payload]
      PROVE  \E b \in Eligible(CollectEncryptedBids(a), listing[a].startingPrice) :
               b.encryptedBid.payload = other.winningAmount
  <2>1. shieldedEncryptedBids[a][c].payload # 0
    BY <1>2 DEF Admitted, ShieldedResolutionAdmissible
  <2>2. /\ ShieldedResolutionAdmissible(a, commitmentToIdentity[RegistryOf(a)][a][c], c,
             shieldedEncryptedBids[a][c], shieldedEncryptedBids[a][c].payload)
        /\ shieldedEncryptedBids[a][c].payload <= commitments[VaultOf(a)][c].amount
    BY <1>0, <2>1 DEF BidsSettleable
  <2>3. /\ VaultOf(a) # 0 /\ VaultOf(a) \in Vaults
        /\ commitments[VaultOf(a)][c].auctionId = a /\ ~commitments[VaultOf(a)][c].claimed
        /\ shieldedEncryptedBids[a][c].payload >= listing[a].startingPrice
    BY <1>0, <2>2, SnapshotType DEF ShieldedResolutionAdmissible
  <2>4. ~refundsUnlocked[VaultOf(a)][a]
    BY <1>0, <2>3 DEF VaultFacts, PathSound, Terminal
  <2>10. CurrentVaultId = VaultOf(a)
    BY <1>2
  <2>5. ShieldedRecord(a, c) \in CollectEncryptedBids(a)
    <3>1. c \in Held(a)
      BY <2>3, <2>4, <2>10 DEF Held
    <3> QED
      BY <3>1, Collected, Zenon
  <2>6. /\ ShieldedRecord(a, c).encryptedBid = shieldedEncryptedBids[a][c]
        /\ ShieldedRecord(a, c).availableEscrow = commitments[VaultOf(a)][c].amount
    BY <2>10 DEF ShieldedRecord
  <2>7. listing[a].startingPrice \in Nat /\ shieldedEncryptedBids[a][c].payload \in Nat
    BY <1>0, SnapshotType DEF TypeOK, BidTypeOK, Ciphertext
  <2>8. listing[a].startingPrice <= shieldedEncryptedBids[a][c].payload
    BY <2>3, <2>7
  <2>9. ShieldedRecord(a, c) \in Eligible(CollectEncryptedBids(a), listing[a].startingPrice)
    BY <2>2, <2>5, <2>6, <2>8 DEF Eligible
  <2> QED
    BY <1>2, <2>6, <2>9
<1> QED
  BY <1>1, <1>2, Zenon DEF Candidates

(* For every number of bids in either lane, and whatever the owner has     *)
(* rotated to, the outcome that the keeper works out from the chain passes *)
(* its own checks of an answer and, if its winner's identity is known, all *)
(* checks of the market, and no bid is higher that the market would take   *)
(* and the keeper can see (collectEncryptedBids, pickHighest,              *)
(* parseLiveResolution, submitResolution, submitShieldedResolution).       *)
THEOREM HighestBidAlwaysResolved == Spec => []HighestBidResolved
<1>1. ASSUME BidInv, NEW a \in Auctions, state[a] = "RESOLVING",
             NEW r \in Resolutions(a), r.winnerKind = "none" \/ r.winningAmount # 0
      PROVE  /\ ParseLiveResolution(CollectEncryptedBids(a), r)
             /\ r.winnerKind # "shielded" \/ CurrentRegistry = RegistryOf(a) => Admitted(a, r)
             /\ \A other \in Candidates(a) :
                  /\ Admitted(a, other)
                  /\ other.winnerKind = "public" \/ CurrentVaultId = VaultOf(a)
                  => other.winningAmount <= r.winningAmount
  <2> DEFINE bids == CollectEncryptedBids(a)
             best == PickHighest(bids, listing[a].startingPrice)
  <2>0. TypeOK
    BY <1>1 DEF BidInv, VaultInv
  <2>1. CASE best = {}
    <3>1. r = NoWinner
      BY <1>1, <2>1 DEF Resolutions
    <3>2. ParseLiveResolution(bids, r) /\ Admitted(a, r)
      BY <3>1 DEF ParseLiveResolution, NoWinner, Admitted, ResolutionAdmissible
    <3>3. \A other \in Candidates(a) :
            ~(Admitted(a, other) /\ (other.winnerKind = "public" \/ CurrentVaultId = VaultOf(a)))
      <4>1. Eligible(bids, listing[a].startingPrice) = {}
        BY <1>1, <2>0, <2>1, HighestExists
      <4> QED
        BY <1>1, <4>1, AdmittedEligible, Zenon
    <3> QED
      BY <3>2, <3>3
  <2>2. ASSUME NEW b \in best, r = ResolutionFor(b)
        PROVE  /\ ParseLiveResolution(bids, r)
               /\ r.winnerKind # "shielded" \/ CurrentRegistry = RegistryOf(a) => Admitted(a, r)
               /\ \A other \in Candidates(a) :
                    /\ Admitted(a, other)
                    /\ other.winnerKind = "public" \/ CurrentVaultId = VaultOf(a)
                    => other.winningAmount <= r.winningAmount
    <3>1. /\ b \in bids
          /\ \A o \in Eligible(bids, listing[a].startingPrice) :
               o.encryptedBid.payload <= b.encryptedBid.payload
      BY DEF PickHighest, Eligible
    <3>2. /\ r.winningAmount = b.encryptedBid.payload /\ b.encryptedBid.payload # 0
          /\ r.winnerKind # "shielded" => ~b.isShielded
      BY <1>1, <2>2 DEF ResolutionFor
    <3>3. ParseLiveResolution(bids, r)
      BY <2>0, <2>2, <3>1, <3>2, CollectedParses
    <3>4. r.winnerKind # "shielded" \/ CurrentRegistry = RegistryOf(a) => Admitted(a, r)
      BY <1>1, <2>2, <3>1, <3>2, CollectedAdmitted
    <3>5. ASSUME NEW other \in Candidates(a), Admitted(a, other),
                 other.winnerKind = "public" \/ CurrentVaultId = VaultOf(a)
          PROVE  other.winningAmount <= r.winningAmount
      <4> PICK o \in Eligible(bids, listing[a].startingPrice) :
                 o.encryptedBid.payload = other.winningAmount
        BY <1>1, <3>5, AdmittedEligible
      <4> HIDE DEF bids
      <4> QED
        BY <3>1, <3>2
    <3> QED
      BY <3>3, <3>4, <3>5
  <2>3. best = {} \/ \E b \in best : r = ResolutionFor(b)
    BY <1>1, Zenon DEF Resolutions
  <2> QED
    BY <2>1, <2>2, <2>3
<1>2. BidInv => HighestBidResolved
  BY <1>1, Zenon DEF HighestBidResolved, CurrentVaultId, CurrentRegistry
<1> QED
  BY <1>2, SpecBids, PTL

-----------------------------------------------------------------------------
(* The recovery path.                                                      *)

(* The deposit of a live auction is in the market.                         *)
LEMMA SlashInMarket ==
  ASSUME MoneyInv, NEW a \in Auctions, state[a] = "RESOLVING"
  PROVE  ComputeVoidSlash(a) <= marketBalance
<1> DEFINE g == [b \in 1..NumAuctions |-> Owed(b)]
<1>0. TypeOK /\ MarketSolvent /\ donated \in Nat /\ NumAccounts \in Nat /\ NumAuctions \in Nat
  BY DomainAssumption DEF MoneyInv, TypeOK, BalanceTypeOK
<1>1. ASSUME NEW b \in Auctions
      PROVE  Owed(b) \in Nat /\ SellerDue(b) \in Nat /\ SellerDue(b) <= Owed(b)
  <2> DEFINE h == [w \in 1..NumAccounts |-> RefundDue(b, w)]
  <2>1. h \in [1..NumAccounts -> Nat] /\ RefundsDue(b) = SumTo(h, NumAccounts)
    BY <1>0, DueType DEF RefundsDue, Accounts
  <2> HIDE DEF h
  <2>2. RefundsDue(b) \in Nat
    BY <1>0, <2>1, SumBound
  <2>3. SellerDue(b) \in Nat /\ RewardDue(b) \in Nat
    BY <1>0, DueType
  <2> QED
    BY <2>2, <2>3 DEF Owed
<1>2. g \in [1..NumAuctions -> Nat] /\ a \in 1..NumAuctions /\ g[a] = Owed(a)
      /\ marketBalance = SumTo(g, NumAuctions) + donated
  BY <1>0, <1>1 DEF MarketSolvent, Auctions
<1> HIDE DEF g
<1>3. SumTo(g, NumAuctions) \in Nat /\ Owed(a) <= SumTo(g, NumAuctions)
  BY <1>0, <1>2, SumBound
<1>4. SellerDue(a) = listing[a].sellerDeposit
  BY DEF SellerDue, Live
<1>5. ComputeVoidSlash(a) \in 0..listing[a].sellerDeposit /\ listing[a].sellerDeposit \in Nat
  BY <1>0, SlashRange, SnapshotType
<1> QED
  BY <1>0, <1>1, <1>2, <1>3, <1>4, <1>5

(* The timeout never exceeds MAX_DYNAMIC_TIMEOUT, with or without engine.  *)
LEMMA TimeoutBounded ==
  ASSUME TypeOK, NEW a \in Auctions
  PROVE  PreviewDynamicTimeoutForAuction(a) \in 0..MAX_DYNAMIC_TIMEOUT
<1>1. movingAverageBlockDelta \in Nat
  BY DEF TypeOK, ClockTypeOK, NETWORK_SAMPLE_CEILING
<1>2. computeDynamicTimeout(movingAverageBlockDelta) \in 0..MAX_DYNAMIC_TIMEOUT
  <2>1. computeDynamicTimeout(movingAverageBlockDelta) \in MIN_DYNAMIC_TIMEOUT..MAX_DYNAMIC_TIMEOUT
    BY <1>1, DynamicTimeoutBounded, Zenon
  <2> QED
    BY <2>1 DEF MIN_DYNAMIC_TIMEOUT, MAX_DYNAMIC_TIMEOUT
<1>3. DEFAULT_DYNAMIC_TIMEOUT \in 0..MAX_DYNAMIC_TIMEOUT
  BY DEF DEFAULT_DYNAMIC_TIMEOUT, MAX_DYNAMIC_TIMEOUT
<1> QED
  BY <1>2, <1>3 DEF PreviewDynamicTimeoutForAuction

(* No slash without escrow, and none for the pot without public escrow.    *)
LEMMA SlashNeedsEscrow ==
  ASSUME TypeOK, NEW a \in Auctions, ComputeVoidSlash(a) # 0
  PROVE  /\ VaultOf(a) = 0 => totalEscrow[a] # 0
         /\ VaultOf(a) # 0 =>
              /\ totalEscrow[a] + auctionTotals[VaultOf(a)][a] # 0
              /\ PublicSlashAllocation(VaultOf(a), a, ComputeVoidSlash(a), totalEscrow[a]) # 0
                   => totalEscrow[a] # 0
<1> PICK slash \in Nat : slash = ComputeVoidSlash(a)
  BY SlashRange, SnapshotType
<1>1. TotalEscrowIncludingShielded(a) # 0
  BY DEF ComputeVoidSlash
<1>2. totalEscrow[a] \in Nat /\ (VaultOf(a) # 0 => auctionTotals[VaultOf(a)][a] \in Nat)
  BY SnapshotType DEF TypeOK, EscrowTypeOK, VaultTypeOK
<1>3. CASE VaultOf(a) = 0
  BY <1>1, <1>2, <1>3 DEF TotalEscrowIncludingShielded, ShieldedEscrowTotal
<1>4. CASE VaultOf(a) # 0
  <2>1. totalEscrow[a] + auctionTotals[VaultOf(a)][a] # 0
    BY <1>1, <1>4 DEF TotalEscrowIncludingShielded, ShieldedEscrowTotal
  <2>2. ASSUME totalEscrow[a] = 0
        PROVE  PublicSlashAllocation(VaultOf(a), a, slash, totalEscrow[a]) = 0
    <3> PICK total \in Nat \ {0} : total = auctionTotals[VaultOf(a)][a]
      BY <1>2, <1>4, <2>1, <2>2
    <3>1. slash * 0 = 0 /\ 0 + total = total /\ 0 \div total = 0
      OBVIOUS
    <3>2. PublicSlashAllocation(VaultOf(a), a, slash, 0) = (slash * 0) \div (0 + total)
      BY Zenon DEF PublicSlashAllocation
    <3> QED
      BY <2>2, <3>1, <3>2
  <2> QED
    BY <1>4, <2>1, <2>2
<1> QED
  BY <1>3, <1>4

(* Whatever happened to the average, the balances and the token: from      *)
(* MAX_DYNAMIC_TIMEOUT after the start of resolution on, nothing reverts   *)
(* triggerFallbackVoid, unless the seller refuses the token or the owner   *)
(* configured a pot or a vault and did not wire it.  This is what          *)
(* FallbackAvailable says with ENABLED, guard by guard.                    *)
THEOREM FallbackAlwaysOpen == Spec => []FallbackOpen
<1> DEFINE Inv == MoneyInv /\ CustodyInv
<1>1. Init => Inv
  BY InitMoney, InitCustody
<1>2. Inv /\ [Next]_vars => Inv'
  BY NextMoney, NextCustody
<1>3. Inv => FallbackOpen
  <2> SUFFICES ASSUME MoneyInv, CustodyInv, NEW a \in Auctions, state[a] = "RESOLVING",
                      now - resolvingSince[a] >= MAX_DYNAMIC_TIMEOUT, Connected(a)
               PROVE  FallbackUnobstructed(a)
    BY DEF FallbackOpen
  <2>1. TypeOK
    BY DEF MoneyInv
  <2>2. Exists(a) /\ ValidTransition(state[a], "VOIDED")
    <3>1. Booked(a) /\ auctionCounter \in Nat /\ a \in Nat
      BY <2>1, DomainAssumption DEF MoneyInv, TypeOK, CreationTypeOK, Auctions
    <3> QED
      BY <3>1 DEF Booked, Exists, ValidTransition
  <2>3. now - resolvingSince[a] >= PreviewDynamicTimeoutForAuction(a)
    <3>1. now \in Nat /\ resolvingSince[a] \in Nat
      BY <2>1 DEF TypeOK, ClockTypeOK, PhaseTypeOK
    <3>2. PreviewDynamicTimeoutForAuction(a) \in 0..MAX_DYNAMIC_TIMEOUT /\ MAX_DYNAMIC_TIMEOUT \in Nat
      BY <2>1, TimeoutBounded DEF MAX_DYNAMIC_TIMEOUT
    <3> QED
      BY <3>1, <3>2
  <2>4. nftOwner[listing[a].tokenId] = Market
    BY DEF CustodyInv, Custody, InCustody, Live
  <2> QED
    BY <2>1, <2>2, <2>3, <2>4, SlashInMarket, SlashNeedsEscrow, Zenon
       DEF FallbackUnobstructed, Connected
<1> QED
  BY <1>1, <1>2, <1>3, PTL DEF Spec

-----------------------------------------------------------------------------
(* Sales in escrow.                                                        *)

SaleInv == MoneyInv /\ PotInv

(* A step that leaves an auction's dues alone.                             *)
SameRefunds(b) == \A u \in Accounts : RefundDue(b, u)' = RefundDue(b, u)
SameSealed(b) == \A c \in Commitments : SealedDue(b, c)' = SealedDue(b, c)
SameDues(b) ==
  /\ SaleStage(b)' = SaleStage(b)
  /\ SameRefunds(b) /\ SameSealed(b)
  /\ SellerDue(b)' = SellerDue(b) /\ RewardDue(b)' = RewardDue(b)

LEMMA DuesKept ==
  ASSUME \A b \in Auctions : SameDues(b)
  PROVE  UNCHANGED <<Stages, Refunds, Proceeds, Rewards, SealedDues>>
<1>1. Stages' = Stages /\ Proceeds' = Proceeds /\ Rewards' = Rewards
  BY DEF SameDues, Stages, Proceeds, Rewards
<1>2. Refunds' = Refunds
  BY DEF SameDues, SameRefunds, Refunds
<1>3. SealedDues' = SealedDues
  BY DEF SameDues, SameSealed, SealedDues
<1> QED
  BY <1>1, <1>2, <1>3

(* A step that changes the dues of one auction.                            *)
LEMMA StageMoves ==
  ASSUME NEW a \in Auctions, NEW t, SaleStage(a)' = t,
         \A b \in Auctions \ {a} : SameDues(b)
  PROVE  Stages' = [Stages EXCEPT ![a] = t]
BY DEF SameDues, Stages

LEMMA ProceedsMove ==
  ASSUME NEW a \in Auctions, NEW x, SellerDue(a)' = x,
         \A b \in Auctions \ {a} : SameDues(b)
  PROVE  Proceeds' = [Proceeds EXCEPT ![a] = x]
BY DEF SameDues, Proceeds

LEMMA RewardMoves ==
  ASSUME NEW a \in Auctions, NEW x, RewardDue(a)' = x,
         \A b \in Auctions \ {a} : SameDues(b)
  PROVE  Rewards' = [Rewards EXCEPT ![a] = x]
BY DEF SameDues, Rewards

LEMMA RefundMoves ==
  ASSUME NEW a \in Auctions, NEW u \in Accounts, NEW x, RefundDue(a, u)' = x,
         \A w \in Accounts \ {u} : RefundDue(a, w)' = RefundDue(a, w),
         \A b \in Auctions \ {a} : SameDues(b)
  PROVE  Refunds' = [Refunds EXCEPT ![a][u] = x]
<1>1. \A b \in Auctions \ {a} : Refunds'[b] = Refunds[b]
  BY DEF SameDues, SameRefunds, Refunds
<1>2. Refunds'[a] = [Refunds[a] EXCEPT ![u] = x]
  BY DEF Refunds
<1> QED
  BY <1>1, <1>2 DEF Refunds

LEMMA SealedMoves ==
  ASSUME NEW a \in Auctions, NEW c \in Commitments, NEW x, SealedDue(a, c)' = x,
         \A o \in Commitments \ {c} : SealedDue(a, o)' = SealedDue(a, o),
         \A b \in Auctions \ {a} : SameDues(b)
  PROVE  SealedDues' = [SealedDues EXCEPT ![a][c] = x]
<1>1. \A b \in Auctions \ {a} : SealedDues'[b] = SealedDues[b]
  BY DEF SameDues, SameSealed, SealedDues
<1>2. SealedDues'[a] = [SealedDues[a] EXCEPT ![c] = x]
  BY DEF SealedDues
<1> QED
  BY <1>1, <1>2 DEF SealedDues

LEMMA RefundsKept ==
  ASSUME NEW a \in Auctions, SameRefunds(a), \A b \in Auctions \ {a} : SameDues(b)
  PROVE  UNCHANGED Refunds
BY DEF SameDues, SameRefunds, Refunds

LEMMA SealedKept ==
  ASSUME NEW a \in Auctions, SameSealed(a), \A b \in Auctions \ {a} : SameDues(b)
  PROVE  UNCHANGED SealedDues
BY DEF SameDues, SameSealed, SealedDues

LEMMA DueValues ==
  ASSUME TypeOK, NEW a \in Auctions
  PROVE  /\ Stages[a] = SaleStage(a) /\ Proceeds[a] = SellerDue(a) /\ Rewards[a] = RewardDue(a)
         /\ \A u \in Accounts : Refunds[a][u] = RefundDue(a, u)
         /\ \A c \in Commitments : SealedDues[a][c] = SealedDue(a, c) /\ SealedDue(a, c) \in Nat
         /\ marketBalance \in Nat
<1>1. \A c \in Commitments : SealedDue(a, c) \in Nat
  BY SnapshotType, VaultTypes DEF SealedDue
<1> QED
  BY <1>1 DEF Stages, Proceeds, Rewards, Refunds, SealedDues, TypeOK, BalanceTypeOK

LEMMA SameBooksDues ==
  ASSUME NEW b \in Auctions, SameBooks(b), SameSealed(b)
  PROVE  SameDues(b)
<1>1. SameRefunds(b)
  BY SameRefund DEF SameBooks, SameRefunds
<1>2. PreviewSellerPayout(b)' = PreviewSellerPayout(b)
  BY DEF PreviewSellerPayout, SameBooks
<1>3. SellerDue(b)' = SellerDue(b) /\ RewardDue(b)' = RewardDue(b)
  BY <1>2 DEF SellerDue, RewardDue, SameBooks
<1>4. SaleStage(b)' = SaleStage(b)
  BY DEF SaleStage, SameBooks
<1> QED
  BY <1>1, <1>3, <1>4 DEF SameDues

LEMMA SealedUntouched ==
  ASSUME UNCHANGED commitments, NEW b \in Auctions, listing'[b] = listing[b]
  PROVE  SameSealed(b)
BY DEF SameSealed, SealedDue, VaultOf

(* Steps that neither pay nor owe anything.                                *)
LEMMA QuietSale ==
  ASSUME UNCHANGED <<creationVars, phaseVars, outcomeVars, requestVars, escrowVars>>,
         UNCHANGED <<sellerClaimed, finalizationRewardClaimed>>,
         UNCHANGED <<commitments, auctionTotals>>, UNCHANGED marketBalance
  PROVE  UNCHANGED Sales!saleView
<1>1. \A b \in Auctions : SameDues(b)
  BY SameLedger, SealedUntouched, SameBooksDues DEF creationVars
<1> QED
  BY <1>1, DuesKept DEF Sales!saleView, Sales!dues

LEMMA createAuctionLists ==
  ASSUME SaleInv, NEW u \in Sellers, NEW t \in Tokens, NEW d \in Durations,
         NEW p \in StartingPrices, NEW e \in Deposits, createAuction(u, t, d, p, e)
  PROVE  \E s \in Auctions : Sales!List(s)
<1>0. PICK a \in Auctions : a = auctionCounter + 1
  BY DomainAssumption DEF createAuction, SaleInv, MoneyInv, TypeOK, CreationTypeOK, Auctions
<1>1. auctionCounter' = a /\ auctionCounter \in Nat /\ e \in Nat /\ e # 0 /\ TypeOK
  BY <1>0, DomainAssumption, MarketAssumption
     DEF createAuction, SaleInv, MoneyInv, TypeOK, CreationTypeOK, Auctions
<1>2. /\ state' = [state EXCEPT ![a] = "ACTIVE"] /\ state[a] = "CREATED"
      /\ state \in [Auctions -> AuctionState]
  BY <1>0, <1>1 DEF createAuction, TransitionState, ValidTransition, TypeOK, PhaseTypeOK
<1>3. /\ \A b \in Auctions : b # a => listing'[b] = listing[b]
      /\ listing'[a].sellerDeposit = e
  BY <1>0, <1>1 DEF createAuction, TypeOK, CreationTypeOK
<1>4. /\ marketBalance' = marketBalance + e
      /\ UNCHANGED <<slashAmount, outcomeVars, requestVars, claimFlags, escrowVars,
                     auctionTotals, commitments>>
  BY DEF createAuction, vaultVars
<1>5. state'[a] = "ACTIVE"
  BY <1>2
<1>6. ASSUME NEW b \in Auctions \ {a} PROVE SameDues(b)
  <2>1. TotalEscrowIncludingShielded(b)' = TotalEscrowIncludingShielded(b)
    BY <1>3, <1>4, SameTotal DEF escrowVars
  <2>2. b > auctionCounter' <=> b > auctionCounter
    BY <1>0, <1>1 DEF Auctions
  <2>3. SameBooks(b)
    BY <1>2, <1>3, <1>4, <2>1, <2>2
       DEF SameBooks, outcomeVars, requestVars, claimFlags, escrowVars
  <2> QED
    BY <1>3, <1>4, <2>3, SealedUntouched, SameBooksDues
<1>7. \A w \in Accounts : RefundDue(a, w) = 0 /\ RefundDue(a, w)' = 0
  <2>1. \A w \in Accounts : escrowBalances[a][w] = 0 /\ escrowBalances'[a][w] = 0
    BY <1>2, <1>4 DEF SaleInv, MoneyInv, Booked, escrowVars
  <2> QED
    BY <1>2, <1>5, <2>1 DEF RefundDue, PreviewEscrowRefund, Live, Terminal
<1>8. RewardDue(a) = 0 /\ RewardDue(a)' = 0 /\ SellerDue(a)' = e
  BY <1>2, <1>3, <1>5 DEF RewardDue, SellerDue, Live
(* No deposit was ever made for an auction that did not exist.             *)
<1>9. \A c \in Commitments : SealedDue(a, c) = 0 /\ SealedDue(a, c)' = 0
  <2>1. \A v \in Vaults, c \in Commitments : commitments[v][c].auctionId # a
    <3> TAKE v \in Vaults, c \in Commitments
    <3>1. DepositSound(v, c) /\ commitments[v][c].auctionId \in 0..NumAuctions /\ a # 0
      BY <1>1, VaultTypes DEF SaleInv, PotInv, VaultInv, VaultFacts, Auctions
    <3> QED
      BY <1>0, <1>1, <3>1 DEF DepositSound, Exists
  <2>2. /\ VaultOf(a) # 0 => VaultOf(a) \in Vaults
        /\ VaultOf(a)' # 0 => VaultOf(a)' \in Vaults
    <3>1. TypeOK'
      BY NextType DEF SaleInv, MoneyInv, Next
    <3> QED
      BY <1>1, <3>1, SnapshotType DEF VaultOf, TypeOK, CreationTypeOK, Listing, Dependencies, Vaults
  <2> QED
    BY <1>4, <2>1, <2>2 DEF SealedDue, Vaults
<1>10. Stages' = [Stages EXCEPT ![a] = "open"] /\ Stages[a] = "unlisted"
  <2>1. SaleStage(a) = "unlisted" /\ SaleStage(a)' = "open"
    BY <1>2, <1>5, Zenon DEF SaleStage, Live
  <2> QED
    BY <1>6, <2>1, StageMoves DEF Stages
<1>11. Proceeds' = [Proceeds EXCEPT ![a] = e] /\ Rewards' = Rewards /\ Rewards[a] = 0
  <2>1. Rewards' = [Rewards EXCEPT ![a] = 0]
    BY <1>6, <1>8, RewardMoves
  <2> QED
    BY <1>1, <1>6, <1>8, <2>1, ProceedsMove, DueValues DEF Rewards
<1>12. Refunds' = Refunds /\ Refunds[a] = [w \in Accounts |-> 0]
  BY <1>6, <1>7, RefundsKept DEF SameRefunds, Refunds
<1>13. SealedDues' = SealedDues /\ SealedDues[a] = [c \in Commitments |-> 0]
  BY <1>6, <1>9, SealedKept DEF SameSealed, SealedDues
<1>14. marketBalance \in Nat /\ marketBalance' - marketBalance = e
  BY <1>1, <1>4 DEF TypeOK, BalanceTypeOK
<1>15. Sales!List(a)
  <2>1. Proceeds' = [Proceeds EXCEPT ![a] = marketBalance' - marketBalance]
    BY <1>11, <1>14, Zenon
  <2>2. marketBalance' - marketBalance > 0
    BY <1>1, <1>14
  <2> QED
    BY <1>10, <1>11, <1>12, <1>13, <2>1, <2>2, Zenon
       DEF Sales!List, Sales!PaidIn, Sales!NoRefund, Sales!NothingSealed
<1> QED
  BY <1>15

LEMMA lockEscrowAdds ==
  ASSUME SaleInv, NEW u \in Bidders, NEW a \in Auctions, NEW value \in EscrowAmounts,
         lockEscrow(u, a, value)
  PROVE  u \in Accounts /\ Sales!AddEscrow(a, u)
<1>1. u \in Accounts /\ value \in Nat /\ TypeOK
  BY MarketAssumption DEF SaleInv, MoneyInv
<1>2. /\ state[a] = "ACTIVE" /\ value # 0
      /\ escrowBalances' = [escrowBalances EXCEPT ![a][u] = @ + value]
      /\ totalEscrow' = [totalEscrow EXCEPT ![a] = @ + value]
      /\ marketBalance' = marketBalance + value
      /\ UNCHANGED <<creationVars, phaseVars, outcomeVars, requestVars, claimFlags,
                     auctionTotals, commitments>>
  BY DEF lockEscrow, OpenForBids, vaultVars
<1>3. /\ escrowBalances \in [Auctions -> [Accounts -> Nat]] /\ totalEscrow \in [Auctions -> Nat]
      /\ marketBalance \in Nat
  BY <1>1 DEF TypeOK, EscrowTypeOK, BalanceTypeOK
<1>4. ASSUME NEW b \in Auctions \ {a} PROVE SameDues(b)
  <2>1. totalEscrow'[b] = totalEscrow[b] /\ escrowBalances'[b] = escrowBalances[b]
    BY <1>1, <1>2, <1>3
  <2>2. SameBooks(b)
    BY <1>2, <2>1, SameTotal
       DEF SameBooks, creationVars, phaseVars, outcomeVars, requestVars, claimFlags
  <2> QED
    BY <1>2, <2>2, SealedUntouched, SameBooksDues DEF creationVars
<1>5. /\ RefundDue(a, u)' = RefundDue(a, u) + value
      /\ \A w \in Accounts \ {u} : RefundDue(a, w)' = RefundDue(a, w)
  BY <1>1, <1>2, <1>3 DEF RefundDue, Live, phaseVars
<1>6. Refunds' = [Refunds EXCEPT ![a][u] = Refunds[a][u] + value]
  BY <1>1, <1>4, <1>5, RefundMoves, DueValues
<1>7. SellerDue(a)' = SellerDue(a) /\ RewardDue(a)' = RewardDue(a) /\ SaleStage(a)' = SaleStage(a)
      /\ SaleStage(a) = "open"
  BY <1>2, Zenon DEF SellerDue, RewardDue, SaleStage, Live, phaseVars, creationVars
<1>8. UNCHANGED <<Stages, Proceeds, Rewards>> /\ Stages[a] = "open"
  BY <1>4, <1>7 DEF SameDues, Stages, Proceeds, Rewards
<1>9. SealedDues' = SealedDues
  BY <1>2, <1>4, SealedUntouched, SealedKept DEF creationVars
<1>10. marketBalance' - marketBalance = value /\ value > 0
  BY <1>1, <1>2, <1>3
<1> QED
  BY <1>1, <1>6, <1>8, <1>9, <1>10 DEF Sales!AddEscrow, Sales!PaidIn

LEMMA lockShieldedEscrowSeals ==
  ASSUME SaleInv, NEW a \in Auctions, NEW i \in Identities, NEW c \in Commitments,
         NEW s \in Authorities, NEW value \in ShieldedAmounts, lockShieldedEscrow(a, i, c, s, value)
  PROVE  Sales!Seal(a, c)
<1> PICK v \in Vaults : v = VaultOf(a)
  BY SnapshotType DEF lockShieldedEscrow, SaleInv, MoneyInv
<1>1. /\ state[a] = "ACTIVE" /\ value \in Nat /\ value # 0 /\ TypeOK
      /\ UNCHANGED <<creationVars, phaseVars, outcomeVars, requestVars, claimFlags, escrowVars>>
      /\ UNCHANGED marketBalance
  BY MarketAssumption DEF lockShieldedEscrow, OpenForBids, SaleInv, MoneyInv, balanceVars
<1>2. /\ commitments[v][c].amount = 0
      /\ commitments' = [commitments EXCEPT
           ![v][c] = [auctionId |-> a, amount |-> value, claimed |-> @.claimed,
                      claimAuthority |-> s]]
      /\ auctionTotals' = [auctionTotals EXCEPT ![v][a] = @ + value]
  BY DEF lockShieldedEscrow, Vault_lockEscrow, Lockable
<1>3. /\ commitments'[v][c].auctionId = a /\ commitments'[v][c].amount = value
      /\ \A w \in Vaults, o \in Commitments :
           ~(w = v /\ o = c) => commitments'[w][o] = commitments[w][o]
  BY <1>1, <1>2 DEF TypeOK, VaultTypeOK
<1>4. \A b \in Auctions : VaultOf(b)' = VaultOf(b) /\ (VaultOf(b) # 0 => VaultOf(b) \in Vaults)
  BY <1>1, SnapshotType DEF VaultOf, creationVars
<1>5. /\ SealedDue(a, c) = 0 /\ SealedDue(a, c)' = value
      /\ \A b \in Auctions, o \in Commitments :
           ~(b = a /\ o = c) => SealedDue(b, o)' = SealedDue(b, o)
  <2>1. SealedDue(a, c) = 0 /\ SealedDue(a, c)' = value
    BY <1>2, <1>3, <1>4 DEF SealedDue, Vaults
  <2>2. ASSUME NEW b \in Auctions, NEW o \in Commitments, ~(b = a /\ o = c)
        PROVE  SealedDue(b, o)' = SealedDue(b, o)
    BY <1>2, <1>3, <1>4, <2>2 DEF SealedDue
  <2> QED
    BY <2>1, <2>2
<1>6. ASSUME NEW b \in Auctions PROVE SameBooks(b)
  <2>1. b # a => VaultOf(b) = 0 \/ auctionTotals'[VaultOf(b)][b] = auctionTotals[VaultOf(b)][b]
    BY <1>1, <1>2, <1>4 DEF TypeOK, VaultTypeOK
  <2>2. b # a => TotalEscrowIncludingShielded(b)' = TotalEscrowIncludingShielded(b)
    BY <1>1, <2>1, SameTotal DEF creationVars, escrowVars
  <2> QED
    BY <1>1, <2>2 DEF SameBooks, creationVars, phaseVars, outcomeVars, requestVars,
                      claimFlags, escrowVars
<1>7. \A b \in Auctions \ {a} : SameDues(b)
  BY <1>5, <1>6, SameBooksDues DEF SameSealed
<1>8. SealedDues' = [SealedDues EXCEPT ![a][c] = value]
  BY <1>5, <1>7, SealedMoves
<1>9. SameRefunds(a) /\ SellerDue(a)' = SellerDue(a) /\ RewardDue(a)' = RewardDue(a)
      /\ SaleStage(a)' = SaleStage(a) /\ SaleStage(a) = "open"
  BY <1>1, Zenon DEF SameRefunds, RefundDue, SellerDue, RewardDue, SaleStage, Live, phaseVars,
                     creationVars, escrowVars
<1>10. UNCHANGED <<Stages, Refunds, Proceeds, Rewards>> /\ Stages[a] = "open"
  <2>1. UNCHANGED Refunds
    BY <1>7, <1>9, RefundsKept
  <2> QED
    BY <1>7, <1>9, <2>1 DEF SameDues, Stages, Proceeds, Rewards
<1>11. SealedDues[a][c] = 0 /\ SealedDues'[a][c] = value
  BY <1>5 DEF SealedDues
<1> QED
  <2>1. UNCHANGED marketBalance /\ Stages[a] = "open" /\ SealedDues[a][c] = 0 /\ SealedDues'[a][c] > 0
    BY <1>1, <1>10, <1>11
  <2>2. SealedDues' = [SealedDues EXCEPT ![a][c] = SealedDues'[a][c]]
    BY <1>8, <1>11
  <2> QED
    BY <1>10, <2>1, <2>2, Zenon DEF Sales!Seal

-----------------------------------------------------------------------------
(* Outcomes.                                                               *)

(* The deposit pays for the slash and the reward, the price is on top.     *)
LEMMA SaleSettles ==
  ASSUME SaleInv, NEW a \in Auctions, NEW price \in Nat, NEW slash \in Nat,
         state[a] \in Live, state'[a] \in Terminal, \A b \in Auctions \ {a} : SameDues(b),
         RewardDue(a)' \in Nat, RewardDue(a)' + slash <= SellerDue(a),
         RewardDue(a) = 0, SellerDue(a)' \in Nat,
         SellerDue(a)' + RewardDue(a)' + slash = SellerDue(a) + RewardDue(a) + price
  PROVE  Sales!Settles(a, price, slash)
<1>1. SaleStage(a) = "open" /\ SaleStage(a)' = "settled"
  BY DEF SaleStage, Live, Terminal
<1>2. Stages[a] = "open" /\ Stages' = [Stages EXCEPT ![a] = "settled"]
  BY <1>1, StageMoves DEF Stages
<1>3. /\ Rewards' = [Rewards EXCEPT ![a] = RewardDue(a)'] /\ Rewards'[a] = RewardDue(a)'
      /\ Proceeds' = [Proceeds EXCEPT ![a] = SellerDue(a)'] /\ Proceeds[a] = SellerDue(a)
  <2>1. /\ Rewards' = [Rewards EXCEPT ![a] = RewardDue(a)']
        /\ Proceeds' = [Proceeds EXCEPT ![a] = SellerDue(a)']
    BY RewardMoves, ProceedsMove
  <2> QED
    BY <2>1 DEF Rewards, Proceeds
<1>4. Rewards'[a] \in 0..(Proceeds[a] - slash)
  <2>1. SellerDue(a) \in Nat
    BY DueType DEF SaleInv, MoneyInv
  <2> QED
    BY <1>3, <2>1
<1>5. Proceeds' = [Proceeds EXCEPT ![a] = Proceeds[a] - slash - Rewards'[a] + price]
  <2>1. /\ SellerDue(a) \in Nat /\ SellerDue(a)' \in Nat /\ RewardDue(a)' \in Nat
        /\ SellerDue(a)' + RewardDue(a)' + slash = SellerDue(a) + 0 + price
    BY DueType DEF SaleInv, MoneyInv
  <2>2. \A due, later, fee \in Nat :
          later + fee + slash = due + 0 + price => later = due - slash - fee + price
    OBVIOUS
  <2>3. SellerDue(a)' = SellerDue(a) - slash - RewardDue(a)' + price
    BY <2>1, <2>2
  <2> QED
    BY <1>3, <2>3, Zenon
<1>6. Rewards' = [Rewards EXCEPT ![a] = Rewards'[a]]
  BY <1>3, Zenon
<1> QED
  BY <1>2, <1>4, <1>5, <1>6, Zenon DEF Sales!Settles

(* The reward of an auction that was resolved or voided is the one its     *)
(* deposit covers.                                                         *)
LEMMA RewardCovered ==
  ASSUME MoneyInv, NEW a \in Auctions, state[a] = "RESOLVING", state'[a] \in {"FINALIZED", "VOIDED"},
         UNCHANGED <<finalizationRewards, finalizationRewardClaimed>>
  PROVE  /\ RewardDue(a)' \in Nat /\ RewardDue(a)' <= SellerDue(a)
         /\ RewardDue(a) = 0 /\ SellerDue(a) \in Nat
<1>1. ~finalizationRewardClaimed[a]
  BY DEF MoneyInv, Booked, Terminal
<1>2. RewardDue(a)' = finalizationRewards[a] /\ RewardDue(a) = 0
      /\ SellerDue(a) = listing[a].sellerDeposit
  BY <1>1 DEF RewardDue, SellerDue, Live
<1>3. /\ listing[a].sellerDeposit \in Nat /\ finalizationRewards[a] \in Nat
      /\ finalizationRewards[a] <= listing[a].sellerDeposit
  BY SnapshotType, FinalizeRewardRange DEF MoneyInv, Booked
<1> QED
  BY <1>2, <1>3

LEMMA submitResolutionSells ==
  ASSUME SaleInv, NEW a \in Auctions, NEW w \in 0..NumAccounts, NEW ct,
         NEW amount \in WinningAmounts, submitResolution(a, w, ct, amount)
  PROVE  Sales!CallOff(a) \/ (w \in Accounts /\ Sales!Sell(a, w))
<1>1. /\ state[a] = "RESOLVING" /\ state' = [state EXCEPT ![a] = "FINALIZED"]
      /\ winner' = [winner EXCEPT ![a] = w]
      /\ winningAmount' = [winningAmount EXCEPT ![a] = amount]
      /\ IF w = 0 THEN amount = 0 ELSE amount # 0 /\ amount <= escrowBalances[a][w]
      /\ UNCHANGED <<creationVars, slashAmount, finalizationRewards, claimFlags, escrowVars,
                     auctionTotals, marketBalance, commitments>>
  BY DEF submitResolution, ResolutionAdmissible, TransitionState, vaultRecords, balanceVars
<1>2. /\ state \in [Auctions -> AuctionState] /\ winner \in [Auctions -> 0..NumAccounts]
      /\ winningAmount \in [Auctions -> Nat] /\ amount \in Nat
      /\ escrowBalances \in [Auctions -> [Accounts -> Nat]] /\ TypeOK /\ MoneyInv
      /\ marketBalance \in Nat
  BY MarketAssumption DEF SaleInv, MoneyInv, TypeOK, PhaseTypeOK, OutcomeTypeOK, EscrowTypeOK,
     BalanceTypeOK
<1>3. ASSUME NEW b \in Auctions \ {a} PROVE SameDues(b)
  <2>1. TotalEscrowIncludingShielded(b)' = TotalEscrowIncludingShielded(b)
    BY <1>1, SameTotal DEF escrowVars, creationVars
  <2>2. SameBooks(b)
    BY <1>1, <1>2, <2>1 DEF SameBooks, creationVars, claimFlags, escrowVars
  <2> QED
    BY <1>1, <2>2, SealedUntouched, SameBooksDues DEF creationVars
<1>4. state'[a] = "FINALIZED" /\ winner'[a] = w /\ winningAmount'[a] = amount
  BY <1>1, <1>2
<1>5. Sales!Settles(a, amount, 0)
  <2>1. /\ RewardDue(a)' \in Nat /\ RewardDue(a)' <= SellerDue(a)
        /\ RewardDue(a) = 0 /\ SellerDue(a) \in Nat
    BY <1>1, <1>2, <1>4, RewardCovered DEF claimFlags
  <2>2. /\ SellerDue(a)' + RewardDue(a)' = SellerDue(a) + RewardDue(a) + amount
        /\ SellerDue(a)' \in Nat
    BY <1>1, <1>2, <1>4, SaleDue DEF creationVars, claimFlags
  <2>3. RewardDue(a)' + 0 <= SellerDue(a) /\ 0 \in Nat
    BY <2>1
  <2>4. state[a] \in Live /\ state'[a] \in Terminal
    BY <1>1, <1>4 DEF Live, Terminal
  <2>5. SellerDue(a)' + RewardDue(a)' + 0 = SellerDue(a) + RewardDue(a) + amount
    BY <2>1, <2>2
  <2> QED
    BY <1>2, <1>3, <2>1, <2>2, <2>3, <2>4, <2>5, SaleSettles
<1>6. \A u \in Accounts \ {w} : RefundDue(a, u)' = RefundDue(a, u)
  BY <1>1, <1>4 DEF RefundDue, PreviewEscrowRefund, Live, Terminal, escrowVars
<1>7. UNCHANGED SealedDues
  BY <1>1, <1>3, SealedUntouched, SealedKept DEF creationVars
<1>8. CASE w = 0
  <2>1. SameRefunds(a)
    BY <1>6, <1>8 DEF SameRefunds, Accounts
  <2>2. UNCHANGED Refunds
    BY <1>3, <2>1, RefundsKept
  <2>3. amount = 0 /\ marketBalance - marketBalance' = 0 /\ marketBalance - marketBalance' >= 0
    BY <1>1, <1>2, <1>8
  <2>4. Sales!Settles(a, 0, Sales!PaidOut)
    BY <1>5, <2>3, Zenon DEF Sales!PaidOut
  <2> QED
    BY <1>7, <2>2, <2>3, <2>4, Zenon DEF Sales!CallOff, Sales!PaidOut
<1>9. CASE w # 0
  <2>1. w \in Accounts
    BY <1>9, DomainAssumption DEF Accounts
  <2>2. RefundDue(a, w) = escrowBalances[a][w] /\ escrowBalances[a][w] \in Nat
    BY <1>1, <1>2, <2>1 DEF RefundDue, Live
  <2>3. RefundDue(a, w)' = RefundDue(a, w) - amount
    <3>1. RefundDue(a, w)' = computeWinningRefund(escrowBalances[a][w], amount)
      BY <1>1, <1>4 DEF RefundDue, PreviewEscrowRefund, Live, escrowVars
    <3>2. amount <= escrowBalances[a][w]
      BY <1>1, <1>9
    <3>3. SaturatingSub(escrowBalances[a][w], amount) = escrowBalances[a][w] - amount
      BY <1>2, <2>2, <3>2, SaturatingSubNat
    <3> QED
      BY <1>2, <2>2, <3>1, <3>3 DEF computeWinningRefund
  <2>4. Refunds' = [Refunds EXCEPT ![a][w] = Refunds[a][w] - amount]
        /\ Refunds[a][w] = RefundDue(a, w)
    BY <1>2, <1>3, <1>6, <2>1, <2>3, RefundMoves, DueValues
  <2>5. Refunds'[a][w] = RefundDue(a, w)'
    BY <2>1 DEF Refunds
  <2>6. Refunds[a][w] - Refunds'[a][w] = amount
    BY <1>2, <2>2, <2>3, <2>4, <2>5
  <2>7. amount \in 1..Refunds[a][w]
    BY <1>1, <1>2, <1>9, <2>2, <2>4
  <2>8. UNCHANGED marketBalance
    BY <1>1
  <2>9. Sales!Sell(a, w)
    BY <1>5, <1>7, <2>4, <2>6, <2>7, <2>8, Zenon DEF Sales!Sell
  <2> QED
    BY <2>1, <2>9
<1> QED
  BY <1>8, <1>9

(* The price comes out of the winning commitment.                          *)
LEMMA submitShieldedResolutionSells ==
  ASSUME SaleInv, NEW a \in Auctions, NEW i, NEW c \in Commitments, NEW ct,
         NEW amount \in WinningAmounts, submitShieldedResolution(a, i, c, ct, amount)
  PROVE  Sales!SellSealed(a, c)
<1> PICK v \in Vaults : v = VaultOf(a)
  BY SnapshotType
     DEF submitShieldedResolution, ShieldedResolutionAdmissible, SaleInv, MoneyInv
<1>1. /\ state[a] = "RESOLVING" /\ state' = [state EXCEPT ![a] = "FINALIZED"]
      /\ winner' = [winner EXCEPT ![a] = 0]
      /\ winningAmount' = [winningAmount EXCEPT ![a] = amount]
      /\ marketBalance' = marketBalance + amount /\ amount # 0
      /\ UNCHANGED <<creationVars, slashAmount, finalizationRewards, claimFlags, escrowVars>>
  BY DEF submitShieldedResolution, ShieldedResolutionAdmissible, TransitionState
<1>2. /\ state \in [Auctions -> AuctionState] /\ winner \in [Auctions -> 0..NumAccounts]
      /\ winningAmount \in [Auctions -> Nat] /\ amount \in Nat
      /\ escrowBalances \in [Auctions -> [Accounts -> Nat]] /\ TypeOK /\ MoneyInv
      /\ marketBalance \in Nat
  BY MarketAssumption DEF SaleInv, MoneyInv, TypeOK, PhaseTypeOK, OutcomeTypeOK, EscrowTypeOK,
     BalanceTypeOK
<1>3. /\ commitments[v][c].auctionId = a /\ amount <= commitments[v][c].amount
      /\ commitments' = [commitments EXCEPT ![v][c].amount = @ - amount]
      /\ auctionTotals' = [auctionTotals EXCEPT ![v][a] = @ - amount]
  BY DEF submitShieldedResolution, Vault_settleWinningCommitment
<1>4. /\ commitments'[v][c].auctionId = a
      /\ commitments'[v][c].amount = commitments[v][c].amount - amount
      /\ \A w \in Vaults, o \in Commitments :
           ~(w = v /\ o = c) => commitments'[w][o] = commitments[w][o]
  <2>1. commitments[v][c] \in CommitmentDeposit
    BY <1>2, VaultTypes
  <2> QED
    BY <1>2, <1>3, <2>1 DEF TypeOK, VaultTypeOK, CommitmentDeposit
<1>5. \A b \in Auctions : VaultOf(b)' = VaultOf(b) /\ (VaultOf(b) # 0 => VaultOf(b) \in Vaults)
  BY <1>1, <1>2, SnapshotType DEF VaultOf, creationVars
<1>6. /\ SealedDue(a, c) = commitments[v][c].amount
      /\ SealedDue(a, c)' = commitments[v][c].amount - amount
      /\ \A b \in Auctions, o \in Commitments :
           ~(b = a /\ o = c) => SealedDue(b, o)' = SealedDue(b, o)
  <2>1. /\ SealedDue(a, c) = commitments[v][c].amount
        /\ SealedDue(a, c)' = commitments[v][c].amount - amount
    BY <1>3, <1>4, <1>5 DEF SealedDue, Vaults
  <2>2. ASSUME NEW b \in Auctions, NEW o \in Commitments, ~(b = a /\ o = c)
        PROVE  SealedDue(b, o)' = SealedDue(b, o)
    <3>1. CASE VaultOf(b) = v /\ o = c
      BY <1>3, <1>4, <1>5, <2>2, <3>1 DEF SealedDue
    <3>2. CASE ~(VaultOf(b) = v /\ o = c)
      BY <1>4, <1>5, <3>2 DEF SealedDue
    <3> QED
      BY <3>1, <3>2
  <2> QED
    BY <2>1, <2>2
<1>7. ASSUME NEW b \in Auctions \ {a} PROVE SameDues(b)
  <2>1. VaultOf(b) = 0 \/ auctionTotals'[VaultOf(b)][b] = auctionTotals[VaultOf(b)][b]
    BY <1>2, <1>3, <1>5 DEF TypeOK, VaultTypeOK
  <2>2. TotalEscrowIncludingShielded(b)' = TotalEscrowIncludingShielded(b)
    BY <1>1, <2>1, SameTotal DEF escrowVars, creationVars
  <2>3. SameBooks(b)
    BY <1>1, <1>2, <2>2 DEF SameBooks, creationVars, claimFlags, escrowVars
  <2> QED
    BY <1>6, <2>3, SameBooksDues DEF SameSealed
<1>8. state'[a] = "FINALIZED" /\ winner'[a] = 0 /\ winningAmount'[a] = amount
  BY <1>1, <1>2, DomainAssumption
<1>9. Sales!Settles(a, amount, 0)
  <2>1. /\ RewardDue(a)' \in Nat /\ RewardDue(a)' <= SellerDue(a)
        /\ RewardDue(a) = 0 /\ SellerDue(a) \in Nat
    BY <1>1, <1>2, <1>8, RewardCovered DEF claimFlags
  <2>2. /\ SellerDue(a)' + RewardDue(a)' = SellerDue(a) + RewardDue(a) + amount
        /\ SellerDue(a)' \in Nat
    BY <1>1, <1>2, <1>8, SaleDue DEF creationVars, claimFlags
  <2>3. RewardDue(a)' + 0 <= SellerDue(a) /\ 0 \in Nat
    BY <2>1
  <2>4. state[a] \in Live /\ state'[a] \in Terminal
    BY <1>1, <1>8 DEF Live, Terminal
  <2>5. SellerDue(a)' + RewardDue(a)' + 0 = SellerDue(a) + RewardDue(a) + amount
    BY <2>1, <2>2
  <2> QED
    BY <1>2, <1>7, <2>1, <2>2, <2>3, <2>4, <2>5, SaleSettles
<1>10. UNCHANGED Refunds
  <2>1. \A u \in Accounts : u # 0
    BY DEF Accounts
  <2>2. SameRefunds(a)
    BY <1>1, <1>8, <2>1 DEF SameRefunds, RefundDue, PreviewEscrowRefund, Live, Terminal, escrowVars
  <2> QED
    BY <1>7, <2>2, RefundsKept
<1>11. SealedDues' = [SealedDues EXCEPT ![a][c] = SealedDues[a][c] - amount]
       /\ SealedDues[a][c] = commitments[v][c].amount
  <2>1. SealedDue(a, c)' = SealedDues[a][c] - amount /\ SealedDues[a][c] = commitments[v][c].amount
    BY <1>2, <1>6, DueValues
  <2> QED
    BY <1>6, <1>7, <2>1, SealedMoves
<1>12. marketBalance' - marketBalance = amount
  BY <1>1, <1>2
<1>13. amount \in 1..SealedDues[a][c]
  <2>1. commitments[v][c].amount \in Nat
    BY <1>2, VaultTypes
  <2> QED
    BY <1>1, <1>2, <1>3, <1>11, <2>1
<1> QED
  BY <1>9, <1>10, <1>11, <1>12, <1>13, Zenon DEF Sales!SellSealed, Sales!PaidIn

(* Whoever is slashed has let down a bidder whose value is still there.    *)
LEMMA SlashHasVictim ==
  ASSUME SaleInv, NEW a \in Auctions, state[a] \in Live, TotalEscrowIncludingShielded(a) # 0
  PROVE  Refunds[a] # Sales!NoRefund \/ SealedDues[a] # Sales!NothingSealed
<1> SUFFICES ASSUME Refunds[a] = [u \in Accounts |-> 0], SealedDues[a] = [c \in Commitments |-> 0]
             PROVE  FALSE
  BY DEF Sales!NoRefund, Sales!NothingSealed
<1>0. TypeOK /\ NumAccounts \in Nat /\ NumCommitments \in Nat
  BY DomainAssumption DEF SaleInv, MoneyInv
<1>1. totalEscrow[a] = 0
  <2>1. \A u \in Accounts : escrowBalances[a][u] = 0
    <3>1. \A u \in Accounts : Refunds[a][u] = 0 /\ Refunds[a][u] = RefundDue(a, u)
      BY <1>0, DueValues
    <3> QED
      BY <3>1 DEF RefundDue
  <2>2. [u \in Accounts |-> escrowBalances[a][u]] = [u \in 1..NumAccounts |-> 0]
    BY <2>1 DEF Accounts
  <2>3. EscrowSum(a) = 0
    BY <1>0, <2>2, SumZero, Zenon DEF EscrowSum
  <2>4. state[a] \notin Terminal
    BY DEF Live, Terminal
  <2> QED
    BY <2>3, <2>4 DEF SaleInv, PotInv, PotFacts, RefundSound
<1>2. VaultOf(a) # 0 => auctionTotals[VaultOf(a)][a] = 0
  <2> SUFFICES ASSUME NEW v \in Vaults, v = VaultOf(a)
               PROVE  auctionTotals[v][a] = 0
    BY <1>0, SnapshotType
  <2>1. \A c \in Commitments : SealedDue(a, c) = 0
    BY <1>0, DueValues
  <2>2. AmountsOf(v, a) = [c \in 1..NumCommitments |-> 0]
    BY <2>1 DEF AmountsOf, SealedDue, Vaults, Commitments
  <2>3. auctionTotals[v][a] = SumTo(AmountsOf(v, a), NumCommitments)
    BY VaultTotalsSums DEF SaleInv, PotInv, VaultInv, VaultFacts, VaultSolvent
  <2> QED
    BY <1>0, <2>2, <2>3, SumZero, Zenon
<1> QED
  BY <1>1, <1>2 DEF TotalEscrowIncludingShielded, ShieldedEscrowTotal

(* A cancellation or a void calls the sale off.                            *)
LEMMA SlashCallsOff ==
  ASSUME SaleInv, NEW a \in Auctions, NEW slash \in Nat, NEW next \in {"CANCELLED", "VOIDED"},
         state[a] \in Live, state' = [state EXCEPT ![a] = next],
         slashAmount' = [slashAmount EXCEPT ![a] = slash],
         marketBalance' = marketBalance - slash,
         UNCHANGED <<creationVars, outcomeVars, finalizationRewards, claimFlags, escrowVars,
                     auctionTotals, commitments>>,
         RewardDue(a) = 0, SellerDue(a)' \in Nat, RewardDue(a)' \in Nat,
         RewardDue(a)' + slash <= SellerDue(a),
         SellerDue(a)' + RewardDue(a)' + slash = SellerDue(a) + RewardDue(a) + 0,
         slash # 0 => TotalEscrowIncludingShielded(a) # 0
  PROVE  Sales!CallOff(a)
<1>1. /\ state \in [Auctions -> AuctionState] /\ slashAmount \in [Auctions -> Nat] /\ TypeOK
      /\ marketBalance \in Nat
  BY DEF SaleInv, MoneyInv, TypeOK, PhaseTypeOK, BalanceTypeOK
<1>2. ASSUME NEW b \in Auctions \ {a} PROVE SameDues(b)
  <2>1. TotalEscrowIncludingShielded(b)' = TotalEscrowIncludingShielded(b)
    BY SameTotal DEF escrowVars, creationVars
  <2>2. SameBooks(b)
    BY <1>1, <2>1 DEF SameBooks, creationVars, outcomeVars, claimFlags, escrowVars
  <2> QED
    BY <2>2, SealedUntouched, SameBooksDues DEF creationVars
<1>3. state'[a] = next /\ state'[a] \in Terminal
  BY <1>1 DEF Terminal
<1>4. Sales!Settles(a, 0, slash)
  BY <1>2, <1>3, SaleSettles
<1>5. UNCHANGED Refunds
  <2>1. SameRefunds(a)
    BY <1>3 DEF SameRefunds, RefundDue, PreviewEscrowRefund, Live, Terminal, escrowVars
  <2> QED
    BY <1>2, <2>1, RefundsKept
<1>6. UNCHANGED SealedDues
  BY <1>2, SealedUntouched, SealedKept DEF creationVars
<1>7. marketBalance - marketBalance' = slash /\ slash >= 0
  BY <1>1
<1> QED
  BY <1>4, <1>5, <1>6, <1>7, SlashHasVictim, Zenon DEF Sales!CallOff, Sales!PaidOut

LEMMA cancelAuctionCallsOff ==
  ASSUME SaleInv, NEW u, NEW a \in Auctions, cancelAuction(u, a)
  PROVE  Sales!CallOff(a)
<1> DEFINE slash == ComputeCancellationSlash(a)
           deposit == listing[a].sellerDeposit
<1>0. MoneyInv /\ TypeOK
  BY DEF SaleInv, MoneyInv
<1>1. PICK s \in 0..deposit : s = slash
  BY <1>0, SlashRange DEF MoneyInv, ListingTimes, cancelAuction, OpenForBids, Exists
<1>2. /\ state[a] = "ACTIVE" /\ state' = [state EXCEPT ![a] = "CANCELLED"]
      /\ slashAmount' = [slashAmount EXCEPT ![a] = slash]
      /\ UNCHANGED <<creationVars, outcomeVars, finalizationRewards, claimFlags, escrowVars,
                     auctionTotals, commitments>>
  BY DEF cancelAuction, OpenForBids, TransitionState, vaultRecords, requestVars
<1>3. marketBalance' = marketBalance - slash
  BY Zenon DEF cancelAuction, RegisterSlash
<1>4. deposit \in Nat /\ s \in Nat
  BY <1>0, <1>1, SnapshotType
<1>5. s # 0 => TotalEscrowIncludingShielded(a) # 0
  BY <1>1 DEF ComputeCancellationSlash
<1> HIDE DEF slash
<1>6. state'[a] = "CANCELLED" /\ slashAmount'[a] = s
  BY <1>0, <1>1, <1>2 DEF TypeOK, PhaseTypeOK
<1>7. /\ SellerDue(a) = deposit /\ RewardDue(a) = 0 /\ RewardDue(a)' = 0
      /\ SellerDue(a)' = SaturatingSub(deposit, s)
  BY <1>0, <1>2, <1>6
     DEF SellerDue, RewardDue, PreviewSellerPayout, computeSellerCancellationPayout,
         Live, MoneyInv, Booked, Terminal, creationVars, claimFlags
<1> HIDE DEF deposit
<1>8. SaturatingSub(deposit, s) = deposit - s /\ deposit - s \in Nat
  BY <1>1, <1>4 DEF SaturatingSub
<1>9. /\ SellerDue(a)' + RewardDue(a)' + s = SellerDue(a) + RewardDue(a) + 0
      /\ SellerDue(a)' \in Nat /\ RewardDue(a)' \in Nat /\ RewardDue(a)' + s <= SellerDue(a)
  BY <1>1, <1>4, <1>7, <1>8
<1>10. state[a] \in Live
  BY <1>2 DEF Live
<1> QED
  BY <1>1, <1>2, <1>3, <1>4, <1>5, <1>7, <1>9, <1>10, SlashCallsOff

LEMMA triggerFallbackVoidCallsOff ==
  ASSUME SaleInv, NEW a \in Auctions, triggerFallbackVoid(a)
  PROVE  Sales!CallOff(a)
<1> DEFINE slash == ComputeVoidSlash(a)
           deposit == listing[a].sellerDeposit
           reward == finalizationRewards[a]
           escrow == TotalEscrowIncludingShielded(a)
<1>0. MoneyInv /\ TypeOK
  BY DEF SaleInv, MoneyInv
<1>1. /\ state[a] = "RESOLVING" /\ state' = [state EXCEPT ![a] = "VOIDED"]
      /\ slashAmount' = [slashAmount EXCEPT ![a] = slash]
      /\ UNCHANGED <<creationVars, outcomeVars, finalizationRewards, claimFlags, escrowVars,
                     auctionTotals, commitments>>
  BY DEF triggerFallbackVoid, TransitionState, vaultRecords
<1>2. marketBalance' = marketBalance - slash
  BY Zenon DEF triggerFallbackVoid, RegisterSlash
<1>3. deposit \in Nat /\ reward \in Nat /\ reward < deposit
  BY <1>0, <1>1, SnapshotType, FinalizeRewardRange DEF MoneyInv, Booked
<1>4. SaturatingSub(deposit, reward) = deposit - reward
  BY <1>3, SaturatingSubNat
<1>5. slash = IF escrow = 0 THEN 0 ELSE deposit - reward
  BY <1>4 DEF ComputeVoidSlash
<1>6. PICK s \in Nat : s = slash
  BY <1>3, <1>5
<1>7. state'[a] = "VOIDED" /\ slashAmount'[a] = s
  BY <1>0, <1>1, <1>6 DEF TypeOK, PhaseTypeOK
<1>8. TotalEscrowIncludingShielded(a)' = escrow
  BY <1>1, SameTotal DEF escrowVars, creationVars
<1>9. /\ SellerDue(a) = deposit /\ RewardDue(a) = 0 /\ RewardDue(a)' = reward
      /\ SellerDue(a)' = IF s # 0 \/ escrow # 0 THEN 0 ELSE SaturatingSub(deposit, reward)
  <2>1. ~sellerClaimed'[a] /\ ~finalizationRewardClaimed'[a]
    BY <1>0, <1>1 DEF MoneyInv, Booked, Terminal, claimFlags
  <2>2. SellerDue(a) = deposit /\ RewardDue(a) = 0 /\ RewardDue(a)' = reward
    BY <1>1, <1>7, <2>1 DEF SellerDue, RewardDue, Live
  <2>3. SellerDue(a)' = PreviewSellerPayout(a)'
    BY <1>7, <2>1 DEF SellerDue, Live
  <2>4. PreviewSellerPayout(a)' =
          IF s # 0 \/ escrow # 0 THEN 0 ELSE SaturatingSub(deposit, reward)
    BY <1>1, <1>7, <1>8 DEF PreviewSellerPayout, creationVars
  <2> QED
    BY <2>2, <2>3, <2>4
<1> HIDE DEF slash, deposit, reward, escrow
<1>10. /\ SellerDue(a)' + RewardDue(a)' + s = SellerDue(a) + RewardDue(a) + 0
       /\ SellerDue(a)' \in Nat /\ RewardDue(a)' \in Nat /\ RewardDue(a)' + s <= SellerDue(a)
  BY <1>3, <1>4, <1>5, <1>6, <1>9
<1>11. s # 0 => TotalEscrowIncludingShielded(a) # 0
  BY <1>5, <1>6 DEF escrow
<1>12. state[a] \in Live
  BY <1>1 DEF Live
<1> QED
  BY <1>1, <1>2, <1>6, <1>9, <1>10, <1>11, <1>12, SlashCallsOff

-----------------------------------------------------------------------------
(* Payments.                                                               *)

(* A payment leaves the books of every auction, those of the paid one      *)
(* apart, as they are.                                                     *)
LEMMA ElsewhereSame ==
  ASSUME NEW a \in Auctions,
         UNCHANGED <<creationVars, phaseVars, outcomeVars, requestVars, totalEscrow,
                     auctionTotals, commitments>>,
         \A b \in Auctions \ {a} :
           /\ escrowBalances'[b] = escrowBalances[b]
           /\ sellerClaimed'[b] = sellerClaimed[b]
           /\ finalizationRewardClaimed'[b] = finalizationRewardClaimed[b]
  PROVE  /\ \A b \in Auctions \ {a} : SameDues(b)
         /\ PreviewSellerPayout(a)' = PreviewSellerPayout(a)
         /\ SameSealed(a) /\ SaleStage(a)' = SaleStage(a)
<1>1. \A b \in Auctions : TotalEscrowIncludingShielded(b)' = TotalEscrowIncludingShielded(b)
  BY SameTotal DEF creationVars
<1>2. ASSUME NEW b \in Auctions \ {a} PROVE SameDues(b)
  <2>1. SameBooks(b)
    BY <1>1 DEF SameBooks, creationVars, phaseVars, outcomeVars, requestVars
  <2> QED
    BY <2>1, SealedUntouched, SameBooksDues DEF creationVars
<1>3. PreviewSellerPayout(a)' = PreviewSellerPayout(a)
  BY <1>1 DEF PreviewSellerPayout, creationVars, phaseVars, outcomeVars, requestVars
<1>4. SameSealed(a) /\ SaleStage(a)' = SaleStage(a)
  BY SealedUntouched, Zenon DEF SaleStage, creationVars, phaseVars
<1> QED
  BY <1>2, <1>3, <1>4

LEMMA claimRefundPays ==
  ASSUME SaleInv, NEW a \in Auctions, NEW u \in Accounts, claimRefund(u, a)
  PROVE  Sales!PayRefund(a, u)
<1> DEFINE refund == PreviewEscrowRefund(a, u)
<1>0. TypeOK /\ marketBalance \in Nat
  BY DEF SaleInv, MoneyInv, TypeOK, BalanceTypeOK
<1>1. UNCHANGED <<creationVars, phaseVars, outcomeVars, requestVars, claimFlags, totalEscrow,
                  auctionTotals, commitments>>
  BY DEF claimRefund, vaultVars
<1>2. refund # 0 /\ state[a] \in Terminal
  <2>1. refund # 0 \/ PreviewCompensation(a, u) # 0
    BY DEF claimRefund
  <2>2. PreviewCompensation(a, u) # 0 => refund # 0
    BY DEF PreviewCompensation, PreviewEscrowRefund, Terminal
  <2>3. refund # 0 => state[a] \in Terminal
    BY DEF PreviewEscrowRefund, Terminal
  <2> QED
    BY <2>1, <2>2, <2>3
<1>3. /\ escrowBalances' = [escrowBalances EXCEPT ![a][u] = 0]
      /\ marketBalance' = marketBalance - refund
  BY <1>2, Zenon DEF claimRefund, SendValue
<1>4. PICK r \in Nat : r = refund /\ r # 0
  BY <1>0, <1>2, PreviewType
<1> HIDE DEF refund
<1>5. escrowBalances \in [Auctions -> [Accounts -> Nat]]
  BY <1>0 DEF TypeOK, EscrowTypeOK
<1>6. /\ \A b \in Auctions \ {a} : SameDues(b)
      /\ PreviewSellerPayout(a)' = PreviewSellerPayout(a)
      /\ SameSealed(a) /\ SaleStage(a)' = SaleStage(a)
  BY <1>1, <1>3, <1>5, ElsewhereSame DEF claimFlags
<1>7. /\ RefundDue(a, u) = r /\ RefundDue(a, u)' = 0
      /\ \A w \in Accounts \ {u} : RefundDue(a, w)' = RefundDue(a, w)
  <2>1. RefundDue(a, u) = r
    BY <1>2, <1>4 DEF RefundDue, Live, Terminal, refund
  <2>2. escrowBalances'[a][u] = 0
    BY <1>3, <1>5
  <2>3. RefundDue(a, u)' = 0
    <3>1. winningAmount[a] \in Nat /\ computeWinningRefund(0, winningAmount[a]) = 0
      BY <1>0, SaturatingSubNat DEF computeWinningRefund, SaturatingSub, TypeOK, OutcomeTypeOK
    <3> QED
      BY <1>1, <2>2, <3>1 DEF RefundDue, PreviewEscrowRefund, phaseVars, outcomeVars
  <2>4. \A w \in Accounts \ {u} : RefundDue(a, w)' = RefundDue(a, w)
    BY <1>1, <1>3, <1>5, SameRefund DEF phaseVars, outcomeVars
  <2> QED
    BY <2>1, <2>3, <2>4
<1>8. SellerDue(a)' = SellerDue(a) /\ RewardDue(a)' = RewardDue(a)
  BY <1>1, <1>6 DEF SellerDue, RewardDue, creationVars, phaseVars, requestVars, claimFlags
<1>9. Refunds' = [Refunds EXCEPT ![a][u] = 0] /\ Refunds[a][u] = r
  <2>1. Refunds' = [Refunds EXCEPT ![a][u] = 0]
    BY <1>6, <1>7, RefundMoves
  <2> QED
    BY <1>0, <1>7, <2>1, DueValues
<1>10. UNCHANGED <<Stages, Proceeds, Rewards>> /\ Stages[a] = "settled"
  <2>1. SaleStage(a) = "settled"
    BY <1>2, Zenon DEF SaleStage, Live, Terminal
  <2> QED
    BY <1>6, <1>8, <2>1 DEF SameDues, Stages, Proceeds, Rewards
<1>11. UNCHANGED SealedDues
  BY <1>6, SealedKept
<1>12. marketBalance - marketBalance' = r /\ r > 0
  BY <1>0, <1>3, <1>4
<1> QED
  BY <1>9, <1>10, <1>11, <1>12, Zenon DEF Sales!PayRefund, Sales!PaidOut

LEMMA claimSellerProceedsPays ==
  ASSUME SaleInv, NEW a \in Auctions, NEW u, claimSellerProceeds(u, a)
  PROVE  Sales!PayProceeds(a)
<1>0. TypeOK /\ marketBalance \in Nat
  BY DEF SaleInv, MoneyInv, TypeOK, BalanceTypeOK
<1>1. PICK paid \in Nat : paid = PreviewSellerPayout(a)
  BY <1>0, SellerPayoutNat
<1>2. /\ ~sellerClaimed[a] /\ paid # 0
      /\ sellerClaimed' = [sellerClaimed EXCEPT ![a] = TRUE]
      /\ marketBalance' = marketBalance - paid
      /\ UNCHANGED <<creationVars, phaseVars, outcomeVars, requestVars, escrowVars,
                     auctionTotals, commitments, finalizationRewardClaimed>>
  BY <1>1 DEF claimSellerProceeds, SendValue, vaultVars
<1>3. state[a] \in Terminal
  BY <1>1, <1>2 DEF PreviewSellerPayout, Terminal
<1>4. sellerClaimed \in [Auctions -> BOOLEAN]
  BY <1>0 DEF TypeOK, ClaimTypeOK
<1>5. SellerDue(a) = paid /\ SellerDue(a)' = 0
  BY <1>1, <1>2, <1>3, <1>4 DEF SellerDue, Live, Terminal, phaseVars
<1>6. /\ \A b \in Auctions \ {a} : SameDues(b)
      /\ SameSealed(a) /\ SaleStage(a)' = SaleStage(a)
  BY <1>2, <1>4, ElsewhereSame DEF escrowVars
<1>7. SameRefunds(a) /\ RewardDue(a)' = RewardDue(a)
  BY <1>2, SameRefund DEF SameRefunds, RewardDue, phaseVars, outcomeVars, requestVars, escrowVars
<1>8. Proceeds' = [Proceeds EXCEPT ![a] = 0] /\ Proceeds[a] = paid
  BY <1>0, <1>5, <1>6, ProceedsMove, DueValues
<1>9. UNCHANGED <<Stages, Rewards>> /\ Stages[a] = "settled"
  <2>1. SaleStage(a) = "settled"
    BY <1>3, Zenon DEF SaleStage, Live, Terminal
  <2> QED
    BY <1>6, <1>7, <2>1 DEF SameDues, Stages, Rewards
<1>10. UNCHANGED <<Refunds, SealedDues>>
  BY <1>6, <1>7, RefundsKept, SealedKept
<1>11. marketBalance - marketBalance' = paid /\ paid > 0
  BY <1>0, <1>2
<1> QED
  BY <1>8, <1>9, <1>10, <1>11, Zenon DEF Sales!PayProceeds, Sales!PaidOut

(* A deposit too small for a reward pays none: that claim is a stutter.    *)
LEMMA claimFinalizeRewardPays ==
  ASSUME SaleInv, NEW a \in Auctions, NEW u, claimFinalizeReward(u, a)
  PROVE  Sales!PayReward(a) \/ UNCHANGED Sales!saleView
<1>0. TypeOK /\ marketBalance \in Nat
  BY DEF SaleInv, MoneyInv, TypeOK, BalanceTypeOK
<1>1. PICK paid \in Nat : paid = finalizationRewards[a]
  BY <1>0 DEF TypeOK, RequestTypeOK
<1>2. /\ ~finalizationRewardClaimed[a] /\ state[a] \in {"FINALIZED", "VOIDED"}
      /\ finalizationRewardClaimed' = [finalizationRewardClaimed EXCEPT ![a] = TRUE]
      /\ marketBalance' = marketBalance - paid
      /\ UNCHANGED <<creationVars, phaseVars, outcomeVars, requestVars, escrowVars,
                     auctionTotals, commitments, sellerClaimed>>
  BY <1>0, <1>1 DEF claimFinalizeReward, SendValue, vaultVars
<1>3. finalizationRewardClaimed \in [Auctions -> BOOLEAN]
  BY <1>0 DEF TypeOK, ClaimTypeOK
<1>4. RewardDue(a) = paid /\ RewardDue(a)' = 0
  BY <1>1, <1>2, <1>3 DEF RewardDue
<1>5. /\ \A b \in Auctions \ {a} : SameDues(b)
      /\ PreviewSellerPayout(a)' = PreviewSellerPayout(a)
      /\ SameSealed(a) /\ SaleStage(a)' = SaleStage(a)
  BY <1>2, <1>3, ElsewhereSame DEF escrowVars
<1>6. SameRefunds(a) /\ SellerDue(a)' = SellerDue(a)
  BY <1>2, <1>5, SameRefund DEF SameRefunds, SellerDue, creationVars, phaseVars, outcomeVars, escrowVars
<1>7. Rewards' = [Rewards EXCEPT ![a] = 0] /\ Rewards[a] = paid
  BY <1>0, <1>4, <1>5, RewardMoves, DueValues
<1>8. UNCHANGED <<Stages, Proceeds>> /\ Stages[a] = "settled"
  <2>1. SaleStage(a) = "settled"
    BY <1>2, Zenon DEF SaleStage, Live
  <2> QED
    BY <1>5, <1>6, <2>1 DEF SameDues, Stages, Proceeds
<1>9. UNCHANGED <<Refunds, SealedDues>>
  BY <1>5, <1>6, RefundsKept, SealedKept
<1>10. CASE paid # 0
  <2>1. marketBalance - marketBalance' = paid /\ paid > 0
    BY <1>0, <1>2, <1>10
  <2> QED
    BY <1>7, <1>8, <1>9, <2>1, Zenon DEF Sales!PayReward, Sales!PaidOut
<1>11. CASE paid = 0
  <2>1. Rewards' = Rewards
    BY <1>4, <1>5, <1>11 DEF SameDues, Rewards
  <2>2. marketBalance' = marketBalance
    BY <1>0, <1>2, <1>11
  <2> QED
    BY <1>8, <1>9, <2>1, <2>2 DEF Sales!saleView, Sales!dues
<1> QED
  BY <1>10, <1>11

LEMMA claimShieldedRefundOpens ==
  ASSUME SaleInv, NEW v \in Vaults, NEW c \in Commitments,
         NEW recipient \in Recipients, NEW deadline \in Deadlines, NEW signer \in Authorities,
         claimShieldedRefund(v, c, recipient, deadline, signer)
  PROVE  \E a \in Auctions : Sales!OpenEnvelope(a, c)
<1>0. TypeOK /\ MoneyInv
  BY DEF SaleInv, MoneyInv
<1>1. PICK a \in Auctions : a = commitments[v][c].auctionId
  BY <1>0, MarketAssumption, ConsumeClaimAuthorizationType
     DEF claimShieldedRefund, Vault_claimRefundWithAuthorization, TypeOK
<1>2. PICK principal \in Nat : principal = commitments[v][c].amount
  BY <1>0, VaultTypes
<1>3. /\ principal # 0 /\ principal <= auctionTotals[v][a]
      /\ VaultOf(a) = v /\ state[a] \in Terminal
      /\ commitments' = [commitments EXCEPT ![v][c].claimed = TRUE, ![v][c].amount = 0]
      /\ auctionTotals' = [auctionTotals EXCEPT ![v][a] = @ - principal]
  BY <1>1, <1>2, Zenon DEF claimShieldedRefund, Vault_claimRefundWithAuthorization, Spendable
<1>4. UNCHANGED <<creationVars, phaseVars, outcomeVars, requestVars, sellerClaimed,
                  finalizationRewardClaimed, escrowVars, marketBalance>>
  BY DEF claimShieldedRefund, balanceVars
<1>5. /\ commitments'[v][c].auctionId = a /\ commitments'[v][c].amount = 0
      /\ \A w \in Vaults, o \in Commitments :
           ~(w = v /\ o = c) => commitments'[w][o] = commitments[w][o]
  <2>1. commitments[v][c] \in CommitmentDeposit
    BY <1>0, VaultTypes
  <2> QED
    BY <1>0, <1>1, <1>3, <2>1 DEF TypeOK, VaultTypeOK, CommitmentDeposit
<1>6. \A b \in Auctions : VaultOf(b)' = VaultOf(b) /\ (VaultOf(b) # 0 => VaultOf(b) \in Vaults)
  BY <1>0, <1>4, SnapshotType DEF VaultOf, creationVars
<1>7. /\ SealedDue(a, c) = principal /\ SealedDue(a, c)' = 0
      /\ \A b \in Auctions, o \in Commitments :
           ~(b = a /\ o = c) => SealedDue(b, o)' = SealedDue(b, o)
  <2>1. SealedDue(a, c) = principal /\ SealedDue(a, c)' = 0
    <3>1. v # 0 /\ VaultOf(a) = v /\ VaultOf(a)' = v
      BY <1>3, <1>6 DEF Vaults
    <3> QED
      BY <1>1, <1>2, <1>5, <3>1 DEF SealedDue
  <2>2. ASSUME NEW b \in Auctions, NEW o \in Commitments, ~(b = a /\ o = c)
        PROVE  SealedDue(b, o)' = SealedDue(b, o)
    <3>1. CASE VaultOf(b) = v /\ o = c
      BY <1>1, <1>5, <1>6, <2>2, <3>1 DEF SealedDue
    <3>2. CASE ~(VaultOf(b) = v /\ o = c)
      BY <1>5, <1>6, <3>2 DEF SealedDue
    <3> QED
      BY <3>1, <3>2
  <2> QED
    BY <2>1, <2>2
(* A voided auction without a slash had no escrow to refund.               *)
<1>8. ~(state[a] = "VOIDED" /\ slashAmount[a] = 0)
  <2> SUFFICES ASSUME state[a] = "VOIDED", slashAmount[a] = 0 PROVE FALSE
    OBVIOUS
  <2>1. TotalEscrowIncludingShielded(a) = 0 /\ v # 0
    BY <1>0 DEF MoneyInv, Booked, Vaults
  <2>2. auctionTotals[v][a] \in Nat /\ totalEscrow[a] \in Nat
    BY <1>0 DEF TypeOK, VaultTypeOK, EscrowTypeOK
  <2>3. totalEscrow[a] + auctionTotals[v][a] = 0
    BY <1>3, <2>1 DEF TotalEscrowIncludingShielded, ShieldedEscrowTotal
  <2> QED
    BY <1>3, <2>2, <2>3
<1>9. ASSUME NEW b \in Auctions PROVE SameBooks(b)
  <2>1. b # a => VaultOf(b) = 0 \/ auctionTotals'[VaultOf(b)][b] = auctionTotals[VaultOf(b)][b]
    BY <1>0, <1>3, <1>6 DEF TypeOK, VaultTypeOK
  <2>2. b # a => TotalEscrowIncludingShielded(b)' = TotalEscrowIncludingShielded(b)
    BY <1>4, <2>1, SameTotal DEF creationVars, escrowVars
  <2> QED
    BY <1>4, <1>8, <2>2 DEF SameBooks, creationVars, phaseVars, outcomeVars, requestVars, escrowVars
<1>10. \A b \in Auctions \ {a} : SameDues(b)
  BY <1>7, <1>9, SameBooksDues DEF SameSealed
<1>11. SealedDues' = [SealedDues EXCEPT ![a][c] = 0] /\ SealedDues[a][c] # 0
  BY <1>0, <1>3, <1>7, <1>10, SealedMoves, DueValues
<1>12. UNCHANGED <<Stages, Refunds, Proceeds, Rewards>> /\ Stages[a] = "settled"
  <2>1. SameRefunds(a) /\ SaleStage(a) = "settled"
    BY <1>3, <1>4, SameRefund, Zenon DEF SameRefunds, SaleStage, Live, Terminal, phaseVars, outcomeVars, escrowVars
  <2>2. PreviewSellerPayout(a)' = PreviewSellerPayout(a)
    BY <1>8, <1>9 DEF PreviewSellerPayout, SameBooks
  <2>3. SellerDue(a)' = SellerDue(a) /\ RewardDue(a)' = RewardDue(a) /\ SaleStage(a)' = SaleStage(a)
    BY <1>4, <2>2, Zenon DEF SellerDue, RewardDue, SaleStage, creationVars, phaseVars, requestVars
  <2>4. UNCHANGED Refunds
    BY <1>10, <2>1, RefundsKept
  <2> QED
    BY <1>10, <2>1, <2>3, <2>4 DEF SameDues, Stages, Proceeds, Rewards
<1>13. Sales!OpenEnvelope(a, c)
  BY <1>4, <1>11, <1>12, Zenon DEF Sales!OpenEnvelope
<1> QED
  BY <1>13

-----------------------------------------------------------------------------
(* Every step.                                                             *)

(* Resolution starts without touching what anybody is owed.                *)
LEMMA triggerFinalizeQuiet ==
  ASSUME SaleInv, NEW a \in Auctions, NEW u, triggerFinalize(u, a)
  PROVE  UNCHANGED Sales!saleView
<1>1. /\ state \in [Auctions -> AuctionState]
      /\ finalizationRewards \in [Auctions -> Nat]
  BY DEF SaleInv, MoneyInv, TypeOK, PhaseTypeOK, RequestTypeOK
<1>2. /\ state[a] = "ACTIVE" /\ state' = [state EXCEPT ![a] = "RESOLVING"]
      /\ finalizationRewards' = [finalizationRewards EXCEPT ![a] =
                                   ComputeFinalizeReward(listing[a].sellerDeposit)]
      /\ UNCHANGED <<creationVars, slashAmount, outcomeVars, claimFlags, escrowVars,
                     auctionTotals, commitments, marketBalance>>
  BY DEF triggerFinalize, TransitionState, ValidTransition, vaultVars, balanceVars
<1>3. state'[a] = "RESOLVING"
  BY <1>1, <1>2
<1>4. ASSUME NEW b \in Auctions \ {a} PROVE SameDues(b)
  <2>1. TotalEscrowIncludingShielded(b)' = TotalEscrowIncludingShielded(b)
    BY <1>2, SameTotal DEF escrowVars, creationVars
  <2>2. SameBooks(b)
    BY <1>1, <1>2, <2>1 DEF SameBooks, creationVars, outcomeVars, claimFlags, escrowVars
  <2> QED
    BY <1>2, <2>2, SealedUntouched, SameBooksDues DEF creationVars
<1>5. SameDues(a)
  <2>1. SameRefunds(a)
    BY <1>2, <1>3 DEF SameRefunds, RefundDue, Live, escrowVars
  <2>2. SellerDue(a)' = SellerDue(a) /\ RewardDue(a)' = RewardDue(a)
    BY <1>2, <1>3 DEF SellerDue, RewardDue, Live, creationVars
  <2>3. SaleStage(a)' = SaleStage(a)
    BY <1>2, <1>3 DEF SaleStage, Live
  <2>4. SameSealed(a)
    BY <1>2, SealedUntouched DEF creationVars
  <2> QED
    BY <2>1, <2>2, <2>3, <2>4 DEF SameDues
<1>6. \A b \in Auctions : SameDues(b)
  BY <1>4, <1>5
<1> QED
  BY <1>2, <1>6, DuesKept DEF Sales!saleView, Sales!dues

LEMMA receiveGives ==
  ASSUME SaleInv, NEW value \in Donations, receive(value)
  PROVE  Sales!Gift \/ UNCHANGED Sales!saleView
<1>1. value \in Nat /\ marketBalance \in Nat /\ marketBalance' = marketBalance + value
  BY MarketAssumption DEF receive, SaleInv, MoneyInv, TypeOK, BalanceTypeOK
<1>2. UNCHANGED <<Stages, Refunds, Proceeds, Rewards, SealedDues>>
  <2>1. \A b \in Auctions : SameBooks(b)
    BY SameLedger DEF receive, claimFlags, vaultVars
  <2>2. \A b \in Auctions : SameDues(b)
    BY <2>1, SealedUntouched, SameBooksDues DEF receive, vaultVars, creationVars
  <2> QED
    BY <2>2, DuesKept
<1>3. CASE value # 0
  <2>1. marketBalance' - marketBalance > 0
    BY <1>1, <1>3
  <2> QED
    BY <1>2, <2>1 DEF Sales!Gift, Sales!PaidIn, Sales!dues
<1>4. CASE value = 0
  <2>1. marketBalance' = marketBalance
    BY <1>1, <1>4
  <2> QED
    BY <1>2, <2>1 DEF Sales!saleView, Sales!dues
<1> QED
  BY <1>3, <1>4

LEMMA QuietSteps ==
  ASSUME SaleInv,
         \/ NewBlock \/ Configure \/ UNCHANGED vars
         \/ \E t, u : TransferToken(t, u)
         \/ \E a, u, ct : placeBid(u, a, ct)
         \/ \E a, c, ct, d : placeShieldedBid(a, c, ct, d)
         \/ \E a, u : claimAsset(u, a)
         \/ \E a, u, d, s : claimShieldedAsset(a, u, d, s)
  PROVE  UNCHANGED Sales!saleView
<1>1. UNCHANGED <<commitments, auctionTotals>>
  <2>1. CASE Configure
    BY <2>1 DEF Configure, setSettlementEngine, setSlashedPot, setShieldedEscrowVault,
                setShieldedIdentityRegistry, SetDependencies, WireContracts, Vault_setMarket,
                Vault_setShieldedBidVerifier, vaultVars
  <2>2. CASE ~Configure
    BY <2>2, SMT DEF NewBlock, vars, TransferToken, placeBid, placeShieldedBid, claimAsset,
                     claimShieldedAsset, Vault_authorizeAssetClaim, vaultVars
  <2> QED
    BY <2>1, <2>2
<1>2. UNCHANGED <<creationVars, phaseVars, outcomeVars, requestVars, escrowVars,
                  sellerClaimed, finalizationRewardClaimed, marketBalance>>
  <2>1. CASE Configure
    BY <2>1 DEF Configure, setSettlementEngine, setSlashedPot, setShieldedEscrowVault,
                setShieldedIdentityRegistry, SetDependencies, WireContracts, claimFlags, balanceVars
  <2>2. CASE ~Configure
    BY <2>2, SMT DEF NewBlock, vars, TransferToken, placeBid, placeShieldedBid, claimAsset,
                     claimShieldedAsset, claimFlags, balanceVars
  <2> QED
    BY <2>1, <2>2
<1> QED
  BY <1>1, <1>2, QuietSale

LEMMA BidIsSaleStep ==
  ASSUME SaleInv, NEW a \in Auctions, Bid(a)
  PROVE  [Sales!SalesNext]_(Sales!saleView)
<1>1. ASSUME NEW u \in Bidders, NEW value \in EscrowAmounts, lockEscrow(u, a, value)
      PROVE  Sales!SalesNext
  BY <1>1, lockEscrowAdds, Zenon DEF Sales!SalesNext
<1>2. ASSUME NEW i \in Identities, NEW c \in Commitments, NEW s \in Authorities,
             NEW value \in ShieldedAmounts, lockShieldedEscrow(a, i, c, s, value)
      PROVE  Sales!SalesNext
  BY <1>2, lockShieldedEscrowSeals, Zenon DEF Sales!SalesNext
<1>3. ASSUME \/ \E u \in Bidders, ct \in BidCiphertexts : placeBid(u, a, ct)
             \/ \E c \in Commitments, ct \in BidCiphertexts, d \in Deadlines :
                  placeShieldedBid(a, c, ct, d)
      PROVE  UNCHANGED Sales!saleView
  BY <1>3, QuietSteps
<1> QED
  BY <1>1, <1>2, <1>3, Zenon DEF Bid

LEMMA ResolveIsSaleStep ==
  ASSUME SaleInv, NEW a \in Auctions, Resolve(a)
  PROVE  [Sales!SalesNext]_(Sales!saleView)
<1>1. ASSUME NEW u \in Executors, triggerFinalize(u, a) PROVE UNCHANGED Sales!saleView
  BY <1>1, triggerFinalizeQuiet
<1>2. ASSUME NEW w \in 0..NumAccounts, NEW ct \in BidCiphertexts, NEW amount \in WinningAmounts,
             submitResolution(a, w, ct, amount)
      PROVE  Sales!SalesNext
  BY <1>2, submitResolutionSells, Zenon DEF Sales!SalesNext
<1>3. ASSUME NEW i \in Identities, NEW c \in Commitments, NEW ct \in BidCiphertexts,
             NEW amount \in WinningAmounts, submitShieldedResolution(a, i, c, ct, amount)
      PROVE  Sales!SalesNext
  BY <1>3, submitShieldedResolutionSells, Zenon DEF Sales!SalesNext
<1>4. ASSUME NEW u \in Sellers, cancelAuction(u, a) PROVE Sales!SalesNext
  BY <1>4, cancelAuctionCallsOff, Zenon DEF Sales!SalesNext
<1>5. ASSUME triggerFallbackVoid(a) PROVE Sales!SalesNext
  BY <1>5, triggerFallbackVoidCallsOff, Zenon DEF Sales!SalesNext
<1> QED
  BY <1>1, <1>2, <1>3, <1>4, <1>5, Zenon DEF Resolve

LEMMA ClaimIsSaleStep ==
  ASSUME SaleInv, NEW a \in Auctions, Claim(a)
  PROVE  [Sales!SalesNext]_(Sales!saleView)
<1>1. ASSUME NEW u \in Accounts, claimRefund(u, a) PROVE Sales!SalesNext
  BY <1>1, claimRefundPays, Zenon DEF Sales!SalesNext
<1>2. ASSUME NEW u \in Accounts, claimSellerProceeds(u, a) PROVE Sales!SalesNext
  BY <1>2, claimSellerProceedsPays, Zenon DEF Sales!SalesNext
<1>3. ASSUME NEW u \in Accounts, claimFinalizeReward(u, a)
      PROVE  [Sales!SalesNext]_(Sales!saleView)
  BY <1>3, claimFinalizeRewardPays, Zenon DEF Sales!SalesNext
<1>4. ASSUME \/ \E u \in Accounts : claimAsset(u, a)
             \/ \E u \in Recipients, d \in Deadlines, s \in Authorities :
                  claimShieldedAsset(a, u, d, s)
      PROVE  UNCHANGED Sales!saleView
  BY <1>4, QuietSteps
<1> QED
  BY <1>1, <1>2, <1>3, <1>4, Zenon DEF Claim

LEMMA StepIsSaleStep ==
  ASSUME SaleInv, [Next]_vars
  PROVE  [Sales!SalesNext]_(Sales!saleView)
<1>1. ASSUME \/ NewBlock \/ Configure \/ UNCHANGED vars
             \/ \E t \in Tokens, u \in TokenRecipients : TransferToken(t, u)
      PROVE  UNCHANGED Sales!saleView
  BY <1>1, QuietSteps
<1>2. ASSUME NEW u \in Sellers, NEW t \in Tokens, NEW d \in Durations, NEW p \in StartingPrices,
             NEW e \in Deposits, createAuction(u, t, d, p, e)
      PROVE  Sales!SalesNext
  BY <1>2, createAuctionLists, Zenon DEF Sales!SalesNext
<1>3. ASSUME NEW v \in Vaults, NEW c \in Commitments, NEW u \in Recipients, NEW d \in Deadlines,
             NEW s \in Authorities, claimShieldedRefund(v, c, u, d, s)
      PROVE  Sales!SalesNext
  BY <1>3, claimShieldedRefundOpens, Zenon DEF Sales!SalesNext
<1>4. ASSUME NEW value \in Donations, receive(value)
      PROVE  [Sales!SalesNext]_(Sales!saleView)
  BY <1>4, receiveGives, Zenon DEF Sales!SalesNext
<1>5. ASSUME NEW a \in Auctions, Bid(a) \/ Resolve(a) \/ Claim(a)
      PROVE  [Sales!SalesNext]_(Sales!saleView)
  BY <1>5, BidIsSaleStep, ResolveIsSaleStep, ClaimIsSaleStep
<1> QED
  BY <1>1, <1>2, <1>3, <1>4, <1>5, Zenon DEF Next

LEMMA InitIsSalesInit == Init => Sales!SalesInit
<1> SUFFICES ASSUME Init PROVE Sales!SalesInit
  OBVIOUS
<1>1. ASSUME NEW a \in Auctions
      PROVE  /\ SaleStage(a) = "unlisted" /\ SellerDue(a) = 0 /\ RewardDue(a) = 0
             /\ \A u \in Accounts : RefundDue(a, u) = 0
             /\ \A c \in Commitments : SealedDue(a, c) = 0
  <2>1. state[a] = "CREATED"
    BY DEF Init
  <2>2. SaleStage(a) = "unlisted"
    BY <2>1 DEF SaleStage
  <2>3. SellerDue(a) = 0 /\ RewardDue(a) = 0
    BY <2>1 DEF Init, SellerDue, RewardDue, PreviewSellerPayout, Live
  <2>4. \A u \in Accounts : RefundDue(a, u) = 0
    BY <2>1 DEF RefundDue, PreviewEscrowRefund, Live, Terminal
  <2>5. \A c \in Commitments : SealedDue(a, c) = 0
    BY DEF Init, SealedDue, VaultOf, NoListing
  <2> QED
    BY <2>2, <2>3, <2>4, <2>5
<1>2. /\ Stages = [a \in Auctions |-> "unlisted"]
      /\ Proceeds = [a \in Auctions |-> 0] /\ Rewards = [a \in Auctions |-> 0]
  BY <1>1 DEF Stages, Proceeds, Rewards
<1>3. Refunds = [a \in Auctions |-> [u \in Accounts |-> 0]]
  BY <1>1 DEF Refunds
<1>4. SealedDues = [a \in Auctions |-> [c \in Commitments |-> 0]]
  BY <1>1 DEF SealedDues
<1>5. marketBalance = 0
  BY DEF Init
<1> QED
  BY <1>2, <1>3, <1>4, <1>5, Zenon DEF Sales!SalesInit, Sales!NoRefund, Sales!NothingSealed

(* For every number of auctions, accounts, commitments and contracts, and  *)
(* every order of transactions, the market does nothing with anybody's     *)
(* money that sales in escrow do not allow: a debt is created by a         *)
(* payment, moved by one outcome within escrow and deposit, and paid once, *)
(* whole.                                                                  *)
THEOREM MarketImplementsSales == Spec => SalesImplemented
<1>1. Init => SaleInv /\ Sales!SalesInit
  BY InitMoney, InitType, InitVaults, InitPots, InitIsSalesInit DEF SaleInv, PotInv, VaultInv
<1>2. SaleInv /\ [Next]_vars => SaleInv'
  BY NextMoney, NextPots DEF SaleInv
<1>3. SaleInv /\ [Next]_vars => [Sales!SalesNext]_(Sales!saleView)
  BY StepIsSaleStep
<1> QED
  BY <1>1, <1>2, <1>3, PTL DEF Spec, SalesImplemented, Sales!SalesSpec

-----------------------------------------------------------------------------
(* Promises.                                                               *)

(* What a refund is computed from, the escrow of the bidder apart.         *)
SameTerms(b) ==
  /\ state'[b] = state[b] /\ listing'[b] = listing[b] /\ slashAmount'[b] = slashAmount[b]
  /\ winner'[b] = winner[b] /\ winningAmount'[b] = winningAmount[b]
  /\ \A p \in Pots : pots'[p][b] = pots[p][b]

LEMMA SamePromises ==
  ASSUME TypeOK, NEW b \in Auctions, NEW u \in Accounts, SameTerms(b),
         escrowBalances'[b][u] = escrowBalances[b][u]
  PROVE  /\ PreviewEscrowRefund(b, u)' = PreviewEscrowRefund(b, u)
         /\ PreviewCompensation(b, u)' = PreviewCompensation(b, u)
<1>1. PotOf(b)' = PotOf(b) /\ PotOf(b) \in Pots
  BY SnapshotType DEF SameTerms, PotOf
<1>2. pots'[PotOf(b)][b] = pots[PotOf(b)][b]
  BY <1>1 DEF SameTerms
<1> QED
  BY <1>1, <1>2 DEF SameTerms, PreviewEscrowRefund, PreviewCompensation, Pot_previewClaim, Terminal

LEMMA QuietTerms ==
  ASSUME NEW b \in Auctions, UNCHANGED phaseVars, UNCHANGED creationVars, UNCHANGED outcomeVars,
         UNCHANGED pots
  PROVE  SameTerms(b)
BY DEF SameTerms, phaseVars, creationVars, outcomeVars

(* An auction that is resolved is another one than a settled one.          *)
LEMMA ResolveElsewhere ==
  ASSUME TypeOK, NEW a \in Auctions, Resolve(a), NEW b \in Auctions, state[b] \in Terminal
  PROVE  SameTerms(b) /\ UNCHANGED escrowVars
<1>0. /\ state \in [Auctions -> AuctionState] /\ slashAmount \in [Auctions -> Nat]
      /\ winner \in [Auctions -> 0..NumAccounts] /\ winningAmount \in [Auctions -> Nat]
      /\ pots \in [Pots -> [Auctions -> Pot]]
  BY DEF TypeOK, OutcomeTypeOK, PhaseTypeOK, PotTypeOK
<1>1. UNCHANGED creationVars /\ UNCHANGED escrowVars /\ state[a] \notin Terminal
  <2>1. state[a] \notin Terminal
    <3>1. \E to : TransitionState(a, to)
      BY DEF Resolve, triggerFinalize, submitResolution, submitShieldedResolution, cancelAuction,
             triggerFallbackVoid
    <3> QED
      BY <3>1 DEF TransitionState, ValidTransition, Terminal
  <2>2. UNCHANGED creationVars /\ UNCHANGED escrowVars
    BY DEF Resolve, triggerFinalize, submitResolution, submitShieldedResolution, cancelAuction,
           triggerFallbackVoid
  <2> QED
    BY <2>1, <2>2
<1>2. b # a
  BY <1>1
<1>3. state'[b] = state[b]
  <2>1. \E to : TransitionState(a, to)
    BY DEF Resolve, triggerFinalize, submitResolution, submitShieldedResolution, cancelAuction,
           triggerFallbackVoid
  <2> QED
    BY <1>0, <1>2, <2>1 DEF TransitionState
<1>4. winner'[b] = winner[b] /\ winningAmount'[b] = winningAmount[b]
  <2>1. \/ UNCHANGED outcomeVars
        \/ \E w, amount : /\ winner' = [winner EXCEPT ![a] = w]
                          /\ winningAmount' = [winningAmount EXCEPT ![a] = amount]
    BY Zenon DEF Resolve, triggerFinalize, submitResolution, submitShieldedResolution,
                 cancelAuction, triggerFallbackVoid
  <2> QED
    BY <1>0, <1>2, <2>1 DEF outcomeVars
<1>5. /\ slashAmount'[b] = slashAmount[b]
      /\ \A p \in Pots : pots'[p][b] = pots[p][b]
  <2>1. ASSUME NEW slash, RegisterSlash(a, slash)
        PROVE  \A p \in Pots : pots'[p][b] = pots[p][b]
    <3>1. CASE UNCHANGED potVars
      BY <3>1 DEF potVars
    <3>2. ASSUME NEW q, NEW escrow, NEW value, Pot_registerSlash(q, a, escrow, value)
          PROVE  \A p \in Pots : pots'[p][b] = pots[p][b]
      BY <1>0, <1>2, <3>2 DEF Pot_registerSlash
    <3> QED
      BY <2>1, <3>1, <3>2, Zenon DEF RegisterSlash
  <2>2. \/ UNCHANGED slashAmount /\ UNCHANGED potVars
        \/ \E slash : RegisterSlash(a, slash) /\ slashAmount' = [slashAmount EXCEPT ![a] = slash]
    BY Zenon DEF Resolve, triggerFinalize, submitResolution, submitShieldedResolution,
                 cancelAuction, triggerFallbackVoid
  <2> QED
    BY <1>0, <1>2, <2>1, <2>2 DEF potVars
<1> QED
  BY <1>1, <1>3, <1>4, <1>5 DEF SameTerms, creationVars

(* A claim pays one bidder, or touches neither terms nor escrow.           *)
LEMMA ClaimTerms ==
  ASSUME NEW a \in Auctions, Claim(a), NEW b \in Auctions
  PROVE  /\ SameTerms(b)
         /\ UNCHANGED escrowVars \/ \E u \in Accounts : claimRefund(u, a)
<1>1. UNCHANGED phaseVars /\ UNCHANGED creationVars /\ UNCHANGED outcomeVars
  BY DEF Claim, claimRefund, claimSellerProceeds, claimFinalizeReward, claimAsset,
         claimShieldedAsset
<1>2. UNCHANGED pots
  BY DEF Claim, claimRefund, claimSellerProceeds, claimFinalizeReward, claimAsset,
         claimShieldedAsset, Pot_claimFor, potVars
<1>3. UNCHANGED escrowVars \/ \E u \in Accounts : claimRefund(u, a)
  BY Zenon DEF Claim, claimSellerProceeds, claimFinalizeReward, claimAsset, claimShieldedAsset
<1> QED
  BY <1>1, <1>2, <1>3, QuietTerms

LEMMA BidTerms ==
  ASSUME TypeOK, NEW a \in Auctions, Bid(a), NEW b \in Auctions, state[b] \in Terminal
  PROVE  SameTerms(b) /\ escrowBalances'[b] = escrowBalances[b]
<1>1. UNCHANGED phaseVars /\ UNCHANGED creationVars /\ UNCHANGED outcomeVars /\ UNCHANGED pots
  BY DEF Bid, lockEscrow, placeBid, lockShieldedEscrow, placeShieldedBid, potVars
<1>2. CASE \E u \in Bidders, value \in EscrowAmounts : lockEscrow(u, a, value)
  <2>1. b # a
    BY <1>2 DEF lockEscrow, OpenForBids, Terminal
  <2> QED
    BY <1>1, <1>2, <2>1, QuietTerms DEF lockEscrow, TypeOK, EscrowTypeOK
<1>3. CASE UNCHANGED escrowVars
  BY <1>1, <1>3, QuietTerms DEF escrowVars
<1> QED
  BY <1>2, <1>3, Zenon DEF Bid, placeBid, lockShieldedEscrow, placeShieldedBid

(* A settled auction keeps its terms, and every escrow but the one that is *)
(* claimed.                                                                *)
LEMMA SettledTerms ==
  ASSUME TypeOK, [Next]_vars, NEW b \in Auctions, state[b] \in Terminal
  PROVE  /\ SameTerms(b)
         /\ \/ escrowBalances'[b] = escrowBalances[b]
            \/ \E u \in Accounts : claimRefund(u, b)
<1>1. ASSUME NewBlock \/ Configure \/ UNCHANGED vars
               \/ (\E value \in Donations : receive(value))
               \/ (\E t \in Tokens, u \in TokenRecipients : TransferToken(t, u))
      PROVE  SameTerms(b) /\ UNCHANGED escrowVars
  <2>1. UNCHANGED phaseVars /\ UNCHANGED creationVars /\ UNCHANGED outcomeVars
        /\ UNCHANGED pots /\ UNCHANGED escrowVars
    BY <1>1, SMT DEF NewBlock, Configure, setSettlementEngine, setSlashedPot, setShieldedEscrowVault,
                setShieldedIdentityRegistry, SetDependencies, WireContracts, Pot_setMarket,
                receive, TransferToken, vars, potVars
  <2> QED
    BY <2>1, QuietTerms
<1>2. ASSUME NEW u \in Sellers, NEW t \in Tokens, NEW d \in Durations, NEW p \in StartingPrices,
             NEW e \in Deposits, createAuction(u, t, d, p, e)
      PROVE  SameTerms(b) /\ UNCHANGED escrowVars
  <2>1. /\ TransitionState(auctionCounter + 1, "ACTIVE") /\ UNCHANGED slashAmount
        /\ UNCHANGED outcomeVars /\ UNCHANGED pots /\ UNCHANGED escrowVars
    BY <1>2 DEF createAuction, potVars
  <2>2. ValidTransition(state[auctionCounter + 1], "ACTIVE")
    BY <2>1 DEF TransitionState
  <2>3. b # auctionCounter + 1
    BY <2>2 DEF ValidTransition, Terminal
  <2>4. state'[b] = state[b]
    BY <2>1, <2>3 DEF TransitionState, TypeOK, PhaseTypeOK
  <2>5. PICK l : listing' = [listing EXCEPT ![auctionCounter + 1] = l]
    BY <1>2 DEF createAuction
  <2>6. listing'[b] = listing[b]
    BY <2>3, <2>5 DEF TypeOK, CreationTypeOK
  <2> QED
    BY <2>1, <2>4, <2>6 DEF SameTerms, outcomeVars
<1>3. ASSUME NEW v \in Vaults, NEW c \in Commitments, NEW u \in Recipients,
             NEW d \in Deadlines, NEW s \in Authorities, claimShieldedRefund(v, c, u, d, s)
      PROVE  SameTerms(b) /\ UNCHANGED escrowVars
  <2>1. UNCHANGED phaseVars /\ UNCHANGED creationVars /\ UNCHANGED outcomeVars
        /\ UNCHANGED potVars /\ UNCHANGED escrowVars
    BY <1>3, Zenon DEF claimShieldedRefund
  <2> QED
    BY <2>1, QuietTerms DEF potVars
<1>4. ASSUME NEW a \in Auctions, Claim(a)
      PROVE  /\ SameTerms(b)
             /\ \/ escrowBalances'[b] = escrowBalances[b]
                \/ \E u \in Accounts : claimRefund(u, b)
  <2>1. SameTerms(b) /\ (UNCHANGED escrowVars \/ \E u \in Accounts : claimRefund(u, a))
    BY <1>4, ClaimTerms
  <2>2. ASSUME NEW u \in Accounts, claimRefund(u, a), a # b
        PROVE  escrowBalances'[b] = escrowBalances[b]
    BY <2>2 DEF claimRefund, TypeOK, EscrowTypeOK
  <2> QED
    BY <2>1, <2>2, Zenon DEF escrowVars
<1>5. ASSUME NEW a \in Auctions, Resolve(a) PROVE SameTerms(b) /\ UNCHANGED escrowVars
  BY <1>5, ResolveElsewhere
<1>6. ASSUME NEW a \in Auctions, Bid(a)
      PROVE  SameTerms(b) /\ escrowBalances'[b] = escrowBalances[b]
  BY <1>6, BidTerms
<1>7. UNCHANGED escrowVars => escrowBalances'[b] = escrowBalances[b]
  BY DEF escrowVars
<1> QED
  BY <1>1, <1>2, <1>3, <1>4, <1>5, <1>6, <1>7, Zenon DEF Next

(* A claim takes what both previews promised, and leaves the others theirs. *)
LEMMA RefundTakesPromise ==
  ASSUME TypeOK, NEW b \in Auctions, NEW u \in Accounts, claimRefund(u, b)
  PROVE  /\ ~hasWithdrawn[b][u] /\ hasWithdrawn'[b][u]
         /\ PreviewEscrowRefund(b, u)' = 0 /\ PreviewCompensation(b, u)' = 0
         /\ marketBalance' = marketBalance - PreviewEscrowRefund(b, u)
         /\ potBalance' = [potBalance EXCEPT ![PotOf(b)] = @ - PreviewCompensation(b, u)]
         /\ \A w \in Accounts \ {u} : escrowBalances'[b][w] = escrowBalances[b][w]
<1> DEFINE refund == PreviewEscrowRefund(b, u)
           share == PreviewCompensation(b, u)
<1>0. /\ escrowBalances \in [Auctions -> [Accounts -> Nat]] /\ winningAmount[b] \in Nat
      /\ hasWithdrawn \in [Auctions -> [Accounts -> BOOLEAN]] /\ potBalance \in [Pots -> Nat]
  BY DEF TypeOK, EscrowTypeOK, OutcomeTypeOK, PotTypeOK
<1>1. refund # 0
  BY DEF claimRefund, PreviewCompensation, PreviewEscrowRefund, Terminal
<1>2. /\ escrowBalances' = [escrowBalances EXCEPT ![b][u] = 0]
      /\ marketBalance' = marketBalance - refund
      /\ hasWithdrawn' = [hasWithdrawn EXCEPT ![b][u] = TRUE] /\ ~hasWithdrawn[b][u]
      /\ UNCHANGED <<state, winner, winningAmount, slashAmount>>
  BY <1>1 DEF claimRefund, SendValue, phaseVars, outcomeVars
<1>3. escrowBalances'[b][u] = 0
  BY <1>0, <1>2
<1>4. PreviewEscrowRefund(b, u)' = 0
  <2>1. computeWinningRefund(0, winningAmount[b]) = 0
    BY <1>0, SaturatingSubNat DEF computeWinningRefund, SaturatingSub
  <2> QED
    BY <1>2, <1>3, <2>1 DEF PreviewEscrowRefund
<1>5. PreviewCompensation(b, u)' = 0
  BY <1>3 DEF PreviewCompensation
<1>6. potBalance' = [potBalance EXCEPT ![PotOf(b)] = @ - share]
  <2>1. CASE share # 0
    <3>1. share = Pot_previewClaim(PotOf(b), b, refund)
      BY <2>1 DEF PreviewCompensation, PreviewEscrowRefund, Terminal
    <3>2. Pot_claimFor(PotOf(b), b, u, refund)
      BY <2>1 DEF claimRefund
    <3> QED
      BY <3>1, <3>2 DEF Pot_claimFor
  <2>2. CASE share = 0
    <3>1. UNCHANGED potBalance
      BY <2>2 DEF claimRefund, potVars
    <3>2. potBalance[PotOf(b)] - 0 = potBalance[PotOf(b)]
      BY <1>0, SnapshotType
    <3> QED
      BY <1>0, <2>2, <3>1, <3>2
  <2> QED
    BY <2>1, <2>2
<1> QED
  BY <1>0, <1>2, <1>4, <1>5, <1>6

(* For every number of auctions, pots and bidders: what is promised of a   *)
(* settled auction is paid as it was promised (claimRefund), whatever the  *)
(* owner rotates and whoever claims before.                                *)
THEOREM PromisesAlwaysKept == Spec => PromisesKept
<1> DEFINE Kept(a, u) ==
             /\ PreviewEscrowRefund(a, u)' = PreviewEscrowRefund(a, u)
             /\ PreviewCompensation(a, u)' = PreviewCompensation(a, u)
           Paid(a, u) ==
             /\ ~hasWithdrawn[a][u] /\ hasWithdrawn'[a][u]
             /\ PreviewEscrowRefund(a, u)' = 0 /\ PreviewCompensation(a, u)' = 0
             /\ marketBalance' = marketBalance - PreviewEscrowRefund(a, u)
             /\ potBalance' = [potBalance EXCEPT ![PotOf(a)] = @ - PreviewCompensation(a, u)]
<1>1. ASSUME TypeOK, [Next]_vars, NEW a \in Auctions, NEW u \in Accounts, state[a] \in Terminal
      PROVE  Kept(a, u) \/ Paid(a, u)
  <2>1. SameTerms(a)
    BY <1>1, SettledTerms
  <2>2. CASE escrowBalances'[a] = escrowBalances[a]
    BY <1>1, <2>1, <2>2, SamePromises
  <2>3. ASSUME NEW w \in Accounts, claimRefund(w, a) PROVE Kept(a, u) \/ Paid(a, u)
    <3>1. CASE w = u
      BY <1>1, <2>3, <3>1, RefundTakesPromise
    <3>2. CASE w # u
      <4>1. escrowBalances'[a][u] = escrowBalances[a][u]
        BY <1>1, <2>3, <3>2, RefundTakesPromise
      <4> QED
        BY <1>1, <2>1, <4>1, SamePromises
    <3> QED
      BY <3>1, <3>2
  <2> QED
    BY <1>1, <2>2, <2>3, SettledTerms
<1>2. TypeOK /\ [Next]_vars =>
        [\A a \in Auctions, u \in Accounts : state[a] \in Terminal =>
           LET refund == PreviewEscrowRefund(a, u)
               share == PreviewCompensation(a, u)
           IN
           \/ UNCHANGED <<refund, share>>
           \/ /\ ~hasWithdrawn[a][u] /\ hasWithdrawn'[a][u] /\ refund' = 0 /\ share' = 0
              /\ marketBalance' = marketBalance - refund
              /\ potBalance' = [potBalance EXCEPT ![PotOf(a)] = @ - share]]_vars
  BY <1>1, Zenon
<1> QED
  BY <1>2, TypeCorrect, PTL DEF Spec, PromisesKept
=============================================================================
