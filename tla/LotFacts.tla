------------------------------ MODULE LotFacts ------------------------------
(***************************************************************************)
(* One lot of the market as its pages see it: the course of the auction    *)
(* (AuctionPhases) with the winner, the claims, the escrow and the bids    *)
(* that the pages read, and the calls that wallets send.  A call that the  *)
(* market does not admit reverts and changes nothing.  Amounts are small   *)
(* numbers; prices and payouts are left out.                               *)
(***************************************************************************)
EXTENDS AuctionPhases, PageAccounts

CONSTANTS Lot, Seller

ASSUME LotAssumption == AuctionIds = {Lot} /\ Seller \in Accounts

VARIABLES
  winner,          \* who bought the lot: an account, Shielded, or NoAccount
  assetClaimed, sellerClaimed,
  escrow, bid,     \* by account: the public escrow and the stored bid, 0 if none
  approved         \* the market may take the seller's token

Shielded == "shielded"    \* a winner whose account the market does not know
lotView == <<phaseView, winner, assetClaimed, sellerClaimed, escrow, bid, approved>>
claimVars == <<assetClaimed, sellerClaimed>>
stakeVars == <<escrow, bid>>

LotTypeOK ==
  /\ PhasesTypeOK
  /\ winner \in MaybeAccount \cup {Shielded}
  /\ assetClaimed \in BOOLEAN /\ sellerClaimed \in BOOLEAN /\ approved \in BOOLEAN
  /\ escrow \in [Accounts -> Nat] /\ bid \in [Accounts -> Nat]

(* A tab is opened before the lot exists, or when it already has bids.     *)
LotInit ==
  /\ winner = NoAccount /\ assetClaimed = FALSE /\ sellerClaimed = FALSE
  /\ \/ /\ phase = [l \in {Lot} |-> "CREATED"] /\ approved \in BOOLEAN
        /\ bid = [x \in Accounts |-> 0]
     \/ /\ phase = [l \in {Lot} |-> "ACTIVE"] /\ approved = FALSE
        /\ bid = [x \in Accounts |-> IF x = Seller THEN 0 ELSE 1]
  /\ ended = {} /\ escrow = bid

Exists == phase[Lot] # "CREATED"
State == phase[Lot]
OpenForBids == State = "ACTIVE" /\ Lot \notin ended

(* getAuctionPhase2Details does not name a shielded winner.                *)
PublicWinner == IF winner = Shielded THEN NoAccount ELSE winner

(* claimAsset pays the public winner, or the seller if nobody won.         *)
AssetRecipient == IF winner = NoAccount THEN Seller ELSE winner

(* previewSellerPayout: nothing for bids or a slash after a void.          *)
SellerPayout ==
  State \in {"FINALIZED", "CANCELLED"} \/ (State = "VOIDED" /\ \A x \in Accounts : escrow[x] = 0)

NftOwner ==
  CASE State \in {"CREATED", "CANCELLED", "VOIDED"} -> Seller
    [] State = "FINALIZED" /\ assetClaimed -> AssetRecipient
    [] OTHER -> "market"

-----------------------------------------------------------------------------
(* The calls, by the account that sends them.                              *)

CreateAuction(who, duration) ==
  /\ 60 <= duration /\ duration <= 90 * 24 * 3600
  /\ who = Seller /\ approved
  /\ Create(Lot)
  /\ approved' = FALSE      \* the token has moved
  /\ UNCHANGED <<winner, claimVars, stakeVars>>
LockEscrow(who, amount) ==
  /\ OpenForBids
  /\ escrow' = [escrow EXCEPT ![who] = @ + amount]
  /\ UNCHANGED <<phaseView, winner, claimVars, bid, approved>>
PlaceBid(who, amount) ==
  /\ OpenForBids /\ escrow[who] # 0 /\ amount <= escrow[who]
  /\ bid' = [bid EXCEPT ![who] = amount]
  /\ UNCHANGED <<phaseView, winner, claimVars, escrow, approved>>
TriggerFinalize ==
  Finalize(Lot) /\ UNCHANGED <<winner, claimVars, stakeVars, approved>>
CancelAuction(who) ==
  /\ who = Seller
  /\ Cancel(Lot) /\ UNCHANGED <<winner, claimVars, stakeVars, approved>>
ClaimAsset(who) ==
  /\ State = "FINALIZED" /\ ~assetClaimed /\ who = AssetRecipient
  /\ assetClaimed' = TRUE
  /\ UNCHANGED <<phaseView, winner, sellerClaimed, stakeVars, approved>>
ClaimSellerProceeds(who) ==
  /\ who = Seller /\ ~sellerClaimed /\ SellerPayout
  /\ sellerClaimed' = TRUE
  /\ UNCHANGED <<phaseView, winner, assetClaimed, stakeVars, approved>>
Approve(who) ==
  /\ who = Seller /\ NftOwner = Seller /\ State = "CREATED"
  /\ approved' = TRUE
  /\ UNCHANGED <<phaseView, winner, claimVars, stakeVars>>

-----------------------------------------------------------------------------
(* What happens to the lot from elsewhere: time, keepers and operators,    *)
(* claims by other means.                                                  *)

Resolve(w) ==
  /\ w \in {NoAccount, Shielded} \cup {x \in Accounts : bid[x] # 0}
  /\ Settle(Lot) /\ winner' = w
  /\ UNCHANGED <<claimVars, stakeVars, approved>>
FallbackVoid == VoidAuction(Lot) /\ UNCHANGED <<winner, claimVars, stakeVars, approved>>
EndReached ==
  TimePasses /\ ended' # ended /\ UNCHANGED <<winner, claimVars, stakeVars, approved>>
ShieldedClaim ==
  /\ State = "FINALIZED" /\ winner = Shielded /\ ~assetClaimed
  /\ assetClaimed' = TRUE
  /\ UNCHANGED <<phaseView, winner, sellerClaimed, stakeVars, approved>>

Elsewhere ==
  \/ EndReached \/ TriggerFinalize \/ FallbackVoid \/ ShieldedClaim
  \/ \E w \in MaybeAccount \cup {Shielded} : Resolve(w)
  \/ \E x \in Accounts : ClaimAsset(x)
=============================================================================
