--------------------------- MODULE MarketplaceData ---------------------------
(***************************************************************************)
(* The server's read of a lot (marketplace-data.ts).  getAuction comes     *)
(* first; then the details, the payout, names and pictures are requested   *)
(* together, each with a default of its own if it does not answer within   *)
(* rpcTimeoutMs.  The record is a mixture of what the market said at       *)
(* different times, and of defaults.                                       *)
(***************************************************************************)
EXTENDS LotFacts

VARIABLES
  reading,    \* the read under way, or NoRead
  record      \* the lot as the page was given it, or NoRecord

States == {"active", "resolving", "finalized", "cancelled", "voided"}
Page == {"create", "auction", "portfolio"}

NoRecord == [state |-> "none"]
NoRead == [page |-> "none"]

(* Mutant: the states counted from one too few.                            *)
LiveStateShifted(s) ==
  CASE s = "ACTIVE" -> "resolving"
    [] s = "RESOLVING" -> "finalized"
    [] s = "FINALIZED" -> "cancelled"
    [] s = "CANCELLED" -> "voided"
    [] OTHER -> "active"

(* mapLiveAuctionState.                                                    *)
LiveState(s) ==
  CASE s = "RESOLVING" -> "resolving"
    [] s = "FINALIZED" -> "finalized"
    [] s = "CANCELLED" -> "cancelled"
    [] s = "VOIDED" -> "voided"
    [] OTHER -> "active"

Details == [winner : MaybeAccount, assetClaimed : BOOLEAN, sellerClaimed : BOOLEAN]
Phase2Defaults == [winner |-> NoAccount, assetClaimed |-> FALSE, sellerClaimed |-> FALSE]
CurrentDetails ==
  [winner |-> PublicWinner, assetClaimed |-> assetClaimed, sellerClaimed |-> sellerClaimed]

(* `real` tells details that were read from defaults; the code cannot.     *)
LotRecord ==
  [state : States, details : Details, payout : BOOLEAN, real : BOOLEAN]

DataTypeOK ==
  /\ reading = NoRead \/ reading \in [page : Page, fresh : BOOLEAN, core : States \cup {"none"}]
  /\ record = NoRecord \/ record \in LotRecord

DataInit == reading = NoRead /\ record = NoRecord

(* A page load (fresh) or router.refresh(); the last one asked for counts. *)
Ask(page, fresh) == reading' = [page |-> page, fresh |-> fresh, core |-> "none"]

(* The first answer.  Without it, or without the auction, there is no      *)
(* record at all.                                                          *)
ReadCore ==
  /\ reading # NoRead /\ reading.core = "none" /\ Exists
  /\ reading' = [reading EXCEPT !.core = LiveState(State)]
  /\ UNCHANGED <<lotView, record>>

(* The other answers, and the record that is built of them.                *)
Built(real, paid) ==
  [state |-> reading.core,
   details |-> IF real THEN CurrentDetails ELSE Phase2Defaults,
   payout |-> paid /\ SellerPayout,
   real |-> real]

CanBuild == reading # NoRead /\ reading.core # "none"

-----------------------------------------------------------------------------
(* buildLiveClaims: the routes of the portfolio, by account.               *)
ExpectedRecipient(w) == IF w = NoAccount THEN Seller ELSE w

NftRoute(who) ==
  /\ record # NoRecord
  /\ record.state = "finalized" /\ ~record.details.assetClaimed
  /\ who = ExpectedRecipient(record.details.winner)
PayoutRoute(who) ==
  /\ record # NoRecord
  /\ record.state = "cancelled" /\ ~record.details.sellerClaimed /\ record.payout
  /\ who = Seller
=============================================================================
