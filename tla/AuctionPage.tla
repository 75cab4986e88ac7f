----------------------------- MODULE AuctionPage -----------------------------
(***************************************************************************)
(* The marketplace in a browser tab: the page of a lot with its three      *)
(* panels (auction-action-console.tsx, auction-settlement-controls.tsx,    *)
(* seller-auction-controls.tsx), the form that creates it, and the         *)
(* portfolio.  A panel keeps React state of its own beside the record the  *)
(* server gave it: some is taken from the first record and stays when the  *)
(* page is refreshed, some is set after an action.  The clock of the       *)
(* browser may be off either way, so that its test for the end of the lot  *)
(* may go either way and is not a guard here.                              *)
(***************************************************************************)
EXTENDS WalletActions, CreateForm

CONSTANTS
  Amounts,     \* amounts a visitor enters
  Visits       \* bounds: what a visitor does (see Visit)

VARIABLES
  page,          \* the page shown, "none" while it loads or if it was not found
  settlement,    \* state of the settlement controls
  seller,        \* state of the seller controls
  shown,         \* escrow the console shows, and whose it is asking for
  created,       \* what the create form reports
  visit, changes, moves, edits

panelVars == <<settlement, seller, shown, created>>
formVars == <<form, edits>>
browserVars == <<page, panelVars, reading, record, formVars>>
vars == <<lotView, walletSession, actionVars, browserVars, visit, changes, moves>>

(* The kinds of actions and the pages a visitor uses, what his wallet holds *)
(* at first, whether he connects and disconnects, how many actions he      *)
(* starts, how often account or network change in the wallet, and how      *)
(* often the lot changes elsewhere, and how often he edits the form.       *)
Visit == [kinds : SUBSET Kinds, pages : SUBSET Page, account : MaybeAccount, chain : Chains,
          requests : BOOLEAN, actions : 0..ActionLimit, changes : Nat, moves : Nat,
          edits : Nat]

ASSUME PageAssumption == Amounts \subseteq Nat \ {0} /\ Visits \subseteq Visit

NoSettlement == [state |-> "none", assetClaimed |-> FALSE, winner |-> NoAccount]
NoSeller == [state |-> "none", claimed |-> FALSE, payout |-> FALSE]
NothingShown == [amount |-> 0, asked |-> NoAccount]

PageTypeOK ==
  /\ LotTypeOK /\ SessionTypeOK /\ DataTypeOK /\ ActionTypeOK /\ FormTypeOK
  /\ page \in Page \cup {"none"}
  /\ settlement \in [state : {"none", "resolving"}, assetClaimed : BOOLEAN, winner : MaybeAccount]
  /\ seller \in [state : {"none", "cancelled"}, claimed : BOOLEAN, payout : BOOLEAN]
  /\ shown \in [amount : Nat, asked : MaybeAccount]
  /\ created \in {"none", "withId", "withoutId"}
  /\ visit \in Visits /\ changes \in 0..visit.changes /\ moves \in 0..visit.moves
  /\ edits \in 0..visit.edits

PageInit ==
  /\ LotInit /\ SessionInit /\ DataInit /\ ActionInit /\ FormInit
  /\ page = "none"
  /\ settlement = NoSettlement /\ seller = NoSeller /\ shown = NothingShown
  /\ created = "none"
  /\ visit \in Visits /\ changes = 0 /\ moves = 0 /\ edits = 0
  /\ exposed = visit.account /\ walletChain = visit.chain

-----------------------------------------------------------------------------
(* What a panel offers.                                                    *)

Panel(kind) ==
  CASE kind \in {"lock", "bid"} -> "console"
    [] kind \in {"trigger", "claim"} -> "settlement"
    [] kind \in {"cancel", "payout"} -> "seller"
    [] OTHER -> "form"

Busy(panel) ==
  \E n \in 1..started : Waiting(n) /\ action[n].attended /\ Panel(action[n].kind) = panel

LotPage == page = "auction" /\ record # NoRecord
SettlementState == IF settlement.state = "none" THEN record.state ELSE settlement.state
SellerState == IF seller.state = "none" THEN record.state ELSE seller.state

CanClaimAsset(who) ==
  /\ LotPage /\ SettlementState = "finalized" /\ ~settlement.assetClaimed
  /\ who = ExpectedRecipient(settlement.winner)
CanClaimSellerPayout(who) ==
  /\ LotPage /\ SellerState = "cancelled" /\ who = Seller
  /\ ~seller.claimed /\ seller.payout

(* The console asks for the escrow of its account when it gets a record    *)
(* and when the session changes; until the answer it shows what it did.    *)
Subject == IF LotPage /\ WalletReady THEN account ELSE NoAccount
AskEscrow ==
  shown' = IF Subject' = NoAccount THEN NothingShown ELSE [shown EXCEPT !.asked = Subject']
EscrowEffectOnce == UNCHANGED shown      \* mutant: not run again for another session
EscrowEffect == IF Subject' = Subject THEN UNCHANGED shown ELSE AskEscrow

-----------------------------------------------------------------------------
(* Handlers.                                                               *)

(* A handler goes on only with a wallet that is ready; otherwise it asks   *)
(* for the connection or the network (Connect, SwitchToSepolia).           *)
Submit(a) ==
  /\ a.kind \in visit.kinds /\ started < visit.actions
  /\ WalletReady /\ ~Busy(Panel(a.kind))
  /\ Starts(a)
  /\ UNCHANGED <<lotView, walletSession, page, settlement, seller, shown, reading, record,
                 formVars, visit, changes, moves>>

handleSubmit ==
  /\ page = "create" /\ form.step = 4 /\ FormReady
  /\ Submit(createAuctionWithWallet(account, FormDuration)) /\ created' = "none"
handleEscrowSubmit ==
  /\ LotPage /\ record.state = "active"
  /\ \E amount \in Amounts : Submit(lockEscrowWithWallet(account, amount))
  /\ UNCHANGED created
handleBidSubmit ==
  /\ LotPage /\ record.state = "active"
  /\ \E amount \in Amounts :
       amount <= shown.amount /\ Submit(placeBidWithWallet(account, amount))
  /\ UNCHANGED created
handleTriggerFinalize ==
  /\ LotPage /\ SettlementState = "active"
  /\ Submit(triggerFinalizeWithWallet(account)) /\ UNCHANGED created
handleClaimAsset ==
  CanClaimAsset(account) /\ Submit(claimAssetWithWallet(account)) /\ UNCHANGED created
handleCancel ==
  /\ LotPage /\ SellerState = "active" /\ account = Seller
  /\ Submit(cancelAuctionWithWallet(account)) /\ UNCHANGED created
handleClaimSellerPayout ==
  /\ CanClaimSellerPayout(account)
  /\ Submit(claimSellerProceedsWithWallet(account)) /\ UNCHANGED created

(* The form outside of its last step; an edit takes back what was reported, *)
(* and so does a submission that the wallet is not ready for.              *)
FormStep ==
  /\ page = "create" /\ ~Busy("form")
  /\ \/ Edit /\ edits < visit.edits /\ edits' = edits + 1 /\ created' = "none"
     \/ (handleAdvance \/ handleBack) /\ UNCHANGED <<edits, created>>
     \/ form.step = 4 /\ ~WalletReady /\ created' = "none" /\ UNCHANGED formVars
  /\ UNCHANGED <<lotView, walletSession, actionVars, page, settlement, seller, shown, reading,
                 record, visit, changes, moves>>

Handlers ==
  \/ handleSubmit \/ handleEscrowSubmit \/ handleBidSubmit \/ handleTriggerFinalize
  \/ handleClaimAsset \/ handleCancel \/ handleClaimSellerPayout

(* router.refresh() asks for the page that is shown; it does not overtake a *)
(* navigation.                                                             *)
Refresh ==
  IF reading # NoRead /\ reading.fresh THEN UNCHANGED reading
  ELSE Ask(IF page = "portfolio" THEN page ELSE "auction", FALSE)

(* What the handlers set when the library returns.  If their panel is gone *)
(* they only refresh what is shown by then.                                *)
ReportUnattended(n) == UNCHANGED panelVars /\ IF action[n].kind = "create" THEN UNCHANGED reading ELSE Refresh
ReportAttended(n) ==
  LET a == action[n]
  IN  /\ settlement' =
           CASE a.kind = "trigger" -> [settlement EXCEPT !.state = "resolving", !.winner = PublicWinner]
             [] a.kind = "claim" -> [settlement EXCEPT !.assetClaimed = assetClaimed, !.winner = PublicWinner]
             [] OTHER -> settlement
      /\ \/ a.kind # "cancel" /\ seller' = IF a.kind = "payout" THEN [seller EXCEPT !.claimed = TRUE, !.payout = FALSE]
                                           ELSE seller
         \/ /\ a.kind = "cancel"
            /\ \E read \in BOOLEAN :     \* the preview may fail
                 seller' = [state |-> "cancelled", claimed |-> FALSE, payout |-> read /\ SellerPayout]
      /\ shown' = IF a.kind \in {"lock", "bid"} THEN [shown EXCEPT !.amount = escrow[a.by]] ELSE shown
      /\ created' = IF a.kind # "create" THEN created
                    ELSE IF a.chain = "sepolia" THEN "withId" ELSE "withoutId"
      /\ IF a.kind = "create" THEN UNCHANGED reading ELSE Refresh

Report(n) == IF action[n].attended THEN ReportAttended(n) ELSE ReportUnattended(n)

Succeeds(n) ==
  /\ Verified(n) /\ Finish(n) /\ Report(n)
  /\ UNCHANGED <<lotView, walletSession, started, page, record, formVars, visit, changes, moves>>

Proceeds(n) ==
  /\ Check(n) \/ Encrypt(n) \/ Confirm(n) \/ ReceiptSeen(n) \/ GivesUp(n) \/ Dropped(n)
  /\ UNCHANGED <<lotView, walletSession, started, browserVars, visit, changes, moves>>

Executed(n) ==
  /\ Mined(n) \/ Reverted(n)
  /\ UNCHANGED <<walletSession, started, browserVars, visit, changes, moves>>

-----------------------------------------------------------------------------
(* Pages.                                                                  *)

(* React state starts again, from the record if there is one.              *)
Fresh(rec) ==
  /\ settlement' = IF rec = NoRecord THEN NoSettlement
                   ELSE [NoSettlement EXCEPT !.assetClaimed = rec.details.assetClaimed,
                                             !.winner = rec.details.winner]
  /\ seller' = IF rec = NoRecord THEN NoSeller
               ELSE [NoSeller EXCEPT !.claimed = rec.details.sellerClaimed, !.payout = rec.payout]
  /\ created' = "none"

(* A link within the application keeps the session; the old page stays     *)
(* until the record of the new one is there.                               *)
Navigate(p) ==
  /\ p \in {"auction", "portfolio"} /\ p # page /\ page # "none"
  /\ Ask(p, TRUE)
  /\ UNCHANGED <<lotView, walletSession, actionVars, page, panelVars, record, formVars, visit,
                 changes, moves>>

(* A load of a page from the server, with a new session.                   *)
Load(p) ==
  /\ Mount
  /\ action' = Abandoned
  /\ record' = NoRecord /\ Fresh(NoRecord) /\ shown' = NothingShown /\ FormReset
  /\ IF p = "create" THEN page' = p /\ reading' = NoRead ELSE page' = "none" /\ Ask(p, TRUE)
  /\ UNCHANGED <<lotView, started, edits, visit, changes, moves>>

RefreshButton ==
  /\ LotPage /\ ~Busy("settlement") /\ Refresh
  /\ UNCHANGED <<lotView, walletSession, actionVars, page, panelVars, record, formVars, visit,
                 changes, moves>>

CoreRead ==
  /\ ReadCore
  /\ UNCHANGED <<walletSession, actionVars, page, panelVars, formVars, visit, changes, moves>>

RecordArrives(real, paid) ==
  /\ CanBuild
  /\ record' = Built(real, paid)
  /\ reading' = NoRead
  /\ IF reading.fresh \/ page = "none"
     THEN page' = reading.page /\ Fresh(record') /\ action' = Detached
     ELSE UNCHANGED <<page, settlement, seller, created, action>>
  /\ UNCHANGED <<lotView, walletSession, started, formVars, visit, changes, moves>>
  /\ AskEscrow

(* Without the record of the lot its page is "not found", also when it was *)
(* only to be refreshed; the portfolio goes without it.                    *)
ReadFails ==
  /\ reading # NoRead /\ reading' = NoRead
  /\ record' = NoRecord
  /\ page' = IF reading.page = "portfolio" THEN "portfolio" ELSE "none"
  /\ Fresh(NoRecord) /\ shown' = NothingShown /\ action' = Detached
  /\ UNCHANGED <<lotView, walletSession, started, formVars, visit, changes, moves>>

(* The answer to the console, dropped if its account changed meanwhile.    *)
EscrowRead ==
  /\ shown.asked # NoAccount
  /\ \E ok \in BOOLEAN :
       shown' = [amount |-> IF ok /\ walletChain = "sepolia" THEN escrow[shown.asked] ELSE 0,
                 asked |-> NoAccount]
  /\ UNCHANGED <<lotView, walletSession, actionVars, page, settlement, seller, created,
                 reading, record, formVars, visit, changes, moves>>

RefreshPayout ==
  /\ LotPage /\ SellerState = "cancelled" /\ ~Busy("seller") /\ walletChain = "sepolia"
  /\ seller' = [seller EXCEPT !.payout = SellerPayout]
  /\ UNCHANGED <<lotView, walletSession, actionVars, page, settlement, shown, created,
                 reading, record, formVars, visit, changes, moves>>

-----------------------------------------------------------------------------
(* The session, the wallet and the rest of the world.                      *)

Session ==
  /\ SnapshotStep \/ (visit.requests /\ SessionStep)
  /\ UNCHANGED <<lotView, actionVars, page, settlement, seller, created, reading, record,
                 formVars, visit, changes, moves>>
  /\ EscrowEffect
WalletMoves ==
  /\ changes < visit.changes /\ changes' = changes + 1
  /\ WalletChanges
  /\ UNCHANGED <<lotView, actionVars, page, settlement, seller, created, reading, record,
                 formVars, visit, moves>>
  /\ EscrowEffect
World ==
  /\ moves < visit.moves /\ moves' = moves + 1
  /\ Elsewhere
  /\ UNCHANGED <<walletSession, actionVars, browserVars, visit, changes>>

Next ==
  \/ Handlers \/ FormStep
  \/ \E n \in 1..started : Succeeds(n) \/ Proceeds(n) \/ Executed(n)
  \/ \E p \in visit.pages : Navigate(p) \/ Load(p)
  \/ RefreshButton \/ CoreRead \/ ReadFails \/ EscrowRead \/ RefreshPayout
  \/ \E real, paid \in BOOLEAN : RecordArrives(real, paid)
  \/ Session \/ WalletMoves \/ World

Spec == PageInit /\ [][Next]_vars

(* Handlers go on: what they wait for answers or refuses, a wallet too, and *)
(* a receipt that does not come runs into the limit of three minutes. A    *)
(* read ends one way or the other; refreshes that are asked for meanwhile  *)
(* cannot keep it from that for ever, as the router runs them in turn.     *)
Attended(n) == Waiting(n) /\ (Succeeds(n) \/ Proceeds(n))
ReadEnds == ReadFails \/ \E real, paid \in BOOLEAN : RecordArrives(real, paid)
FairSpec ==
  /\ Spec
  /\ \A n \in 1..ActionLimit : WF_vars(Attended(n))
  /\ SF_vars(ReadEnds) /\ WF_vars(EscrowRead)

-----------------------------------------------------------------------------
(* Properties.                                                             *)

(* Whatever the network or the account changed to while it was under way,  *)
(* and whatever was sent meanwhile, the page does not claim what did not   *)
(* happen: an asset it shows as claimed is claimed, an auction it shows as *)
(* cancelled after an action is cancelled, and one that the form reports   *)
(* with its number exists.  (Not so for the trigger and the payout.)       *)
ReportsTrue ==
  /\ settlement.assetClaimed => assetClaimed
  /\ seller.state = "cancelled" => State = "CANCELLED"
  /\ created = "withId" => Exists

(* A record mixes answers of different times, but the portfolio sends an   *)
(* account for a token only if the market gives it the token: the state is *)
(* read first, and what it says of a settled auction stays so.  Excepted   *)
(* are details that are defaults, and a winner the market does not name.   *)
RoutesBelong ==
  \A who \in Accounts :
    /\ NftRoute(who) /\ record.real /\ winner # Shielded
         => State = "FINALIZED" /\ who = AssetRecipient
    /\ PayoutRoute(who) => SellerPayout /\ who = Seller

(* An account change in the middle of an action, an answer for an account  *)
(* that is no longer connected: the console may show the escrow of another *)
(* account, and would let its visitor bid more than he has locked, but not *)
(* for good.                                                               *)
ShownEscrowCovered ==
  (Subject # NoAccount /\ shown.amount > escrow[Subject])
    ~> (Subject = NoAccount \/ shown.amount <= escrow[Subject])

(* The buttons of a panel come back, also when the wallet has moved to a   *)
(* network on which the receipt never appears.                             *)
ControlsComeBack ==
  \A panel \in {"console", "settlement", "seller", "form"} : Busy(panel) ~> ~Busy(panel)
=============================================================================
