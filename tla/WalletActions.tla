---------------------------- MODULE WalletActions ----------------------------
(***************************************************************************)
(* What a page does through the wallet (lib/create-auction.ts,             *)
(* live-auction-actions.ts, auction-settlement-actions.ts,                 *)
(* seller-auction-actions.ts).  An action asks the wallet for a            *)
(* transaction, waits for its receipt, at most three minutes, and most     *)
(* kinds then read the market again before they report success.  In        *)
(* between the user may change the network, and a page that is left or     *)
(* that has given up leaves its prompt or its transaction behind.  A       *)
(* transaction goes to the network of the moment it was asked for; the     *)
(* other network has no market, where it succeeds and does nothing.        *)
(***************************************************************************)
EXTENDS MarketplaceData, WalletSession

CONSTANT ActionLimit     \* bound: actions started

ASSUME ActionAssumption == ActionLimit \in Nat

Kinds == {"create", "lock", "bid", "trigger", "claim", "cancel", "payout"}
Steps == {"check", "encrypt", "prompt", "wait", "verify", "done", "left"}

VARIABLES
  action,      \* by number: what was asked for, by whom, and how far it is
  started      \* the actions so far

actionVars == <<action, started>>

Unused == [kind |-> "none", by |-> NoAccount, amount |-> 0, step |-> "done",
           call |-> "none", chain |-> "none", tx |-> "none", attended |-> TRUE]

Action ==
  [kind : Kinds \cup {"none"}, by : MaybeAccount, amount : Nat, step : Steps,
   call : Kinds \cup {"approve", "none"},    \* the call of its latest transaction
   chain : Chains \cup {"none"},
   tx : {"none", "pending", "mined", "reverted"},
   attended : BOOLEAN]                       \* the panel that started it is still there

ActionTypeOK == action \in [1..ActionLimit -> Action] /\ started \in 0..ActionLimit
ActionInit == action = [n \in 1..ActionLimit |-> Unused] /\ started = 0

Waiting(n) == action[n].step \notin {"done", "left"}     \* a handler awaits it

-----------------------------------------------------------------------------
(* Steps of an action.  They change `action` only, save where the market   *)
(* executes the transaction.                                               *)

Set(n, a) == action' = [action EXCEPT ![n] = a]
Prompted(a, c) == [a EXCEPT !.step = "prompt", !.call = c, !.chain = walletChain, !.tx = "none"]
Finish(n) == Set(n, [action[n] EXCEPT !.step = "done", !.attended = TRUE])

(* The functions of the library, as the action each begins: create reads   *)
(* the token first, a bid is encrypted first, everything else is a request *)
(* to the wallet at once.  Steps that follow are below.                    *)
New(kind, by, amount) == [Unused EXCEPT !.kind = kind, !.by = by, !.amount = amount]
Requested(kind, by, amount) == Prompted(New(kind, by, amount), kind)

createAuctionWithWallet(by, duration) == [New("create", by, duration) EXCEPT !.step = "check"]
lockEscrowWithWallet(by, amount) == Requested("lock", by, amount)
placeBidWithWallet(by, amount) ==
  [New("bid", by, amount) EXCEPT !.step = IF walletChain = "sepolia" THEN "encrypt" ELSE "done"]
triggerFinalizeWithWallet(by) == Requested("trigger", by, 0)
claimAssetWithWallet(by) == Requested("claim", by, 0)
cancelAuctionWithWallet(by) == Requested("cancel", by, 0)
claimSellerProceedsWithWallet(by) == Requested("payout", by, 0)

Starts(a) ==
  /\ started < ActionLimit
  /\ started' = started + 1
  /\ Set(started + 1, a)

(* createAuctionWithWallet: ownerOf, then getApproved.                     *)
Check(n) ==
  /\ action[n].step = "check" /\ walletChain = "sepolia"
  /\ NftOwner = action[n].by
  /\ Set(n, Prompted(action[n], IF approved THEN "create" ELSE "approve"))

Encrypt(n) == action[n].step = "encrypt" /\ Set(n, Prompted(action[n], "bid"))

(* The user confirms what the wallet shows; the wallet signs only for an   *)
(* account it exposes.                                                     *)
Confirm(n) ==
  /\ action[n].step \in {"prompt", "left"} /\ action[n].tx = "none"
  /\ action[n].by = exposed
  /\ Set(n, [action[n] EXCEPT !.tx = "pending",
                              !.step = IF @ = "prompt" THEN "wait" ELSE "done"])

(* The chain executes a transaction, if it comes to that.  One that the    *)
(* market does not admit reverts, and so may any other, for want of gas.   *)
Execute(a) ==
  CASE a.call = "approve" -> Approve(a.by)
    [] a.call = "create" -> CreateAuction(a.by, a.amount)
    [] a.call = "lock" -> LockEscrow(a.by, a.amount)
    [] a.call = "bid" -> PlaceBid(a.by, a.amount)
    [] a.call = "trigger" -> TriggerFinalize
    [] a.call = "claim" -> ClaimAsset(a.by)
    [] a.call = "cancel" -> CancelAuction(a.by)
    [] OTHER -> ClaimSellerProceeds(a.by)

Mined(n) ==
  /\ action[n].tx = "pending"
  /\ IF action[n].chain = "sepolia" THEN Execute(action[n]) ELSE UNCHANGED lotView
  /\ Set(n, [action[n] EXCEPT !.tx = "mined"])
Reverted(n) ==
  /\ action[n].tx = "pending" /\ action[n].chain = "sepolia"
  /\ Set(n, [action[n] EXCEPT !.tx = "reverted"])
  /\ UNCHANGED lotView

(* waitForReceipt asks the network the wallet is on now.                   *)
HasReceipt(n) ==
  action[n].step = "wait" /\ action[n].tx \in {"mined", "reverted"} /\ action[n].chain = walletChain

ReceiptSeen(n) ==
  /\ HasReceipt(n)
  /\ IF action[n].tx = "reverted" THEN Finish(n)
     ELSE IF action[n].call = "approve" THEN Set(n, Prompted(action[n], "create"))
     ELSE Set(n, [action[n] EXCEPT !.step = "verify"])

(* Mutant: the receipt is taken for the effect.                            *)
VerifiedByReceipt(n) == action[n].step = "verify"

(* What is read after the receipt.  Create and payout read nothing; every  *)
(* other read needs a market on the network of the moment.                 *)
BidStored(a) == bid[a.by] = a.amount
AssetMoved(a) == NftOwner = a.by
Cancelled(a) == State = "CANCELLED" /\ NftOwner = a.by

Verified(n) ==
  /\ action[n].step = "verify"
  /\ action[n].kind \in {"create", "payout"} \/ walletChain = "sepolia"
  /\ CASE action[n].kind = "bid" -> BidStored(action[n])
       [] action[n].kind = "claim" -> AssetMoved(action[n])
       [] action[n].kind = "cancel" -> Cancelled(action[n])
       [] OTHER -> TRUE

(* Mutant: without the limit of three minutes.                             *)
GivesUpNotWaiting(n) == action[n].step \in {"check", "encrypt", "prompt"} /\ Finish(n)

(* An action ends without success: a refusal by the user or the wallet, a  *)
(* failed check or read, or the time is over.                              *)
GivesUp(n) ==
  /\ Waiting(n) /\ ~(action[n].step = "verify" /\ action[n].kind \in {"create", "payout"})
  /\ Finish(n)

(* Another document is loaded, and the handlers end: what the wallet shows *)
(* and what was sent stays behind.                                         *)
Abandoned ==
  [n \in 1..ActionLimit |->
     IF ~Waiting(n) THEN action[n]
     ELSE [action[n] EXCEPT !.step = IF @ = "prompt" THEN "left" ELSE "done",
                            !.attended = TRUE]]

(* The panels are gone but their document is not: their handlers go on.    *)
Detached ==
  [n \in 1..ActionLimit |-> [action[n] EXCEPT !.attended = @ /\ ~Waiting(n)]]

(* A prompt that was left is dismissed in the wallet.                      *)
Dropped(n) == action[n].step = "left" /\ Finish(n)
=============================================================================
