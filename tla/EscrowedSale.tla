---------------------------- MODULE EscrowedSale ----------------------------
(***************************************************************************)
(* What the market promises about money: sales in escrow.  A sale owes     *)
(* every bidder a refund, the seller the proceeds and the executor a       *)
(* reward, and it owes what lies in sealed envelopes outside the market's  *)
(* cash.  While a sale is open these only grow; one outcome shifts them    *)
(* once; from then on each is paid once, whole, and to nobody else.        *)
(* FairMarket implements this specification.                               *)
(***************************************************************************)
EXTENDS Integers

CONSTANTS SaleIds, SaleBidders, Envelopes

VARIABLES
  cash,                                 \* the balance all sales share
  stage,
  refund, proceeds, reward, sealed      \* what a sale still owes

dues == <<refund, proceeds, reward, sealed>>
saleView == <<cash, stage, dues>>

NoRefund == [u \in SaleBidders |-> 0]
NothingSealed == [e \in Envelopes |-> 0]

SalesInit ==
  /\ cash = 0
  /\ stage = [s \in SaleIds |-> "unlisted"]
  /\ refund = [s \in SaleIds |-> NoRefund]
  /\ proceeds = [s \in SaleIds |-> 0]
  /\ reward = [s \in SaleIds |-> 0]
  /\ sealed = [s \in SaleIds |-> NothingSealed]

PaidIn == cash' - cash
PaidOut == cash - cash'

-----------------------------------------------------------------------------
(* An open sale.                                                           *)

(* A new sale owes the seller the deposit, and nobody else anything.       *)
List(s) ==
  /\ PaidIn > 0
  /\ stage[s] = "unlisted" /\ stage' = [stage EXCEPT ![s] = "open"]
  /\ refund[s] = NoRefund /\ reward[s] = 0 /\ sealed[s] = NothingSealed
  /\ proceeds' = [proceeds EXCEPT ![s] = PaidIn]
  /\ UNCHANGED <<refund, reward, sealed>>

AddEscrow(s, u) ==
  /\ PaidIn > 0
  /\ stage[s] = "open"
  /\ refund' = [refund EXCEPT ![s][u] = @ + PaidIn]
  /\ UNCHANGED <<stage, proceeds, reward, sealed>>

(* An envelope is filled once; the market never holds what is in it.       *)
Seal(s, e) ==
  /\ UNCHANGED cash
  /\ stage[s] = "open"
  /\ sealed[s][e] = 0 /\ sealed'[s][e] > 0
  /\ sealed' = [sealed EXCEPT ![s][e] = sealed'[s][e]]
  /\ UNCHANGED <<stage, refund, proceeds, reward>>

-----------------------------------------------------------------------------
(* The outcome.                                                            *)

(* The executor's reward is the seller's expense, not the buyer's, and it  *)
(* is covered by what the slash leaves of the deposit.                     *)
Settles(s, price, slash) ==
  /\ stage[s] = "open" /\ stage' = [stage EXCEPT ![s] = "settled"]
  /\ LET fee == reward'[s] IN
     /\ fee \in 0..(proceeds[s] - slash)
     /\ reward' = [reward EXCEPT ![s] = fee]
     /\ proceeds' = [proceeds EXCEPT ![s] = @ - slash - fee + price]

(* A bidder buys at no more than its escrow, and is owed the rest.         *)
Sell(s, u) ==
  LET price == refund[s][u] - refund'[s][u] IN
  /\ UNCHANGED cash
  /\ Settles(s, price, 0)
  /\ price \in 1..refund[s][u]
  /\ refund' = [refund EXCEPT ![s][u] = @ - price]
  /\ UNCHANGED sealed

(* The price comes out of the envelope into the cash.                      *)
SellSealed(s, e) ==
  /\ PaidIn \in 1..sealed[s][e]
  /\ Settles(s, PaidIn, 0)
  /\ sealed' = [sealed EXCEPT ![s][e] = @ - PaidIn]
  /\ UNCHANGED refund

(* No sale: everybody gets back what is theirs, only that a seller who let *)
(* bidders down loses a part of the deposit.                               *)
CallOff(s) ==
  /\ PaidOut >= 0
  /\ Settles(s, 0, PaidOut)
  /\ PaidOut # 0 => refund[s] # NoRefund \/ sealed[s] # NothingSealed
  /\ UNCHANGED <<refund, sealed>>

-----------------------------------------------------------------------------
(* Payments.                                                               *)

PayRefund(s, u) ==
  /\ PaidOut > 0
  /\ stage[s] = "settled" /\ PaidOut = refund[s][u]
  /\ refund' = [refund EXCEPT ![s][u] = 0]
  /\ UNCHANGED <<stage, proceeds, reward, sealed>>

PayProceeds(s) ==
  /\ PaidOut > 0
  /\ stage[s] = "settled" /\ PaidOut = proceeds[s]
  /\ proceeds' = [proceeds EXCEPT ![s] = 0]
  /\ UNCHANGED <<stage, refund, reward, sealed>>

PayReward(s) ==
  /\ PaidOut > 0
  /\ stage[s] = "settled" /\ PaidOut = reward[s]
  /\ reward' = [reward EXCEPT ![s] = 0]
  /\ UNCHANGED <<stage, refund, proceeds, sealed>>

OpenEnvelope(s, e) ==
  /\ UNCHANGED cash
  /\ stage[s] = "settled" /\ sealed[s][e] # 0
  /\ sealed' = [sealed EXCEPT ![s][e] = 0]
  /\ UNCHANGED <<stage, refund, proceeds, reward>>

(* Value that belongs to no sale.                                          *)
Gift == PaidIn > 0 /\ UNCHANGED <<stage, dues>>

SalesNext ==
  \/ Gift
  \/ \E s \in SaleIds :
       \/ List(s) \/ CallOff(s) \/ PayProceeds(s) \/ PayReward(s)
       \/ \E u \in SaleBidders : AddEscrow(s, u) \/ Sell(s, u) \/ PayRefund(s, u)
       \/ \E e \in Envelopes : Seal(s, e) \/ SellSealed(s, e) \/ OpenEnvelope(s, e)

SalesSpec == SalesInit /\ [][SalesNext]_saleView
=============================================================================
