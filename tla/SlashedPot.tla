----------------------------- MODULE SlashedPot -----------------------------
(***************************************************************************)
(* SlashedPot.sol: the slashed deposits of cancelled and voided auctions,  *)
(* paid out to public bidders pro rata of their escrow.  The market's      *)
(* owner may rotate to another pot, so every instance has an index.        *)
(***************************************************************************)
EXTENDS MarketDomain, SettlementEngine

CONSTANT NumPots

ASSUME PotAssumption == NumPots \in Nat \ {0}

Pots == 1..NumPots

VARIABLES
  pots,                     \* _pots of every instance
  hasClaimedCompensation,
  potBalance,               \* native balance of every instance
  potWired                  \* pot.market is this market

potVars == <<pots, hasClaimedCompensation, potBalance, potWired>>

Pot == [exists : BOOLEAN, totalEscrow : Nat, totalSlash : Nat]

PotTypeOK ==
  /\ pots \in [Pots -> [Auctions -> Pot]]
  /\ hasClaimedCompensation \in [Pots -> [Auctions -> [Accounts -> BOOLEAN]]]
  /\ potBalance \in [Pots -> Nat]
  /\ potWired \in [Pots -> BOOLEAN]

(* The first pot is wired by the deployment; later ones by setMarket.      *)
PotInit ==
  /\ pots = [p \in Pots |-> [a \in Auctions |->
               [exists |-> FALSE, totalEscrow |-> 0, totalSlash |-> 0]]]
  /\ hasClaimedCompensation =
       [p \in Pots |-> [a \in Auctions |-> [u \in Accounts |-> FALSE]]]
  /\ potBalance = [p \in Pots |-> 0]
  /\ potWired = [p \in Pots |-> p = 1]

Pot_setMarket(p) ==
  /\ potWired' = [potWired EXCEPT ![p] = TRUE]
  /\ UNCHANGED <<pots, hasClaimedCompensation, potBalance>>

(* The denominator of the shares is fixed by the first registration.       *)
Pot_registerSlash(p, a, escrow, value) ==
  /\ potWired[p]
  /\ pots' = [pots EXCEPT ![p][a] =
       [exists      |-> TRUE,
        totalEscrow |-> IF @.exists THEN @.totalEscrow ELSE escrow,
        totalSlash  |-> @.totalSlash + value]]
  /\ potBalance' = [potBalance EXCEPT ![p] = @ + value]
  /\ UNCHANGED <<hasClaimedCompensation, potWired>>

Pot_previewClaim(p, a, contribution) ==
  computeProRataShare(contribution, pots[p][a].totalEscrow, pots[p][a].totalSlash)

(* claimFor.  Its second flag, hasClaimedCompensationByKey under the hash  *)
(* of the recipient, is set and tested together with the first one: no     *)
(* caller uses claimForKey.                                                *)
Pot_claimFor(p, a, u, contribution) ==
  LET amount == Pot_previewClaim(p, a, contribution) IN
  /\ potWired[p]
  /\ ~hasClaimedCompensation[p][a][u]
  /\ amount # 0 => u \notin RejectsValue /\ amount <= potBalance[p]
  /\ hasClaimedCompensation' = [hasClaimedCompensation EXCEPT ![p][a][u] = TRUE]
  /\ potBalance' = [potBalance EXCEPT ![p] = @ - amount]
  /\ UNCHANGED <<pots, potWired>>
=============================================================================
