------------------------- MODULE MockEigenLayerAVS -------------------------
(***************************************************************************)
(* The contract of the operators that attest resolutions: who they are,    *)
(* how many of them an attestation takes, and how often each was slashed.  *)
(*                                                                         *)
(* A statement is what a digest commits to: the auction (which fixes the   *)
(* request, an auction having one) and the outcome.  The digests of the    *)
(* public and of the shielded lane have the same form, and so do the two   *)
(* functions that verify them; an outcome is of either lane.               *)
(***************************************************************************)
EXTENDS Integers, FiniteSets, Sequences

CONSTANT Operators      \* the addresses that may become operators

ASSUME OperatorsAssumption == IsFiniteSet(Operators)

VARIABLES isOperator, operatorCount, threshold, slashCount

memberVars == <<isOperator, operatorCount, threshold>>
avsVars == <<memberVars, slashCount>>

AvsTypeOK ==
  /\ isOperator \subseteq Operators
  /\ operatorCount \in Nat
  /\ threshold \in Nat
  /\ slashCount \in [Operators -> Nat]

(* The constructor: distinct operators, and a threshold they can reach.    *)
AvsInit ==
  /\ isOperator \in SUBSET Operators \ {{}}
  /\ operatorCount = Cardinality(isOperator)
  /\ threshold \in 1..operatorCount
  /\ slashCount = [o \in Operators |-> 0]

-----------------------------------------------------------------------------
(* The owner.                                                              *)

ValidThreshold(t, count) == 1 <= t /\ t <= count

(* Mutant of LowerThreshold: removing an operator leaves the threshold.     *)
KeepThreshold == UNCHANGED threshold

(* The threshold follows the number of operators down.  That of an empty   *)
(* set is no valid threshold, so the last operator cannot be removed.      *)
LowerThreshold ==
  IF threshold > operatorCount'
    THEN /\ ValidThreshold(operatorCount', operatorCount')
         /\ threshold' = operatorCount'
    ELSE UNCHANGED threshold

AddOperator(o) ==
  /\ o \notin isOperator
  /\ isOperator' = isOperator \cup {o}
  /\ operatorCount' = operatorCount + 1
  /\ LowerThreshold
  /\ UNCHANGED slashCount

RemoveOperator(o) ==
  /\ o \in isOperator
  /\ isOperator' = isOperator \ {o}
  /\ operatorCount' = operatorCount - 1
  /\ LowerThreshold
  /\ UNCHANGED slashCount

setThreshold(t) ==
  /\ ValidThreshold(t, operatorCount)
  /\ threshold' = t
  /\ UNCHANGED <<isOperator, operatorCount, slashCount>>

-----------------------------------------------------------------------------
(* Verification.                                                           *)

(* An entry of an envelope: an operator it names, and what the signature   *)
(* beside the name proves that operator signed, which is one statement or  *)
(* nothing.  Lists of different lengths revert and are no envelopes.       *)
Signed(o, statement) == [operator |-> o, proves |-> {statement}]
Unsigned(o) == [operator |-> o, proves |-> {}]

(* An earlier entry of the list names the same operator.                   *)
Contains(entries, o, i) == \E j \in 1..(i - 1) : entries[j].operator = o

(* Mutant of ValidEntry: without the search for earlier entries.           *)
RepeatableEntry(entries, submitted, i) ==
  LET o == entries[i].operator IN o \in isOperator /\ entries[i] = Signed(o, submitted)

(* An entry counts if a current operator, not named before, has signed     *)
(* the submitted statement.                                                *)
ValidEntry(entries, submitted, i) ==
  LET o == entries[i].operator IN
  /\ o \in isOperator
  /\ ~Contains(entries, o, i)
  /\ entries[i] = Signed(o, submitted)

EntriesValid(entries, submitted) ==
  \A i \in DOMAIN entries : ValidEntry(entries, submitted, i)

(* Mutant of EnoughEntries: off by one.                                    *)
TooManyEntries(entries) == Len(entries) > threshold

EnoughEntries(entries) == Len(entries) >= threshold

Accepted(envelope, submitted) ==
  /\ envelope.statement = submitted
  /\ EnoughEntries(envelope.entries)
  /\ EntriesValid(envelope.entries, submitted)

(* Too few entries alone are rejected without a slash.                     *)
Fraudulent(envelope, submitted) ==
  \/ envelope.statement # submitted
  \/ EnoughEntries(envelope.entries) /\ ~EntriesValid(envelope.entries, submitted)

(* Mutant of SlashOperators: without _contains.                            *)
SlashEachEntry(entries) ==
  slashCount' = [o \in Operators |->
    IF o \in isOperator
      THEN slashCount[o] + Cardinality({i \in DOMAIN entries : entries[i].operator = o})
      ELSE slashCount[o]]

(* A slash counts for each current operator once, however often it is      *)
(* named.                                                                  *)
SlashOperators(entries) ==
  slashCount' = [o \in Operators |->
    IF o \in isOperator
      THEN slashCount[o]
             + Cardinality({i \in DOMAIN entries :
                              entries[i].operator = o /\ ~Contains(entries, o, i)})
      ELSE slashCount[o]]

verifyAttestation(envelope, submitted) ==
  /\ IF Fraudulent(envelope, submitted)
       THEN SlashOperators(envelope.entries)
       ELSE UNCHANGED slashCount
  /\ UNCHANGED memberVars
=============================================================================
