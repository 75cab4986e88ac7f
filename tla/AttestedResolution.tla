------------------------- MODULE AttestedResolution ------------------------
(***************************************************************************)
(* Auctions that are resolved by attestation.  Operators sign statements,  *)
(* anybody submits envelopes of what was signed, and the owner adds and    *)
(* removes operators between the two.  The course of an auction is that of *)
(* AuctionPhases; the market's own checks of an outcome are in FairMarket. *)
(***************************************************************************)
EXTENDS AuctionPhases, MockEigenLayerAVS

CONSTANTS
  Outcomes,        \* the outcomes that pass the market's checks
  MaxEntries,      \* bound: the length of an envelope
  MaxSlashes       \* bound: after as many slashes of one operator nothing is submitted

VARIABLES
  signatures,      \* what has been signed, and by whom
  outcome          \* the outcome the market recorded, {} if none

vars == <<phaseView, avsVars, signatures, outcome>>

Statements == [auction : AuctionIds, outcome : Outcomes]

ResolutionTypeOK ==
  /\ PhasesTypeOK /\ AvsTypeOK
  /\ signatures \subseteq {Signed(o, s) : o \in Operators, s \in Statements}
  /\ outcome \in [AuctionIds -> {{}} \cup {{x} : x \in Outcomes}]

Init ==
  /\ PhasesInit /\ AvsInit
  /\ signatures = {}
  /\ outcome = [a \in AuctionIds |-> {}]

-----------------------------------------------------------------------------
Envelopes ==
  [statement : Statements,
   entries   : UNION {[1..n -> signatures \cup {Unsigned(o) : o \in Operators}]
                        : n \in 0..MaxEntries}]

(* The request to sign exists once the auction is being resolved.          *)
Sign(o, a, x) ==
  /\ phase[a] # "CREATED" /\ phase[a] # "ACTIVE" /\ phase[a] # "CANCELLED"
  /\ signatures' = signatures \cup {Signed(o, [auction |-> a, outcome |-> x])}
  /\ UNCHANGED <<phaseView, avsVars, outcome>>

(* A rejected proof leaves the auction as it is, with its request pending. *)
submitResolution(a, x, envelope) ==
  LET submitted == [auction |-> a, outcome |-> x] IN
  /\ \A o \in Operators : slashCount[o] < MaxSlashes
  /\ phase[a] = "RESOLVING"
  /\ verifyAttestation(envelope, submitted)
  /\ IF Accepted(envelope, submitted)
       THEN Settle(a) /\ outcome' = [outcome EXCEPT ![a] = {x}]
       ELSE UNCHANGED <<phaseView, outcome>>
  /\ UNCHANGED signatures

Rotate ==
  /\ \/ \E o \in Operators : AddOperator(o) \/ RemoveOperator(o)
     \/ \E t \in 0..Cardinality(Operators) : setThreshold(t)
  /\ UNCHANGED <<phaseView, signatures, outcome>>

(* Everything that happens to an auction other than an outcome.            *)
MarketMoves ==
  /\ \/ TimePasses
     \/ \E a \in AuctionIds : Create(a) \/ Cancel(a) \/ Finalize(a) \/ VoidAuction(a)
  /\ UNCHANGED <<avsVars, signatures, outcome>>

Next ==
  \/ MarketMoves
  \/ Rotate
  \/ \E a \in AuctionIds, x \in Outcomes :
       \/ \E o \in Operators : Sign(o, a, x)
       \/ \E envelope \in Envelopes : submitResolution(a, x, envelope)

Spec == Init /\ [][Next]_vars

-----------------------------------------------------------------------------
Signers(a, x) ==
  {o \in isOperator : Signed(o, [auction |-> a, outcome |-> x]) \in signatures}

(* The operators in office can always reach the threshold, through every   *)
(* order of setOperator and setThreshold, and operatorCount is their       *)
(* number.                                                                 *)
ThresholdInReach ==
  /\ operatorCount = Cardinality(isOperator)
  /\ ValidThreshold(threshold, operatorCount)

(* An auction is finalized only with an outcome that at least `threshold`  *)
(* distinct operators signed who are in office at that moment, for that    *)
(* auction: entries that repeat an operator, name a removed one or carry a *)
(* signature for something else never make up a quorum.                    *)
SettledByQuorum ==
  [][\A a \in AuctionIds : phase[a] # "FINALIZED" /\ phase'[a] = "FINALIZED" =>
       \E x \in Outcomes :
         outcome'[a] = {x} /\ Cardinality(Signers(a, x)) >= threshold]_vars

(* Operators who agree can resolve: when all in office have signed the     *)
(* same outcome, some envelope of their signatures is accepted, whatever   *)
(* the owner changed before or after they signed.                          *)
AgreementSettles ==
  \A a \in AuctionIds, x \in Outcomes :
    phase[a] = "RESOLVING" /\ Signers(a, x) = isOperator =>
      \E envelope \in Envelopes :
        Accepted(envelope, [auction |-> a, outcome |-> x])

(* A rejected submission slashes an operator at most once, however often   *)
(* the envelope names it, and only one in office; an accepted one slashes  *)
(* nobody (_slashOperators, _contains).                                    *)
SlashedOnce ==
  [][\A o \in Operators : slashCount'[o] # slashCount[o] =>
       /\ slashCount'[o] = slashCount[o] + 1
       /\ o \in isOperator
       /\ UNCHANGED <<phase, outcome>>]_vars
=============================================================================
