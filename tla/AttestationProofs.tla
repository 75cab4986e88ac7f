------------------------- MODULE AttestationProofs -------------------------
(***************************************************************************)
(* What attestation guarantees for every finite set of operators, every    *)
(* set of auctions and outcomes, and every order of rotations, signatures  *)
(* and submissions.                                                        *)
(***************************************************************************)
EXTENDS AttestedResolution, FiniteSetTheorems, SequenceTheorems, TLAPS

LEMMA OperatorsFinite ==
  ASSUME NEW S, S \subseteq Operators
  PROVE  IsFiniteSet(S) /\ Cardinality(S) \in Nat
BY OperatorsAssumption, FS_Subset, FS_CardinalityType

(* What envelopes are made of.                                             *)
LEMMA EnvelopeType ==
  ASSUME ResolutionTypeOK, NEW envelope \in Envelopes
  PROVE  /\ envelope.statement \in Statements
         /\ Len(envelope.entries) \in Nat
         /\ envelope.entries \in
              [1..Len(envelope.entries) -> signatures \cup {Unsigned(o) : o \in Operators}]
<1> DEFINE E == signatures \cup {Unsigned(o) : o \in Operators}
<1>1. /\ envelope.statement \in Statements
      /\ envelope.entries \in UNION {[1..n -> E] : n \in 0..MaxEntries}
  BY DEF Envelopes
<1>2. PICK n \in 0..MaxEntries : envelope.entries \in [1..n -> E]
  BY <1>1
<1>3. n \in Nat
  OBVIOUS
<1>4. envelope.entries \in Seq(E)
  BY <1>2, <1>3, SeqDef
<1> QED
  BY <1>1, <1>4, LenProperties

-----------------------------------------------------------------------------
(* The threshold.                                                          *)

LEMMA InitReach == ASSUME Init PROVE AvsTypeOK /\ ThresholdInReach
<1>1. PICK S \in SUBSET Operators \ {{}} : isOperator = S
  BY DEF Init, AvsInit
<1>2. Cardinality(isOperator) \in Nat
  BY <1>1, OperatorsFinite
<1> QED
  BY <1>1, <1>2 DEF Init, AvsInit, AvsTypeOK, ThresholdInReach, ValidThreshold

LEMMA LoweredThresholdInReach ==
  ASSUME AvsTypeOK, LowerThreshold, ThresholdInReach, operatorCount' \in Nat
  PROVE  threshold' \in Nat /\ ValidThreshold(threshold', operatorCount')
BY DEF AvsTypeOK, LowerThreshold, ThresholdInReach, ValidThreshold

LEMMA RotationReach ==
  ASSUME AvsTypeOK, ThresholdInReach, Rotate
  PROVE  AvsTypeOK' /\ ThresholdInReach'
<1>1. isOperator \subseteq Operators /\ IsFiniteSet(isOperator)
  BY OperatorsFinite DEF AvsTypeOK
<1>2. CASE \E o \in Operators : AddOperator(o)
  <2>1. PICK o \in Operators : AddOperator(o)
    BY <1>2
  <2>2. Cardinality(isOperator') = Cardinality(isOperator) + 1
    BY <1>1, <2>1, FS_AddElement DEF AddOperator
  <2>3. operatorCount' = Cardinality(isOperator') /\ operatorCount' \in Nat
    BY <2>1, <2>2 DEF AddOperator, AvsTypeOK, ThresholdInReach
  <2>4. isOperator' \subseteq Operators
    BY <2>1 DEF AddOperator, AvsTypeOK
  <2> QED
    BY <2>1, <2>3, <2>4, LoweredThresholdInReach
    DEF AddOperator, AvsTypeOK, ThresholdInReach
<1>3. CASE \E o \in Operators : RemoveOperator(o)
  <2>1. PICK o \in Operators : RemoveOperator(o)
    BY <1>3
  <2>2. Cardinality(isOperator') = Cardinality(isOperator) - 1
    BY <1>1, <2>1, FS_RemoveElement DEF RemoveOperator
  <2>3. isOperator' \subseteq Operators
    BY <2>1 DEF RemoveOperator, AvsTypeOK
  <2>4. operatorCount' = Cardinality(isOperator')
    BY <2>1, <2>2 DEF RemoveOperator, ThresholdInReach
  <2>5. operatorCount' \in Nat
    BY <2>3, <2>4, OperatorsFinite
  <2> QED
    BY <2>1, <2>3, <2>4, <2>5, LoweredThresholdInReach
    DEF RemoveOperator, AvsTypeOK, ThresholdInReach
<1>4. CASE \E t \in 0..Cardinality(Operators) : setThreshold(t)
  BY <1>4, OperatorsFinite
  DEF setThreshold, AvsTypeOK, ThresholdInReach, ValidThreshold
<1> QED
  BY <1>2, <1>3, <1>4 DEF Rotate

-----------------------------------------------------------------------------
(* Slashes.                                                                *)

(* The indices that SlashOperators counts for one operator: the first one  *)
(* at which the operator is named, or none.                                *)
FirstNamed(entries, o) ==
  {i \in DOMAIN entries : entries[i].operator = o /\ ~Contains(entries, o, i)}

LEMMA NamedFirstOnce ==
  ASSUME ResolutionTypeOK, NEW envelope \in Envelopes, NEW o
  PROVE  Cardinality(FirstNamed(envelope.entries, o)) \in {0, 1}
<1> DEFINE entries == envelope.entries
           F == FirstNamed(entries, o)
<1>1. Len(entries) \in Nat /\ DOMAIN entries = 1..Len(entries)
  BY EnvelopeType
<1>2. \A i, j \in F : i = j
  <2> SUFFICES ASSUME NEW i \in F, NEW j \in F, i < j PROVE FALSE
    BY <1>1 DEF FirstNamed
  <2>1. i \in 1..(j - 1) /\ entries[i].operator = o
    BY <1>1 DEF FirstNamed
  <2> QED
    BY <2>1 DEF FirstNamed, Contains
<1>3. CASE F = {}
  BY <1>3, FS_EmptySet
<1>4. CASE F # {}
  <2>1. PICK i : i \in F
    BY <1>4
  <2>2. F = {i}
    BY <1>2, <2>1
  <2> QED
    BY <2>2, FS_Singleton
<1> QED
  BY <1>3, <1>4

LEMMA SlashStep ==
  ASSUME ResolutionTypeOK, NEW envelope \in Envelopes, NEW submitted,
         verifyAttestation(envelope, submitted)
  PROVE  /\ slashCount' \in [Operators -> Nat]
         /\ \A o \in Operators : slashCount'[o] # slashCount[o] =>
              /\ slashCount'[o] = slashCount[o] + 1
              /\ o \in isOperator
              /\ Fraudulent(envelope, submitted)
<1>1. slashCount \in [Operators -> Nat]
  BY DEF ResolutionTypeOK, AvsTypeOK
<1>2. CASE Fraudulent(envelope, submitted)
  <2>1. \A o \in Operators : Cardinality(FirstNamed(envelope.entries, o)) \in {0, 1}
    BY NamedFirstOnce
  <2>2. slashCount' = [o \in Operators |->
          IF o \in isOperator
            THEN slashCount[o] + Cardinality(FirstNamed(envelope.entries, o))
            ELSE slashCount[o]]
    BY <1>2 DEF verifyAttestation, SlashOperators, FirstNamed
  <2> QED
    BY <1>1, <1>2, <2>1, <2>2
<1>3. CASE ~Fraudulent(envelope, submitted)
  BY <1>1, <1>3 DEF verifyAttestation
<1> QED
  BY <1>2, <1>3

-----------------------------------------------------------------------------
(* Quorums.                                                                *)

(* An accepted envelope names as many operators in office who signed the   *)
(* statement as it has entries: its list of names is an injection.         *)
LEMMA AcceptedIsQuorum ==
  ASSUME ResolutionTypeOK, ThresholdInReach, NEW envelope \in Envelopes,
         NEW a \in AuctionIds, NEW x \in Outcomes,
         Accepted(envelope, [auction |-> a, outcome |-> x])
  PROVE  Cardinality(Signers(a, x)) >= threshold
<1> DEFINE submitted == [auction |-> a, outcome |-> x]
           entries == envelope.entries
           n == Len(entries)
           E == signatures \cup {Unsigned(o) : o \in Operators}
           name == [i \in 1..n |-> entries[i].operator]
<1>1. n \in Nat /\ entries \in [1..n -> E]
  BY EnvelopeType
<1>2. DOMAIN entries = 1..n
  BY <1>1
<1>3. threshold \in Nat /\ n >= threshold
  BY DEF Accepted, EnoughEntries, ResolutionTypeOK, AvsTypeOK
<1>4. \A i \in 1..n : ValidEntry(entries, submitted, i)
  BY <1>2 DEF Accepted, EntriesValid
<1>5. ASSUME NEW i \in 1..n
      PROVE  name[i] \in Signers(a, x)
  <2>1. /\ entries[i].operator \in isOperator
        /\ entries[i] = Signed(entries[i].operator, submitted)
    BY <1>4 DEF ValidEntry
  <2>2. entries[i] \in signatures
    <3>1. entries[i] \in E
      BY <1>1
    <3>2. entries[i].proves = {submitted}
      BY <2>1 DEF Signed
    <3>3. \A o \in Operators : Unsigned(o).proves = {}
      BY DEF Unsigned
    <3> QED
      BY <3>1, <3>2, <3>3
  <2> QED
    BY <2>1, <2>2 DEF Signers
<1>6. ASSUME NEW i \in 1..n, NEW j \in 1..n, i < j
      PROVE  name[i] # name[j]
  <2>1. i \in 1..(j - 1)
    BY <1>1, <1>6
  <2>2. ~Contains(entries, entries[j].operator, j)
    BY <1>4 DEF ValidEntry
  <2> QED
    BY <2>1, <2>2 DEF Contains
<1>7. name \in Injection(1..n, Signers(a, x))
  <2>1. name \in [1..n -> Signers(a, x)]
    BY <1>5
  <2>2. \A i, j \in 1..n : name[i] = name[j] => i = j
    <3> SUFFICES ASSUME NEW i \in 1..n, NEW j \in 1..n, i # j
                 PROVE  name[i] # name[j]
      OBVIOUS
    <3>1. CASE i < j
      BY <1>6, <3>1
    <3>2. CASE j < i
      BY <1>6, <3>2
    <3> QED
      BY <1>1, <3>1, <3>2
  <2> HIDE DEF name
  <2> QED
    BY <2>1, <2>2 DEF Injection, IsInjective
<1>8. Signers(a, x) \subseteq Operators
  BY DEF Signers, ResolutionTypeOK, AvsTypeOK
<1>9. IsFiniteSet(Signers(a, x)) /\ Cardinality(Signers(a, x)) \in Nat
  BY <1>8, OperatorsFinite
<1>10. Cardinality(1..n) <= Cardinality(Signers(a, x))
  BY <1>7, <1>9, FS_Injection
<1>11. Cardinality(1..n) = n
  BY <1>1, FS_Interval
<1> HIDE DEF n
<1> QED
  BY <1>1, <1>3, <1>9, <1>10, <1>11

(* When all operators in office have signed, the envelope that lists them  *)
(* is accepted.                                                            *)
LEMMA AgreementGivesEnvelope ==
  ASSUME ResolutionTypeOK, ThresholdInReach,
         MaxEntries \in Nat, Cardinality(Operators) <= MaxEntries
  PROVE  AgreementSettles
<1> SUFFICES ASSUME NEW a \in AuctionIds, NEW x \in Outcomes,
                    Signers(a, x) = isOperator
             PROVE  \E envelope \in Envelopes :
                      Accepted(envelope, [auction |-> a, outcome |-> x])
  BY DEF AgreementSettles
<1> DEFINE submitted == [auction |-> a, outcome |-> x]
           n == Cardinality(isOperator)
           E == signatures \cup {Unsigned(o) : o \in Operators}
<1>1. isOperator \subseteq Operators
  BY DEF ResolutionTypeOK, AvsTypeOK
<1>2. IsFiniteSet(isOperator) /\ n \in Nat /\ ExistsBijection(1..n, isOperator)
  BY <1>1, OperatorsFinite, FS_CardinalityType
<1>3. n <= Cardinality(Operators) /\ Cardinality(Operators) \in Nat
  BY <1>1, OperatorsAssumption, OperatorsFinite, FS_Subset
<1>4. n \in 0..MaxEntries
  BY <1>2, <1>3
<1>5. PICK member : member \in Bijection(1..n, isOperator)
  BY <1>2 DEF ExistsBijection
<1>6. /\ \A i \in 1..n : member[i] \in isOperator
      /\ \A i, j \in 1..n : member[i] = member[j] => i = j
  BY <1>5 DEF Bijection, Injection, IsInjective
<1> DEFINE entries == [i \in 1..n |-> Signed(member[i], submitted)]
           envelope == [statement |-> submitted, entries |-> entries]
<1>7. \A i \in 1..n : Signed(member[i], submitted) \in signatures
  BY <1>6 DEF Signers
<1>8. entries \in [1..n -> E]
  BY <1>7
<1>9. envelope \in Envelopes
  <2>1. submitted \in Statements
    BY DEF Statements
  <2>2. entries \in UNION {[1..k -> E] : k \in 0..MaxEntries}
    BY <1>4, <1>8
  <2> HIDE DEF entries, submitted
  <2> QED
    BY <2>1, <2>2 DEF Envelopes
<1>10. Len(entries) = n
  BY <1>2, <1>8
<1>11. EnoughEntries(entries)
  BY <1>2, <1>10
  DEF EnoughEntries, ThresholdInReach, ValidThreshold, ResolutionTypeOK, AvsTypeOK
<1>12. ASSUME NEW i \in DOMAIN entries
       PROVE  ValidEntry(entries, submitted, i)
  <2>1. i \in 1..n
    OBVIOUS
  <2>2. entries[i].operator = member[i]
    BY <2>1 DEF Signed
  <2>3. \A j \in 1..(i - 1) : j \in 1..n /\ j # i /\ entries[j].operator = member[j]
    BY <1>2, <2>1 DEF Signed
  <2>4. entries[i] = Signed(entries[i].operator, submitted)
    BY <2>1, <2>2
  <2>5. entries[i].operator \in isOperator
    BY <1>6, <2>1, <2>2
  <2> HIDE DEF entries, submitted
  <2>6. ~Contains(entries, entries[i].operator, i)
    BY <1>6, <2>1, <2>2, <2>3 DEF Contains
  <2> QED
    BY <2>4, <2>5, <2>6 DEF ValidEntry
<1>13. Accepted(envelope, submitted)
  <2> HIDE DEF entries, submitted
  <2> QED
    BY <1>11, <1>12 DEF Accepted, EntriesValid
<1> QED
  BY <1>9, <1>13

-----------------------------------------------------------------------------
(* The invariant.                                                          *)

AttestationInv == ResolutionTypeOK /\ ThresholdInReach

LEMMA InitInv == Init => AttestationInv
<1> SUFFICES ASSUME Init PROVE AttestationInv
  OBVIOUS
<1>1. AvsTypeOK /\ ThresholdInReach
  BY InitReach
<1>2. PhasesTypeOK
  BY DEF Init, PhasesInit, PhasesTypeOK, Phase
<1> QED
  BY <1>1, <1>2 DEF Init, ResolutionTypeOK, AttestationInv

LEMMA MoveTyped ==
  ASSUME PhasesTypeOK, NEW a, NEW from, NEW to \in Phase, Move(a, from, to)
  PROVE  PhasesTypeOK'
BY DEF PhasesTypeOK, Move

LEMMA MarketMovesTyped ==
  ASSUME PhasesTypeOK, MarketMoves
  PROVE  PhasesTypeOK'
<1>1. CASE TimePasses
  BY <1>1 DEF TimePasses, PhasesTypeOK
<1>2. CASE \E a \in AuctionIds : Create(a) \/ Cancel(a) \/ Finalize(a) \/ VoidAuction(a)
  BY <1>2, MoveTyped DEF Create, Cancel, Finalize, VoidAuction, Phase
<1> QED
  BY <1>1, <1>2 DEF MarketMoves

LEMMA SubmissionInv ==
  ASSUME AttestationInv, NEW a \in AuctionIds, NEW x \in Outcomes,
         NEW envelope \in Envelopes, submitResolution(a, x, envelope)
  PROVE  AttestationInv'
<1> DEFINE submitted == [auction |-> a, outcome |-> x]
<1>1. verifyAttestation(envelope, submitted) /\ UNCHANGED signatures
  BY DEF submitResolution
<1>2. UNCHANGED memberVars /\ slashCount' \in [Operators -> Nat]
  BY <1>1, SlashStep DEF verifyAttestation, AttestationInv
<1>3. AvsTypeOK' /\ ThresholdInReach'
  BY <1>2 DEF memberVars, AttestationInv, ResolutionTypeOK, AvsTypeOK,
              ThresholdInReach, ValidThreshold
<1>4. /\ PhasesTypeOK'
      /\ outcome' \in [AuctionIds -> {{}} \cup {{y} : y \in Outcomes}]
  <2>1. PhasesTypeOK /\ outcome \in [AuctionIds -> {{}} \cup {{y} : y \in Outcomes}]
    BY DEF AttestationInv, ResolutionTypeOK
  <2>2. CASE Accepted(envelope, submitted)
    <3>1. Settle(a) /\ outcome' = [outcome EXCEPT ![a] = {x}]
      BY <2>2 DEF submitResolution
    <3>2. PhasesTypeOK'
      BY <2>1, <3>1, MoveTyped DEF Settle, Phase
    <3> QED
      BY <2>1, <3>1, <3>2
  <2>3. CASE ~Accepted(envelope, submitted)
    BY <2>1, <2>3 DEF submitResolution, phaseView, PhasesTypeOK
  <2> QED
    BY <2>2, <2>3
<1> QED
  BY <1>1, <1>3, <1>4 DEF AttestationInv, ResolutionTypeOK

LEMMA NextInv == AttestationInv /\ [Next]_vars => AttestationInv'
<1> SUFFICES ASSUME AttestationInv, [Next]_vars PROVE AttestationInv'
  OBVIOUS
<1> USE DEF AttestationInv, ResolutionTypeOK
<1>1. CASE MarketMoves
  <2>1. PhasesTypeOK'
    BY <1>1, MarketMovesTyped
  <2>2. AvsTypeOK' /\ ThresholdInReach'
    BY <1>1 DEF MarketMoves, avsVars, memberVars, AvsTypeOK, ThresholdInReach, ValidThreshold
  <2> QED
    BY <1>1, <2>1, <2>2 DEF MarketMoves
<1>2. CASE Rotate
  <2>1. AvsTypeOK' /\ ThresholdInReach'
    BY <1>2, RotationReach
  <2> QED
    BY <1>2, <2>1 DEF Rotate, phaseView, PhasesTypeOK
<1>3. ASSUME NEW a \in AuctionIds, NEW x \in Outcomes, NEW o \in Operators, Sign(o, a, x)
      PROVE  AttestationInv'
  <2>1. [auction |-> a, outcome |-> x] \in Statements
    BY DEF Statements
  <2>2. signatures' \subseteq {Signed(p, s) : p \in Operators, s \in Statements}
    BY <1>3, <2>1 DEF Sign
  <2> QED
    BY <1>3, <2>2 DEF Sign, phaseView, avsVars, memberVars, PhasesTypeOK, AvsTypeOK,
                      ThresholdInReach, ValidThreshold
<1>4. ASSUME NEW a \in AuctionIds, NEW x \in Outcomes, NEW envelope \in Envelopes,
             submitResolution(a, x, envelope)
      PROVE  AttestationInv'
  BY <1>4, SubmissionInv
<1>5. CASE UNCHANGED vars
  BY <1>5 DEF vars, phaseView, avsVars, memberVars, PhasesTypeOK, AvsTypeOK,
              ThresholdInReach, ValidThreshold
<1> QED
  BY <1>1, <1>2, <1>3, <1>4, <1>5 DEF Next

LEMMA Inv == Spec => []AttestationInv
BY InitInv, NextInv, PTL DEF Spec

-----------------------------------------------------------------------------
(* The operators in office can always reach the threshold.                 *)
THEOREM QuorumInReach == Spec => []ThresholdInReach
BY Inv, PTL DEF AttestationInv

(* Operators in office who agree can resolve, provided envelopes may be    *)
(* as long as there are operators.                                         *)
THEOREM AgreementAlwaysSettles ==
  ASSUME MaxEntries \in Nat, Cardinality(Operators) <= MaxEntries
  PROVE  Spec => []AgreementSettles
<1>1. AttestationInv => AgreementSettles
  BY AgreementGivesEnvelope DEF AttestationInv
<1> QED
  BY <1>1, Inv, PTL

(* Only a quorum of operators in office resolves an auction.               *)
THEOREM OnlyQuorumSettles == Spec => SettledByQuorum
<1> DEFINE ByQuorum ==
      \A a \in AuctionIds : phase[a] # "FINALIZED" /\ phase'[a] = "FINALIZED" =>
        \E x \in Outcomes :
          outcome'[a] = {x} /\ Cardinality(Signers(a, x)) >= threshold
<1>1. ASSUME AttestationInv, [Next]_vars PROVE [ByQuorum]_vars
  <2> SUFFICES ASSUME NEW a \in AuctionIds,
                      phase[a] # "FINALIZED", phase'[a] = "FINALIZED", Next
               PROVE  \E x \in Outcomes :
                        outcome'[a] = {x} /\ Cardinality(Signers(a, x)) >= threshold
    BY <1>1 DEF vars, phaseView
  <2>1. phase \in [AuctionIds -> Phase]
    BY <1>1 DEF AttestationInv, ResolutionTypeOK, PhasesTypeOK
  <2>2. ~MarketMoves
    BY <2>1 DEF MarketMoves, TimePasses, Create, Cancel, Finalize, VoidAuction, Move
  <2>3. ~Rotate
    BY DEF Rotate, phaseView
  <2>4. ~\E b \in AuctionIds, x \in Outcomes, o \in Operators : Sign(o, b, x)
    BY DEF Sign, phaseView
  <2>5. PICK b \in AuctionIds, x \in Outcomes, envelope \in Envelopes :
          submitResolution(b, x, envelope)
    BY <2>2, <2>3, <2>4 DEF Next
  <2>6. /\ Accepted(envelope, [auction |-> b, outcome |-> x])
        /\ Settle(b) /\ outcome' = [outcome EXCEPT ![b] = {x}]
    BY <2>5 DEF submitResolution, phaseView
  <2>7. b = a
    BY <2>1, <2>6 DEF Settle, Move
  <2>8. outcome'[a] = {x}
    BY <1>1, <2>6, <2>7 DEF AttestationInv, ResolutionTypeOK
  <2> QED
    BY <1>1, <2>6, <2>7, <2>8, AcceptedIsQuorum DEF AttestationInv
<1> QED
  BY <1>1, Inv, PTL DEF Spec, SettledByQuorum

(* A slash hits an operator in office, once, and no settlement slashes.    *)
THEOREM SlashesCountOnce == Spec => SlashedOnce
<1> DEFINE Once ==
      \A o \in Operators : slashCount'[o] # slashCount[o] =>
        /\ slashCount'[o] = slashCount[o] + 1
        /\ o \in isOperator
        /\ UNCHANGED <<phase, outcome>>
<1>1. ASSUME AttestationInv, [Next]_vars PROVE [Once]_vars
  <2> SUFFICES ASSUME NEW o \in Operators, slashCount'[o] # slashCount[o], Next
               PROVE  /\ slashCount'[o] = slashCount[o] + 1
                      /\ o \in isOperator
                      /\ UNCHANGED <<phase, outcome>>
    BY <1>1 DEF vars, avsVars
  <2>1. ~MarketMoves /\ ~Rotate
    BY DEF MarketMoves, Rotate, AddOperator, RemoveOperator, setThreshold, avsVars
  <2>2. ~\E b \in AuctionIds, x \in Outcomes, p \in Operators : Sign(p, b, x)
    BY DEF Sign, avsVars
  <2>3. PICK b \in AuctionIds, x \in Outcomes, envelope \in Envelopes :
          submitResolution(b, x, envelope)
    BY <2>1, <2>2 DEF Next
  <2> DEFINE submitted == [auction |-> b, outcome |-> x]
  <2>4. verifyAttestation(envelope, submitted)
    BY <2>3 DEF submitResolution
  <2>5. /\ slashCount'[o] = slashCount[o] + 1 /\ o \in isOperator
        /\ Fraudulent(envelope, submitted)
    BY <1>1, <2>4, SlashStep DEF AttestationInv
  <2>6. ~Accepted(envelope, submitted)
    BY <2>5 DEF Fraudulent, Accepted
  <2> QED
    BY <2>3, <2>5, <2>6 DEF submitResolution, phaseView
<1> QED
  BY <1>1, Inv, PTL DEF Spec, SlashedOnce
=============================================================================
