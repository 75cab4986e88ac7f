------------------------ MODULE MCAttestedResolution -----------------------
(***************************************************************************)
(* Instances of AttestedResolution for TLC.  Operators are alike, and so   *)
(* are outcomes.                                                           *)
(***************************************************************************)
EXTENDS AttestedResolution, TLC

Symmetry == Permutations(Operators) \cup Permutations(Outcomes)
=============================================================================
