---------------------------- MODULE AvsSubmitter ----------------------------
(***************************************************************************)
(* The process that signs the artifacts with the operators' keys and       *)
(* submits them.  Its log of slashing violations, a file of its own that   *)
(* nothing reads, is left out.                                             *)
(***************************************************************************)
EXTENDS KeeperProcess

VARIABLE rejected    \* ghost: auctions of which the AVS rejected a proof

SubmitterPolls(s) ==
  /\ At(s, "IDLE")
  /\ Hydrate("SUBMITTER")
  /\ Become(s, Scan("CHECK", ReadyArtifacts(Hydrated("SUBMITTER")), 1))

(* Mutant of Check: an artifact is marked before it is sent.               *)
CheckAndMark(s) ==
  /\ At(s, "CHECK")
  /\ \E a \in thread[s].todo :
       Save(s, markResolutionArtifactSubmitted(Memory(s), a),
            [thread[s] EXCEPT
               !.pc = IF phase[a] = "RESOLVING" THEN "SUBMIT" ELSE "OBSOLETE",
               !.todo = @ \ {a}, !.at = a, !.saw = phase[a]])

(* An artifact of an auction that is settled only has to be marked.        *)
Check(s) ==
  /\ At(s, "CHECK")
  /\ \E a \in thread[s].todo :
       Continue(s, [thread[s] EXCEPT
         !.pc = IF phase[a] = "RESOLVING" THEN "SUBMIT" ELSE "OBSOLETE",
         !.todo = @ \ {a}, !.at = a, !.saw = phase[a]])

(* Mutant of Obsolete: an auction that is resolving no more is taken to be *)
(* finalized.                                                              *)
ObsoleteFinalized(s) ==
  /\ At(s, "OBSOLETE")
  /\ Save(s, updateAuctionState(Memory(s), thread[s].at, "FINALIZED"),
          [thread[s] EXCEPT !.pc = "MARK_SUBMITTED"])

Obsolete(s) ==
  /\ At(s, "OBSOLETE")
  /\ Save(s, updateAuctionState(Memory(s), thread[s].at, thread[s].saw),
          [thread[s] EXCEPT !.pc = "MARK_SUBMITTED"])

(* A proof that the AVS rejects is mined as well: to the submitter it is   *)
(* submitted.                                                              *)
Submit(s) ==
  LET a == thread[s].at
      then(pc) == Continue(s, [thread[s] EXCEPT !.pc = pc]) IN
  /\ At(s, "SUBMIT")
  /\ \/ Settle(a) /\ NoFault /\ then("MARK_SUBMITTED") /\ UNCHANGED rejected
     \/ /\ phase[a] = "RESOLVING" /\ Fault /\ then("MARK_SUBMITTED")
        /\ rejected' = rejected \cup {a}
        /\ UNCHANGED phaseView
     \/ /\ \/ phase[a] # "RESOLVING" /\ NoFault /\ UNCHANGED phaseView
           \/ Fault /\ (Settle(a) \/ UNCHANGED phaseView)
        /\ then("REFRESH")
        /\ UNCHANGED rejected

(* After a failure the artifact is obsolete if the auction is settled;     *)
(* otherwise the poll ends, with the artifacts behind it.                  *)
Refresh(s) ==
  LET a == thread[s].at IN
  /\ At(s, "REFRESH")
  /\ \/ /\ NoFault
        /\ Continue(s, IF phase[a] # "RESOLVING"
                         THEN [thread[s] EXCEPT !.pc = "OBSOLETE", !.saw = phase[a]]
                         ELSE IdleThread)
     \/ Fault /\ Continue(s, IdleThread)

MarkSubmitted(s) ==
  /\ At(s, "MARK_SUBMITTED")
  /\ Save(s, markResolutionArtifactSubmitted(Memory(s), thread[s].at),
          Loop(s, "CHECK"))

SubmissionsEnd(s) ==
  At(s, "CHECK") /\ thread[s].todo = {} /\ Continue(s, IdleThread)

SubmitterStep(s) ==
  \/ /\ \/ SubmitterPolls(s) \/ Check(s) \/ Obsolete(s)
        \/ MarkSubmitted(s) \/ SubmissionsEnd(s)
     /\ UNCHANGED <<phaseView, processVars, rejected>>
  \/ Refresh(s) /\ UNCHANGED <<phaseView, up, crashes, rejected>>
  \/ Submit(s) /\ UNCHANGED <<up, crashes>>
=============================================================================
