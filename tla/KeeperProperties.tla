-------------------------- MODULE KeeperProperties -------------------------
(***************************************************************************)
(* What the keeper promises.                                               *)
(***************************************************************************)
EXTENDS Keeper

(* Whether an auction of which p was read can be at q now.                 *)
NotAhead(p, q) ==
  \/ p = q
  \/ p = "CREATED"
  \/ p = "ACTIVE" /\ q # "CREATED"
  \/ p = "RESOLVING" /\ q \in {"FINALIZED", "VOIDED"}

(* Every store that some process has, is writing or has written.           *)
Stores ==
  {memory[r] : r \in Roles}
    \cup (UNION {writing[s] : s \in Slots})
    \cup (IF file.status = "COMPLETE" THEN {file.content} ELSE {})

(* No record is ahead of the chain, in memory, on disk or on its way:      *)
(* above all, an auction recorded as settled, which the monitor never      *)
(* reads again, is settled that way.                                       *)
RecordsNotAhead ==
  \A a \in AuctionIds :
    /\ \A st \in Stores : NotAhead(st.tracked[a], phase[a])
    /\ \A s \in Slots : thread[s].at = a => NotAhead(thread[s].saw, phase[a])

(* An artifact marked as submitted, which the submitter never sends again, *)
(* belongs to an auction that needs it no more, or was rejected by the AVS.*)
SubmittedMeansDone ==
  \A st \in Stores, a \in AuctionIds :
    st.artifact[a] = "SUBMITTED" => phase[a] \in Settled \/ a \in rejected

(* Overlapping polls do not finalize the same auction at once, unless an   *)
(* attempt has outlasted its lease.                                        *)
AttemptsExclusive ==
  \A a \in AuctionIds \ expired :
    \A s, t \in Monitors : Attempting(s, a) /\ Attempting(t, a) => s = t

-----------------------------------------------------------------------------
(* Progress, as long as the processes run.  What ends is written, polls    *)
(* are repeated, leases run out, and a poll that needs a readable file     *)
(* does not meet another process's write each time.                        *)

PollStep(s) ==
  \/ s \in Dispatchers /\ DispatcherPolls(s) /\ UNCHANGED <<phaseView, processVars, monitorVars, rejected>>
  \/ s \in Submitters /\ SubmitterPolls(s) /\ UNCHANGED <<phaseView, processVars, monitorVars, rejected>>

Fairness ==
  /\ \A r \in Roles : WF_vars(Start(r) /\ UNCHANGED <<phaseView, monitorVars, rejected>>)
  /\ \A a \in AuctionIds : WF_vars(Expire(a))
  /\ \A s \in Slots : WF_vars(Step(s)) /\ WF_vars(WriteStep(s)) /\ SF_vars(PollStep(s))

FairSpec == Spec /\ Fairness

(* A running monitor sees to it that an auction whose end has passed does  *)
(* not stay open.                                                          *)
ClosureTriggered ==
  \A a \in AuctionIds :
    phase[a] = "ACTIVE" /\ a \in ended
      ~> phase[a] # "ACTIVE" \/ up["MONITOR"] # "UP"

(* Whatever overlapping polls and late events write, a running monitor     *)
(* comes to know that an auction is settled, and keeps knowing it.         *)
SettlementNoticed ==
  \A a \in AuctionIds :
    phase[a] \in Settled
      ~> [](memory["MONITOR"].tracked[a] = phase[a]) \/ up["MONITOR"] # "UP"

(* While monitor and dispatcher run, each request reaches the FHE service  *)
(* and its answer is stored.                                               *)
RequestsAnswered ==
  \A a \in AuctionIds :
    phase[a] = "RESOLVING"
      ~> \/ phase[a] # "RESOLVING"
         \/ memory["DISPATCHER"].artifact[a] # "NONE"
         \/ \E r \in {"MONITOR", "DISPATCHER"} : up[r] # "UP"

-----------------------------------------------------------------------------
(* Statements of the documentation that the keeper does not meet.          *)

(* The keeper "forwards completed resolutions to the AVS submitter"        *)
(* (packages/keeper/README.md:72): with all processes running, resolution  *)
(* comes to an end.                                                        *)
ResolutionsForwarded ==
  \A a \in AuctionIds :
    phase[a] = "RESOLVING"
      ~> phase[a] # "RESOLVING" \/ \E r \in Roles : up[r] # "UP"

(* A keeper outage is mitigated by "backfill from chain state"             *)
(* (docs/security-model.md:40): a monitor that crashed and was started     *)
(* again knows the auctions of the chain.                                  *)
OutageBackfilled ==
  \A a \in AuctionIds :
    phase[a] # "CREATED" ~> memory["MONITOR"].tracked[a] # "CREATED"
=============================================================================
