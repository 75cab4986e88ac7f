---------------------------- MODULE CofheDispatcher -------------------------
(***************************************************************************)
(* The process that sends queued jobs to the FHE service and stores an     *)
(* artifact for each answer.  Its batch limit exceeds the auctions of the  *)
(* model, and its retries come down to one call that answers or fails.     *)
(***************************************************************************)
EXTENDS KeeperProcess

(* Mutant of DispatcherPolls: the file is read at the start only.          *)
DispatcherPollsMemory(s) ==
  /\ At(s, "IDLE")
  /\ UNCHANGED storeVars
  /\ Become(s, Scan("CALL", PendingJobs(Memory(s)), 1))

(* The only process beside the submitter that reads the file in each poll. *)
DispatcherPolls(s) ==
  /\ At(s, "IDLE")
  /\ Hydrate("DISPATCHER")
  /\ Become(s, Scan("CALL", PendingJobs(Hydrated("DISPATCHER")), 1))

(* The service answers all jobs of the batch, or with a fault only some.   *)
Answer(s) ==
  /\ At(s, "CALL")
  /\ \E answered \in SUBSET thread[s].todo :
       /\ IF answered = thread[s].todo THEN NoFault ELSE Fault
       /\ Continue(s, [thread[s] EXCEPT !.pc = "MARK", !.todo = answered])

MarkCompleted(s) ==
  /\ At(s, "MARK")
  /\ \E a \in thread[s].todo :
       Save(s, markDispatchJobCompleted(Memory(s), a),
            [thread[s] EXCEPT !.todo = @ \ {a}, !.got = @ \cup {a}])

(* All answers of a batch are marked before the first is stored.           *)
MarksEnd(s) ==
  /\ At(s, "MARK") /\ thread[s].todo = {}
  /\ Continue(s, Scan("STORE", thread[s].got, 1))

StoreArtifact(s) ==
  /\ At(s, "STORE")
  /\ \E a \in thread[s].todo :
       Save(s, storeResolutionArtifact(Memory(s), a), [thread[s] EXCEPT !.todo = @ \ {a}])

DispatchEnds(s) ==
  At(s, "STORE") /\ thread[s].todo = {} /\ Continue(s, IdleThread)

DispatcherStep(s) ==
  \/ /\ \/ DispatcherPolls(s) \/ MarkCompleted(s) \/ MarksEnd(s)
        \/ StoreArtifact(s) \/ DispatchEnds(s)
     /\ UNCHANGED <<phaseView, processVars>>
  \/ Answer(s) /\ UNCHANGED <<phaseView, up, crashes>>
=============================================================================
