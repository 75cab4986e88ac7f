---------------------------- MODULE AuctionMonitor --------------------------
(***************************************************************************)
(* The process that follows the auctions on the chain, finalizes those     *)
(* that end, under a lease in Redis, and queues those being resolved.      *)
(***************************************************************************)
EXTENDS KeeperProcess

VARIABLES
  lease,      \* the slot that took the lease of each auction, {} if none
  expired,    \* ghost: auctions of which a lease ran out during the attempt
  heard       \* the auctions whose creation event was delivered

lockVars == <<lease, expired>>
monitorVars == <<lockVars, heard>>

MonitorTypeOK ==
  /\ lease \in [AuctionIds -> {{}} \cup {{s} : s \in Monitors}]
  /\ expired \subseteq AuctionIds
  /\ heard \subseteq AuctionIds

MonitorInit ==
  /\ lease = [a \in AuctionIds |-> {}]
  /\ expired = {}
  /\ heard = {}

-----------------------------------------------------------------------------
(* Synchronization, in two passes around the finalizations.                *)

(* Mutant of Unsettled: an auction is read until its resolution starts.    *)
UntilResolving == {"CREATED", "ACTIVE"}

Unsettled == {"CREATED", "ACTIVE", "RESOLVING"}

PollStarts(s) ==
  /\ At(s, "IDLE") /\ up["MONITOR"] = "UP"
  /\ Continue(s, Scan("SYNC", Existing, 1))

Synchronize(s) ==
  /\ At(s, "SYNC")
  /\ \E a \in thread[s].todo :
       LET rest == [thread[s] EXCEPT !.todo = @ \ {a}] IN
       Continue(s, IF Memory(s).tracked[a] \in Unsettled
                     THEN [rest EXCEPT !.pc = "UPSERT", !.at = a, !.saw = phase[a]]
                     ELSE rest)

Upsert(s, next) ==
  Save(s, upsertAuction(Memory(s), thread[s].at, thread[s].saw), next)

SynchronizeEnds(s) == At(s, "UPSERT") /\ Upsert(s, Loop(s, "SYNC"))

(* Due are the active auctions whose end is at most the lead time away.    *)
Due(s) ==
  LET active == {a \in AuctionIds : Memory(s).tracked[a] = "ACTIVE"} IN
  {due \in SUBSET active : active \cap ended \subseteq due}

PassEnds(s) ==
  /\ At(s, "SYNC") /\ thread[s].todo = {}
  /\ IF thread[s].pass = 1
       THEN \E due \in Due(s) : Continue(s, Scan("RESERVE", due, 1))
       ELSE LET resolving == {a \in AuctionIds : Memory(s).tracked[a] = "RESOLVING"} IN
            Continue(s, Scan("ENQUEUE", resolving, 2))

-----------------------------------------------------------------------------
(* Finalization of one auction after the other.                            *)

(* Mutant of Reserve: as in memory, a lease that is held under the same    *)
(* keeper id is taken again.                                               *)
ReserveAgain(s) ==
  /\ At(s, "RESERVE")
  /\ \E a \in thread[s].todo :
       /\ lease' = [lease EXCEPT ![a] = {s}]
       /\ Continue(s, [thread[s] EXCEPT !.pc = "SEND", !.todo = @ \ {a}, !.at = a, !.tries = 0])

(* A lease that is held is recorded as a race.                             *)
Reserve(s) ==
  /\ At(s, "RESERVE")
  /\ \E a \in thread[s].todo :
       LET rest == [thread[s] EXCEPT !.todo = @ \ {a}] IN
       IF lease[a] = {}
         THEN /\ lease' = [lease EXCEPT ![a] = {s}]
              /\ Continue(s, [rest EXCEPT !.pc = "SEND", !.at = a, !.tries = 0])
         ELSE /\ UNCHANGED lease
              /\ Save(s, Memory(s), rest)

(* The transaction is mined, or refused, or the call fails; it may have    *)
(* been mined all the same.                                                *)
Send(s) ==
  LET a == thread[s].at IN
  /\ At(s, "SEND")
  /\ \/ /\ Finalize(a) /\ NoFault
        /\ Continue(s, [thread[s] EXCEPT !.pc = "CONFIRM"])
     \/ /\ \/ ~(phase[a] = "ACTIVE" /\ a \in ended) /\ NoFault /\ UNCHANGED phaseView
           \/ Fault /\ (Finalize(a) \/ UNCHANGED phaseView)
        /\ Continue(s, [thread[s] EXCEPT !.pc = "RECORD_FAILURE"])

Read(s, pc) == Continue(s, [thread[s] EXCEPT !.pc = pc, !.saw = phase[thread[s].at]])

(* If the auction cannot be read after a success, it is taken to be        *)
(* resolving.                                                              *)
Confirm(s) ==
  /\ At(s, "CONFIRM")
  /\ \/ NoFault /\ Read(s, "CONFIRMED")
     \/ /\ Fault
        /\ Save(s, updateAuctionState(Memory(s), thread[s].at, "RESOLVING"),
                [thread[s] EXCEPT !.pc = "RECORD_SUCCESS"])

Confirmed(s) ==
  At(s, "CONFIRMED") /\ Upsert(s, [thread[s] EXCEPT !.pc = "RECORD_SUCCESS"])

(* The records of attempts are left out; their writes are not.             *)
Record(s, pc, next) == At(s, pc) /\ Save(s, Memory(s), [thread[s] EXCEPT !.pc = next])

(* Mutant of Again: one retry too many.                                    *)
AgainOnceMore(t) ==
  IF t.tries <= MaxRetries
    THEN [t EXCEPT !.pc = "SEND", !.tries = @ + 1]
    ELSE [t EXCEPT !.pc = "RELEASE"]

Again(t) ==
  IF t.tries < MaxRetries
    THEN [t EXCEPT !.pc = "SEND", !.tries = @ + 1]
    ELSE [t EXCEPT !.pc = "RELEASE"]

(* Mutant of Recheck: a transaction that failed was too late.              *)
RecheckAssumed(s) ==
  /\ At(s, "RECHECK") /\ NoFault
  /\ Save(s, updateAuctionState(Memory(s), thread[s].at, "RESOLVING"),
          [thread[s] EXCEPT !.pc = "RELEASE"])

(* After a failure the attempt stops if the auction has moved on.          *)
Recheck(s) ==
  /\ At(s, "RECHECK")
  /\ \/ NoFault /\ Read(s, "RECHECKED")
     \/ Fault /\ Continue(s, Again(thread[s]))

Rechecked(s) ==
  /\ At(s, "RECHECKED")
  /\ Upsert(s, IF thread[s].saw = "ACTIVE"
                 THEN Again(thread[s])
                 ELSE [thread[s] EXCEPT !.pc = "RELEASE"])

(* A lease is released in two commands.  All slots use the same keeper id, *)
(* so the first finds its own id in a lease that another one has taken.    *)
Release(s) ==
  /\ At(s, "RELEASE")
  /\ Continue(s, IF lease[thread[s].at] = {}
                   THEN Loop(s, "RESERVE")
                   ELSE [thread[s] EXCEPT !.pc = "DELETE"])

Delete(s) ==
  /\ At(s, "DELETE")
  /\ lease' = [lease EXCEPT ![thread[s].at] = {}]
  /\ Continue(s, Loop(s, "RESERVE"))

(* From the reservation of a lease to its deletion.                        *)
Attempting(s, a) ==
  /\ thread[s].at = a
  /\ thread[s].pc \in {"SEND", "CONFIRM", "CONFIRMED", "RECORD_SUCCESS", "RECORD_FAILURE",
                        "RECHECK", "RECHECKED", "RELEASE", "DELETE"}

(* Mutant of LeaseExpires: the lease is taken without a time to live.      *)
LeaseStays(a) == lease[a] = {} /\ UNCHANGED lockVars

LeaseExpires(a) ==
  /\ lease[a] # {}
  /\ lease' = [lease EXCEPT ![a] = {}]
  /\ expired' = IF \E s \in lease[a] : Attempting(s, a) THEN expired \cup {a} ELSE expired

FinalizationsEnd(s) ==
  /\ At(s, "RESERVE") /\ thread[s].todo = {}
  /\ Continue(s, Scan("SYNC", Existing, 2))

-----------------------------------------------------------------------------
(* Jobs.                                                                   *)

(* The request of an auction can be read while it is resolving.            *)
Inspect(s) ==
  /\ At(s, "ENQUEUE")
  /\ \E a \in thread[s].todo :
       LET rest == [thread[s] EXCEPT !.todo = @ \ {a}]
           queued == Memory(s).job[a] = "PENDING" \/ Memory(s).artifact[a] # "NONE" IN
       \/ /\ NoFault
          /\ Continue(s, IF phase[a] = "RESOLVING" /\ ~queued
                           THEN [rest EXCEPT !.pc = "COLLECT", !.at = a]
                           ELSE rest)
       \/ Fault /\ Continue(s, rest)

Enqueue(s) ==
  /\ At(s, "COLLECT")
  /\ Save(s, enqueueDispatchJob(Memory(s), thread[s].at), Loop(s, "ENQUEUE"))

PollEnds(s) ==
  /\ At(s, "ENQUEUE") /\ thread[s].todo = {}
  /\ Continue(s, IdleThread)
  /\ up' = [up EXCEPT !["MONITOR"] = "UP"]

-----------------------------------------------------------------------------
(* An event of the chain, delivered once, at once or late.                 *)
Hear(s) ==
  /\ up["MONITOR"] \in {"STARTING", "UP", "HALTED"}
  /\ writing[s] = {}
  /\ \E a \in Existing \ heard :
       /\ heard' = heard \cup {a}
       /\ Save(s, upsertAuction(Memory(s), a, "ACTIVE"), IdleThread)

-----------------------------------------------------------------------------
MonitorLoop(s) ==
  /\ \/ PollStarts(s) \/ Synchronize(s) \/ SynchronizeEnds(s) \/ PassEnds(s)
     \/ Confirmed(s) \/ Rechecked(s) \/ Release(s)
     \/ Record(s, "RECORD_SUCCESS", "RELEASE") \/ Record(s, "RECORD_FAILURE", "RECHECK")
     \/ FinalizationsEnd(s) \/ Enqueue(s)
  /\ UNCHANGED <<phaseView, processVars, monitorVars>>

MonitorStep(s) ==
  \/ MonitorLoop(s)
  \/ PollEnds(s) /\ UNCHANGED <<phaseView, faults, crashes, monitorVars>>
  \/ (Confirm(s) \/ Recheck(s) \/ Inspect(s)) /\ UNCHANGED <<phaseView, up, crashes, monitorVars>>
  \/ (Reserve(s) \/ Delete(s)) /\ UNCHANGED <<phaseView, processVars, expired, heard>>
  \/ Send(s) /\ UNCHANGED <<up, crashes, monitorVars>>

ListenerStep(s) == Hear(s) /\ UNCHANGED <<phaseView, processVars, lockVars>>
=============================================================================
