---------------------------- MODULE KeeperProcess ---------------------------
(***************************************************************************)
(* What the keeper's processes have in common: they start, poll in a loop  *)
(* of asynchronous steps, fail and crash.                                  *)
(***************************************************************************)
EXTENDS KeeperStore

CONSTANTS
  NoAuction,
  MaxRetries,      \* of triggerFinalize in one attempt
  MaxFaults,       \* bound: failed or lost calls
  MaxCrashes,      \* bound
  MaxFailures      \* bound on both together

ASSUME KeeperAssumption ==
  /\ MaxRetries \in Nat /\ MaxFaults \in Nat /\ MaxCrashes \in Nat /\ MaxFailures \in Nat
  /\ NoAuction \notin AuctionIds

VARIABLES
  up,         \* of each role: DOWN, STARTING, UP; STUCK if it could not start
              \* at all, HALTED if only its listener did
  thread,     \* where the poll of each slot is
  faults, crashes

processVars == <<up, faults, crashes>>

(* A poll is at `pc`; it has `todo` before it, is at one auction, whose    *)
(* state it has read as `saw`.  The monitor also counts `tries`, and       *)
(* synchronizes in two passes; the dispatcher keeps what it `got`.         *)
IdleThread ==
  [pc |-> "IDLE", todo |-> {}, at |-> NoAuction, saw |-> "CREATED",
   tries |-> 0, pass |-> 1, got |-> {}]

Place ==
  {"IDLE"}
    \cup {"SYNC", "UPSERT", "RESERVE", "SEND", "CONFIRM", "CONFIRMED", "RECORD_SUCCESS",
          "RECORD_FAILURE", "RECHECK", "RECHECKED", "RELEASE", "DELETE", "ENQUEUE", "COLLECT"}
    \cup {"CALL", "MARK", "STORE"}
    \cup {"CHECK", "OBSOLETE", "SUBMIT", "REFRESH", "MARK_SUBMITTED"}

Thread ==
  [pc : Place, todo : SUBSET AuctionIds, at : AuctionIds \cup {NoAuction}, saw : Phase,
   tries : 0..MaxRetries, pass : {1, 2}, got : SUBSET AuctionIds]

ProcessTypeOK ==
  /\ up \in [Roles -> {"DOWN", "STARTING", "UP", "STUCK", "HALTED"}]
  /\ thread \in [Slots -> Thread]
  /\ faults \in 0..MaxFaults
  /\ crashes \in 0..MaxCrashes

ProcessInit ==
  /\ up = [r \in Roles |-> "DOWN"]
  /\ thread = [s \in Slots |-> IdleThread]
  /\ faults = 0
  /\ crashes = 0

-----------------------------------------------------------------------------
(* Steps of a thread.                                                      *)

At(s, pc) ==
  /\ thread[s].pc = pc
  /\ writing[s] = {}
  /\ up[Role(s)] \in {"STARTING", "UP"}

Become(s, t) == thread' = [thread EXCEPT ![s] = t]

(* In a loop at pc, with nothing kept of the last auction.                 *)
Scan(pc, todo, pass) == [IdleThread EXCEPT !.pc = pc, !.todo = todo, !.pass = pass]
Loop(s, pc) == Scan(pc, thread[s].todo, thread[s].pass)

(* A step without a write, and one that goes on when its write is done.    *)
Continue(s, t) == Become(s, t) /\ UNCHANGED storeVars
Save(s, st, t) == Become(s, t) /\ Persist(s, st)

Fault == faults < MaxFaults /\ faults + crashes < MaxFailures /\ faults' = faults + 1
NoFault == UNCHANGED faults

Existing == {a \in AuctionIds : phase[a] # "CREATED"}

-----------------------------------------------------------------------------
(* Starting reads the file; if that fails, the process never polls, and    *)
(* its metrics server keeps it from exiting.  The monitor synchronizes and *)
(* enqueues before its first poll.                                         *)
StartThreads(r) ==
  IF r = "MONITOR"
    THEN \E s \in Monitors : Become(s, Scan("SYNC", Existing, 2))
    ELSE UNCHANGED thread

Start(r) ==
  /\ up[r] = "DOWN"
  /\ IF Readable
       THEN /\ Hydrate(r)
            /\ StartThreads(r)
            /\ up' = [up EXCEPT ![r] = IF r = "MONITOR" THEN "STARTING" ELSE "UP"]
       ELSE /\ up' = [up EXCEPT ![r] = "STUCK"]
            /\ UNCHANGED <<storeVars, thread>>
  /\ UNCHANGED <<faults, crashes>>

(* A crash loses the memory and every write that is not done.              *)
Crash(r) ==
  /\ crashes < MaxCrashes /\ faults + crashes < MaxFailures
  /\ up[r] # "DOWN"
  /\ up' = [up EXCEPT ![r] = "DOWN"]
  /\ crashes' = crashes + 1
  /\ thread' = [s \in Slots |-> IF Role(s) = r THEN IdleThread ELSE thread[s]]
  /\ writing' = [s \in Slots |-> IF Role(s) = r THEN {} ELSE writing[s]]
  /\ memory' = [memory EXCEPT ![r] = EmptyStore]
  /\ UNCHANGED <<file, faults>>

(* A call that fails and is not caught ends the poll; when starting, it    *)
(* ends the start, and no poll follows.                                    *)
PollFails(s) ==
  /\ thread[s].pc \in {"SYNC", "RESERVE", "RELEASE", "DELETE", "COLLECT", "CALL", "CHECK"}
  /\ At(s, thread[s].pc)
  /\ Fault
  /\ Continue(s, IdleThread)
  /\ up' = IF up[Role(s)] = "STARTING" THEN [up EXCEPT ![Role(s)] = "HALTED"] ELSE up
  /\ UNCHANGED crashes
=============================================================================
