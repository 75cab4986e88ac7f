----------------------------- MODULE KeeperStore ----------------------------
(***************************************************************************)
(* The state that the keeper's processes share: one JSON file, which each  *)
(* of them reads whole into its memory and writes whole from it.           *)
(*                                                                         *)
(* A store says of each auction what state is tracked ("CREATED" if there  *)
(* is no record), and how far its dispatch job and its resolution artifact *)
(* are.  An auction has one request, so request ids are auction ids.       *)
(***************************************************************************)
EXTENDS AuctionPhases

CONSTANTS
  Monitors, Dispatchers, Submitters,  \* polls that a process may run at once
  Listeners                           \* event handlers of the monitor

(* A slot belongs to one process.                                          *)
ASSUME SlotsAssumption ==
  /\ Monitors \cap (Dispatchers \cup Submitters) = {}
  /\ Listeners \cap (Monitors \cup Dispatchers \cup Submitters) = {}
  /\ Dispatchers \cap Submitters = {}

Slots == Monitors \cup Dispatchers \cup Submitters \cup Listeners
Role(s) ==
  IF s \in Dispatchers THEN "DISPATCHER"
  ELSE IF s \in Submitters THEN "SUBMITTER"
  ELSE "MONITOR"

(* The processes that an instance of the model runs.                       *)
Roles == {Role(s) : s \in Slots}

VARIABLES
  file,       \* the state file
  memory,     \* the store in each process
  writing     \* what each slot is writing to the file, {} if nothing

storeVars == <<file, memory, writing>>

Store ==
  [tracked  : [AuctionIds -> Phase],
   job      : [AuctionIds -> {"NONE", "PENDING", "COMPLETED"}],
   artifact : [AuctionIds -> {"NONE", "READY", "SUBMITTED"}]]

EmptyStore ==
  [tracked  |-> [a \in AuctionIds |-> "CREATED"],
   job      |-> [a \in AuctionIds |-> "NONE"],
   artifact |-> [a \in AuctionIds |-> "NONE"]]

(* ABSENT before the first write, EMPTY between truncation and write,      *)
(* GARBAGE when two writes have mixed.                                     *)
NoFile(status) == [status |-> status, content |-> EmptyStore]
Complete(st) == [status |-> "COMPLETE", content |-> st]

StoreTypeOK ==
  /\ file.status \in {"ABSENT", "EMPTY", "GARBAGE", "COMPLETE"}
  /\ file.content \in Store
  /\ memory \in [Roles -> Store]
  /\ writing \in [Slots -> SUBSET Store]
  /\ \A s \in Slots : \A st, u \in writing[s] : st = u

StoreInit ==
  /\ file = NoFile("ABSENT")
  /\ memory = [r \in Roles |-> EmptyStore]
  /\ writing = [s \in Slots |-> {}]

-----------------------------------------------------------------------------
(* Operations on a store.                                                  *)

upsertAuction(st, a, p) == [st EXCEPT !.tracked[a] = p]

updateAuctionState(st, a, p) ==
  IF st.tracked[a] = "CREATED" THEN st ELSE upsertAuction(st, a, p)

enqueueDispatchJob(st, a) ==
  IF st.job[a] # "NONE" \/ st.artifact[a] # "NONE"
    THEN st
    ELSE [st EXCEPT !.job[a] = "PENDING"]

markDispatchJobCompleted(st, a) ==
  IF st.job[a] = "NONE" THEN st ELSE [st EXCEPT !.job[a] = "COMPLETED"]

(* An artifact stored again is to be submitted again.                      *)
storeResolutionArtifact(st, a) == [st EXCEPT !.artifact[a] = "READY"]

markResolutionArtifactSubmitted(st, a) ==
  IF st.artifact[a] = "NONE" THEN st ELSE [st EXCEPT !.artifact[a] = "SUBMITTED"]

PendingJobs(st) == {a \in AuctionIds : st.job[a] = "PENDING"}
ReadyArtifacts(st) == {a \in AuctionIds : st.artifact[a] = "READY"}

-----------------------------------------------------------------------------
(* The file.                                                               *)

Memory(s) == memory[Role(s)]

(* Every operation changes the memory and writes all of it: the file is    *)
(* truncated, and has the new contents when the write is done.             *)
Persist(s, st) ==
  /\ memory' = [memory EXCEPT ![Role(s)] = st]
  /\ writing' = [writing EXCEPT ![s] = {st}]
  /\ file' = NoFile("EMPTY")

(* A write that finds the contents of another one replaces them from the   *)
(* start; if those are longer, their end remains.                          *)
WriteDone(s) ==
  \E st \in writing[s] :
    /\ file' \in {Complete(st)}
                   \cup IF file.status = "EMPTY" \/ file = Complete(st)
                          THEN {} ELSE {NoFile("GARBAGE")}
    /\ writing' = [writing EXCEPT ![s] = {}]
    /\ UNCHANGED memory

(* A file that does not parse fails the read; a missing one changes        *)
(* nothing.                                                                *)
Readable == file.status \in {"ABSENT", "COMPLETE"}

Hydrated(r) == IF file.status = "COMPLETE" THEN file.content ELSE memory[r]

Hydrate(r) ==
  /\ Readable
  /\ memory' = [memory EXCEPT ![r] = Hydrated(r)]
  /\ UNCHANGED <<file, writing>>
=============================================================================
