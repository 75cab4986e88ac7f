---------------------------- MODULE KeeperProofs ----------------------------
(***************************************************************************)
(* What the keeper's records say is so, for every number of polls that run *)
(* at once, of auctions, of failures and of crashes.                       *)
(*                                                                         *)
(* The properties are about stores that have arrived somewhere; a step     *)
(* writes what its poll has read many steps ago.  The invariant therefore  *)
(* also says what each poll may rely on at each place of its program, and  *)
(* that all of it stays true while the auctions move on.                   *)
(***************************************************************************)
EXTENDS KeeperProperties, TLAPS

Started(ph) == {a \in AuctionIds : ph[a] \in {"RESOLVING", "FINALIZED", "VOIDED"}}
Done(ph, rej) == {a \in AuctionIds : ph[a] \in Settled \/ a \in rej}

(* A store agrees with the chain, and with the proofs rejected so far.     *)
SoundStore(st, ph, rej) ==
  \A a \in AuctionIds :
    /\ NotAhead(st.tracked[a], ph[a])
    /\ st.job[a] # "NONE" \/ st.artifact[a] # "NONE" => a \in Started(ph)
    /\ st.artifact[a] = "SUBMITTED" => a \in Done(ph, rej)

(* The places of an attempt to finalize, and all at which a poll has one   *)
(* auction in hand.                                                        *)
AttemptPlaces ==
  {"SEND", "CONFIRM", "CONFIRMED", "RECORD_SUCCESS", "RECORD_FAILURE",
   "RECHECK", "RECHECKED", "RELEASE", "DELETE"}
AuctionPlaces ==
  AttemptPlaces \cup {"UPSERT", "COLLECT", "SUBMIT", "REFRESH", "OBSOLETE", "MARK_SUBMITTED"}

(* What a poll has in hand agrees with the chain.                          *)
SoundThread(t, ph, rej) ==
  /\ t.at \in AuctionIds => NotAhead(t.saw, ph[t.at])
  /\ t.pc \in AuctionPlaces => t.at \in AuctionIds
  /\ t.pc \in {"CONFIRM", "COLLECT", "SUBMIT", "REFRESH"} => t.at \in Started(ph)
  /\ t.pc \in {"CALL", "MARK", "STORE", "CHECK", "SUBMIT", "REFRESH", "OBSOLETE",
               "MARK_SUBMITTED"}
       => t.todo \cup t.got \subseteq Started(ph)
  /\ t.pc \in {"OBSOLETE", "MARK_SUBMITTED"} => t.at \in Done(ph, rej)
  /\ t.pc \in {"RESERVE", "ENQUEUE"} => t.saw = "CREATED"

StoresSound ==
  /\ SoundStore(file.content, phase, rejected)
  /\ \A r \in Roles : SoundStore(memory[r], phase, rejected)
  /\ \A s \in Slots : \A st \in writing[s] : SoundStore(st, phase, rejected)

ThreadsSound == \A s \in Slots : SoundThread(thread[s], phase, rejected)

(* An attempt still has the lease it took, or its lease has run out.       *)
LeasesKept ==
  \A a \in AuctionIds \ expired, s \in Monitors : Attempting(s, a) => lease[a] = {s}

KeeperInv == TypeOK /\ StoresSound /\ ThreadsSound /\ LeasesKept

-----------------------------------------------------------------------------
(* The chain moves on.                                                     *)

Grows(ph, rej, later, more) ==
  /\ \A a \in AuctionIds : NotAhead(ph[a], later[a])
  /\ rej \subseteq more

(* What was not ahead stays so.                                            *)
LEMMA NotAheadTransitive ==
  ASSUME NEW p \in Phase, NEW q \in Phase, NEW r \in Phase, NotAhead(p, q), NotAhead(q, r)
  PROVE  NotAhead(p, r)
BY DEF NotAhead, Phase

LEMMA SetsGrow ==
  ASSUME NEW ph \in [AuctionIds -> Phase], NEW later \in [AuctionIds -> Phase],
         NEW rej, NEW more, Grows(ph, rej, later, more)
  PROVE  Started(ph) \subseteq Started(later) /\ Done(ph, rej) \subseteq Done(later, more)
BY DEF Grows, NotAhead, Started, Done, Settled, Phase

LEMMA StoreStaysSound ==
  ASSUME NEW ph \in [AuctionIds -> Phase], NEW later \in [AuctionIds -> Phase],
         NEW rej, NEW more, Grows(ph, rej, later, more),
         NEW st \in Store, SoundStore(st, ph, rej)
  PROVE  SoundStore(st, later, more)
<1>1. \A a \in AuctionIds : NotAhead(st.tracked[a], later[a])
  BY NotAheadTransitive DEF SoundStore, Grows, Store
<1> QED
  BY <1>1, SetsGrow DEF SoundStore

LEMMA ThreadStaysSound ==
  ASSUME NEW ph \in [AuctionIds -> Phase], NEW later \in [AuctionIds -> Phase],
         NEW rej, NEW more, Grows(ph, rej, later, more),
         NEW t \in Thread, SoundThread(t, ph, rej)
  PROVE  SoundThread(t, later, more)
<1>1. t.at \in AuctionIds => NotAhead(t.saw, later[t.at])
  BY NotAheadTransitive DEF SoundThread, Grows, Thread
<1> QED
  BY <1>1, SetsGrow DEF SoundThread

(* Every move of an auction is one of the course that NotAhead allows.     *)
LEMMA ChainGrows ==
  ASSUME PhasesTypeOK, PhasesNext \/ UNCHANGED phaseView, rejected \subseteq rejected'
  PROVE  PhasesTypeOK' /\ Grows(phase, rejected, phase', rejected')
<1>1. CASE UNCHANGED phaseView
  BY <1>1 DEF phaseView, PhasesTypeOK, Grows, NotAhead
<1>2. CASE TimePasses
  BY <1>2 DEF TimePasses, PhasesTypeOK, Grows, NotAhead
<1>3. ASSUME NEW a \in AuctionIds, NEW p \in Phase, NEW q \in Phase,
             NotAhead(p, q), Move(a, p, q)
      PROVE  PhasesTypeOK' /\ Grows(phase, rejected, phase', rejected')
  BY <1>3 DEF Move, PhasesTypeOK, Grows, NotAhead
<1>4. ASSUME NEW a \in AuctionIds,
             Create(a) \/ Cancel(a) \/ Finalize(a) \/ Settle(a) \/ VoidAuction(a)
      PROVE  PhasesTypeOK' /\ Grows(phase, rejected, phase', rejected')
  <2>1. \E p, q \in Phase : NotAhead(p, q) /\ Move(a, p, q)
    BY <1>4 DEF Create, Cancel, Finalize, Settle, VoidAuction, Phase, NotAhead
  <2> QED
    BY <1>3, <2>1
<1> QED
  BY <1>1, <1>2, <1>4 DEF PhasesNext

-----------------------------------------------------------------------------
(* Operations on a store keep it sound.                                    *)

LEMMA EmptyStoreSound ==
  ASSUME NEW ph \in [AuctionIds -> Phase], NEW rej
  PROVE  EmptyStore \in Store /\ SoundStore(EmptyStore, ph, rej)
BY DEF EmptyStore, Store, SoundStore, NotAhead, Phase

LEMMA UpsertSound ==
  ASSUME NEW ph \in [AuctionIds -> Phase], NEW rej, NEW st \in Store, SoundStore(st, ph, rej),
         NEW a \in AuctionIds, NEW p \in Phase, NotAhead(p, ph[a])
  PROVE  /\ upsertAuction(st, a, p) \in Store
         /\ SoundStore(upsertAuction(st, a, p), ph, rej)
BY DEF upsertAuction, Store, SoundStore

LEMMA UpdateSound ==
  ASSUME NEW ph \in [AuctionIds -> Phase], NEW rej, NEW st \in Store, SoundStore(st, ph, rej),
         NEW a \in AuctionIds, NEW p \in Phase, NotAhead(p, ph[a])
  PROVE  /\ updateAuctionState(st, a, p) \in Store
         /\ SoundStore(updateAuctionState(st, a, p), ph, rej)
BY UpsertSound DEF updateAuctionState

LEMMA EnqueueSound ==
  ASSUME NEW ph \in [AuctionIds -> Phase], NEW rej, NEW st \in Store, SoundStore(st, ph, rej),
         NEW a \in Started(ph)
  PROVE  /\ enqueueDispatchJob(st, a) \in Store
         /\ SoundStore(enqueueDispatchJob(st, a), ph, rej)
BY DEF enqueueDispatchJob, Store, SoundStore, Started

LEMMA CompleteSound ==
  ASSUME NEW ph \in [AuctionIds -> Phase], NEW rej, NEW st \in Store, SoundStore(st, ph, rej),
         NEW a \in Started(ph)
  PROVE  /\ markDispatchJobCompleted(st, a) \in Store
         /\ SoundStore(markDispatchJobCompleted(st, a), ph, rej)
BY DEF markDispatchJobCompleted, Store, SoundStore, Started

LEMMA ArtifactSound ==
  ASSUME NEW ph \in [AuctionIds -> Phase], NEW rej, NEW st \in Store, SoundStore(st, ph, rej),
         NEW a \in Started(ph)
  PROVE  /\ storeResolutionArtifact(st, a) \in Store
         /\ SoundStore(storeResolutionArtifact(st, a), ph, rej)
BY DEF storeResolutionArtifact, Store, SoundStore, Started

LEMMA SubmittedSound ==
  ASSUME NEW ph \in [AuctionIds -> Phase], NEW rej, NEW st \in Store, SoundStore(st, ph, rej),
         NEW a \in Done(ph, rej)
  PROVE  /\ markResolutionArtifactSubmitted(st, a) \in Store
         /\ SoundStore(markResolutionArtifactSubmitted(st, a), ph, rej)
BY DEF markResolutionArtifactSubmitted, Store, SoundStore, Started, Done

-----------------------------------------------------------------------------
(* What a step may do to the shared state, and where its poll may be then. *)

WritesSound(s) ==
  \/ UNCHANGED storeVars
  \/ \E r \in Roles : Hydrate(r)
  \/ \E st \in Store : SoundStore(st, phase', rejected') /\ Persist(s, st)

MovesSound(s) ==
  \E t \in Thread : Become(s, t) /\ SoundThread(t, phase', rejected')

AttemptsGoOn ==
  \A a \in AuctionIds, m \in Monitors : Attempting(m, a)' => Attempting(m, a)

PollSound(s) == WritesSound(s) /\ MovesSound(s) /\ AttemptsGoOn

LEMMA RoleIsRole == \A s \in Slots : Role(s) \in Roles
BY DEF Roles

LEMMA StoresKept ==
  ASSUME TypeOK, StoresSound, NEW s \in Slots, PhasesTypeOK',
         Grows(phase, rejected, phase', rejected'), WritesSound(s)
  PROVE  StoreTypeOK' /\ StoresSound'
<1> DEFINE Fine(st) == SoundStore(st, phase', rejected')
<1>1. /\ file.content \in Store /\ Fine(file.content)
      /\ \A r \in Roles : memory[r] \in Store /\ Fine(memory[r])
      /\ \A u \in Slots : \A st \in writing[u] : st \in Store /\ Fine(st)
  BY StoreStaysSound DEF TypeOK, StoreTypeOK, PhasesTypeOK, StoresSound
<1>2. CASE UNCHANGED storeVars
  BY <1>1, <1>2 DEF storeVars, TypeOK, StoreTypeOK, StoresSound
<1>3. ASSUME NEW r \in Roles, Hydrate(r)
      PROVE  StoreTypeOK' /\ StoresSound'
  <2>1. Hydrated(r) \in Store /\ Fine(Hydrated(r))
    BY <1>1 DEF Hydrated
  <2>2. /\ memory' = [memory EXCEPT ![r] = Hydrated(r)]
        /\ file' = file /\ writing' = writing
    BY <1>3 DEF Hydrate
  <2> QED
    BY <1>1, <2>1, <2>2 DEF TypeOK, StoreTypeOK, StoresSound
<1>4. ASSUME NEW st \in Store, Fine(st), Persist(s, st)
      PROVE  StoreTypeOK' /\ StoresSound'
  <2>1. EmptyStore \in Store /\ Fine(EmptyStore)
    BY EmptyStoreSound DEF PhasesTypeOK
  <2>2. /\ memory' = [memory EXCEPT ![Role(s)] = st]
        /\ writing' = [writing EXCEPT ![s] = {st}]
        /\ file' = [status |-> "EMPTY", content |-> EmptyStore]
    BY <1>4 DEF Persist, NoFile
  <2> QED
    BY <1>1, <1>4, <2>1, <2>2 DEF TypeOK, StoreTypeOK, StoresSound
<1> QED
  BY <1>2, <1>3, <1>4 DEF WritesSound

LEMMA ThreadsKept ==
  ASSUME TypeOK, ThreadsSound, NEW s \in Slots, PhasesTypeOK',
         Grows(phase, rejected, phase', rejected'), MovesSound(s)
  PROVE  thread' \in [Slots -> Thread] /\ ThreadsSound'
<1>1. \A u \in Slots : thread[u] \in Thread /\ SoundThread(thread[u], phase', rejected')
  BY ThreadStaysSound DEF TypeOK, ProcessTypeOK, PhasesTypeOK, ThreadsSound
<1>2. PICK t \in Thread : Become(s, t) /\ SoundThread(t, phase', rejected')
  BY DEF MovesSound
<1> QED
  BY <1>1, <1>2 DEF Become, TypeOK, ProcessTypeOK, ThreadsSound

LEMMA LeasesStayKept ==
  ASSUME LeasesKept, AttemptsGoOn, UNCHANGED lockVars
  PROVE  LeasesKept'
BY DEF LeasesKept, lockVars, AttemptsGoOn

(* What a step of a poll must be shown to do.                              *)
SoundStep(s) ==
  /\ PhasesNext \/ UNCHANGED phaseView
  /\ rejected \subseteq rejected' /\ rejected' \subseteq AuctionIds
  /\ WritesSound(s) /\ MovesSound(s)
  /\ up' \in [Roles -> {"DOWN", "STARTING", "UP", "STUCK", "HALTED"}]
  /\ Fault \/ NoFault
  /\ UNCHANGED crashes
  /\ heard' \subseteq AuctionIds

LEMMA FaultCounted ==
  ASSUME faults \in 0..MaxFaults, Fault \/ NoFault PROVE faults' \in 0..MaxFaults
BY KeeperAssumption DEF Fault, NoFault

LEMMA SoundStepKeeps ==
  ASSUME KeeperInv, NEW s \in Slots, SoundStep(s)
  PROVE  /\ (PhasesTypeOK /\ StoreTypeOK /\ ProcessTypeOK)' /\ rejected' \subseteq AuctionIds
         /\ StoresSound' /\ ThreadsSound'
<1>1. PhasesTypeOK' /\ Grows(phase, rejected, phase', rejected')
  BY ChainGrows DEF KeeperInv, TypeOK, SoundStep
<1>2. StoreTypeOK' /\ StoresSound'
  BY <1>1, StoresKept DEF KeeperInv, SoundStep
<1>3. thread' \in [Slots -> Thread] /\ ThreadsSound'
  BY <1>1, ThreadsKept DEF KeeperInv, SoundStep
<1>4. faults' \in 0..MaxFaults
  BY FaultCounted DEF KeeperInv, TypeOK, ProcessTypeOK, SoundStep
<1> QED
  BY <1>1, <1>2, <1>3, <1>4 DEF KeeperInv, TypeOK, ProcessTypeOK, SoundStep

LEMMA LeaselessStepKeeps ==
  ASSUME KeeperInv, NEW s \in Slots, SoundStep(s), AttemptsGoOn, UNCHANGED lockVars
  PROVE  KeeperInv'
<1>1. LeasesKept'
  BY LeasesStayKept DEF KeeperInv, SoundStep
<1>2. MonitorTypeOK'
  BY DEF KeeperInv, TypeOK, MonitorTypeOK, SoundStep, lockVars
<1> QED
  BY <1>1, <1>2, SoundStepKeeps DEF KeeperInv, TypeOK

-----------------------------------------------------------------------------
(* Steps that send no transaction: nothing moves but the poll, which has   *)
(* gone on or saved a sound store.                                         *)

Quiet == UNCHANGED phaseView /\ UNCHANGED rejected

GoesOn(s, t) ==
  \/ Continue(s, t)
  \/ \E st \in Store : SoundStore(st, phase, rejected) /\ Save(s, st, t)

NoNewAttempt(s, t) ==
  t.pc \in AttemptPlaces => thread[s].pc \in AttemptPlaces /\ t.at = thread[s].at

LEMMA AttemptGoesOn ==
  ASSUME KeeperInv, NEW s \in Slots, NEW t \in Thread, Become(s, t), NoNewAttempt(s, t)
  PROVE  AttemptsGoOn
BY DEF Become, AttemptsGoOn, NoNewAttempt, Attempting, AttemptPlaces, KeeperInv, TypeOK,
       ProcessTypeOK

LEMMA QuietStep ==
  ASSUME KeeperInv, NEW s \in Slots, Quiet, NEW t \in Thread, SoundThread(t, phase, rejected),
         NoNewAttempt(s, t), GoesOn(s, t)
  PROVE  PollSound(s)
<1>1. phase' = phase /\ rejected' = rejected
  BY DEF Quiet, phaseView
<1>2. Become(s, t)
  BY DEF GoesOn, Continue, Save
<1>3. MovesSound(s)
  BY <1>1, <1>2 DEF MovesSound
<1>4. WritesSound(s)
  BY <1>1 DEF WritesSound, GoesOn, Continue, Save
<1> QED
  BY <1>2, <1>3, <1>4, AttemptGoesOn DEF PollSound

(* What a slot has at hand.                                                *)
LEMMA AtHand ==
  ASSUME KeeperInv, NEW s \in Slots
  PROVE  /\ phase \in [AuctionIds -> Phase]
         /\ thread[s] \in Thread /\ SoundThread(thread[s], phase, rejected)
         /\ Memory(s) \in Store /\ SoundStore(Memory(s), phase, rejected)
BY RoleIsRole DEF KeeperInv, TypeOK, PhasesTypeOK, StoreTypeOK, ProcessTypeOK, StoresSound,
   ThreadsSound, Memory

LEMMA IdleSound ==
  ASSUME NEW ph, NEW rej
  PROVE  IdleThread \in Thread /\ SoundThread(IdleThread, ph, rej)
BY KeeperAssumption DEF IdleThread, Thread, Place, SoundThread, AuctionPlaces, AttemptPlaces, Phase

(* A loop has at hand only the auctions before it.                         *)
LEMMA ScanSound ==
  ASSUME NEW ph, NEW rej, NEW todo \in SUBSET AuctionIds, NEW pass \in {1, 2},
         NEW pc \in Place \ AuctionPlaces,
         pc \in {"CALL", "MARK", "STORE", "CHECK"} => todo \subseteq Started(ph)
  PROVE  /\ Scan(pc, todo, pass) \in Thread
         /\ SoundThread(Scan(pc, todo, pass), ph, rej)
         /\ Scan(pc, todo, pass).pc = pc
<1>1. /\ Scan(pc, todo, pass).pc = pc /\ Scan(pc, todo, pass).at = NoAuction
      /\ Scan(pc, todo, pass).todo = todo /\ Scan(pc, todo, pass).got = {}
      /\ Scan(pc, todo, pass).saw = "CREATED"
  BY DEF Scan, IdleThread
<1>2. Scan(pc, todo, pass) \in Thread
  BY IdleSound DEF Scan, Thread
<1>3. /\ pc \notin {"CONFIRM", "COLLECT", "SUBMIT", "REFRESH", "OBSOLETE", "MARK_SUBMITTED"}
      /\ pc \notin AuctionPlaces
  BY DEF AuctionPlaces, AttemptPlaces
<1>4. Scan(pc, todo, pass).todo \cup Scan(pc, todo, pass).got = todo
  BY <1>1
<1>5. SoundThread(Scan(pc, todo, pass), ph, rej)
  BY <1>1, <1>3, <1>4, KeeperAssumption DEF SoundThread
<1> QED
  BY <1>1, <1>2, <1>5

LEMMA LoopPlaces ==
  /\ {"SYNC", "RESERVE", "ENQUEUE", "CALL", "STORE", "CHECK"} \subseteq Place \ AuctionPlaces
  /\ AttemptPlaces \subseteq AuctionPlaces
BY DEF Place, AuctionPlaces, AttemptPlaces

(* A step into a loop, without a record to save.                           *)
LEMMA ScanStep ==
  ASSUME KeeperInv, NEW s \in Slots, Quiet, NEW todo \in SUBSET AuctionIds, NEW pass \in {1, 2},
         NEW pc \in {"SYNC", "RESERVE", "ENQUEUE", "STORE", "CHECK"},
         pc \in {"STORE", "CHECK"} => todo \subseteq Started(phase),
         GoesOn(s, Scan(pc, todo, pass))
  PROVE  PollSound(s)
<1>0. /\ pc \in Place \ AuctionPlaces
      /\ pc \in {"CALL", "MARK", "STORE", "CHECK"} => todo \subseteq Started(phase)
  BY LoopPlaces
<1>1. /\ Scan(pc, todo, pass) \in Thread
      /\ SoundThread(Scan(pc, todo, pass), phase, rejected)
      /\ Scan(pc, todo, pass).pc = pc
  BY ONLY <1>0, ScanSound, todo \in SUBSET AuctionIds, pass \in {1, 2}
<1>2. pc \notin AttemptPlaces
  BY LoopPlaces
<1>3. NoNewAttempt(s, Scan(pc, todo, pass))
  BY <1>1, <1>2 DEF NoNewAttempt
<1> QED
  BY <1>1, <1>3, QuietStep

(* Going to another place with what is at hand.                            *)
LEMMA PlaceTyped ==
  ASSUME NEW t \in Thread, NEW pc \in Place
  PROVE  [t EXCEPT !.pc = pc] \in Thread
BY DEF Thread

LEMMA PlaceSound ==
  ASSUME NEW ph, NEW rej, NEW t \in Thread, SoundThread(t, ph, rej), t.at \in AuctionIds,
         NEW pc \in {"CONFIRMED", "RECORD_SUCCESS", "RECORD_FAILURE", "RECHECK", "RELEASE",
                     "DELETE", "SEND"}
  PROVE  [t EXCEPT !.pc = pc] \in Thread /\ SoundThread([t EXCEPT !.pc = pc], ph, rej)
BY DEF Thread, Place, SoundThread, AuctionPlaces

LEMMA SawTyped ==
  ASSUME NEW ph \in [AuctionIds -> Phase], NEW rej, NEW t \in Thread, t.at \in AuctionIds,
         NEW pc \in {"CONFIRMED", "RECHECKED"}
  PROVE  LET u == [t EXCEPT !.pc = pc, !.saw = ph[t.at]] IN
         u \in Thread /\ SoundThread(u, ph, rej)
BY DEF Thread, Place, SoundThread, AuctionPlaces, NotAhead

-----------------------------------------------------------------------------
(* The monitor.                                                            *)

LEMMA UpsertGoesOn ==
  ASSUME KeeperInv, NEW s \in Slots, NEW t, Upsert(s, t), thread[s].at \in AuctionIds
  PROVE  GoesOn(s, t)
<1>1. thread[s].saw \in Phase /\ NotAhead(thread[s].saw, phase[thread[s].at])
  BY AtHand DEF Thread, SoundThread
<1> QED
  BY <1>1, AtHand, UpsertSound DEF Upsert, GoesOn

LEMMA PollStartsSound ==
  ASSUME KeeperInv, NEW s \in Slots, PollStarts(s), Quiet
  PROVE  PollSound(s)
BY ScanStep DEF PollStarts, GoesOn, Existing

LEMMA SynchronizeSound ==
  ASSUME KeeperInv, NEW s \in Slots, Synchronize(s), Quiet
  PROVE  PollSound(s)
<1> PICK a \in thread[s].todo :
      LET rest == [thread[s] EXCEPT !.todo = @ \ {a}] IN
      Continue(s, IF Memory(s).tracked[a] \in Unsettled
                    THEN [rest EXCEPT !.pc = "UPSERT", !.at = a, !.saw = phase[a]]
                    ELSE rest)
  BY DEF Synchronize
<1> DEFINE rest == [thread[s] EXCEPT !.todo = @ \ {a}]
           there == [rest EXCEPT !.pc = "UPSERT", !.at = a, !.saw = phase[a]]
<1>1. thread[s].pc = "SYNC" /\ a \in AuctionIds /\ phase[a] \in Phase
  BY AtHand DEF Synchronize, At, Thread
<1>2. rest \in Thread /\ SoundThread(rest, phase, rejected) /\ NoNewAttempt(s, rest)
  BY <1>1, AtHand DEF Thread, SoundThread, AuctionPlaces, AttemptPlaces, NoNewAttempt
<1>3. there \in Thread /\ SoundThread(there, phase, rejected) /\ NoNewAttempt(s, there)
  BY <1>1, <1>2 DEF Thread, Place, SoundThread, AttemptPlaces, NoNewAttempt, NotAhead
<1>4. GoesOn(s, rest) \/ GoesOn(s, there)
  BY DEF GoesOn
<1> QED
  BY <1>2, <1>3, <1>4, QuietStep

LEMMA SynchronizeEndsSound ==
  ASSUME KeeperInv, NEW s \in Slots, SynchronizeEnds(s), Quiet
  PROVE  PollSound(s)
<1>1. thread[s].pc = "UPSERT" /\ thread[s].at \in AuctionIds
  BY AtHand DEF SynchronizeEnds, At, SoundThread, AuctionPlaces
<1>2. GoesOn(s, Scan("SYNC", thread[s].todo, thread[s].pass))
  BY <1>1, UpsertGoesOn DEF SynchronizeEnds, Loop
<1>3. thread[s].todo \in SUBSET AuctionIds /\ thread[s].pass \in {1, 2}
  BY AtHand DEF Thread
<1> QED
  BY <1>2, <1>3, ScanStep

LEMMA PassEndsSound ==
  ASSUME KeeperInv, NEW s \in Slots, PassEnds(s), Quiet
  PROVE  PollSound(s)
<1>1. Due(s) \subseteq SUBSET AuctionIds
  BY DEF Due
<1> QED
  BY <1>1, ScanStep DEF PassEnds, GoesOn

(* A lease is free, so that nobody has an attempt at the auction, unless   *)
(* the lease of an earlier one ran out.                                    *)
LEMMA ReserveKeeps ==
  ASSUME KeeperInv, NEW s \in Monitors, Reserve(s), Quiet,
         UNCHANGED <<processVars, expired, heard>>
  PROVE  KeeperInv'
<1> s \in Slots
  BY DEF Slots
<1> PICK a \in thread[s].todo :
      LET rest == [thread[s] EXCEPT !.todo = @ \ {a}] IN
      IF lease[a] = {}
        THEN /\ lease' = [lease EXCEPT ![a] = {s}]
             /\ Continue(s, [rest EXCEPT !.pc = "SEND", !.at = a, !.tries = 0])
        ELSE /\ UNCHANGED lease
             /\ Save(s, Memory(s), rest)
  BY DEF Reserve
<1> DEFINE rest == [thread[s] EXCEPT !.todo = @ \ {a}]
           there == [rest EXCEPT !.pc = "SEND", !.at = a, !.tries = 0]
<1>1. thread[s].pc = "RESERVE" /\ a \in AuctionIds
  BY AtHand DEF Reserve, At, Thread
<1>2. /\ rest \in Thread /\ SoundThread(rest, phase, rejected) /\ rest.pc = "RESERVE"
      /\ rest.saw = "CREATED"
  BY <1>1, AtHand DEF Thread, SoundThread, AuctionPlaces, AttemptPlaces
<1>3. CASE lease[a] # {}
  <2>1. GoesOn(s, rest) /\ NoNewAttempt(s, rest) /\ UNCHANGED lease
    BY <1>2, <1>3, AtHand DEF GoesOn, NoNewAttempt, AttemptPlaces
  <2>2. PollSound(s)
    BY <1>2, <2>1, QuietStep
  <2>3. SoundStep(s) /\ AttemptsGoOn
    BY <2>2 DEF SoundStep, PollSound, Quiet, processVars, KeeperInv, TypeOK, ProcessTypeOK, MonitorTypeOK,
                NoFault
  <2> QED
    BY <2>1, <2>3, LeaselessStepKeeps DEF lockVars
<1>4. CASE lease[a] = {}
  <2>1. lease' = [lease EXCEPT ![a] = {s}] /\ Continue(s, there)
    BY <1>4
  <2>2. /\ there \in Thread /\ SoundThread(there, phase, rejected)
        /\ there.pc = "SEND" /\ there.at = a
    <3>1. 0 \in 0..MaxRetries /\ "SEND" \in Place
      BY KeeperAssumption DEF Place
    <3>2. there \in Thread
      BY <1>1, <1>2, <3>1 DEF Thread
    <3>3. there.pc = "SEND" /\ there.at = a /\ there.saw = "CREATED"
      BY <1>2 DEF Thread
    <3> QED
      BY <1>1, <3>2, <3>3 DEF SoundThread, NotAhead
  <2>3. Become(s, there) /\ UNCHANGED storeVars /\ phase' = phase /\ rejected' = rejected
    BY <2>1 DEF Continue, Quiet, phaseView
  <2>4. SoundStep(s)
    <3>1. WritesSound(s) /\ MovesSound(s)
      BY <2>2, <2>3 DEF WritesSound, MovesSound
    <3> QED
      BY <3>1 DEF SoundStep, Quiet, processVars, KeeperInv, TypeOK, ProcessTypeOK,
                  MonitorTypeOK, NoFault
  <2>5. ASSUME NEW b \in AuctionIds, NEW m \in Monitors, b \notin expired', Attempting(m, b)'
        PROVE  lease'[b] = {m}
    <3>1. lease \in [AuctionIds -> {{}} \cup {{u} : u \in Monitors}]
          /\ thread \in [Slots -> Thread] /\ m \in Slots /\ b \notin expired
      BY <2>5 DEF KeeperInv, TypeOK, MonitorTypeOK, ProcessTypeOK, Slots
    <3>2. CASE m = s
      <4>1. thread'[s] = there
        BY <2>3, <3>1 DEF Become
      <4>2. b = a
        BY <2>2, <2>5, <3>2, <4>1 DEF Attempting
      <4> QED
        BY <1>1, <2>1, <3>1, <3>2, <4>2
    <3>3. CASE m # s
      <4>1. thread'[m] = thread[m]
        BY <2>3, <3>1, <3>3 DEF Become
      <4>2. lease[b] = {m}
        BY <2>5, <3>1, <4>1 DEF Attempting, KeeperInv, LeasesKept
      <4> QED
        BY <1>4, <2>1, <3>1, <4>2
    <3> QED
      BY <3>2, <3>3
  <2>6. LeasesKept'
    BY <2>5 DEF LeasesKept
  <2>7. MonitorTypeOK'
    BY <1>1, <2>1 DEF KeeperInv, TypeOK, MonitorTypeOK
  <2> QED
    BY <2>4, <2>6, <2>7, SoundStepKeeps DEF KeeperInv, TypeOK
<1> QED
  BY <1>3, <1>4

(* A step from one place of an attempt to another.                         *)
LEMMA AttemptStep ==
  ASSUME KeeperInv, NEW s \in Slots, Quiet, thread[s].pc \in AttemptPlaces,
         NEW t \in Thread, SoundThread(t, phase, rejected), t.at = thread[s].at, GoesOn(s, t)
  PROVE  PollSound(s)
BY QuietStep DEF NoNewAttempt

LEMMA AttemptAt ==
  ASSUME KeeperInv, NEW s \in Slots, thread[s].pc \in AttemptPlaces
  PROVE  thread[s].at \in AuctionIds
BY AtHand DEF SoundThread, AuctionPlaces

LEMMA PlaceStep ==
  ASSUME KeeperInv, NEW s \in Slots, Quiet, thread[s].pc \in AttemptPlaces,
         NEW pc \in {"CONFIRMED", "RECORD_SUCCESS", "RECORD_FAILURE", "RECHECK", "RELEASE",
                     "DELETE", "SEND"},
         GoesOn(s, [thread[s] EXCEPT !.pc = pc])
  PROVE  PollSound(s)
<1> DEFINE t == [thread[s] EXCEPT !.pc = pc]
<1>1. t \in Thread /\ SoundThread(t, phase, rejected)
  BY AtHand, AttemptAt, PlaceSound
<1>2. t.at = thread[s].at
  BY AtHand DEF Thread
<1> QED
  BY <1>1, <1>2, AttemptStep

LEMMA ReadStep ==
  ASSUME KeeperInv, NEW s \in Slots, Quiet, thread[s].pc \in AttemptPlaces,
         NEW pc \in {"CONFIRMED", "RECHECKED"}, Read(s, pc)
  PROVE  PollSound(s)
<1> DEFINE t == [thread[s] EXCEPT !.pc = pc, !.saw = phase[thread[s].at]]
<1>1. t \in Thread /\ SoundThread(t, phase, rejected)
  BY AtHand, AttemptAt, SawTyped
<1>2. t.at = thread[s].at
  BY AtHand DEF Thread
<1> QED
  BY <1>1, <1>2, AttemptStep DEF Read, GoesOn

LEMMA AgainSound ==
  ASSUME KeeperInv, NEW s \in Slots, thread[s].pc \in AttemptPlaces
  PROVE  /\ Again(thread[s]) \in Thread /\ SoundThread(Again(thread[s]), phase, rejected)
         /\ Again(thread[s]).at = thread[s].at
<1>1. CASE thread[s].tries < MaxRetries
  <2> DEFINE t == [thread[s] EXCEPT !.pc = "SEND", !.tries = @ + 1]
  <2>1. thread[s].tries + 1 \in 0..MaxRetries
    BY <1>1, AtHand, KeeperAssumption DEF Thread
  <2> thread[s] \in Thread
    BY AtHand
  <2>2. t \in Thread
    BY <2>1 DEF Thread, Place
  <2>3. SoundThread(t, phase, rejected) /\ t.at = thread[s].at
    BY AtHand, AttemptAt DEF Thread, SoundThread
  <2> QED
    BY <1>1, <2>2, <2>3 DEF Again
<1>2. CASE ~(thread[s].tries < MaxRetries)
  <2>1. Again(thread[s]) = [thread[s] EXCEPT !.pc = "RELEASE"]
    BY <1>2 DEF Again
  <2>2. [thread[s] EXCEPT !.pc = "RELEASE"].at = thread[s].at
    BY AtHand DEF Thread
  <2>3. /\ [thread[s] EXCEPT !.pc = "RELEASE"] \in Thread
        /\ SoundThread([thread[s] EXCEPT !.pc = "RELEASE"], phase, rejected)
    BY AtHand, AttemptAt, PlaceSound
  <2> QED
    BY <2>1, <2>2, <2>3
<1> QED
  BY <1>1, <1>2

LEMMA ConfirmSound ==
  ASSUME KeeperInv, NEW s \in Slots, Confirm(s), Quiet
  PROVE  PollSound(s)
<1>1. thread[s].pc = "CONFIRM" /\ thread[s].pc \in AttemptPlaces
  BY DEF Confirm, At, AttemptPlaces
<1>2. CASE Read(s, "CONFIRMED")
  BY <1>1, <1>2, ReadStep
<1>3. CASE Save(s, updateAuctionState(Memory(s), thread[s].at, "RESOLVING"),
                [thread[s] EXCEPT !.pc = "RECORD_SUCCESS"])
  <2>1. thread[s].at \in AuctionIds /\ NotAhead("RESOLVING", phase[thread[s].at])
    BY <1>1, AtHand, AttemptAt DEF SoundThread, Started, NotAhead
  <2>2. GoesOn(s, [thread[s] EXCEPT !.pc = "RECORD_SUCCESS"])
    BY <1>3, <2>1, AtHand, UpdateSound DEF GoesOn, Phase
  <2> QED
    BY <1>1, <2>2, PlaceStep
<1> QED
  BY <1>2, <1>3 DEF Confirm

LEMMA ConfirmedSound ==
  ASSUME KeeperInv, NEW s \in Slots, Confirmed(s), Quiet
  PROVE  PollSound(s)
<1>1. thread[s].pc \in AttemptPlaces
  BY DEF Confirmed, At, AttemptPlaces
<1> QED
  BY <1>1, AttemptAt, UpsertGoesOn, PlaceStep DEF Confirmed

LEMMA RecordSound ==
  ASSUME KeeperInv, NEW s \in Slots, Quiet, NEW pc \in AttemptPlaces,
         NEW next \in {"RECHECK", "RELEASE"}, Record(s, pc, next)
  PROVE  PollSound(s)
<1>1. thread[s].pc \in AttemptPlaces
  BY DEF Record, At
<1>2. GoesOn(s, [thread[s] EXCEPT !.pc = next])
  BY AtHand DEF Record, GoesOn
<1> QED
  BY <1>1, <1>2, PlaceStep

LEMMA RecheckSound ==
  ASSUME KeeperInv, NEW s \in Slots, Recheck(s), Quiet
  PROVE  PollSound(s)
<1>1. thread[s].pc \in AttemptPlaces
  BY DEF Recheck, At, AttemptPlaces
<1>2. CASE Read(s, "RECHECKED")
  BY <1>1, <1>2, ReadStep
<1>3. CASE Continue(s, Again(thread[s]))
  BY <1>1, <1>3, AgainSound, AttemptStep DEF GoesOn
<1> QED
  BY <1>2, <1>3 DEF Recheck

LEMMA RecheckedSound ==
  ASSUME KeeperInv, NEW s \in Slots, Rechecked(s), Quiet
  PROVE  PollSound(s)
<1>1. thread[s].pc \in AttemptPlaces
  BY DEF Rechecked, At, AttemptPlaces
<1>2. CASE Upsert(s, Again(thread[s]))
  BY <1>1, <1>2, AgainSound, AttemptAt, UpsertGoesOn, AttemptStep
<1>3. CASE Upsert(s, [thread[s] EXCEPT !.pc = "RELEASE"])
  BY <1>1, <1>3, AttemptAt, UpsertGoesOn, PlaceStep
<1> QED
  BY <1>2, <1>3 DEF Rechecked

LEMMA ReleaseSound ==
  ASSUME KeeperInv, NEW s \in Slots, Release(s), Quiet
  PROVE  PollSound(s)
<1>1. thread[s].pc \in AttemptPlaces
  BY DEF Release, At, AttemptPlaces
<1>2. CASE Continue(s, [thread[s] EXCEPT !.pc = "DELETE"])
  BY <1>1, <1>2, PlaceStep DEF GoesOn
<1>3. CASE Continue(s, Loop(s, "RESERVE"))
  BY <1>3, AtHand, ScanStep DEF GoesOn, Loop, Thread
<1> QED
  BY <1>2, <1>3 DEF Release

LEMMA FinalizationsEndSound ==
  ASSUME KeeperInv, NEW s \in Slots, FinalizationsEnd(s), Quiet
  PROVE  PollSound(s)
BY ScanStep DEF FinalizationsEnd, GoesOn, Existing

LEMMA InspectSound ==
  ASSUME KeeperInv, NEW s \in Slots, Inspect(s), Quiet
  PROVE  PollSound(s)
<1> PICK a \in thread[s].todo :
      LET rest == [thread[s] EXCEPT !.todo = @ \ {a}]
          queued == Memory(s).job[a] = "PENDING" \/ Memory(s).artifact[a] # "NONE" IN
      \/ /\ NoFault
         /\ Continue(s, IF phase[a] = "RESOLVING" /\ ~queued
                          THEN [rest EXCEPT !.pc = "COLLECT", !.at = a]
                          ELSE rest)
      \/ Fault /\ Continue(s, rest)
  BY DEF Inspect
<1> DEFINE rest == [thread[s] EXCEPT !.todo = @ \ {a}]
           there == [rest EXCEPT !.pc = "COLLECT", !.at = a]
<1>1. thread[s].pc = "ENQUEUE" /\ a \in AuctionIds
  BY AtHand DEF Inspect, At, Thread
<1>2. /\ rest \in Thread /\ SoundThread(rest, phase, rejected) /\ NoNewAttempt(s, rest)
      /\ rest.saw = "CREATED"
  BY <1>1, AtHand DEF Thread, SoundThread, AuctionPlaces, AttemptPlaces, NoNewAttempt
<1>3. CASE phase[a] = "RESOLVING" /\ Continue(s, there)
  <2>1. there \in Thread /\ there.pc = "COLLECT" /\ there.at = a /\ there.saw = "CREATED"
    BY <1>1, <1>2 DEF Thread, Place
  <2>2. SoundThread(there, phase, rejected) /\ NoNewAttempt(s, there)
    BY <1>1, <1>3, <2>1 DEF SoundThread, NotAhead, Started, NoNewAttempt, AttemptPlaces
  <2> QED
    BY <1>3, <2>1, <2>2, QuietStep DEF GoesOn
<1>4. CASE Continue(s, rest)
  BY <1>2, <1>4, QuietStep DEF GoesOn
<1> QED
  BY <1>3, <1>4

LEMMA EnqueueStepSound ==
  ASSUME KeeperInv, NEW s \in Slots, Enqueue(s), Quiet
  PROVE  PollSound(s)
<1>1. thread[s].pc = "COLLECT" /\ thread[s].at \in Started(phase)
  BY AtHand DEF Enqueue, At, SoundThread
<1>2. GoesOn(s, Loop(s, "ENQUEUE"))
  BY <1>1, AtHand, EnqueueSound DEF Enqueue, GoesOn
<1> QED
  BY <1>2, AtHand, ScanStep DEF Loop, Thread

LEMMA IdleStep ==
  ASSUME KeeperInv, NEW s \in Slots, Quiet, GoesOn(s, IdleThread)
  PROVE  PollSound(s)
<1>1. NoNewAttempt(s, IdleThread)
  BY DEF NoNewAttempt, IdleThread, AttemptPlaces
<1> QED
  BY <1>1, IdleSound, QuietStep

-----------------------------------------------------------------------------
(* A transaction moves an auction; the poll goes on knowing its outcome.   *)

LEMMA SendSound ==
  ASSUME KeeperInv, NEW s \in Slots, Send(s), UNCHANGED rejected
  PROVE  PollSound(s) /\ (PhasesNext \/ UNCHANGED phaseView)
<1> PICK a : a = thread[s].at
  OBVIOUS
<1>1. thread[s].pc = "SEND" /\ a \in AuctionIds
  BY AtHand, AttemptAt DEF Send, At, AttemptPlaces
<1>2. (Finalize(a) \/ UNCHANGED phaseView) /\ (PhasesNext \/ UNCHANGED phaseView)
  BY <1>1 DEF Send, PhasesNext
<1>3. PhasesTypeOK' /\ Grows(phase, rejected, phase', rejected')
  BY <1>2, ChainGrows DEF KeeperInv, TypeOK
<1>4. thread[s] \in Thread /\ SoundThread(thread[s], phase', rejected')
  BY <1>3, AtHand, ThreadStaysSound DEF PhasesTypeOK
<1>5. CASE Continue(s, [thread[s] EXCEPT !.pc = "RECORD_FAILURE"])
  <2>1. /\ [thread[s] EXCEPT !.pc = "RECORD_FAILURE"] \in Thread
        /\ SoundThread([thread[s] EXCEPT !.pc = "RECORD_FAILURE"], phase', rejected')
        /\ [thread[s] EXCEPT !.pc = "RECORD_FAILURE"].at = a
    BY <1>1, <1>4, PlaceSound DEF Thread
  <2>2. NoNewAttempt(s, [thread[s] EXCEPT !.pc = "RECORD_FAILURE"])
    BY <1>1, <2>1 DEF NoNewAttempt, AttemptPlaces
  <2>3. PollSound(s)
    BY <1>5, <2>1, <2>2, AttemptGoesOn DEF Continue, PollSound, WritesSound, MovesSound
  <2> QED
    BY <1>2, <2>3
<1>6. CASE Finalize(a) /\ Continue(s, [thread[s] EXCEPT !.pc = "CONFIRM"])
  <2>1. a \in Started(phase')
    BY <1>1, <1>6, AtHand DEF Finalize, Move, Started
  <2>2. /\ [thread[s] EXCEPT !.pc = "CONFIRM"] \in Thread
        /\ SoundThread([thread[s] EXCEPT !.pc = "CONFIRM"], phase', rejected')
        /\ [thread[s] EXCEPT !.pc = "CONFIRM"].at = a
    BY <1>1, <1>4, <2>1 DEF Thread, Place, SoundThread
  <2>3. NoNewAttempt(s, [thread[s] EXCEPT !.pc = "CONFIRM"])
    BY <1>1, <2>2 DEF NoNewAttempt, AttemptPlaces
  <2>4. PollSound(s)
    BY <1>6, <2>2, <2>3, AttemptGoesOn DEF Continue, PollSound, WritesSound, MovesSound
  <2> QED
    BY <1>2, <2>4
<1> QED
  BY <1>2, <1>5, <1>6 DEF Send

LEMMA SubmitSound ==
  ASSUME KeeperInv, NEW s \in Slots, Submit(s)
  PROVE  /\ PollSound(s) /\ (PhasesNext \/ UNCHANGED phaseView)
         /\ rejected \subseteq rejected' /\ rejected' \subseteq AuctionIds
<1> PICK a : a = thread[s].at
  OBVIOUS
<1>1. thread[s].pc = "SUBMIT" /\ a \in AuctionIds /\ a \in Started(phase)
  BY AtHand DEF Submit, At, SoundThread, AuctionPlaces
<1>2. /\ Settle(a) \/ UNCHANGED phaseView
      /\ PhasesNext \/ UNCHANGED phaseView
      /\ rejected' \in {rejected, rejected \cup {a}}
  BY <1>1 DEF Submit, PhasesNext
<1>3. /\ rejected \subseteq rejected' /\ rejected' \subseteq AuctionIds
      /\ PhasesTypeOK' /\ Grows(phase, rejected, phase', rejected')
  BY <1>1, <1>2, ChainGrows DEF KeeperInv, TypeOK
<1>4. thread[s] \in Thread /\ SoundThread(thread[s], phase', rejected')
  BY <1>3, AtHand, ThreadStaysSound DEF PhasesTypeOK
<1>5. CASE Continue(s, [thread[s] EXCEPT !.pc = "REFRESH"])
  <2>1. /\ [thread[s] EXCEPT !.pc = "REFRESH"] \in Thread
        /\ SoundThread([thread[s] EXCEPT !.pc = "REFRESH"], phase', rejected')
        /\ [thread[s] EXCEPT !.pc = "REFRESH"].pc = "REFRESH"
    BY <1>1, <1>4 DEF Thread, Place, SoundThread
  <2>2. PollSound(s)
    BY <1>5, <2>1, AttemptGoesOn
       DEF Continue, PollSound, WritesSound, MovesSound, NoNewAttempt, AttemptPlaces
  <2> QED
    BY <1>2, <1>3, <2>2
<1>6. CASE /\ Settle(a) \/ rejected' = rejected \cup {a}
           /\ Continue(s, [thread[s] EXCEPT !.pc = "MARK_SUBMITTED"])
  <2>1. a \in Done(phase', rejected')
    BY <1>1, <1>6, AtHand DEF Settle, Move, Done, Settled
  <2>2. /\ [thread[s] EXCEPT !.pc = "MARK_SUBMITTED"] \in Thread
        /\ SoundThread([thread[s] EXCEPT !.pc = "MARK_SUBMITTED"], phase', rejected')
        /\ [thread[s] EXCEPT !.pc = "MARK_SUBMITTED"].pc = "MARK_SUBMITTED"
    BY <1>1, <1>4, <2>1 DEF Thread, Place, SoundThread
  <2>3. PollSound(s)
    BY <1>6, <2>2, AttemptGoesOn
       DEF Continue, PollSound, WritesSound, MovesSound, NoNewAttempt, AttemptPlaces
  <2> QED
    BY <1>2, <1>3, <2>3
<1> QED
  BY <1>5, <1>6 DEF Submit

-----------------------------------------------------------------------------
(* The dispatcher.                                                         *)

LEMMA StartedTyped == ASSUME NEW ph PROVE Started(ph) \subseteq AuctionIds
BY DEF Started

(* A store that was read from the file is sound.                           *)
LEMMA HydratedSound ==
  ASSUME KeeperInv, NEW r \in Roles
  PROVE  Hydrated(r) \in Store /\ SoundStore(Hydrated(r), phase, rejected)
BY DEF Hydrated, KeeperInv, TypeOK, StoreTypeOK, StoresSound

LEMMA PollReads ==
  ASSUME KeeperInv, NEW s \in Slots, Quiet, NEW r \in Roles, Hydrate(r),
         NEW pc \in {"CALL", "CHECK"}, NEW todo \in SUBSET Started(phase),
         Become(s, Scan(pc, todo, 1))
  PROVE  PollSound(s)
<1>1. pc \in Place \ AuctionPlaces /\ pc \notin AttemptPlaces
  BY LoopPlaces
<1>2. todo \in SUBSET AuctionIds
  BY StartedTyped
<1>3. /\ Scan(pc, todo, 1) \in Thread /\ SoundThread(Scan(pc, todo, 1), phase, rejected)
      /\ Scan(pc, todo, 1).pc = pc
  BY <1>1, <1>2, ScanSound
<1>4. phase' = phase /\ rejected' = rejected
  BY DEF Quiet, phaseView
<1>5. MovesSound(s)
  BY <1>3, <1>4 DEF MovesSound
<1>6. AttemptsGoOn
  BY <1>1, <1>3, AttemptGoesOn DEF NoNewAttempt
<1> QED
  BY <1>5, <1>6 DEF PollSound, WritesSound

LEMMA DispatcherPollsSound ==
  ASSUME KeeperInv, NEW s \in Dispatchers, DispatcherPolls(s), Quiet
  PROVE  PollSound(s)
<1>1. s \in Slots /\ "DISPATCHER" \in Roles
  BY RoleIsRole DEF Slots, Role
<1>2. PendingJobs(Hydrated("DISPATCHER")) \subseteq Started(phase)
  BY <1>1, HydratedSound DEF PendingJobs, SoundStore
<1> QED
  BY <1>1, <1>2, PollReads DEF DispatcherPolls

LEMMA AnswerSound ==
  ASSUME KeeperInv, NEW s \in Slots, Answer(s), Quiet
  PROVE  PollSound(s)
<1> PICK answered \in SUBSET thread[s].todo :
      Continue(s, [thread[s] EXCEPT !.pc = "MARK", !.todo = answered])
  BY DEF Answer
<1> DEFINE t == [thread[s] EXCEPT !.pc = "MARK", !.todo = answered]
<1>1. thread[s].pc = "CALL"
  BY DEF Answer, At
<1>2. t \in Thread /\ t.pc = "MARK" /\ t.todo = answered /\ t.at = thread[s].at
      /\ t.saw = thread[s].saw /\ t.got = thread[s].got
  BY AtHand DEF Thread, Place
<1>3. SoundThread(t, phase, rejected) /\ NoNewAttempt(s, t)
  BY <1>1, <1>2, AtHand DEF SoundThread, AuctionPlaces, AttemptPlaces, NoNewAttempt
<1> QED
  BY <1>2, <1>3, QuietStep DEF GoesOn

LEMMA MarkCompletedSound ==
  ASSUME KeeperInv, NEW s \in Slots, MarkCompleted(s), Quiet
  PROVE  PollSound(s)
<1> PICK a \in thread[s].todo :
      Save(s, markDispatchJobCompleted(Memory(s), a),
           [thread[s] EXCEPT !.todo = @ \ {a}, !.got = @ \cup {a}])
  BY DEF MarkCompleted
<1> DEFINE t == [thread[s] EXCEPT !.todo = @ \ {a}, !.got = @ \cup {a}]
<1>1. thread[s].pc = "MARK" /\ a \in Started(phase) /\ a \in AuctionIds
  BY AtHand DEF MarkCompleted, At, SoundThread, Started
<1>2. t \in Thread /\ t.pc = "MARK" /\ t.at = thread[s].at /\ t.saw = thread[s].saw
      /\ t.todo \cup t.got \subseteq thread[s].todo \cup thread[s].got
  BY <1>1, AtHand DEF Thread
<1>3. SoundThread(t, phase, rejected) /\ NoNewAttempt(s, t)
  BY <1>1, <1>2, AtHand DEF SoundThread, AuctionPlaces, AttemptPlaces, NoNewAttempt
<1>4. GoesOn(s, t)
  BY <1>1, AtHand, CompleteSound DEF GoesOn
<1> QED
  BY <1>2, <1>3, <1>4, QuietStep

LEMMA MarksEndSound ==
  ASSUME KeeperInv, NEW s \in Slots, MarksEnd(s), Quiet
  PROVE  PollSound(s)
<1>1. thread[s].got \subseteq Started(phase) /\ thread[s].got \in SUBSET AuctionIds
  BY AtHand DEF MarksEnd, At, SoundThread, Thread
<1> QED
  BY <1>1, ScanStep DEF MarksEnd, GoesOn

LEMMA StoreArtifactSound ==
  ASSUME KeeperInv, NEW s \in Slots, StoreArtifact(s), Quiet
  PROVE  PollSound(s)
<1> PICK a \in thread[s].todo :
      Save(s, storeResolutionArtifact(Memory(s), a), [thread[s] EXCEPT !.todo = @ \ {a}])
  BY DEF StoreArtifact
<1> DEFINE t == [thread[s] EXCEPT !.todo = @ \ {a}]
<1>1. thread[s].pc = "STORE" /\ a \in Started(phase)
  BY AtHand DEF StoreArtifact, At, SoundThread
<1>2. t \in Thread /\ t.pc = "STORE" /\ t.at = thread[s].at /\ t.saw = thread[s].saw
      /\ t.todo \cup t.got \subseteq thread[s].todo \cup thread[s].got
  BY <1>1, AtHand DEF Thread
<1>3. SoundThread(t, phase, rejected) /\ NoNewAttempt(s, t)
  BY <1>1, <1>2, AtHand DEF SoundThread, AuctionPlaces, AttemptPlaces, NoNewAttempt
<1>4. GoesOn(s, t)
  BY <1>1, AtHand, ArtifactSound DEF GoesOn
<1> QED
  BY <1>2, <1>3, <1>4, QuietStep

LEMMA DispatchEndsSound ==
  ASSUME KeeperInv, NEW s \in Slots, DispatchEnds(s), Quiet
  PROVE  PollSound(s)
BY IdleStep DEF DispatchEnds, GoesOn

-----------------------------------------------------------------------------
(* The submitter.                                                          *)

LEMMA SubmitterPollsSound ==
  ASSUME KeeperInv, NEW s \in Submitters, SubmitterPolls(s), Quiet
  PROVE  PollSound(s)
<1>1. s \in Slots /\ "SUBMITTER" \in Roles
  BY SlotsAssumption, RoleIsRole DEF Slots, Role
<1>2. ReadyArtifacts(Hydrated("SUBMITTER")) \subseteq Started(phase)
  BY <1>1, HydratedSound DEF ReadyArtifacts, SoundStore
<1> QED
  BY <1>1, <1>2, PollReads DEF SubmitterPolls

LEMMA CheckSound ==
  ASSUME KeeperInv, NEW s \in Slots, Check(s), Quiet
  PROVE  PollSound(s)
<1> PICK a \in thread[s].todo :
      Continue(s, [thread[s] EXCEPT
        !.pc = IF phase[a] = "RESOLVING" THEN "SUBMIT" ELSE "OBSOLETE",
        !.todo = @ \ {a}, !.at = a, !.saw = phase[a]])
  BY DEF Check
<1> PICK pc : pc = IF phase[a] = "RESOLVING" THEN "SUBMIT" ELSE "OBSOLETE"
  OBVIOUS
<1> DEFINE t == [thread[s] EXCEPT !.pc = pc, !.todo = @ \ {a}, !.at = a, !.saw = phase[a]]
<1>1. thread[s].pc = "CHECK" /\ a \in Started(phase) /\ a \in AuctionIds
  BY AtHand DEF Check, At, SoundThread, Started
<1>2. pc = "SUBMIT" \/ (pc = "OBSOLETE" /\ a \in Done(phase, rejected))
  <2>1. phase[a] = "RESOLVING" \/ a \in Done(phase, rejected)
    BY <1>1 DEF Started, Done, Settled
  <2>2. CASE phase[a] = "RESOLVING"
    BY <2>2
  <2>3. CASE phase[a] # "RESOLVING"
    BY <2>1, <2>3
  <2> QED
    BY <2>2, <2>3
<1>3. pc \in Place /\ phase[a] \in Phase
  BY <1>1, <1>2, AtHand DEF Place
<1>4. t \in Thread /\ t.pc = pc /\ t.at = a /\ t.saw = phase[a]
      /\ t.todo \cup t.got \subseteq thread[s].todo \cup thread[s].got
  BY <1>1, <1>3, AtHand DEF Thread
<1>5. thread[s].todo \cup thread[s].got \subseteq Started(phase)
  BY <1>1, AtHand DEF SoundThread
<1>6. SoundThread(t, phase, rejected) /\ NoNewAttempt(s, t)
  BY <1>1, <1>2, <1>4, <1>5 DEF SoundThread, NotAhead, AttemptPlaces, NoNewAttempt
<1> QED
  BY <1>4, <1>6, QuietStep DEF GoesOn

LEMMA ObsoleteSound ==
  ASSUME KeeperInv, NEW s \in Slots, Obsolete(s), Quiet
  PROVE  PollSound(s)
<1> DEFINE t == [thread[s] EXCEPT !.pc = "MARK_SUBMITTED"]
<1>1. thread[s].pc = "OBSOLETE" /\ thread[s].at \in AuctionIds
  BY AtHand DEF Obsolete, At, SoundThread, AuctionPlaces
<1>2. t \in Thread /\ SoundThread(t, phase, rejected) /\ NoNewAttempt(s, t)
  BY <1>1, AtHand DEF Thread, Place, SoundThread, AttemptPlaces, NoNewAttempt
<1>3. thread[s].saw \in Phase /\ NotAhead(thread[s].saw, phase[thread[s].at])
  BY <1>1, AtHand DEF Thread, SoundThread
<1>4. GoesOn(s, t)
  BY <1>1, <1>3, AtHand, UpdateSound DEF Obsolete, GoesOn
<1> QED
  BY <1>2, <1>4, QuietStep

LEMMA RefreshSound ==
  ASSUME KeeperInv, NEW s \in Slots, Refresh(s), Quiet
  PROVE  PollSound(s)
<1> DEFINE t == [thread[s] EXCEPT !.pc = "OBSOLETE", !.saw = phase[thread[s].at]]
<1>1. /\ thread[s].pc = "REFRESH" /\ thread[s].at \in AuctionIds
      /\ thread[s].at \in Started(phase)
  BY AtHand DEF Refresh, At, SoundThread, AuctionPlaces
<1>2. CASE Continue(s, IdleThread)
  BY <1>2, IdleStep DEF GoesOn
<1>3. CASE phase[thread[s].at] # "RESOLVING" /\ Continue(s, t)
  <2>1. thread[s].at \in Done(phase, rejected)
    BY <1>1, <1>3 DEF Started, Done, Settled
  <2>2. /\ t \in Thread /\ t.pc = "OBSOLETE" /\ t.at = thread[s].at
        /\ t.saw = phase[thread[s].at]
        /\ t.todo = thread[s].todo /\ t.got = thread[s].got
    BY <1>1, AtHand DEF Thread, Place
  <2>3. SoundThread(t, phase, rejected) /\ NoNewAttempt(s, t)
    BY <1>1, <2>1, <2>2, AtHand DEF SoundThread, NotAhead, AttemptPlaces, NoNewAttempt
  <2> QED
    BY <1>3, <2>2, <2>3, QuietStep DEF GoesOn
<1> QED
  BY <1>2, <1>3 DEF Refresh

LEMMA MarkSubmittedSound ==
  ASSUME KeeperInv, NEW s \in Slots, MarkSubmitted(s), Quiet
  PROVE  PollSound(s)
<1>1. /\ thread[s].pc = "MARK_SUBMITTED" /\ thread[s].at \in Done(phase, rejected)
      /\ thread[s].todo \subseteq Started(phase)
  BY AtHand DEF MarkSubmitted, At, SoundThread
<1>2. GoesOn(s, Loop(s, "CHECK"))
  BY <1>1, AtHand, SubmittedSound DEF MarkSubmitted, GoesOn
<1> QED
  BY <1>1, <1>2, AtHand, ScanStep DEF Loop, Thread

LEMMA SubmissionsEndSound ==
  ASSUME KeeperInv, NEW s \in Slots, SubmissionsEnd(s), Quiet
  PROVE  PollSound(s)
BY IdleStep DEF SubmissionsEnd, GoesOn

-----------------------------------------------------------------------------
(* The steps of the processes keep the invariant.                          *)

LEMMA PollKeeps ==
  ASSUME KeeperInv, NEW s \in Slots, PollSound(s), PhasesNext \/ UNCHANGED phaseView,
         rejected \subseteq rejected', rejected' \subseteq AuctionIds,
         UNCHANGED <<up, crashes, monitorVars>>, Fault \/ NoFault
  PROVE  KeeperInv'
<1>1. SoundStep(s) /\ AttemptsGoOn
  BY DEF SoundStep, PollSound, monitorVars, KeeperInv, TypeOK, ProcessTypeOK, MonitorTypeOK
<1> QED
  BY <1>1, LeaselessStepKeeps DEF monitorVars

LEMMA QuietPollKeeps ==
  ASSUME KeeperInv, NEW s \in Slots, PollSound(s), Quiet,
         UNCHANGED <<up, crashes, monitorVars>>, Fault \/ NoFault
  PROVE  KeeperInv'
<1>1. rejected' = rejected /\ rejected \subseteq AuctionIds /\ UNCHANGED phaseView
  BY DEF Quiet, KeeperInv, TypeOK
<1> QED
  BY <1>1, PollKeeps

LEMMA MonitorLoopKeeps ==
  ASSUME KeeperInv, NEW s \in Slots, MonitorLoop(s), UNCHANGED rejected
  PROVE  KeeperInv'
<1>1. Quiet /\ UNCHANGED <<up, crashes, monitorVars>> /\ NoFault
  BY DEF MonitorLoop, Quiet, processVars, NoFault
<1>2. CASE PollStarts(s)
  BY <1>1, <1>2, PollStartsSound, QuietPollKeeps
<1>3. CASE Synchronize(s)
  BY <1>1, <1>3, SynchronizeSound, QuietPollKeeps
<1>4. CASE SynchronizeEnds(s)
  BY <1>1, <1>4, SynchronizeEndsSound, QuietPollKeeps
<1>5. CASE PassEnds(s)
  BY <1>1, <1>5, PassEndsSound, QuietPollKeeps
<1>6. CASE Confirmed(s)
  BY <1>1, <1>6, ConfirmedSound, QuietPollKeeps
<1>7. CASE Rechecked(s)
  BY <1>1, <1>7, RecheckedSound, QuietPollKeeps
<1>8. CASE Release(s)
  BY <1>1, <1>8, ReleaseSound, QuietPollKeeps
<1>9. CASE Record(s, "RECORD_SUCCESS", "RELEASE") \/ Record(s, "RECORD_FAILURE", "RECHECK")
  <2>1. {"RECORD_SUCCESS", "RECORD_FAILURE"} \subseteq AttemptPlaces
    BY DEF AttemptPlaces
  <2>2. PollSound(s)
    BY <1>1, <1>9, <2>1, RecordSound
  <2> QED
    BY <1>1, <2>2, QuietPollKeeps
<1>10. CASE FinalizationsEnd(s)
  BY <1>1, <1>10, FinalizationsEndSound, QuietPollKeeps
<1>11. CASE Enqueue(s)
  BY <1>1, <1>11, EnqueueStepSound, QuietPollKeeps
<1> QED
  BY <1>2, <1>3, <1>4, <1>5, <1>6, <1>7, <1>8, <1>9, <1>10, <1>11 DEF MonitorLoop

(* The lease that is deleted is the poll's own, or the poll has outlasted  *)
(* it.                                                                     *)
LEMMA DeleteKeeps ==
  ASSUME KeeperInv, NEW s \in Monitors, Delete(s), Quiet,
         UNCHANGED <<processVars, expired, heard>>
  PROVE  KeeperInv'
<1> s \in Slots
  BY DEF Slots
<1> PICK a : a = thread[s].at
  OBVIOUS
<1>1. thread[s].pc = "DELETE" /\ a \in AuctionIds
  BY AtHand, AttemptAt DEF Delete, At, AttemptPlaces
<1>2. lease' = [lease EXCEPT ![a] = {}] /\ Continue(s, Loop(s, "RESERVE"))
  BY DEF Delete
<1>3. PollSound(s)
  BY <1>2, AtHand, ScanStep DEF Loop, GoesOn, Thread
<1>4. SoundStep(s)
  BY <1>3 DEF SoundStep, PollSound, Quiet, processVars, KeeperInv, TypeOK, ProcessTypeOK,
              MonitorTypeOK, NoFault
<1>5. lease \in [AuctionIds -> {{}} \cup {{u} : u \in Monitors}]
  BY DEF KeeperInv, TypeOK, MonitorTypeOK
<1>6. Loop(s, "RESERVE").pc = "RESERVE"
  BY DEF Loop, Scan, IdleThread
<1>7. ASSUME NEW b \in AuctionIds, NEW m \in Monitors, b \notin expired', Attempting(m, b)'
      PROVE  lease'[b] = {m}
  <2>1. thread \in [Slots -> Thread] /\ m \in Slots /\ b \notin expired
    BY <1>7 DEF KeeperInv, TypeOK, ProcessTypeOK, Slots
  <2>2. Attempting(m, b) /\ lease[b] = {m}
    BY <1>3, <1>7, <2>1 DEF PollSound, AttemptsGoOn, KeeperInv, LeasesKept
  <2>3. m # s
    BY <1>2, <1>6, <1>7, <2>1 DEF Continue, Become, Attempting
  <2>4. b # a
    <3>1. SUFFICES ASSUME b = a PROVE FALSE
      OBVIOUS
    <3>2. Attempting(s, b)
      BY <1>1, <3>1 DEF Attempting
    <3>3. lease[b] = {s}
      BY <2>1, <3>2 DEF KeeperInv, LeasesKept
    <3> QED
      BY <2>2, <2>3, <3>3
  <2> QED
    BY <1>2, <1>5, <2>2, <2>4
<1>8. LeasesKept'
  BY <1>7 DEF LeasesKept
<1>9. MonitorTypeOK'
  BY <1>2, <1>5 DEF KeeperInv, TypeOK, MonitorTypeOK
<1> QED
  BY <1>4, <1>8, <1>9, SoundStepKeeps DEF KeeperInv, TypeOK

LEMMA PollEndsKeeps ==
  ASSUME KeeperInv, NEW s \in Slots, PollEnds(s), Quiet,
         UNCHANGED <<faults, crashes, monitorVars>>
  PROVE  KeeperInv'
<1>1. PollSound(s)
  BY IdleStep DEF PollEnds, GoesOn
<1>2. up' \in [Roles -> {"DOWN", "STARTING", "UP", "STUCK", "HALTED"}]
  BY DEF PollEnds, KeeperInv, TypeOK, ProcessTypeOK
<1>3. SoundStep(s) /\ AttemptsGoOn
  BY <1>1, <1>2 DEF SoundStep, PollSound, monitorVars, KeeperInv, TypeOK, MonitorTypeOK, Quiet,
                    NoFault
<1> QED
  BY <1>3, LeaselessStepKeeps DEF monitorVars

LEMMA MonitorStepKeeps ==
  ASSUME KeeperInv, NEW s \in Monitors, MonitorStep(s), UNCHANGED rejected
  PROVE  KeeperInv'
<1> s \in Slots
  BY DEF Slots
<1>1. CASE MonitorLoop(s)
  BY <1>1, MonitorLoopKeeps
<1>2. CASE PollEnds(s) /\ UNCHANGED <<phaseView, faults, crashes, monitorVars>>
  BY <1>2, PollEndsKeeps DEF Quiet
<1>3. CASE /\ Confirm(s) \/ Recheck(s) \/ Inspect(s)
           /\ UNCHANGED <<phaseView, up, crashes, monitorVars>>
  <2>1. Quiet /\ UNCHANGED <<up, crashes, monitorVars>>
    BY <1>3 DEF Quiet
  <2>2. Fault \/ NoFault
    BY <1>3 DEF Confirm, Recheck, Inspect
  <2>3. PollSound(s)
    BY <1>3, <2>1, ConfirmSound, RecheckSound, InspectSound
  <2> QED
    BY <2>1, <2>2, <2>3, QuietPollKeeps
<1>4. CASE /\ Reserve(s) \/ Delete(s)
           /\ UNCHANGED <<phaseView, processVars, expired, heard>>
  BY <1>4, ReserveKeeps, DeleteKeeps DEF Quiet
<1>5. CASE Send(s) /\ UNCHANGED <<up, crashes, monitorVars>>
  <2>1. PollSound(s) /\ (PhasesNext \/ UNCHANGED phaseView)
    BY <1>5, SendSound
  <2>2. Fault \/ NoFault
    BY <1>5 DEF Send
  <2>3. rejected \subseteq rejected' /\ rejected' \subseteq AuctionIds
    BY DEF KeeperInv, TypeOK
  <2> QED
    BY <1>5, <2>1, <2>2, <2>3, PollKeeps
<1> QED
  BY <1>1, <1>2, <1>3, <1>4, <1>5 DEF MonitorStep

LEMMA ListenerStepKeeps ==
  ASSUME KeeperInv, NEW s \in Slots, ListenerStep(s), UNCHANGED rejected
  PROVE  KeeperInv'
<1>1. Quiet /\ NoFault /\ UNCHANGED <<up, crashes, lockVars>>
  BY DEF ListenerStep, Quiet, processVars, NoFault
<1> PICK a \in Existing : /\ heard' = heard \cup {a}
                         /\ Save(s, upsertAuction(Memory(s), a, "ACTIVE"), IdleThread)
  BY DEF ListenerStep, Hear
<1>2. a \in AuctionIds /\ NotAhead("ACTIVE", phase[a])
  BY DEF Existing, NotAhead
<1>3. GoesOn(s, IdleThread)
  BY <1>2, AtHand, UpsertSound DEF GoesOn, Phase
<1>4. PollSound(s)
  BY <1>1, <1>3, IdleStep
<1>5. SoundStep(s) /\ AttemptsGoOn
  BY <1>1, <1>2, <1>4 DEF SoundStep, PollSound, KeeperInv, TypeOK, ProcessTypeOK,
                          MonitorTypeOK, Quiet
<1> QED
  BY <1>1, <1>5, LeaselessStepKeeps

LEMMA DispatcherStepKeeps ==
  ASSUME KeeperInv, NEW s \in Dispatchers, DispatcherStep(s), UNCHANGED <<monitorVars, rejected>>
  PROVE  KeeperInv'
<1> s \in Slots
  BY DEF Slots
<1>1. Quiet /\ UNCHANGED <<up, crashes, monitorVars>>
  BY DEF DispatcherStep, Quiet, processVars
<1>2. Fault \/ NoFault
  BY DEF DispatcherStep, Answer, NoFault, processVars
<1>3. PollSound(s)
  BY <1>1, DispatcherPollsSound, MarkCompletedSound, MarksEndSound, StoreArtifactSound,
     DispatchEndsSound, AnswerSound DEF DispatcherStep
<1> QED
  BY <1>1, <1>2, <1>3, QuietPollKeeps

LEMMA SubmitterStepKeeps ==
  ASSUME KeeperInv, NEW s \in Submitters, SubmitterStep(s), UNCHANGED monitorVars
  PROVE  KeeperInv'
<1> s \in Slots
  BY DEF Slots
<1>1. CASE Submit(s) /\ UNCHANGED <<up, crashes>>
  <2>1. Fault \/ NoFault
    BY <1>1 DEF Submit
  <2> QED
    BY <1>1, <2>1, SubmitSound, PollKeeps
<1>2. CASE /\ \/ SubmitterPolls(s) \/ Check(s) \/ Obsolete(s)
              \/ MarkSubmitted(s) \/ SubmissionsEnd(s)
           /\ UNCHANGED <<phaseView, processVars, rejected>>
  <2>1. Quiet /\ UNCHANGED <<up, crashes, monitorVars>> /\ NoFault
    BY <1>2 DEF Quiet, processVars, NoFault
  <2>2. PollSound(s)
    BY <1>2, <2>1, SubmitterPollsSound, CheckSound, ObsoleteSound, MarkSubmittedSound,
       SubmissionsEndSound
  <2> QED
    BY <2>1, <2>2, QuietPollKeeps
<1>3. CASE Refresh(s) /\ UNCHANGED <<phaseView, up, crashes, rejected>>
  <2>1. Quiet /\ UNCHANGED <<up, crashes, monitorVars>> /\ (Fault \/ NoFault)
    BY <1>3 DEF Quiet, Refresh
  <2> QED
    BY <1>3, <2>1, RefreshSound, QuietPollKeeps
<1> QED
  BY <1>1, <1>2, <1>3 DEF SubmitterStep

-----------------------------------------------------------------------------
(* Steps outside of the polls.                                             *)

(* All that the processes have stays sound while the auctions move.        *)
LEMMA ChainMoves ==
  ASSUME KeeperInv, PhasesNext \/ UNCHANGED phaseView, UNCHANGED rejected
  PROVE  /\ PhasesTypeOK'
         /\ SoundStore(file.content, phase', rejected')
         /\ \A r \in Roles : SoundStore(memory[r], phase', rejected')
         /\ \A s \in Slots : \A st \in writing[s] : SoundStore(st, phase', rejected')
         /\ \A s \in Slots : SoundThread(thread[s], phase', rejected')
<1>1. PhasesTypeOK' /\ Grows(phase, rejected, phase', rejected')
  BY ChainGrows DEF KeeperInv, TypeOK
<1>2. phase \in [AuctionIds -> Phase] /\ phase' \in [AuctionIds -> Phase]
  BY <1>1 DEF KeeperInv, TypeOK, PhasesTypeOK
<1>3. /\ file.content \in Store /\ memory \in [Roles -> Store]
      /\ writing \in [Slots -> SUBSET Store] /\ thread \in [Slots -> Thread]
  BY DEF KeeperInv, TypeOK, StoreTypeOK, ProcessTypeOK
<1>4. \A st \in Store : SoundStore(st, phase, rejected) => SoundStore(st, phase', rejected')
  BY <1>1, <1>2, StoreStaysSound
<1>5. \A t \in Thread : SoundThread(t, phase, rejected) => SoundThread(t, phase', rejected')
  BY <1>1, <1>2, ThreadStaysSound
<1> QED
  BY <1>1, <1>3, <1>4, <1>5 DEF KeeperInv, StoresSound, ThreadsSound

LEMMA ProcessesIdle ==
  ASSUME KeeperInv, PhasesNext \/ UNCHANGED phaseView, UNCHANGED rejected,
         UNCHANGED <<storeVars, thread>>
  PROVE  /\ PhasesTypeOK' /\ StoreTypeOK' /\ thread' \in [Slots -> Thread]
         /\ rejected' \subseteq AuctionIds /\ StoresSound' /\ ThreadsSound'
<1>1. file' = file /\ memory' = memory /\ writing' = writing /\ thread' = thread
  BY DEF storeVars
<1>2. StoreTypeOK' /\ thread' \in [Slots -> Thread] /\ rejected' \subseteq AuctionIds
  BY <1>1 DEF KeeperInv, TypeOK, StoreTypeOK, ProcessTypeOK
<1> QED
  BY <1>1, <1>2, ChainMoves DEF StoresSound, ThreadsSound

LEMMA ChainStepKeeps ==
  ASSUME KeeperInv, PhasesNext \/ UNCHANGED phaseView,
         UNCHANGED <<storeVars, processVars, thread, monitorVars, rejected>>
  PROVE  KeeperInv'
<1>1. (ProcessTypeOK /\ MonitorTypeOK)'
  BY DEF KeeperInv, TypeOK, ProcessTypeOK, MonitorTypeOK, processVars, monitorVars, lockVars
<1>2. LeasesKept'
  BY DEF KeeperInv, LeasesKept, Attempting, monitorVars, lockVars
<1> QED
  BY <1>1, <1>2, ProcessesIdle DEF KeeperInv, TypeOK

(* Whoever has an attempt at an auction whose lease runs out is noted.     *)
LEMMA ExpireKeeps ==
  ASSUME KeeperInv, NEW a \in AuctionIds, Expire(a)
  PROVE  KeeperInv'
<1>1. /\ lease' = [lease EXCEPT ![a] = {}]
      /\ expired' = IF \E s \in lease[a] : Attempting(s, a) THEN expired \cup {a} ELSE expired
  BY DEF Expire, LeaseExpires
<1>2. UNCHANGED <<phaseView, storeVars, processVars, thread, heard, rejected>>
  BY DEF Expire
<1>3. lease \in [AuctionIds -> {{}} \cup {{u} : u \in Monitors}] /\ expired \subseteq AuctionIds
  BY DEF KeeperInv, TypeOK, MonitorTypeOK
<1>4. (ProcessTypeOK /\ MonitorTypeOK)'
  BY <1>1, <1>2, <1>3 DEF KeeperInv, TypeOK, ProcessTypeOK, MonitorTypeOK, processVars
<1>5. ASSUME NEW b \in AuctionIds, NEW m \in Monitors, b \notin expired', Attempting(m, b)'
      PROVE  lease'[b] = {m}
  <2>1. Attempting(m, b) /\ b \notin expired
    BY <1>1, <1>2, <1>5 DEF Attempting
  <2>2. lease[b] = {m}
    BY <2>1 DEF KeeperInv, LeasesKept
  <2>3. b # a
    BY <1>1, <1>5, <2>1, <2>2
  <2> QED
    BY <1>1, <1>3, <2>2, <2>3
<1>6. LeasesKept'
  BY <1>5 DEF LeasesKept
<1> QED
  BY <1>2, <1>4, <1>6, ProcessesIdle DEF KeeperInv, TypeOK

LEMMA StartKeeps ==
  ASSUME KeeperInv, NEW r \in Roles, Start(r), UNCHANGED <<phaseView, monitorVars, rejected>>
  PROVE  KeeperInv'
<1>1. up' \in [Roles -> {"DOWN", "STARTING", "UP", "STUCK", "HALTED"}]
  BY DEF Start, KeeperInv, TypeOK, ProcessTypeOK
<1>2. Quiet /\ NoFault /\ UNCHANGED crashes
  BY DEF Start, Quiet, NoFault
<1>3. ASSUME NEW s \in Slots, Hydrate(r), NEW t \in Thread, Become(s, t),
             SoundThread(t, phase, rejected), NoNewAttempt(s, t)
      PROVE  KeeperInv'
  <2>1. phase' = phase /\ rejected' = rejected
    BY DEF phaseView
  <2>2. WritesSound(s) /\ MovesSound(s)
    BY <1>3, <2>1 DEF WritesSound, MovesSound
  <2>3. AttemptsGoOn
    BY <1>3, AttemptGoesOn
  <2>4. SoundStep(s)
    BY <1>1, <1>2, <2>2 DEF SoundStep, KeeperInv, TypeOK, MonitorTypeOK, monitorVars, Quiet
  <2> QED
    BY <2>3, <2>4, LeaselessStepKeeps DEF monitorVars
<1>4. CASE Readable /\ r = "MONITOR"
  <2>1. PICK m \in Monitors : Become(m, Scan("SYNC", Existing, 2))
    BY <1>4 DEF Start, StartThreads
  <2>2. m \in Slots /\ Existing \in SUBSET AuctionIds
    BY DEF Slots, Existing
  <2>3. "SYNC" \in Place \ AuctionPlaces /\ "SYNC" \notin AttemptPlaces
    BY LoopPlaces
  <2>4. /\ Scan("SYNC", Existing, 2) \in Thread
        /\ SoundThread(Scan("SYNC", Existing, 2), phase, rejected)
        /\ Scan("SYNC", Existing, 2).pc = "SYNC"
    BY <2>2, <2>3, ScanSound
  <2>5. NoNewAttempt(m, Scan("SYNC", Existing, 2))
    BY <2>3, <2>4 DEF NoNewAttempt
  <2> QED
    BY <1>3, <1>4, <2>1, <2>2, <2>4, <2>5 DEF Start
<1>5. CASE Readable /\ r # "MONITOR"
  <2>1. PICK s \in Slots : r = Role(s)
    BY DEF Roles
  <2>2. Become(s, thread[s])
    BY <1>5 DEF Start, StartThreads, Become, KeeperInv, TypeOK, ProcessTypeOK
  <2> QED
    BY <1>3, <1>5, <2>2, AtHand DEF Start, NoNewAttempt
<1>6. CASE ~Readable
  <2>1. UNCHANGED <<storeVars, thread, monitorVars, rejected>> /\ thread' = thread
    BY <1>6 DEF Start
  <2>2. (ProcessTypeOK /\ MonitorTypeOK)'
    BY <1>1, <1>2, <2>1 DEF KeeperInv, TypeOK, ProcessTypeOK, MonitorTypeOK, monitorVars,
                            lockVars, NoFault
  <2>3. LeasesKept'
    BY <2>1 DEF KeeperInv, LeasesKept, Attempting, monitorVars, lockVars
  <2> QED
    BY <2>1, <2>2, <2>3, ProcessesIdle DEF KeeperInv, TypeOK
<1> QED
  BY <1>4, <1>5, <1>6

LEMMA CrashKeeps ==
  ASSUME KeeperInv, NEW r \in Roles, Crash(r), UNCHANGED <<phaseView, monitorVars, rejected>>
  PROVE  KeeperInv'
<1>1. /\ thread' = [s \in Slots |-> IF Role(s) = r THEN IdleThread ELSE thread[s]]
      /\ writing' = [s \in Slots |-> IF Role(s) = r THEN {} ELSE writing[s]]
      /\ memory' = [memory EXCEPT ![r] = EmptyStore]
      /\ file' = file /\ phase' = phase /\ rejected' = rejected
  BY DEF Crash, phaseView
<1>2. EmptyStore \in Store /\ SoundStore(EmptyStore, phase, rejected)
  BY EmptyStoreSound DEF KeeperInv, TypeOK, PhasesTypeOK
<1>3. IdleThread \in Thread /\ SoundThread(IdleThread, phase, rejected)
      /\ IdleThread.pc \notin AttemptPlaces
  BY IdleSound DEF IdleThread, AttemptPlaces
<1>4. StoreTypeOK' /\ StoresSound'
  BY <1>1, <1>2 DEF KeeperInv, TypeOK, StoreTypeOK, StoresSound
<1>5. thread' \in [Slots -> Thread] /\ ThreadsSound'
  BY <1>1, <1>3 DEF KeeperInv, TypeOK, ProcessTypeOK, ThreadsSound
<1>6. up' \in [Roles -> {"DOWN", "STARTING", "UP", "STUCK", "HALTED"}] /\ faults' = faults
  BY DEF Crash, KeeperInv, TypeOK, ProcessTypeOK
<1>7. crashes' \in 0..MaxCrashes
  BY KeeperAssumption DEF Crash, KeeperInv, TypeOK, ProcessTypeOK
<1>8. (ProcessTypeOK /\ MonitorTypeOK /\ PhasesTypeOK)' /\ rejected' \subseteq AuctionIds
  BY <1>1, <1>5, <1>6, <1>7
     DEF KeeperInv, TypeOK, ProcessTypeOK, MonitorTypeOK, PhasesTypeOK, monitorVars, lockVars,
         phaseView
<1>9. \A a \in AuctionIds, m \in Monitors : Attempting(m, a)' => Attempting(m, a)
  BY <1>1, <1>3 DEF Attempting, AttemptPlaces, Slots
<1>10. LeasesKept'
  BY <1>9 DEF KeeperInv, LeasesKept, monitorVars, lockVars
<1> QED
  BY <1>4, <1>5, <1>8, <1>10 DEF KeeperInv, TypeOK

(* What is written was sound when the write began, and is so still.        *)
LEMMA WriteStepKeeps ==
  ASSUME KeeperInv, NEW s \in Slots, WriteStep(s)
  PROVE  KeeperInv'
<1> PICK st \in writing[s] :
      /\ file' \in {Complete(st), NoFile("GARBAGE")}
      /\ writing' = [writing EXCEPT ![s] = {}]
      /\ UNCHANGED memory
  BY DEF WriteStep, WriteDone
<1>1. UNCHANGED <<phaseView, processVars, thread, monitorVars, rejected>>
      /\ phase' = phase /\ rejected' = rejected
  BY DEF WriteStep, phaseView
<1>2. /\ st \in Store /\ SoundStore(st, phase, rejected)
      /\ EmptyStore \in Store /\ SoundStore(EmptyStore, phase, rejected)
  BY EmptyStoreSound DEF KeeperInv, TypeOK, PhasesTypeOK, StoreTypeOK, StoresSound
<1>3. /\ file'.status \in {"COMPLETE", "GARBAGE"}
      /\ file'.content \in Store /\ SoundStore(file'.content, phase, rejected)
  BY <1>2 DEF Complete, NoFile
<1>4. StoreTypeOK' /\ StoresSound'
  BY <1>1, <1>3 DEF KeeperInv, TypeOK, StoreTypeOK, StoresSound
<1>5. ThreadsSound' /\ LeasesKept'
  BY <1>1 DEF KeeperInv, ThreadsSound, LeasesKept, Attempting, monitorVars, lockVars
<1>6. (PhasesTypeOK /\ ProcessTypeOK /\ MonitorTypeOK)' /\ rejected' \subseteq AuctionIds
  BY <1>1 DEF KeeperInv, TypeOK, PhasesTypeOK, ProcessTypeOK, MonitorTypeOK, phaseView,
              processVars, monitorVars, lockVars
<1> QED
  BY <1>4, <1>5, <1>6 DEF KeeperInv, TypeOK

LEMMA PollFailsKeeps ==
  ASSUME KeeperInv, NEW s \in Slots, PollFails(s),
         UNCHANGED <<phaseView, monitorVars, rejected>>
  PROVE  KeeperInv'
<1>1. Quiet /\ Fault /\ UNCHANGED crashes /\ Continue(s, IdleThread)
  BY DEF PollFails, Quiet
<1>2. PollSound(s)
  BY <1>1, IdleStep DEF GoesOn
<1>3. up' \in [Roles -> {"DOWN", "STARTING", "UP", "STUCK", "HALTED"}]
  BY DEF PollFails, KeeperInv, TypeOK, ProcessTypeOK
<1>4. SoundStep(s) /\ AttemptsGoOn
  BY <1>1, <1>2, <1>3 DEF SoundStep, PollSound, KeeperInv, TypeOK, MonitorTypeOK, monitorVars,
                          Quiet
<1> QED
  BY <1>4, LeaselessStepKeeps DEF monitorVars

-----------------------------------------------------------------------------
LEMMA InitInv == ASSUME Init PROVE KeeperInv
<1>1. phase \in [AuctionIds -> Phase] /\ PhasesTypeOK /\ rejected = {}
  BY DEF Init, PhasesInit, PhasesTypeOK, Phase
<1>2. EmptyStore \in Store /\ SoundStore(EmptyStore, phase, rejected)
  BY <1>1, EmptyStoreSound
<1>3. /\ file.status = "ABSENT" /\ file.content = EmptyStore
      /\ memory = [r \in Roles |-> EmptyStore] /\ writing = [s \in Slots |-> {}]
  BY DEF Init, StoreInit, NoFile
<1>4. StoreTypeOK /\ StoresSound
  BY <1>2, <1>3 DEF StoreTypeOK, StoresSound
<1>5. thread = [s \in Slots |-> IdleThread]
  BY DEF Init, ProcessInit
<1>6. thread \in [Slots -> Thread] /\ ThreadsSound
  BY <1>5, IdleSound DEF ThreadsSound
<1>7. ProcessTypeOK
  BY <1>6, KeeperAssumption DEF Init, ProcessInit, ProcessTypeOK
<1>8. MonitorTypeOK
  BY DEF Init, MonitorInit, MonitorTypeOK
<1>9. LeasesKept
  BY <1>5 DEF LeasesKept, Attempting, IdleThread, Slots
<1> QED
  BY <1>1, <1>4, <1>6, <1>7, <1>8, <1>9 DEF KeeperInv, TypeOK

LEMMA NextKeeps == ASSUME KeeperInv, [Next]_vars PROVE KeeperInv'
<1>1. CASE ChainStep
  BY <1>1, ChainStepKeeps DEF ChainStep
<1>2. ASSUME NEW a \in AuctionIds, Expire(a) PROVE KeeperInv'
  BY <1>2, ExpireKeeps
<1>3. ASSUME NEW r \in Roles, LifeCycle(r) PROVE KeeperInv'
  BY <1>3, StartKeeps, CrashKeeps DEF LifeCycle
<1>4. ASSUME NEW s \in Slots, Step(s) PROVE KeeperInv'
  BY <1>4, MonitorStepKeeps, ListenerStepKeeps, DispatcherStepKeeps, SubmitterStepKeeps DEF Step
<1>5. ASSUME NEW s \in Slots, WriteStep(s) PROVE KeeperInv'
  BY <1>5, WriteStepKeeps
<1>6. ASSUME NEW s \in Slots, PollFails(s), UNCHANGED <<phaseView, monitorVars, rejected>>
      PROVE  KeeperInv'
  BY <1>6, PollFailsKeeps
<1>7. CASE UNCHANGED vars
  BY <1>7, ChainStepKeeps DEF vars
<1> QED
  BY <1>1, <1>2, <1>3, <1>4, <1>5, <1>6, <1>7 DEF Next

LEMMA KeeperInvariant == Spec => []KeeperInv
BY InitInv, NextKeeps, PTL DEF Spec

LEMMA AllSound == ASSUME KeeperInv PROVE \A st \in Stores : SoundStore(st, phase, rejected)
<1> DEFINE held == {memory[r] : r \in Roles}
           underway == UNION {writing[s] : s \in Slots}
           onDisk == IF file.status = "COMPLETE" THEN {file.content} ELSE {}
<1>1. \A st \in held : SoundStore(st, phase, rejected)
  BY DEF KeeperInv, StoresSound
<1>2. \A st \in underway : SoundStore(st, phase, rejected)
  BY DEF KeeperInv, StoresSound
<1>3. \A st \in onDisk : SoundStore(st, phase, rejected)
  BY DEF KeeperInv, StoresSound
<1>4. Stores = held \cup underway \cup onDisk
  BY DEF Stores
<1> HIDE DEF held, underway, onDisk
<1> QED
  BY <1>1, <1>2, <1>3, <1>4

(* The shared file, the memories, the polls, the leases and the counters   *)
(* have their types.                                                       *)
THEOREM KeeperTypeCorrect == Spec => []TypeOK
<1>1. KeeperInv => TypeOK
  BY DEF KeeperInv
<1> QED
  BY <1>1, KeeperInvariant, PTL

(* However many polls and listeners overlap, and whatever is lost in       *)
(* crashes, no record of any process and no reading in any poll is ahead   *)
(* of the chain.                                                           *)
THEOREM RecordsNeverAhead == Spec => []RecordsNotAhead
<1>1. KeeperInv => RecordsNotAhead
  <2> SUFFICES ASSUME KeeperInv, NEW a \in AuctionIds
               PROVE  /\ \A st \in Stores : NotAhead(st.tracked[a], phase[a])
                      /\ \A s \in Slots :
                           thread[s].at = a => NotAhead(thread[s].saw, phase[a])
    BY DEF RecordsNotAhead
  <2>1. \A st \in Stores : SoundStore(st, phase, rejected)
    BY AllSound
  <2> QED
    BY <2>1 DEF SoundStore, KeeperInv, ThreadsSound, SoundThread
<1> QED
  BY <1>1, KeeperInvariant, PTL

(* What is marked as submitted, in whatever store, is settled or rejected: *)
(* a mark is written only by a poll that has seen one of the two.          *)
THEOREM SubmittedOnlyWhenDone == Spec => []SubmittedMeansDone
<1>1. KeeperInv => SubmittedMeansDone
  <2>1. ASSUME KeeperInv PROVE \A st \in Stores : SoundStore(st, phase, rejected)
    BY <2>1, AllSound
  <2> QED
    BY <2>1 DEF SubmittedMeansDone, SoundStore, Done
<1> QED
  BY <1>1, KeeperInvariant, PTL

(* However many polls of the monitor overlap, two of them finalize the     *)
(* same auction only if the lease of one has run out during its attempt.   *)
THEOREM LeasesExclude == Spec => []AttemptsExclusive
<1>1. KeeperInv => AttemptsExclusive
  <2> SUFFICES ASSUME KeeperInv, NEW a \in AuctionIds \ expired,
                      NEW s \in Monitors, NEW t \in Monitors,
                      Attempting(s, a), Attempting(t, a)
               PROVE  s = t
    BY DEF AttemptsExclusive
  <2>1. lease[a] = {s} /\ lease[a] = {t}
    BY DEF KeeperInv, LeasesKept
  <2> QED
    BY <2>1
<1> QED
  BY <1>1, KeeperInvariant, PTL
=============================================================================
