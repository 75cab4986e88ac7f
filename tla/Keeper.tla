------------------------------- MODULE Keeper -------------------------------
(***************************************************************************)
(* The keeper: three processes over one state file, and auctions on the    *)
(* chain which others move as well.                                        *)
(***************************************************************************)
EXTENDS AuctionMonitor, CofheDispatcher, AvsSubmitter

vars == <<phaseView, storeVars, processVars, thread, monitorVars, rejected>>

TypeOK ==
  /\ PhasesTypeOK /\ StoreTypeOK /\ ProcessTypeOK /\ MonitorTypeOK
  /\ rejected \subseteq AuctionIds

Init ==
  /\ PhasesInit /\ StoreInit /\ ProcessInit /\ MonitorInit
  /\ rejected = {}

(* Sellers, operators and other keepers.                                   *)
ChainStep ==
  /\ PhasesNext
  /\ UNCHANGED <<storeVars, processVars, thread, monitorVars, rejected>>

WriteStep(s) ==
  /\ WriteDone(s)
  /\ UNCHANGED <<phaseView, processVars, thread, monitorVars, rejected>>

Expire(a) ==
  /\ LeaseExpires(a)
  /\ UNCHANGED <<phaseView, storeVars, processVars, thread, heard, rejected>>

LifeCycle(r) == (Start(r) \/ Crash(r)) /\ UNCHANGED <<phaseView, monitorVars, rejected>>

Step(s) ==
  \/ s \in Monitors /\ MonitorStep(s) /\ UNCHANGED rejected
  \/ s \in Listeners /\ ListenerStep(s) /\ UNCHANGED rejected
  \/ s \in Dispatchers /\ DispatcherStep(s) /\ UNCHANGED <<monitorVars, rejected>>
  \/ s \in Submitters /\ SubmitterStep(s) /\ UNCHANGED monitorVars

Next ==
  \/ ChainStep
  \/ \E a \in AuctionIds : Expire(a)
  \/ \E r \in Roles : LifeCycle(r)
  \/ \E s \in Slots :
       \/ Step(s)
       \/ WriteStep(s)
       \/ PollFails(s) /\ UNCHANGED <<phaseView, monitorVars, rejected>>

Spec == Init /\ [][Next]_vars
=============================================================================
