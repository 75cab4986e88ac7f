--------------------------- MODULE AuctionPhases ---------------------------
(***************************************************************************)
(* What the market promises about the course of an auction, and all that a *)
(* keeper sees of it: the state it reads with getAuction and whether the   *)
(* end time has passed.  FairMarket implements this specification; the     *)
(* keeper is built on it.                                                  *)
(***************************************************************************)
EXTENDS Integers

CONSTANT AuctionIds

VARIABLES
  phase,    \* the AuctionState of each auction, "CREATED" before it exists
  ended     \* the auctions whose end time has passed

phaseView == <<phase, ended>>

Phase == {"CREATED", "ACTIVE", "RESOLVING", "FINALIZED", "CANCELLED", "VOIDED"}
Settled == {"FINALIZED", "CANCELLED", "VOIDED"}

PhasesTypeOK ==
  /\ phase \in [AuctionIds -> Phase]
  /\ ended \subseteq AuctionIds

PhasesInit ==
  /\ phase = [a \in AuctionIds |-> "CREATED"]
  /\ ended = {}

Move(a, from, to) ==
  /\ phase[a] = from
  /\ phase' = [phase EXCEPT ![a] = to]
  /\ UNCHANGED ended

(* A new auction ends in the future.                                       *)
Create(a) == a \notin ended /\ Move(a, "CREATED", "ACTIVE")

(* Time passes, and some auctions reach their end.                         *)
TimePasses ==
  /\ \E late \in SUBSET {a \in AuctionIds : phase[a] # "CREATED"} :
       ended' = ended \cup late
  /\ UNCHANGED phase

(* Only the seller withdraws an auction, and only before its end; only     *)
(* after its end can resolution start, which an outcome or the fallback    *)
(* ends.  Nothing follows on that.                                         *)
Cancel(a) == a \notin ended /\ Move(a, "ACTIVE", "CANCELLED")
Finalize(a) == a \in ended /\ Move(a, "ACTIVE", "RESOLVING")
Settle(a) == Move(a, "RESOLVING", "FINALIZED")
VoidAuction(a) == Move(a, "RESOLVING", "VOIDED")

PhasesNext ==
  \/ TimePasses
  \/ \E a \in AuctionIds :
       Create(a) \/ Cancel(a) \/ Finalize(a) \/ Settle(a) \/ VoidAuction(a)

PhasesSpec == PhasesInit /\ [][PhasesNext]_phaseView
=============================================================================
