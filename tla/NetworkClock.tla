---------------------------- MODULE NetworkClock ----------------------------
(***************************************************************************)
(* Block time, and the estimate of the block interval that the market      *)
(* keeps in lastObservationTimestamp and movingAverageBlockDelta.  Several *)
(* transactions may carry the same timestamp; time passes between blocks.  *)
(***************************************************************************)
EXTENDS Integers

CONSTANT
  BlockTimes   \* bound: the timestamps that later blocks may carry

ASSUME ClockAssumption == BlockTimes \subseteq Nat

VARIABLES
  now,                        \* block.timestamp
  lastObservationTimestamp,
  movingAverageBlockDelta

clockVars == <<now, lastObservationTimestamp, movingAverageBlockDelta>>

NETWORK_SAMPLE_CEILING == 600

ClockTypeOK ==
  /\ now \in Nat \ {0}
  /\ lastObservationTimestamp \in 0..now
  /\ movingAverageBlockDelta \in 0..NETWORK_SAMPLE_CEILING

ClockInit ==
  /\ now = 1
  /\ lastObservationTimestamp = 0
  /\ movingAverageBlockDelta = 0

(* The average after a sample: the first one as it is, then an exponential *)
(* moving average of weight one eighth, rounded down.                      *)
NextAverage(average, delta) ==
  IF average < 1 THEN delta ELSE (average * 7 + delta) \div 8

(* Mutant of IsSample: an idle period of any length counts.                *)
AnyGapIsSample(delta) == delta >= 1

(* A second observation in the same block is no sample, nor is a gap above *)
(* the ceiling.                                                            *)
IsSample(delta) == delta >= 1 /\ delta <= NETWORK_SAMPLE_CEILING

(* _observeNetwork, which every state-changing entry point calls: the first *)
(* call only takes a timestamp.                                            *)
ObserveNetwork ==
  LET delta == now - lastObservationTimestamp IN
  /\ lastObservationTimestamp' = now
  /\ movingAverageBlockDelta' =
       IF lastObservationTimestamp >= 1 /\ IsSample(delta)
         THEN NextAverage(movingAverageBlockDelta, delta)
         ELSE movingAverageBlockDelta
  /\ UNCHANGED now

(* A new block.                                                            *)
Tick ==
  /\ \E t \in BlockTimes : t > now /\ now' = t
  /\ UNCHANGED <<lastObservationTimestamp, movingAverageBlockDelta>>
=============================================================================
