-------------------------- MODULE SettlementEngine --------------------------
(***************************************************************************)
(* The arithmetic of SettlementEngine.sol.  The contract is stateless apart *)
(* from the address of its AVS, so its computations are operators.  All    *)
(* quantities are wei or seconds, far below 2^256, so that Solidity's      *)
(* checked arithmetic never reverts here.                                  *)
(***************************************************************************)
EXTENDS Integers

BPS_DENOMINATOR == 10000
MIN_DYNAMIC_TIMEOUT == 900
MAX_DYNAMIC_TIMEOUT == 7200
DYNAMIC_TIMEOUT_MULTIPLIER == 90
MIN_CANCELLATION_SLASH_BPS == 2500

(* Subtraction that stops at zero: x >= y ? 0 : y - x in the source.       *)
SaturatingSub(x, y) == IF y >= x THEN 0 ELSE x - y

(* Mutant of Clamp: the upper limit is forgotten.                          *)
ClampBelow(x, lo, hi) == IF x < lo THEN lo ELSE x

Clamp(x, lo, hi) == IF x < lo THEN lo ELSE IF x > hi THEN hi ELSE x

computeDynamicTimeout(movingAverage) ==
  Clamp(movingAverage * DYNAMIC_TIMEOUT_MULTIPLIER,
        MIN_DYNAMIC_TIMEOUT, MAX_DYNAMIC_TIMEOUT)

(* The share of the deposit a cancelling seller loses: a quarter at once,  *)
(* all of it at the end of the auction, linear in between.                 *)
CancellationSlashBps(elapsed, duration) ==
  LET boundedElapsed == IF elapsed > duration THEN duration ELSE elapsed
  IN  MIN_CANCELLATION_SLASH_BPS
        + (boundedElapsed * (BPS_DENOMINATOR - MIN_CANCELLATION_SLASH_BPS)) \div duration

computeCancellationSlash(sellerDeposit, elapsed, duration, escrow) ==
  IF sellerDeposit = 0 \/ escrow = 0 THEN 0
  ELSE IF duration = 0 THEN sellerDeposit
  ELSE (sellerDeposit * CancellationSlashBps(elapsed, duration)) \div BPS_DENOMINATOR

computeWinningRefund(escrowedAmount, winningAmount) ==
  SaturatingSub(escrowedAmount, winningAmount)

computeSellerPayout(sellerDeposit, winningAmount) == sellerDeposit + winningAmount

computeSellerCancellationPayout(sellerDeposit, slashAmount) ==
  SaturatingSub(sellerDeposit, slashAmount)

(* Mutant of computeProRataShare: it rounds up.                            *)
ProRataShareRoundedUp(contribution, escrow, pot) ==
  IF contribution = 0 \/ escrow = 0 \/ pot = 0 THEN 0
  ELSE (contribution * pot + escrow - 1) \div escrow

computeProRataShare(contribution, escrow, pot) ==
  IF contribution = 0 \/ escrow = 0 \/ pot = 0 THEN 0
  ELSE (contribution * pot) \div escrow
=============================================================================
