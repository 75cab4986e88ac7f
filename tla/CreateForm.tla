------------------------------ MODULE CreateForm ------------------------------
(***************************************************************************)
(* The four steps of create-auction-form.tsx.  A field is edited in its    *)
(* own step only; a step is left forward if its field is valid, and        *)
(* backward in any case.  The duration is composed of four numbers.  Token *)
(* and format are left out: the form does not tell a wrong token (an empty *)
(* number is token 0), the library does, see Check of WalletActions.       *)
(***************************************************************************)
EXTENDS Integers

CONSTANT Entries      \* numbers entered for a part of the duration

VARIABLE form

Parts == {"months", "days", "hours", "minutes"}
createSteps == <<"asset", "duration", "deposit", "review">>

ASSUME EntriesAssumption == Entries \subseteq Nat

(* A deposit is text: not an amount, nothing, or more.                     *)
Deposits == {"malformed", "zero", "positive"}

FormTypeOK ==
  form \in [step : 1..4, nftContract : BOOLEAN, duration : [Parts -> Nat], sellerDeposit : Deposits]

NewForm ==
  [step |-> 1, nftContract |-> FALSE, duration |-> [p \in Parts |-> IF p = "days" THEN 1 ELSE 0],
   sellerDeposit |-> "positive"]
FormInit == form = NewForm
FormReset == form' = NewForm

-----------------------------------------------------------------------------
Minute == 60
Hour == 60 * Minute
Day == 24 * Hour
Month == 30 * Day

MinAuctionDuration == 1 * Minute
MaxAuctionDuration == 90 * Day

buildDurationSeconds(d) ==
  d["months"] * Month + d["days"] * Day + d["hours"] * Hour + d["minutes"] * Minute

(* The summary that is shown of the seconds.                               *)
formatDurationLabel(total) ==
  [p \in Parts |-> CASE p = "months" -> total \div Month
                     [] p = "days" -> (total % Month) \div Day
                     [] p = "hours" -> (total % Day) \div Hour
                     [] OTHER -> (total % Hour) \div Minute]

DurationAccepted(total) == MinAuctionDuration <= total /\ total <= MaxAuctionDuration
FormDuration == buildDurationSeconds(form.duration)

(* Mutant: the deposit is not looked at.                                   *)
DepositUnchecked(step) ==
  CASE step = 1 -> form.nftContract
    [] step = 2 -> DurationAccepted(FormDuration)
    [] OTHER -> TRUE

StepValid(step) ==
  CASE step = 1 -> form.nftContract
    [] step = 2 -> DurationAccepted(FormDuration)
    [] step = 3 -> form.sellerDeposit = "positive"
    [] OTHER -> TRUE

-----------------------------------------------------------------------------
EnterContract(valid) == form.step = 1 /\ form' = [form EXCEPT !.nftContract = valid]
handleDurationChange(part, n) == form.step = 2 /\ form' = [form EXCEPT !.duration[part] = n]
EnterDeposit(d) == form.step = 3 /\ form' = [form EXCEPT !.sellerDeposit = d]

handleAdvance == form.step < 4 /\ StepValid(form.step) /\ form' = [form EXCEPT !.step = @ + 1]
handleBack == form.step > 1 /\ form' = [form EXCEPT !.step = @ - 1]

Edit ==
  \/ \E valid \in BOOLEAN : EnterContract(valid)
  \/ \E part \in Parts, n \in Entries : handleDurationChange(part, n)
  \/ \E d \in Deposits : EnterDeposit(d)

FormReady == \A step \in 1..3 : StepValid(step)      \* what handleSubmit asks once more

FormNext == Edit \/ handleAdvance \/ handleBack \/ FormReset
FormSpec == FormInit /\ [][FormNext]_form

-----------------------------------------------------------------------------
(* However its visitor goes back and forth and edits, the form is complete *)
(* when it asks him to confirm: the market takes duration and deposit, so  *)
(* that the second check of handleSubmit refuses nothing, and what it      *)
(* shows of the duration is what it sends.                                 *)
ReviewComplete ==
  form.step = 4 =>
    /\ form.nftContract /\ form.sellerDeposit = "positive"
    /\ FormDuration \in MinAuctionDuration..MaxAuctionDuration
    /\ buildDurationSeconds(formatDurationLabel(FormDuration)) = FormDuration
=============================================================================
