----------------------------- MODULE PageProofs -----------------------------
(***************************************************************************)
(* What the pages of a lot may show, for every number of accounts, of      *)
(* actions under way, of changes in the wallet and of moves of the lot,    *)
(* and for every kind of visit.                                            *)
(*                                                                         *)
(* A report speaks of the market long after the request it belongs to.     *)
(* Two things make it true: what it claims was read together with it or    *)
(* follows from the transaction of the action (ActionsSound), and          *)
(* what is so of a lot stays so (Stays).                                   *)
(***************************************************************************)
EXTENDS AuctionPage, TLAPS

-----------------------------------------------------------------------------
(* The form.                                                               *)

(* Every step that was passed is valid.                                    *)
PassedValid ==
  \A s \in 1..3 : s < form.step => StepValid(s)
FormInv == FormTypeOK /\ PassedValid

(* Division with remainder by the units of a duration.  (Of the provers    *)
(* only SMT reads large numbers.)                                          *)
LEMMA WholeMinutes == \A n \in Nat : n \div 60 \in Nat /\ n % 60 \in Nat /\ n % 60 < 60
BY SMT
LEMMA WholeHours == \A n \in Nat : n \div 3600 \in Nat /\ n % 3600 \in Nat /\ n % 3600 < 3600
BY SMT
LEMMA WholeDays == \A n \in Nat : n \div 86400 \in Nat /\ n % 86400 \in Nat /\ n % 86400 < 86400
BY SMT
LEMMA WholeMonths == \A n \in Nat : n \div 2592000 \in Nat /\ n % 2592000 \in Nat /\ n % 2592000 < 2592000
BY SMT

LEMMA Divided ==
  \A n \in Nat, q \in Nat, r \in Nat :
    /\ q = n \div 60 /\ r = n % 60 => n = 60 * q + r
    /\ q = n \div 3600 /\ r = n % 3600 => n = 3600 * q + r
    /\ q = n \div 86400 /\ r = n % 86400 => n = 86400 * q + r
    /\ q = n \div 2592000 /\ r = n % 2592000 => n = 2592000 * q + r
BY SMT

LEMMA Remainder ==
  \A n \in Nat, q \in Nat, r \in Nat :
    /\ n = 60 * q + r /\ r < 60 => r = n % 60
    /\ n = 3600 * q + r /\ r < 3600 => r = n % 3600
    /\ n = 86400 * q + r /\ r < 86400 => r = n % 86400
BY SMT

LEMMA Regrouped ==
  \A t \in Nat, d \in Nat, h \in Nat, m \in Nat, q \in Nat, e \in Nat, f \in Nat, k \in Nat, z \in Nat :
    t = 2592000 * q + d /\ d = 86400 * e + h =>
      /\ t = 86400 * (30 * q + e) + h
      /\ h = 3600 * f + m =>
           /\ t = 3600 * (720 * q + 24 * e + f) + m
           /\ m = 60 * k + z => t = 60 * (43200 * q + 1440 * e + 60 * f + k) + z
BY SMT

(* The summary of a duration of whole minutes says that duration.          *)
LEMMA LabelExact ==
  ASSUME NEW t \in Nat, t % Minute = 0
  PROVE  buildDurationSeconds(formatDurationLabel(t)) = t
<1>1. Minute = 60 /\ Hour = 3600 /\ Day = 86400 /\ Month = 2592000
  BY SMT DEF Minute, Hour, Day, Month
<1>2. PICK q \in Nat, d \in Nat : q = t \div 2592000 /\ d = t % 2592000
  <2>1. t \div 2592000 \in Nat /\ t % 2592000 \in Nat
    BY SMT, WholeMonths
  <2> QED BY SMT, <2>1
<1>3. PICK e \in Nat, h \in Nat : e = d \div 86400 /\ h = d % 86400 /\ h < 86400
  <2>1. d \div 86400 \in Nat /\ d % 86400 \in Nat /\ d % 86400 < 86400
    BY SMT, WholeDays
  <2> QED BY SMT, <2>1
<1>4. PICK f \in Nat, m \in Nat : f = h \div 3600 /\ m = h % 3600 /\ m < 3600
  <2>1. h \div 3600 \in Nat /\ h % 3600 \in Nat /\ h % 3600 < 3600
    BY SMT, WholeHours
  <2> QED BY SMT, <2>1
<1>5. PICK k \in Nat, z \in Nat : k = m \div 60 /\ z = m % 60 /\ z < 60
  <2>1. m \div 60 \in Nat /\ m % 60 \in Nat /\ m % 60 < 60
    BY SMT, WholeMinutes
  <2> QED BY SMT, <2>1
<1>6. t = 2592000 * q + d
  BY SMT, <1>2, Divided
<1>7. d = 86400 * e + h
  BY SMT, <1>3, Divided
<1>8. h = 3600 * f + m
  BY SMT, <1>4, Divided
<1>9. m = 60 * k + z
  BY SMT, <1>5, Divided
<1>10. h = t % 86400
  <2> DEFINE w == 30 * q + e
  <2>1. w \in Nat /\ t = 86400 * w + h
    BY SMT, <1>6, <1>7, Regrouped
  <2> HIDE DEF w
  <2> QED BY SMT, <1>3, <2>1, Remainder
<1>11. m = t % 3600
  <2> DEFINE w == 720 * q + 24 * e + f
  <2>1. w \in Nat /\ t = 3600 * w + m
    BY SMT, <1>6, <1>7, <1>8, Regrouped
  <2> HIDE DEF w
  <2> QED BY SMT, <1>4, <2>1, Remainder
<1>12. z = t % 60
  <2> DEFINE w == 43200 * q + 1440 * e + 60 * f + k
  <2>1. w \in Nat /\ t = 60 * w + z
    BY SMT, <1>6, <1>7, <1>8, <1>9, Regrouped
  <2> HIDE DEF w
  <2> QED BY SMT, <1>5, <2>1, Remainder
<1>13. buildDurationSeconds(formatDurationLabel(t)) = q * 2592000 + e * 86400 + f * 3600 + k * 60
  BY SMT, <1>1, <1>2, <1>3, <1>4, <1>5, <1>10, <1>11
     DEF buildDurationSeconds, formatDurationLabel, Parts
<1> QED BY SMT, <1>1, <1>6, <1>7, <1>8, <1>9, <1>12, <1>13

(* A duration that is composed in the form has whole minutes.              *)
LEMMA DurationWhole ==
  ASSUME NEW d \in [Parts -> Nat]
  PROVE  /\ buildDurationSeconds(d) \in Nat
         /\ buildDurationSeconds(d) % Minute = 0
<1>1. /\ d["months"] \in Nat /\ d["days"] \in Nat /\ d["hours"] \in Nat /\ d["minutes"] \in Nat
  BY DEF Parts
<1> DEFINE k == d["months"] * 43200 + d["days"] * 1440 + d["hours"] * 60 + d["minutes"]
<1>2. k \in Nat /\ buildDurationSeconds(d) = 60 * k
  <2>1. Minute = 60 /\ Hour = 3600 /\ Day = 86400 /\ Month = 2592000
    BY SMT DEF Minute, Hour, Day, Month
  <2> QED BY SMT, <1>1, <2>1 DEF buildDurationSeconds
<1>3. \A n \in Nat : 60 * n \in Nat /\ (60 * n) % 60 = 0
  OBVIOUS
<1> QED BY <1>2, <1>3 DEF Minute

LEMMA FormStarts == FormInit => FormInv
<1> SUFFICES ASSUME FormInit PROVE FormInv
  OBVIOUS
<1>1. form.step = 1
  BY DEF FormInit, NewForm
<1>2. FormTypeOK
  BY DEF FormInit, NewForm, FormTypeOK, Deposits, Parts
<1> QED BY <1>1, <1>2 DEF FormInv, PassedValid

LEMMA FormKept == FormInv /\ [FormNext]_form => FormInv'
<1> SUFFICES ASSUME FormInv, [FormNext]_form PROVE FormInv'
  OBVIOUS
<1> USE EntriesAssumption DEF FormInv, FormTypeOK
<1>1. ASSUME NEW valid \in BOOLEAN, EnterContract(valid) PROVE FormInv'
  <2>1. FormTypeOK' /\ form'.step = 1
    BY <1>1 DEF EnterContract
  <2> QED BY <2>1 DEF PassedValid
<1>2. ASSUME NEW part \in Parts, NEW n \in Entries, handleDurationChange(part, n) PROVE FormInv'
  <2>1. FormTypeOK' /\ form'.step = 2 /\ form.step = 2 /\ form'.nftContract = form.nftContract
    BY <1>2 DEF handleDurationChange
  <2> QED BY <2>1 DEF PassedValid, StepValid
<1>3. ASSUME NEW d \in Deposits, EnterDeposit(d) PROVE FormInv'
  <2>1. /\ FormTypeOK' /\ form'.step = 3 /\ form.step = 3
        /\ form'.nftContract = form.nftContract /\ form'.duration = form.duration
    BY <1>3 DEF EnterDeposit
  <2> QED BY <2>1 DEF PassedValid, StepValid, FormDuration
<1>4. ASSUME handleAdvance PROVE FormInv'
  <2>1. /\ FormTypeOK' /\ form'.step = form.step + 1 /\ form.step \in 1..3
        /\ form'.nftContract = form.nftContract /\ form'.duration = form.duration
        /\ form'.sellerDeposit = form.sellerDeposit
    BY <1>4 DEF handleAdvance
  <2>2. \A s \in 1..3 : StepValid(s)' <=> StepValid(s)
    BY <2>1 DEF StepValid, FormDuration
  <2>3. \A s \in 1..3 : s < form'.step => s < form.step \/ s = form.step
    BY <2>1
  <2>4. StepValid(form.step)
    BY <1>4 DEF handleAdvance
  <2> QED BY <2>1, <2>2, <2>3, <2>4 DEF PassedValid
<1>5. ASSUME handleBack PROVE FormInv'
  <2>1. /\ FormTypeOK' /\ form'.step = form.step - 1
        /\ form'.nftContract = form.nftContract /\ form'.duration = form.duration
        /\ form'.sellerDeposit = form.sellerDeposit
    BY <1>5 DEF handleBack
  <2>2. \A s \in 1..3 : StepValid(s)' <=> StepValid(s)
    BY <2>1 DEF StepValid, FormDuration
  <2> QED BY <2>1, <2>2 DEF PassedValid
<1>6. ASSUME FormReset PROVE FormInv'
  <2>1. FormTypeOK' /\ form'.step = 1
    BY <1>6 DEF FormReset, NewForm, Deposits, Parts
  <2> QED BY <2>1 DEF PassedValid
<1>7. CASE UNCHANGED form
  <2>1. \A s \in 1..3 : StepValid(s)' <=> StepValid(s)
    BY <1>7 DEF StepValid, FormDuration
  <2> QED BY <1>7, <2>1 DEF PassedValid
<1> QED BY <1>1, <1>2, <1>3, <1>4, <1>5, <1>6, <1>7 DEF FormNext, Edit

LEMMA FormComplete == FormInv => ReviewComplete
<1> SUFFICES ASSUME FormInv, form.step = 4 PROVE ReviewComplete
  BY DEF ReviewComplete
<1>1. StepValid(1) /\ StepValid(2) /\ StepValid(3)
  BY DEF FormInv, PassedValid
<1>2. form.nftContract /\ form.sellerDeposit = "positive" /\ DurationAccepted(FormDuration)
  BY <1>1 DEF StepValid
<1>3. form.duration \in [Parts -> Nat]
  BY DEF FormInv, FormTypeOK
<1>4. FormDuration \in Nat /\ FormDuration % Minute = 0
  BY <1>3, DurationWhole DEF FormDuration
<1>5. FormDuration \in MinAuctionDuration..MaxAuctionDuration
  <2>1. MinAuctionDuration \in Int /\ MaxAuctionDuration \in Int
    BY SMT DEF MinAuctionDuration, MaxAuctionDuration, Minute, Hour, Day
  <2> QED BY <1>2, <1>4, <2>1 DEF DurationAccepted
<1>6. buildDurationSeconds(formatDurationLabel(FormDuration)) = FormDuration
  BY <1>4, LabelExact
<1> QED BY <1>2, <1>5, <1>6 DEF ReviewComplete
-----------------------------------------------------------------------------
(* The lot.                                                                *)

(* What a page reports of a lot cannot be taken back.                      *)
Stays ==
  /\ assetClaimed => assetClaimed'
  /\ State = "CANCELLED" => State' = "CANCELLED"
  /\ Exists => Exists'

Call(who, amount) ==
  \/ Approve(who) \/ CreateAuction(who, amount) \/ LockEscrow(who, amount)
  \/ PlaceBid(who, amount) \/ TriggerFinalize \/ ClaimAsset(who) \/ CancelAuction(who)
  \/ ClaimSellerProceeds(who)

LEMMA LotMoves ==
  ASSUME LotTypeOK, NEW from \in Phase, NEW to \in Phase, Move(Lot, from, to),
         from # "CANCELLED", to # "CREATED"
  PROVE  /\ PhasesTypeOK'
         /\ State = from /\ State' = to
         /\ State = "CANCELLED" => State' = "CANCELLED"
         /\ Exists'
<1>1. phase \in [{Lot} -> Phase] /\ AuctionIds = {Lot}
  BY LotAssumption DEF LotTypeOK, PhasesTypeOK
<1>2. phase' = [phase EXCEPT ![Lot] = to] /\ phase[Lot] = from /\ ended' = ended
  BY DEF Move
<1>3. phase'[Lot] = to /\ phase' \in [{Lot} -> Phase]
  BY <1>1, <1>2
<1> QED BY <1>1, <1>2, <1>3 DEF LotTypeOK, PhasesTypeOK, State, Exists

LEMMA PhaseStep ==
  ASSUME LotTypeOK, Create(Lot) \/ Cancel(Lot) \/ Finalize(Lot) \/ Settle(Lot) \/ VoidAuction(Lot)
  PROVE  PhasesTypeOK' /\ Exists' /\ (State = "CANCELLED" => State' = "CANCELLED")
<1>1. CASE Create(Lot)
  BY <1>1, LotMoves DEF Create, Phase
<1>2. CASE Cancel(Lot)
  BY <1>2, LotMoves DEF Cancel, Phase
<1>3. CASE Finalize(Lot)
  BY <1>3, LotMoves DEF Finalize, Phase
<1>4. CASE Settle(Lot)
  BY <1>4, LotMoves DEF Settle, Phase
<1>5. CASE VoidAuction(Lot)
  BY <1>5, LotMoves DEF VoidAuction, Phase
<1> QED BY <1>1, <1>2, <1>3, <1>4, <1>5

LEMMA CallKept ==
  ASSUME LotTypeOK, NEW who \in Accounts, NEW amount \in Nat, Call(who, amount)
  PROVE  LotTypeOK' /\ Stays
<1> USE DEF claimVars, stakeVars, phaseView
<1>1. CASE Approve(who)
  BY <1>1 DEF Approve, LotTypeOK, PhasesTypeOK, Stays, State, Exists
<1>2. CASE CreateAuction(who, amount)
  <2>1. PhasesTypeOK' /\ Exists' /\ (State = "CANCELLED" => State' = "CANCELLED")
    BY <1>2, PhaseStep DEF CreateAuction
  <2>2. /\ approved' = FALSE /\ winner' = winner /\ assetClaimed' = assetClaimed
        /\ sellerClaimed' = sellerClaimed /\ escrow' = escrow /\ bid' = bid
    BY <1>2 DEF CreateAuction
  <2> QED BY <2>1, <2>2 DEF LotTypeOK, Stays
<1>3. CASE LockEscrow(who, amount)
  <2>1. escrow' = [escrow EXCEPT ![who] = escrow[who] + amount]
    BY <1>3 DEF LockEscrow
  <2>2. escrow \in [Accounts -> Nat]
    BY DEF LotTypeOK
  <2>3. escrow[who] + amount \in Nat
    BY <2>2
  <2>4. escrow' \in [Accounts -> Nat]
    BY <2>1, <2>2, <2>3
  <2> QED BY <1>3, <2>4 DEF LockEscrow, LotTypeOK, PhasesTypeOK, Stays, State, Exists
<1>4. CASE PlaceBid(who, amount)
  <2>1. bid' \in [Accounts -> Nat]
    BY <1>4 DEF PlaceBid, LotTypeOK
  <2> QED BY <1>4, <2>1 DEF PlaceBid, LotTypeOK, PhasesTypeOK, Stays, State, Exists
<1>5. CASE TriggerFinalize
  <2>1. PhasesTypeOK' /\ Exists' /\ (State = "CANCELLED" => State' = "CANCELLED")
    BY <1>5, PhaseStep DEF TriggerFinalize
  <2> QED BY <1>5, <2>1 DEF TriggerFinalize, LotTypeOK, Stays
<1>6. CASE ClaimAsset(who)
  BY <1>6 DEF ClaimAsset, LotTypeOK, PhasesTypeOK, Stays, State, Exists
<1>7. CASE CancelAuction(who)
  <2>1. PhasesTypeOK' /\ Exists' /\ (State = "CANCELLED" => State' = "CANCELLED")
    BY <1>7, PhaseStep DEF CancelAuction
  <2> QED BY <1>7, <2>1 DEF CancelAuction, LotTypeOK, Stays
<1>8. CASE ClaimSellerProceeds(who)
  BY <1>8 DEF ClaimSellerProceeds, LotTypeOK, PhasesTypeOK, Stays, State, Exists
<1> QED BY <1>1, <1>2, <1>3, <1>4, <1>5, <1>6, <1>7, <1>8 DEF Call

LEMMA ElsewhereKept ==
  ASSUME LotTypeOK, Elsewhere
  PROVE  LotTypeOK' /\ Stays
<1> USE DEF claimVars, stakeVars, phaseView
<1>1. CASE EndReached
  <2>1. phase' = phase /\ ended' \subseteq AuctionIds
    BY <1>1 DEF EndReached, TimePasses, LotTypeOK, PhasesTypeOK
  <2> QED BY <1>1, <2>1 DEF EndReached, LotTypeOK, PhasesTypeOK, Stays, State, Exists
<1>2. CASE TriggerFinalize
  BY <1>2, CallKept, LotAssumption DEF Call
<1>3. CASE FallbackVoid
  <2>1. PhasesTypeOK' /\ Exists' /\ (State = "CANCELLED" => State' = "CANCELLED")
    BY <1>3, PhaseStep DEF FallbackVoid
  <2> QED BY <1>3, <2>1 DEF FallbackVoid, LotTypeOK, Stays
<1>4. CASE ShieldedClaim
  BY <1>4 DEF ShieldedClaim, LotTypeOK, PhasesTypeOK, Stays, State, Exists
<1>5. ASSUME NEW w \in MaybeAccount \cup {Shielded}, Resolve(w) PROVE LotTypeOK' /\ Stays
  <2>1. PhasesTypeOK' /\ Exists' /\ (State = "CANCELLED" => State' = "CANCELLED")
    BY <1>5, PhaseStep DEF Resolve
  <2> QED BY <1>5, <2>1 DEF Resolve, LotTypeOK, Stays
<1>6. ASSUME NEW x \in Accounts, ClaimAsset(x) PROVE LotTypeOK' /\ Stays
  BY <1>6, CallKept DEF Call
<1> QED BY <1>1, <1>2, <1>3, <1>4, <1>5, <1>6 DEF Elsewhere

LEMMA LotAlone == LotTypeOK /\ UNCHANGED lotView => LotTypeOK' /\ Stays
BY DEF lotView, phaseView, LotTypeOK, PhasesTypeOK, Stays, State, Exists

-----------------------------------------------------------------------------
(* The session.                                                            *)

(* A snapshot has asked for the network, too.                              *)
SyncSound == sync = NoSync \/ sync.chain # "none"
SessionInv == SessionTypeOK /\ SyncSound

LEMMA SessionKept == SessionInv /\ SessionNext => SessionInv'
<1> SUFFICES ASSUME SessionInv, SessionNext PROVE SessionInv'
  OBVIOUS
<1> USE DEF SessionInv, SessionTypeOK, SyncSound, walletVars, sessionVars, NoSync, NoRequest,
            MaybeAccount, Chains, Pending
<1>1. CASE Mount
  BY <1>1 DEF Mount
<1>2. CASE SnapshotAccounts
  <2>1. sync # NoSync /\ sync.chain # "none"
    BY <1>2, PendingAssumption DEF SnapshotAccounts
  <2>2. sync' = [sync EXCEPT !.account = exposed]
    BY <1>2 DEF SnapshotAccounts
  <2>3. sync'.chain # "none"
    BY <2>1, <2>2
  <2> QED BY <1>2, <2>2, <2>3 DEF SnapshotAccounts
<1>3. CASE SnapshotChain
  BY <1>3 DEF SnapshotChain
<1>4. CASE SnapshotApplied
  BY <1>4 DEF SnapshotApplied
<1>5. CASE SnapshotFails
  BY <1>5 DEF SnapshotFails
<1>6. CASE Connected
  BY <1>6 DEF Connected
<1>7. CASE Switched
  BY <1>7 DEF Switched
<1>8. CASE RequestRefused
  BY <1>8 DEF RequestRefused
<1>9. CASE Connect
  BY <1>9 DEF Connect
<1>10. CASE SwitchToSepolia
  BY <1>10 DEF SwitchToSepolia
<1>11. CASE Disconnect
  BY <1>11 DEF Disconnect
<1>12. ASSUME NEW a \in Accounts, ConnectGranted(a) PROVE SessionInv'
  BY <1>12 DEF ConnectGranted, HandleAccountsChanged
<1>13. ASSUME NEW a \in MaybeAccount, AccountsChanged(a) PROVE SessionInv'
  BY <1>13 DEF AccountsChanged, HandleAccountsChanged
<1>14. ASSUME NEW c \in Chains, ChainChanged(c) PROVE SessionInv'
  BY <1>14 DEF ChainChanged
<1>15. CASE SwitchRead
  BY <1>15 DEF SwitchRead
<1> QED
  BY <1>1, <1>2, <1>3, <1>4, <1>5, <1>6, <1>7, <1>8, <1>9, <1>10, <1>11, <1>12, <1>13, <1>14, <1>15
     DEF SessionNext, SessionStep, SnapshotStep, WalletAnswers, WalletChanges

LEMMA SessionAlone == SessionInv /\ UNCHANGED walletSession => SessionInv'
BY DEF walletSession, walletVars, sessionVars, SessionInv, SessionTypeOK, SyncSound

-----------------------------------------------------------------------------
(* The actions.                                                            *)

(* An action belongs to an account; a verification comes after the         *)
(* transaction, and what a creation sends is an approval or the creation.  *)
Sound(a) ==
  /\ a.by \in Accounts \/ (a.step = "done" /\ a.tx = "none")
  /\ a.step = "encrypt" => a.kind # "create"
  /\ a.kind = "create" /\ a.step \in {"prompt", "wait", "verify"} => a.call \in {"approve", "create"}
  /\ a.step = "verify" => a.tx = "mined" /\ a.call # "approve"

(* The transaction of a creation, once it is mined, has created.           *)
Creates(a) == a.tx = "mined" /\ a.call = "create" /\ a.chain = "sepolia"

ActionsSound == \A n \in 1..ActionLimit : Sound(action[n]) /\ (Creates(action[n]) => Exists)
ActionInv == ActionTypeOK /\ ActionsSound

LEMMA SetKept ==
  ASSUME ActionInv, Exists => Exists', started' \in 0..ActionLimit,
         NEW n \in 1..ActionLimit, NEW a \in Action, Set(n, a), Sound(a), Creates(a) => Exists'
  PROVE  ActionInv'
<1>1. action' = [action EXCEPT ![n] = a]
  BY DEF Set
<1>2. action \in [1..ActionLimit -> Action]
  BY DEF ActionInv, ActionTypeOK
<1>3. action' \in [1..ActionLimit -> Action] /\ action'[n] = a
  BY <1>1, <1>2
<1>4. ASSUME NEW i \in 1..ActionLimit
      PROVE  Sound(action'[i]) /\ (Creates(action'[i]) => Exists')
  <2>1. CASE i = n
    BY <2>1, <1>3
  <2>2. CASE i # n
    <3>1. action'[i] = action[i]
      BY <2>2, <1>1, <1>2
    <3>2. Sound(action[i]) /\ (Creates(action[i]) => Exists)
      BY DEF ActionInv, ActionsSound
    <3> QED BY <3>1, <3>2
  <2> QED BY <2>1, <2>2
<1> QED BY <1>3, <1>4 DEF ActionInv, ActionTypeOK, ActionsSound, Sound, Creates
LEMMA ActionFacts ==
  ASSUME ActionInv, NEW n \in 1..ActionLimit
  PROVE  action[n] \in Action /\ Sound(action[n]) /\ (Creates(action[n]) => Exists)
BY DEF ActionInv, ActionTypeOK, ActionsSound

LEMMA PromptedSound ==
  ASSUME NEW a \in Action, walletChain \in Chains, a.by \in Accounts,
         NEW c \in Kinds \cup {"approve"}, a.kind = "create" => c \in {"approve", "create"}
  PROVE  Prompted(a, c) \in Action /\ Sound(Prompted(a, c)) /\ ~Creates(Prompted(a, c))
<1> DEFINE z == Prompted(a, c)
<1>1. /\ z \in Action /\ z.step = "prompt" /\ z.call = c /\ z.tx = "none"
      /\ z.by = a.by /\ z.kind = a.kind
  BY DEF Prompted, Action, Steps
<1> HIDE DEF z
<1>2. Sound(z) /\ ~Creates(z)
  BY <1>1 DEF Sound, Creates
<1> QED BY <1>1, <1>2 DEF z

(* The action that a handler starts.                                       *)
Startable(a) ==
  \/ \E by \in Accounts, d \in Nat : a = createAuctionWithWallet(by, d)
  \/ \E by \in Accounts, amount \in Nat :
       a = lockEscrowWithWallet(by, amount) \/ a = placeBidWithWallet(by, amount)
  \/ \E by \in Accounts :
       \/ a = triggerFinalizeWithWallet(by) \/ a = claimAssetWithWallet(by)
       \/ a = cancelAuctionWithWallet(by) \/ a = claimSellerProceedsWithWallet(by)

LEMMA NewSound ==
  ASSUME NEW kind \in Kinds, NEW by \in Accounts, NEW amount \in Nat
  PROVE  /\ New(kind, by, amount) \in Action
         /\ New(kind, by, amount).by = by /\ New(kind, by, amount).kind = kind
         /\ New(kind, by, amount).step = "done" /\ New(kind, by, amount).tx = "none"
BY DEF New, Unused, Action, Steps, MaybeAccount

LEMMA RequestedSound ==
  ASSUME walletChain \in Chains, NEW kind \in Kinds, NEW by \in Accounts, NEW amount \in Nat
  PROVE  /\ Requested(kind, by, amount) \in Action
         /\ Sound(Requested(kind, by, amount)) /\ ~Creates(Requested(kind, by, amount))
<1>1. /\ New(kind, by, amount) \in Action
      /\ New(kind, by, amount).by = by /\ New(kind, by, amount).kind = kind
  BY NewSound
<1> QED BY <1>1, PromptedSound DEF Requested

LEMMA StartSound ==
  ASSUME walletChain \in Chains, NEW a, Startable(a)
  PROVE  a \in Action /\ Sound(a) /\ ~Creates(a)
<1>1. ASSUME NEW by \in Accounts, NEW d \in Nat, a = createAuctionWithWallet(by, d)
      PROVE  a \in Action /\ Sound(a) /\ ~Creates(a)
  <2> DEFINE w == New("create", by, d)
  <2>1. w \in Action /\ w.by = by /\ w.kind = "create" /\ w.tx = "none"
    BY NewSound DEF Kinds
  <2>2. a = [w EXCEPT !.step = "check"]
    BY <1>1 DEF createAuctionWithWallet
  <2> HIDE DEF w
  <2>3. a \in Action /\ a.by = by /\ a.kind = "create" /\ a.tx = "none" /\ a.step = "check"
    BY <2>1, <2>2 DEF Action, Steps
  <2> QED BY <2>3 DEF Sound, Creates
<1>2. ASSUME NEW by \in Accounts, NEW amount \in Nat, a = lockEscrowWithWallet(by, amount)
      PROVE  a \in Action /\ Sound(a) /\ ~Creates(a)
  BY <1>2, RequestedSound DEF lockEscrowWithWallet, Kinds
<1>3. ASSUME NEW by \in Accounts, NEW amount \in Nat, a = placeBidWithWallet(by, amount)
      PROVE  a \in Action /\ Sound(a) /\ ~Creates(a)
  <2> DEFINE w == New("bid", by, amount)
  <2>1. w \in Action /\ w.by = by /\ w.kind = "bid" /\ w.tx = "none"
    BY NewSound DEF Kinds
  <2>2. PICK st \in {"encrypt", "done"} : a = [w EXCEPT !.step = st]
    BY <1>3 DEF placeBidWithWallet
  <2> HIDE DEF w
  <2>3. a \in Action /\ a.by = by /\ a.kind = "bid" /\ a.tx = "none" /\ a.step = st
    BY <2>1, <2>2 DEF Action, Steps
  <2> QED BY <2>3 DEF Sound, Creates
<1>4. ASSUME NEW by \in Accounts,
             \/ a = triggerFinalizeWithWallet(by) \/ a = claimAssetWithWallet(by)
             \/ a = cancelAuctionWithWallet(by) \/ a = claimSellerProceedsWithWallet(by)
      PROVE  a \in Action /\ Sound(a) /\ ~Creates(a)
  BY <1>4, RequestedSound
     DEF triggerFinalizeWithWallet, claimAssetWithWallet, cancelAuctionWithWallet,
         claimSellerProceedsWithWallet, Kinds
<1> QED BY <1>1, <1>2, <1>3, <1>4 DEF Startable

LEMMA StartsKept ==
  ASSUME ActionInv, SessionInv, UNCHANGED lotView, NEW a, Startable(a), Starts(a)
  PROVE  ActionInv'
<1>1. a \in Action /\ Sound(a) /\ ~Creates(a)
  BY StartSound DEF SessionInv, SessionTypeOK
<1>2. started + 1 \in 1..ActionLimit /\ started' \in 0..ActionLimit
  BY ActionAssumption DEF ActionInv, ActionTypeOK, Starts
<1>3. Exists => Exists'
  BY DEF lotView, phaseView, Exists
<1>4. Set(started + 1, a)
  BY DEF Starts
<1> QED BY <1>1, <1>2, <1>3, <1>4, SetKept
LEMMA FinishKept ==
  ASSUME ActionInv, Exists => Exists', UNCHANGED started, NEW n \in 1..ActionLimit, Finish(n)
  PROVE  ActionInv'
<1> DEFINE a == action[n]  z == [a EXCEPT !.step = "done", !.attended = TRUE]
<1>1. a \in Action /\ Sound(a) /\ (Creates(a) => Exists)
  BY ActionFacts
<1>2. Set(n, z)
  BY DEF Finish
<1> HIDE DEF a
<1>3. /\ z \in Action /\ z.step = "done" /\ z.by = a.by /\ z.tx = a.tx /\ z.call = a.call
      /\ z.chain = a.chain
  BY <1>1 DEF Action, Steps
<1> HIDE DEF z
<1>4. Sound(z) /\ (Creates(z) => Exists')
  BY <1>1, <1>3 DEF Sound, Creates
<1>5. started' \in 0..ActionLimit
  BY DEF ActionInv, ActionTypeOK
<1> QED BY <1>2, <1>3, <1>4, <1>5, SetKept

LEMMA ProceedsKept ==
  ASSUME ActionInv, SessionInv, UNCHANGED <<lotView, started>>, NEW n \in 1..ActionLimit,
         Check(n) \/ Encrypt(n) \/ Confirm(n) \/ ReceiptSeen(n) \/ GivesUp(n) \/ Dropped(n)
  PROVE  ActionInv'
<1> DEFINE a == action[n]
<1>1. a \in Action /\ Sound(a) /\ (Creates(a) => Exists)
  BY ActionFacts
<1>2. walletChain \in Chains /\ started' \in 0..ActionLimit
  BY DEF ActionInv, ActionTypeOK, SessionInv, SessionTypeOK
<1>3. Exists => Exists'
  BY DEF lotView, phaseView, Exists
<1>4. ASSUME NEW c \in Kinds \cup {"approve"}, a.step # "done",
             a.kind = "create" => c \in {"approve", "create"}, Set(n, Prompted(a, c))
      PROVE  ActionInv'
  <2> HIDE DEF a
  <2>1. a.by \in Accounts
    BY <1>1, <1>4 DEF Sound
  <2>2. Prompted(a, c) \in Action /\ Sound(Prompted(a, c)) /\ ~Creates(Prompted(a, c))
    BY <1>1, <1>2, <1>4, <2>1, PromptedSound
  <2> QED BY <1>2, <1>3, <1>4, <2>2, SetKept
<1>5. CASE Check(n)
  BY <1>4, <1>5 DEF Check, Kinds
<1>6. CASE Encrypt(n)
  BY <1>1, <1>4, <1>6 DEF Encrypt, Kinds, Sound
<1>7. CASE Confirm(n)
  <2> DEFINE z == [a EXCEPT !.tx = "pending", !.step = IF @ = "prompt" THEN "wait" ELSE "done"]
  <2>1. Set(n, z) /\ a.step \in {"prompt", "left"} /\ a.tx = "none"
    BY <1>7 DEF Confirm
  <2> HIDE DEF a
  <2>2. /\ z \in Action /\ z.tx = "pending" /\ z.by = a.by /\ z.kind = a.kind /\ z.call = a.call
        /\ z.step = IF a.step = "prompt" THEN "wait" ELSE "done"
    BY <1>1 DEF Action, Steps
  <2> HIDE DEF z
  <2>3. Sound(z) /\ ~Creates(z)
    BY <1>1, <2>1, <2>2 DEF Sound, Creates
  <2> QED BY <1>2, <1>3, <2>1, <2>2, <2>3, SetKept
<1>8. CASE ReceiptSeen(n)
  <2>1. CASE a.tx = "reverted"
    <3>1. Finish(n)
      BY <1>8, <2>1 DEF ReceiptSeen
    <3> QED BY <1>3, <3>1, FinishKept
  <2>2. CASE a.tx # "reverted" /\ a.call = "approve"
    BY <1>4, <1>8, <2>2 DEF ReceiptSeen, HasReceipt, Kinds
  <2>3. CASE a.tx # "reverted" /\ a.call # "approve"
    <3> DEFINE z == [a EXCEPT !.step = "verify"]
    <3>1. Set(n, z) /\ a.step = "wait" /\ a.tx = "mined"
      BY <1>8, <2>3 DEF ReceiptSeen, HasReceipt
    <3> HIDE DEF a
    <3>2. /\ z \in Action /\ z.tx = a.tx /\ z.by = a.by /\ z.kind = a.kind /\ z.call = a.call
          /\ z.chain = a.chain /\ z.step = "verify"
      BY <1>1 DEF Action, Steps
    <3> HIDE DEF z
    <3>3. Sound(z) /\ (Creates(z) => Exists')
      BY <1>1, <1>3, <2>3, <3>1, <3>2 DEF Sound, Creates
    <3> QED BY <1>2, <1>3, <3>1, <3>2, <3>3, SetKept
  <2> QED BY <2>1, <2>2, <2>3
<1>9. CASE GivesUp(n) \/ Dropped(n)
  BY <1>3, <1>9, FinishKept DEF GivesUp, Dropped
<1> QED BY <1>5, <1>6, <1>7, <1>8, <1>9

(* Whatever a transaction does on the lot's network is one of its calls.   *)
LEMMA ExecuteCalls ==
  ASSUME NEW n \in 1..ActionLimit, Execute(action[n])
  PROVE  /\ Call(action[n].by, action[n].amount)
         /\ action[n].call = "create" => CreateAuction(action[n].by, action[n].amount)
BY DEF Execute, Call

LEMMA MinedKept ==
  ASSUME ActionInv, LotTypeOK, UNCHANGED started, NEW n \in 1..ActionLimit,
         Mined(n) \/ Reverted(n)
  PROVE  ActionInv' /\ LotTypeOK' /\ Stays
<1> DEFINE a == action[n]
<1>1. a \in Action /\ Sound(a) /\ (Creates(a) => Exists)
  BY ActionFacts
<1>2. a.tx = "pending"
  BY DEF Mined, Reverted
<1>3. a.by \in Accounts /\ a.amount \in Nat
  BY <1>1, <1>2 DEF Sound, Action
<1>4. started' \in 0..ActionLimit
  BY DEF ActionInv, ActionTypeOK
<1>5. ASSUME NEW t \in {"mined", "reverted"}, Set(n, [a EXCEPT !.tx = t]), Stays,
             t = "mined" /\ a.chain = "sepolia" /\ a.call = "create" => Exists'
      PROVE  ActionInv'
  <2> DEFINE z == [a EXCEPT !.tx = t]
  <2> HIDE DEF a
  <2>1. /\ z \in Action /\ z.tx = t /\ z.by = a.by /\ z.kind = a.kind /\ z.call = a.call
        /\ z.chain = a.chain /\ z.step = a.step
    BY <1>1 DEF Action
  <2>2. Set(n, z)
    BY <1>5 DEF a
  <2> HIDE DEF z
  <2>3. Sound(z) /\ (Creates(z) => Exists')
    BY <1>1, <1>2, <1>3, <1>5, <2>1 DEF Sound, Creates
  <2> QED BY <1>4, <1>5, <2>1, <2>2, <2>3, SetKept DEF Stays
<1>6. CASE Mined(n) /\ a.chain = "sepolia"
  <2>1. Execute(a) /\ Set(n, [a EXCEPT !.tx = "mined"])
    BY <1>6 DEF Mined
  <2>2. LotTypeOK' /\ Stays
    BY <1>3, <2>1, ExecuteCalls, CallKept
  <2>3. a.call = "create" => Exists'
    <3>1. a.call = "create" => CreateAuction(a.by, a.amount)
      BY <2>1, ExecuteCalls
    <3>2. CreateAuction(a.by, a.amount) => Create(Lot)
      BY DEF CreateAuction
    <3>3. Create(Lot) => Exists'
      BY PhaseStep
    <3> QED BY <3>1, <3>2, <3>3
  <2> QED BY <1>5, <2>1, <2>2, <2>3
<1>7. CASE Mined(n) /\ a.chain # "sepolia"
  <2>1. UNCHANGED lotView /\ Set(n, [a EXCEPT !.tx = "mined"])
    BY <1>7 DEF Mined
  <2> QED BY <1>5, <1>7, <2>1, LotAlone
<1>8. CASE Reverted(n)
  <2>1. UNCHANGED lotView /\ Set(n, [a EXCEPT !.tx = "reverted"])
    BY <1>8 DEF Reverted
  <2> QED BY <1>5, <2>1, LotAlone
<1> QED BY <1>6, <1>7, <1>8

(* A page that goes leaves what was sent.                                  *)
LEMMA LeftKept ==
  ASSUME ActionInv, UNCHANGED <<lotView, started>>, action' = Abandoned \/ action' = Detached
  PROVE  ActionInv'
<1>1. ASSUME NEW n \in 1..ActionLimit
      PROVE  action'[n] \in Action /\ Sound(action'[n]) /\ (Creates(action'[n]) => Exists)
  <2> DEFINE a == action[n]
  <2>1. a \in Action /\ Sound(a) /\ (Creates(a) => Exists)
    BY ActionFacts
  <2>2. CASE action' = Abandoned
    <3>1. action'[n] = IF ~Waiting(n) THEN a
                       ELSE [a EXCEPT !.step = IF @ = "prompt" THEN "left" ELSE "done",
                                      !.attended = TRUE]
      BY <2>2 DEF Abandoned
    <3> HIDE DEF a
    <3>2. CASE action'[n] = a
      BY <2>1, <3>2
    <3>3. CASE action'[n] # a
      <4>1. PICK st \in {"left", "done"} : action'[n] = [a EXCEPT !.step = st, !.attended = TRUE]
        BY <3>1, <3>3
      <4>2. a.by \in Accounts
        BY <3>1, <3>3, <2>1 DEF Sound, Waiting, a
      <4>3. /\ action'[n] \in Action /\ action'[n].tx = a.tx /\ action'[n].by = a.by
            /\ action'[n].kind = a.kind /\ action'[n].call = a.call
            /\ action'[n].chain = a.chain /\ action'[n].step = st
        BY <2>1, <4>1 DEF Action, Steps
      <4> QED BY <2>1, <4>2, <4>3 DEF Sound, Creates
    <3> QED BY <3>2, <3>3
  <2>3. CASE action' = Detached
    <3>1. PICK k \in BOOLEAN : action'[n] = [a EXCEPT !.attended = k]
      <4>1. action'[n] = [a EXCEPT !.attended = @ /\ ~Waiting(n)]
        BY <2>3 DEF Detached
      <4> QED BY <4>1
    <3> HIDE DEF a
    <3>2. /\ action'[n] \in Action /\ action'[n].tx = a.tx /\ action'[n].by = a.by
          /\ action'[n].kind = a.kind /\ action'[n].call = a.call
          /\ action'[n].chain = a.chain /\ action'[n].step = a.step
      BY <2>1, <3>1 DEF Action
    <3> QED BY <2>1, <3>2 DEF Sound, Creates
  <2> QED BY <2>2, <2>3
<1>2. action' = [n \in 1..ActionLimit |-> action'[n]]
  BY DEF Abandoned, Detached
<1>3. Exists => Exists'
  BY DEF lotView, phaseView, Exists
<1> QED BY <1>1, <1>2, <1>3 DEF ActionInv, ActionTypeOK, ActionsSound, Sound, Creates
LEMMA ActionsAlone == ActionInv /\ Stays /\ UNCHANGED actionVars => ActionInv'
BY DEF actionVars, ActionInv, ActionTypeOK, ActionsSound, Sound, Creates, Stays

-----------------------------------------------------------------------------
(* The page.                                                               *)

PanelTypeOK ==
  /\ page \in Page \cup {"none"}
  /\ settlement \in [state : {"none", "resolving"}, assetClaimed : BOOLEAN, winner : MaybeAccount]
  /\ seller \in [state : {"none", "cancelled"}, claimed : BOOLEAN, payout : BOOLEAN]
  /\ shown \in [amount : Nat, asked : MaybeAccount]
  /\ created \in {"none", "withId", "withoutId"}
VisitTypeOK ==
  /\ visit \in Visits /\ changes \in 0..visit.changes /\ moves \in 0..visit.moves
  /\ edits \in 0..visit.edits
visitVars == <<visit, changes, moves, edits>>

PageInv ==
  /\ LotTypeOK /\ SessionInv /\ DataTypeOK /\ ActionInv /\ FormInv
  /\ PanelTypeOK /\ VisitTypeOK /\ ReportsTrue

LEMMA VisitFacts ==
  ASSUME VisitTypeOK
  PROVE  /\ visit.pages \subseteq Page /\ visit.kinds \subseteq Kinds
         /\ visit.changes \in Nat /\ visit.moves \in Nat /\ visit.edits \in Nat
<1>1. visit \in Visit
  BY PageAssumption DEF VisitTypeOK
<1> QED BY <1>1 DEF Visit

(* What is left alone.                                                     *)
LEMMA DataAlone == DataTypeOK /\ UNCHANGED <<reading, record>> => DataTypeOK'
BY DEF DataTypeOK
LEMMA FormAlone == FormInv /\ UNCHANGED form => FormInv'
BY FormKept
LEMMA VisitAlone == VisitTypeOK /\ UNCHANGED visitVars => VisitTypeOK'
BY DEF VisitTypeOK, visitVars
LEMMA PanelAlone == PanelTypeOK /\ UNCHANGED <<page, panelVars>> => PanelTypeOK'
BY DEF PanelTypeOK, panelVars
LEMMA ReportsAlone == ReportsTrue /\ Stays /\ UNCHANGED <<settlement, seller, created>> => ReportsTrue'
BY DEF ReportsTrue, Stays

(* A submission changes `action` and what the form reports.                *)
LEMMA SubmitKept ==
  ASSUME PageInv, NEW a, Submit(a), Startable(a), created' \in {"none", created}
  PROVE  PageInv'
<1> USE DEF PageInv
<1>1. LotTypeOK' /\ Stays
  BY LotAlone DEF Submit
<1>2. SessionInv'
  BY SessionAlone DEF Submit
<1>3. DataTypeOK'
  BY DataAlone DEF Submit
<1>4. ActionInv'
  BY StartsKept DEF Submit
<1>5. FormInv' /\ VisitTypeOK'
  BY FormAlone, VisitAlone DEF Submit, formVars, visitVars
<1>6. PanelTypeOK'
  BY DEF Submit, PanelTypeOK
<1>7. ReportsTrue'
  BY <1>1 DEF Submit, ReportsTrue, Stays
<1> QED BY <1>1, <1>2, <1>3, <1>4, <1>5, <1>6, <1>7

LEMMA HandlersKept ==
  ASSUME PageInv, Handlers
  PROVE  PageInv'
<1>1. WalletReady => account \in Accounts
  BY DEF WalletReady, IsConnected, PageInv, SessionInv, SessionTypeOK, MaybeAccount
<1>2. ASSUME NEW a, Submit(a) PROVE account \in Accounts
  BY <1>1, <1>2 DEF Submit
<1>3. CASE handleSubmit
  <2>1. FormDuration \in Nat
    BY DurationWhole DEF FormDuration, PageInv, FormInv, FormTypeOK
  <2>2. Submit(createAuctionWithWallet(account, FormDuration)) /\ created' = "none"
    BY <1>3 DEF handleSubmit
  <2>3. Startable(createAuctionWithWallet(account, FormDuration))
    BY <1>2, <2>1, <2>2 DEF Startable
  <2> QED BY <2>2, <2>3, SubmitKept
<1>4. CASE handleEscrowSubmit
  <2>1. PICK amount \in Amounts : Submit(lockEscrowWithWallet(account, amount))
    BY <1>4 DEF handleEscrowSubmit
  <2>2. amount \in Nat /\ created' = created
    BY <1>4, PageAssumption DEF handleEscrowSubmit
  <2>3. Startable(lockEscrowWithWallet(account, amount))
    BY <1>2, <2>1, <2>2 DEF Startable
  <2> QED BY <2>1, <2>2, <2>3, SubmitKept
<1>5. CASE handleBidSubmit
  <2>1. PICK amount \in Amounts : Submit(placeBidWithWallet(account, amount))
    BY <1>5 DEF handleBidSubmit
  <2>2. amount \in Nat /\ created' = created
    BY <1>5, PageAssumption DEF handleBidSubmit
  <2>3. Startable(placeBidWithWallet(account, amount))
    BY <1>2, <2>1, <2>2 DEF Startable
  <2> QED BY <2>1, <2>2, <2>3, SubmitKept
<1>6. CASE handleTriggerFinalize
  <2>1. Submit(triggerFinalizeWithWallet(account)) /\ created' = created
    BY <1>6 DEF handleTriggerFinalize
  <2>2. Startable(triggerFinalizeWithWallet(account))
    BY <1>2, <2>1 DEF Startable
  <2> QED BY <2>1, <2>2, SubmitKept
<1>7. CASE handleClaimAsset
  <2>1. Submit(claimAssetWithWallet(account)) /\ created' = created
    BY <1>7 DEF handleClaimAsset
  <2>2. Startable(claimAssetWithWallet(account))
    BY <1>2, <2>1 DEF Startable
  <2> QED BY <2>1, <2>2, SubmitKept
<1>8. CASE handleCancel
  <2>1. Submit(cancelAuctionWithWallet(account)) /\ created' = created
    BY <1>8 DEF handleCancel
  <2>2. Startable(cancelAuctionWithWallet(account))
    BY <1>2, <2>1 DEF Startable
  <2> QED BY <2>1, <2>2, SubmitKept
<1>9. CASE handleClaimSellerPayout
  <2>1. Submit(claimSellerProceedsWithWallet(account)) /\ created' = created
    BY <1>9 DEF handleClaimSellerPayout
  <2>2. Startable(claimSellerProceedsWithWallet(account))
    BY <1>2, <2>1 DEF Startable
  <2> QED BY <2>1, <2>2, SubmitKept
<1> QED BY <1>3, <1>4, <1>5, <1>6, <1>7, <1>8, <1>9 DEF Handlers

LEMMA FormStepKept ==
  ASSUME PageInv, FormStep
  PROVE  PageInv'
<1> USE DEF PageInv
<1>1. LotTypeOK' /\ Stays
  BY LotAlone DEF FormStep
<1>2. SessionInv' /\ DataTypeOK'
  BY SessionAlone, DataAlone DEF FormStep
<1>3. ActionInv'
  BY <1>1, ActionsAlone DEF FormStep
<1>4. FormInv'
  BY FormKept DEF FormStep, formVars, FormNext
<1>5. created' \in {"none", created}
  BY DEF FormStep
<1>6. VisitTypeOK'
  <2>1. edits' = edits \/ (edits < visit.edits /\ edits' = edits + 1)
    BY DEF FormStep, formVars
  <2>2. visit' = visit /\ changes' = changes /\ moves' = moves
    BY DEF FormStep
  <2> QED BY <2>1, <2>2, VisitFacts DEF VisitTypeOK
<1>7. PanelTypeOK'
  BY <1>5 DEF FormStep, PanelTypeOK
<1>8. ReportsTrue'
  BY <1>1, <1>5 DEF FormStep, ReportsTrue, Stays
<1> QED BY <1>1, <1>2, <1>3, <1>4, <1>6, <1>7, <1>8
LEMMA AskTyped ==
  ASSUME NEW p \in Page, NEW fresh \in BOOLEAN, Ask(p, fresh)
  PROVE  reading' \in [page : Page, fresh : BOOLEAN, core : States \cup {"none"}]
BY DEF Ask

LEMMA AskKept ==
  ASSUME DataTypeOK, UNCHANGED record, NEW p \in Page, NEW fresh \in BOOLEAN,
         Ask(p, fresh) \/ UNCHANGED reading
  PROVE  DataTypeOK'
<1>1. CASE UNCHANGED reading
  BY <1>1, DataAlone
<1>2. CASE Ask(p, fresh)
  <2>1. reading' \in [page : Page, fresh : BOOLEAN, core : States \cup {"none"}]
    BY <1>2, AskTyped
  <2> QED BY <2>1 DEF DataTypeOK
<1> QED BY <1>1, <1>2

LEMMA RefreshKept ==
  ASSUME DataTypeOK, UNCHANGED record, Refresh \/ UNCHANGED reading
  PROVE  DataTypeOK'
<1>1. UNCHANGED reading \/ \E p \in {"portfolio", "auction"} : Ask(p, FALSE)
  BY DEF Refresh
<1> QED BY <1>1, AskKept DEF Page

(* A report is made when what it says was just read, or follows.           *)
LEMMA SucceedsKept ==
  ASSUME PageInv, NEW n \in 1..started, Succeeds(n)
  PROVE  PageInv'
<1> USE DEF PageInv
<1> DEFINE a == action[n]
<1>1. n \in 1..ActionLimit
  BY ActionAssumption DEF ActionInv, ActionTypeOK
<1>2. a \in Action /\ Sound(a) /\ (Creates(a) => Exists)
  BY <1>1, ActionFacts
<1>3. LotTypeOK' /\ Stays
  BY LotAlone DEF Succeeds
<1>4. SessionInv'
  BY SessionAlone DEF Succeeds
<1>5. ActionInv'
  BY <1>1, <1>3, FinishKept DEF Succeeds, Stays
<1>6. FormInv' /\ VisitTypeOK'
  BY FormAlone, VisitAlone DEF Succeeds, formVars, visitVars
<1>7. DataTypeOK'
  BY RefreshKept DEF Succeeds, Report, ReportAttended, ReportUnattended
<1>8. Verified(n) /\ a.step = "verify" /\ a.by \in Accounts
  BY <1>2 DEF Succeeds, Verified, Sound
<1>9. CASE ~a.attended
  <2>1. UNCHANGED <<page, panelVars>>
    BY <1>9 DEF Succeeds, Report, ReportUnattended
  <2> QED
    BY <1>3, <1>4, <1>5, <1>6, <1>7, <2>1, PanelAlone, ReportsAlone DEF panelVars
<1>10. CASE a.attended
  <2>1. ReportAttended(n) /\ page' = page
    BY <1>10 DEF Succeeds, Report
  <2>2. PublicWinner \in MaybeAccount /\ escrow[a.by] \in Nat /\ assetClaimed \in BOOLEAN
    BY <1>8 DEF LotTypeOK, PublicWinner, MaybeAccount
  <2>3. \/ settlement' = settlement
        \/ settlement' = [settlement EXCEPT !.state = "resolving", !.winner = PublicWinner]
        \/ settlement' = [settlement EXCEPT !.assetClaimed = assetClaimed, !.winner = PublicWinner]
    BY <2>1 DEF ReportAttended
  <2>4. \/ seller' = seller
        \/ seller' = [seller EXCEPT !.claimed = TRUE, !.payout = FALSE]
        \/ /\ a.kind = "cancel"
           /\ \E paid \in BOOLEAN : seller' = [state |-> "cancelled", claimed |-> FALSE, payout |-> paid]
    <3>1. CASE a.kind # "cancel"
      BY <2>1, <3>1 DEF ReportAttended
    <3>2. CASE a.kind = "cancel"
      <4>1. PICK read \in BOOLEAN :
              seller' = [state |-> "cancelled", claimed |-> FALSE, payout |-> read /\ SellerPayout]
        BY <2>1, <3>2 DEF ReportAttended
      <4>2. (read /\ SellerPayout) \in BOOLEAN
        OBVIOUS
      <4> QED BY <3>2, <4>1, <4>2
    <3> QED BY <3>1, <3>2
  <2>5. shown' = shown \/ shown' = [shown EXCEPT !.amount = escrow[a.by]]
    BY <2>1 DEF ReportAttended
  <2>6. \/ created' = created \/ created' = "withoutId"
        \/ a.kind = "create" /\ a.chain = "sepolia" /\ created' = "withId"
    BY <2>1 DEF ReportAttended
  <2>7. a.kind = "cancel" => State = "CANCELLED"
    BY <1>8 DEF Verified, Cancelled
  <2>8. a.kind = "create" /\ a.chain = "sepolia" => Exists
    BY <1>2, <1>8 DEF Sound, Creates
  <2> HIDE DEF a
  <2>9. PanelTypeOK'
    <3>1. settlement' \in [state : {"none", "resolving"}, assetClaimed : BOOLEAN, winner : MaybeAccount]
      BY <2>2, <2>3 DEF PanelTypeOK
    <3>2. seller' \in [state : {"none", "cancelled"}, claimed : BOOLEAN, payout : BOOLEAN]
      <4>1. seller \in [state : {"none", "cancelled"}, claimed : BOOLEAN, payout : BOOLEAN]
        BY DEF PanelTypeOK
      <4>2. ASSUME seller' = [seller EXCEPT !.claimed = TRUE, !.payout = FALSE]
            PROVE  seller' \in [state : {"none", "cancelled"}, claimed : BOOLEAN, payout : BOOLEAN]
        BY <4>1, <4>2
      <4>3. ASSUME NEW paid \in BOOLEAN,
                   seller' = [state |-> "cancelled", claimed |-> FALSE, payout |-> paid]
            PROVE  seller' \in [state : {"none", "cancelled"}, claimed : BOOLEAN, payout : BOOLEAN]
        BY <4>3
      <4> QED BY <2>4, <4>1, <4>2, <4>3
    <3>3. shown' \in [amount : Nat, asked : MaybeAccount]
      BY <2>2, <2>5 DEF PanelTypeOK
    <3>4. created' \in {"none", "withId", "withoutId"}
      BY <2>6 DEF PanelTypeOK
    <3> QED BY <2>1, <3>1, <3>2, <3>3, <3>4 DEF PanelTypeOK
  <2>10. ReportsTrue'
    <3>1. settlement'.assetClaimed => assetClaimed'
      <4>1. settlement'.assetClaimed => settlement.assetClaimed \/ assetClaimed
        BY <2>3 DEF PanelTypeOK
      <4> QED BY <1>3, <4>1 DEF ReportsTrue, Stays
    <3>2. seller'.state = "cancelled" => State' = "CANCELLED"
      <4>1. seller'.state = "cancelled" => seller.state = "cancelled" \/ a.kind = "cancel"
        BY <2>4 DEF PanelTypeOK
      <4> QED BY <1>3, <2>7, <4>1 DEF ReportsTrue, Stays
    <3>3. created' = "withId" => Exists'
      BY <1>3, <2>6, <2>8 DEF ReportsTrue, Stays
    <3> QED BY <3>1, <3>2, <3>3 DEF ReportsTrue
  <2> QED BY <1>3, <1>4, <1>5, <1>6, <1>7, <2>9, <2>10
<1> QED BY <1>9, <1>10

LEMMA ActionStepsKept ==
  ASSUME PageInv, NEW n \in 1..started, Proceeds(n) \/ Executed(n)
  PROVE  PageInv'
<1> USE DEF PageInv
<1>1. n \in 1..ActionLimit
  BY ActionAssumption DEF ActionInv, ActionTypeOK
<1>2. UNCHANGED <<walletSession, started, browserVars, visit, changes, moves>>
  BY DEF Proceeds, Executed
<1>3. ActionInv' /\ LotTypeOK' /\ Stays
  <2>1. CASE Proceeds(n)
    BY <1>1, <2>1, ProceedsKept, LotAlone DEF Proceeds
  <2>2. CASE Executed(n)
    BY <1>1, <1>2, <2>2, MinedKept DEF Executed
  <2> QED BY <2>1, <2>2
<1> QED
  BY <1>2, <1>3, SessionAlone, DataAlone, FormAlone, VisitAlone, PanelAlone, ReportsAlone
     DEF browserVars, formVars, panelVars, visitVars

(* React state that starts again says nothing that is not so.              *)
LEMMA FreshEmpty ==
  ASSUME PanelTypeOK, Fresh(NoRecord), shown' \in [amount : Nat, asked : MaybeAccount],
         page' \in Page \cup {"none"}
  PROVE  PanelTypeOK' /\ ReportsTrue'
BY DEF Fresh, NoSettlement, NoSeller, PanelTypeOK, ReportsTrue, MaybeAccount

LEMMA NavigateKept ==
  ASSUME PageInv, NEW p, Navigate(p) \/ RefreshButton
  PROVE  PageInv'
<1> USE DEF PageInv
<1>1. UNCHANGED <<lotView, walletSession, actionVars, page, panelVars, record, formVars, visit,
                  changes, moves>>
  BY DEF Navigate, RefreshButton
<1>2. DataTypeOK'
  BY <1>1, RefreshKept, AskKept DEF Navigate, RefreshButton, Page
<1>3. LotTypeOK' /\ Stays
  BY <1>1, LotAlone
<1> QED
  BY <1>1, <1>2, <1>3, SessionAlone, ActionsAlone, FormAlone, VisitAlone, PanelAlone, ReportsAlone
     DEF formVars, panelVars, visitVars

LEMMA LoadKept ==
  ASSUME PageInv, NEW p \in Page, Load(p)
  PROVE  PageInv'
<1> USE DEF PageInv
<1>1. LotTypeOK' /\ Stays
  BY LotAlone DEF Load
<1>2. SessionInv'
  BY SessionKept DEF Load, SessionNext
<1>3. record' = NoRecord /\ (reading' = NoRead \/ Ask(p, TRUE))
  BY DEF Load
<1>4. DataTypeOK'
  <2>1. reading' = NoRead \/ reading' \in [page : Page, fresh : BOOLEAN, core : States \cup {"none"}]
    BY <1>3, AskTyped
  <2> QED BY <1>3, <2>1 DEF DataTypeOK
<1>5. ActionInv'
  BY LeftKept DEF Load
<1>6. FormInv'
  BY FormKept DEF Load, FormNext
<1>7. VisitTypeOK'
  BY VisitAlone DEF Load, visitVars
<1>8. PanelTypeOK' /\ ReportsTrue'
  <2>1. shown' \in [amount : Nat, asked : MaybeAccount]
    BY DEF Load, NothingShown, MaybeAccount
  <2>2. page' \in Page \cup {"none"}
    BY DEF Load
  <2> QED BY <2>1, <2>2, FreshEmpty DEF Load
<1> QED BY <1>1, <1>2, <1>4, <1>5, <1>6, <1>7, <1>8

LEMMA CoreReadKept ==
  ASSUME PageInv, CoreRead
  PROVE  PageInv'
<1> USE DEF PageInv
<1>1. LotTypeOK' /\ Stays
  BY LotAlone DEF CoreRead, ReadCore
<1>2. DataTypeOK'
  <2>1. LiveState(State) \in States
    BY DEF LiveState, States
  <2>2. reading \in [page : Page, fresh : BOOLEAN, core : States \cup {"none"}]
    BY DEF DataTypeOK, CoreRead, ReadCore
  <2>3. reading' = [reading EXCEPT !.core = LiveState(State)] /\ record' = record
    BY DEF CoreRead, ReadCore
  <2>4. reading' \in [page : Page, fresh : BOOLEAN, core : States \cup {"none"}]
    BY <2>1, <2>2, <2>3
  <2> QED BY <2>3, <2>4 DEF DataTypeOK
<1> QED
  BY <1>1, <1>2, SessionAlone, ActionsAlone, FormAlone, VisitAlone, PanelAlone, ReportsAlone
     DEF CoreRead, formVars, panelVars, visitVars

LEMMA ReadFailsKept ==
  ASSUME PageInv, ReadFails
  PROVE  PageInv'
<1> USE DEF PageInv
<1>1. LotTypeOK' /\ Stays
  BY LotAlone DEF ReadFails
<1>2. SessionInv' /\ FormInv' /\ VisitTypeOK'
  BY SessionAlone, FormAlone, VisitAlone DEF ReadFails, formVars, visitVars
<1>3. DataTypeOK'
  BY DEF ReadFails, DataTypeOK
<1>4. ActionInv'
  BY LeftKept DEF ReadFails
<1>5. PanelTypeOK' /\ ReportsTrue'
  <2>1. shown' \in [amount : Nat, asked : MaybeAccount]
    BY DEF ReadFails, NothingShown, MaybeAccount
  <2>2. page' \in Page \cup {"none"}
    BY DEF ReadFails, Page
  <2> QED BY <2>1, <2>2, FreshEmpty DEF ReadFails
<1> QED BY <1>1, <1>2, <1>3, <1>4, <1>5
LEMMA EscrowReadKept ==
  ASSUME PageInv, EscrowRead
  PROVE  PageInv'
<1> USE DEF PageInv
<1>1. LotTypeOK' /\ Stays
  BY LotAlone DEF EscrowRead
<1>2. PanelTypeOK'
  <2>1. PICK ok \in BOOLEAN :
          shown' = [amount |-> IF ok /\ walletChain = "sepolia" THEN escrow[shown.asked] ELSE 0,
                    asked |-> NoAccount]
    BY DEF EscrowRead
  <2>2. shown.asked \in Accounts
    BY DEF EscrowRead, PanelTypeOK, MaybeAccount
  <2>3. escrow[shown.asked] \in Nat
    BY <2>2 DEF LotTypeOK
  <2>4. shown' \in [amount : Nat, asked : MaybeAccount]
    BY <2>1, <2>3 DEF MaybeAccount
  <2> QED BY <2>4 DEF EscrowRead, PanelTypeOK
<1> QED
  BY <1>1, <1>2, SessionAlone, DataAlone, ActionsAlone, FormAlone, VisitAlone, ReportsAlone
     DEF EscrowRead, formVars, visitVars

LEMMA RefreshPayoutKept ==
  ASSUME PageInv, RefreshPayout
  PROVE  PageInv'
<1> USE DEF PageInv
<1>1. LotTypeOK' /\ Stays
  BY LotAlone DEF RefreshPayout
<1>2. PICK paid \in BOOLEAN : seller' = [seller EXCEPT !.payout = paid]
  <2>1. SellerPayout \in BOOLEAN
    BY DEF SellerPayout
  <2> QED BY <2>1 DEF RefreshPayout
<1>3. /\ seller' \in [state : {"none", "cancelled"}, claimed : BOOLEAN, payout : BOOLEAN]
      /\ seller'.state = seller.state
  BY <1>2 DEF PanelTypeOK
<1>4. PanelTypeOK'
  BY <1>3 DEF RefreshPayout, PanelTypeOK
<1>5. ReportsTrue'
  BY <1>1, <1>3 DEF RefreshPayout, ReportsTrue, Stays
<1> QED
  BY <1>1, <1>4, <1>5, SessionAlone, DataAlone, ActionsAlone, FormAlone, VisitAlone
     DEF RefreshPayout, formVars, visitVars

(* The console asks for the escrow of an account of the session.           *)
LEMMA AskEscrowTyped ==
  ASSUME PanelTypeOK, SessionInv', AskEscrow \/ UNCHANGED shown
  PROVE  shown' \in [amount : Nat, asked : MaybeAccount]
<1>1. CASE UNCHANGED shown
  BY <1>1 DEF PanelTypeOK
<1>2. CASE AskEscrow
  <2>1. Subject' \in MaybeAccount
    BY DEF Subject, SessionInv, SessionTypeOK, MaybeAccount
  <2>2. shown' = NothingShown \/ shown' = [shown EXCEPT !.asked = Subject']
    BY <1>2 DEF AskEscrow
  <2>3. NothingShown \in [amount : Nat, asked : MaybeAccount]
    BY DEF NothingShown, MaybeAccount
  <2> HIDE DEF Subject
  <2> QED BY <2>1, <2>2, <2>3 DEF PanelTypeOK
<1> QED BY <1>1, <1>2

LEMMA RecordArrivesKept ==
  ASSUME PageInv, NEW real \in BOOLEAN, NEW paid \in BOOLEAN, RecordArrives(real, paid)
  PROVE  PageInv'
<1> USE DEF PageInv
<1>1. LotTypeOK' /\ Stays
  BY LotAlone DEF RecordArrives
<1>2. SessionInv' /\ FormInv' /\ VisitTypeOK'
  BY SessionAlone, FormAlone, VisitAlone DEF RecordArrives, formVars, visitVars
<1>3. reading \in [page : Page, fresh : BOOLEAN, core : States \cup {"none"}] /\ reading.core # "none"
  BY DEF DataTypeOK, RecordArrives, CanBuild
<1>4. PICK d \in Details, owed \in BOOLEAN :
        /\ record' = [state |-> reading.core, details |-> d, payout |-> owed, real |-> real]
        /\ d.assetClaimed => assetClaimed
  <2>1. CurrentDetails \in Details /\ CurrentDetails.assetClaimed = assetClaimed
    BY DEF CurrentDetails, Details, PublicWinner, LotTypeOK, MaybeAccount
  <2>2. Phase2Defaults \in Details /\ ~Phase2Defaults.assetClaimed
    BY DEF Phase2Defaults, Details, MaybeAccount
  <2>3. (paid /\ SellerPayout) \in BOOLEAN
    OBVIOUS
  <2>4. record' = [state |-> reading.core, details |-> IF real THEN CurrentDetails ELSE Phase2Defaults,
                   payout |-> paid /\ SellerPayout, real |-> real]
    BY DEF RecordArrives, Built
  <2> QED BY <2>1, <2>2, <2>3, <2>4
<1>5. record' \in LotRecord
  BY <1>3, <1>4 DEF LotRecord
<1>6. DataTypeOK'
  BY <1>5 DEF RecordArrives, DataTypeOK
<1>7. ActionInv'
  <2>1. CASE action' = Detached
    BY <2>1, LeftKept DEF RecordArrives
  <2>2. CASE UNCHANGED action
    BY <1>1, <2>2, ActionsAlone DEF RecordArrives, actionVars
  <2> QED BY <2>1, <2>2 DEF RecordArrives
<1>8. shown' \in [amount : Nat, asked : MaybeAccount]
  BY <1>2, AskEscrowTyped DEF RecordArrives
<1>9. CASE reading.fresh \/ page = "none"
  <2>1. Fresh(record') /\ page' = reading.page
    BY <1>9 DEF RecordArrives
  <2>2. record' # NoRecord => record'.details = d /\ record'.payout = owed
    BY <1>4
  <2>3. \/ settlement' = NoSettlement
        \/ settlement' = [NoSettlement EXCEPT !.assetClaimed = d.assetClaimed, !.winner = d.winner]
    BY <2>1, <2>2 DEF Fresh
  <2>4. seller' = NoSeller \/ seller' = [NoSeller EXCEPT !.claimed = d.sellerClaimed, !.payout = owed]
    BY <2>1, <2>2 DEF Fresh
  <2>5. /\ settlement' \in [state : {"none", "resolving"}, assetClaimed : BOOLEAN, winner : MaybeAccount]
        /\ settlement'.assetClaimed => assetClaimed
    <3>1. d.assetClaimed \in BOOLEAN /\ d.winner \in MaybeAccount
      BY DEF Details
    <3>2. CASE settlement' = NoSettlement
      BY <3>2 DEF NoSettlement, MaybeAccount
    <3>3. CASE settlement' = [NoSettlement EXCEPT !.assetClaimed = d.assetClaimed, !.winner = d.winner]
      BY <1>4, <3>1, <3>3 DEF NoSettlement
    <3> QED BY <2>3, <3>2, <3>3
  <2>6. /\ seller' \in [state : {"none", "cancelled"}, claimed : BOOLEAN, payout : BOOLEAN]
        /\ seller'.state = "none"
    <3>1. d.sellerClaimed \in BOOLEAN
      BY DEF Details
    <3>2. CASE seller' = NoSeller
      BY <3>2 DEF NoSeller
    <3>3. CASE seller' = [NoSeller EXCEPT !.claimed = d.sellerClaimed, !.payout = owed]
      BY <3>1, <3>3 DEF NoSeller
    <3> QED BY <2>4, <3>2, <3>3
  <2>7. created' = "none"
    BY <2>1 DEF Fresh
  <2>8. PanelTypeOK'
    BY <1>3, <1>8, <2>1, <2>5, <2>6, <2>7 DEF PanelTypeOK
  <2>9. ReportsTrue'
    BY <1>1, <2>5, <2>6, <2>7 DEF ReportsTrue, Stays
  <2> QED BY <1>1, <1>2, <1>6, <1>7, <2>8, <2>9
<1>10. CASE ~(reading.fresh \/ page = "none")
  <2>1. UNCHANGED <<page, settlement, seller, created>>
    BY <1>10 DEF RecordArrives
  <2>2. PanelTypeOK'
    BY <1>8, <2>1 DEF PanelTypeOK
  <2> QED BY <1>1, <1>2, <1>6, <1>7, <2>1, <2>2, ReportsAlone
<1> QED BY <1>9, <1>10

LEMMA OutsideKept ==
  ASSUME PageInv, Session \/ WalletMoves
  PROVE  PageInv'
<1> USE DEF PageInv
<1>1. UNCHANGED <<lotView, actionVars, page, settlement, seller, created, reading, record, formVars>>
  BY DEF Session, WalletMoves
<1>2. LotTypeOK' /\ Stays
  BY <1>1, LotAlone
<1>3. SessionInv'
  BY SessionKept DEF Session, WalletMoves, SessionNext, SessionStep
<1>4. VisitTypeOK'
  <2>1. CASE Session
    BY <2>1, VisitAlone DEF Session, formVars, visitVars
  <2>2. CASE WalletMoves
    BY <2>2, VisitFacts DEF WalletMoves, formVars, VisitTypeOK
  <2> QED BY <2>1, <2>2
<1>5. PanelTypeOK'
  <2>1. shown' \in [amount : Nat, asked : MaybeAccount]
    BY <1>3, AskEscrowTyped DEF Session, WalletMoves, EscrowEffect
  <2> QED BY <1>1, <2>1 DEF PanelTypeOK
<1> QED
  BY <1>1, <1>2, <1>3, <1>4, <1>5, DataAlone, ActionsAlone, FormAlone, ReportsAlone DEF formVars

LEMMA WorldKept ==
  ASSUME PageInv, World
  PROVE  PageInv'
<1> USE DEF PageInv
<1>1. LotTypeOK' /\ Stays
  BY ElsewhereKept DEF World
<1>2. VisitTypeOK'
  BY VisitFacts DEF World, VisitTypeOK, browserVars, formVars
<1> QED
  BY <1>1, <1>2, SessionAlone, DataAlone, ActionsAlone, FormAlone, PanelAlone, ReportsAlone
     DEF World, browserVars, formVars, panelVars

LEMMA PageStarts == PageInit => PageInv
<1> SUFFICES ASSUME PageInit PROVE PageInv
  OBVIOUS
<1>1. LotTypeOK
  <2>1. \/ phase = [l \in {Lot} |-> "CREATED"] \/ phase = [l \in {Lot} |-> "ACTIVE"]
    BY DEF PageInit, LotInit
  <2>2. PhasesTypeOK
    BY <2>1, LotAssumption DEF PageInit, LotInit, PhasesTypeOK, Phase
  <2>3. bid \in [Accounts -> Nat] /\ escrow = bid
    BY DEF PageInit, LotInit
  <2>4. approved \in BOOLEAN
    BY DEF PageInit, LotInit
  <2> QED BY <2>2, <2>3, <2>4 DEF PageInit, LotInit, LotTypeOK, MaybeAccount
<1>2. SessionInv
  BY DEF PageInit, SessionInit, SessionInv, SessionTypeOK, SyncSound, MaybeAccount, NoSync, NoRequest
<1>3. DataTypeOK
  BY DEF PageInit, DataInit, DataTypeOK
<1>4. ActionInv
  <2>1. Unused \in Action /\ Sound(Unused) /\ ~Creates(Unused)
    BY DEF Unused, Action, Sound, Creates, Steps, MaybeAccount
  <2>2. action = [n \in 1..ActionLimit |-> Unused] /\ started = 0
    BY DEF PageInit, ActionInit
  <2> QED BY <2>1, <2>2, ActionAssumption DEF ActionInv, ActionTypeOK, ActionsSound
<1>5. FormInv
  BY FormStarts DEF PageInit
<1>6. VisitTypeOK
  <2>1. visit \in Visit
    BY PageAssumption DEF PageInit
  <2> QED BY <2>1 DEF PageInit, VisitTypeOK, Visit
<1>7. PanelTypeOK /\ ReportsTrue
  BY DEF PageInit, NoSettlement, NoSeller, NothingShown, PanelTypeOK, ReportsTrue, MaybeAccount
<1> QED BY <1>1, <1>2, <1>3, <1>4, <1>5, <1>6, <1>7 DEF PageInv

LEMMA PageKept == PageInv /\ [Next]_vars => PageInv'
<1> SUFFICES ASSUME PageInv, [Next]_vars PROVE PageInv'
  OBVIOUS
<1>1. CASE Handlers \/ FormStep
  BY <1>1, HandlersKept, FormStepKept
<1>2. ASSUME NEW n \in 1..started, Succeeds(n) \/ Proceeds(n) \/ Executed(n) PROVE PageInv'
  BY <1>2, SucceedsKept, ActionStepsKept
<1>3. ASSUME NEW p \in visit.pages, Navigate(p) \/ Load(p) PROVE PageInv'
  <2>1. p \in Page
    BY VisitFacts DEF PageInv
  <2> QED BY <1>3, <2>1, NavigateKept, LoadKept
<1>4. CASE RefreshButton \/ CoreRead \/ ReadFails \/ EscrowRead \/ RefreshPayout
  BY <1>4, NavigateKept, CoreReadKept, ReadFailsKept, EscrowReadKept, RefreshPayoutKept
<1>5. ASSUME NEW real \in BOOLEAN, NEW paid \in BOOLEAN, RecordArrives(real, paid) PROVE PageInv'
  BY <1>5, RecordArrivesKept
<1>6. CASE Session \/ WalletMoves \/ World
  BY <1>6, OutsideKept, WorldKept
<1>7. CASE UNCHANGED vars
  BY <1>7, LotAlone, SessionAlone, DataAlone, ActionsAlone, FormAlone, VisitAlone, PanelAlone,
     ReportsAlone
     DEF PageInv, vars, browserVars, formVars, panelVars, visitVars
<1> QED BY <1>1, <1>2, <1>3, <1>4, <1>5, <1>6, <1>7 DEF Next

-----------------------------------------------------------------------------
(* The record.                                                             *)

(* A settled auction stays settled, and with the same winner.              *)
Frozen == State = "FINALIZED" => State' = "FINALIZED" /\ winner' = winner

LEMMA LotFrozen ==
  ASSUME NEW who, NEW amount, Call(who, amount) \/ Elsewhere \/ UNCHANGED lotView
  PROVE  Frozen
<1>1. Create(Lot) \/ Cancel(Lot) \/ Finalize(Lot) \/ Settle(Lot) \/ VoidAuction(Lot) => Frozen
  BY DEF Create, Cancel, Finalize, Settle, VoidAuction, Move, State, Frozen
<1>2. UNCHANGED <<phase, winner>> => Frozen
  BY DEF Frozen, State
<1>3. CASE Call(who, amount)
  <2>1. Approve(who) \/ LockEscrow(who, amount) \/ PlaceBid(who, amount) \/ ClaimAsset(who)
          \/ ClaimSellerProceeds(who) => UNCHANGED <<phase, winner>>
    BY DEF Approve, LockEscrow, PlaceBid, ClaimAsset, ClaimSellerProceeds, phaseView
  <2>2. CreateAuction(who, amount) \/ TriggerFinalize \/ CancelAuction(who)
          => Create(Lot) \/ Finalize(Lot) \/ Cancel(Lot)
    BY DEF CreateAuction, TriggerFinalize, CancelAuction
  <2> QED BY <1>1, <1>2, <1>3, <2>1, <2>2 DEF Call
<1>4. CASE Elsewhere
  <2>1. EndReached \/ ShieldedClaim \/ (\E x \in Accounts : ClaimAsset(x))
          => UNCHANGED <<phase, winner>>
    BY DEF EndReached, TimePasses, ShieldedClaim, ClaimAsset, phaseView
  <2>2. TriggerFinalize \/ FallbackVoid \/ (\E w \in MaybeAccount \cup {Shielded} : Resolve(w))
          => Finalize(Lot) \/ VoidAuction(Lot) \/ Settle(Lot)
    BY DEF TriggerFinalize, FallbackVoid, Resolve
  <2> QED BY <1>1, <1>2, <1>4, <2>1, <2>2 DEF Elsewhere
<1>5. CASE UNCHANGED lotView
  BY <1>2, <1>5 DEF lotView, phaseView
<1> QED BY <1>3, <1>4, <1>5

(* A state that was read is one that stays, and the winner of a record was *)
(* read after its state.                                                   *)
CoreSound ==
  reading # NoRead =>
    /\ reading.core = "finalized" => State = "FINALIZED"
    /\ reading.core = "cancelled" => State = "CANCELLED"
RecordSound ==
  record # NoRecord =>
    /\ record.state = "finalized" =>
         State = "FINALIZED" /\ (record.real => record.details.winner = PublicWinner)
    /\ record.state = "cancelled" => State = "CANCELLED"

LEMMA LotSteps ==
  ASSUME PageInv, [Next]_vars
  PROVE  Stays /\ Frozen
<1>1. ASSUME NEW n \in 1..started, Executed(n)
      PROVE  UNCHANGED lotView \/ \E who \in Accounts, amount \in Nat : Call(who, amount)
  <2>1. n \in 1..ActionLimit
    BY ActionAssumption DEF PageInv, ActionInv, ActionTypeOK
  <2>2. action[n] \in Action /\ Sound(action[n])
    BY <2>1, ActionFacts DEF PageInv
  <2>3. CASE Mined(n)
    <3>1. action[n].by \in Accounts /\ action[n].amount \in Nat
      BY <2>2, <2>3 DEF Mined, Sound, Action
    <3>2. UNCHANGED lotView \/ Execute(action[n])
      BY <2>3 DEF Mined
    <3> QED BY <2>1, <3>1, <3>2, ExecuteCalls
  <2>4. CASE Reverted(n)
    BY <2>4 DEF Reverted
  <2> QED BY <1>1, <2>3, <2>4 DEF Executed
<1>2. \/ UNCHANGED lotView
      \/ \E who \in Accounts, amount \in Nat : Call(who, amount)
      \/ Elsewhere
  <2>1. CASE \E n \in 1..started : Executed(n)
    BY <1>1, <2>1
  <2>2. CASE World
    BY <2>2 DEF World
  <2>3. ASSUME NEW a, Submit(a) PROVE UNCHANGED lotView
    BY <2>3 DEF Submit
  <2>4. Handlers => UNCHANGED lotView
    BY <2>3 DEF Handlers, handleSubmit, handleEscrowSubmit, handleBidSubmit,
         handleTriggerFinalize, handleClaimAsset, handleCancel, handleClaimSellerPayout
  <2>5. ASSUME NEW n, Succeeds(n) \/ Proceeds(n) PROVE UNCHANGED lotView
    BY <2>5 DEF Succeeds, Proceeds
  <2>6. ASSUME NEW p, Navigate(p) \/ Load(p) PROVE UNCHANGED lotView
    BY <2>6 DEF Navigate, Load
  <2>7. ASSUME NEW real, NEW paid, RecordArrives(real, paid) PROVE UNCHANGED lotView
    BY <2>7 DEF RecordArrives
  <2>8. FormStep \/ RefreshButton \/ CoreRead \/ ReadFails \/ EscrowRead \/ RefreshPayout
          => UNCHANGED lotView
    BY DEF FormStep, RefreshButton, CoreRead, ReadCore, ReadFails, EscrowRead, RefreshPayout
  <2>9. Session \/ WalletMoves \/ UNCHANGED vars => UNCHANGED lotView
    BY DEF Session, WalletMoves, vars
  <2> QED BY <2>1, <2>2, <2>4, <2>5, <2>6, <2>7, <2>8, <2>9 DEF Next
<1>3. LotTypeOK
  BY DEF PageInv
<1>4. Stays
  BY <1>2, <1>3, LotAlone, CallKept, ElsewhereKept
<1>5. Frozen
  BY <1>2, LotFrozen
<1> QED BY <1>4, <1>5

(* How the read and the record change: a new read begins, the first answer *)
(* or all others arrive, or the record is gone.                            *)
Asked == \E p \in Page, fresh \in BOOLEAN : Ask(p, fresh)
Answered ==
  \E real, paid \in BOOLEAN :
    CanBuild /\ record' = Built(real, paid) /\ reading' = NoRead /\ UNCHANGED lotView

LEMMA RefreshAsks == Refresh => UNCHANGED reading \/ Asked
BY DEF Refresh, Asked, Page

LEMMA DataSteps ==
  ASSUME PageInv, [Next]_vars
  PROVE  \/ /\ record' \in {record, NoRecord}
            /\ reading' \in {reading, NoRead} \/ Asked
         \/ ReadCore
         \/ Answered
<1>1. ASSUME NEW a, Submit(a) PROVE UNCHANGED <<reading, record>>
  BY <1>1 DEF Submit
<1>2. Handlers => UNCHANGED <<reading, record>>
  BY <1>1 DEF Handlers, handleSubmit, handleEscrowSubmit, handleBidSubmit,
       handleTriggerFinalize, handleClaimAsset, handleCancel, handleClaimSellerPayout
<1>3. ASSUME NEW n, Succeeds(n) PROVE UNCHANGED record /\ (UNCHANGED reading \/ Asked)
  BY <1>3, RefreshAsks DEF Succeeds, Report, ReportAttended, ReportUnattended
<1>4. ASSUME NEW n, Proceeds(n) \/ Executed(n) PROVE UNCHANGED <<reading, record>>
  BY <1>4 DEF Proceeds, Executed, browserVars
<1>5. ASSUME NEW p \in visit.pages, Navigate(p) PROVE UNCHANGED record /\ Asked
  <2>1. p \in Page
    BY VisitFacts DEF PageInv
  <2>2. Ask(p, TRUE) /\ UNCHANGED record
    BY <1>5 DEF Navigate
  <2> QED BY <2>1, <2>2 DEF Asked
<1>6. ASSUME NEW p \in visit.pages, Load(p) PROVE record' = NoRecord /\ (reading' = NoRead \/ Asked)
  <2>1. p \in Page
    BY VisitFacts DEF PageInv
  <2>2. record' = NoRecord /\ (reading' = NoRead \/ Ask(p, TRUE))
    BY <1>6 DEF Load
  <2> QED BY <2>1, <2>2 DEF Asked
<1>7. RefreshButton => UNCHANGED record /\ (UNCHANGED reading \/ Asked)
  BY RefreshAsks DEF RefreshButton
<1>8. CoreRead => ReadCore
  BY DEF CoreRead
<1>9. ReadFails => record' = NoRecord /\ reading' = NoRead
  BY DEF ReadFails
<1>10. EscrowRead \/ RefreshPayout \/ FormStep => UNCHANGED <<reading, record>>
  BY DEF EscrowRead, RefreshPayout, FormStep
<1>11. ASSUME NEW real \in BOOLEAN, NEW paid \in BOOLEAN, RecordArrives(real, paid) PROVE Answered
  BY <1>11 DEF RecordArrives, Answered
<1>12. Session \/ WalletMoves \/ World \/ UNCHANGED vars => UNCHANGED <<reading, record>>
  BY DEF Session, WalletMoves, World, vars, browserVars
<1> QED
  BY <1>2, <1>3, <1>4, <1>5, <1>6, <1>7, <1>8, <1>9, <1>10, <1>11, <1>12 DEF Next

LEMMA RecordKept ==
  PageInv /\ CoreSound /\ RecordSound /\ [Next]_vars => CoreSound' /\ RecordSound'
<1> SUFFICES ASSUME PageInv, CoreSound, RecordSound, [Next]_vars PROVE CoreSound' /\ RecordSound'
  OBVIOUS
<1>1. Stays /\ Frozen
  BY LotSteps
<1>2. State = "FINALIZED" => State' = "FINALIZED" /\ PublicWinner' = PublicWinner
  BY <1>1 DEF Frozen, PublicWinner
<1>3. State = "CANCELLED" => State' = "CANCELLED"
  BY <1>1 DEF Stays
<1>4. CASE record' \in {record, NoRecord} /\ (reading' \in {reading, NoRead} \/ Asked)
  <2>1. Asked => reading'.core = "none"
    BY DEF Asked, Ask
  <2>2. CoreSound'
    BY <1>2, <1>3, <1>4, <2>1 DEF CoreSound
  <2>3. RecordSound'
    BY <1>2, <1>3, <1>4 DEF RecordSound
  <2> QED BY <2>2, <2>3
<1>5. CASE ReadCore
  <2>1. reading \in [page : Page, fresh : BOOLEAN, core : States \cup {"none"}]
    BY <1>5 DEF PageInv, DataTypeOK, ReadCore
  <2>2. reading'.core = LiveState(State) /\ record' = record
    BY <1>5, <2>1 DEF ReadCore
  <2>3. /\ LiveState(State) = "finalized" => State = "FINALIZED"
        /\ LiveState(State) = "cancelled" => State = "CANCELLED"
    BY DEF LiveState
  <2>4. CoreSound'
    BY <1>2, <1>3, <2>2, <2>3 DEF CoreSound
  <2>5. RecordSound'
    BY <1>2, <1>3, <2>2 DEF RecordSound
  <2> QED BY <2>4, <2>5
<1>6. CASE Answered
  <2>1. PICK real \in BOOLEAN, paid \in BOOLEAN : record' = Built(real, paid)
    BY <1>6 DEF Answered
  <2>2. reading' = NoRead /\ reading # NoRead
    BY <1>6 DEF Answered, CanBuild
  <2>3. /\ record'.state = reading.core /\ record'.real = real
        /\ real => record'.details.winner = PublicWinner
    BY <2>1 DEF Built, CurrentDetails
  <2>4. RecordSound'
    BY <1>2, <1>3, <2>2, <2>3 DEF RecordSound, CoreSound
  <2> QED BY <2>2, <2>4 DEF CoreSound
<1> QED BY <1>4, <1>5, <1>6, DataSteps

LEMMA RoutesFollow == RecordSound => RoutesBelong
<1> SUFFICES ASSUME RecordSound, NEW who \in Accounts
             PROVE  /\ NftRoute(who) /\ record.real /\ winner # Shielded
                         => State = "FINALIZED" /\ who = AssetRecipient
                    /\ PayoutRoute(who) => SellerPayout /\ who = Seller
  BY DEF RoutesBelong
<1>1. ASSUME NftRoute(who), record.real, winner # Shielded
      PROVE  State = "FINALIZED" /\ who = AssetRecipient
  <2>1. State = "FINALIZED" /\ record.details.winner = winner
    BY <1>1 DEF NftRoute, RecordSound, PublicWinner
  <2> QED BY <1>1, <2>1 DEF NftRoute, ExpectedRecipient, AssetRecipient
<1>2. ASSUME PayoutRoute(who) PROVE SellerPayout /\ who = Seller
  BY <1>2 DEF PayoutRoute, RecordSound, SellerPayout
<1> QED BY <1>1, <1>2

-----------------------------------------------------------------------------
(* The state of the pages is of its type, whatever a visitor does.         *)
THEOREM PageTypesHold == Spec => []PageTypeOK
<1>1. PageInv => PageTypeOK
  BY DEF PageInv, PageTypeOK, SessionInv, ActionInv, FormInv, PanelTypeOK, VisitTypeOK
<1> QED BY <1>1, PageStarts, PageKept, PTL DEF Spec

(* The create form asks to confirm a complete and admissible auction, and  *)
(* shows the duration it sends (create-auction-form.tsx).                  *)
THEOREM ReviewIsComplete == Spec => []ReviewComplete
<1>1. PageInv => ReviewComplete
  BY FormComplete DEF PageInv
<1> QED BY <1>1, PageStarts, PageKept, PTL DEF Spec

(* The pages do not report a claim, a cancellation or a creation that did  *)
(* not happen, whatever the account and the network changed to meanwhile.  *)
THEOREM ReportsHold == Spec => []ReportsTrue
<1>1. PageInv => ReportsTrue
  BY DEF PageInv
<1> QED BY <1>1, PageStarts, PageKept, PTL DEF Spec
(* The portfolio sends an account for a token or a payout only if the      *)
(* market gives it to that account, however long the record is read before *)
(* (buildLiveClaims of marketplace-data.ts).                               *)
THEOREM RoutesHold == Spec => []RoutesBelong
<1>1. PageInit => CoreSound /\ RecordSound
  BY DEF PageInit, DataInit, CoreSound, RecordSound
<1> QED BY <1>1, PageStarts, PageKept, RecordKept, RoutesFollow, PTL DEF Spec
=============================================================================
