-------------------------- MODULE DeploymentProofs --------------------------
(***************************************************************************)
(* Theorems about the deployment scripts, for every number of              *)
(* transactions, runs, crashes and restarts.                               *)
(*                                                                         *)
(* While a script runs nobody else writes to the chain, so that what it    *)
(* has done is known at each of its steps: CorePoints for the deployment   *)
(* of the market, HandoverPoints for the hand-over.  That suffices for     *)
(* what the two scripts promise when they save.                            *)
(*                                                                         *)
(* What an idle operator finds needs more.  As long as nothing crashed and *)
(* the chain was not restarted, a registry is Good between any two steps   *)
(* but the last of those two scripts, and these cannot fail any more: what *)
(* the last steps of the deployment touch is still the signer's, because   *)
(* its first wiring step throws after a hand-over, and what the hand-over  *)
(* touches belongs to the signer or to the timelock.                       *)
(***************************************************************************)
EXTENDS Deployment, TLAPS

(* The links that the smoke test looks at and the market needs, kinds and  *)
(* links given as functions, to compare two states of the chain.           *)
Wiring == {"owner", "avs", "market", "settlementEngine", "slashedPot"}

Lies(K, a, k) == a \in Addresses /\ K[a] = k

(* What a registry records is there.                                       *)
Recorded(K, r) == \A f \in Field : r[f] # None => Lies(K, r[f], f)

(* A recorded market is recorded with all its parts and wired to them, but *)
(* for an engine that was recorded later.                                  *)
Wired(K, L, r) ==
  r["proxy"] # None =>
    /\ \A f \in Field \ {"timelockController"} : r[f] # None
    /\ L[r["proxy"]]["slashedPot"] = r["slashedPot"]
    /\ L[r["slashedPot"]]["market"] = r["proxy"]
    /\ Lies(K, L[r["proxy"]]["settlementEngine"], "settlementEngine")
    /\ L[L[r["proxy"]]["settlementEngine"]]["avs"] = r["avs"]

(* Everything is the signer's until there is a timelock; then everything   *)
(* is the timelock's but for an engine that was recorded later.            *)
SignerOwns(L, r) == \A f \in Ownable : r[f] # None => L[r[f]]["owner"] = Signer
TimelockOwns(L, r) ==
  /\ r["proxy"] # None
  /\ L[r["proxy"]]["owner"] = r["timelockController"]
  /\ L[r["slashedPot"]]["owner"] = r["timelockController"]
  /\ \/ L[r["settlementEngine"]]["owner"] = r["timelockController"]
     \/ /\ L[r["settlementEngine"]]["owner"] = Signer
        /\ r["settlementEngine"] # L[r["proxy"]]["settlementEngine"]
HandedOver(L, r) == IF r["timelockController"] = None THEN SignerOwns(L, r) ELSE TimelockOwns(L, r)

Good(K, L, r) == Recorded(K, r) /\ Wired(K, L, r) /\ HandedOver(L, r)

-----------------------------------------------------------------------------
(* The invariants.                                                         *)

(* Contracts lie at nonces that were used.                                 *)
ChainInv == \A a \in Addresses : kind[a] # "none" => a <= nonce

Running(s, steps) == script = s /\ step \in steps

(* What the core deployment has done at each of its steps.                 *)
CorePoints ==
  /\ Running("core", {"engine", "avs", "pot", "implementation", "proxy",
                      "setMarket", "setEngine", "setAVS", "write"}) => found["adapter"] # None
  /\ Running("core", {"avs", "pot", "implementation", "proxy",
                      "setMarket", "setEngine", "setAVS", "write"}) => found["settlementEngine"] # None
  /\ Running("core", {"pot", "implementation", "proxy",
                      "setMarket", "setEngine", "setAVS", "write"}) => found["avs"] # None
  /\ Running("core", {"implementation", "proxy",
                      "setMarket", "setEngine", "setAVS", "write"}) => found["slashedPot"] # None
  /\ Running("core", {"proxy", "setMarket", "setEngine", "setAVS", "write"}) => found["implementation"] # None
  /\ Running("core", {"setMarket", "setEngine", "setAVS", "write"}) =>
       Is(found["proxy"], "proxy") /\ links[found["proxy"]]["slashedPot"] = found["slashedPot"]
  /\ Running("core", {"setEngine", "setAVS", "write"}) =>
       Is(found["slashedPot"], "slashedPot") /\ links[found["slashedPot"]]["market"] = found["proxy"]
  /\ Running("core", {"setAVS", "write"}) =>
       links[found["proxy"]]["settlementEngine"] = found["settlementEngine"]
  /\ Running("core", {"write"}) =>
       /\ Is(found["settlementEngine"], "settlementEngine")
       /\ links[found["settlementEngine"]]["avs"] = found["avs"]

(* What the hand-over has done at each of its steps.                       *)
HandoverPoints ==
  /\ Running("timelock", {"proxy", "settlementEngine", "slashedPot", "write"}) =>
       found["timelockController"] # None
  /\ Running("timelock", {"settlementEngine", "slashedPot", "write"}) =>
       /\ \A f \in Ownable : found[f] # None
       /\ links[found["proxy"]]["owner"] = found["timelockController"]
  /\ Running("timelock", {"slashedPot", "write"}) =>
       links[found["settlementEngine"]]["owner"] = found["timelockController"]
  /\ Running("timelock", {"write"}) =>
       links[found["slashedPot"]]["owner"] = found["timelockController"]

PointsInv == DeploymentTypeOK /\ ChainInv /\ CorePoints /\ HandoverPoints

(* No script crashed and the chain is the first one.                       *)
Undisturbed == crashes = 0 /\ resets = 0

(* The steps in between which the registry is not Good.                    *)
LastSteps ==
  Running("core", {"setEngine", "setAVS", "write"})
    \/ Running("timelock", {"settlementEngine", "slashedPot", "write"})

(* The running script works on the registry, except for what it deploys.   *)
AgreesBut(f) ==
  /\ \A g \in Field \ {f} : found[g] = registry[g]
  /\ registry[f] # None => found[f] # None

AdaptersFound ==
  /\ Running("adapters", {"engine", "write"}) => found["adapter"] # None
  /\ Running("adapters", {"write"}) =>
       /\ found["settlementEngine"] # None
       /\ links[found["settlementEngine"]]["owner"] = Signer
       /\ registry["proxy"] # None =>
            found["settlementEngine"] # links[registry["proxy"]]["settlementEngine"]

CoreFound ==
  script = "core" =>
    /\ found["timelockController"] = registry["timelockController"]
    /\ registry["slashedPot"] # None => found["slashedPot"] = registry["slashedPot"]
    /\ registry["timelockController"] = None => SignerOwns(links, found)
    /\ step = "setMarket" => found["proxy"] # registry["proxy"]
    /\ step \in {"setEngine", "setAVS", "write"} => registry["timelockController"] = None

RotationFound ==
  /\ script \in {"export", "setAdapter"} => found = registry
  /\ script = "upgrade" => AgreesBut("implementation")
  /\ script = "newAdapter" => AgreesBut("adapter")

TimelockFound ==
  script = "timelock" =>
    /\ AgreesBut("timelockController")
    /\ Wired(kind, links, registry)
    /\ step = "deploy" => found = registry
    /\ step # "deploy" =>
         \A f \in Ownable : found[f] # None =>
           links[found[f]]["owner"] \in {Signer, found["timelockController"]}

RegistryInv ==
  /\ Recorded(kind, registry) /\ Recorded(kind, found)
  /\ ~LastSteps => Good(kind, links, registry)
  /\ AdaptersFound /\ CoreFound /\ RotationFound /\ TimelockFound

DeploymentInv == PointsInv /\ (Undisturbed => RegistryInv)

-----------------------------------------------------------------------------
(* Types.                                                                  *)

LEMMA UnlinkedType == Unlinked \in [Link -> Addresses \cup {None}]
BY DEF Unlinked, None

LEMMA FoundType ==
  ASSUME DeploymentTypeOK, NEW f \in Field
  PROVE  found[f] \in Addresses \cup {None} /\ registry[f] \in Addresses \cup {None}
BY DEF DeploymentTypeOK, Registry

LEMMA CreateType ==
  ASSUME DeploymentTypeOK, NEW k \in Kind, NEW links0 \in [Link -> Addresses \cup {None}],
         Create(k, links0)
  PROVE  /\ nonce' = nonce + 1 /\ nonce \in Nat /\ nonce + 1 \in Addresses
         /\ nonce' \in 0..MaxNonce /\ kind' \in [Addresses -> Kind]
         /\ links' \in [Addresses -> [Link -> Addresses \cup {None}]]
<1>1. MaxNonce \in Nat /\ nonce \in 0..MaxNonce /\ nonce < MaxNonce /\ nonce' = nonce + 1
  BY DeploymentAssumption DEF DeploymentTypeOK, Create
<1>2. nonce + 1 \in Addresses
  BY <1>1 DEF Addresses
<1> QED
  BY <1>1, <1>2 DEF DeploymentTypeOK, Create

(* What a step of a script does to the chain and to its addresses.         *)
ChainTypeOK ==
  /\ nonce \in 0..MaxNonce
  /\ kind \in [Addresses -> Kind]
  /\ links \in [Addresses -> [Link -> Addresses \cup {None}]]
  /\ found \in Registry

LEMMA DeployType ==
  ASSUME DeploymentTypeOK, NEW f \in Field, NEW links0 \in [Link -> Addresses \cup {None}],
         Deploy(f, links0)
  PROVE  /\ ChainTypeOK' /\ nonce' = nonce + 1 /\ nonce + 1 \in Addresses
         /\ (\A g \in Field : found[g] <= nonce) => \A g \in Field : found'[g] <= nonce'
<1>1. f \in Kind /\ Create(f, links0) /\ found' = [found EXCEPT ![f] = nonce + 1]
  BY DEF Deploy, Kind
<1>2. /\ nonce' = nonce + 1 /\ nonce \in Nat /\ nonce + 1 \in Addresses
      /\ nonce' \in 0..MaxNonce /\ kind' \in [Addresses -> Kind]
      /\ links' \in [Addresses -> [Link -> Addresses \cup {None}]]
  BY <1>1, CreateType
<1>3. found' \in Registry
  BY <1>1, <1>2 DEF Registry, DeploymentTypeOK
<1>4. ASSUME \A g \in Field : found[g] <= nonce, NEW g \in Field
      PROVE  found'[g] <= nonce'
  <2>1. found[g] \in Nat /\ found'[g] = IF g = f THEN nonce + 1 ELSE found[g]
    BY <1>1 DEF DeploymentTypeOK, Registry, Addresses, None
  <2> QED
    BY <1>2, <1>4, <2>1
<1> QED
  BY <1>2, <1>3, <1>4 DEF ChainTypeOK

LEMMA SetLinkType ==
  ASSUME DeploymentTypeOK, NEW a, NEW l \in Link, NEW v \in Addresses \cup {None},
         SetLink(a, l, v)
  PROVE  ChainTypeOK' /\ nonce' = nonce + 1 /\ nonce \in Nat /\ UNCHANGED found
<1>1. MaxNonce \in Nat /\ nonce \in 0..MaxNonce /\ nonce < MaxNonce /\ nonce' = nonce + 1
  BY DeploymentAssumption DEF DeploymentTypeOK, SetLink
<1>2. links' \in [Addresses -> [Link -> Addresses \cup {None}]]
  BY DEF SetLink, DeploymentTypeOK
<1> QED
  BY <1>1, <1>2 DEF SetLink, DeploymentTypeOK, ChainTypeOK

(* A step that goes on, ends, or saves what it found.                      *)
LEMMA GotoType ==
  ASSUME DeploymentTypeOK, NEW p, Goto(p), ChainTypeOK', nonce' = nonce \/ nonce' = nonce + 1,
         (\A g \in Field : found[g] <= nonce) => \A g \in Field : found'[g] <= nonce'
  PROVE  DeploymentTypeOK'
<1>1. UNCHANGED <<script, registry, exported, runs, crashes, resets>>
  BY DEF Goto, limitVars
<1>2. nonce \in Nat /\ nonce <= nonce' /\ nonce' \in Nat
  BY DEF DeploymentTypeOK
<1>3. ASSUME resets = 0, NEW f \in Field
      PROVE  registry[f] <= nonce' /\ found'[f] <= nonce'
  <2>1. registry[f] \in Nat /\ registry[f] <= nonce
    BY <1>3 DEF DeploymentTypeOK, Registry, Addresses, None
  <2>2. \A g \in Field : found[g] <= nonce
    BY <1>3 DEF DeploymentTypeOK
  <2> QED
    BY <1>2, <2>1, <2>2
<1> QED
  BY <1>1, <1>3 DEF DeploymentTypeOK, ChainTypeOK

LEMMA NothingType == Nothing \in Registry /\ \A f \in Field : Nothing[f] = 0
BY DEF Nothing, Registry, None

LEMMA ThrowType ==
  ASSUME DeploymentTypeOK, Throw
  PROVE  DeploymentTypeOK'
<1>1. /\ script' = "idle" /\ found' = Nothing
      /\ UNCHANGED <<nonce, kind, links, registry, exported, runs, crashes, resets>>
  BY DEF Throw, Leave, chainVars, limitVars
<1>2. nonce \in Nat
  BY DEF DeploymentTypeOK
<1> QED
  BY <1>1, <1>2, NothingType DEF DeploymentTypeOK, Script

LEMMA SaveType ==
  ASSUME DeploymentTypeOK, NEW r \in Registry, Save(r),
         resets = 0 => \A f \in Field : r[f] <= nonce
  PROVE  DeploymentTypeOK'
<1>1. /\ script' = "idle" /\ found' = Nothing /\ registry' = r
      /\ UNCHANGED <<nonce, kind, links, exported, runs, crashes, resets>>
  BY DEF Save, Leave, chainVars, limitVars
<1>2. nonce \in Nat
  BY DEF DeploymentTypeOK
<1> QED
  BY <1>1, <1>2, NothingType DEF DeploymentTypeOK, Script

LEMMA DeployGoes ==
  ASSUME DeploymentTypeOK, NEW f \in Field, NEW links0 \in [Link -> Addresses \cup {None}],
         NEW p, Deploy(f, links0) \/ Reuse(f, links0), Goto(p)
  PROVE  DeploymentTypeOK'
<1>1. CASE Deploy(f, links0)
  BY <1>1, DeployType, GotoType
<1>2. CASE UNCHANGED <<chainVars, found>>
  BY <1>2, GotoType DEF chainVars, ChainTypeOK, DeploymentTypeOK
<1> QED
  BY <1>1, <1>2 DEF Reuse

LEMMA SetLinkGoes ==
  ASSUME DeploymentTypeOK, NEW a, NEW l \in Link, NEW v \in Addresses \cup {None}, NEW p,
         SetLink(a, l, v) \/ UNCHANGED <<chainVars, found>>, Goto(p)
  PROVE  DeploymentTypeOK'
<1>1. CASE SetLink(a, l, v)
  <2>1. ChainTypeOK' /\ nonce' = nonce + 1 /\ nonce \in Nat /\ UNCHANGED found
    BY <1>1, SetLinkType
  <2>2. ASSUME \A g \in Field : found[g] <= nonce, NEW g \in Field
        PROVE  found'[g] <= nonce'
    <3>1. found[g] \in Nat
      BY DEF DeploymentTypeOK, Registry, Addresses, None
    <3> QED
      BY <2>1, <2>2, <3>1
  <2> QED
    BY <2>1, <2>2, GotoType
<1>2. CASE UNCHANGED <<chainVars, found>>
  BY <1>2, GotoType DEF chainVars, ChainTypeOK, DeploymentTypeOK
<1> QED
  BY <1>1, <1>2

LEMMA CoreStepType ==
  ASSUME DeploymentTypeOK, CoreStep
  PROVE  DeploymentTypeOK'
<1>1. \A f \in Field : found[f] \in Addresses \cup {None}
  BY FoundType
<1>2. /\ [Unlinked EXCEPT !["settlementEngine"] = found["settlementEngine"]]
           \in [Link -> Addresses \cup {None}]
      /\ [Unlinked EXCEPT !["adapter"] = found["adapter"], !["slashedPot"] = found["slashedPot"],
                          !["implementation"] = found["implementation"]]
           \in [Link -> Addresses \cup {None}]
  BY <1>1, UnlinkedType DEF Field
<1>3. CASE CoreAdapter \/ CoreEngine \/ CoreAvs \/ CorePot \/ CoreImplementation \/ CoreProxy
  BY <1>2, <1>3, UnlinkedType, DeployGoes
     DEF CoreAdapter, CoreEngine, CoreAvs, CorePot, CoreImplementation, CoreProxy, Field
<1>4. ASSUME NEW p, NEW f, NEW l \in Link, NEW v \in Addresses \cup {None}, NEW next,
             Wire(p, f, l, v, next)
      PROVE  DeploymentTypeOK'
  BY <1>4, ThrowType, SetLinkGoes DEF Wire
<1>5. CASE CoreSetMarket \/ CoreSetEngine \/ CoreSetAVS
  BY <1>1, <1>4, <1>5 DEF CoreSetMarket, CoreSetEngine, CoreSetAVS, Field, Link
<1>6. CASE CoreWrite
  BY <1>6, SaveType DEF CoreWrite, DeploymentTypeOK
<1> QED
  BY <1>3, <1>5, <1>6 DEF CoreStep

LEMMA AdaptersStepType ==
  ASSUME DeploymentTypeOK, AdaptersStep
  PROVE  DeploymentTypeOK'
<1>1. CASE AdaptersAdapter \/ AdaptersEngine
  BY <1>1, UnlinkedType, DeployGoes DEF AdaptersAdapter, AdaptersEngine, Field
<1>2. CASE AdaptersWrite
  <2> DEFINE r == [registry EXCEPT !["adapter"] = found["adapter"],
                                   !["settlementEngine"] = found["settlementEngine"]]
  <2>1. r \in Registry /\ \A f \in Field : r[f] \in {registry[f], found[f]}
    BY DEF DeploymentTypeOK, Registry, Field
  <2>2. resets = 0 => \A f \in Field : r[f] <= nonce
    BY <2>1 DEF DeploymentTypeOK
  <2>3. Save(r)
    BY <1>2 DEF AdaptersWrite
  <2> HIDE DEF r
  <2> QED
    BY <2>1, <2>2, <2>3, SaveType
<1> QED
  BY <1>1, <1>2 DEF AdaptersStep

LEMMA RotateStepType ==
  ASSUME DeploymentTypeOK, RotateStep
  PROVE  DeploymentTypeOK'
<1>1. CASE UpgradeImplementation \/ NewAdapter
  BY <1>1, UnlinkedType, DeployGoes, ThrowType DEF UpgradeImplementation, NewAdapter, Field
<1>2. CASE UpgradeProxy \/ SetAdapter
  BY <1>2, FoundType, SetLinkGoes, ThrowType DEF UpgradeProxy, SetAdapter, Field, Link
<1>3. CASE UpgradeWrite \/ NewAdapterWrite \/ SetAdapterWrite
  BY <1>3, SaveType DEF UpgradeWrite, NewAdapterWrite, SetAdapterWrite, DeploymentTypeOK
<1> QED
  BY <1>1, <1>2, <1>3 DEF RotateStep

LEMMA TimelockStepType ==
  ASSUME DeploymentTypeOK, TimelockStep
  PROVE  DeploymentTypeOK'
<1>1. CASE TimelockController
  BY <1>1, UnlinkedType, DeployGoes DEF TimelockController, Field
<1>2. ASSUME NEW f, NEW next, TransferOwnershipIfNeeded(f, next)
      PROVE  DeploymentTypeOK'
  BY <1>2, FoundType, SetLinkGoes, ThrowType DEF TransferOwnershipIfNeeded, Field, Link
<1>3. CASE TimelockTransfer
  BY <1>2, <1>3 DEF TimelockTransfer
<1>4. CASE TimelockWrite
  BY <1>4, SaveType DEF TimelockWrite, DeploymentTypeOK
<1> QED
  BY <1>1, <1>3, <1>4 DEF TimelockStep

LEMMA ExportType ==
  ASSUME DeploymentTypeOK, Export
  PROVE  DeploymentTypeOK'
<1>1. ASSUME NEW e \in EnvFile, NEW p, NEW next, ExportFile(e, p, next)
      PROVE  DeploymentTypeOK'
  <2>1. CASE Throw
    BY <2>1, ThrowType
  <2>2. ASSUME exported' = [exported EXCEPT ![e] = found["proxy"]],
               \/ script' = "idle" /\ found' = Nothing
               \/ UNCHANGED <<script, found>>,
               UNCHANGED <<nonce, kind, links, registry, runs, crashes, resets>>
        PROVE  DeploymentTypeOK'
    <3>1. exported' \in [EnvFile -> Addresses \cup {None}]
      BY <2>2, FoundType DEF DeploymentTypeOK, Field
    <3>2. nonce \in Nat
      BY DEF DeploymentTypeOK
    <3> QED
      BY <2>2, <3>1, <3>2, NothingType DEF DeploymentTypeOK, Script
  <2> QED
    BY <1>1, <2>1, <2>2 DEF ExportFile, Leave, chainVars, limitVars
<1> QED
  BY <1>1 DEF Export, EnvFile

LEMMA OtherStepType ==
  ASSUME DeploymentTypeOK, Start \/ Interrupted \/ ChainReset
  PROVE  DeploymentTypeOK'
<1>1. ASSUME NEW s \in Script, NEW p, Begin(s, p)
      PROVE  DeploymentTypeOK'
  <2>1. /\ script' = s /\ found' = registry /\ runs' = runs + 1 /\ runs < RunLimit
        /\ UNCHANGED <<nonce, kind, links, registry, exported, crashes, resets>>
    BY <1>1 DEF Begin, chainVars
  <2> QED
    BY <2>1, DeploymentAssumption DEF DeploymentTypeOK
<1>2. CASE Start
  BY <1>1, <1>2 DEF Start, Script
<1>3. CASE Interrupted
  <2>1. /\ script' = "idle" /\ found' = Nothing /\ crashes' = crashes + 1 /\ crashes < CrashLimit
        /\ registry' = registry \/ registry' = Nothing
        /\ UNCHANGED <<nonce, kind, links, exported, runs, resets>>
    BY <1>3 DEF Interrupted, Leave, chainVars
  <2>2. nonce \in Nat
    BY DEF DeploymentTypeOK
  <2> QED
    BY <2>1, <2>2, NothingType, DeploymentAssumption DEF DeploymentTypeOK, Script
<1>4. CASE ChainReset
  <2>1. /\ resets' = resets + 1 /\ resets < ResetLimit /\ nonce' = 0
        /\ kind' = [a \in Addresses |-> "none"] /\ links' = [a \in Addresses |-> Unlinked]
        /\ UNCHANGED <<registry, exported, script, found, runs, crashes>>
    BY <1>4 DEF ChainReset, scriptVars
  <2>2. resets' # 0 /\ resets' \in 0..ResetLimit /\ nonce' \in 0..MaxNonce
    BY <2>1, DeploymentAssumption DEF DeploymentTypeOK
  <2>3. kind' \in [Addresses -> Kind] /\ links' \in [Addresses -> [Link -> Addresses \cup {None}]]
    BY <2>1, UnlinkedType DEF Kind
  <2> QED
    BY <2>1, <2>2, <2>3 DEF DeploymentTypeOK
<1> QED
  BY <1>2, <1>3, <1>4

LEMMA NextTypeDeployment ==
  ASSUME DeploymentTypeOK, [DeploymentNext]_deploymentVars
  PROVE  DeploymentTypeOK'
<1>1. CASE DeploymentNext
  BY <1>1, CoreStepType, AdaptersStepType, RotateStepType, TimelockStepType, ExportType,
     OtherStepType DEF DeploymentNext
<1>2. CASE UNCHANGED deploymentVars
  BY <1>2 DEF deploymentVars, chainVars, scriptVars, limitVars, DeploymentTypeOK
<1> QED
  BY <1>1, <1>2

LEMMA InitTypeDeployment == DeploymentInit => DeploymentTypeOK
BY DeploymentAssumption, NothingType, UnlinkedType
   DEF DeploymentInit, DeploymentTypeOK, Kind, Script, EnvFile, None


-----------------------------------------------------------------------------
(* What a running script has done.                                         *)

(* A new contract lies where there was nothing.                            *)
LEMMA CreateKeeps ==
  ASSUME DeploymentTypeOK, ChainInv, NEW k \in Kind, NEW links0 \in [Link -> Addresses \cup {None}],
         Create(k, links0)
  PROVE  /\ nonce + 1 \in Addresses /\ kind'[nonce + 1] = k /\ links'[nonce + 1] = links0
         /\ kind[nonce + 1] = "none"
         /\ \A a \in Addresses : kind[a] # "none" => kind'[a] = kind[a] /\ links'[a] = links[a]
         /\ ChainInv'
<1>1. nonce' = nonce + 1 /\ nonce \in Nat /\ nonce + 1 \in Addresses
  BY CreateType
<1>2. kind' = [kind EXCEPT ![nonce + 1] = k] /\ links' = [links EXCEPT ![nonce + 1] = links0]
  BY DEF Create
<1>3. kind \in [Addresses -> Kind] /\ links \in [Addresses -> [Link -> Addresses \cup {None}]]
  BY DEF DeploymentTypeOK
<1>4. ASSUME NEW a \in Addresses, kind[a] # "none"
      PROVE  a <= nonce /\ a \in Nat
  BY <1>4 DEF ChainInv, Addresses
<1>5. kind[nonce + 1] = "none"
  BY <1>1, <1>4
<1>6. ASSUME NEW a \in Addresses, kind[a] # "none"
      PROVE  kind'[a] = kind[a] /\ links'[a] = links[a]
  BY <1>2, <1>3, <1>5, <1>6
<1>7. ASSUME NEW a \in Addresses, kind'[a] # "none"
      PROVE  a <= nonce'
  <2>1. a = nonce + 1 \/ kind[a] # "none"
    BY <1>2, <1>3, <1>7
  <2> QED
    BY <1>1, <1>4, <2>1
<1> QED
  BY <1>1, <1>2, <1>3, <1>5, <1>6, <1>7 DEF ChainInv

LEMMA DeployKeeps ==
  ASSUME DeploymentTypeOK, ChainInv, NEW f \in Field, NEW links0 \in [Link -> Addresses \cup {None}],
         Deploy(f, links0)
  PROVE  /\ found'[f] \in Addresses /\ found'[f] # None
         /\ kind[found'[f]] = "none" /\ kind'[found'[f]] = f /\ links'[found'[f]] = links0
         /\ \A g \in Field \ {f} : found'[g] = found[g]
         /\ \A a \in Addresses : kind[a] # "none" => kind'[a] = kind[a] /\ links'[a] = links[a]
         /\ ChainInv'
<1>1. Create(f, links0) /\ f \in Kind /\ found' = [found EXCEPT ![f] = nonce + 1]
  BY DEF Deploy, Kind
<1>2. /\ nonce + 1 \in Addresses /\ kind'[nonce + 1] = f /\ links'[nonce + 1] = links0
      /\ kind[nonce + 1] = "none"
      /\ \A a \in Addresses : kind[a] # "none" => kind'[a] = kind[a] /\ links'[a] = links[a]
      /\ ChainInv'
  BY <1>1, CreateKeeps
<1>3. found'[f] = nonce + 1 /\ \A g \in Field \ {f} : found'[g] = found[g]
  BY <1>1 DEF DeploymentTypeOK, Registry
<1>4. nonce + 1 # None
  BY <1>2 DEF Addresses, None
<1> QED
  BY <1>2, <1>3, <1>4

LEMMA SetLinkKeeps ==
  ASSUME DeploymentTypeOK, ChainInv, NEW a, NEW l \in Link, NEW v, SetLink(a, l, v)
  PROVE  /\ UNCHANGED <<kind, found>> /\ ChainInv'
         /\ a \in Addresses => links'[a][l] = v
         /\ \A b \in Addresses, m \in Link : b # a \/ m # l => links'[b][m] = links[b][m]
<1>1. /\ nonce' = nonce + 1 /\ nonce \in Nat /\ UNCHANGED <<kind, found>>
      /\ links' = [links EXCEPT ![a][l] = v]
      /\ links \in [Addresses -> [Link -> Addresses \cup {None}]]
  BY DEF SetLink, DeploymentTypeOK
<1>2. ChainInv'
  <2>1. \A b \in Addresses : b \in Nat
    BY DEF Addresses
  <2> QED
    BY <1>1, <2>1 DEF ChainInv
<1> QED
  BY <1>1, <1>2

(* A reused contract is where it was, a new one where there was nothing.   *)
LEMMA ReuseKeeps ==
  ASSUME DeploymentTypeOK, ChainInv, NEW f \in Field, NEW links0 \in [Link -> Addresses \cup {None}],
         Reuse(f, links0)
  PROVE  /\ found'[f] # None
         /\ HasCode(found[f]) => found'[f] = found[f]
         /\ ~HasCode(found[f]) => /\ found'[f] \in Addresses /\ kind[found'[f]] = "none"
                                  /\ kind'[found'[f]] = f /\ links'[found'[f]] = links0
         /\ \A g \in Field \ {f} : found'[g] = found[g]
         /\ \A a \in Addresses : kind[a] # "none" => kind'[a] = kind[a] /\ links'[a] = links[a]
         /\ ChainInv'
<1>1. CASE HasCode(found[f])
  <2>1. UNCHANGED <<nonce, kind, links, found>>
    BY <1>1 DEF Reuse, chainVars
  <2>2. found[f] # None
    BY <1>1 DEF HasCode, Addresses, None
  <2> QED
    BY <1>1, <2>1, <2>2 DEF ChainInv
<1>2. CASE ~HasCode(found[f])
  BY <1>2, DeployKeeps DEF Reuse
<1> QED
  BY <1>1, <1>2

(* Points of other scripts.                                                *)
LEMMA OtherPoints ==
  ASSUME script' \notin {"core", "timelock"} \/ step' \in {"adapter", "deploy"}
  PROVE  CorePoints' /\ HandoverPoints'
BY DEF CorePoints, HandoverPoints, Running

(* A wiring step throws, or goes on with the link set.                     *)
LEMMA WireDoes ==
  ASSUME DeploymentTypeOK, ChainInv, NEW p, NEW f \in Field, NEW l \in Link, NEW v, NEW next,
         Wire(p, f, l, v, next)
  PROVE  /\ At("core", p)
         /\ \/ Throw /\ (~Is(found[f], f) \/ (links[found[f]][l] # v /\ ~Owned(found[f])))
            \/ /\ Is(found[f], f) /\ step' = next /\ script' = script
               /\ UNCHANGED <<kind, found, registry, crashes, resets>> /\ ChainInv'
               /\ links'[found[f]][l] = v
               /\ links[found[f]][l] = v \/ Owned(found[f])
               /\ \A b \in Addresses, m \in Link : b # found[f] \/ m # l => links'[b][m] = links[b][m]
<1>1. CASE Throw /\ (~Is(found[f], f) \/ (links[found[f]][l] # v /\ ~Owned(found[f])))
  BY <1>1 DEF Wire
<1>2. CASE /\ Is(found[f], f) /\ Goto(next)
           /\ links[found[f]][l] = v /\ UNCHANGED <<chainVars, found>>
  BY <1>2 DEF Wire, Goto, chainVars, limitVars, ChainInv
<1>3. CASE /\ Is(found[f], f) /\ Goto(next)
           /\ Owned(found[f]) /\ SetLink(found[f], l, v)
  <2>1. found[f] \in Addresses
    BY <1>3 DEF Is
  <2>2. /\ UNCHANGED <<kind, found>> /\ ChainInv' /\ links'[found[f]][l] = v
        /\ \A b \in Addresses, m \in Link : b # found[f] \/ m # l => links'[b][m] = links[b][m]
    BY <1>3, <2>1, SetLinkKeeps
  <2> QED
    BY <1>3, <2>1, <2>2 DEF Wire, Goto, limitVars
<1> QED
  BY <1>1, <1>2, <1>3 DEF Wire

LEMMA ThrowPoints ==
  ASSUME ChainInv, Throw
  PROVE  ChainInv' /\ CorePoints' /\ HandoverPoints'
<1>1. script' = "idle" /\ UNCHANGED <<nonce, kind>>
  BY DEF Throw, Leave, chainVars
<1> QED
  BY <1>1, OtherPoints DEF ChainInv

(* Of what CorePoints says of the step reached, the previous step leaves   *)
(* one thing to show.                                                      *)
LEMMA CoreStepPoints ==
  ASSUME PointsInv, CoreStep
  PROVE  ChainInv' /\ CorePoints' /\ HandoverPoints'
<1>0. DeploymentTypeOK /\ ChainInv /\ CorePoints
  BY DEF PointsInv
<1>1. \A f \in Field : found[f] \in Addresses \cup {None}
  BY <1>0, FoundType
<1> DEFINE potLinks == [Unlinked EXCEPT !["settlementEngine"] = found["settlementEngine"]]
           proxyLinks == [Unlinked EXCEPT !["adapter"] = found["adapter"],
                                          !["slashedPot"] = found["slashedPot"],
                                          !["implementation"] = found["implementation"]]
<1>2. /\ potLinks \in [Link -> Addresses \cup {None}] /\ proxyLinks \in [Link -> Addresses \cup {None}]
      /\ proxyLinks["slashedPot"] = found["slashedPot"]
  BY <1>1, UnlinkedType DEF Field, Link, Unlinked
<1> HIDE DEF potLinks, proxyLinks
<1>3. CASE CoreAdapter
  <2>1. found'["adapter"] # None /\ ChainInv' /\ script' = "core" /\ step' = "engine"
    BY <1>0, <1>3, ReuseKeeps, UnlinkedType DEF CoreAdapter, At, Goto, Field
  <2> QED
    BY <2>1 DEF CorePoints, HandoverPoints, Running
<1>4. CASE CoreEngine
  <2>1. /\ found'["settlementEngine"] # None /\ found'["adapter"] = found["adapter"]
        /\ ChainInv' /\ script' = "core" /\ step' = "avs" /\ At("core", "engine")
    BY <1>0, <1>4, ReuseKeeps, UnlinkedType DEF CoreEngine, At, Goto, Field
  <2> QED
    BY <1>0, <2>1 DEF CorePoints, HandoverPoints, Running, At
<1>5. CASE CoreAvs
  <2>1. /\ found'["avs"] # None /\ found'["adapter"] = found["adapter"]
        /\ found'["settlementEngine"] = found["settlementEngine"]
        /\ ChainInv' /\ script' = "core" /\ step' = "pot" /\ At("core", "avs")
    BY <1>0, <1>5, ReuseKeeps, UnlinkedType DEF CoreAvs, At, Goto, Field
  <2> QED
    BY <1>0, <2>1 DEF CorePoints, HandoverPoints, Running, At
<1>6. CASE CorePot
  <2>1. Reuse("slashedPot", potLinks) /\ At("core", "pot") /\ Goto("implementation")
    BY <1>6 DEF CorePot, potLinks
  <2>2. /\ found'["slashedPot"] # None /\ found'["adapter"] = found["adapter"]
        /\ found'["settlementEngine"] = found["settlementEngine"] /\ found'["avs"] = found["avs"]
        /\ ChainInv'
    BY <1>0, <1>2, <2>1, ReuseKeeps DEF Field
  <2>3. script' = "core" /\ step' = "implementation"
    BY <2>1 DEF At, Goto
  <2> QED
    BY <1>0, <2>1, <2>2, <2>3 DEF CorePoints, HandoverPoints, Running, At
<1>7. CASE CoreImplementation
  <2>1. /\ found'["implementation"] # None
        /\ \A f \in Field \ {"implementation"} : found'[f] = found[f]
        /\ ChainInv' /\ script' = "core" /\ step' = "proxy" /\ At("core", "implementation")
    BY <1>0, <1>7, DeployKeeps, UnlinkedType DEF CoreImplementation, At, Goto, Field
  <2> QED
    BY <1>0, <2>1 DEF CorePoints, HandoverPoints, Running, At, Field
<1>8. CASE CoreProxy
  <2>1. Deploy("proxy", proxyLinks) /\ At("core", "proxy") /\ Goto("setMarket")
    BY <1>8 DEF CoreProxy, proxyLinks
  <2>2. /\ found'["proxy"] \in Addresses /\ kind'[found'["proxy"]] = "proxy"
        /\ links'[found'["proxy"]] = proxyLinks
        /\ \A f \in Field \ {"proxy"} : found'[f] = found[f]
        /\ ChainInv'
    BY <1>0, <1>2, <2>1, DeployKeeps DEF Field
  <2>3. Is(found["proxy"], "proxy")' /\ links'[found'["proxy"]]["slashedPot"] = found'["slashedPot"]
    BY <1>2, <2>2 DEF Is, Field
  <2>4. script' = "core" /\ step' = "setMarket"
    BY <2>1 DEF At, Goto
  <2> QED
    BY <1>0, <2>1, <2>2, <2>3, <2>4 DEF CorePoints, HandoverPoints, Running, At, Field
<1>9. CASE CoreSetMarket
  <2>1. Wire("setMarket", "slashedPot", "market", found["proxy"], "setEngine")
    BY <1>9 DEF CoreSetMarket
  <2>2. CASE Throw
    BY <1>0, <2>2, ThrowPoints
  <2>3. CASE ~Throw
    <3>1. /\ At("core", "setMarket") /\ Is(found["slashedPot"], "slashedPot")
          /\ script' = script /\ step' = "setEngine"
          /\ UNCHANGED <<kind, found>> /\ ChainInv'
          /\ links'[found["slashedPot"]]["market"] = found["proxy"]
          /\ \A b \in Addresses : links'[b]["slashedPot"] = links[b]["slashedPot"]
      BY <1>0, <2>1, <2>3, WireDoes DEF Field, Link
    <3> QED
      BY <1>0, <3>1 DEF CorePoints, HandoverPoints, Running, At, Is
  <2> QED
    BY <2>2, <2>3
<1>10. CASE CoreSetEngine
  <2>1. Wire("setEngine", "proxy", "settlementEngine", found["settlementEngine"], "setAVS")
    BY <1>10 DEF CoreSetEngine
  <2>2. CASE Throw
    BY <1>0, <2>2, ThrowPoints
  <2>3. CASE ~Throw
    <3>1. /\ At("core", "setEngine") /\ script' = script /\ step' = "setAVS"
          /\ UNCHANGED <<kind, found>> /\ ChainInv'
          /\ links'[found["proxy"]]["settlementEngine"] = found["settlementEngine"]
          /\ \A b \in Addresses : /\ links'[b]["slashedPot"] = links[b]["slashedPot"]
                                  /\ links'[b]["market"] = links[b]["market"]
      BY <1>0, <2>1, <2>3, WireDoes DEF Field, Link
    <3> QED
      BY <1>0, <3>1 DEF CorePoints, HandoverPoints, Running, At, Is
  <2> QED
    BY <2>2, <2>3
<1>11. CASE CoreSetAVS
  <2>1. Wire("setAVS", "settlementEngine", "avs", found["avs"], "write")
    BY <1>11 DEF CoreSetAVS
  <2>2. CASE Throw
    BY <1>0, <2>2, ThrowPoints
  <2>3. CASE ~Throw
    <3>1. /\ At("core", "setAVS") /\ script' = script /\ step' = "write"
          /\ Is(found["settlementEngine"], "settlementEngine")
          /\ UNCHANGED <<kind, found>> /\ ChainInv'
          /\ links'[found["settlementEngine"]]["avs"] = found["avs"]
          /\ \A b \in Addresses : /\ links'[b]["slashedPot"] = links[b]["slashedPot"]
                                  /\ links'[b]["market"] = links[b]["market"]
                                  /\ links'[b]["settlementEngine"] = links[b]["settlementEngine"]
      BY <1>0, <2>1, <2>3, WireDoes DEF Field, Link
    <3> QED
      BY <1>0, <3>1 DEF CorePoints, HandoverPoints, Running, At, Is
  <2> QED
    BY <2>2, <2>3
<1>12. CASE CoreWrite
  <2>1. script' = "idle" /\ UNCHANGED <<nonce, kind>>
    BY <1>12 DEF CoreWrite, Save, Leave, chainVars
  <2> QED
    BY <1>0, <2>1, OtherPoints DEF ChainInv
<1> QED
  BY <1>3, <1>4, <1>5, <1>6, <1>7, <1>8, <1>9, <1>10, <1>11, <1>12 DEF CoreStep

(* A transfer throws, or goes on with the timelock as the owner.           *)
LEMMA TransferDoes ==
  ASSUME DeploymentTypeOK, ChainInv, NEW f \in Field, NEW next, TransferOwnershipIfNeeded(f, next)
  PROVE  LET timelock == found["timelockController"] IN
         /\ At("timelock", f)
         /\ \/ /\ Throw
               /\ \/ \E o \in Ownable : found[o] = None
                  \/ ~HasOwner(found[f])
                  \/ links[found[f]]["owner"] # timelock /\ ~Owned(found[f])
            \/ /\ \A o \in Ownable : found[o] # None
               /\ found[f] \in Addresses /\ step' = next /\ script' = script
               /\ UNCHANGED <<kind, found, registry, crashes, resets>> /\ ChainInv'
               /\ links'[found[f]]["owner"] = timelock
               /\ \A b \in Addresses, m \in Link :
                    b # found[f] \/ m # "owner" => links'[b][m] = links[b][m]
<1> DEFINE a == found[f]
           timelock == found["timelockController"]
<1>1. CASE Throw /\ ((\E o \in Ownable : found[o] = None) \/ ~HasOwner(a)
                       \/ (links[a]["owner"] # timelock /\ ~Owned(a)))
  BY <1>1 DEF TransferOwnershipIfNeeded
<1>2. CASE /\ \A o \in Ownable : found[o] # None
           /\ HasOwner(a) /\ Goto(next)
           /\ links[a]["owner"] = timelock /\ UNCHANGED <<chainVars, found>>
  BY <1>2 DEF TransferOwnershipIfNeeded, Goto, chainVars, limitVars, ChainInv, HasOwner
<1>3. CASE /\ \A o \in Ownable : found[o] # None
           /\ HasOwner(a) /\ Goto(next) /\ SetLink(a, "owner", timelock)
  <2>1. a \in Addresses /\ "owner" \in Link
    BY <1>3 DEF HasOwner, Link
  <2> HIDE DEF a, timelock
  <2>2. /\ UNCHANGED <<kind, found>> /\ ChainInv' /\ links'[a]["owner"] = timelock
        /\ \A b \in Addresses, m \in Link : b # a \/ m # "owner" => links'[b][m] = links[b][m]
    BY <1>3, <2>1, SetLinkKeeps
  <2> QED
    BY <1>3, <2>1, <2>2 DEF TransferOwnershipIfNeeded, Goto, limitVars, a, timelock
<1> QED
  BY <1>1, <1>2, <1>3 DEF TransferOwnershipIfNeeded

LEMMA TimelockStepPoints ==
  ASSUME PointsInv, TimelockStep
  PROVE  ChainInv' /\ CorePoints' /\ HandoverPoints'
<1>0. DeploymentTypeOK /\ ChainInv /\ HandoverPoints
  BY DEF PointsInv
<1>1. CASE TimelockController
  <2>1. /\ found'["timelockController"] # None /\ ChainInv'
        /\ script' = "timelock" /\ step' = "proxy"
    BY <1>0, <1>1, ReuseKeeps, UnlinkedType DEF TimelockController, At, Goto, Field
  <2> QED
    BY <2>1 DEF CorePoints, HandoverPoints, Running
<1>2. CASE TimelockTransfer
  <2> DEFINE timelock == found["timelockController"]
  <2>1. CASE Throw
    BY <1>0, <2>1, ThrowPoints
  <2>2. CASE ~Throw
    <3>1. PICK f \in Field, next \in {"settlementEngine", "slashedPot", "write"} :
            /\ TransferOwnershipIfNeeded(f, next)
            /\ \/ f = "proxy" /\ next = "settlementEngine"
               \/ f = "settlementEngine" /\ next = "slashedPot"
               \/ f = "slashedPot" /\ next = "write"
      BY <1>2 DEF TimelockTransfer, Field
    <3>2. /\ At("timelock", f) /\ \A o \in Ownable : found[o] # None
          /\ step' = next /\ script' = script
          /\ UNCHANGED <<kind, found>> /\ ChainInv'
          /\ links'[found[f]]["owner"] = timelock
          /\ \A b \in Addresses : b # found[f] => links'[b]["owner"] = links[b]["owner"]
      BY <1>0, <2>2, <3>1, TransferDoes DEF Link
    <3>3. \A o \in Ownable : found[o] \in Addresses
      BY <1>0, <3>2, FoundType DEF Ownable, Field
    <3>4. \A o \in Ownable : links[found[o]]["owner"] = timelock => links'[found[o]]["owner"] = timelock
      BY <3>2, <3>3
    <3> QED
      BY <1>0, <3>1, <3>2, <3>4 DEF CorePoints, HandoverPoints, Running, At, Ownable
  <2> QED
    BY <2>1, <2>2
<1>3. CASE TimelockWrite
  <2>1. script' = "idle" /\ UNCHANGED <<nonce, kind>>
    BY <1>3 DEF TimelockWrite, Save, Leave, chainVars
  <2> QED
    BY <1>0, <2>1, OtherPoints DEF ChainInv
<1> QED
  BY <1>1, <1>2, <1>3 DEF TimelockStep

(* The other scripts leave the chain alone, add to it, or set a link.      *)
LEMMA OtherStepPoints ==
  ASSUME PointsInv, Start \/ AdaptersStep \/ Export \/ RotateStep \/ Interrupted \/ ChainReset
  PROVE  ChainInv' /\ CorePoints' /\ HandoverPoints'
<1>0. DeploymentTypeOK /\ ChainInv
  BY DEF PointsInv
<1>1. CASE Start
  <2>1. /\ script' \notin {"core", "timelock"} \/ step' \in {"adapter", "deploy"}
        /\ UNCHANGED <<nonce, kind>>
    BY <1>1 DEF Start, Begin, chainVars
  <2> QED
    BY <1>0, <2>1, OtherPoints DEF ChainInv
<1>2. CASE AdaptersStep \/ NewAdapter \/ UpgradeImplementation
  <2>1. ChainInv' \/ Throw
    BY <1>0, <1>2, DeployKeeps, UnlinkedType
       DEF AdaptersStep, AdaptersAdapter, AdaptersEngine, AdaptersWrite, NewAdapter,
           UpgradeImplementation, Save, chainVars, ChainInv, Field
  <2>2. script' \in {"adapters", "newAdapter", "upgrade", "idle"}
    BY <1>2 DEF AdaptersStep, AdaptersAdapter, AdaptersEngine, AdaptersWrite, NewAdapter,
                UpgradeImplementation, Save, Leave, Throw, At, Goto
  <2> QED
    BY <1>0, <2>1, <2>2, OtherPoints, ThrowPoints
<1>3. CASE UpgradeProxy \/ SetAdapter
  <2>1. ChainInv' \/ Throw
    BY <1>0, <1>3, SetLinkKeeps DEF UpgradeProxy, SetAdapter, Link
  <2>2. script' \in {"upgrade", "setAdapter", "idle"}
    BY <1>3 DEF UpgradeProxy, SetAdapter, Leave, Throw, At, Goto
  <2> QED
    BY <1>0, <2>1, <2>2, OtherPoints, ThrowPoints
<1>4. CASE Export \/ UpgradeWrite \/ NewAdapterWrite \/ SetAdapterWrite \/ Interrupted
  <2>1. script' \in {"export", "idle"} /\ UNCHANGED <<nonce, kind>>
    BY <1>4 DEF Export, ExportFile, UpgradeWrite, NewAdapterWrite, SetAdapterWrite, Interrupted,
                Save, Leave, Throw, At, chainVars
  <2> QED
    BY <1>0, <2>1, OtherPoints DEF ChainInv
<1>5. CASE ChainReset
  <2>1. script' = "idle" /\ \A a \in Addresses : kind'[a] = "none"
    BY <1>5 DEF ChainReset, scriptVars
  <2> QED
    BY <2>1, OtherPoints DEF ChainInv
<1> QED
  BY <1>1, <1>2, <1>3, <1>4, <1>5 DEF RotateStep

LEMMA NextPoints == PointsInv /\ [DeploymentNext]_deploymentVars => PointsInv'
<1> SUFFICES ASSUME PointsInv, [DeploymentNext]_deploymentVars PROVE PointsInv'
  OBVIOUS
<1>1. DeploymentTypeOK'
  BY NextTypeDeployment DEF PointsInv
<1>2. CASE DeploymentNext
  BY <1>1, <1>2, CoreStepPoints, TimelockStepPoints, OtherStepPoints DEF DeploymentNext, PointsInv
<1>3. CASE UNCHANGED deploymentVars
  BY <1>1, <1>3 DEF deploymentVars, chainVars, scriptVars, PointsInv, ChainInv, CorePoints,
                    HandoverPoints, Running, Is
<1> QED
  BY <1>2, <1>3

LEMMA InitPoints == DeploymentInit => PointsInv
BY InitTypeDeployment DEF DeploymentInit, PointsInv, ChainInv, CorePoints, HandoverPoints, Running

LEMMA SpecPoints == DeploymentSpec => []PointsInv
BY InitPoints, NextPoints, PTL DEF DeploymentSpec

(* The scripts keep the types of chain, files and addresses, and on the    *)
(* first chain never name an address beyond the signer's nonce.            *)
THEOREM DeploymentTypeCorrect == DeploymentSpec => []DeploymentTypeOK
<1>1. PointsInv => DeploymentTypeOK
  BY DEF PointsInv
<1> QED
  BY <1>1, SpecPoints, PTL

(* Whatever was left behind by crashes, restarts and other scripts: the    *)
(* core deployment saves nothing that it has not wired                     *)
(* (01_deploy_core_proxy.ts:101-133).                                      *)
THEOREM CoreAlwaysWires == DeploymentSpec => CoreWires
<1>1. ASSUME PointsInv, CoreWrite
      PROVE  Served(registry') /\ links[registry'["settlementEngine"]]["avs"] = registry'["avs"]
  <2>1. CorePoints /\ Running("core", {"write"}) /\ registry' = found
    BY <1>1 DEF PointsInv, CoreWrite, At, Running, Save
  <2> QED
    BY <2>1 DEF CorePoints, Running, Served, Is
<1> QED
  BY <1>1, SpecPoints, PTL DEF CoreWires

(* Whatever was left behind, the hand-over saves a timelock only when it   *)
(* owns the market, the engine and the pot of the registry                 *)
(* (08_deploy_admin_timelock.ts:105-121).                                  *)
THEOREM HandoverAlwaysComplete == DeploymentSpec => HandoverComplete
<1>1. ASSUME PointsInv, TimelockWrite
      PROVE  \A f \in Ownable : links[registry'[f]]["owner"] = registry'["timelockController"]
  <2>1. HandoverPoints /\ Running("timelock", {"write"}) /\ registry' = found
    BY <1>1 DEF PointsInv, TimelockWrite, At, Running, Save
  <2> QED
    BY <2>1 DEF HandoverPoints, Running, Ownable
<1> QED
  BY <1>1, SpecPoints, PTL DEF HandoverComplete


-----------------------------------------------------------------------------
(* What the registry records.                                              *)

(* What lies on the chain keeps its kind and the links that matter.        *)
SameChain(K, L, K2, L2) ==
  \A a \in Addresses : K[a] # "none" =>
    K2[a] = K[a] /\ \A l \in Wiring : L2[a][l] = L[a][l]

LEMMA RecordedSame ==
  ASSUME NEW K, NEW L, NEW K2, NEW L2, NEW r, SameChain(K, L, K2, L2), Recorded(K, r)
  PROVE  Recorded(K2, r)
BY DEF SameChain, Recorded, Lies, Field

LEMMA WiredSame ==
  ASSUME NEW K, NEW L, NEW K2, NEW L2, NEW r, SameChain(K, L, K2, L2), Recorded(K, r),
         Wired(K, L, r)
  PROVE  Wired(K2, L2, r)
<1> SUFFICES ASSUME r["proxy"] # None PROVE Wired(K2, L2, r)
  BY DEF Wired
<1>1. \A f \in Field \ {"timelockController"} : r[f] # None
  BY DEF Wired
<1>2. /\ r["proxy"] \in Addresses /\ K[r["proxy"]] # "none"
      /\ r["slashedPot"] \in Addresses /\ K[r["slashedPot"]] # "none"
  BY <1>1 DEF Recorded, Lies, Field
<1>3. /\ L2[r["proxy"]]["slashedPot"] = L[r["proxy"]]["slashedPot"]
      /\ L2[r["proxy"]]["settlementEngine"] = L[r["proxy"]]["settlementEngine"]
      /\ L2[r["slashedPot"]]["market"] = L[r["slashedPot"]]["market"]
  BY <1>2 DEF SameChain, Wiring
<1> DEFINE e == L[r["proxy"]]["settlementEngine"]
<1>4. e \in Addresses /\ K[e] = "settlementEngine" /\ L[e]["avs"] = r["avs"]
  BY DEF Wired, Lies
<1>5. K2[e] = "settlementEngine" /\ L2[e]["avs"] = r["avs"]
  BY <1>4 DEF SameChain, Wiring
<1> QED
  BY <1>1, <1>3, <1>4, <1>5 DEF Wired, Lies

LEMMA SignerOwnsSame ==
  ASSUME NEW K, NEW L, NEW K2, NEW L2, NEW r, SameChain(K, L, K2, L2), Recorded(K, r),
         SignerOwns(L, r)
  PROVE  SignerOwns(L2, r)
BY DEF SameChain, Recorded, Lies, SignerOwns, Ownable, Field, Wiring

LEMMA GoodSame ==
  ASSUME NEW K, NEW L, NEW K2, NEW L2, NEW r, SameChain(K, L, K2, L2), Good(K, L, r)
  PROVE  Good(K2, L2, r)
<1>1. Recorded(K, r) /\ Wired(K, L, r) /\ HandedOver(L, r)
  BY DEF Good
<1>2. Recorded(K2, r) /\ Wired(K2, L2, r)
  BY <1>1, RecordedSame, WiredSame
<1>3. CASE r["timelockController"] = None
  BY <1>1, <1>2, <1>3, SignerOwnsSame DEF HandedOver, Good
<1>4. CASE r["timelockController"] # None
  <2>1. TimelockOwns(L, r)
    BY <1>1, <1>4 DEF HandedOver
  <2>2. \A f \in Ownable : r[f] \in Addresses /\ K[r[f]] # "none"
    BY <1>1, <2>1 DEF TimelockOwns, Wired, Recorded, Lies, Ownable, Field
  <2>3. \A f \in Ownable : L2[r[f]]["owner"] = L[r[f]]["owner"]
    BY <2>2 DEF SameChain, Wiring
  <2>4. L2[r["proxy"]]["settlementEngine"] = L[r["proxy"]]["settlementEngine"]
    BY <2>2 DEF SameChain, Wiring, Ownable
  <2>5. TimelockOwns(L2, r)
    BY <2>1, <2>3, <2>4 DEF TimelockOwns, Ownable
  <2> QED
    BY <1>2, <1>4, <2>5 DEF HandedOver, Good
<1> QED
  BY <1>3, <1>4

(* Another implementation or adapter makes no difference.                  *)
LEMMA GoodRotated ==
  ASSUME Good(kind, links, registry), Recorded(kind, found),
         NEW f \in {"implementation", "adapter"}, AgreesBut(f)
  PROVE  Good(kind, links, found)
<1>1. \A g \in Field \ {f} : found[g] = registry[g]
  BY DEF AgreesBut
<1>2. registry[f] # None => found[f] # None
  BY DEF AgreesBut
<1>3. Wired(kind, links, found)
  BY <1>1, <1>2 DEF Good, Wired, Field
<1>4. HandedOver(links, found)
  BY <1>1 DEF Good, HandedOver, SignerOwns, TimelockOwns, Ownable, Field
<1> QED
  BY <1>3, <1>4 DEF Good

(* Contracts that a script deploys or reuses.                              *)
LEMMA DeployRecorded ==
  ASSUME DeploymentTypeOK, ChainInv, Recorded(kind, found), NEW f \in Field,
         NEW links0 \in [Link -> Addresses \cup {None}], Deploy(f, links0) \/ Reuse(f, links0)
  PROVE  /\ SameChain(kind, links, kind', links') /\ Recorded(kind', found')
         /\ \A g \in Field \ {f} : found'[g] = found[g]
         /\ found'[f] # None
         /\ \/ found'[f] = found[f] /\ found[f] # None
            \/ kind[found'[f]] = "none" /\ links'[found'[f]] = links0
         /\ Deploy(f, links0) => kind[found'[f]] = "none" /\ links'[found'[f]] = links0
         /\ Reuse(f, links0) /\ found[f] # None => found'[f] = found[f]
<1>1. CASE Deploy(f, links0)
  <2>1. /\ found'[f] \in Addresses /\ found'[f] # None
        /\ kind[found'[f]] = "none" /\ kind'[found'[f]] = f /\ links'[found'[f]] = links0
        /\ \A g \in Field \ {f} : found'[g] = found[g]
        /\ \A a \in Addresses : kind[a] # "none" => kind'[a] = kind[a] /\ links'[a] = links[a]
    BY <1>1, DeployKeeps
  <2>2. SameChain(kind, links, kind', links')
    BY <2>1 DEF SameChain
  <2>3. Recorded(kind', found)
    BY <2>2, RecordedSame
  <2>4. Recorded(kind', found')
    BY <2>1, <2>3 DEF Recorded, Lies
  <2>5. Reuse(f, links0) /\ found[f] # None => found'[f] = found[f]
    BY DEF Reuse, Recorded, Lies, HasCode, Field
  <2> QED
    BY <2>1, <2>2, <2>4, <2>5
<1>2. CASE ~Deploy(f, links0)
  <2>1. HasCode(found[f]) /\ UNCHANGED <<kind, links, found>>
    BY <1>2 DEF Reuse, chainVars
  <2>2. found[f] # None
    BY <2>1 DEF HasCode, Addresses, None
  <2>3. SameChain(kind, links, kind', links') /\ Recorded(kind', found')
    BY <2>1 DEF SameChain
  <2> QED
    BY <1>2, <2>1, <2>2, <2>3
<1> QED
  BY <1>1, <1>2

LEMMA SetLinkSame ==
  ASSUME DeploymentTypeOK, ChainInv, NEW a, NEW l \in Link \ Wiring, NEW v, SetLink(a, l, v)
  PROVE  SameChain(kind, links, kind', links') /\ UNCHANGED <<kind, found>>
<1>1. /\ UNCHANGED <<kind, found>>
      /\ \A b \in Addresses, m \in Link : m # l => links'[b][m] = links[b][m]
  <2>1. l \in Link
    OBVIOUS
  <2>2. UNCHANGED <<kind, found>>
    BY <2>1, SetLinkKeeps
  <2>3. ASSUME NEW b \in Addresses, NEW m \in Link, m # l
        PROVE  links'[b][m] = links[b][m]
    BY <2>1, <2>3 DEF SetLink, DeploymentTypeOK
  <2> QED
    BY <2>2, <2>3
<1>2. Wiring \subseteq Link /\ l \notin Wiring
  BY DEF Wiring, Link
<1> QED
  BY <1>1, <1>2 DEF SameChain

(* Between two scripts there is only the registry.                         *)
LEMMA IdleRegistry ==
  ASSUME Leave, UNCHANGED <<kind, links>>, Good(kind, links, registry')
  PROVE  RegistryInv'
<1>1. script' = "idle" /\ found' = Nothing
  BY DEF Leave
<1>2. Recorded(kind', found')
  BY <1>1 DEF Recorded, Nothing
<1>3. Good(kind', links', registry') /\ Recorded(kind', registry')
  BY DEF Good
<1> QED
  BY <1>1, <1>2, <1>3
     DEF RegistryInv, AdaptersFound, CoreFound, RotationFound, TimelockFound, Running

LEMMA ThrowRegistry ==
  ASSUME RegistryInv, ~LastSteps, Throw
  PROVE  RegistryInv'
<1>1. Leave /\ UNCHANGED <<kind, links, registry>> /\ Good(kind, links, registry)
  BY DEF Throw, chainVars, RegistryInv
<1> QED
  BY <1>1, IdleRegistry

LEMMA SaveRegistry ==
  ASSUME NEW r, Good(kind, links, r), Save(r)
  PROVE  RegistryInv'
<1>1. Leave /\ UNCHANGED <<kind, links>> /\ registry' = r
  BY DEF Save, chainVars
<1> QED
  BY <1>1, IdleRegistry

LEMMA StartRegistry ==
  ASSUME RegistryInv, Start
  PROVE  RegistryInv'
<1>1. /\ script = "idle" /\ found' = registry /\ UNCHANGED <<kind, links, registry>>
      /\ script' \in Script \ {"idle"}
      /\ script' = "adapters" => step' = "adapter"
      /\ script' = "core" => step' = "adapter"
      /\ script' = "timelock" => step' = "deploy"
  BY DEF Start, Begin, chainVars, Script
<1>2. Good(kind, links, registry)
  BY <1>1 DEF RegistryInv, LastSteps, Running
<1>3. Recorded(kind', registry') /\ Recorded(kind', found') /\ Good(kind', links', registry')
  BY <1>1, <1>2 DEF Good
<1>4. AdaptersFound' /\ RotationFound'
  BY <1>1 DEF AdaptersFound, RotationFound, Running, AgreesBut
<1>5. CoreFound'
  BY <1>1, <1>2 DEF CoreFound, Good, HandedOver
<1>6. TimelockFound'
  <2>1. Wired(kind, links, registry)
    BY <1>2 DEF Good
  <2> QED
    BY <1>1, <2>1 DEF TimelockFound, AgreesBut
<1> QED
  BY <1>3, <1>4, <1>5, <1>6 DEF RegistryInv

(* A script that only builds leaves a Good registry Good.                  *)
LEMMA BuildRegistry ==
  ASSUME PointsInv, RegistryInv, ~LastSteps, SameChain(kind, links, kind', links'),
         UNCHANGED registry
  PROVE  /\ Recorded(kind', registry') /\ Good(kind', links', registry')
         /\ Wired(kind', links', registry')
<1>1. Good(kind, links, registry)
  BY DEF RegistryInv
<1>2. Good(kind', links', registry)
  BY <1>1, GoodSame
<1> QED
  BY <1>2 DEF Good

LEMMA AdaptersRegistry ==
  ASSUME PointsInv, RegistryInv, AdaptersStep
  PROVE  RegistryInv'
<1>0. DeploymentTypeOK /\ ChainInv /\ Recorded(kind, found) /\ Recorded(kind, registry)
  BY DEF PointsInv, RegistryInv
<1>1. script = "adapters" /\ ~LastSteps
  BY DEF AdaptersStep, AdaptersAdapter, AdaptersEngine, AdaptersWrite, At, LastSteps, Running
<1>2. Good(kind, links, registry)
  BY <1>1 DEF RegistryInv
<1>3. CASE AdaptersAdapter
  <2>1. /\ SameChain(kind, links, kind', links') /\ Recorded(kind', found')
        /\ found'["adapter"] # None
    BY <1>0, <1>3, DeployRecorded, UnlinkedType DEF AdaptersAdapter, Field
  <2>2. script' = "adapters" /\ step' = "engine" /\ UNCHANGED registry
    BY <1>3 DEF AdaptersAdapter, At, Goto
  <2>3. Recorded(kind', registry') /\ Good(kind', links', registry')
    BY <1>1, <2>1, <2>2, BuildRegistry
  <2> QED
    BY <2>1, <2>2, <2>3
       DEF RegistryInv, AdaptersFound, CoreFound, RotationFound, TimelockFound, Running
<1>4. CASE AdaptersEngine
  <2>1. /\ SameChain(kind, links, kind', links') /\ Recorded(kind', found')
        /\ found'["adapter"] = found["adapter"] /\ found'["settlementEngine"] # None
        /\ kind[found'["settlementEngine"]] = "none"
        /\ links'[found'["settlementEngine"]] = Unlinked
    BY <1>0, <1>4, DeployRecorded, UnlinkedType DEF AdaptersEngine, Field
  <2>2. /\ script' = "adapters" /\ step' = "write" /\ UNCHANGED registry
        /\ found["adapter"] # None
    BY <1>4 DEF AdaptersEngine, At, Goto, RegistryInv, AdaptersFound, Running
  <2>3. Recorded(kind', registry') /\ Good(kind', links', registry')
    BY <1>1, <2>1, <2>2, BuildRegistry
  <2>4. links'[found'["settlementEngine"]]["owner"] = Signer
    BY <2>1 DEF Unlinked, Link, None, Signer
  <2>5. ASSUME registry["proxy"] # None
        PROVE  found'["settlementEngine"] # links'[registry["proxy"]]["settlementEngine"]
    <3>1. Lies(kind, registry["proxy"], "proxy")
      BY <1>0, <2>5 DEF Recorded, Field
    <3>2. links'[registry["proxy"]]["settlementEngine"] = links[registry["proxy"]]["settlementEngine"]
      BY <2>1, <3>1 DEF SameChain, Wiring, Lies
    <3>3. kind[links[registry["proxy"]]["settlementEngine"]] = "settlementEngine"
      BY <1>2, <2>5 DEF Good, Wired, Lies
    <3> QED
      BY <2>1, <3>2, <3>3
  <2> QED
    BY <2>1, <2>2, <2>3, <2>4, <2>5
       DEF RegistryInv, AdaptersFound, CoreFound, RotationFound, TimelockFound, Running
<1>5. CASE AdaptersWrite
  <2> DEFINE r == [registry EXCEPT !["adapter"] = found["adapter"],
                                   !["settlementEngine"] = found["settlementEngine"]]
             e == found["settlementEngine"]
  <2>1. /\ r["adapter"] = found["adapter"] /\ r["settlementEngine"] = e
        /\ \A f \in Field \ {"adapter", "settlementEngine"} : r[f] = registry[f]
    BY <1>0 DEF DeploymentTypeOK, Registry, Field
  <2>2. Save(r)
    BY <1>5 DEF AdaptersWrite
  <2>3. /\ found["adapter"] # None /\ e # None /\ links[e]["owner"] = Signer
        /\ registry["proxy"] # None => e # links[registry["proxy"]]["settlementEngine"]
    BY <1>5 DEF RegistryInv, AdaptersFound, AdaptersWrite, At, Running
  <2> HIDE DEF r, e
  <2>4. Recorded(kind, r)
    <3>1. \A f \in Field : r[f] = found[f] \/ r[f] = registry[f]
      BY <2>1 DEF e
    <3> QED
      BY <1>0, <3>1 DEF Recorded
  <2>5. Wired(kind, links, r)
    BY <1>2, <2>1, <2>3 DEF Good, Wired, Field
  <2>6. HandedOver(links, r)
    BY <1>2, <2>1, <2>3 DEF Good, HandedOver, SignerOwns, TimelockOwns, Ownable, Field
  <2> QED
    BY <2>2, <2>4, <2>5, <2>6, SaveRegistry DEF Good
<1> QED
  BY <1>3, <1>4, <1>5 DEF AdaptersStep

LEMMA RotateRegistry ==
  ASSUME PointsInv, RegistryInv, RotateStep \/ Export
  PROVE  RegistryInv'
<1>0. DeploymentTypeOK /\ ChainInv /\ Recorded(kind, found) /\ Recorded(kind, registry) /\ RotationFound
  BY DEF PointsInv, RegistryInv
<1>1. script \in {"upgrade", "newAdapter", "setAdapter", "export"} /\ ~LastSteps
  BY DEF RotateStep, UpgradeImplementation, UpgradeProxy, UpgradeWrite, NewAdapter, NewAdapterWrite,
         SetAdapter, SetAdapterWrite, Export, ExportFile, At, LastSteps, Running
<1>2. Good(kind, links, registry)
  BY <1>1 DEF RegistryInv
<1>3. CASE Throw
  BY <1>1, <1>3, ThrowRegistry
<1>4. ASSUME script' = script, UNCHANGED registry, SameChain(kind, links, kind', links'),
             Recorded(kind', found'), RotationFound'
      PROVE  RegistryInv'
  <2>1. Recorded(kind', registry') /\ Good(kind', links', registry')
    BY <1>1, <1>4, BuildRegistry
  <2> QED
    BY <1>1, <1>4, <2>1 DEF RegistryInv, AdaptersFound, CoreFound, TimelockFound, Running
<1>5. ASSUME NEW f \in {"implementation", "adapter"}, NEW p, Deploy(f, Unlinked), Goto(p),
             script \in {"upgrade", "newAdapter"}, AgreesBut(f),
             f = "implementation" <=> script = "upgrade"
      PROVE  RegistryInv'
  <2>1. /\ SameChain(kind, links, kind', links') /\ Recorded(kind', found')
        /\ found'[f] # None /\ \A g \in Field \ {f} : found'[g] = found[g]
    BY <1>0, <1>5, DeployRecorded, UnlinkedType DEF Field
  <2>2. script' = script /\ UNCHANGED registry
    BY <1>5 DEF Goto
  <2>3. RotationFound'
    BY <1>5, <2>1, <2>2 DEF RotationFound, AgreesBut
  <2> QED
    BY <1>4, <2>1, <2>2, <2>3
<1>6. CASE UpgradeImplementation \/ NewAdapter
  BY <1>0, <1>3, <1>5, <1>6 DEF UpgradeImplementation, NewAdapter, At, RotationFound
<1>7. ASSUME NEW a, NEW l \in {"implementation", "adapter"}, NEW v, NEW p, SetLink(a, l, v), Goto(p)
      PROVE  RegistryInv'
  <2>1. SameChain(kind, links, kind', links') /\ UNCHANGED <<kind, found>>
    BY <1>0, <1>7, SetLinkSame DEF Link, Wiring
  <2>2. UNCHANGED <<script, registry>>
    BY <1>7 DEF Goto
  <2> QED
    BY <1>0, <1>4, <2>1, <2>2 DEF RotationFound, AgreesBut
<1>8. CASE UpgradeProxy \/ SetAdapter
  BY <1>3, <1>7, <1>8 DEF UpgradeProxy, SetAdapter
<1>9. CASE UpgradeWrite \/ NewAdapterWrite \/ SetAdapterWrite
  <2>1. Save(found)
    BY <1>9 DEF UpgradeWrite, NewAdapterWrite, SetAdapterWrite
  <2>2. Good(kind, links, found)
    BY <1>0, <1>2, <1>9, GoodRotated
       DEF UpgradeWrite, NewAdapterWrite, SetAdapterWrite, At, RotationFound
  <2> QED
    BY <2>1, <2>2, SaveRegistry
<1>10. CASE Export /\ ~Throw
  <2>1. /\ UNCHANGED <<kind, links, registry>>
        /\ Leave \/ UNCHANGED <<script, found>>
    BY <1>10 DEF Export, ExportFile, chainVars
  <2>2. CASE Leave
    BY <1>2, <2>1, <2>2, IdleRegistry
  <2>3. CASE UNCHANGED <<script, found>>
    BY <1>0, <1>4, <2>1, <2>3 DEF SameChain, RotationFound, AgreesBut
  <2> QED
    BY <2>1, <2>2, <2>3
<1> QED
  BY <1>3, <1>6, <1>8, <1>9, <1>10 DEF RotateStep

(* The core deployment before its last steps.                              *)
LEMMA CoreBuilds ==
  ASSUME PointsInv, RegistryInv, script = "core", ~LastSteps,
         NEW f \in Field \ {"timelockController"}, NEW links0 \in [Link -> Addresses \cup {None}],
         links0["owner"] = Signer, NEW p, p \notin {"setEngine", "setAVS", "write"}, Goto(p),
         Deploy(f, links0) \/ Reuse(f, links0),
         f = "slashedPot" => Reuse(f, links0),
         p = "setMarket" => f = "proxy" /\ Deploy(f, links0)
  PROVE  RegistryInv'
<1>0. /\ DeploymentTypeOK /\ ChainInv /\ Recorded(kind, found) /\ Recorded(kind, registry) /\ CoreFound
  BY DEF PointsInv, RegistryInv
<1>1. script' = "core" /\ step' = p /\ UNCHANGED registry
  BY DEF Goto
<1>2. /\ SameChain(kind, links, kind', links') /\ Recorded(kind', found')
      /\ \A g \in Field \ {f} : found'[g] = found[g]
      /\ found'[f] # None
      /\ \/ found'[f] = found[f] /\ found[f] # None
         \/ kind[found'[f]] = "none" /\ links'[found'[f]] = links0
      /\ Deploy(f, links0) => kind[found'[f]] = "none" /\ links'[found'[f]] = links0
      /\ Reuse(f, links0) /\ found[f] # None => found'[f] = found[f]
  BY <1>0, DeployRecorded
<1>3. Recorded(kind', registry') /\ Good(kind', links', registry')
  BY <1>1, <1>2, BuildRegistry
<1>4. ASSUME registry["timelockController"] = None
      PROVE  SignerOwns(links', found')
  <2>1. SignerOwns(links', found)
    BY <1>0, <1>2, <1>4, SignerOwnsSame DEF CoreFound
  <2> QED
    BY <1>2, <2>1 DEF SignerOwns, Ownable, Field
<1>5. found'["timelockController"] = registry["timelockController"]
  BY <1>0, <1>2 DEF CoreFound, Field
<1>6. ASSUME registry["slashedPot"] # None
      PROVE  found'["slashedPot"] = registry["slashedPot"]
  BY <1>0, <1>2, <1>6 DEF CoreFound, Field
<1>7. ASSUME p = "setMarket"
      PROVE  found'["proxy"] # registry["proxy"]
  <2>1. found'["proxy"] # None /\ kind[found'["proxy"]] = "none"
    BY <1>2, <1>7
  <2> QED
    BY <1>0, <2>1 DEF Recorded, Lies, Field
<1>8. CoreFound'
  BY <1>1, <1>4, <1>5, <1>6, <1>7 DEF CoreFound
<1> QED
  BY <1>1, <1>2, <1>3, <1>8 DEF RegistryInv, AdaptersFound, RotationFound, TimelockFound, Running

(* The last steps set links of contracts that are the signer's.            *)
LEMMA CoreWiresOwn ==
  ASSUME PointsInv, RegistryInv, script = "core", NEW f \in Field, NEW l \in Link \ {"owner"},
         NEW v, NEW p, NEW next \in {"setEngine", "setAVS", "write"}, Wire(p, f, l, v, next), ~Throw,
         registry["timelockController"] = None
  PROVE  RegistryInv'
<1>0. /\ DeploymentTypeOK /\ ChainInv /\ Recorded(kind, found) /\ Recorded(kind, registry) /\ CoreFound
  BY DEF PointsInv, RegistryInv
<1>1. /\ script' = "core" /\ step' = next /\ UNCHANGED <<kind, found, registry>>
      /\ \A b \in Addresses, m \in Link : m # l => links'[b][m] = links[b][m]
  <2>1. l \in Link
    OBVIOUS
  <2>2. script' = "core" /\ step' = next /\ UNCHANGED <<kind, found, registry>>
    BY <1>0, <2>1, WireDoes
  <2>3. ASSUME NEW b \in Addresses, NEW m \in Link, m # l
        PROVE  links'[b][m] = links[b][m]
    <3>1. UNCHANGED links \/ SetLink(found[f], l, v)
      BY DEF Wire, chainVars
    <3> QED
      BY <1>0, <2>1, <2>3, <3>1 DEF SetLink, DeploymentTypeOK
  <2> QED
    BY <2>2, <2>3
<1>2. \A b \in Addresses : links'[b]["owner"] = links[b]["owner"]
  BY <1>1 DEF Link
<1>3. SignerOwns(links', found)
  BY <1>0, <1>2 DEF CoreFound, SignerOwns, Recorded, Lies, Ownable, Field
<1>4. CoreFound'
  BY <1>0, <1>1, <1>3 DEF CoreFound
<1>5. LastSteps'
  BY <1>1 DEF LastSteps, Running
<1> QED
  BY <1>0, <1>1, <1>4, <1>5 DEF RegistryInv, AdaptersFound, RotationFound, TimelockFound, Running

LEMMA CoreRegistry ==
  ASSUME PointsInv, RegistryInv, CoreStep
  PROVE  RegistryInv'
<1>0. /\ DeploymentTypeOK /\ ChainInv /\ CorePoints /\ Recorded(kind, found)
      /\ Recorded(kind, registry) /\ CoreFound
  BY DEF PointsInv, RegistryInv
<1>1. \A f \in Field : found[f] \in Addresses \cup {None}
  BY <1>0, FoundType
<1> DEFINE potLinks == [Unlinked EXCEPT !["settlementEngine"] = found["settlementEngine"]]
           proxyLinks == [Unlinked EXCEPT !["adapter"] = found["adapter"],
                                          !["slashedPot"] = found["slashedPot"],
                                          !["implementation"] = found["implementation"]]
<1>2. /\ potLinks \in [Link -> Addresses \cup {None}] /\ proxyLinks \in [Link -> Addresses \cup {None}]
      /\ potLinks["owner"] = Signer /\ proxyLinks["owner"] = Signer /\ Unlinked["owner"] = Signer
  BY <1>1, UnlinkedType DEF Field, Link, Unlinked, Signer, None
<1> HIDE DEF potLinks, proxyLinks
<1>3. CASE CoreAdapter \/ CoreEngine \/ CoreAvs \/ CoreImplementation
  <2>1. script = "core" /\ ~LastSteps
    BY <1>3 DEF CoreAdapter, CoreEngine, CoreAvs, CoreImplementation, At, LastSteps, Running
  <2>2. PICK f \in Field \ {"timelockController", "slashedPot", "proxy"},
             p \in {"engine", "avs", "pot", "proxy"} :
          (Deploy(f, Unlinked) \/ Reuse(f, Unlinked)) /\ Goto(p)
    BY <1>3 DEF CoreAdapter, CoreEngine, CoreAvs, CoreImplementation, Field
  <2>3. p \notin {"setEngine", "setAVS", "write", "setMarket"}
    BY <2>2
  <2> QED
    BY <1>2, <2>1, <2>2, <2>3, UnlinkedType, CoreBuilds
<1>4. CASE CorePot
  <2>1. script = "core" /\ ~LastSteps /\ Reuse("slashedPot", potLinks) /\ Goto("implementation")
    BY <1>4 DEF CorePot, potLinks, At, LastSteps, Running
  <2> QED
    BY <1>2, <2>1, CoreBuilds DEF Field
<1>5. CASE CoreProxy
  <2>1. script = "core" /\ ~LastSteps /\ Deploy("proxy", proxyLinks) /\ Goto("setMarket")
    BY <1>5 DEF CoreProxy, proxyLinks, At, LastSteps, Running
  <2> QED
    BY <1>2, <2>1, CoreBuilds DEF Field
<1>6. CASE CoreSetMarket
  <2>1. /\ Wire("setMarket", "slashedPot", "market", found["proxy"], "setEngine")
        /\ At("core", "setMarket") /\ ~LastSteps
    BY <1>6 DEF CoreSetMarket, Wire, At, LastSteps, Running
  <2>2. CASE Throw
    BY <2>1, <2>2, ThrowRegistry
  <2>3. CASE ~Throw
    <3>1. \/ links[found["slashedPot"]]["market"] = found["proxy"]
          \/ links[found["slashedPot"]]["owner"] = Signer
      BY <1>0, <2>1, <2>3, WireDoes DEF Field, Link, Owned
    <3>2. registry["timelockController"] = None
      <4> SUFFICES ASSUME registry["timelockController"] # None PROVE FALSE
        OBVIOUS
      <4>1. Wired(kind, links, registry) /\ TimelockOwns(links, registry)
        BY <2>1 DEF RegistryInv, Good, HandedOver
      <4>2. /\ registry["slashedPot"] # None
            /\ links[registry["slashedPot"]]["market"] = registry["proxy"]
            /\ links[registry["slashedPot"]]["owner"] # Signer
        BY <4>1 DEF Wired, TimelockOwns, Field, Signer, None
      <4>3. found["slashedPot"] = registry["slashedPot"] /\ found["proxy"] # registry["proxy"]
        BY <1>0, <2>1, <4>2 DEF CoreFound, At
      <4> QED
        BY <3>1, <4>2, <4>3
    <3> QED
      BY <2>1, <2>3, <3>2, CoreWiresOwn DEF Field, Link, At
  <2> QED
    BY <2>2, <2>3
<1>7. CASE CoreSetEngine
  <2>1. /\ Wire("setEngine", "proxy", "settlementEngine", found["settlementEngine"], "setAVS")
        /\ At("core", "setEngine")
    BY <1>7 DEF CoreSetEngine, Wire
  <2>2. /\ registry["timelockController"] = None /\ SignerOwns(links, found)
        /\ Is(found["proxy"], "proxy")
    BY <1>0, <2>1 DEF CoreFound, At, CorePoints, Running
  <2>3. Owned(found["proxy"])
    BY <2>2 DEF SignerOwns, Ownable, Owned, Is, Addresses, None
  <2>4. ~Throw
    BY <1>0, <2>1, <2>2, <2>3, WireDoes DEF Field, Link, At, Throw, Leave
  <2> QED
    BY <2>1, <2>2, <2>4, CoreWiresOwn DEF Field, Link, At
<1>8. CASE CoreSetAVS
  <2>1. /\ Wire("setAVS", "settlementEngine", "avs", found["avs"], "write")
        /\ At("core", "setAVS")
    BY <1>8 DEF CoreSetAVS, Wire
  <2>2. /\ registry["timelockController"] = None /\ SignerOwns(links, found)
        /\ found["settlementEngine"] # None
    BY <1>0, <2>1 DEF CoreFound, At, CorePoints, Running
  <2>3. Owned(found["settlementEngine"]) /\ Is(found["settlementEngine"], "settlementEngine")
    BY <1>0, <2>2 DEF SignerOwns, Ownable, Owned, Is, Recorded, Lies, Field
  <2>4. ~Throw
    BY <1>0, <2>1, <2>2, <2>3, WireDoes DEF Field, Link, At, Throw, Leave
  <2> QED
    BY <2>1, <2>2, <2>4, CoreWiresOwn DEF Field, Link, At
<1>9. CASE CoreWrite
  <2>1. Save(found) /\ script = "core" /\ step = "write"
    BY <1>9 DEF CoreWrite, At
  <2>2. /\ found["timelockController"] = None /\ SignerOwns(links, found)
    BY <1>0, <2>1 DEF CoreFound
  <2>3. Wired(kind, links, found)
    BY <1>0, <2>1 DEF CorePoints, Running, Wired, Lies, Is, Field, Addresses, None
  <2>4. Good(kind, links, found)
    BY <1>0, <2>2, <2>3 DEF Good, HandedOver
  <2> QED
    BY <2>1, <2>4, SaveRegistry
<1> QED
  BY <1>3, <1>4, <1>5, <1>6, <1>7, <1>8, <1>9 DEF CoreStep

LEMMA TimelockRegistry ==
  ASSUME PointsInv, RegistryInv, TimelockStep
  PROVE  RegistryInv'
<1>0. /\ DeploymentTypeOK /\ ChainInv /\ HandoverPoints /\ Recorded(kind, found)
      /\ Recorded(kind, registry) /\ TimelockFound
  BY DEF PointsInv, RegistryInv
<1> DEFINE timelock == found["timelockController"]
<1>1. CASE TimelockController
  <2>1. /\ Reuse("timelockController", Unlinked) /\ At("timelock", "deploy")
        /\ script' = "timelock" /\ step' = "proxy" /\ UNCHANGED registry
    BY <1>1 DEF TimelockController, At, Goto
  <2>2. found = registry /\ ~LastSteps
    BY <1>0, <2>1 DEF TimelockFound, At, LastSteps, Running
  <2>3. /\ SameChain(kind, links, kind', links') /\ Recorded(kind', found')
        /\ \A g \in Field \ {"timelockController"} : found'[g] = found[g]
        /\ found'["timelockController"] # None
        /\ found["timelockController"] # None =>
             found'["timelockController"] = found["timelockController"]
    BY <1>0, <2>1, DeployRecorded, UnlinkedType DEF Field
  <2>4. /\ Recorded(kind', registry') /\ Good(kind', links', registry')
        /\ Wired(kind', links', registry')
    BY <2>1, <2>2, <2>3, BuildRegistry
  <2>5. AgreesBut("timelockController")'
    BY <2>1, <2>2, <2>3 DEF AgreesBut
  <2>6. ASSUME NEW f \in Ownable, found'[f] # None
        PROVE  links'[found'[f]]["owner"] \in {Signer, found'["timelockController"]}
    <3>1. found'[f] = registry[f] /\ registry[f] # None
      BY <2>2, <2>3, <2>6 DEF Ownable, Field
    <3>2. HandedOver(links', registry)
      BY <2>1, <2>4 DEF Good
    <3>3. CASE registry["timelockController"] = None
      BY <3>1, <3>2, <3>3 DEF HandedOver, SignerOwns
    <3>4. CASE registry["timelockController"] # None
      BY <2>2, <2>3, <3>1, <3>2, <3>4 DEF HandedOver, TimelockOwns, Ownable
    <3> QED
      BY <3>3, <3>4
  <2>7. TimelockFound'
    BY <2>1, <2>4, <2>5, <2>6 DEF TimelockFound
  <2> QED
    BY <2>1, <2>3, <2>4, <2>7 DEF RegistryInv, AdaptersFound, CoreFound, RotationFound, Running
<1>2. CASE TimelockTransfer
  <2>1. PICK f \in Ownable, next \in {"settlementEngine", "slashedPot", "write"} :
          TransferOwnershipIfNeeded(f, next)
    BY <1>2 DEF TimelockTransfer, Ownable
  <2>2. /\ At("timelock", f) /\ f \in Field /\ f # "deploy"
        /\ \A o \in Ownable : found[o] # None => links[found[o]]["owner"] \in {Signer, timelock}
    BY <1>0, <2>1 DEF TransferOwnershipIfNeeded, TimelockFound, At, Ownable, Field
  <2>3. CASE Throw /\ ~LastSteps
    BY <2>3, ThrowRegistry
  <2>4. ASSUME Throw, LastSteps
        PROVE  FALSE
    <3>1. \A o \in Ownable : found[o] # None
      BY <1>0, <2>2, <2>4 DEF HandoverPoints, LastSteps, Running, At
    <3>2. Lies(kind, found[f], f) /\ links[found[f]]["owner"] \in {Signer, timelock}
      BY <1>0, <2>2, <3>1 DEF Recorded
    <3>3. HasOwner(found[f]) /\ (links[found[f]]["owner"] = timelock \/ Owned(found[f]))
      BY <3>2 DEF HasOwner, Lies, Owned
    <3> QED
      BY <1>0, <2>1, <2>2, <2>4, <3>1, <3>3, TransferDoes DEF At, Throw, Leave
  <2>5. CASE ~Throw
    <3>1. /\ \A o \in Ownable : found[o] # None
          /\ found[f] \in Addresses /\ step' = next /\ script' = "timelock"
          /\ UNCHANGED <<kind, found, registry>>
          /\ links'[found[f]]["owner"] = timelock
          /\ \A b \in Addresses, m \in Link :
               b # found[f] \/ m # "owner" => links'[b][m] = links[b][m]
      BY <1>0, <2>1, <2>2, <2>5, TransferDoes DEF At
    <3>2. \A o \in Ownable : found[o] \in Addresses
      BY <1>0, <3>1, FoundType DEF Ownable, Field
    <3>3. \A o \in Ownable : links'[found[o]]["owner"] \in {Signer, timelock}
      <4> TAKE o \in Ownable
      <4>1. CASE found[o] = found[f]
        BY <3>1, <4>1
      <4>2. CASE found[o] # found[f]
        BY <2>2, <3>1, <3>2, <4>2 DEF Link
      <4> QED
        BY <4>1, <4>2
    <3>4. Wired(kind, links', registry)
      <4>1. /\ Wired(kind, links, registry) /\ AgreesBut("timelockController")
        BY <1>0, <2>2 DEF TimelockFound, At
      <4>2. \A b \in Addresses : \A m \in Link \ {"owner"} : links'[b][m] = links[b][m]
        BY <3>1
      <4>3. registry["proxy"] \in Addresses /\ registry["slashedPot"] \in Addresses
        BY <3>2, <4>1 DEF AgreesBut, Ownable, Field
      <4>4. /\ links'[registry["proxy"]]["slashedPot"] = links[registry["proxy"]]["slashedPot"]
            /\ links'[registry["proxy"]]["settlementEngine"] = links[registry["proxy"]]["settlementEngine"]
            /\ links'[registry["slashedPot"]]["market"] = links[registry["slashedPot"]]["market"]
            /\ \A b \in Addresses : links'[b]["avs"] = links[b]["avs"]
        BY <4>2, <4>3 DEF Link
      <4> QED
        BY <4>1, <4>4 DEF Wired, Lies
    <3>5. TimelockFound'
      <4>1. AgreesBut("timelockController")' /\ Wired(kind', links', registry')
        BY <1>0, <2>2, <3>1, <3>4 DEF TimelockFound, At, AgreesBut
      <4> QED
        BY <2>1, <3>1, <3>3, <4>1 DEF TimelockFound
    <3>6. LastSteps'
      BY <2>1, <3>1 DEF LastSteps, Running
    <3> QED
      BY <1>0, <3>1, <3>5, <3>6 DEF RegistryInv, AdaptersFound, CoreFound, RotationFound, Running
  <2> QED
    BY <2>3, <2>4, <2>5
<1>3. CASE TimelockWrite
  <2>1. Save(found) /\ At("timelock", "write")
    BY <1>3 DEF TimelockWrite
  <2>2. Wired(kind, links, registry) /\ AgreesBut("timelockController")
    BY <1>0, <2>1 DEF TimelockFound, At
  <2>3. Wired(kind, links, found)
    BY <2>2 DEF Wired, AgreesBut, Field
  <2>4. /\ timelock # None /\ \A f \in Ownable : found[f] # None
        /\ \A f \in Ownable : links[found[f]]["owner"] = timelock
    BY <1>0, <2>1 DEF HandoverPoints, Running, At, Ownable
  <2>5. HandedOver(links, found)
    BY <2>4 DEF HandedOver, TimelockOwns, Ownable
  <2> QED
    BY <1>0, <2>1, <2>3, <2>5, SaveRegistry DEF Good
<1> QED
  BY <1>1, <1>2, <1>3 DEF TimelockStep

LEMMA NextDeployment == DeploymentInv /\ [DeploymentNext]_deploymentVars => DeploymentInv'
<1> SUFFICES ASSUME DeploymentInv, [DeploymentNext]_deploymentVars PROVE DeploymentInv'
  OBVIOUS
<1>1. PointsInv /\ PointsInv'
  BY NextPoints DEF DeploymentInv
<1>2. CASE Interrupted \/ ChainReset
  <2>1. ~Undisturbed'
    BY <1>1, <1>2 DEF Undisturbed, Interrupted, ChainReset, PointsInv, DeploymentTypeOK
  <2> QED
    BY <1>1, <2>1 DEF DeploymentInv
<1>3. ASSUME UNCHANGED <<crashes, resets>>, RegistryInv => RegistryInv'
      PROVE  DeploymentInv'
  BY <1>1, <1>3 DEF DeploymentInv, Undisturbed
<1>4. CASE Start
  BY <1>3, <1>4, StartRegistry DEF Start, Begin
<1>5. ASSUME AdaptersStep \/ CoreStep \/ Export \/ RotateStep \/ TimelockStep
      PROVE  UNCHANGED <<crashes, resets>>
  BY <1>5 DEF AdaptersStep, AdaptersAdapter, AdaptersEngine, AdaptersWrite, CoreStep, CoreAdapter,
     CoreEngine, CoreAvs, CorePot, CoreImplementation, CoreProxy, CoreSetMarket, CoreSetEngine,
     CoreSetAVS, CoreWrite, Wire, Export, ExportFile, RotateStep, UpgradeImplementation,
     UpgradeProxy, UpgradeWrite, NewAdapter, NewAdapterWrite, SetAdapter, SetAdapterWrite,
     TimelockStep, TimelockController, TimelockTransfer, TransferOwnershipIfNeeded, TimelockWrite,
     Goto, Save, Throw, limitVars
<1>6. CASE AdaptersStep \/ CoreStep \/ Export \/ RotateStep \/ TimelockStep
  BY <1>1, <1>3, <1>5, <1>6, AdaptersRegistry, CoreRegistry, RotateRegistry, TimelockRegistry
<1>7. CASE UNCHANGED deploymentVars
  <2>1. UNCHANGED <<kind, links, registry, script, step, found, crashes, resets>>
    BY <1>7 DEF deploymentVars, chainVars, scriptVars, limitVars
  <2>2. RegistryInv => RegistryInv'
    BY <2>1 DEF RegistryInv, AdaptersFound, CoreFound, RotationFound, TimelockFound, LastSteps,
                Running, AgreesBut
  <2> QED
    BY <1>3, <2>1, <2>2
<1> QED
  BY <1>2, <1>4, <1>6, <1>7 DEF DeploymentNext

LEMMA InitDeployment == DeploymentInit => DeploymentInv
<1> SUFFICES ASSUME DeploymentInit PROVE PointsInv /\ RegistryInv
  BY DEF DeploymentInv
<1>1. script = "idle" /\ \A f \in Field : registry[f] = None /\ found[f] = None
  BY DEF DeploymentInit, Nothing
<1>2. Good(kind, links, registry) /\ Recorded(kind, found)
  BY <1>1 DEF Good, Recorded, Wired, HandedOver, SignerOwns, Ownable, Field
<1> QED
  BY <1>1, <1>2, InitPoints
     DEF RegistryInv, Good, AdaptersFound, CoreFound, RotationFound, TimelockFound, Running

(* On the first chain and without a crash: after any sequence of core      *)
(* deployments, redeployed adapters and engines, upgrades, rotations and   *)
(* hand-overs the market of the registry is served, and the smoke test     *)
(* objects to nothing but an engine or an adapter that was recorded and is *)
(* not in use (01_deploy_core_proxy.ts:101-133, 04_smoke_test.ts:77-117).  *)
THEOREM RecordedMarketAlwaysServed == DeploymentSpec => []RecordedMarketServed
<1>1. DeploymentInv => RecordedMarketServed
  <2> SUFFICES ASSUME DeploymentInv, script = "idle", crashes = 0, resets = 0,
                      registry["proxy"] # None
               PROVE  Served(registry) /\ (SmokePasses \/ Unused(registry))
    BY DEF RecordedMarketServed
  <2>1. Recorded(kind, registry) /\ Wired(kind, links, registry) /\ HandedOver(links, registry)
    BY DEF DeploymentInv, Undisturbed, RegistryInv, LastSteps, Running, Good
  <2>2. \A f \in Field \ {"timelockController"} :
          registry[f] # None /\ Is(registry[f], f) /\ HasCode(registry[f])
    BY <2>1 DEF Recorded, Wired, Lies, Is, HasCode, Field
  <2>3. Served(registry)
    BY <2>1, <2>2 DEF Served, Wired, Lies, Is, Field
  <2>4. ASSUME ~Unused(registry)
        PROVE  SmokePasses
    <3>1. \A f \in Ownable :
            links[registry[f]]["owner"] =
              IF registry["timelockController"] # None THEN registry["timelockController"] ELSE Signer
      <4>1. CASE registry["timelockController"] = None
        BY <2>1, <2>2, <4>1 DEF HandedOver, SignerOwns, Ownable, Field
      <4>2. CASE registry["timelockController"] # None
        BY <2>1, <2>4, <4>2 DEF HandedOver, TimelockOwns, Ownable, Unused
      <4> QED
        BY <4>1, <4>2
    <3>2. /\ links[registry["proxy"]]["settlementEngine"] = registry["settlementEngine"]
          /\ links[registry["slashedPot"]]["settlementEngine"] = registry["settlementEngine"]
          /\ links[registry["proxy"]]["adapter"] = registry["adapter"]
      BY <2>4 DEF Unused
    <3>3. /\ links[registry["proxy"]]["slashedPot"] = registry["slashedPot"]
          /\ links[registry["slashedPot"]]["market"] = registry["proxy"]
          /\ links[registry["settlementEngine"]]["avs"] = registry["avs"]
      BY <2>1, <2>2, <3>2 DEF Wired, Field
    <3>4. \A f \in Ownable : Is(registry[f], f)
      BY <2>2 DEF Ownable, Field
    <3> QED
      BY <2>2, <3>1, <3>2, <3>3, <3>4 DEF SmokePasses
  <2> QED
    BY <2>3, <2>4
<1>2. DeploymentSpec => []DeploymentInv
  BY InitDeployment, NextDeployment, PTL DEF DeploymentSpec
<1> QED
  BY <1>1, <1>2, PTL
=============================================================================
