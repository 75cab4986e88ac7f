----------------------------- MODULE Deployment -----------------------------
(***************************************************************************)
(* The deployment scripts (packages/contracts/deploy).  One operator runs  *)
(* them one at a time; each is a sequence of transactions that ends with   *)
(* writing the registry of addresses, a file the next script starts from.  *)
(* A script that is interrupted leaves the chain ahead of the registry, or *)
(* a registry cut short, which reads as an empty one.  A local chain can   *)
(* be restarted: then the contracts are gone and, as the nonces start      *)
(* again, new ones come to lie at the old addresses.                       *)
(***************************************************************************)
EXTENDS Naturals

CONSTANTS
  MaxNonce,     \* bound: transactions of the signer on one chain
  RunLimit,     \* bound: scripts started
  CrashLimit,   \* bound: interrupted scripts
  ResetLimit    \* bound: restarts of a local chain

ASSUME DeploymentAssumption ==
  MaxNonce \in Nat /\ RunLimit \in Nat /\ CrashLimit \in Nat /\ ResetLimit \in Nat

Addresses == 1..MaxNonce     \* a contract lies at the nonce that created it
None == 0                    \* no address
Signer == 0                  \* as an owner: the account that runs the scripts

Field == {"adapter", "avs", "implementation", "proxy", "settlementEngine", "slashedPot",
          "timelockController"}
Kind == Field \cup {"none"}
Link == {"owner", "adapter", "avs", "implementation", "market", "settlementEngine", "slashedPot"}
Script == {"idle", "adapters", "core", "export", "upgrade", "newAdapter", "setAdapter", "timelock"}
EnvFile == {"runtime", "frontend", "keeper"}

Registry == [Field -> Addresses \cup {None}]
Nothing == [f \in Field |-> None]
Unlinked == [l \in Link |-> None]

VARIABLES
  nonce,      \* transactions of the signer so far
  kind,       \* what lies at each address
  links,      \* the owner of each contract, and the contracts it points to
  registry,   \* the deployment file
  exported,   \* the market that runtime.json and the two env files name
  script, step, found,   \* the running script, its next step, and its addresses
  runs, crashes, resets

chainVars == <<nonce, kind, links>>
scriptVars == <<script, step, found>>
limitVars == <<runs, crashes, resets>>
deploymentVars == <<chainVars, registry, exported, scriptVars, limitVars>>

DeploymentTypeOK ==
  /\ nonce \in 0..MaxNonce
  /\ kind \in [Addresses -> Kind]
  /\ links \in [Addresses -> [Link -> Addresses \cup {None}]]
  /\ registry \in Registry
  /\ exported \in [EnvFile -> Addresses \cup {None}]
  /\ script \in Script
  /\ found \in Registry
  /\ resets = 0 => \A f \in Field : registry[f] <= nonce /\ found[f] <= nonce
  /\ runs \in 0..RunLimit /\ crashes \in 0..CrashLimit /\ resets \in 0..ResetLimit

DeploymentInit ==
  /\ nonce = 0
  /\ kind = [a \in Addresses |-> "none"]
  /\ links = [a \in Addresses |-> Unlinked]
  /\ registry = Nothing /\ exported = [e \in EnvFile |-> None]
  /\ script = "idle" /\ step = "none" /\ found = Nothing
  /\ runs = 0 /\ crashes = 0 /\ resets = 0

-----------------------------------------------------------------------------
(* What scripts are made of.                                               *)

HasCode(a) == a \in Addresses /\ kind[a] # "none"
Is(a, k) == a \in Addresses /\ kind[a] = k

At(s, p) == script = s /\ step = p
Goto(p) == step' = p /\ UNCHANGED <<script, registry, exported, limitVars>>
Leave == script' = "idle" /\ step' = "none" /\ found' = Nothing

(* The process ends with an error.                                         *)
Throw == Leave /\ UNCHANGED <<chainVars, registry, exported, limitVars>>

(* A contract is created, with the links its constructor sets.             *)
Create(k, links0) ==
  /\ nonce < MaxNonce
  /\ nonce' = nonce + 1
  /\ kind' = [kind EXCEPT ![nonce + 1] = k]
  /\ links' = [links EXCEPT ![nonce + 1] = links0]

Deploy(f, links0) == Create(f, links0) /\ found' = [found EXCEPT ![f] = nonce + 1]

(* An onlyOwner call that sets one link.                                   *)
Owned(a) == links[a]["owner"] = Signer
SetLink(a, l, v) ==
  /\ nonce < MaxNonce
  /\ nonce' = nonce + 1
  /\ links' = [links EXCEPT ![a][l] = v]
  /\ UNCHANGED <<kind, found>>

(* writeJsonFile, the last step of a script.                               *)
Save(r) == Leave /\ registry' = r /\ UNCHANGED <<chainVars, exported, limitVars>>

(* A script starts by reading the registry.                                *)
Begin(s, p) ==
  /\ script = "idle" /\ runs < RunLimit
  /\ script' = s /\ step' = p /\ found' = registry /\ runs' = runs + 1
  /\ UNCHANGED <<chainVars, registry, exported, crashes, resets>>

-----------------------------------------------------------------------------
(* 00_deploy_adapters: the registry is read at the end only.               *)

AdaptersAdapter ==
  At("adapters", "adapter") /\ Deploy("adapter", Unlinked) /\ Goto("engine")
AdaptersEngine ==
  At("adapters", "engine") /\ Deploy("settlementEngine", Unlinked) /\ Goto("write")
AdaptersWrite ==
  /\ At("adapters", "write")
  /\ Save([registry EXCEPT !["adapter"] = found["adapter"],
                           !["settlementEngine"] = found["settlementEngine"]])

(* 01_deploy_core_proxy: adapter, engine, AVS and pot are reused when      *)
(* there is code at the recorded address; implementation and proxy are     *)
(* always new; a link is set only when it differs.                         *)
Reuse(f, links0) ==
  IF HasCode(found[f]) THEN UNCHANGED <<chainVars, found>> ELSE Deploy(f, links0)

CoreAdapter ==
  At("core", "adapter") /\ Reuse("adapter", Unlinked) /\ Goto("engine")
CoreEngine ==
  At("core", "engine") /\ Reuse("settlementEngine", Unlinked) /\ Goto("avs")
CoreAvs == At("core", "avs") /\ Reuse("avs", Unlinked) /\ Goto("pot")
CorePot ==
  /\ At("core", "pot")
  /\ Reuse("slashedPot",
           [Unlinked EXCEPT !["settlementEngine"] = found["settlementEngine"]])
  /\ Goto("implementation")
CoreImplementation ==
  At("core", "implementation") /\ Deploy("implementation", Unlinked) /\ Goto("proxy")
CoreProxy ==
  /\ At("core", "proxy")
  /\ Deploy("proxy", [Unlinked EXCEPT !["adapter"] = found["adapter"],
                                      !["slashedPot"] = found["slashedPot"],
                                      !["implementation"] = found["implementation"]])
  /\ Goto("setMarket")

Wire(p, f, l, v, next) ==
  /\ At("core", p)
  /\ LET a == found[f] IN
     IF ~Is(a, f) \/ (links[a][l] # v /\ ~Owned(a)) THEN Throw
     ELSE /\ IF links[a][l] = v THEN UNCHANGED <<chainVars, found>> ELSE SetLink(a, l, v)
          /\ Goto(next)

CoreSetMarket == Wire("setMarket", "slashedPot", "market", found["proxy"], "setEngine")
CoreSetEngine ==
  Wire("setEngine", "proxy", "settlementEngine", found["settlementEngine"], "setAVS")
CoreSetAVSIfOwned ==      \* mutant: passes over an engine of another owner
  /\ At("core", "setAVS")
  /\ IF Owned(found["settlementEngine"])
     THEN Wire("setAVS", "settlementEngine", "avs", found["avs"], "write")
     ELSE UNCHANGED <<chainVars, found>> /\ Goto("write")
CoreSetAVS == Wire("setAVS", "settlementEngine", "avs", found["avs"], "write")
CoreWrite == At("core", "write") /\ Save(found)

(* 02_export_runtime_config: three files, one after the other.             *)
ExportFile(e, p, next) ==
  /\ At("export", p)
  /\ IF \E f \in Field \ {"timelockController"} : found[f] = None THEN Throw
     ELSE /\ exported' = [exported EXCEPT ![e] = found["proxy"]]
          /\ IF next = "none" THEN Leave ELSE step' = next /\ UNCHANGED <<script, found>>
          /\ UNCHANGED <<chainVars, registry, limitVars>>

Export ==
  \/ ExportFile("runtime", "runtime", "frontend")
  \/ ExportFile("frontend", "frontend", "keeper")
  \/ ExportFile("keeper", "keeper", "none")

(* 05_upgrade_core_proxy.                                                  *)
UpgradeImplementation ==
  /\ At("upgrade", "implementation")
  /\ IF Is(found["proxy"], "proxy") /\ found["implementation"] # None /\ Owned(found["proxy"])
     THEN Deploy("implementation", Unlinked) /\ Goto("upgrade")
     ELSE Throw
UpgradeProxy ==
  /\ At("upgrade", "upgrade")
  /\ SetLink(found["proxy"], "implementation", found["implementation"])
  /\ Goto("write")
UpgradeWrite == At("upgrade", "write") /\ Save(found)

(* 06_deploy_cofhe_adapter records an adapter that 07_set_core_adapter     *)
(* later gives to the market.                                              *)
NewAdapter == At("newAdapter", "adapter") /\ Deploy("adapter", Unlinked) /\ Goto("write")
NewAdapterWrite == At("newAdapter", "write") /\ Save(found)

SetAdapter ==
  /\ At("setAdapter", "set")
  /\ LET a == found["proxy"] IN
     IF ~Is(a, "proxy") \/ ~HasCode(found["adapter"]) THEN Throw
     ELSE IF ~Owned(a) \/ links[a]["adapter"] = found["adapter"] THEN Throw
     ELSE SetLink(a, "adapter", found["adapter"]) /\ Goto("write")
SetAdapterWrite == At("setAdapter", "write") /\ Save(found)

-----------------------------------------------------------------------------
(* 08_deploy_admin_timelock hands the market, its engine and its pot over, *)
(* one transaction each.                                                   *)

Ownable == {"proxy", "settlementEngine", "slashedPot"}
HasOwner(a) == a \in Addresses /\ kind[a] \in Ownable \cup {"avs"}

TimelockController ==
  /\ At("timelock", "deploy")
  /\ Reuse("timelockController", Unlinked)
  /\ Goto("proxy")

TransferOwnershipIfMine(f, next) ==      \* mutant: passes over another owner
  /\ At("timelock", f)
  /\ IF (\E o \in Ownable : found[o] = None) \/ ~HasOwner(found[f]) THEN Throw
     ELSE /\ IF Owned(found[f]) THEN SetLink(found[f], "owner", found["timelockController"])
             ELSE UNCHANGED <<chainVars, found>>
          /\ Goto(next)
TransferOwnershipIfNeeded(f, next) ==
  /\ At("timelock", f)
  /\ LET a == found[f] timelock == found["timelockController"] IN
     IF (\E o \in Ownable : found[o] = None) \/ ~HasOwner(a) THEN Throw
     ELSE IF links[a]["owner"] = timelock
          THEN UNCHANGED <<chainVars, found>> /\ Goto(next)
     ELSE IF ~Owned(a) THEN Throw
     ELSE SetLink(a, "owner", timelock) /\ Goto(next)

TimelockTransferNoPot ==      \* mutant: the pot is forgotten
  \/ TransferOwnershipIfNeeded("proxy", "settlementEngine")
  \/ TransferOwnershipIfNeeded("settlementEngine", "write")
TimelockTransfer ==
  \/ TransferOwnershipIfNeeded("proxy", "settlementEngine")
  \/ TransferOwnershipIfNeeded("settlementEngine", "slashedPot")
  \/ TransferOwnershipIfNeeded("slashedPot", "write")

TimelockWrite == At("timelock", "write") /\ Save(found)

-----------------------------------------------------------------------------
(* 04_smoke_test: every comparison it makes before it reports ok.          *)
SmokePasses ==
  LET r == registry
      admin == IF r["timelockController"] # None THEN r["timelockController"] ELSE Signer
  IN
  /\ \A f \in Field \ {"timelockController"} : HasCode(r[f])
  /\ \A f \in Ownable : Is(r[f], f) /\ links[r[f]]["owner"] = admin
  /\ links[r["proxy"]]["settlementEngine"] = r["settlementEngine"]
  /\ links[r["proxy"]]["slashedPot"] = r["slashedPot"]
  /\ links[r["proxy"]]["adapter"] = r["adapter"]
  /\ links[r["settlementEngine"]]["avs"] = r["avs"]
  /\ links[r["slashedPot"]]["market"] = r["proxy"]
  /\ links[r["slashedPot"]]["settlementEngine"] = r["settlementEngine"]

(* The process ends, or is ended, between two steps; in the middle of a    *)
(* write it leaves a file that no longer parses.                           *)
Interrupted ==
  /\ script # "idle" /\ crashes < CrashLimit
  /\ Leave
  /\ crashes' = crashes + 1
  /\ registry' \in {registry} \cup (IF step = "write" THEN {Nothing} ELSE {})
  /\ UNCHANGED <<chainVars, exported, runs, resets>>

ChainReset ==
  /\ script = "idle" /\ resets < ResetLimit
  /\ resets' = resets + 1
  /\ nonce' = 0
  /\ kind' = [a \in Addresses |-> "none"]
  /\ links' = [a \in Addresses |-> Unlinked]
  /\ UNCHANGED <<registry, exported, scriptVars, runs, crashes>>

Start ==
  \/ Begin("adapters", "adapter") \/ Begin("core", "adapter") \/ Begin("export", "runtime")
  \/ Begin("upgrade", "implementation") \/ Begin("newAdapter", "adapter")
  \/ Begin("setAdapter", "set") \/ Begin("timelock", "deploy")

AdaptersStep == AdaptersAdapter \/ AdaptersEngine \/ AdaptersWrite
CoreStep ==
  \/ CoreAdapter \/ CoreEngine \/ CoreAvs \/ CorePot \/ CoreImplementation \/ CoreProxy
  \/ CoreSetMarket \/ CoreSetEngine \/ CoreSetAVS \/ CoreWrite
RotateStep ==
  \/ UpgradeImplementation \/ UpgradeProxy \/ UpgradeWrite
  \/ NewAdapter \/ NewAdapterWrite \/ SetAdapter \/ SetAdapterWrite
TimelockStep == TimelockController \/ TimelockTransfer \/ TimelockWrite

DeploymentNext ==
  \/ Start \/ AdaptersStep \/ CoreStep \/ Export \/ RotateStep \/ TimelockStep
  \/ Interrupted \/ ChainReset

-----------------------------------------------------------------------------
(* The market and the pot of a registry refer to each other, and the       *)
(* market has an engine that has an AVS.                                   *)
Served(r) ==
  /\ Is(r["proxy"], "proxy") /\ Is(r["slashedPot"], "slashedPot")
  /\ links[r["proxy"]]["slashedPot"] = r["slashedPot"]
  /\ links[r["slashedPot"]]["market"] = r["proxy"]
  /\ LET engine == links[r["proxy"]]["settlementEngine"] IN
     Is(engine, "settlementEngine") /\ links[engine]["avs"] # None

(* Whatever earlier runs left behind, a core deployment that gets as far   *)
(* as saving its registry has wired what it records                        *)
(* (01_deploy_core_proxy.ts:101-133).                                      *)
CoreWires ==
  [][CoreWrite => Served(registry') /\ links[registry'["settlementEngine"]]["avs"] = registry'["avs"]]_deploymentVars

(* As long as no script is interrupted and the chain is not restarted, the *)
(* market that the registry names is served, whatever was redeployed,      *)
(* upgraded, rotated or handed over, in any order                          *)
(* (01_deploy_core_proxy.ts:101-133), and the smoke test                   *)
(* (04_smoke_test.ts:77-117) can object to one thing only: an engine or an *)
(* adapter that was deployed and recorded and that the market or the pot   *)
(* does not use.  Links and owners are as it wants them, before and after  *)
(* the hand-over to a timelock.                                            *)
Unused(r) ==
  \/ links[r["proxy"]]["adapter"] # r["adapter"]
  \/ r["settlementEngine"] # links[r["proxy"]]["settlementEngine"]
  \/ r["settlementEngine"] # links[r["slashedPot"]]["settlementEngine"]
RecordedMarketServed ==
  (script = "idle" /\ crashes = 0 /\ resets = 0 /\ registry["proxy"] # None)
    => Served(registry) /\ (SmokePasses \/ Unused(registry))

(* The hand-over saves a timelock only when it owns everything that the    *)
(* registry names (08_deploy_admin_timelock.ts:105-121).                   *)
HandoverComplete ==
  [][TimelockWrite =>
       \A f \in Ownable :
         links[registry'[f]]["owner"] = registry'["timelockController"]]_deploymentVars

DeploymentSpec == DeploymentInit /\ [][DeploymentNext]_deploymentVars
=============================================================================
