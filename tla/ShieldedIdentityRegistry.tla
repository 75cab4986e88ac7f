---------------------- MODULE ShieldedIdentityRegistry ----------------------
(***************************************************************************)
(* ShieldedIdentityRegistry.sol: per auction, a one-to-one binding between *)
(* winner identities and commitments.  0 stands for bytes32(0).            *)
(***************************************************************************)
EXTENDS MarketDomain

CONSTANT NumRegistries

ASSUME RegistryAssumption == NumRegistries \in Nat

Registries == 1..NumRegistries

VARIABLES
  identityToCommitment,   \* _identityToCommitment
  commitmentToIdentity,   \* _commitmentToIdentity
  winningIdentity,        \* _winningIdentity
  registryWired           \* registry.market is this market

registryVars == <<identityToCommitment, commitmentToIdentity, winningIdentity, registryWired>>

RegistryTypeOK ==
  /\ identityToCommitment \in [Registries -> [Auctions -> [Identities -> 0..NumCommitments]]]
  /\ commitmentToIdentity \in [Registries -> [Auctions -> [Commitments -> 0..NumIdentities]]]
  /\ winningIdentity \in [Registries -> [Auctions -> 0..NumIdentities]]
  /\ registryWired \in [Registries -> BOOLEAN]

RegistryInit ==
  /\ identityToCommitment = [r \in Registries |-> [a \in Auctions |-> [i \in Identities |-> 0]]]
  /\ commitmentToIdentity = [r \in Registries |-> [a \in Auctions |-> [c \in Commitments |-> 0]]]
  /\ winningIdentity = [r \in Registries |-> [a \in Auctions |-> 0]]
  /\ registryWired = [r \in Registries |-> r = 1]

Registry_setMarket(r) ==
  /\ registryWired' = [registryWired EXCEPT ![r] = TRUE]
  /\ UNCHANGED <<identityToCommitment, commitmentToIdentity, winningIdentity>>

Registry_bindIdentity(r, a, i, c) ==
  /\ registryWired[r]
  /\ identityToCommitment[r][a][i] \in {0, c}
  /\ commitmentToIdentity[r][a][c] \in {0, i}
  /\ IF identityToCommitment[r][a][i] = 0
       THEN /\ identityToCommitment' = [identityToCommitment EXCEPT ![r][a][i] = c]
            /\ commitmentToIdentity' = [commitmentToIdentity EXCEPT ![r][a][c] = i]
       ELSE UNCHANGED <<identityToCommitment, commitmentToIdentity>>
  /\ UNCHANGED <<winningIdentity, registryWired>>

Registry_markWinningIdentity(r, a, i) ==
  /\ registryWired[r]
  /\ identityToCommitment[r][a][i] # 0
  /\ winningIdentity[r][a] \in {0, i}
  /\ winningIdentity' = [winningIdentity EXCEPT ![r][a] = i]
  /\ UNCHANGED <<identityToCommitment, commitmentToIdentity, registryWired>>
=============================================================================
