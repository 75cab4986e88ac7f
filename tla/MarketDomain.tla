---------------------------- MODULE MarketDomain ----------------------------
(***************************************************************************)
(* The names the contracts share: auction ids, externally owned accounts,  *)
(* commitment hashes and identity hashes.  All are numbered from 1, and 0  *)
(* stands for Solidity's zero value (address(0), bytes32(0), no auction).  *)
(***************************************************************************)
EXTENDS Integers

CONSTANTS
  NumAuctions,     \* bound: auctions that can be created
  NumAccounts,
  NumCommitments,
  NumIdentities,
  RejectsValue     \* accounts whose receive hook reverts

ASSUME DomainAssumption ==
  /\ NumAuctions \in Nat
  /\ NumAccounts \in Nat
  /\ NumCommitments \in Nat
  /\ NumIdentities \in Nat

Auctions == 1..NumAuctions
Accounts == 1..NumAccounts
Commitments == 1..NumCommitments
Identities == 1..NumIdentities
=============================================================================
