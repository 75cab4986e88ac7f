------------------------ MODULE ShieldedEscrowVault ------------------------
(***************************************************************************)
(* ShieldedEscrowVault.sol: escrow held under a commitment hash instead of *)
(* an address.  The market locks, settles, slashes and unlocks; whoever    *)
(* holds the commitment's claim authority spends it.  Every deployed       *)
(* instance has an index; index 0 stands for "no vault configured".        *)
(***************************************************************************)
EXTENDS MarketDomain

CONSTANTS
  NumVaults,
  VerifierAtStart    \* the bid verifier the deployment has configured

VerifierKind == {"NONE", "MOCK", "ZK"}

ASSUME VaultAssumption ==
  /\ NumVaults \in Nat
  /\ VerifierAtStart \in VerifierKind

Vaults == 1..NumVaults

(* What a claim authorization signs: the claim's tag, the auction, the     *)
(* commitment, the recipient and the deadline.                             *)
AuthorizationDigest ==
  [tag : {"ASSET_CLAIM", "REFUND_CLAIM"}, auctionId : Auctions,
   commitment : Commitments, recipient : Accounts, deadline : Nat]

VARIABLES
  commitments,              \* _commitments
  auctionTotals,            \* _auctionTotals
  refundsUnlocked,          \* _refundsUnlocked
  shieldedSlashReserves,    \* _shieldedSlashReserves
  winningCommitments,       \* _winningCommitments, 0 when none
  usedClaimAuthorizations,  \* _usedClaimAuthorizations
  shieldedBidVerifier,      \* the kind of verifier that is configured
  vaultBalance,             \* native balance of every instance
  vaultWired                \* vault.market is this market

vaultVars == <<commitments, auctionTotals, refundsUnlocked, shieldedSlashReserves,
               winningCommitments, usedClaimAuthorizations, shieldedBidVerifier,
               vaultBalance, vaultWired>>

CommitmentDeposit ==
  [auctionId : 0..NumAuctions, amount : Nat, claimed : BOOLEAN,
   claimAuthority : 0..NumAccounts]

VaultTypeOK ==
  /\ commitments \in [Vaults -> [Commitments -> CommitmentDeposit]]
  /\ auctionTotals \in [Vaults -> [Auctions -> Nat]]
  /\ refundsUnlocked \in [Vaults -> [Auctions -> BOOLEAN]]
  /\ shieldedSlashReserves \in [Vaults -> [Auctions -> Nat]]
  /\ winningCommitments \in [Vaults -> [Auctions -> 0..NumCommitments]]
  /\ usedClaimAuthorizations \in [Vaults -> SUBSET AuthorizationDigest]
  /\ shieldedBidVerifier \in [Vaults -> VerifierKind]
  /\ vaultBalance \in [Vaults -> Nat]
  /\ vaultWired \in [Vaults -> BOOLEAN]

VaultInit ==
  /\ commitments = [v \in Vaults |-> [c \in Commitments |->
       [auctionId |-> 0, amount |-> 0, claimed |-> FALSE, claimAuthority |-> 0]]]
  /\ auctionTotals = [v \in Vaults |-> [a \in Auctions |-> 0]]
  /\ refundsUnlocked = [v \in Vaults |-> [a \in Auctions |-> FALSE]]
  /\ shieldedSlashReserves = [v \in Vaults |-> [a \in Auctions |-> 0]]
  /\ winningCommitments = [v \in Vaults |-> [a \in Auctions |-> 0]]
  /\ usedClaimAuthorizations = [v \in Vaults |-> {}]
  /\ shieldedBidVerifier = [v \in Vaults |-> VerifierAtStart]
  /\ vaultBalance = [v \in Vaults |-> 0]
  /\ vaultWired = [v \in Vaults |-> v = 1]

-----------------------------------------------------------------------------
(* Owner.                                                                  *)

Vault_setMarket(v) ==
  /\ vaultWired' = [vaultWired EXCEPT ![v] = TRUE]
  /\ UNCHANGED <<commitments, auctionTotals, refundsUnlocked, shieldedSlashReserves,
                 winningCommitments, usedClaimAuthorizations, shieldedBidVerifier,
                 vaultBalance>>

Vault_setShieldedBidVerifier(v, kind) ==
  /\ shieldedBidVerifier' = [shieldedBidVerifier EXCEPT ![v] = kind]
  /\ UNCHANGED <<commitments, auctionTotals, refundsUnlocked, shieldedSlashReserves,
                 winningCommitments, usedClaimAuthorizations, vaultBalance, vaultWired>>

-----------------------------------------------------------------------------
(* Market only.                                                            *)

(* Mutant of Lockable: a commitment that holds value can be locked again.  *)
LockableUntilClaimed(v, c) == ~commitments[v][c].claimed

Lockable(v, c) == commitments[v][c].amount = 0 /\ ~commitments[v][c].claimed

(* The market has checked that the value and the hash are not zero.        *)
Vault_lockEscrow(v, a, c, claimAuthority, value) ==
  /\ vaultWired[v]
  /\ claimAuthority # 0
  /\ Lockable(v, c)
  /\ commitments' = [commitments EXCEPT
       ![v][c] = [auctionId |-> a, amount |-> value, claimed |-> @.claimed,
                  claimAuthority |-> claimAuthority]]
  /\ auctionTotals' = [auctionTotals EXCEPT ![v][a] = @ + value]
  /\ vaultBalance' = [vaultBalance EXCEPT ![v] = @ + value]
  /\ UNCHANGED <<refundsUnlocked, shieldedSlashReserves, winningCommitments,
                 usedClaimAuthorizations, shieldedBidVerifier, vaultWired>>

(* The part of a slash that goes back to the market for public bidders.    *)
PublicSlashAllocation(v, a, value, publicEscrow) ==
  IF auctionTotals[v][a] = 0 THEN value
  ELSE (value * publicEscrow) \div (publicEscrow + auctionTotals[v][a])

Vault_allocateSlash(v, a, value, publicEscrow) ==
  LET shielded == value - PublicSlashAllocation(v, a, value, publicEscrow) IN
  /\ vaultWired[v]
  /\ value # 0
  /\ publicEscrow + auctionTotals[v][a] # 0
  /\ shieldedSlashReserves' = [shieldedSlashReserves EXCEPT ![v][a] = @ + shielded]
  /\ vaultBalance' = [vaultBalance EXCEPT ![v] = @ + shielded]

(* The price leaves the winning commitment for the market; what remains of *)
(* it stays refundable.                                                    *)
Vault_settleWinningCommitment(v, a, c, winningAmount) ==
  /\ vaultWired[v]
  /\ ~refundsUnlocked[v][a]
  /\ winningCommitments[v][a] = 0
  /\ commitments[v][c].amount # 0
  /\ commitments[v][c].auctionId = a
  /\ winningAmount <= commitments[v][c].amount
  /\ winningAmount <= auctionTotals[v][a]
  /\ winningAmount <= vaultBalance[v]
  /\ commitments' = [commitments EXCEPT ![v][c].amount = @ - winningAmount]
  /\ winningCommitments' = [winningCommitments EXCEPT ![v][a] = c]
  /\ auctionTotals' = [auctionTotals EXCEPT ![v][a] = @ - winningAmount]
  /\ vaultBalance' = [vaultBalance EXCEPT ![v] = @ - winningAmount]

Vault_unlockRefunds(v, a) ==
  /\ vaultWired[v]
  /\ refundsUnlocked' = [refundsUnlocked EXCEPT ![v][a] = TRUE]

-----------------------------------------------------------------------------
(* Claims.                                                                 *)

(* _requireSpendableCommitment                                             *)
Spendable(v, c) == commitments[v][c].amount # 0

(* _requireRegisteredCommitment                                            *)
Registered(v, c) ==
  commitments[v][c].auctionId # 0 /\ commitments[v][c].claimAuthority # 0

(* _consumeClaimAuthorization: a signature by the claim authority, not     *)
(* expired, over a digest that has not been used.                          *)
ConsumeClaimAuthorization(v, tag, c, recipient, deadline, signer, time) ==
  LET digest == [tag |-> tag, auctionId |-> commitments[v][c].auctionId,
                 commitment |-> c, recipient |-> recipient, deadline |-> deadline] IN
  /\ time <= deadline
  /\ Registered(v, c)
  /\ digest \notin usedClaimAuthorizations[v]
  /\ signer = commitments[v][c].claimAuthority
  /\ usedClaimAuthorizations' =
       [usedClaimAuthorizations EXCEPT ![v] = @ \cup {digest}]

Vault_authorizeAssetClaim(v, a, c, recipient, deadline, signer, time) ==
  /\ vaultWired[v]
  /\ Registered(v, c)
  /\ commitments[v][c].auctionId = a
  /\ ConsumeClaimAuthorization(v, "ASSET_CLAIM", c, recipient, deadline, signer, time)
  /\ UNCHANGED <<commitments, auctionTotals, refundsUnlocked, shieldedSlashReserves,
                 winningCommitments, shieldedBidVerifier, vaultBalance, vaultWired>>

(* Mutant of ShieldedCompensation: it divides before it multiplies.        *)
CompensationDividedFirst(v, a, principal) ==
  IF shieldedSlashReserves[v][a] = 0 \/ auctionTotals[v][a] = 0 THEN 0
  ELSE principal * (shieldedSlashReserves[v][a] \div auctionTotals[v][a])

(* _consumeShieldedCompensation: a share of what is left of the reserve,   *)
(* over what is left of the escrow.                                        *)
ShieldedCompensation(v, a, principal) ==
  IF shieldedSlashReserves[v][a] = 0 \/ auctionTotals[v][a] = 0 THEN 0
  ELSE (principal * shieldedSlashReserves[v][a]) \div auctionTotals[v][a]

(* claimRefundWithAuthorization and _releaseRefund, without the call to    *)
(* the market's settleShieldedRefund, which the market's module adds.      *)
Vault_claimRefundWithAuthorization(v, c, recipient, deadline, signer, time) ==
  LET a            == commitments[v][c].auctionId
      principal    == commitments[v][c].amount
      compensation == ShieldedCompensation(v, a, principal) IN
  /\ Spendable(v, c)
  /\ ConsumeClaimAuthorization(v, "REFUND_CLAIM", c, recipient, deadline, signer, time)
  /\ refundsUnlocked[v][a]
  /\ compensation <= shieldedSlashReserves[v][a]
  /\ principal <= auctionTotals[v][a]
  /\ recipient \notin RejectsValue
  /\ principal + compensation <= vaultBalance[v]
  /\ shieldedSlashReserves' = [shieldedSlashReserves EXCEPT ![v][a] = @ - compensation]
  /\ commitments' = [commitments EXCEPT ![v][c].claimed = TRUE, ![v][c].amount = 0]
  /\ auctionTotals' = [auctionTotals EXCEPT ![v][a] = @ - principal]
  /\ vaultBalance' = [vaultBalance EXCEPT ![v] = @ - (principal + compensation)]
  /\ UNCHANGED <<refundsUnlocked, winningCommitments, shieldedBidVerifier, vaultWired>>

(* Mutant of BidCovered: the bid is not compared with the escrow.          *)
BidNotCompared(v, c, numeric, payload, deadline, time) ==
  Spendable(v, c) /\ time <= deadline /\ numeric

(* verifyBidCoverageProof.  The prover's signature or the Groth16 proof is *)
(* an input; what the verifiers check of the ciphertext is not: the mock   *)
(* decodes a number, the ZK verifier only reads the payload.               *)
BidCovered(v, c, numeric, payload, deadline, time) ==
  /\ Spendable(v, c)
  /\ time <= deadline
  /\ \/ shieldedBidVerifier[v] = "MOCK" /\ numeric
     \/ shieldedBidVerifier[v] = "ZK"
  /\ payload <= commitments[v][c].amount
=============================================================================
