---------------------------- MODULE BidResolution ---------------------------
(***************************************************************************)
(* How the keeper gets from the bids on chain to the outcome it submits:   *)
(* the job that runner.ts collects, the winner that cofheDispatcher.ts     *)
(* picks of it or accepts from the FHE service, and the transaction that   *)
(* runner.ts makes of the answer.  The keeper is a preview reader of the   *)
(* vault; without that it would skip every shielded bid.  Lists of bids    *)
(* are sets here, so that which of two equal bids comes first is open.     *)
(***************************************************************************)
EXTENDS FairMarketProperties

(* A shielded bid goes by its identity, or by the hash of its commitment   *)
(* if it has none: a number beyond those of the identities.                *)
IdentityFor(r, a, c) ==
  IF r = 0 \/ commitmentToIdentity[r][a][c] = 0 THEN NumIdentities + c
  ELSE commitmentToIdentity[r][a][c]

PublicBidRecords(a) ==
  {[isShielded |-> FALSE, bidder |-> u, encryptedBid |-> encryptedBids[a][u],
    availableEscrow |-> escrowBalances[a][u]] : u \in bidders[a]}

(* Vault and registry are those of the market, not those of the auction.   *)
ShieldedBidRecords(a) ==
  LET v == dependencies.shieldedEscrowVault
      r == dependencies.shieldedIdentityRegistry
      held == {c \in shieldedBidders[a] :
                 v # 0 /\ commitments[v][c].auctionId = a
                 /\ ~refundsUnlocked[v][a] /\ ~commitments[v][c].claimed}
  IN  {[isShielded |-> TRUE, bidder |-> IdentityFor(r, a, c),
        encryptedBid |-> shieldedEncryptedBids[a][c],
        availableEscrow |-> commitments[v][c].amount] : c \in held}

CollectEncryptedBids(a) == PublicBidRecords(a) \cup ShieldedBidRecords(a)

Eligible(bids, startingPrice) ==
  {b \in bids : startingPrice <= b.encryptedBid.payload
                  /\ b.encryptedBid.payload <= b.availableEscrow}

(* Mutant of PickHighest: the highest bid so far is not kept.              *)
PickEligible(bids, startingPrice) == Eligible(bids, startingPrice)

(* One bid that cannot be decoded fails the whole batch (see Resolutions). *)
PickHighest(bids, startingPrice) ==
  LET eligible == Eligible(bids, startingPrice)
  IN  {b \in eligible : \A other \in eligible : other.encryptedBid.payload <= b.encryptedBid.payload}

NoWinner == [winnerKind |-> "none", winner |-> 0, winnerCiphertext |-> ZeroWord, winningAmount |-> 0]

ResolutionFor(b) ==
  [winnerKind |-> IF b.isShielded THEN "shielded" ELSE "public", winner |-> b.bidder,
   winnerCiphertext |-> b.encryptedBid, winningAmount |-> b.encryptedBid.payload]

(* What the local client may answer to the job of an auction.              *)
Resolutions(a) ==
  LET bids == CollectEncryptedBids(a)
      best == PickHighest(bids, listing[a].startingPrice)
  IN  IF \E b \in bids : ~Numeric(b.encryptedBid) THEN {}
      ELSE IF best = {} THEN {NoWinner}
      ELSE {ResolutionFor(b) : b \in best}

(* Which answers of the service are taken; the price is not decoded here.  *)
ParseLiveResolution(bids, r) ==
  IF r.winnerKind = "none" THEN r = NoWinner
  ELSE /\ r.winner # 0 /\ r.winningAmount > 0
       /\ \E b \in bids : /\ b.bidder = r.winner /\ b.isShielded = (r.winnerKind = "shielded")
                          /\ b.encryptedBid = r.winnerCiphertext

(* What the market checks of the transaction the keeper sends.             *)
Admitted(a, r) ==
  IF r.winnerKind = "shielded"
  THEN /\ r.winner \in Identities
       /\ LET c == identityToCommitment[RegistryOf(a)][a][r.winner]
          IN  /\ ShieldedResolutionAdmissible(a, r.winner, c, r.winnerCiphertext, r.winningAmount)
              /\ r.winningAmount <= commitments[VaultOf(a)][c].amount
              /\ r.winningAmount <= auctionTotals[VaultOf(a)][a]
  ELSE ResolutionAdmissible(a, r.winner, r.winnerCiphertext, r.winningAmount)

-----------------------------------------------------------------------------
(* Every bid of an auction, in either lane, as a resolution at its price.  *)
Candidates(a) ==
  {[winnerKind |-> "public", winner |-> u, winnerCiphertext |-> encryptedBids[a][u],
    winningAmount |-> encryptedBids[a][u].payload] : u \in bidders[a]}
  \cup
  {[winnerKind |-> "shielded", winner |-> commitmentToIdentity[RegistryOf(a)][a][c],
    winnerCiphertext |-> shieldedEncryptedBids[a][c],
    winningAmount |-> shieldedEncryptedBids[a][c].payload] : c \in shieldedBidders[a]}

(* Keeper and market agree on who wins: the outcome picked from the bids   *)
(* on chain passes the checks of the dispatcher and of the market, and no  *)
(* bid that the market would take is higher.  A rotation by the owner      *)
(* costs what the keeper then cannot see, no more: the shielded bids of an *)
(* older lot after one of the vault, the identity of a shielded winner     *)
(* after one of the registry.  Left out is a best bid of zero, which a lot *)
(* without a minimum takes and no resolution may name.                     *)
HighestBidResolved ==
  \A a \in Auctions : state[a] = "RESOLVING" =>
    \A r \in Resolutions(a) : r.winnerKind = "none" \/ r.winningAmount # 0 =>
      /\ ParseLiveResolution(CollectEncryptedBids(a), r)
      /\ r.winnerKind # "shielded" \/ dependencies.shieldedIdentityRegistry = RegistryOf(a)
           => Admitted(a, r)
      /\ \A other \in Candidates(a) :
           /\ Admitted(a, other)
           /\ other.winnerKind = "public" \/ dependencies.shieldedEscrowVault = VaultOf(a)
           => other.winningAmount <= r.winningAmount
=============================================================================
