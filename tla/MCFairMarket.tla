---------------------------- MODULE MCFairMarket ----------------------------
(***************************************************************************)
(* Instances of the market for TLC.  Amounts are small; deposits are large *)
(* enough for the reward of 20 basis points not to vanish.                 *)
(***************************************************************************)
EXTENDS BidResolution

Euint(n) == [kind |-> "EUINT96", payload |-> n]

PublicBids == {Euint(1), Euint(2)}

ShieldedBids == {Euint(1), Euint(2), Euint(3)}

OneBid == {Euint(2)}
=============================================================================
