-------------------------------- MODULE Sums --------------------------------
(***************************************************************************)
(* Finite sums indexed by 1..n: how the ledgers of the contracts (balances *)
(* per auction, escrow per bidder) are added up.                           *)
(***************************************************************************)
EXTENDS Integers

(* PartialSums(f, n)[i] = f[1] + ... + f[i].                               *)
PartialSums(f, n) ==
  LET g[i \in 0..n] == IF i = 0 THEN 0 ELSE g[i-1] + f[i] IN g

SumTo(f, n) == PartialSums(f, n)[n]
=============================================================================
