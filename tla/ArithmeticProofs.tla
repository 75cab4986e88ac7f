-------------------------- MODULE ArithmeticProofs --------------------------
(***************************************************************************)
(* The arithmetic that the ledgers rest on: what the functions of the      *)
(* settlement engine return and bound for every amount, and how finite     *)
(* sums change with one of their terms.                                    *)
(***************************************************************************)
EXTENDS SettlementEngine, Sums, WellFoundedInduction, TLAPS

(* A quotient of naturals is a natural, and a bound on the dividend bounds *)
(* it.                                                                     *)
LEMMA DivNat ==
  ASSUME NEW x \in Nat, NEW d \in Nat \ {0}
  PROVE  x \div d \in Nat /\ d * (x \div d) <= x /\ x < d * (x \div d) + d
OBVIOUS

(* Multiplication by a natural keeps an order.                             *)
LEMMA MulMonotone ==
  ASSUME NEW x \in Nat, NEW y \in Nat, NEW z \in Nat, x <= y
  PROVE  z * x <= z * y /\ z * x \in Nat
OBVIOUS

(* A dividend of at most k times the divisor has a quotient of at most k.  *)
LEMMA DivBound ==
  ASSUME NEW x \in Nat, NEW d \in Nat \ {0}, NEW k \in Nat, x <= d * k
  PROVE  x \div d \in 0..k
<1> DEFINE q == x \div d
<1>1. q \in Nat /\ d * q <= x
  BY DivNat
<1> HIDE DEF q
<1>2. SUFFICES ASSUME q >= k + 1 PROVE FALSE
  BY <1>1 DEF q
<1>3. d * (k + 1) <= d * q
  BY <1>1, <1>2, MulMonotone
<1>4. d * (k + 1) = d * k + d
  OBVIOUS
<1> QED
  BY <1>1, <1>3, <1>4

(* A multiple of the divisor is divided without a remainder.               *)
LEMMA QuotientExact ==
  ASSUME NEW d \in Nat \ {0}, NEW k \in Nat
  PROVE  (d * k) \div d = k
<1> DEFINE q == (d * k) \div d
<1>1. d * k \in Nat
  OBVIOUS
<1>2. q \in 0..k /\ d * k < d * q + d
  BY <1>1, DivNat, DivBound
<1> HIDE DEF q
<1>3. SUFFICES ASSUME q + 1 <= k PROVE FALSE
  BY <1>2 DEF q
<1>4. d * (q + 1) <= d * k
  BY <1>2, <1>3, MulMonotone
<1>5. d * (q + 1) = d * q + d
  BY <1>2
<1> QED
  BY <1>1, <1>2, <1>4, <1>5

(* SaturatingSub stays between zero and what is subtracted from.           *)
LEMMA SaturatingSubNat ==
  ASSUME NEW x \in Nat, NEW y \in Nat
  PROVE  SaturatingSub(x, y) \in 0..x /\ (y <= x => SaturatingSub(x, y) = x - y)
BY DEF SaturatingSub

(* A share of the pot is a natural number (computeProRataShare).           *)
LEMMA ProRataShareNat ==
  ASSUME NEW contribution \in Nat, NEW escrow \in Nat, NEW pot \in Nat
  PROVE  computeProRataShare(contribution, escrow, pot) \in Nat
<1>1. contribution * pot \in Nat
  OBVIOUS
<1> QED
  BY <1>1, DivNat DEF computeProRataShare

(* The slash rate runs from a quarter to the whole, which it reaches at    *)
(* the end (computeCancellationSlash).                                     *)
LEMMA SlashBpsRange ==
  ASSUME NEW elapsed \in Nat, NEW duration \in Nat \ {0}
  PROVE  /\ CancellationSlashBps(elapsed, duration)
              \in MIN_CANCELLATION_SLASH_BPS..BPS_DENOMINATOR
         /\ elapsed >= duration => CancellationSlashBps(elapsed, duration) = BPS_DENOMINATOR
<1> DEFINE bounded == IF elapsed > duration THEN duration ELSE elapsed
           part == BPS_DENOMINATOR - MIN_CANCELLATION_SLASH_BPS
<1>1. bounded \in Nat /\ bounded <= duration /\ (elapsed >= duration => bounded = duration)
  OBVIOUS
<1>2. part = 7500
  BY DEF BPS_DENOMINATOR, MIN_CANCELLATION_SLASH_BPS
<1> DEFINE x == bounded * part
           q == x \div duration
<1>3. CancellationSlashBps(elapsed, duration) = MIN_CANCELLATION_SLASH_BPS + q
  BY Zenon DEF CancellationSlashBps
<1> HIDE DEF bounded, part
<1>4. x \in Nat /\ x <= duration * 7500 /\ (elapsed >= duration => x = duration * 7500)
  BY <1>1, <1>2
<1> HIDE DEF x
<1>5. q \in 0..7500
  BY <1>4, DivBound
<1>6. elapsed >= duration => q = 7500
  <2> SUFFICES ASSUME x = duration * 7500 PROVE q = 7500
    BY <1>4
  <2> QED
    BY QuotientExact
<1> HIDE DEF q
<1>7. MIN_CANCELLATION_SLASH_BPS + q \in MIN_CANCELLATION_SLASH_BPS..BPS_DENOMINATOR
  BY <1>5 DEF MIN_CANCELLATION_SLASH_BPS, BPS_DENOMINATOR
<1>8. elapsed >= duration => MIN_CANCELLATION_SLASH_BPS + q = BPS_DENOMINATOR
  BY <1>6 DEF MIN_CANCELLATION_SLASH_BPS, BPS_DENOMINATOR
<1> QED
  BY <1>3, <1>7, <1>8

(* A cancelling seller loses nothing as long as nobody has escrowed;       *)
(* otherwise at least a quarter of the deposit, never more than all of it, *)
(* and exactly all of it from the end of the auction on: the rounded rate  *)
(* and the rounded product lose no wei there (computeCancellationSlash).   *)
THEOREM CancellationSlashBounded ==
  ASSUME NEW deposit \in Nat, NEW elapsed \in Nat, NEW duration \in Nat, NEW escrow \in Nat
  PROVE  LET slash == computeCancellationSlash(deposit, elapsed, duration, escrow) IN
         /\ slash \in 0..deposit
         /\ escrow = 0 => slash = 0
         /\ escrow # 0 => /\ slash >= deposit \div 4
                          /\ elapsed >= duration => slash = deposit
<1>1. CASE deposit = 0 \/ escrow = 0 \/ duration = 0
  BY <1>1 DEF computeCancellationSlash
<1>2. CASE ~(deposit = 0 \/ escrow = 0) /\ duration # 0
  <2> DEFINE bps == CancellationSlashBps(elapsed, duration)
             product == deposit * bps
  <2>1. /\ bps \in MIN_CANCELLATION_SLASH_BPS..BPS_DENOMINATOR
        /\ elapsed >= duration => bps = BPS_DENOMINATOR
    BY <1>2, SlashBpsRange
  <2>2. computeCancellationSlash(deposit, elapsed, duration, escrow) = product \div 10000
    BY <1>2 DEF computeCancellationSlash, BPS_DENOMINATOR
  <2> HIDE DEF bps
  <2>3. product \in Nat /\ product <= 10000 * deposit /\ 2500 * deposit <= product
    BY <2>1, MulMonotone DEF MIN_CANCELLATION_SLASH_BPS, BPS_DENOMINATOR
  <2>4. elapsed >= duration => product = 10000 * deposit
    BY <2>1 DEF BPS_DENOMINATOR
  <2> HIDE DEF product
  <2>5. /\ product \div 10000 \in 0..deposit
        /\ product \div 10000 >= deposit \div 4
        /\ elapsed >= duration => product \div 10000 = deposit
    BY <2>3, <2>4
  <2> QED
    BY <1>2, <2>2, <2>5
<1> QED
  BY <1>1, <1>2

(* The timeout of the fallback is bounded on both sides, whatever the      *)
(* average (computeDynamicTimeout).                                        *)
THEOREM DynamicTimeoutBounded ==
  ASSUME NEW average \in Nat
  PROVE  computeDynamicTimeout(average) \in MIN_DYNAMIC_TIMEOUT..MAX_DYNAMIC_TIMEOUT
BY DEF computeDynamicTimeout, Clamp, MIN_DYNAMIC_TIMEOUT, MAX_DYNAMIC_TIMEOUT,
       DYNAMIC_TIMEOUT_MULTIPLIER

-----------------------------------------------------------------------------
(* Sums.                                                                   *)

(* Induction over the naturals, stated on sets.                            *)
LEMMA SetInduction ==
  ASSUME NEW S, 0 \in S, \A n \in Nat : n \in S => n + 1 \in S
  PROVE  Nat \subseteq S
<1> DEFINE T == Nat \ S
<1> SUFFICES ASSUME T # {} PROVE FALSE
  OBVIOUS
<1> DEFINE R == {ss \in Nat \X Nat : ss[1] < ss[2]}
<1>0. IsWellFoundedOn(R, Nat)
  BY NatLessThanWellFounded, Zenon DEF OpToRel
<1> HIDE DEF R
<1>1. PICK x \in T : \A y \in T : ~ (<<y, x>> \in R)
  BY <1>0, WFMin, Zenon
<1>2. \A y \in T : ~ (y < x)
  BY <1>1 DEF R
<1>3. x \in Nat /\ x # 0
  OBVIOUS
<1>4. x - 1 \in Nat /\ x - 1 < x
  BY <1>3
<1>5. x - 1 \in S
  BY <1>2, <1>4
<1>6. x \in S
  BY <1>4, <1>5
<1> QED
  BY <1>6

(* A function satisfies the recursion that defines PartialSums.            *)
IsPartialSums(g, f, n) ==
  /\ g \in [0..n -> Int]
  /\ g[0] = 0
  /\ \A i \in 1..n : g[i] = g[i-1] + f[i]

(* Partial sums exist for every length: they can be extended by one term.  *)
LEMMA PartialSumsExist ==
  ASSUME NEW n \in Nat, NEW f \in [1..n -> Int]
  PROVE  \E g : IsPartialSums(g, f, n)
<1> DEFINE S == {k \in Nat : k <= n => \E g : IsPartialSums(g, f, k)}
<1>1. 0 \in S
  <2>1. IsPartialSums([i \in 0..0 |-> 0], f, 0)
    BY DEF IsPartialSums
  <2> QED
    BY <2>1
<1>2. ASSUME NEW k \in Nat, k \in S
      PROVE  k + 1 \in S
  <2> SUFFICES ASSUME k + 1 <= n
               PROVE  \E g : IsPartialSums(g, f, k + 1)
    OBVIOUS
  <2>1. PICK g : IsPartialSums(g, f, k)
    BY <1>2
  <2> DEFINE h == [i \in 0..(k+1) |-> IF i = k + 1 THEN g[k] + f[k+1] ELSE g[i]]
  <2>2. f[k+1] \in Int
    OBVIOUS
  <2>3. h \in [0..(k+1) -> Int]
    BY <2>1, <2>2 DEF IsPartialSums
  <2>4. h[0] = 0
    BY <2>1 DEF IsPartialSums
  <2>5. ASSUME NEW i \in 1..(k+1) PROVE h[i] = h[i-1] + f[i]
    <3>1. CASE i = k + 1
      BY <3>1
    <3>2. CASE i # k + 1
      <4>1. i \in 1..k /\ i - 1 \in 0..(k+1) /\ i - 1 # k + 1
        BY <3>2
      <4> QED
        BY <2>1, <4>1, <3>2 DEF IsPartialSums
    <3> QED
      BY <3>1, <3>2
  <2> HIDE DEF h
  <2> QED
    BY <2>3, <2>4, <2>5 DEF IsPartialSums
<1> HIDE DEF S
<1>3. n \in S
  BY <1>1, <1>2, SetInduction
<1> QED
  BY <1>3 DEF S

(* Two functions with the same terms have the same partial sums.           *)
LEMMA PartialSumsUnique ==
  ASSUME NEW n \in Nat, NEW f, NEW g, NEW h,
         IsPartialSums(g, f, n), IsPartialSums(h, f, n)
  PROVE  g = h
<1> DEFINE S == {k \in Nat : k <= n => g[k] = h[k]}
<1>1. 0 \in S
  BY DEF IsPartialSums
<1>2. ASSUME NEW k \in Nat, k \in S
      PROVE  k + 1 \in S
  BY <1>2 DEF IsPartialSums
<1> HIDE DEF S
<1>3. \A k \in Nat : k \in S
  BY <1>1, <1>2, SetInduction
<1>4. \A k \in 0..n : g[k] = h[k]
  BY <1>3 DEF S
<1> QED
  BY <1>4 DEF IsPartialSums

(* PartialSums satisfies its own recursion.                                *)
LEMMA PartialSumsDef ==
  ASSUME NEW n \in Nat, NEW f \in [1..n -> Int]
  PROVE  IsPartialSums(PartialSums(f, n), f, n)
<1> DEFINE Rec(g) == g = [i \in 0..n |-> IF i = 0 THEN 0 ELSE g[i-1] + f[i]]
<1>1. PICK h : IsPartialSums(h, f, n)
  BY PartialSumsExist
<1>2. Rec(h)
  BY <1>1 DEF IsPartialSums
<1>3. PartialSums(f, n) = CHOOSE g : Rec(g)
  BY DEF PartialSums
<1>4. Rec(PartialSums(f, n))
  BY <1>2, <1>3, Zenon
<1> DEFINE p == PartialSums(f, n)
<1>5. DOMAIN p = 0..n /\ p[0] = 0 /\ \A i \in 1..n : p[i] = p[i-1] + f[i]
  <2> HIDE DEF p
  <2>1. p = [i \in 0..n |-> IF i = 0 THEN 0 ELSE p[i-1] + f[i]]
    BY <1>4, Zenon DEF p
  <2> QED
    BY <2>1
<1> HIDE DEF Rec, p
<1> DEFINE S == {k \in Nat : k <= n => p[k] \in Int}
<1>6. 0 \in S
  BY <1>5
<1>7. ASSUME NEW k \in Nat, k \in S
      PROVE  k + 1 \in S
  BY <1>5, <1>7
<1> HIDE DEF S
<1>8. \A k \in Nat : k \in S
  BY <1>6, <1>7, SetInduction
<1>9. \A k \in 0..n : p[k] \in Int
  BY <1>8 DEF S
<1>10. p = [i \in 0..n |-> p[i]]
  BY <1>4 DEF Rec, p
<1>11. p \in [0..n -> Int]
  BY <1>9, <1>10
<1> QED
  BY <1>5, <1>11 DEF IsPartialSums, p

(* The sum is determined by any function that satisfies the recursion.     *)
LEMMA SumByPartialSums ==
  ASSUME NEW n \in Nat, NEW f \in [1..n -> Int], NEW g, IsPartialSums(g, f, n)
  PROVE  SumTo(f, n) = g[n]
BY PartialSumsDef, PartialSumsUnique DEF SumTo

(* A sum of integers is an integer.                                        *)
LEMMA SumInt ==
  ASSUME NEW n \in Nat, NEW f \in [1..n -> Int]
  PROVE  SumTo(f, n) \in Int
BY PartialSumsDef DEF SumTo, IsPartialSums

(* Changing one term changes the sum by the difference.                    *)
LEMMA SumUpdate ==
  ASSUME NEW n \in Nat, NEW f \in [1..n -> Int], NEW k \in 1..n, NEW v \in Int
  PROVE  SumTo([f EXCEPT ![k] = v], n) = SumTo(f, n) + v - f[k]
<1> DEFINE g == PartialSums(f, n)
           e == [f EXCEPT ![k] = v]
           h == [i \in 0..n |-> IF i < k THEN g[i] ELSE g[i] + v - f[k]]
<1>1. IsPartialSums(g, f, n)
  BY PartialSumsDef
<1> HIDE DEF g
<1>2. e \in [1..n -> Int]
  OBVIOUS
<1>3. IsPartialSums(h, e, n)
  <2>1. h \in [0..n -> Int] /\ h[0] = 0
    BY <1>1 DEF IsPartialSums
  <2>2. ASSUME NEW i \in 1..n PROVE h[i] = h[i-1] + e[i]
    <3>1. g[i] = g[i-1] + f[i] /\ g[i-1] \in Int /\ f[i] \in Int /\ f[k] \in Int
      BY <1>1 DEF IsPartialSums
    <3>2. CASE i < k
      BY <3>1, <3>2
    <3>3. CASE i = k
      BY <3>1, <3>3
    <3>4. CASE i > k
      BY <3>1, <3>4
    <3> QED
      BY <3>2, <3>3, <3>4
  <2> QED
    BY <2>1, <2>2 DEF IsPartialSums
<1>4. SumTo(e, n) = h[n]
  BY <1>2, <1>3, SumByPartialSums
<1>5. SumTo(f, n) = g[n]
  BY <1>1, SumByPartialSums
<1> QED
  BY <1>4, <1>5

(* A sum of naturals is a natural, and no smaller than any of its terms.   *)
LEMMA SumBound ==
  ASSUME NEW n \in Nat, NEW f \in [1..n -> Nat]
  PROVE  /\ SumTo(f, n) \in Nat
         /\ \A k \in 1..n : f[k] <= SumTo(f, n)
<1> DEFINE g == PartialSums(f, n)
<1>0. f \in [1..n -> Int]
  OBVIOUS
<1>1. IsPartialSums(g, f, n)
  BY <1>0, PartialSumsDef
<1>2. SumTo(f, n) = g[n]
  BY DEF SumTo
<1> HIDE DEF g
<1> DEFINE S == {i \in Nat : i <= n => g[i] >= 0 /\ \A k \in 1..i : f[k] <= g[i]}
<1>3. 0 \in S
  BY <1>1 DEF IsPartialSums
<1>4. ASSUME NEW i \in Nat, i \in S
      PROVE  i + 1 \in S
  <2> SUFFICES ASSUME i + 1 <= n
               PROVE  g[i+1] >= 0 /\ \A k \in 1..(i+1) : f[k] <= g[i+1]
    OBVIOUS
  <2>1. g[i+1] = g[i] + f[i+1] /\ g[i] \in Int /\ f[i+1] \in Nat
    BY <1>1 DEF IsPartialSums
  <2>2. g[i] >= 0 /\ \A k \in 1..i : f[k] <= g[i]
    BY <1>4
  <2>3. \A k \in 1..(i+1) : f[k] \in Nat
    OBVIOUS
  <2> QED
    BY <2>1, <2>2, <2>3
<1> HIDE DEF S
<1>5. n \in S
  BY <1>3, <1>4, SetInduction
<1>6. g[n] \in Int
  BY <1>1 DEF IsPartialSums
<1> QED
  BY <1>2, <1>5, <1>6 DEF S

(* A sum of zeros is zero.                                                 *)
LEMMA SumZero ==
  ASSUME NEW n \in Nat
  PROVE  SumTo([i \in 1..n |-> 0], n) = 0
<1> DEFINE f == [i \in 1..n |-> 0]
           g == [i \in 0..n |-> 0]
<1>1. IsPartialSums(g, f, n)
  BY DEF IsPartialSums
<1>2. f \in [1..n -> Int]
  OBVIOUS
<1> QED
  BY <1>1, <1>2, SumByPartialSums

LEMMA Distributes == \A x, y, z \in Int : x * (y + z) = x * y + x * z
BY SMT

(* What holds for the terms of two sums up to a ratio holds for the sums.  *)
LEMMA SumScaled ==
  ASSUME NEW n \in Nat, NEW f \in [1..n -> Nat], NEW g \in [1..n -> Nat],
         NEW s \in Nat, NEW t \in Nat, \A k \in 1..n : t * g[k] <= s * f[k]
  PROVE  t * SumTo(g, n) <= s * SumTo(f, n)
<1> DEFINE p == PartialSums(f, n)
           q == PartialSums(g, n)
<1>0. f \in [1..n -> Int] /\ g \in [1..n -> Int]
  OBVIOUS
<1>1. IsPartialSums(p, f, n) /\ IsPartialSums(q, g, n)
  BY <1>0, PartialSumsDef
<1>2. SumTo(f, n) = p[n] /\ SumTo(g, n) = q[n]
  BY DEF SumTo
<1> HIDE DEF p, q
<1> DEFINE S == {i \in Nat : i <= n => t * q[i] <= s * p[i]}
<1>3. 0 \in S
  BY <1>1 DEF IsPartialSums
<1>4. ASSUME NEW i \in Nat, i \in S
      PROVE  i + 1 \in S
  <2> SUFFICES ASSUME i + 1 <= n
               PROVE  t * q[i+1] <= s * p[i+1]
    OBVIOUS
  <2> DEFINE x == p[i]
             y == q[i]
             c == f[i+1]
             d == g[i+1]
  <2>1. /\ i \in 0..n /\ i + 1 \in 1..n /\ (i + 1) - 1 = i
    OBVIOUS
  <2>2. /\ p[i+1] = x + c /\ q[i+1] = y + d
        /\ x \in Int /\ y \in Int /\ c \in Int /\ d \in Int
    BY <1>0, <1>1, <2>1 DEF IsPartialSums
  <2>3. t * y <= s * x /\ t * d <= s * c
    BY <1>4, <2>1
  <2> HIDE DEF x, y, c, d
  <2>4. /\ t * (y + d) = t * y + t * d /\ s * (x + c) = s * x + s * c
        /\ t * y \in Int /\ t * d \in Int /\ s * x \in Int /\ s * c \in Int
    <3>1. \A m, k \in Int : m * k \in Int
      OBVIOUS
    <3>2. s \in Int /\ t \in Int
      OBVIOUS
    <3> QED
      BY <2>2, <3>1, <3>2, Distributes
  <2>5. \A j, k, l, m \in Int : j <= l /\ k <= m => j + k <= l + m
    OBVIOUS
  <2>6. t * y + t * d <= s * x + s * c
    BY <2>3, <2>4, <2>5, Zenon
  <2> QED
    BY <2>2, <2>4, <2>6, Zenon
<1> HIDE DEF S
<1>5. n \in S
  BY <1>3, <1>4, SetInduction
<1> QED
  BY <1>2, <1>5 DEF S

(* A sum grows with its terms.                                             *)
LEMMA SumMonotone ==
  ASSUME NEW n \in Nat, NEW f \in [1..n -> Nat], NEW g \in [1..n -> Nat],
         \A k \in 1..n : g[k] <= f[k]
  PROVE  SumTo(g, n) <= SumTo(f, n)
<1>1. \A k \in 1..n : 1 * g[k] <= 1 * f[k]
  OBVIOUS
<1>2. 1 * SumTo(g, n) <= 1 * SumTo(f, n)
  BY <1>1, SumScaled
<1>3. SumTo(f, n) \in Nat /\ SumTo(g, n) \in Nat
  BY SumBound
<1> QED
  BY <1>2, <1>3

(* Shares of s that are rounded down add up to no more than s.             *)
LEMMA SharesFit ==
  ASSUME NEW n \in Nat, NEW f \in [1..n -> Nat], NEW g \in [1..n -> Nat],
         NEW s \in Nat, NEW t \in Nat \ {0}, SumTo(f, n) = t,
         \A k \in 1..n : t * g[k] <= s * f[k]
  PROVE  SumTo(g, n) <= s
<1>1. t * SumTo(g, n) <= s * t
  BY SumScaled
<1>2. SumTo(g, n) \in Nat
  BY SumBound
<1>3. \A x, y \in Nat, z \in Nat \ {0} : z * x <= y * z => x <= y
  <2> SUFFICES ASSUME NEW x \in Nat, NEW y \in Nat, NEW z \in Nat \ {0}, x > y
               PROVE  z * x > y * z
    OBVIOUS
  <2> DEFINE d == x - y
  <2>1. d \in Nat \ {0} /\ x = y + d
    OBVIOUS
  <2> HIDE DEF d
  <2>2. z * x = z * y + z * d
    BY <2>1, Distributes
  <2>3. z * d > 0 /\ z * y = y * z /\ z * y \in Int /\ z * d \in Int
    BY <2>1
  <2> QED
    BY <2>2, <2>3
<1> QED
  BY <1>1, <1>2, <1>3
=============================================================================
