---------------------------- MODULE BracketProofs ----------------------------
(* Single elimination for every number of teams.  The generator's arithmetic *)
(* is turned into a tree: two matches lead to each match of a later round.   *)
(* The invariant says that the rows keep that tree, that a match is decided  *)
(* by the teams in it and that a place is empty or its feeder's winner's;    *)
(* everything else follows from it, round by round.  For the round robin the *)
(* places of the circle are given in closed form, so that two teams face     *)
(* each other in exactly one round.                                          *)
EXTENDS BracketService, TLAPS, FiniteSetTheorems, SequenceTheorems,
        WellFoundedInduction

-----------------------------------------------------------------------------
(* Numbers.  The generator builds its powers and its order of seeds by       *)
(* recursion; that such a definition has the values it describes follows     *)
(* from the least number at which it would fail.                             *)

\* A set of numbers that is not empty has a least one.
LEMMA LeastNumber ==
    ASSUME NEW S \in SUBSET Nat, S # {}
    PROVE  \E i \in S : \A j \in S : i <= j
<1> DEFINE R == {p \in Nat \X Nat : p[1] < p[2]}
<1>1. IsWellFoundedOn(R, Nat)
  BY NatLessThanWellFounded DEF OpToRel
<1>2. \A x, y \in Nat : y < x => <<y, x>> \in R
  OBVIOUS
<1> HIDE DEF R
<1>3. \E x \in S : \A y \in S : ~ (<<y, x>> \in R)
  BY <1>1, WFMin
<1>4. \A x, y \in Nat : ~(y < x) => x <= y
  OBVIOUS
<1> QED
  BY <1>2, <1>3, <1>4

\* h has the first n values of the sequence that starts with a and goes on
\* with g.
Begins(h, n, S, a, g) ==
    /\ h \in [0..n -> S] /\ h[0] = a
    /\ \A k \in 0..(n - 1) : h[k + 1] = g[<<k, h[k]>>]

\* g is a step on the values S, a the first of them.
Recurs(S, a, g) == a \in S /\ g \in [Nat \X S -> S]

\* What a value and a step define has a value at every number.
LEMMA Recursion ==
    ASSUME NEW S, NEW a, NEW g, Recurs(S, a, g)
    PROVE  \E f \in [Nat -> S] : /\ f[0] = a
                                 /\ \A k \in Nat : f[k + 1] = g[<<k, f[k]>>]
<1> USE DEF Recurs
<1> DEFINE bad == {n \in Nat : ~ \E h : Begins(h, n, S, a, g)}
<1>1. bad = {}
  <2> SUFFICES ASSUME bad # {} PROVE FALSE
    OBVIOUS
  <2>1. PICK n \in bad : \A m \in bad : n <= m
    BY LeastNumber
  <2>2. CASE n = 0
    <3>1. Begins([i \in 0..0 |-> a], 0, S, a, g)
      BY DEF Begins
    <3> QED
      BY <2>1, <2>2, <3>1
  <2>3. CASE n # 0
    <3>1. n \in Nat /\ n - 1 \in Nat /\ n - 1 \notin bad
      BY <2>1, <2>3
    <3>2. PICK h : Begins(h, n - 1, S, a, g)
      BY <3>1
    <3> DEFINE e == [i \in 0..n |-> IF i = n THEN g[<<n - 1, h[n - 1]>>]
                                    ELSE h[i]]
    <3>3. h[n - 1] \in S /\ g[<<n - 1, h[n - 1]>>] \in S
      BY <3>1, <3>2 DEF Begins
    <3>4. e \in [0..n -> S] /\ e[0] = a
      BY <2>3, <3>1, <3>2, <3>3 DEF Begins
    <3>5. ASSUME NEW k \in 0..(n - 1) PROVE e[k + 1] = g[<<k, e[k]>>]
      <4>1. k \in 0..n /\ k + 1 \in 0..n /\ k # n
        BY <3>1
      <4>2. CASE k = n - 1
        BY <3>1, <4>1, <4>2
      <4>3. CASE k # n - 1
        <5>1. k \in 0..((n - 1) - 1) /\ k + 1 # n
          BY <3>1, <4>3
        <5> QED
          BY <3>2, <4>1, <5>1 DEF Begins
      <4> QED
        BY <4>2, <4>3
    <3>6. Begins(e, n, S, a, g)
      BY <3>4, <3>5 DEF Begins
    <3> QED
      BY <2>1, <3>6
  <2> QED
    BY <2>2, <2>3
<1>2. ASSUME NEW n \in Nat, NEW m \in Nat, NEW h, NEW e, NEW i \in Nat,
             Begins(h, n, S, a, g), Begins(e, m, S, a, g), i <= n, i <= m
      PROVE  h[i] = e[i]
  <2> DEFINE odd == {j \in Nat : j <= n /\ j <= m /\ h[j] # e[j]}
  <2> SUFFICES ASSUME odd # {} PROVE FALSE
    BY <1>2
  <2>1. PICK j \in odd : \A k \in odd : j <= k
    BY LeastNumber
  <2>2. j # 0
    BY <1>2, <2>1 DEF Begins
  <2>3. j - 1 \in Nat /\ j - 1 \notin odd
    BY <2>1, <2>2
  <2>4. h[j - 1] = e[j - 1]
    BY <2>1, <2>3
  <2>5. j - 1 \in 0..(n - 1) /\ j - 1 \in 0..(m - 1) /\ (j - 1) + 1 = j
    BY <2>1, <2>3
  <2>6. h[j] = g[<<j - 1, h[j - 1]>>] /\ e[j] = g[<<j - 1, e[j - 1]>>]
    BY <1>2, <2>5 DEF Begins
  <2> QED
    BY <2>1, <2>4, <2>6
<1> DEFINE first(n) == CHOOSE h : Begins(h, n, S, a, g)
           f == [n \in Nat |-> first(n)[n]]
<1>3. ASSUME NEW n \in Nat PROVE Begins(first(n), n, S, a, g)
  BY <1>1, Zenon
<1> HIDE DEF first, bad
<1>4. f \in [Nat -> S]
  BY <1>3 DEF Begins
<1>5. f[0] = a
  BY <1>3 DEF Begins
<1>6. ASSUME NEW k \in Nat PROVE f[k + 1] = g[<<k, f[k]>>]
  <2>1. k + 1 \in Nat /\ k \in 0..((k + 1) - 1) /\ k <= k + 1
    OBVIOUS
  <2>2. first(k + 1)[k + 1] = g[<<k, first(k + 1)[k]>>]
    BY <1>3, <2>1 DEF Begins
  <2>3. first(k + 1)[k] = first(k)[k]
    BY <1>2, <1>3, <2>1
  <2> QED
    BY <2>1, <2>2, <2>3
<1> QED
  BY <1>4, <1>5, <1>6

-----------------------------------------------------------------------------
(* Powers of two.                                                            *)

\* What the recursive function Pow2 computes.
LEMMA Powers ==
    /\ Pow2 \in [Nat -> Nat] /\ Pow2[0] = 1
    /\ \A k \in Nat : Pow2[k + 1] = 2 * Pow2[k]
<1> DEFINE Fold(f) == f = [k \in Nat |-> IF k = 0 THEN 1 ELSE 2 * f[k - 1]]
<1>1. \E f : Fold(f)
  <2> DEFINE g == [p \in Nat \X Nat |-> 2 * p[2]]
  <2>1. Recurs(Nat, 1, g)
    BY DEF Recurs
  <2>2. PICK f \in [Nat -> Nat] :
          f[0] = 1 /\ \A k \in Nat : f[k + 1] = g[<<k, f[k]>>]
    <3> HIDE DEF g
    <3> QED
      BY <2>1, Recursion
  <2>3. ASSUME NEW k \in Nat PROVE f[k] = IF k = 0 THEN 1 ELSE 2 * f[k - 1]
    <3>1. CASE k = 0
      BY <2>2, <3>1
    <3>2. CASE k # 0
      <4>1. k - 1 \in Nat /\ (k - 1) + 1 = k
        BY <3>2
      <4>2. f[k] = g[<<k - 1, f[k - 1]>>]
        BY <2>2, <4>1
      <4> QED
        BY <2>2, <3>2, <4>1, <4>2
    <3> QED
      BY <3>1, <3>2
  <2>4. Fold(f)
    BY <2>2, <2>3
  <2> QED
    BY <2>4
<1>2. Pow2 = CHOOSE f : Fold(f)
  BY DEF Pow2
<1> HIDE DEF Fold
<1>3. Fold(Pow2)
  BY <1>1, <1>2, Zenon
<1>4. Pow2 = [k \in Nat |-> IF k = 0 THEN 1 ELSE 2 * Pow2[k - 1]]
  BY <1>3 DEF Fold
<1>5. Pow2[0] = 1 /\ \A k \in Nat : Pow2[k + 1] = 2 * Pow2[k]
  BY <1>4
<1>6. \A k \in Nat : Pow2[k] \in Nat
  <2> DEFINE bad == {k \in Nat : Pow2[k] \notin Nat}
  <2> SUFFICES ASSUME bad # {} PROVE FALSE
    OBVIOUS
  <2>1. PICK k \in bad : \A j \in bad : k <= j
    BY LeastNumber
  <2>2. k # 0
    BY <1>5, <2>1
  <2>3. k - 1 \in Nat /\ Pow2[k - 1] \in Nat /\ (k - 1) + 1 = k
    BY <2>1, <2>2
  <2> QED
    BY <1>5, <2>1, <2>3
<1> QED
  BY <1>4, <1>5, <1>6

\* Powers grow, and each is larger than its exponent.
LEMMA PowersGrow ==
    /\ \A k \in Nat : Pow2[k] >= 1 /\ k < Pow2[k]
    /\ \A j, k \in Nat : j < k => 2 * Pow2[j] <= Pow2[k]
<1>1. ASSUME NEW k \in Nat PROVE Pow2[k] >= 1 /\ k < Pow2[k]
  <2> DEFINE bad == {n \in Nat : ~(n < Pow2[n])}
  <2>1. bad = {}
    <3> SUFFICES ASSUME bad # {} PROVE FALSE
      OBVIOUS
    <3>1. PICK n \in bad : \A m \in bad : n <= m
      BY LeastNumber
    <3>2. n # 0
      BY <3>1, Powers
    <3>3. n - 1 \in Nat /\ n - 1 \notin bad /\ (n - 1) + 1 = n
      BY <3>1, <3>2
    <3>4. n - 1 < Pow2[n - 1] /\ Pow2[n - 1] \in Nat
      BY <3>3, Powers
    <3>5. Pow2[n] = 2 * Pow2[n - 1]
      BY <3>3, Powers
    <3> QED
      BY <3>1, <3>3, <3>4, <3>5
  <2>2. k < Pow2[k] /\ Pow2[k] \in Nat
    BY <2>1, Powers
  <2> QED
    BY <2>2
<1>2. ASSUME NEW j \in Nat, NEW k \in Nat, j < k
      PROVE  2 * Pow2[j] <= Pow2[k]
  <2> DEFINE bad == {n \in Nat : j < n /\ ~(2 * Pow2[j] <= Pow2[n])}
  <2> SUFFICES ASSUME bad # {} PROVE FALSE
    BY <1>2
  <2>1. PICK n \in bad : \A m \in bad : n <= m
    BY LeastNumber
  <2>2. n - 1 \in Nat /\ n - 1 \notin bad /\ (n - 1) + 1 = n /\ j <= n - 1
    BY <2>1
  <2>3. Pow2[n] = 2 * Pow2[n - 1]
    BY <2>2, Powers
  <2>4. Pow2[j] \in Nat /\ Pow2[n - 1] \in Nat
    BY <2>2, Powers
  <2>5. j < n - 1 => 2 * Pow2[j] <= Pow2[n - 1]
    BY <2>2
  <2>6. j = n - 1 \/ j < n - 1
    BY <2>2
  <2> QED
    BY <2>1, <2>3, <2>4, <2>5, <2>6
<1> QED
  BY <1>1, <1>2

\* A bracket has fewer entries than twice its size (nextPowerOfTwo).
LEMMA RoundsFit ==
    ASSUME NEW n \in Nat, n >= 2
    PROVE  /\ Rounds(n) \in Nat /\ Rounds(n) >= 1
           /\ Pow2[Rounds(n) - 1] < n /\ n <= Pow2[Rounds(n)]
           /\ Pow2[Rounds(n)] = 2 * Pow2[Rounds(n) - 1]
           /\ Pow2[Rounds(n) - 1] \in Nat
<1> DEFINE fit == {r \in Nat : n <= Pow2[r]}
<1>1. n \in fit
  BY PowersGrow, Powers
<1>2. PICK r \in fit : \A q \in fit : r <= q
  BY <1>1, LeastNumber
<1>3. r # 0
  BY <1>2, Powers
<1>4. r - 1 \in Nat /\ r - 1 \notin fit /\ Pow2[r - 1] \in Nat
  BY <1>2, <1>3, Powers
<1>5. r \in 1..n /\ Pow2[r - 1] < n /\ n <= Pow2[r]
  BY <1>1, <1>2, <1>3, <1>4
<1>6. Rounds(n) \in 1..n /\ Pow2[Rounds(n) - 1] < n /\ n <= Pow2[Rounds(n)]
  BY <1>5 DEF Rounds
<1> HIDE DEF fit
<1>7. Rounds(n) - 1 \in Nat /\ (Rounds(n) - 1) + 1 = Rounds(n)
  BY <1>6
<1> QED
  BY <1>6, <1>7, Powers

\* The places of round r, and the round of a match.
LEMMA RoundsMeet ==
    ASSUME NEW n \in Nat, n >= 2, NEW m \in 1..(Size(n) - 1)
    PROVE  LET r == RoundOf(n, m)
               left == Pow2[Rounds(n) - r]
           IN  /\ r \in 1..Rounds(n) /\ left \in Nat /\ left >= 1
               /\ Before(n, r) = Size(n) - 2 * left
               /\ Before(n, r) < m /\ m <= Size(n) - left
               /\ \A q \in 1..Rounds(n) :
                    Before(n, q) < m /\ m <= Size(n) - Pow2[Rounds(n) - q]
                      => q = r
<1> DEFINE R == Rounds(n)
           B == Size(n)
<1>1. R \in Nat /\ R >= 1 /\ B = Pow2[R] /\ B \in Nat
  BY RoundsFit, Powers DEF Size
<1> HIDE DEF R, B
<1>2. ASSUME NEW q \in 1..R
      PROVE  /\ R - q \in Nat /\ Pow2[R - q] \in Nat /\ Pow2[R - q] >= 1
             /\ Before(n, q) = B - 2 * Pow2[R - q]
             /\ Before(n, q + 1) = B - Pow2[R - q]
  <2>1. R - q \in Nat /\ (R - q) + 1 = R + 1 - q /\ R + 1 - (q + 1) = R - q
    BY <1>1
  <2>2. Before(n, q) = B - Pow2[R + 1 - q]
        /\ Before(n, q + 1) = B - Pow2[R + 1 - (q + 1)]
    BY DEF Before, R, B
  <2> QED
    BY <2>1, <2>2, Powers, PowersGrow
<1> DEFINE in(q) == Before(n, q) < m /\ m <= Before(n, q + 1)
<1>3. ASSUME NEW p \in 1..R, NEW q \in 1..R, in(p), in(q), p < q PROVE FALSE
  <2>1. R - q < R - p /\ R - q \in Nat /\ R - p \in Nat
    BY <1>1, <1>3
  <2>2. 2 * Pow2[R - q] <= Pow2[R - p]
    BY <2>1, PowersGrow
  <2>3. B - 2 * Pow2[R - q] < m /\ m <= B - Pow2[R - p] /\ m \in Int
    BY <1>2, <1>3
  <2> QED
    BY <1>1, <1>2, <2>2, <2>3
<1>4. \E q \in 1..R : in(q)
  <2> DEFINE late == {q \in 1..R : m <= Before(n, q + 1)}
  <2>1. R \in late
    <3>1. R \in 1..R /\ R - R = 0
      BY <1>1
    <3>2. Before(n, R + 1) = B - 1
      BY <1>2, <3>1, Powers
    <3> QED
      BY <3>1, <3>2 DEF B
  <2>2. PICK q \in late : \A p \in late : q <= p
    <3>1. late \in SUBSET Nat
      BY <1>1
    <3> QED
      BY <2>1, <3>1, LeastNumber
  <2>3. CASE q = 1
    <3>1. Before(n, 1) = B - Pow2[R]
      <4>1. R + 1 - 1 = R
        BY <1>1
      <4> QED
        BY <4>1 DEF Before, R, B
    <3> QED
      BY <1>1, <2>2, <2>3, <3>1
  <2>4. CASE q # 1
    <3>1. q - 1 \in 1..R /\ (q - 1) + 1 = q /\ q - 1 \notin late
      BY <1>1, <2>2, <2>4
    <3>2. ~(m <= Before(n, q))
      BY <3>1
    <3>3. Before(n, q) \in Int /\ m \in Int
      BY <1>1, <1>2, <2>2
    <3> QED
      BY <2>2, <3>2, <3>3
  <2> QED
    BY <2>3, <2>4
<1>5. RoundOf(n, m) \in 1..R /\ in(RoundOf(n, m))
  <2>1. RoundOf(n, m) = CHOOSE q \in 1..R : in(q)
    BY DEF RoundOf, R
  <2> HIDE DEF in
  <2> QED
    BY <1>4, <2>1
<1>6. ASSUME NEW q \in 1..R, in(q) PROVE q = RoundOf(n, m)
  BY <1>3, <1>5, <1>6
<1>7. \A q \in 1..R : in(q) <=> Before(n, q) < m /\ m <= B - Pow2[R - q]
  BY <1>2
<1> QED
  BY <1>2, <1>5, <1>6, <1>7 DEF R, B

-----------------------------------------------------------------------------
(* The wiring of a single elimination.                                       *)

\* Half the places, which are the matches of the first round.
Half(n) == Pow2[Rounds(n) - 1]

\* The sizes of the first two rounds.
LEMMA Halves ==
    ASSUME NEW n \in Nat, n >= 2
    PROVE  /\ Half(n) \in Nat /\ Half(n) >= 1 /\ Size(n) = 2 * Half(n)
           /\ Half(n) < n /\ n <= Size(n) /\ Rounds(n) \in Nat
           /\ Rounds(n) >= 1
BY RoundsFit, PowersGrow DEF Half, Size

\* Match m leads to the match half of the places and half of m further on,
\* which is one round later; two matches lead to each match of a later round.
LEMMA Links ==
    ASSUME NEW n \in Nat, n >= 2, NEW m \in 1..(Size(n) - 1)
    PROVE  LET r == RoundOf(n, m)
               i == m - Before(n, r) - 1
               k == NextNumber(n, r, i)
           IN  /\ r = 1 <=> m <= Half(n)
               /\ r = 1 => i = m - 1
               /\ r = Rounds(n) <=> m = Size(n) - 1
               /\ i \in Nat
               /\ SlotOf(i) = IF m % 2 = 1 THEN 1 ELSE 2
               /\ r # Rounds(n) =>
                    /\ k = Half(n) + (m + 1) \div 2
                    /\ k \in 1..(Size(n) - 1) /\ k > Half(n) /\ k > m
                    /\ RoundOf(n, k) = r + 1
                    /\ k - Before(n, r + 1) - 1 = i \div 2
<1> DEFINE R == Rounds(n)
           B == Size(n)
           h == Half(n)
           r == RoundOf(n, m)
           i == m - Before(n, r) - 1
           k == NextNumber(n, r, i)
           Q == Pow2[R - r]
<1>1. /\ R \in Nat /\ R >= 1 /\ h \in Nat /\ h >= 1 /\ B = 2 * h
      /\ m \in Nat /\ m >= 1 /\ m <= B - 1
  BY Halves
<1>2. /\ r \in 1..R /\ Q \in Nat /\ Q >= 1
      /\ Before(n, r) = B - 2 * Q
      /\ B - 2 * Q < m /\ m <= B - Q
  BY RoundsMeet
<1>3. /\ r = 1 => Q = h
      /\ r # 1 => 2 * Q <= h
      /\ r = R => Q = 1
      /\ r # R => Q >= 2
  <2>1. CASE r = 1
    <3>1. Q = h
      BY <2>1 DEF Half
    <3>2. r # R => Q >= 2
      <4>1. ASSUME r # R PROVE 2 * Pow2[0] <= Pow2[R - r]
        <5>1. R - r \in Nat /\ 0 < R - r
          BY <1>1, <1>2, <4>1
        <5> QED
          BY <5>1, PowersGrow
      <4> QED
        BY <4>1, Powers
    <3>3. r = R => Q = 1
      BY <1>1, Powers
    <3> QED
      BY <2>1, <3>1, <3>2, <3>3
  <2>2. CASE r # 1
    <3>1. R - r \in Nat /\ R - 1 \in Nat /\ R - r < R - 1
      BY <1>1, <1>2, <2>2
    <3>2. 2 * Q <= h
      BY <3>1, PowersGrow DEF Half
    <3>3. r # R => Q >= 2
      <4>1. ASSUME r # R PROVE 2 * Pow2[0] <= Pow2[R - r]
        <5>1. R - r \in Nat /\ 0 < R - r
          BY <1>1, <1>2, <4>1
        <5> QED
          BY <5>1, PowersGrow
      <4> QED
        BY <4>1, Powers
    <3>4. r = R => Q = 1
      BY <1>1, Powers
    <3> QED
      BY <2>2, <3>2, <3>3, <3>4
  <2> QED
    BY <2>1, <2>2
<1>4. r # R => /\ Pow2[R - (r + 1)] \in Nat /\ Q = 2 * Pow2[R - (r + 1)]
               /\ Before(n, r + 1) = B - Q /\ r + 1 \in 1..R
  <2> SUFFICES ASSUME r # R
               PROVE  /\ Pow2[R - (r + 1)] \in Nat
                      /\ Q = 2 * Pow2[R - (r + 1)]
                      /\ Before(n, r + 1) = B - Q /\ r + 1 \in 1..R
    OBVIOUS
  <2>1. /\ R - (r + 1) \in Nat /\ (R - (r + 1)) + 1 = R - r
        /\ R + 1 - (r + 1) = R - r /\ r + 1 \in 1..R
    BY <1>1, <1>2
  <2>2. Before(n, r + 1) = B - Pow2[R + 1 - (r + 1)]
    BY DEF Before
  <2> QED
    BY <2>1, <2>2, Powers
<1>5. k = Before(n, r + 1) + i \div 2 + 1
  BY DEF NextNumber
<1>6. SlotOf(i) = IF i % 2 = 0 THEN 1 ELSE 2
  BY DEF SlotOf
<1>7. ASSUME NEW q \in 1..R, NEW x \in 1..(B - 1),
             Before(n, q) < x, x <= B - Pow2[R - q]
      PROVE  q = RoundOf(n, x)
  BY <1>7, RoundsMeet
<1>8. i = m - (B - 2 * Q) - 1
  BY <1>2
<1> HIDE DEF R, B, h, r, Q, i, k
<1>9. i \in Nat /\ (r = 1 => i = m - 1)
  BY <1>1, <1>2, <1>3, <1>8
<1>10. (r = 1 <=> m <= h) /\ (r = R <=> m = B - 1)
  BY <1>1, <1>2, <1>3
<1>11. SlotOf(i) = IF m % 2 = 1 THEN 1 ELSE 2
  BY <1>1, <1>2, <1>6, <1>8, <1>9
<1>12. ASSUME r # R
       PROVE  /\ k = h + (m + 1) \div 2
              /\ k \in 1..(B - 1) /\ k > h /\ k > m
              /\ k <= B - Pow2[R - (r + 1)] /\ B - Q < k
              /\ k - Before(n, r + 1) - 1 = i \div 2
  <2>1. PICK P \in Nat : P = Pow2[R - (r + 1)] /\ Q = 2 * P
    BY <1>4, <1>12
  <2>2. P >= 1
    BY <1>2, <2>1
  <2>3. k = B - Q + i \div 2 + 1 /\ k - Before(n, r + 1) - 1 = i \div 2
    BY <1>1, <1>2, <1>4, <1>5, <1>9, <1>12
  <2>4. i = m - 2 * h + 4 * P - 1
    BY <1>1, <1>8, <2>1
  <2>5. i \div 2 = (m + 1) \div 2 - h + 2 * P - 1
    BY <1>1, <2>1, <2>4
  <2>6. k = h + (m + 1) \div 2
    BY <1>1, <2>1, <2>3, <2>5
  <2> QED
    BY <1>1, <1>2, <2>1, <2>2, <2>3, <2>6
<1>13. ASSUME r # R PROVE RoundOf(n, k) = r + 1
  BY <1>4, <1>7, <1>12, <1>13
<1> QED
  BY <1>9, <1>10, <1>11, <1>12, <1>13 DEF R, B, h, r, Q, i, k

-----------------------------------------------------------------------------
(* The order of the seeds.                                                   *)

\* f is the sequence of the orders that bracketSeedOrder builds.
Orders(f) ==
  f = [k \in Nat |->
         IF k = 0 THEN <<1>>
         ELSE [p \in 1..Pow2[k] |->
                 LET seed == f[k - 1][(p + 1) \div 2]
                 IN  IF p % 2 = 1 THEN seed ELSE Pow2[k] + 1 - seed]]

\* There is such a sequence.
LEMMA OrdersExist == \E f : Orders(f)
<1> DEFINE S == [Nat -> Int]
           one == [x \in Nat |-> 1]
           step(k, o) == [x \in Nat |-> IF x % 2 = 1 THEN o[(x + 1) \div 2]
                                ELSE Pow2[k + 1] + 1 - o[(x + 1) \div 2]]
           g == [p \in Nat \X S |-> step(p[1], p[2])]
<1>1. Recurs(S, one, g)
  <2>1. ASSUME NEW k \in Nat, NEW o \in S PROVE step(k, o) \in S
    <3>1. Pow2[k + 1] \in Nat
      BY Powers
    <3>2. ASSUME NEW x \in Nat PROVE (x + 1) \div 2 \in Nat
      BY <3>2
    <3> QED
      BY <3>1, <3>2
  <2>2. g \in [Nat \X S -> S]
    <3> HIDE DEF S, step
    <3>1. \A p \in Nat \X S : p[1] \in Nat /\ p[2] \in S
      OBVIOUS
    <3> QED
      BY <2>1, <3>1
  <2>3. one \in S
    OBVIOUS
  <2> HIDE DEF S, one, g
  <2> QED
    BY <2>2, <2>3 DEF Recurs
<1>2. PICK h \in [Nat -> S] :
        h[0] = one /\ \A k \in Nat : h[k + 1] = g[<<k, h[k]>>]
  <2> HIDE DEF S, one, g
  <2> QED
    BY <1>1, Recursion
<1>3. ASSUME NEW k \in Nat, NEW x \in Nat
      PROVE  h[k + 1][x] = IF x % 2 = 1 THEN h[k][(x + 1) \div 2]
                           ELSE Pow2[k + 1] + 1 - h[k][(x + 1) \div 2]
  <2>1. h[k + 1] = step(k, h[k])
    <3> HIDE DEF S, step
    <3>1. h[k] \in S
      BY <1>2
    <3>2. g[<<k, h[k]>>] = step(k, h[k])
      BY <3>1
    <3> QED
      BY <1>2, <3>2
  <2> QED
    BY <2>1
<1> DEFINE f == [k \in Nat |-> [p \in 1..Pow2[k] |-> h[k][p]]]
<1>4. ASSUME NEW k \in Nat
      PROVE  f[k] = IF k = 0 THEN <<1>>
                    ELSE [p \in 1..Pow2[k] |->
                            LET seed == f[k - 1][(p + 1) \div 2]
                            IN  IF p % 2 = 1 THEN seed
                                ELSE Pow2[k] + 1 - seed]
  <2>1. CASE k = 0
    <3>1. f[0] = [p \in 1..1 |-> 1]
      <4>1. h[0] = [x \in Nat |-> 1]
        BY <1>2
      <4>2. f[0] = [p \in 1..Pow2[0] |-> h[0][p]]
        OBVIOUS
      <4>3. \A p \in 1..1 : h[0][p] = 1
        BY <4>1
      <4> HIDE DEF f
      <4> QED
        BY <4>2, <4>3, Powers
    <3>2. [p \in 1..1 |-> 1] = <<1>>
      OBVIOUS
    <3> QED
      BY <2>1, <3>1, <3>2
  <2>2. CASE k # 0
    <3>1. k - 1 \in Nat /\ (k - 1) + 1 = k
      BY <2>2
    <3>2. Pow2[k - 1] \in Nat /\ Pow2[k] = 2 * Pow2[k - 1]
      BY <3>1, Powers
    <3>3. ASSUME NEW p \in 1..Pow2[k]
          PROVE  /\ (p + 1) \div 2 \in 1..Pow2[k - 1]
                 /\ h[k][p] = IF p % 2 = 1 THEN h[k - 1][(p + 1) \div 2]
                              ELSE Pow2[k] + 1 - h[k - 1][(p + 1) \div 2]
      <4>1. (p + 1) \div 2 \in 1..Pow2[k - 1]
        BY <3>2
      <4>2. p \in Nat
        BY <3>2
      <4> QED
        BY <1>3, <3>1, <4>1, <4>2
    <3>4. \A p \in 1..Pow2[k - 1] : f[k - 1][p] = h[k - 1][p]
      BY <3>1
    <3>5. f[k] = [p \in 1..Pow2[k] |-> h[k][p]]
      OBVIOUS
    <3> HIDE DEF f
    <3> QED
      BY <2>2, <3>3, <3>4, <3>5
  <2> QED
    BY <2>1, <2>2
<1>5. Orders(f)
  BY <1>4 DEF Orders
<1> QED
  BY <1>5

\* bracketSeedOrder satisfies its own recursion.
LEMMA OrdersUnfold ==
    /\ bracketSeedOrder(0) = <<1>>
    /\ \A k \in Nat : bracketSeedOrder(k + 1) =
         [p \in 1..Pow2[k + 1] |->
            IF p % 2 = 1 THEN bracketSeedOrder(k)[(p + 1) \div 2]
            ELSE Pow2[k + 1] + 1 - bracketSeedOrder(k)[(p + 1) \div 2]]
<1> DEFINE o == CHOOSE f : Orders(f)
<1>1. Orders(o)
  BY OrdersExist, Zenon
<1>2. \A k : bracketSeedOrder(k) = o[k]
  BY DEF bracketSeedOrder, Orders
<1> HIDE DEF o
<1>3. o[0] = <<1>>
  BY <1>1 DEF Orders
<1>4. ASSUME NEW k \in Nat
      PROVE  o[k + 1] = [p \in 1..Pow2[k + 1] |->
                           IF p % 2 = 1 THEN o[k][(p + 1) \div 2]
                           ELSE Pow2[k + 1] + 1 - o[k][(p + 1) \div 2]]
  <2>1. k + 1 \in Nat /\ k + 1 # 0 /\ (k + 1) - 1 = k
    OBVIOUS
  <2> QED
    BY <1>1, <2>1 DEF Orders
<1> QED
  BY <1>2, <1>3, <1>4

\* Each seed has one place; a bracket twice as large puts the new opponent
\* beside each of its seeds.
LEMMA SeedOrder ==
    ASSUME NEW k \in Nat
    PROVE  /\ bracketSeedOrder(k) \in [1..Pow2[k] -> 1..Pow2[k]]
           /\ \A p, q \in 1..Pow2[k] :
                bracketSeedOrder(k)[p] = bracketSeedOrder(k)[q] => p = q
           /\ \A q \in 1..Pow2[k] :
                /\ bracketSeedOrder(k + 1)[2 * q - 1] = bracketSeedOrder(k)[q]
                /\ bracketSeedOrder(k + 1)[2 * q]
                     = Pow2[k + 1] + 1 - bracketSeedOrder(k)[q]
<1> DEFINE Good(j) == /\ bracketSeedOrder(j) \in [1..Pow2[j] -> 1..Pow2[j]]
                      /\ \A p, q \in 1..Pow2[j] :
                           bracketSeedOrder(j)[p] = bracketSeedOrder(j)[q]
                             => p = q
<1>1. Good(0)
  BY OrdersUnfold, Powers
<1>2. ASSUME NEW j \in Nat
      PROVE  \A p \in 1..Pow2[j + 1] : bracketSeedOrder(j + 1)[p] =
               IF p % 2 = 1 THEN bracketSeedOrder(j)[(p + 1) \div 2]
               ELSE Pow2[j + 1] + 1 - bracketSeedOrder(j)[(p + 1) \div 2]
  BY OrdersUnfold
<1>3. ASSUME NEW j \in Nat, Good(j) PROVE Good(j + 1)
  <2>1. Pow2[j] \in Nat /\ Pow2[j + 1] = 2 * Pow2[j]
    BY Powers
  <2>2. PICK o : o = bracketSeedOrder(j)
    OBVIOUS
  <2>3. PICK w : w = bracketSeedOrder(j + 1)
    OBVIOUS
  <2>4. PICK P \in Nat : P = Pow2[j]
    BY <2>1
  <2>5. /\ o \in [1..P -> 1..P] /\ \A p, q \in 1..P : o[p] = o[q] => p = q
    BY <1>3, <2>2, <2>4
  <2>6. /\ DOMAIN w = 1..(2 * P)
        /\ w = [p \in 1..(2 * P) |-> IF p % 2 = 1 THEN o[(p + 1) \div 2]
                                     ELSE 2 * P + 1 - o[(p + 1) \div 2]]
    BY <2>1, <2>2, <2>3, <2>4, OrdersUnfold
  <2>7. ASSUME NEW p \in 1..(2 * P)
        PROVE  /\ (p + 1) \div 2 \in 1..P
               /\ p % 2 = 1 => w[p] = o[(p + 1) \div 2] /\ w[p] \in 1..P
               /\ p % 2 # 1 => /\ w[p] = 2 * P + 1 - o[(p + 1) \div 2]
                               /\ w[p] \in (P + 1)..(2 * P)
    <3>1. (p + 1) \div 2 \in 1..P
      OBVIOUS
    <3>2. o[(p + 1) \div 2] \in 1..P
      BY <2>5, <3>1
    <3> QED
      BY <2>6, <3>1, <3>2
  <2>8. ASSUME NEW p \in 1..(2 * P), NEW q \in 1..(2 * P), w[p] = w[q]
        PROVE  p = q
    <3>1. PICK a \in 1..P : a = (p + 1) \div 2
      BY <2>7
    <3>2. PICK b \in 1..P : b = (q + 1) \div 2
      BY <2>7
    <3>3. o[a] \in Int /\ o[b] \in Int
      BY <2>5
    <3>4. p % 2 = 1 <=> q % 2 = 1
      <4>1. w[p] \in Int /\ (w[p] <= P <=> p % 2 = 1)
        BY <2>7
      <4>2. w[q] <= P <=> q % 2 = 1
        BY <2>7
      <4> QED
        BY <2>8, <4>1, <4>2
    <3>5. o[a] = o[b]
      BY <2>7, <2>8, <3>1, <3>2, <3>3, <3>4
    <3>6. a = b
      BY <2>5, <3>5
    <3> QED
      BY <3>1, <3>2, <3>4, <3>6
  <2>9. w \in [1..(2 * P) -> 1..(2 * P)]
    <3>1. \A p \in 1..(2 * P) : w[p] \in 1..(2 * P)
      BY <2>7
    <3> QED
      BY <2>6, <3>1
  <2> QED
    BY <2>1, <2>3, <2>4, <2>8, <2>9
<1>4. ASSUME NEW j \in Nat PROVE Good(j)
  <2> DEFINE bad == {i \in Nat : ~Good(i)}
  <2> HIDE DEF Good
  <2> SUFFICES ASSUME bad # {} PROVE FALSE
    OBVIOUS
  <2>1. PICK i \in bad : \A l \in bad : i <= l
    BY LeastNumber
  <2>2. i # 0
    BY <1>1, <2>1
  <2>3. i - 1 \in Nat /\ i - 1 \notin bad /\ (i - 1) + 1 = i
    BY <2>1, <2>2
  <2> QED
    BY <1>3, <2>1, <2>3
<1>5. ASSUME NEW q \in 1..Pow2[k]
      PROVE  /\ bracketSeedOrder(k + 1)[2 * q - 1] = bracketSeedOrder(k)[q]
             /\ bracketSeedOrder(k + 1)[2 * q]
                  = Pow2[k + 1] + 1 - bracketSeedOrder(k)[q]
  <2>1. Pow2[k] \in Nat /\ Pow2[k + 1] = 2 * Pow2[k]
    BY Powers
  <2>2. /\ 2 * q - 1 \in 1..Pow2[k + 1] /\ 2 * q \in 1..Pow2[k + 1]
        /\ (2 * q - 1) % 2 = 1 /\ (2 * q) % 2 # 1
        /\ ((2 * q - 1) + 1) \div 2 = q /\ (2 * q + 1) \div 2 = q
    BY <2>1
  <2> QED
    BY <1>2, <2>2
<1> QED
  BY <1>4, <1>5

\* The first round: each match has an entry in its first slot, and each entry
\* has one place.
LEMMA Draw ==
    ASSUME NEW n \in Nat, n >= 2
    PROVE  /\ \A x \in 1..Size(n) :
                /\ Positioned(n, x) \in 0..n
                /\ Positioned(n, x) # 0 =>
                     Positioned(n, x) = bracketSeedOrder(Rounds(n))[x]
           /\ \A x, y \in 1..Size(n) :
                Positioned(n, x) = Positioned(n, y) /\ Positioned(n, x) # 0
                  => x = y
           /\ \A i \in 1..Half(n) : Positioned(n, 2 * i - 1) # 0
           /\ n = Size(n) => \A x \in 1..Size(n) : Positioned(n, x) # 0
<1>1. /\ Rounds(n) \in Nat /\ Rounds(n) - 1 \in Nat
      /\ (Rounds(n) - 1) + 1 = Rounds(n) /\ Half(n) \in Nat
      /\ Size(n) = 2 * Half(n) /\ Half(n) < n
      /\ Size(n) = Pow2[Rounds(n)] /\ Half(n) = Pow2[Rounds(n) - 1]
  BY Halves DEF Size, Half
<1>2. PICK o : o = bracketSeedOrder(Rounds(n))
  OBVIOUS
<1>3. PICK w : w = bracketSeedOrder(Rounds(n) - 1)
  OBVIOUS
<1>4. /\ o \in [1..Size(n) -> 1..Size(n)]
      /\ \A x, y \in 1..Size(n) : o[x] = o[y] => x = y
  BY <1>1, <1>2, SeedOrder
<1>5. /\ w \in [1..Half(n) -> 1..Half(n)]
      /\ \A i \in 1..Half(n) : o[2 * i - 1] = w[i]
  BY <1>1, <1>2, <1>3, SeedOrder
<1>6. \A x : Positioned(n, x) = IF o[x] <= n THEN o[x] ELSE 0
  BY <1>2 DEF Positioned
<1>7. ASSUME NEW x \in 1..Size(n)
      PROVE  /\ Positioned(n, x) \in 0..n
             /\ Positioned(n, x) # 0 => Positioned(n, x) = o[x]
             /\ n = Size(n) => Positioned(n, x) # 0
  <2>1. o[x] \in 1..Size(n)
    BY <1>4
  <2>2. Size(n) \in Nat
    BY <1>1
  <2> QED
    BY <1>6, <2>1, <2>2
<1>8. ASSUME NEW i \in 1..Half(n) PROVE Positioned(n, 2 * i - 1) # 0
  <2>1. o[2 * i - 1] = w[i] /\ w[i] \in 1..Half(n)
    BY <1>5
  <2> QED
    BY <1>1, <1>6, <2>1
<1> QED
  BY <1>2, <1>4, <1>7, <1>8

-----------------------------------------------------------------------------
(* The tree of a single elimination.                                         *)

\* A row of table matches.
Row == [round : Nat, team : [Slots -> Nat],
        status : {"scheduled", "completed"}, winner : Nat, loser : Nat,
        next : Nat, slot : Nat, loserNext : Nat, loserSlot : Nat]

\* The match that the winner of m goes on to, and its slot there.
Up(n, m) == Half(n) + (m + 1) \div 2
Side(m) == IF m % 2 = 1 THEN 1 ELSE 2

\* The match that leads to slot s of match m.
Feed(n, m, s) == 2 * (m - Half(n)) - 2 + s

\* The number of matches, which is the number of the last one.
Final(n) == Size(n) - 1

\* The rows are wired as the tree.
Wired(n, ms) ==
  /\ ms \in [1..Final(n) -> Row]
  /\ \A m \in 1..Final(n) :
       /\ ms[m].round = RoundOf(n, m) /\ ms[m].loserNext = 0
       /\ ms[m].next = IF m = Final(n) THEN 0 ELSE Up(n, m)
       /\ m # Final(n) => ms[m].slot = Side(m)

\* The entries of a first-round match.
Drawn(n, m) == [s \in Slots |-> Positioned(n, 2 * (m - 1) + s)]

\* It is the only one, and it is in the round before.
LEMMA Feeding ==
    ASSUME NEW n \in Nat, n >= 2, NEW m \in 1..Final(n), m > Half(n),
           NEW s \in Slots
    PROVE  /\ Feed(n, m, s) \in 1..Final(n) /\ Feed(n, m, s) # Final(n)
           /\ Feed(n, m, s) < m
           /\ RoundOf(n, m) = RoundOf(n, Feed(n, m, s)) + 1
           /\ \A f \in 1..Final(n) :
                f # Final(n) /\ Up(n, f) = m /\ Side(f) = s
                  <=> f = Feed(n, m, s)
<1>1. /\ Half(n) \in Nat /\ Half(n) >= 1 /\ Final(n) = 2 * Half(n) - 1
      /\ s \in {1, 2} /\ Rounds(n) \in Nat
  BY Halves DEF Final, Slots
<1>2. PICK h \in Nat : h = Half(n)
  BY <1>1
<1>3. PICK f \in Int : f = Feed(n, m, s) /\ f = 2 * (m - h) - 2 + s
  BY <1>1, <1>2 DEF Feed
<1>4. f \in 1..Final(n) /\ f # Final(n) /\ f < m
  BY <1>1, <1>2, <1>3
<1>5. h + (f + 1) \div 2 = m
  BY <1>1, <1>2, <1>3
<1>6. ASSUME NEW x \in 1..Final(n)
      PROVE  x # Final(n) /\ Up(n, x) = m /\ Side(x) = s <=> x = f
  BY <1>1, <1>2, <1>3 DEF Up, Side
<1>7. RoundOf(n, m) = RoundOf(n, f) + 1
  <2>1. f \in 1..(Size(n) - 1) /\ f # Size(n) - 1
    BY <1>4 DEF Final
  <2>2. PICK r : r = RoundOf(n, f)
    OBVIOUS
  <2>3. PICK i : i = f - Before(n, r) - 1
    OBVIOUS
  <2>4. /\ r # Rounds(n) /\ NextNumber(n, r, i) = h + (f + 1) \div 2
        /\ RoundOf(n, NextNumber(n, r, i)) = r + 1
    BY <1>2, <2>1, <2>2, <2>3, Links
  <2> QED
    BY <1>5, <2>2, <2>4
<1> QED
  BY <1>3, <1>4, <1>6, <1>7

\* What the generator returns: nothing is played, the first round is drawn and
\* the places of the other rounds are free.
LEMMA SingleEliminationIsWired ==
    ASSUME NEW n \in Nat, n >= 2
    PROVE  LET ms == GenerateSingleElimination(n)
           IN  /\ Wired(n, ms)
               /\ \A m \in 1..Final(n) :
                    /\ ms[m].status = "scheduled"
                    /\ ms[m].winner = 0 /\ ms[m].loser = 0
                    /\ ms[m].team = IF m <= Half(n) THEN Drawn(n, m)
                                    ELSE [s \in Slots |-> 0]
<1>1. PICK ms : ms = GenerateSingleElimination(n)
  OBVIOUS
<1>2. /\ Half(n) \in Nat /\ Half(n) >= 1 /\ Final(n) = 2 * Half(n) - 1
      /\ Final(n) = Size(n) - 1 /\ Size(n) = 2 * Half(n)
  BY Halves DEF Final
<1>3. DOMAIN ms = 1..Final(n)
  BY <1>1 DEF GenerateSingleElimination, Final
<1>4. ASSUME NEW m \in 1..Final(n)
      PROVE  /\ ms[m] \in Row
             /\ ms[m].round = RoundOf(n, m) /\ ms[m].loserNext = 0
             /\ ms[m].next = IF m = Final(n) THEN 0 ELSE Up(n, m)
             /\ m # Final(n) => ms[m].slot = Side(m)
             /\ ms[m].status = "scheduled"
             /\ ms[m].winner = 0 /\ ms[m].loser = 0
             /\ ms[m].team = IF m <= Half(n) THEN Drawn(n, m)
                             ELSE [s \in Slots |-> 0]
  <2>1. PICK r : r = RoundOf(n, m)
    OBVIOUS
  <2>2. PICK i : i = m - Before(n, r) - 1
    OBVIOUS
  <2>3. PICK T : T = IF r > 1 THEN NoTeams
                     ELSE [s \in Slots |-> Positioned(n, 2 * i + s)]
    OBVIOUS
  <2>4. PICK x : x = NewMatch(r, T)
    OBVIOUS
  <2>5. ms[m] = IF r = Rounds(n) THEN x
                ELSE [x EXCEPT !.next = NextNumber(n, r, i),
                               !.slot = SlotOf(i)]
    BY <1>1, <2>1, <2>2, <2>3, <2>4 DEF GenerateSingleElimination, Final
  <2>6. /\ r \in Nat /\ r >= 1 /\ (r = 1 <=> m <= Half(n))
        /\ (r = 1 => i = m - 1) /\ (r = Rounds(n) <=> m = Final(n))
        /\ SlotOf(i) = Side(m)
        /\ r # Rounds(n) => NextNumber(n, r, i) = Up(n, m)
    <3>1. m \in 1..(Size(n) - 1)
      BY DEF Final
    <3>2. r \in 1..Rounds(n)
      BY <2>1, <3>1, RoundsMeet
    <3> QED
      BY <2>1, <2>2, <3>1, <3>2, Links DEF Final, Up, Side
  <2>7. T = IF m <= Half(n) THEN Drawn(n, m) ELSE [s \in Slots |-> 0]
    BY <2>3, <2>6 DEF NoTeams, Drawn
  <2>8. T \in [Slots -> Nat]
    <3>1. ASSUME m <= Half(n), NEW s \in Slots
          PROVE  Positioned(n, 2 * (m - 1) + s) \in Nat
      <4>1. 2 * (m - 1) + s \in 1..Size(n)
        BY <1>2, <3>1 DEF Slots
      <4> QED
        BY <4>1, Draw
    <3> QED
      BY <2>7, <3>1 DEF Drawn
  <2>9. x = [round |-> r, team |-> T, status |-> "scheduled", winner |-> 0,
             loser |-> 0, next |-> 0, slot |-> 0, loserNext |-> 0,
             loserSlot |-> 0]
    BY <2>4 DEF NewMatch
  <2>10. PICK k, l : k = NextNumber(n, r, i) /\ l = SlotOf(i)
    OBVIOUS
  <2>11. CASE r = Rounds(n)
    BY <2>1, <2>5, <2>6, <2>7, <2>8, <2>9, <2>11 DEF Row
  <2>12. CASE r # Rounds(n)
    <3>1. ms[m] = [x EXCEPT !.next = k, !.slot = l]
      BY <2>5, <2>10, <2>12
    <3>2. ms[m] = [round |-> r, team |-> T, status |-> "scheduled",
                   winner |-> 0, loser |-> 0, next |-> k, slot |-> l,
                   loserNext |-> 0, loserSlot |-> 0]
      BY <2>9, <3>1
    <3>3. k = Up(n, m) /\ l = Side(m) /\ k \in Nat /\ l \in Nat
      BY <1>2, <2>6, <2>10, <2>12 DEF Up, Side
    <3> QED
      BY <2>1, <2>6, <2>7, <2>8, <2>12, <3>2, <3>3 DEF Row
  <2> QED
    BY <2>11, <2>12
<1>5. ms \in [1..Final(n) -> Row]
  <2>1. ms = [m \in 1..Final(n) |-> ms[m]]
    BY <1>1 DEF GenerateSingleElimination, Final
  <2> QED
    BY <1>4, <2>1
<1> QED
  BY <1>1, <1>4, <1>5 DEF Wired

\* A match is decided by the teams in it, and one that was played had two.
Settled(n, ms) ==
  \A m \in 1..Final(n) :
    /\ ms[m].status = "scheduled" => ms[m].winner = 0 /\ ms[m].loser = 0
    /\ ms[m].status = "completed" =>
         /\ ms[m].winner # 0
         /\ \E s \in Slots : /\ ms[m].winner = ms[m].team[s]
                             /\ ms[m].loser = ms[m].team[3 - s]
         /\ m > Half(n) => ms[m].loser # 0

\* The first round keeps its draw, and only a BYE lacks a team.
DrawKept(n, ms) ==
  \A m \in 1..Final(n) : m <= Half(n) =>
    /\ ms[m].team = Drawn(n, m)
    /\ ms[m].status = "scheduled" => \A s \in Slots : ms[m].team[s] # 0

\* A place of a later round is free or taken by the winner of its feeder.
Earned(n, ms) ==
  \A m \in 1..Final(n) : \A s \in Slots : m > Half(n) =>
    ms[m].team[s] \in {0, ms[Feed(n, m, s)].winner}

\* The inductive invariant of a single elimination.
Tree(n, ms) ==
  /\ Wired(n, ms)
  /\ Settled(n, ms)
  /\ DrawKept(n, ms)
  /\ Earned(n, ms)

\* The links of the rows are those of the tree.
LEMMA Feeds ==
    ASSUME NEW n \in Nat, n >= 2, NEW ms, Wired(n, ms), NEW m \in 1..Final(n),
           NEW s \in Slots
    PROVE  /\ m <= Half(n) => Feeders(ms, m, s) = {}
           /\ m > Half(n) => Feeders(ms, m, s) = {Feed(n, m, s)}
<1>1. /\ Half(n) \in Nat /\ Half(n) >= 1 /\ Final(n) = 2 * Half(n) - 1
  BY Halves DEF Final
<1>2. DOMAIN ms = 1..Final(n)
  BY DEF Wired
<1>3. ASSUME NEW f \in 1..Final(n)
      PROVE  ms[f].next = m /\ ms[f].slot = s
               <=> f # Final(n) /\ Up(n, f) = m /\ Side(f) = s
  <2>1. /\ ms[f].next = IF f = Final(n) THEN 0 ELSE Up(n, f)
        /\ f # Final(n) => ms[f].slot = Side(f)
    BY DEF Wired
  <2> QED
    BY <1>1, <2>1
<1>4. ASSUME m <= Half(n), NEW f \in 1..Final(n) PROVE Up(n, f) # m
  BY <1>1, <1>4 DEF Up
<1>5. Feeders(ms, m, s) = {f \in 1..Final(n) : ms[f].next = m
                                               /\ ms[f].slot = s}
  BY <1>2 DEF Feeders
<1>6. m <= Half(n) => Feeders(ms, m, s) = {}
  BY <1>3, <1>4, <1>5
<1>7. m > Half(n) => Feeders(ms, m, s) = {Feed(n, m, s)}
  <2> SUFFICES ASSUME m > Half(n)
               PROVE  Feeders(ms, m, s) = {Feed(n, m, s)}
    OBVIOUS
  <2>1. PICK g : g = Feed(n, m, s)
    OBVIOUS
  <2>2. /\ g \in 1..Final(n)
        /\ \A f \in 1..Final(n) :
             f # Final(n) /\ Up(n, f) = m /\ Side(f) = s <=> f = g
    BY <2>1, Feeding
  <2>3. \A f \in 1..Final(n) : ms[f].next = m /\ ms[f].slot = s <=> f = g
    BY <1>3, <2>2
  <2> QED
    BY <1>5, <2>1, <2>2, <2>3
<1> QED
  BY <1>6, <1>7

\* The new matches are a tree: the BYEs are decided and their teams placed.
LEMMA GeneratedIsTree ==
    ASSUME NEW n \in Nat, n >= 2
    PROVE  Tree(n, Linked(WithByes(GenerateSingleElimination(n)), 0))
<1>1. PICK g : g = GenerateSingleElimination(n)
  OBVIOUS
<1>2. /\ Half(n) \in Nat /\ Half(n) >= 1 /\ Final(n) = 2 * Half(n) - 1
      /\ Final(n) = Size(n) - 1 /\ Size(n) = 2 * Half(n) /\ Half(n) < n
      /\ n <= Size(n)
  BY Halves DEF Final
<1>3. /\ Wired(n, g) /\ DOMAIN g = 1..Final(n)
      /\ \A m \in 1..Final(n) :
           /\ g[m] \in Row
           /\ g[m].status = "scheduled" /\ g[m].winner = 0 /\ g[m].loser = 0
           /\ g[m].team = IF m <= Half(n) THEN Drawn(n, m)
                          ELSE [s \in Slots |-> 0]
           /\ g[m].round = RoundOf(n, m)
           /\ g[m].next = IF m = Final(n) THEN 0 ELSE Up(n, m)
  BY <1>1, SingleEliminationIsWired DEF Wired
<1> DEFINE Passed(x) == IF IsBye(x)
                        THEN [x EXCEPT !.status = "completed",
                                       !.winner = ByeWinner(x)]
                        ELSE x
           byes(m, s) == {f \in Feeders(g, m, s) : IsBye(g[f])}
           Placed(m, s) == IF byes(m, s) = {} THEN g[m].team[s]
                           ELSE ByeWinner(g[CHOOSE f \in byes(m, s) : TRUE])
<1>4. PICK w : w = WithByes(g)
  OBVIOUS
<1>5. w = [m \in 1..Final(n) |->
             [Passed(g[m]) EXCEPT !.team = [s \in Slots |-> Placed(m, s)]]]
  BY <1>3, <1>4 DEF WithByes
<1>6. ASSUME NEW m \in 1..Final(n), NEW s \in Slots
      PROVE  /\ m <= Half(n) => Placed(m, s) = g[m].team[s]
             /\ m > Half(n) =>
                  Placed(m, s) = IF IsBye(g[Feed(n, m, s)])
                                 THEN ByeWinner(g[Feed(n, m, s)]) ELSE 0
  <2>1. CASE m <= Half(n)
    <3>1. byes(m, s) = {}
      BY <1>3, <2>1, Feeds
    <3> HIDE DEF byes
    <3> QED
      BY <1>2, <2>1, <3>1
  <2>2. CASE m > Half(n)
    <3>1. PICK f : f = Feed(n, m, s)
      OBVIOUS
    <3>2. Feeders(g, m, s) = {f}
      BY <1>3, <2>2, <3>1, Feeds
    <3>3. byes(m, s) = IF IsBye(g[f]) THEN {f} ELSE {}
      BY <3>2
    <3>4. g[m].team[s] = 0
      BY <1>2, <1>3, <2>2
    <3> HIDE DEF byes
    <3>5. CASE IsBye(g[f])
      <4>1. (CHOOSE y \in byes(m, s) : TRUE) = f
        BY <3>3, <3>5
      <4> QED
        BY <1>2, <2>2, <3>1, <3>3, <3>5, <4>1
    <3>6. CASE ~IsBye(g[f])
      BY <1>2, <2>2, <3>1, <3>3, <3>4, <3>6
    <3> QED
      BY <3>5, <3>6
  <2> QED
    BY <1>2, <2>1, <2>2
<1>7. ASSUME NEW m \in 1..Final(n), IsBye(g[m])
      PROVE  /\ m <= Half(n) /\ m # Final(n)
             /\ ByeWinner(g[m]) = g[m].team[1]
             /\ g[m].team[1] # 0 /\ g[m].team[2] = 0 /\ g[m].team[1] \in Nat
  <2>1. g[m].round = 1 /\ g[m].next # 0
    BY <1>7 DEF IsBye
  <2>2. m <= Half(n)
    <3>1. m \in 1..(Size(n) - 1)
      BY <1>2
    <3>2. RoundOf(n, m) = 1
      BY <1>3, <2>1
    <3> QED
      BY <3>1, <3>2, Links
  <2>3. g[m].team = Drawn(n, m) /\ g[m].team \in [Slots -> Nat]
    BY <1>3, <2>2 DEF Row
  <2>4. g[m].team[1] # 0
    <3>1. Drawn(n, m)[1] = Positioned(n, 2 * m - 1)
      <4>1. 2 * (m - 1) + 1 = 2 * m - 1 /\ 1 \in Slots
        BY <1>2 DEF Slots
      <4> QED
        BY <4>1 DEF Drawn
    <3>2. m \in 1..Half(n)
      BY <1>2, <2>2
    <3> QED
      BY <2>3, <3>1, <3>2, Draw
  <2>5. g[m].team[2] = 0
    BY <1>7, <2>4 DEF IsBye, Slots
  <2>6. (CHOOSE s \in Slots : g[m].team[s] # 0) = 1
    BY <2>4, <2>5 DEF Slots
  <2> QED
    BY <1>3, <2>1, <2>2, <2>3, <2>4, <2>5, <2>6 DEF ByeWinner, Slots
<1>8. ASSUME NEW m \in 1..Final(n)
      PROVE  /\ w[m] \in Row
             /\ w[m].round = g[m].round /\ w[m].next = g[m].next
             /\ w[m].slot = g[m].slot /\ w[m].loserNext = g[m].loserNext
             /\ w[m].loser = 0
             /\ w[m].team = [s \in Slots |-> Placed(m, s)]
             /\ IsBye(g[m]) => w[m].status = "completed"
                               /\ w[m].winner = ByeWinner(g[m])
             /\ ~IsBye(g[m]) => w[m].status = "scheduled" /\ w[m].winner = 0
  <2>1. PICK T : T = [s \in Slots |-> Placed(m, s)]
    OBVIOUS
  <2>2. T \in [Slots -> Nat]
    <3>1. ASSUME NEW s \in Slots PROVE Placed(m, s) \in Nat
      <4>1. g[m].team[s] \in Nat
        BY <1>3 DEF Row
      <4>2. CASE m <= Half(n)
        BY <1>6, <4>1, <4>2
      <4>3. CASE m > Half(n)
        <5>1. Feed(n, m, s) \in 1..Final(n)
          BY <4>3, Feeding
        <5>2. Placed(m, s) = IF IsBye(g[Feed(n, m, s)])
                             THEN ByeWinner(g[Feed(n, m, s)]) ELSE 0
          BY <1>6, <4>3
        <5> HIDE DEF Placed
        <5> QED
          BY <1>7, <5>1, <5>2
      <4> QED
        BY <1>2, <4>2, <4>3
    <3> HIDE DEF Placed
    <3> QED
      BY <2>1, <3>1
  <2>3. PICK x : x = g[m] /\ x \in Row
    BY <1>3
  <2>4. x = [round |-> x.round, team |-> x.team, status |-> x.status,
             winner |-> x.winner, loser |-> x.loser, next |-> x.next,
             slot |-> x.slot, loserNext |-> x.loserNext,
             loserSlot |-> x.loserSlot]
    BY <2>3 DEF Row
  <2>5. PICK y : y = Passed(x)
    OBVIOUS
  <2>6. w[m] = [y EXCEPT !.team = T]
    BY <1>5, <2>1, <2>3, <2>5
  <2>7. x.status = "scheduled" /\ x.winner = 0 /\ x.loser = 0
    BY <1>3, <2>3
  <2> HIDE DEF Placed
  <2>8. CASE IsBye(x)
    <3>1. PICK b : b = ByeWinner(x)
      OBVIOUS
    <3>2. b \in Nat
      BY <1>7, <2>3, <2>8, <3>1
    <3>3. y = [x EXCEPT !.status = "completed", !.winner = b]
      BY <2>5, <2>8, <3>1
    <3>4. y = [round |-> x.round, team |-> x.team, status |-> "completed",
               winner |-> b, loser |-> x.loser, next |-> x.next,
               slot |-> x.slot, loserNext |-> x.loserNext,
               loserSlot |-> x.loserSlot]
      BY <2>4, <3>3
    <3>5. w[m] = [round |-> x.round, team |-> T, status |-> "completed",
                  winner |-> b, loser |-> x.loser, next |-> x.next,
                  slot |-> x.slot, loserNext |-> x.loserNext,
                  loserSlot |-> x.loserSlot]
      BY <2>6, <3>4
    <3> QED
      BY <2>1, <2>2, <2>3, <2>7, <2>8, <3>1, <3>2, <3>5 DEF Row
  <2>9. CASE ~IsBye(x)
    <3>1. y = x
      BY <2>5, <2>9
    <3>2. w[m] = [round |-> x.round, team |-> T, status |-> x.status,
                  winner |-> x.winner, loser |-> x.loser, next |-> x.next,
                  slot |-> x.slot, loserNext |-> x.loserNext,
                  loserSlot |-> x.loserSlot]
      BY <2>4, <2>6, <3>1
    <3> QED
      BY <2>1, <2>2, <2>3, <2>7, <2>9, <3>2 DEF Row
  <2> QED
    BY <2>8, <2>9
<1> HIDE DEF Placed
<1>9. Linked(w, 0) = w
  <2>1. DOMAIN w = 1..Final(n)
    BY <1>5
  <2>2. ASSUME NEW m \in 1..Final(n)
        PROVE  w[m] = [w[m] EXCEPT !.next = IF @ = 0 THEN 0 ELSE 0 + @,
                                   !.loserNext = IF @ = 0 THEN 0 ELSE 0 + @]
    <3>1. PICK x : x = w[m] /\ x \in Row
      BY <1>8
    <3>2. x.next \in Nat /\ x.loserNext \in Nat
      BY <3>1 DEF Row
    <3>3. PICK a, b : /\ a = IF x.next = 0 THEN 0 ELSE 0 + x.next
                      /\ b = IF x.loserNext = 0 THEN 0 ELSE 0 + x.loserNext
      OBVIOUS
    <3>4. a = x.next /\ b = x.loserNext
      BY <3>2, <3>3
    <3>5. x = [x EXCEPT !.next = a, !.loserNext = b]
      BY <3>1, <3>4 DEF Row
    <3> QED
      BY <3>1, <3>3, <3>5
  <2>3. Linked(w, 0) = [m \in 1..Final(n) |->
           [w[m] EXCEPT !.next = IF @ = 0 THEN 0 ELSE 0 + @,
                        !.loserNext = IF @ = 0 THEN 0 ELSE 0 + @]]
    BY <2>1 DEF Linked
  <2>4. w = [m \in 1..Final(n) |-> w[m]]
    BY <1>5
  <2> QED
    BY <2>2, <2>3, <2>4
<1>10. Wired(n, w)
  <2>1. w \in [1..Final(n) -> Row]
    <3>1. w = [m \in 1..Final(n) |-> w[m]]
      BY <1>5
    <3> QED
      BY <1>8, <3>1
  <2>2. ASSUME NEW m \in 1..Final(n)
        PROVE  /\ w[m].round = RoundOf(n, m) /\ w[m].loserNext = 0
               /\ w[m].next = IF m = Final(n) THEN 0 ELSE Up(n, m)
               /\ m # Final(n) => w[m].slot = Side(m)
    <3>1. /\ g[m].loserNext = 0
          /\ m # Final(n) => g[m].slot = Side(m)
      BY <1>3 DEF Wired
    <3>2. /\ w[m].round = g[m].round /\ w[m].next = g[m].next
          /\ w[m].slot = g[m].slot /\ w[m].loserNext = g[m].loserNext
      BY <1>8
    <3> QED
      BY <1>3, <3>1, <3>2
  <2> QED
    BY <2>1, <2>2 DEF Wired
<1>11. ASSUME NEW m \in 1..Final(n), m <= Half(n)
       PROVE  w[m].team = g[m].team
  <2>1. g[m].team \in [Slots -> Nat]
    BY <1>3 DEF Row
  <2>2. g[m].team = [s \in Slots |-> g[m].team[s]]
    BY <2>1
  <2> QED
    BY <1>6, <1>8, <1>11, <2>2
<1>12. Settled(n, w)
  <2> SUFFICES ASSUME NEW m \in 1..Final(n)
               PROVE  /\ w[m].status = "scheduled" =>
                           w[m].winner = 0 /\ w[m].loser = 0
                      /\ w[m].status = "completed" =>
                           /\ w[m].winner # 0
                           /\ \E s \in Slots :
                                /\ w[m].winner = w[m].team[s]
                                /\ w[m].loser = w[m].team[3 - s]
                           /\ m > Half(n) => w[m].loser # 0
    BY DEF Settled
  <2>1. CASE IsBye(g[m])
    <3>1. /\ w[m].team = g[m].team /\ w[m].status = "completed"
          /\ w[m].winner = g[m].team[1] /\ g[m].team[1] # 0
          /\ w[m].loser = g[m].team[2] /\ m <= Half(n)
      BY <1>7, <1>8, <1>11, <2>1
    <3>2. 1 \in Slots /\ 3 - 1 = 2 /\ ~(m > Half(n))
      BY <1>2, <3>1 DEF Slots
    <3> QED
      BY <3>1, <3>2
  <2>2. CASE ~IsBye(g[m])
    BY <1>8, <2>2
  <2> QED
    BY <2>1, <2>2
<1>13. DrawKept(n, w)
  <2> SUFFICES ASSUME NEW m \in 1..Final(n), m <= Half(n)
               PROVE  /\ w[m].team = Drawn(n, m)
                      /\ w[m].status = "scheduled" =>
                           \A s \in Slots : w[m].team[s] # 0
    BY DEF DrawKept
  <2>1. w[m].team = Drawn(n, m) /\ g[m].team = Drawn(n, m)
    BY <1>3, <1>11
  <2>2. ASSUME w[m].status = "scheduled", NEW s \in Slots
        PROVE  w[m].team[s] # 0
    <3>1. ~IsBye(g[m])
      BY <1>8, <2>2
    <3>2. g[m].round = 1
      <4>1. m \in 1..(Size(n) - 1)
        BY <1>2
      <4> QED
        BY <1>3, <4>1, Links
    <3>3. CASE m # Final(n)
      <4>1. g[m].next = Up(n, m) /\ Up(n, m) # 0
        BY <1>2, <1>3, <3>3 DEF Up
      <4> QED
        BY <2>1, <3>1, <3>2, <4>1 DEF IsBye
    <3>4. CASE m = Final(n)
      <4>1. n = Size(n) /\ 2 * (m - 1) + s \in 1..Size(n)
        BY <1>2, <3>4 DEF Slots
      <4>2. Drawn(n, m)[s] = Positioned(n, 2 * (m - 1) + s)
        BY DEF Drawn
      <4> QED
        BY <2>1, <4>1, <4>2, Draw
    <3> QED
      BY <3>3, <3>4
  <2> QED
    BY <2>1, <2>2
<1>14. Earned(n, w)
  <2> SUFFICES ASSUME NEW m \in 1..Final(n), NEW s \in Slots, m > Half(n)
               PROVE  w[m].team[s] \in {0, w[Feed(n, m, s)].winner}
    BY DEF Earned
  <2>1. PICK f : f = Feed(n, m, s) /\ f \in 1..Final(n)
    BY Feeding
  <2>2. w[m].team[s] = IF IsBye(g[f]) THEN ByeWinner(g[f]) ELSE 0
    <3>1. w[m].team[s] = Placed(m, s)
      <4>1. w[m].team = [x \in Slots |-> Placed(m, x)]
        BY <1>8
      <4> QED
        BY <4>1
    <3>2. Placed(m, s) = IF IsBye(g[f]) THEN ByeWinner(g[f]) ELSE 0
      BY <1>6, <2>1
    <3> QED
      BY <3>1, <3>2
  <2> QED
    BY <1>8, <2>1, <2>2
<1> QED
  BY <1>1, <1>4, <1>9, <1>10, <1>12, <1>13, <1>14 DEF Tree

-----------------------------------------------------------------------------
(* What the tree guarantees.                                                 *)

\* A team in a later round won the match that leads to its slot.
LEMMA CameUp ==
    ASSUME NEW n \in Nat, n >= 2, NEW ms, Tree(n, ms),
           NEW m \in 1..Final(n), NEW s \in Slots, ms[m].team[s] # 0,
           ms[m].round # 1
    PROVE  LET f == Feed(n, m, s)
           IN  /\ f \in 1..Final(n) /\ f < m
               /\ ms[f].winner = ms[m].team[s]
               /\ \E u \in Slots : ms[f].team[u] = ms[m].team[s]
               /\ ms[f].round \in Nat /\ ms[m].round = ms[f].round + 1
<1>1. ms \in [1..Final(n) -> Row] /\ ms[m].round = RoundOf(n, m)
  BY DEF Tree, Wired
<1>2. m > Half(n)
  <2>1. m \in 1..(Size(n) - 1)
    BY DEF Final
  <2>2. ~(m <= Half(n))
    BY <1>1, <2>1, Links
  <2> QED
    BY <2>1, <2>2, Halves
<1>3. PICK f : f = Feed(n, m, s)
  OBVIOUS
<1>4. /\ f \in 1..Final(n) /\ f < m
      /\ RoundOf(n, m) = RoundOf(n, f) + 1
  BY <1>2, <1>3, Feeding
<1>5. ms[m].team[s] \in {0, ms[f].winner}
  BY <1>2, <1>3 DEF Tree, Earned
<1>6. ms[f].winner = ms[m].team[s] /\ ms[f].winner # 0
  BY <1>5
<1>7. /\ ms[f] \in Row /\ ms[f].round = RoundOf(n, f)
      /\ ms[f].status \in {"scheduled", "completed"} /\ ms[f].round \in Nat
  BY <1>1, <1>4 DEF Tree, Wired, Row
<1>8. \E u \in Slots : ms[f].winner = ms[f].team[u]
  BY <1>4, <1>6, <1>7 DEF Tree, Settled
<1> QED
  BY <1>1, <1>3, <1>4, <1>6, <1>7, <1>8

\* A team has one place in each round.
LEMMA OnceARound ==
    ASSUME NEW n \in Nat, n >= 2, NEW ms, Tree(n, ms)
    PROVE  \A m, k \in 1..Final(n) : \A s, u \in Slots :
             ms[m].round = ms[k].round /\ ms[m].team[s] = ms[k].team[u]
               /\ ms[m].team[s] # 0 => m = k /\ s = u
<1> DEFINE Twice(r, m, k, s, u) ==
             /\ ms[m].round = r /\ ms[k].round = r
             /\ ms[m].team[s] = ms[k].team[u] /\ ms[m].team[s] # 0
             /\ ~(m = k /\ s = u)
           bad == {r \in Nat : \E m, k \in 1..Final(n) : \E s, u \in Slots :
                                 Twice(r, m, k, s, u)}
<1>1. ASSUME NEW m \in 1..Final(n)
      PROVE  /\ ms[m].round \in Nat
             /\ ms[m].round = 1 <=> m <= Half(n)
             /\ m <= Half(n) => ms[m].team = Drawn(n, m)
  <2>1. ms[m] \in Row /\ ms[m].round = RoundOf(n, m)
    BY DEF Tree, Wired
  <2>2. m \in 1..(Size(n) - 1)
    BY DEF Final
  <2>3. RoundOf(n, m) = 1 <=> m <= Half(n)
    BY <2>2, Links
  <2> QED
    BY <2>1, <2>3 DEF Row, Tree, DrawKept
<1>2. bad = {}
  <2> SUFFICES ASSUME bad # {} PROVE FALSE
    OBVIOUS
  <2>1. PICK r \in bad : \A q \in bad : r <= q
    BY LeastNumber
  <2>2. PICK m \in 1..Final(n), k \in 1..Final(n), s \in Slots, u \in Slots :
          Twice(r, m, k, s, u)
    BY <2>1
  <2>3. CASE r = 1
    <3>1. /\ ms[m].team = Drawn(n, m) /\ ms[k].team = Drawn(n, k)
          /\ m <= Half(n) /\ k <= Half(n)
      BY <1>1, <2>2, <2>3
    <3>2. PICK x, y : x = 2 * (m - 1) + s /\ y = 2 * (k - 1) + u
      OBVIOUS
    <3>3. Positioned(n, x) = Positioned(n, y) /\ Positioned(n, x) # 0
      BY <2>2, <3>1, <3>2 DEF Drawn
    <3>4. /\ x \in 1..Size(n) /\ y \in 1..Size(n)
          /\ x = y => m = k /\ s = u
      <4>1. Half(n) \in Nat /\ Size(n) = 2 * Half(n)
        BY Halves
      <4>2. s \in {1, 2} /\ u \in {1, 2} /\ m \in Nat /\ k \in Nat
        BY DEF Slots
      <4>3. m >= 1 /\ k >= 1
        OBVIOUS
      <4> HIDE DEF Twice, bad
      <4> QED
        BY <3>1, <3>2, <4>1, <4>2, <4>3
    <3> QED
      BY <2>2, <3>3, <3>4, Draw
  <2>4. CASE r # 1
    <3>1. PICK f, e : f = Feed(n, m, s) /\ e = Feed(n, k, u)
      OBVIOUS
    <3>2. /\ f \in 1..Final(n) /\ e \in 1..Final(n)
          /\ ms[f].winner = ms[m].team[s] /\ ms[e].winner = ms[k].team[u]
          /\ \E v \in Slots : ms[f].team[v] = ms[m].team[s]
          /\ \E v \in Slots : ms[e].team[v] = ms[k].team[u]
          /\ ms[f].round \in Nat /\ r = ms[f].round + 1
          /\ ms[e].round \in Nat /\ r = ms[e].round + 1
      <4>1. ms[k].team[u] # 0 /\ ms[m].round = r /\ ms[k].round = r
            /\ ms[m].team[s] # 0
        BY <2>2
      <4> HIDE DEF Twice, bad
      <4>2. /\ f \in 1..Final(n) /\ ms[f].winner = ms[m].team[s]
            /\ \E v \in Slots : ms[f].team[v] = ms[m].team[s]
            /\ ms[f].round \in Nat /\ r = ms[f].round + 1
        BY <2>4, <3>1, <4>1, CameUp
      <4>3. /\ e \in 1..Final(n) /\ ms[e].winner = ms[k].team[u]
            /\ \E v \in Slots : ms[e].team[v] = ms[k].team[u]
            /\ ms[e].round \in Nat /\ r = ms[e].round + 1
        BY <2>4, <3>1, <4>1, CameUp
      <4> QED
        BY <4>2, <4>3
    <3>3. PICK v \in Slots, z \in Slots :
            ms[f].team[v] = ms[m].team[s] /\ ms[e].team[z] = ms[k].team[u]
      BY <3>2
    <3>4. PICK q : q = ms[f].round
      OBVIOUS
    <3>5. q \in Nat /\ q < r /\ ms[e].round = q /\ q \notin bad
      <4>1. q \in Nat /\ q < r /\ ms[e].round = q
        BY <3>2, <3>4
      <4>2. ~(r <= q)
        BY <2>1, <4>1
      <4> QED
        BY <2>1, <4>1, <4>2
    <3>6. f = e
      <4>1. ~Twice(q, f, e, v, z)
        BY <3>2, <3>5
      <4>2. ms[f].team[v] = ms[e].team[z] /\ ms[f].team[v] # 0
        BY <2>2, <3>3
      <4> QED
        BY <3>4, <3>5, <4>1, <4>2
    <3>7. m = k /\ s = u
      <4>1. m > Half(n) /\ k > Half(n)
        <5>1. ~(m <= Half(n)) /\ ~(k <= Half(n))
          BY <1>1, <2>2, <2>4
        <5> QED
          BY <5>1, Halves
      <4>2. Up(n, f) = m /\ Side(f) = s
        BY <3>1, <3>2, <4>1, Feeding
      <4>3. Up(n, e) = k /\ Side(e) = u
        BY <3>1, <3>2, <4>1, Feeding
      <4> QED
        BY <3>6, <4>2, <4>3
    <3> QED
      BY <2>2, <3>7
  <2> QED
    BY <2>3, <2>4
<1>3. ASSUME NEW m \in 1..Final(n), NEW k \in 1..Final(n),
             NEW s \in Slots, NEW u \in Slots,
             ms[m].round = ms[k].round, ms[m].team[s] = ms[k].team[u],
             ms[m].team[s] # 0, ~(m = k /\ s = u)
      PROVE  FALSE
  <2>1. Twice(ms[m].round, m, k, s, u) /\ ms[m].round \in Nat
    BY <1>1, <1>3
  <2>2. ms[m].round \in bad
    BY <2>1
  <2> QED
    BY <1>2, <2>2
<1> QED
  BY <1>3

\* A team has won each match of an earlier round that it stands in.
LEMMA PastWon ==
    ASSUME NEW n \in Nat, n >= 2, NEW ms, Tree(n, ms)
    PROVE  \A m, k \in 1..Final(n) : \A s, u \in Slots :
             ms[k].round < ms[m].round /\ ms[m].team[s] = ms[k].team[u]
               /\ ms[m].team[s] # 0 => ms[k].winner = ms[m].team[s]
<1> DEFINE Missed(r, m, k, s, u) ==
             /\ ms[m].round = r /\ ms[k].round < r
             /\ ms[m].team[s] = ms[k].team[u] /\ ms[m].team[s] # 0
             /\ ms[k].winner # ms[m].team[s]
           bad == {r \in Nat : \E m, k \in 1..Final(n) : \E s, u \in Slots :
                                 Missed(r, m, k, s, u)}
<1>1. ASSUME NEW m \in 1..Final(n) PROVE ms[m].round \in Nat /\ ms[m].round >= 1
  <2>1. ms[m].round = RoundOf(n, m) /\ m \in 1..(Size(n) - 1)
    BY DEF Tree, Wired, Final
  <2>2. ms[m].round \in 1..Rounds(n)
    BY <2>1, RoundsMeet
  <2> QED
    BY <2>2
<1>2. bad = {}
  <2> SUFFICES ASSUME bad # {} PROVE FALSE
    OBVIOUS
  <2>1. PICK r \in bad : \A q \in bad : r <= q
    BY LeastNumber
  <2>2. PICK m \in 1..Final(n), k \in 1..Final(n), s \in Slots, u \in Slots :
          Missed(r, m, k, s, u)
    BY <2>1
  <2>3. /\ ms[m].round = r /\ ms[k].round < r
        /\ ms[m].team[s] = ms[k].team[u] /\ ms[m].team[s] # 0
        /\ ms[k].winner # ms[m].team[s] /\ ms[k].round \in Nat
        /\ ms[k].round >= 1 /\ r \in Nat
    BY <1>1, <2>2
  <2>4. r # 1
    BY <2>3
  <2>5. PICK f : f = Feed(n, m, s)
    OBVIOUS
  <2>6. /\ f \in 1..Final(n) /\ ms[f].winner = ms[m].team[s]
        /\ \E v \in Slots : ms[f].team[v] = ms[m].team[s]
        /\ ms[f].round \in Nat /\ r = ms[f].round + 1
    <3> HIDE DEF Missed, bad
    <3> QED
      BY <2>3, <2>4, <2>5, CameUp
  <2>7. PICK v \in Slots : ms[f].team[v] = ms[m].team[s]
    BY <2>6
  <2>8. CASE ms[k].round = ms[f].round
    <3>1. f = k
      BY <2>3, <2>6, <2>7, <2>8, OnceARound
    <3> QED
      BY <2>3, <2>6, <3>1
  <2>9. CASE ms[k].round # ms[f].round
    <3>1. ms[k].round < ms[f].round
      BY <2>3, <2>6, <2>9
    <3>2. Missed(ms[f].round, f, k, v, u)
      BY <2>3, <2>7, <3>1
    <3>3. ms[f].round \in bad
      BY <2>6, <3>2
    <3>4. r <= ms[f].round
      BY <2>1, <3>3
    <3> QED
      BY <2>3, <2>6, <3>4
  <2> QED
    BY <2>8, <2>9
<1>3. ASSUME NEW m \in 1..Final(n), NEW k \in 1..Final(n),
             NEW s \in Slots, NEW u \in Slots,
             ms[k].round < ms[m].round, ms[m].team[s] = ms[k].team[u],
             ms[m].team[s] # 0, ms[k].winner # ms[m].team[s]
      PROVE  FALSE
  <2>1. Missed(ms[m].round, m, k, s, u) /\ ms[m].round \in Nat
    BY <1>1, <1>3
  <2>2. ms[m].round \in bad
    BY <2>1
  <2> QED
    BY <1>2, <2>2
<1> QED
  BY <1>3

\* The rounds that are left once a match of this round is won, and the place
\* of slot s of a match among those of its round.
Depth(n, m) == Rounds(n) + 1 - RoundOf(n, m)
Place(n, m, s) == 2 * (m - Before(n, RoundOf(n, m)) - 1) + s

\* The places of a round are numbered from one.
LEMMA Places ==
    ASSUME NEW n \in Nat, n >= 2, NEW m \in 1..Final(n)
    PROVE  /\ Depth(n, m) \in 1..Rounds(n)
           /\ Depth(n, m) - 1 \in Nat /\ (Depth(n, m) - 1) + 1 = Depth(n, m)
           /\ Depth(n, m) - 1 = Rounds(n) - RoundOf(n, m)
           /\ \E q \in 1..Pow2[Depth(n, m) - 1] :
                /\ Place(n, m, 1) = 2 * q - 1 /\ Place(n, m, 2) = 2 * q
                /\ q = m - Before(n, RoundOf(n, m))
<1>1. m \in 1..(Size(n) - 1) /\ Rounds(n) \in Nat /\ Rounds(n) >= 1
      /\ Size(n) \in Nat
  BY Halves DEF Final
<1>2. PICK r : r = RoundOf(n, m)
  OBVIOUS
<1>3. PICK P : P = Pow2[Rounds(n) - r]
  OBVIOUS
<1>4. /\ r \in 1..Rounds(n) /\ P \in Nat /\ P >= 1
      /\ Before(n, r) = Size(n) - 2 * P
      /\ Before(n, r) < m /\ m <= Size(n) - P
  BY <1>1, <1>2, <1>3, RoundsMeet
<1>5. PICK d : d = Depth(n, m)
  OBVIOUS
<1>6. d = Rounds(n) + 1 - r /\ d \in 1..Rounds(n) /\ d - 1 \in Nat
      /\ (d - 1) + 1 = d /\ d - 1 = Rounds(n) - r
  BY <1>1, <1>2, <1>4, <1>5 DEF Depth
<1>7. PICK q \in Int : q = m - Before(n, r)
  BY <1>1, <1>4
<1>8. q \in 1..P
  BY <1>1, <1>4, <1>7
<1>9. Place(n, m, 1) = 2 * q - 1 /\ Place(n, m, 2) = 2 * q
  BY <1>1, <1>2, <1>4, <1>7 DEF Place
<1> QED
  BY <1>2, <1>3, <1>5, <1>6, <1>7, <1>8, <1>9

\* Before a round, a place belongs to its seed of the smaller bracket, or to
\* a team that is none of the seeds of that bracket.
LEMMA SeedsHold ==
    ASSUME NEW n \in Nat, n >= 2, NEW ms, Tree(n, ms)
    PROVE  \A m \in 1..Final(n) : \A s \in Slots : ms[m].team[s] # 0 =>
             \/ ms[m].team[s] = bracketSeedOrder(Depth(n, m))[Place(n, m, s)]
             \/ ms[m].team[s] > Pow2[Depth(n, m)]
<1> DEFINE Holds(m, s) == ms[m].team[s] # 0 =>
             \/ ms[m].team[s] = bracketSeedOrder(Depth(n, m))[Place(n, m, s)]
             \/ ms[m].team[s] > Pow2[Depth(n, m)]
           bad == {m \in 1..Final(n) : \E s \in Slots : ~Holds(m, s)}
<1> SUFFICES ASSUME bad # {} PROVE FALSE
  OBVIOUS
<1>1. PICK m \in bad : \A f \in bad : m <= f
  <2>1. bad \in SUBSET Nat
    OBVIOUS
  <2> HIDE DEF bad
  <2> QED
    BY <2>1, LeastNumber
<1>2. PICK s \in Slots : ~Holds(m, s)
  BY <1>1
<1>3. m \in 1..Final(n) /\ m \in 1..(Size(n) - 1)
      /\ ms[m].round = RoundOf(n, m)
  BY <1>1 DEF Tree, Wired, Final
<1>4. /\ ms[m].team[s] # 0
      /\ ms[m].team[s] # bracketSeedOrder(Depth(n, m))[Place(n, m, s)]
      /\ ~(ms[m].team[s] > Pow2[Depth(n, m)])
  BY <1>2
<1>5. CASE RoundOf(n, m) = 1
  <2>1. m <= Half(n)
    BY <1>3, <1>5, Links
  <2>2. ms[m].team[s] = Positioned(n, 2 * (m - 1) + s)
    <3>1. ms[m].team = Drawn(n, m)
      BY <1>3, <2>1 DEF Tree, DrawKept
    <3> QED
      BY <3>1 DEF Drawn
  <2>3. 2 * (m - 1) + s \in 1..Size(n)
    <3>1. Half(n) \in Nat /\ Size(n) = 2 * Half(n) /\ s \in {1, 2}
      BY Halves DEF Slots
    <3> QED
      BY <1>3, <2>1, <3>1
  <2>4. Depth(n, m) = Rounds(n)
    BY <1>5, Halves DEF Depth
  <2>5. Place(n, m, s) = 2 * (m - 1) + s
    BY <1>3, <1>5, Links DEF Place
  <2>6. ms[m].team[s] = bracketSeedOrder(Rounds(n))[2 * (m - 1) + s]
    BY <1>4, <2>2, <2>3, Draw
  <2> QED
    BY <1>4, <2>4, <2>5, <2>6
<1>6. CASE RoundOf(n, m) # 1
  <2>1. PICK f : f = Feed(n, m, s)
    OBVIOUS
  <2>2. /\ f \in 1..Final(n) /\ f < m
        /\ \E u \in Slots : ms[f].team[u] = ms[m].team[s]
    <3> HIDE DEF bad, Holds
    <3> QED
      BY <1>3, <1>4, <1>6, <2>1, CameUp
  <2>3. PICK u \in Slots : ms[f].team[u] = ms[m].team[s]
    BY <2>2
  <2>4. PICK t : t = ms[m].team[s]
    OBVIOUS
  <2>5. Holds(f, u)
    <3>1. f \notin bad
      <4>1. ~(m <= f)
        BY <1>3, <2>2
      <4> QED
        BY <1>1, <4>1
    <3> QED
      BY <2>2, <3>1
  <2>6. \/ t = bracketSeedOrder(Depth(n, f))[Place(n, f, u)]
        \/ t > Pow2[Depth(n, f)]
    BY <1>4, <2>3, <2>4, <2>5
  <2> HIDE DEF bad, Holds
  <2>7. m > Half(n)
    <3>1. ~(m <= Half(n))
      BY <1>3, <1>6, Links
    <3> QED
      BY <1>3, <3>1, Halves
  <2>8. /\ f # Final(n) /\ Up(n, f) = m /\ Side(f) = s
        /\ RoundOf(n, m) = RoundOf(n, f) + 1
    BY <1>3, <2>1, <2>2, <2>7, Feeding
  <2>9. PICK d \in Nat : d = Depth(n, m)
    BY <1>3, Places
  <2>10. PICK i : i = f - Before(n, RoundOf(n, f)) - 1
    OBVIOUS
  <2>11. /\ i \in Nat /\ SlotOf(i) = s
         /\ m - Before(n, RoundOf(n, m)) - 1 = i \div 2
    <3>1. f \in 1..(Size(n) - 1) /\ f # Size(n) - 1
      BY <2>2, <2>8 DEF Final
    <3>2. PICK r : r = RoundOf(n, f)
      OBVIOUS
    <3>3. r # Rounds(n)
      BY <3>1, <3>2, Links
    <3>4. /\ i \in Nat /\ SlotOf(i) = IF f % 2 = 1 THEN 1 ELSE 2
          /\ NextNumber(n, r, i) = m
          /\ NextNumber(n, r, i) - Before(n, r + 1) - 1 = i \div 2
      BY <2>8, <2>10, <3>1, <3>2, <3>3, Links DEF Up
    <3> QED
      BY <2>8, <3>2, <3>4 DEF Side
  <2>12. Place(n, m, s) = i + 1
    <3>1. s = IF i % 2 = 0 THEN 1 ELSE 2
      BY <2>11 DEF SlotOf
    <3>2. Place(n, m, s) = 2 * (i \div 2) + s
      BY <2>11 DEF Place
    <3> QED
      BY <2>11, <3>1, <3>2
  <2>13. Place(n, f, u) = 2 * i + u
    BY <2>10 DEF Place
  <2>14. Depth(n, f) = d + 1 /\ i + 1 \in 1..Pow2[d]
    <3>1. /\ Depth(n, f) - 1 = Rounds(n) - RoundOf(n, f)
          /\ Depth(n, f) \in Int /\ Depth(n, m) \in Int
          /\ Depth(n, m) - 1 = Rounds(n) - RoundOf(n, m)
      BY <1>3, <2>2, Places
    <3>2. RoundOf(n, f) \in Int /\ Rounds(n) \in Int
      <4>1. f \in 1..(Size(n) - 1)
        BY <2>2 DEF Final
      <4> QED
        BY <4>1, RoundsMeet, Halves
    <3>3. Depth(n, f) = d + 1 /\ Depth(n, f) - 1 = d
      <4>1. PICK a \in Int, b \in Int, x \in Int :
              a = Depth(n, f) /\ b = RoundOf(n, f) /\ x = Rounds(n)
        BY <3>1, <3>2
      <4>2. a - 1 = x - b /\ d - 1 = x - (b + 1)
        BY <2>8, <2>9, <3>1, <4>1
      <4>3. a = d + 1 /\ a - 1 = d
        BY <4>2
      <4> QED
        BY <4>1, <4>3
    <3>4. PICK q \in 1..Pow2[d] : q = f - Before(n, RoundOf(n, f))
      BY <2>2, <3>3, Places
    <3>5. i + 1 = q
      <4>1. Before(n, RoundOf(n, f)) \in Int
        <5>1. f \in 1..(Size(n) - 1) /\ Size(n) \in Int
          BY <2>2, Halves DEF Final
        <5> QED
          BY <5>1, RoundsMeet
      <4> QED
        BY <2>2, <2>10, <3>4, <4>1
    <3> QED
      BY <3>3, <3>4, <3>5
  <2>15. PICK q \in 1..Pow2[d] : q = i + 1
    BY <2>14
  <2>16. PICK o : o = bracketSeedOrder(d)
    OBVIOUS
  <2>17. /\ o[q] \in 1..Pow2[d] /\ Pow2[d] \in Nat
         /\ Pow2[d + 1] = 2 * Pow2[d]
         /\ bracketSeedOrder(d + 1)[2 * q - 1] = o[q]
         /\ bracketSeedOrder(d + 1)[2 * q] = Pow2[d + 1] + 1 - o[q]
    BY <2>16, SeedOrder, Powers
  <2>18. u = 1 \/ u = 2
    BY DEF Slots
  <2>19. Place(n, f, u) = IF u = 1 THEN 2 * q - 1 ELSE 2 * q
    BY <2>11, <2>13, <2>15, <2>18
  <2>20. ~(t = o[q]) /\ ~(t > Pow2[d])
    BY <1>4, <2>4, <2>9, <2>12, <2>15, <2>16
  <2>21. CASE t = bracketSeedOrder(d + 1)[Place(n, f, u)]
    BY <2>17, <2>18, <2>19, <2>20, <2>21
  <2>22. CASE t > Pow2[d + 1]
    <3>1. t \in Nat
      BY <1>3, <2>4 DEF Tree, Wired, Row
    <3> QED
      BY <2>17, <2>20, <2>22, <3>1
  <2> QED
    BY <2>6, <2>14, <2>21, <2>22
<1> QED
  BY <1>5, <1>6

\* The second team of a match is none of the seeds of the smaller bracket.
LEMMA SecondIsWeaker ==
    ASSUME NEW n \in Nat, n >= 2, NEW ms, Tree(n, ms),
           NEW m \in 1..Final(n), ms[m].team[2] # 0
    PROVE  ms[m].team[2] > Pow2[Depth(n, m) - 1]
<1>1. PICK d \in Nat : d = Depth(n, m) - 1 /\ Depth(n, m) = d + 1
  BY Places
<1>2. PICK q \in 1..Pow2[d] : Place(n, m, 2) = 2 * q
  BY <1>1, Places
<1>3. PICK o : o = bracketSeedOrder(d)
  OBVIOUS
<1>4. /\ o[q] \in 1..Pow2[d] /\ Pow2[d] \in Nat /\ Pow2[d + 1] = 2 * Pow2[d]
      /\ bracketSeedOrder(d + 1)[2 * q] = Pow2[d + 1] + 1 - o[q]
  BY <1>3, SeedOrder, Powers
<1>5. PICK t \in Nat : t = ms[m].team[2]
  BY DEF Tree, Wired, Row, Slots
<1>6. t = bracketSeedOrder(d + 1)[2 * q] \/ t > Pow2[d + 1]
  <2>1. 2 \in Slots
    BY DEF Slots
  <2> QED
    BY <1>1, <1>2, <1>5, <2>1, SeedsHold
<1> QED
  BY <1>1, <1>4, <1>5, <1>6

-----------------------------------------------------------------------------
(* The steps keep the tree.                                                  *)

\* Playing a match (CompleteMatch).
LEMMA PlayedKeepsTree ==
    ASSUME NEW n \in Nat, n >= 2, NEW ms, Tree(n, ms),
           NEW m \in 1..Final(n), NEW s \in Slots,
           ms[m].status = "scheduled", \A u \in Slots : ms[m].team[u] # 0,
           NEW new,
           new = [ms EXCEPT ![m].status = "completed",
                            ![m].winner = ms[m].team[s],
                            ![m].loser  = ms[m].team[3 - s]]
    PROVE  Tree(n, new)
<1>1. ms \in [1..Final(n) -> Row]
  BY DEF Tree, Wired
<1>2. 3 - s \in Slots
  BY DEF Slots
<1>3. PICK a, b : a = ms[m].team[s] /\ b = ms[m].team[3 - s]
  OBVIOUS
<1>4. a \in Nat /\ b \in Nat /\ a # 0 /\ b # 0
  BY <1>1, <1>2, <1>3 DEF Row
<1>5. PICK x : x = ms[m] /\ x \in Row
  BY <1>1
<1>6. PICK y : y = [x EXCEPT !.status = "completed", !.winner = a,
                             !.loser = b]
  OBVIOUS
<1>7. new = [ms EXCEPT ![m] = y]
  BY <1>1, <1>3, <1>5, <1>6
<1>8. y = [round |-> x.round, team |-> x.team, status |-> "completed",
           winner |-> a, loser |-> b, next |-> x.next, slot |-> x.slot,
           loserNext |-> x.loserNext, loserSlot |-> x.loserSlot]
  <2>1. x = [round |-> x.round, team |-> x.team, status |-> x.status,
             winner |-> x.winner, loser |-> x.loser, next |-> x.next,
             slot |-> x.slot, loserNext |-> x.loserNext,
             loserSlot |-> x.loserSlot]
    BY <1>5 DEF Row
  <2> QED
    BY <1>6, <2>1
<1>9. y \in Row
  BY <1>4, <1>5, <1>8 DEF Row
<1>10. /\ new \in [1..Final(n) -> Row] /\ new[m] = y
       /\ \A k \in 1..Final(n) : k # m => new[k] = ms[k]
  BY <1>1, <1>7, <1>9
<1>11. /\ y.round = ms[m].round /\ y.team = ms[m].team
       /\ y.next = ms[m].next /\ y.slot = ms[m].slot
       /\ y.loserNext = ms[m].loserNext /\ y.status = "completed"
       /\ y.winner = a /\ y.loser = b
  BY <1>5, <1>8
<1>12. Wired(n, new)
  BY <1>10, <1>11 DEF Tree, Wired
<1>13. Settled(n, new)
  <2> SUFFICES ASSUME NEW k \in 1..Final(n)
               PROVE  /\ new[k].status = "scheduled" =>
                           new[k].winner = 0 /\ new[k].loser = 0
                      /\ new[k].status = "completed" =>
                           /\ new[k].winner # 0
                           /\ \E u \in Slots :
                                /\ new[k].winner = new[k].team[u]
                                /\ new[k].loser = new[k].team[3 - u]
                           /\ k > Half(n) => new[k].loser # 0
    BY DEF Settled
  <2>1. CASE k = m
    BY <1>3, <1>4, <1>10, <1>11, <2>1
  <2>2. CASE k # m
    BY <1>10, <2>2 DEF Tree, Settled
  <2> QED
    BY <2>1, <2>2
<1>14. DrawKept(n, new)
  <2> SUFFICES ASSUME NEW k \in 1..Final(n), k <= Half(n)
               PROVE  /\ new[k].team = Drawn(n, k)
                      /\ new[k].status = "scheduled" =>
                           \A u \in Slots : new[k].team[u] # 0
    BY DEF DrawKept
  <2>1. new[k].team = ms[k].team
    BY <1>10, <1>11
  <2>2. new[k].status = "scheduled" => k # m
    BY <1>10, <1>11
  <2> QED
    BY <1>10, <2>1, <2>2 DEF Tree, DrawKept
<1>15. Earned(n, new)
  <2> SUFFICES ASSUME NEW k \in 1..Final(n), NEW u \in Slots, k > Half(n)
               PROVE  new[k].team[u] \in {0, new[Feed(n, k, u)].winner}
    BY DEF Earned
  <2>1. PICK f : f = Feed(n, k, u) /\ f \in 1..Final(n)
    BY Feeding
  <2>2. new[k].team = ms[k].team
    BY <1>10, <1>11
  <2>3. ms[k].team[u] \in {0, ms[f].winner}
    BY <2>1 DEF Tree, Earned
  <2>4. CASE f = m
    <3>1. ms[m].winner = 0
      BY DEF Tree, Settled
    <3> QED
      BY <2>1, <2>2, <2>3, <2>4, <3>1
  <2>5. CASE f # m
    BY <1>10, <2>1, <2>2, <2>3, <2>5
  <2> QED
    BY <2>4, <2>5
<1> QED
  BY <1>12, <1>13, <1>14, <1>15 DEF Tree

\* Slotting the winner of a match (AdvanceWinner).
LEMMA SlottedKeepsTree ==
    ASSUME NEW n \in Nat, n >= 2, NEW ms, Tree(n, ms),
           NEW m \in 1..Final(n), ms[m].winner # 0
    PROVE  Tree(n, Slotted(ms, ms[m].next, ms[m].slot, ms[m].winner))
<1>1. ms \in [1..Final(n) -> Row]
  BY DEF Tree, Wired
<1>2. PICK k, u, t : k = ms[m].next /\ u = ms[m].slot /\ t = ms[m].winner
  OBVIOUS
<1>3. k = (IF m = Final(n) THEN 0 ELSE Up(n, m))
      /\ (m # Final(n) => u = Side(m))
  BY <1>2 DEF Tree, Wired
<1>4. t \in Nat /\ t # 0
  BY <1>1, <1>2 DEF Row
<1>5. CASE k = 0
  BY <1>2, <1>5 DEF Slotted
<1>6. CASE k # 0
  <2>1. m # Final(n) /\ k = Up(n, m) /\ u = Side(m) /\ u \in Slots
    BY <1>3, <1>6 DEF Side, Slots
  <2>2. k \in 1..Final(n) /\ k > Half(n)
    <3>1. Half(n) \in Nat /\ Half(n) >= 1 /\ Final(n) = 2 * Half(n) - 1
      BY Halves DEF Final
    <3> QED
      BY <2>1, <3>1 DEF Up
  <2>3. Feed(n, k, u) = m
    BY <2>1, <2>2, Feeding
  <2>4. PICK new : new = [ms EXCEPT ![k].team[u] = t]
    OBVIOUS
  <2>5. Slotted(ms, k, u, t) = new
    BY <1>4, <1>6, <2>4 DEF Slotted
  <2>6. ms[k] \in Row /\ ms[k].team \in [Slots -> Nat]
    BY <1>1, <2>2 DEF Row
  <2>7. PICK T : T = [ms[k].team EXCEPT ![u] = t]
    OBVIOUS
  <2>8. /\ T \in [Slots -> Nat] /\ T[u] = t
        /\ \A v \in Slots : v # u => T[v] = ms[k].team[v]
    BY <1>4, <2>1, <2>6, <2>7
  <2>9. PICK x : x = ms[k]
    OBVIOUS
  <2>10. PICK y : y = [x EXCEPT !.team = T]
    OBVIOUS
  <2>11. new = [ms EXCEPT ![k] = y]
    BY <1>1, <2>2, <2>4, <2>7, <2>9, <2>10
  <2>12. y = [round |-> x.round, team |-> T, status |-> x.status,
              winner |-> x.winner, loser |-> x.loser, next |-> x.next,
              slot |-> x.slot, loserNext |-> x.loserNext,
              loserSlot |-> x.loserSlot]
    <3>1. x = [round |-> x.round, team |-> x.team, status |-> x.status,
               winner |-> x.winner, loser |-> x.loser, next |-> x.next,
               slot |-> x.slot, loserNext |-> x.loserNext,
               loserSlot |-> x.loserSlot]
      BY <2>6, <2>9 DEF Row
    <3> QED
      BY <2>10, <3>1
  <2>13. ms[k].team[u] \in {0, t}
    BY <1>2, <2>1, <2>2, <2>3 DEF Tree, Earned
  <2>14. CASE ms[k].team[u] = t
    <3>1. T = ms[k].team
      BY <2>6, <2>7, <2>14
    <3>2. y = ms[k]
      <4>1. x = [x EXCEPT !.team = x.team]
        BY <2>6, <2>9 DEF Row
      <4> QED
        BY <2>9, <2>10, <3>1, <4>1
    <3>3. new = ms
      BY <1>1, <2>2, <2>11, <3>2
    <3> QED
      BY <1>2, <2>5, <3>3
  <2>15. CASE ms[k].team[u] = 0
    <3>1. ms[k].status = "scheduled"
      <4> SUFFICES ASSUME ms[k].status = "completed" PROVE FALSE
        BY <2>6 DEF Row
      <4>1. PICK v \in Slots : /\ ms[k].winner = ms[k].team[v]
                               /\ ms[k].loser = ms[k].team[3 - v]
        BY <2>2 DEF Tree, Settled
      <4>2. ms[k].winner # 0 /\ ms[k].loser # 0
        BY <2>2 DEF Tree, Settled
      <4>3. u = v \/ u = 3 - v
        BY <2>1 DEF Slots
      <4> QED
        BY <2>15, <4>1, <4>2, <4>3
    <3>2. y \in Row
      BY <2>6, <2>8, <2>9, <2>12 DEF Row
    <3>3. /\ new \in [1..Final(n) -> Row] /\ new[k] = y
          /\ \A f \in 1..Final(n) : f # k => new[f] = ms[f]
      BY <1>1, <2>2, <2>11, <3>2
    <3>4. /\ y.round = ms[k].round /\ y.team = T /\ y.status = ms[k].status
          /\ y.winner = ms[k].winner /\ y.loser = ms[k].loser
          /\ y.next = ms[k].next /\ y.slot = ms[k].slot
          /\ y.loserNext = ms[k].loserNext
      BY <2>9, <2>12
    <3>5. \A f \in 1..Final(n) :
            /\ new[f].winner = ms[f].winner /\ new[f].loser = ms[f].loser
            /\ new[f].status = ms[f].status
            /\ new[f].round = ms[f].round /\ new[f].next = ms[f].next
            /\ new[f].slot = ms[f].slot
            /\ new[f].loserNext = ms[f].loserNext
            /\ f # k => new[f].team = ms[f].team
      BY <3>3, <3>4
    <3>6. Wired(n, new)
      BY <3>3, <3>5 DEF Tree, Wired
    <3>7. Settled(n, new)
      <4> SUFFICES ASSUME NEW f \in 1..Final(n)
                   PROVE  /\ new[f].status = "scheduled" =>
                               new[f].winner = 0 /\ new[f].loser = 0
                          /\ new[f].status = "completed" =>
                               /\ new[f].winner # 0
                               /\ \E v \in Slots :
                                    /\ new[f].winner = new[f].team[v]
                                    /\ new[f].loser = new[f].team[3 - v]
                               /\ f > Half(n) => new[f].loser # 0
        BY DEF Settled
      <4>1. CASE f = k
        BY <3>1, <3>5, <4>1 DEF Tree, Settled
      <4>2. CASE f # k
        BY <3>3, <4>2 DEF Tree, Settled
      <4> QED
        BY <4>1, <4>2
    <3>8. DrawKept(n, new)
      <4> SUFFICES ASSUME NEW f \in 1..Final(n), f <= Half(n)
                   PROVE  /\ new[f].team = Drawn(n, f)
                          /\ new[f].status = "scheduled" =>
                               \A v \in Slots : new[f].team[v] # 0
        BY DEF DrawKept
      <4>1. f # k
        BY <2>2, Halves
      <4> QED
        BY <3>3, <4>1 DEF Tree, DrawKept
    <3>9. Earned(n, new)
      <4> SUFFICES ASSUME NEW f \in 1..Final(n), NEW v \in Slots, f > Half(n)
                   PROVE  new[f].team[v] \in {0, new[Feed(n, f, v)].winner}
        BY DEF Earned
      <4>1. PICK e : e = Feed(n, f, v) /\ e \in 1..Final(n)
        BY Feeding
      <4>2. new[e].winner = ms[e].winner
        BY <3>5, <4>1
      <4>3. ms[f].team[v] \in {0, ms[e].winner}
        BY <4>1 DEF Tree, Earned
      <4>4. CASE f = k /\ v = u
        <5>1. e = m /\ new[f].team[v] = t
          BY <2>3, <2>8, <3>3, <3>4, <4>1, <4>4
        <5> QED
          BY <1>2, <4>1, <4>2, <5>1
      <4>5. CASE ~(f = k /\ v = u)
        <5>1. new[f].team[v] = ms[f].team[v]
          BY <2>8, <3>3, <3>4, <4>5
        <5> QED
          BY <4>1, <4>2, <4>3, <5>1
      <4> QED
        BY <4>4, <4>5
    <3>10. Tree(n, new)
      BY <3>6, <3>7, <3>8, <3>9 DEF Tree
    <3> QED
      BY <1>2, <2>5, <3>10
  <2> QED
    BY <2>13, <2>14, <2>15
<1> QED
  BY <1>5, <1>6

-----------------------------------------------------------------------------
(* The circle of a round robin.                                              *)

\* Where the one who is at place p in round r was in the first round, when
\* there are P of them.
Seat(P, r, p) ==
  IF p = 1 THEN 1 ELSE IF p > r THEN p + 1 - r ELSE p + P - r

\* Seats are places, nobody shares one, and a round later everybody sits where
\* Turned puts them.
LEMMA Seats ==
    ASSUME NEW P \in Nat, P >= 2, NEW r \in 1..(P - 1)
    PROVE  /\ \A p \in 1..P : Seat(P, r, p) \in 1..P
           /\ \A p, q \in 1..P : Seat(P, r, p) = Seat(P, r, q) => p = q
           /\ \A p \in 1..P : Seat(P, 1, p) = p
           /\ r + 1 \in 1..(P - 1) => \A p \in 1..P :
                Seat(P, r + 1, p)
                  = Seat(P, r, IF p = 1 THEN 1 ELSE IF p = 2 THEN P
                               ELSE p - 1)
BY DEF Seat

\* Two seats are opposite each other in some round...
LEMMA OppositeOnce ==
    ASSUME NEW h \in Nat, h >= 1, NEW a \in 1..(2 * h), NEW b \in 1..(2 * h),
           a < b
    PROVE  \E r \in 1..(2 * h - 1) : \E k \in 1..h :
             \/ /\ Seat(2 * h, r, k) = a
                /\ Seat(2 * h, r, 2 * h + 1 - k) = b
             \/ /\ Seat(2 * h, r, k) = b
                /\ Seat(2 * h, r, 2 * h + 1 - k) = a
<1> DEFINE P == 2 * h
           at(r, p) == p \in 1..P
<1>1. ASSUME NEW r \in 1..(P - 1), NEW p \in 1..P, NEW q \in 1..P,
             p + q = P + 1, Seat(P, r, p) = a, Seat(P, r, q) = b
      PROVE  \E k \in 1..h :
             \/ Seat(P, r, k) = a /\ Seat(P, r, P + 1 - k) = b
             \/ Seat(P, r, k) = b /\ Seat(P, r, P + 1 - k) = a
  <2>1. CASE p <= h
    <3>1. p \in 1..h /\ P + 1 - p = q
      BY <1>1, <2>1
    <3> HIDE DEF P
    <3> QED
      BY <1>1, <3>1
  <2>2. CASE p > h
    <3>1. q \in 1..h /\ P + 1 - q = p
      BY <1>1, <2>2
    <3> HIDE DEF P
    <3> QED
      BY <1>1, <3>1
  <2> QED
    BY <2>1, <2>2
<1>2. CASE a = 1
  <2>1. PICK r \in 1..(P - 1) : r = P + 1 - b
    BY <1>2
  <2>2. Seat(P, r, 1) = a /\ Seat(P, r, P) = b
    BY <1>2, <2>1 DEF Seat
  <2>3. 1 \in 1..P /\ P \in 1..P /\ 1 + P = P + 1
    OBVIOUS
  <2> HIDE DEF P
  <2> QED
    BY <1>1, <2>2, <2>3 DEF P
<1>3. ASSUME a # 1, NEW r \in 1..(P - 1), NEW p \in 2..P, NEW q \in 2..P,
             p + q = P + 1,
             p = a + r - 1 \/ p = a + r - P,
             q = b + r - 1 \/ q = b + r - P
      PROVE  Seat(P, r, p) = a /\ Seat(P, r, q) = b
  BY <1>3 DEF Seat
<1>4. CASE a # 1 /\ (a + b) % 2 = 0
  <2>1. PICK c \in Int : a + b = 2 * c
    <3>1. a + b = 2 * ((a + b) \div 2)
      BY <1>4
    <3> QED
      BY <3>1
  <2>2. PICK r \in 1..(P - 1) : r = P + 1 - c
    BY <1>4, <2>1
  <2>3. PICK p \in 2..P, q \in 2..P :
          p = a + r - 1 /\ q = b + r - P /\ p + q = P + 1
    BY <1>4, <2>1, <2>2
  <2>4. Seat(P, r, p) = a /\ Seat(P, r, q) = b
    BY <1>3, <1>4, <2>3
  <2>5. p \in 1..P /\ q \in 1..P
    OBVIOUS
  <2> HIDE DEF P
  <2> QED
    BY <1>1, <2>3, <2>4, <2>5 DEF P
<1>5. CASE a # 1 /\ (a + b) % 2 # 0 /\ a + b <= P + 1
  <2>1. PICK c \in Int : a + b = 2 * c + 1
    <3>1. a + b = 2 * ((a + b) \div 2) + 1
      BY <1>5
    <3> QED
      BY <3>1
  <2>2. PICK r \in 1..(P - 1) : r = h + 1 - c
    BY <1>5, <2>1
  <2>3. PICK p \in 2..P, q \in 2..P :
          p = a + r - 1 /\ q = b + r - 1 /\ p + q = P + 1
    BY <1>5, <2>1, <2>2
  <2>4. Seat(P, r, p) = a /\ Seat(P, r, q) = b
    BY <1>3, <1>5, <2>3
  <2>5. p \in 1..P /\ q \in 1..P
    OBVIOUS
  <2> HIDE DEF P
  <2> QED
    BY <1>1, <2>3, <2>4, <2>5 DEF P
<1>6. CASE a # 1 /\ (a + b) % 2 # 0 /\ a + b > P + 1
  <2>1. PICK c \in Int : a + b = 2 * c + 1
    <3>1. a + b = 2 * ((a + b) \div 2) + 1
      BY <1>6
    <3> QED
      BY <3>1
  <2>2. PICK r \in 1..(P - 1) : r = 3 * h - c
    BY <1>6, <2>1
  <2>3. PICK p \in 2..P, q \in 2..P :
          p = a + r - P /\ q = b + r - P /\ p + q = P + 1
    BY <1>6, <2>1, <2>2
  <2>4. Seat(P, r, p) = a /\ Seat(P, r, q) = b
    BY <1>3, <1>6, <2>3
  <2>5. p \in 1..P /\ q \in 1..P
    OBVIOUS
  <2> HIDE DEF P
  <2> QED
    BY <1>1, <2>3, <2>4, <2>5 DEF P
<1> QED
  BY <1>2, <1>4, <1>5, <1>6

\* ... and in no other.
LEMMA NeverAgain ==
    ASSUME NEW h \in Nat, h >= 1,
           NEW r \in 1..(2 * h - 1), NEW k \in 1..h,
           NEW q \in 1..(2 * h - 1), NEW l \in 1..h,
           \/ /\ Seat(2 * h, r, k) = Seat(2 * h, q, l)
              /\ Seat(2 * h, r, 2 * h + 1 - k)
                   = Seat(2 * h, q, 2 * h + 1 - l)
           \/ /\ Seat(2 * h, r, k) = Seat(2 * h, q, 2 * h + 1 - l)
              /\ Seat(2 * h, r, 2 * h + 1 - k) = Seat(2 * h, q, l)
    PROVE  r = q /\ k = l
<1> DEFINE P == 2 * h
<1>1. PICK x \in Int, y \in Int, u \in Int, v \in Int :
        /\ x = Seat(P, r, k) /\ y = Seat(P, r, P + 1 - k)
        /\ u = Seat(P, q, l) /\ v = Seat(P, q, P + 1 - l)
  <2>1. /\ P \in Nat /\ P >= 2 /\ k \in 1..P /\ P + 1 - k \in 1..P
        /\ l \in 1..P /\ P + 1 - l \in 1..P
        /\ r \in 1..(P - 1) /\ q \in 1..(P - 1)
    OBVIOUS
  <2> HIDE DEF P
  <2>2. /\ Seat(P, r, k) \in 1..P /\ Seat(P, r, P + 1 - k) \in 1..P
        /\ Seat(P, q, l) \in 1..P /\ Seat(P, q, P + 1 - l) \in 1..P
    BY <2>1, Seats
  <2> QED
    BY <2>1, <2>2
<1>2. (x = u /\ y = v) \/ (x = v /\ y = u)
  BY <1>1
<1>3. /\ k = 1 => x = 1 /\ y = P + 1 - r
      /\ k # 1 /\ k > r => x = k + 1 - r
      /\ k # 1 /\ ~(k > r) => x = k + P - r
      /\ k # 1 /\ P + 1 - k > r => y = P + 2 - k - r
      /\ k # 1 /\ ~(P + 1 - k > r) => y = 2 * P + 1 - k - r
  BY <1>1 DEF Seat
<1>4. /\ l = 1 => u = 1 /\ v = P + 1 - q
      /\ l # 1 /\ l > q => u = l + 1 - q
      /\ l # 1 /\ ~(l > q) => u = l + P - q
      /\ l # 1 /\ P + 1 - l > q => v = P + 2 - l - q
      /\ l # 1 /\ ~(P + 1 - l > q) => v = 2 * P + 1 - l - q
  BY <1>1 DEF Seat
<1> QED
  BY <1>2, <1>3, <1>4

\* The teams sit down in order, and in each round everybody but the first
\* moves by one place.
LEMMA CircleTurns ==
    ASSUME NEW n \in Nat, n >= 2
    PROVE  \A r \in 1..(Participants(n) - 1) :
             Circle(n)[r] = [p \in 1..Participants(n) |->
               IF Seat(Participants(n), r, p) <= n
               THEN Seat(Participants(n), r, p) ELSE 0]
<1> DEFINE P == Participants(n)
           Turns(f) == f = [r \in 1..(P - 1) |->
                              IF r = 1
                              THEN [p \in 1..P |-> IF p <= n THEN p ELSE 0]
                              ELSE Turned(f[r - 1])]
           w == [r \in 1..(P - 1) |->
                   [p \in 1..P |-> IF Seat(P, r, p) <= n
                                   THEN Seat(P, r, p) ELSE 0]]
<1>1. P \in Nat /\ P >= 2
  BY DEF Participants
<1>2. ASSUME NEW r \in 1..(P - 1), r + 1 \in 1..(P - 1)
      PROVE  w[r + 1] = Turned(w[r])
  <2>1. PICK c : c = w[r]
    OBVIOUS
  <2>2. c = [p \in 1..P |-> IF Seat(P, r, p) <= n
                            THEN Seat(P, r, p) ELSE 0]
    BY <2>1
  <2>3. Len(c) = P
    <3>1. c \in [1..P -> Nat]
      <4>1. \A p \in 1..P : Seat(P, r, p) \in Nat
        BY <1>1, Seats
      <4> HIDE DEF P
      <4> QED
        BY <2>2, <4>1
    <3> HIDE DEF P
    <3> QED
      BY <1>1, <3>1
  <2>4. Turned(c) = [p \in 1..P |-> c[IF p = 1 THEN 1
                                      ELSE IF p = 2 THEN P ELSE p - 1]]
    BY <2>3 DEF Turned
  <2>5. ASSUME NEW p \in 1..P
        PROVE  c[IF p = 1 THEN 1 ELSE IF p = 2 THEN P ELSE p - 1]
                 = IF Seat(P, r + 1, p) <= n THEN Seat(P, r + 1, p) ELSE 0
    <3>1. PICK q : q = IF p = 1 THEN 1 ELSE IF p = 2 THEN P ELSE p - 1
      OBVIOUS
    <3>2. q \in 1..P
      BY <1>1, <3>1
    <3>3. Seat(P, r + 1, p) = Seat(P, r, q)
      BY <1>1, <1>2, <3>1, Seats
    <3> HIDE DEF P
    <3> QED
      BY <2>2, <3>1, <3>2, <3>3
  <2>6. w[r + 1] = [p \in 1..P |-> IF Seat(P, r + 1, p) <= n
                                   THEN Seat(P, r + 1, p) ELSE 0]
    BY <1>2
  <2> HIDE DEF P, w
  <2> QED
    BY <2>1, <2>4, <2>5, <2>6
<1>3. w[1] = [p \in 1..P |-> IF p <= n THEN p ELSE 0]
  <2>1. 1 \in 1..(P - 1) /\ \A p \in 1..P : Seat(P, 1, p) = p
    BY <1>1, Seats
  <2> HIDE DEF P
  <2> QED
    BY <2>1
<1>4. Turns(w)
  <2>1. ASSUME NEW r \in 1..(P - 1)
        PROVE  w[r] = IF r = 1
                      THEN [p \in 1..P |-> IF p <= n THEN p ELSE 0]
                      ELSE Turned(w[r - 1])
    <3>1. CASE r = 1
      BY <1>3, <3>1
    <3>2. CASE r # 1
      <4>1. r - 1 \in 1..(P - 1) /\ (r - 1) + 1 = r
        BY <1>1, <3>2
      <4> HIDE DEF w, P
      <4> QED
        BY <1>2, <3>2, <4>1
    <3> QED
      BY <3>1, <3>2
  <2>2. w = [r \in 1..(P - 1) |-> w[r]]
    OBVIOUS
  <2> HIDE DEF w, P
  <2> QED
    BY <2>1, <2>2
<1>5. Circle(n) = CHOOSE f : Turns(f)
  BY DEF Circle
<1>6. Turns(Circle(n))
  <2> HIDE DEF Turns, w, P
  <2> QED
    BY <1>4, <1>5, Zenon
<1>7. PICK f : f = Circle(n)
  OBVIOUS
<1>8. \A r \in 1..(P - 1) :
        f[r] = IF r = 1 THEN [p \in 1..P |-> IF p <= n THEN p ELSE 0]
               ELSE Turned(f[r - 1])
  BY <1>6, <1>7
<1>9. \A r \in 1..(P - 1) : f[r] = w[r]
  <2> DEFINE bad == {r \in 1..(P - 1) : f[r] # w[r]}
  <2> HIDE DEF w, P, Turns
  <2> SUFFICES ASSUME bad # {} PROVE FALSE
    OBVIOUS
  <2>1. bad \in SUBSET Nat
    BY <1>1
  <2>2. PICK r \in bad : \A q \in bad : r <= q
    BY <2>1, LeastNumber
  <2>3. r # 1
    BY <1>3, <1>8, <2>2
  <2>4. r - 1 \in 1..(P - 1) /\ (r - 1) + 1 = r /\ r \in 1..(P - 1)
    BY <1>1, <2>2, <2>3
  <2>5. f[r - 1] = w[r - 1]
    <3>1. ~(r <= r - 1)
      BY <2>4
    <3> QED
      BY <2>2, <2>4, <3>1
  <2>6. f[r] = Turned(f[r - 1])
    BY <1>8, <2>3, <2>4
  <2>7. w[r] = Turned(w[r - 1])
    BY <1>2, <2>4
  <2> QED
    BY <2>2, <2>5, <2>6, <2>7
<1> QED
  BY <1>7, <1>9

-----------------------------------------------------------------------------
(* Lists without repetition.                                                 *)

\* L has the elements of S, each once.
Enumerates(L, S) ==
  /\ L \in Seq(S)
  /\ \A i, j \in 1..Len(L) : L[i] = L[j] => i = j
  /\ \A x \in S : \E i \in 1..Len(L) : L[i] = x

\* The empty list has no elements.
LEMMA EnumeratesNothing == Enumerates(<<>>, {})
<1>1. <<>> \in Seq({}) /\ Len(<<>>) = 0
  BY EmptySeq
<1> QED
  BY <1>1 DEF Enumerates

\* A new element may be appended.
LEMMA EnumeratesMore ==
    ASSUME NEW L, NEW S, Enumerates(L, S), NEW x, x \notin S
    PROVE  Enumerates(Append(L, x), S \cup {x})
<1>1. PICK M : M = Append(L, x)
  OBVIOUS
<1>2. L \in Seq(S) /\ L \in Seq(S \cup {x}) /\ Len(L) \in Nat
      /\ \A i \in 1..Len(L) : L[i] \in S
  BY DEF Enumerates
<1>3. /\ M \in Seq(S \cup {x}) /\ Len(M) = Len(L) + 1
      /\ M[Len(L) + 1] = x
      /\ \A i \in 1..Len(L) : M[i] = L[i]
  BY <1>1, <1>2, AppendProperties
<1>4. ASSUME NEW i \in 1..Len(M), NEW j \in 1..Len(M), M[i] = M[j]
      PROVE  i = j
  <2>1. CASE i \in 1..Len(L) /\ j \in 1..Len(L)
    BY <1>3, <1>4, <2>1 DEF Enumerates
  <2>2. CASE i = Len(L) + 1 /\ j = Len(L) + 1
    BY <2>2
  <2>3. CASE i = Len(L) + 1 /\ j \in 1..Len(L)
    BY <1>2, <1>3, <1>4, <2>3
  <2>4. CASE j = Len(L) + 1 /\ i \in 1..Len(L)
    BY <1>2, <1>3, <1>4, <2>4
  <2> QED
    BY <1>2, <1>3, <2>1, <2>2, <2>3, <2>4
<1>5. ASSUME NEW y \in S \cup {x} PROVE \E i \in 1..Len(M) : M[i] = y
  <2>1. CASE y = x
    BY <1>2, <1>3, <2>1
  <2>2. CASE y \in S
    <3>1. PICK i \in 1..Len(L) : L[i] = y
      BY <2>2 DEF Enumerates
    <3>2. i \in 1..Len(M)
      BY <1>2, <1>3
    <3> QED
      BY <1>3, <3>1, <3>2
  <2> QED
    BY <2>1, <2>2
<1> QED
  BY <1>1, <1>3, <1>4, <1>5 DEF Enumerates

\* Two lists that have nothing in common make one.
LEMMA EnumeratesBoth ==
    ASSUME NEW L, NEW S, Enumerates(L, S), NEW M, NEW T, Enumerates(M, T),
           S \cap T = {}
    PROVE  Enumerates(L \o M, S \cup T)
<1>1. PICK N : N = L \o M
  OBVIOUS
<1>2. /\ L \in Seq(S \cup T) /\ Len(L) \in Nat /\ M \in Seq(S \cup T)
      /\ Len(M) \in Nat
      /\ \A i \in 1..Len(L) : L[i] \in S
      /\ \A i \in 1..Len(M) : M[i] \in T
  BY DEF Enumerates
<1>3. /\ N \in Seq(S \cup T) /\ Len(N) = Len(L) + Len(M)
      /\ \A i \in 1..(Len(L) + Len(M)) :
           N[i] = IF i <= Len(L) THEN L[i] ELSE M[i - Len(L)]
  BY <1>1, <1>2, ConcatProperties
<1>4. ASSUME NEW i \in 1..Len(N)
      PROVE  /\ i <= Len(L) => i \in 1..Len(L) /\ N[i] = L[i] /\ N[i] \in S
             /\ ~(i <= Len(L)) => /\ i - Len(L) \in 1..Len(M)
                                  /\ N[i] = M[i - Len(L)] /\ N[i] \in T
  <2>1. CASE i <= Len(L)
    <3>1. i \in 1..Len(L)
      BY <1>2, <1>3, <2>1
    <3> QED
      BY <1>2, <1>3, <2>1, <3>1
  <2>2. CASE ~(i <= Len(L))
    <3>1. i - Len(L) \in 1..Len(M)
      BY <1>2, <1>3, <2>2
    <3> QED
      BY <1>2, <1>3, <2>2, <3>1
  <2> QED
    BY <2>1, <2>2
<1>5. ASSUME NEW i \in 1..Len(N), NEW j \in 1..Len(N), N[i] = N[j]
      PROVE  i = j
  <2>1. CASE i <= Len(L) /\ j <= Len(L)
    BY <1>4, <1>5, <2>1 DEF Enumerates
  <2>2. CASE ~(i <= Len(L)) /\ ~(j <= Len(L))
    <3>1. i - Len(L) = j - Len(L)
      BY <1>4, <1>5, <2>2 DEF Enumerates
    <3> QED
      BY <1>2, <1>3, <3>1
  <2>3. CASE ~(i <= Len(L) <=> j <= Len(L))
    BY <1>4, <1>5, <2>3
  <2> QED
    BY <2>1, <2>2, <2>3
<1>6. ASSUME NEW y \in S \cup T PROVE \E i \in 1..Len(N) : N[i] = y
  <2>1. CASE y \in S
    <3>1. PICK i \in 1..Len(L) : L[i] = y
      BY <2>1 DEF Enumerates
    <3>2. i \in 1..Len(N) /\ i <= Len(L)
      BY <1>2, <1>3
    <3> QED
      BY <1>3, <3>1, <3>2
  <2>2. CASE y \in T
    <3>1. PICK i \in 1..Len(M) : M[i] = y
      BY <2>2 DEF Enumerates
    <3>2. /\ Len(L) + i \in 1..Len(N) /\ ~(Len(L) + i <= Len(L))
          /\ (Len(L) + i) - Len(L) = i
      BY <1>2, <1>3
    <3> QED
      BY <1>4, <3>1, <3>2
  <2> QED
    BY <2>1, <2>2
<1> QED
  BY <1>1, <1>3, <1>5, <1>6 DEF Enumerates

-----------------------------------------------------------------------------
(* The matches of a round robin.                                             *)

\* The team at place p in round r, if it is not the BYE.
Who(n, r, p) ==
  IF Seat(Participants(n), r, p) <= n THEN Seat(Participants(n), r, p) ELSE 0

\* One of the k-th pair of round r is the BYE.
Paused(n, r, k) == \E s \in Slots : Opposite(n, r, k).team[s] = 0

\* The matches of the first k pairs of round r.
Met(n, r, k) == {Opposite(n, r, j) : j \in {i \in 1..k : ~Paused(n, r, i)}}

\* Half the places of the circle.
Pairs(n) == Participants(n) \div 2

\* The match of two opposite places is new and between those who sit there; a
\* seat beyond the teams is the BYE.
LEMMA Opponents ==
    ASSUME NEW n \in Nat, n >= 2, NEW r \in 1..(Participants(n) - 1),
           NEW k \in 1..Pairs(n)
    PROVE  /\ Pairs(n) \in Nat /\ Pairs(n) >= 1
           /\ Participants(n) = 2 * Pairs(n)
           /\ n <= Participants(n)
           /\ k \in 1..Participants(n)
           /\ Participants(n) + 1 - k \in 1..Participants(n)
           /\ Opposite(n, r, k) \in Row
           /\ Opposite(n, r, k).round = r /\ Opposite(n, r, k).next = 0
           /\ Opposite(n, r, k).loserNext = 0
           /\ Opposite(n, r, k).status = "scheduled"
           /\ Opposite(n, r, k).winner = 0
           /\ Opposite(n, r, k).team[1] = Who(n, r, k)
           /\ Opposite(n, r, k).team[2]
                = Who(n, r, Participants(n) + 1 - k)
<1>1. PICK P \in Nat : P = Participants(n) /\ P >= 2 /\ n <= P /\ P % 2 = 0
  BY DEF Participants
<1>2. Pairs(n) \in Nat /\ Pairs(n) >= 1 /\ P = 2 * Pairs(n)
  BY <1>1 DEF Pairs
<1>3. k \in 1..P /\ P + 1 - k \in 1..P /\ r \in 1..(P - 1)
  BY <1>1, <1>2
<1>4. PICK a, b : a = Who(n, r, k) /\ b = Who(n, r, P + 1 - k)
  OBVIOUS
<1>5. Circle(n)[r] = [p \in 1..P |-> Who(n, r, p)]
  BY <1>1, CircleTurns DEF Who
<1>6. Circle(n)[r][k] = a /\ Circle(n)[r][P + 1 - k] = b
  BY <1>3, <1>4, <1>5
<1>7. a \in Nat /\ b \in Nat
  <2>1. Seat(P, r, k) \in Nat /\ Seat(P, r, P + 1 - k) \in Nat
    BY <1>1, <1>3, Seats
  <2> QED
    BY <1>1, <1>4, <2>1 DEF Who
<1>8. PICK T : T = <<a, b>>
  OBVIOUS
<1>9. T \in [Slots -> Nat] /\ T[1] = a /\ T[2] = b
  BY <1>7, <1>8 DEF Slots
<1>10. Opposite(n, r, k) =
         [round |-> r, team |-> T, status |-> "scheduled", winner |-> 0,
          loser |-> 0, next |-> 0, slot |-> 0, loserNext |-> 0,
          loserSlot |-> 0]
  BY <1>1, <1>6, <1>8 DEF Opposite, NewMatch
<1>11. r \in Nat
  OBVIOUS
<1> QED
  BY <1>1, <1>2, <1>3, <1>4, <1>9, <1>10, <1>11 DEF Row

\* In a round everybody has one place.
LEMMA OpponentsDiffer ==
    ASSUME NEW n \in Nat, n >= 2, NEW r \in 1..(Participants(n) - 1),
           NEW p \in 1..Participants(n), NEW q \in 1..Participants(n),
           Who(n, r, p) = Who(n, r, q), Who(n, r, p) # 0
    PROVE  p = q /\ Who(n, r, p) = Seat(Participants(n), r, p)
<1>1. PICK P \in Nat : P = Participants(n) /\ P >= 2
  BY DEF Participants
<1>2. /\ Seat(P, r, p) = Who(n, r, p) /\ Seat(P, r, q) = Who(n, r, q)
  BY <1>1 DEF Who
<1> QED
  BY <1>1, <1>2, Seats

\* RoundRobinRound lists the matches of its round without the pauses.
LEMMA RoundListed ==
    ASSUME NEW n \in Nat, n >= 2, NEW r \in 1..(Participants(n) - 1)
    PROVE  Enumerates(RoundRobinRound(n, r), Met(n, r, Pairs(n)))
<1> DEFINE X == {Opposite(n, r, k) : k \in Nat}
           Lists(f) == f = [k \in Nat |->
                         IF k = 0 THEN <<>>
                         ELSE IF \E s \in Slots : Opposite(n, r, k).team[s] = 0
                         THEN f[k - 1]
                         ELSE Append(f[k - 1], Opposite(n, r, k))]
<1>1. \E f : Lists(f)
  <2> DEFINE S == Seq(X)
             step(k, l) == IF Paused(n, r, k) THEN l
                           ELSE Append(l, Opposite(n, r, k))
             g == [p \in Nat \X S |-> step(p[1] + 1, p[2])]
  <2>1. Recurs(S, <<>>, g)
    <3>1. ASSUME NEW k \in Nat, NEW l \in S PROVE step(k + 1, l) \in S
      <4>1. Opposite(n, r, k + 1) \in X
        OBVIOUS
      <4> HIDE DEF X
      <4> QED
        BY <4>1, AppendProperties
    <3>2. <<>> \in S
      BY EmptySeq
    <3>3. g \in [Nat \X S -> S]
      <4> HIDE DEF S, step
      <4>1. \A p \in Nat \X S : p[1] \in Nat /\ p[2] \in S
        OBVIOUS
      <4> QED
        BY <3>1, <4>1
    <3> HIDE DEF S, g
    <3> QED
      BY <3>2, <3>3 DEF Recurs
  <2>2. PICK f \in [Nat -> S] :
          f[0] = <<>> /\ \A k \in Nat : f[k + 1] = g[<<k, f[k]>>]
    <3> HIDE DEF S, g
    <3> QED
      BY <2>1, Recursion
  <2>3. ASSUME NEW k \in Nat
        PROVE  f[k] = IF k = 0 THEN <<>>
                      ELSE IF Paused(n, r, k) THEN f[k - 1]
                      ELSE Append(f[k - 1], Opposite(n, r, k))
    <3>1. CASE k = 0
      BY <2>2, <3>1
    <3>2. CASE k # 0
      <4>1. k - 1 \in Nat /\ (k - 1) + 1 = k
        BY <3>2
      <4>2. f[k] = g[<<k - 1, f[k - 1]>>]
        BY <2>2, <4>1
      <4>3. g[<<k - 1, f[k - 1]>>] = step((k - 1) + 1, f[k - 1])
        <5>1. f[k - 1] \in S
          BY <2>2, <4>1
        <5> HIDE DEF S, step
        <5> QED
          BY <4>1, <5>1
      <4> HIDE DEF g
      <4> QED
        BY <3>2, <4>1, <4>2, <4>3
    <3> QED
      BY <3>1, <3>2
  <2>4. f = [k \in Nat |-> f[k]]
    BY <2>2
  <2>5. Lists(f)
    BY <2>3, <2>4 DEF Paused
  <2> QED
    BY <2>5
<1>2. PICK f : f = CHOOSE l : Lists(l)
  OBVIOUS
<1>3. RoundRobinRound(n, r) = f[Pairs(n)]
  BY <1>2 DEF RoundRobinRound, Pairs
<1>4. Lists(f)
  <2> HIDE DEF Lists
  <2> QED
    BY <1>1, <1>2, Zenon
<1>5. /\ f[0] = <<>>
      /\ \A k \in Nat : k # 0 =>
           f[k] = IF Paused(n, r, k) THEN f[k - 1]
                  ELSE Append(f[k - 1], Opposite(n, r, k))
  BY <1>4 DEF Paused
<1>6. Met(n, r, 0) = {}
  BY DEF Met
<1>7. ASSUME NEW k \in Nat
      PROVE  Met(n, r, k + 1) = IF Paused(n, r, k + 1) THEN Met(n, r, k)
                                ELSE Met(n, r, k) \cup {Opposite(n, r, k + 1)}
  <2>1. 1..(k + 1) = 1..k \cup {k + 1}
    OBVIOUS
  <2> QED
    BY <2>1 DEF Met
<1>8. ASSUME NEW k \in Nat, k + 1 \in 1..Pairs(n), ~Paused(n, r, k + 1)
      PROVE  Opposite(n, r, k + 1) \notin Met(n, r, k)
  <2> SUFFICES ASSUME NEW j \in 1..k, ~Paused(n, r, j),
                      Opposite(n, r, j) = Opposite(n, r, k + 1)
               PROVE  FALSE
    BY DEF Met
  <2>1. j \in 1..Pairs(n) /\ j # k + 1
    <3>1. Pairs(n) \in Nat
      BY DEF Pairs, Participants
    <3> QED
      BY <1>8, <3>1
  <2>2. /\ Opposite(n, r, j).team[1] = Who(n, r, j)
        /\ j \in 1..Participants(n)
    BY <2>1, Opponents
  <2>3. /\ Opposite(n, r, k + 1).team[1] = Who(n, r, k + 1)
        /\ k + 1 \in 1..Participants(n)
    BY <1>8, Opponents
  <2>4. Who(n, r, j) = Who(n, r, k + 1) /\ Who(n, r, j) # 0
    <3>1. Opposite(n, r, j).team[1] # 0
      BY DEF Paused, Slots
    <3> QED
      BY <2>2, <2>3, <3>1
  <2> QED
    BY <2>1, <2>2, <2>3, <2>4, OpponentsDiffer
<1>9. ASSUME NEW k \in Nat, k <= Pairs(n)
      PROVE  Enumerates(f[k], Met(n, r, k))
  <2> DEFINE bad == {i \in Nat : i <= Pairs(n)
                                  /\ ~Enumerates(f[i], Met(n, r, i))}
  <2> SUFFICES ASSUME bad # {} PROVE FALSE
    BY <1>9
  <2>1. PICK i \in bad : \A j \in bad : i <= j
    BY LeastNumber
  <2>2. i # 0
    BY <1>5, <1>6, <2>1, EnumeratesNothing
  <2>3. Pairs(n) \in Nat
    BY DEF Pairs, Participants
  <2>4. PICK j \in Nat : i = j + 1
    <3>1. i - 1 \in Nat /\ i = (i - 1) + 1
      BY <2>1, <2>2
    <3> QED
      BY <3>1
  <2>5. j \notin bad /\ j <= Pairs(n) /\ j + 1 \in 1..Pairs(n)
        /\ (j + 1) - 1 = j /\ j + 1 \in Nat /\ j + 1 # 0
    BY <2>1, <2>3, <2>4
  <2>6. Enumerates(f[j], Met(n, r, j))
    BY <2>5
  <2>7. f[j + 1] = IF Paused(n, r, j + 1) THEN f[j]
                   ELSE Append(f[j], Opposite(n, r, j + 1))
    BY <1>5, <2>5
  <2>8. Enumerates(f[j + 1], Met(n, r, j + 1))
    <3>1. CASE Paused(n, r, j + 1)
      BY <1>7, <2>6, <2>7, <3>1
    <3>2. CASE ~Paused(n, r, j + 1)
      <4>1. Opposite(n, r, j + 1) \notin Met(n, r, j)
        BY <1>8, <2>5, <3>2
      <4>2. Enumerates(Append(f[j], Opposite(n, r, j + 1)),
                       Met(n, r, j) \cup {Opposite(n, r, j + 1)})
        BY <2>6, <4>1, EnumeratesMore
      <4> QED
        BY <1>7, <2>7, <3>2, <4>2
    <3> QED
      BY <3>1, <3>2
  <2> QED
    BY <2>1, <2>4, <2>8
<1>10. Pairs(n) \in Nat /\ Pairs(n) <= Pairs(n)
  BY DEF Pairs, Participants
<1> QED
  BY <1>3, <1>9, <1>10

\* The elements of the first R sets.
Together(T, R) == UNION {T[r] : r \in 1..R}

\* Lists that have nothing in common make one list.
LEMMA Flattened ==
    ASSUME NEW R \in Nat, R >= 1, NEW ss, NEW T, NEW X,
           ss \in [1..R -> Seq(X)],
           \A r \in 1..R : Enumerates(ss[r], T[r]),
           \A r, q \in 1..R : r # q => T[r] \cap T[q] = {}
    PROVE  Enumerates(FlattenSeq(ss), Together(T, R))
<1> DEFINE Flat(f) == f = [i \in 1..R |-> IF i = 1 THEN ss[i]
                                          ELSE f[i - 1] \o ss[i]]
           First(k) == Together(T, k)
<1>1. \E f : Flat(f)
  <2> DEFINE S == Seq(X)
             step(k, l) == IF k <= R THEN l \o ss[k] ELSE l
             g == [p \in Nat \X S |-> step(p[1] + 1, p[2])]
  <2>1. Recurs(S, <<>>, g)
    <3>1. ASSUME NEW k \in Nat, NEW l \in S PROVE step(k + 1, l) \in S
      <4>1. CASE k + 1 <= R
        <5>1. ss[k + 1] \in Seq(X)
          BY <4>1
        <5> QED
          BY <4>1, <5>1, ConcatProperties
      <4>2. CASE ~(k + 1 <= R)
        BY <4>2
      <4> QED
        BY <4>1, <4>2
    <3>2. <<>> \in S
      BY EmptySeq
    <3>3. g \in [Nat \X S -> S]
      <4> HIDE DEF S, step
      <4>1. \A p \in Nat \X S : p[1] \in Nat /\ p[2] \in S
        OBVIOUS
      <4> QED
        BY <3>1, <4>1
    <3> HIDE DEF S, g
    <3> QED
      BY <3>2, <3>3 DEF Recurs
  <2>2. PICK f \in [Nat -> S] :
          f[0] = <<>> /\ \A k \in Nat : f[k + 1] = g[<<k, f[k]>>]
    <3> HIDE DEF S, g
    <3> QED
      BY <2>1, Recursion
  <2> DEFINE e == [i \in 1..R |-> f[i]]
  <2>3. ASSUME NEW i \in 1..R
        PROVE  f[i] = IF i = 1 THEN ss[i] ELSE f[i - 1] \o ss[i]
    <3>1. i - 1 \in Nat /\ (i - 1) + 1 = i /\ i <= R
      OBVIOUS
    <3>2. f[i] = g[<<i - 1, f[i - 1]>>]
      BY <2>2, <3>1
    <3>3. g[<<i - 1, f[i - 1]>>] = step((i - 1) + 1, f[i - 1])
      <4>1. f[i - 1] \in S
        BY <2>2, <3>1
      <4> HIDE DEF S, step
      <4> QED
        BY <3>1, <4>1
    <3>4. f[i] = f[i - 1] \o ss[i]
      <4> HIDE DEF g
      <4> QED
        BY <3>1, <3>2, <3>3
    <3>5. CASE i = 1
      <4>1. f[i - 1] = <<>>
        BY <2>2, <3>5
      <4>2. <<>> \o ss[i] = ss[i]
        BY ConcatEmptySeq
      <4> QED
        BY <3>4, <3>5, <4>1, <4>2
    <3>6. CASE i # 1
      BY <3>4, <3>6
    <3> QED
      BY <3>5, <3>6
  <2>4. ASSUME NEW i \in 1..R
        PROVE  e[i] = IF i = 1 THEN ss[i] ELSE e[i - 1] \o ss[i]
    <3>1. i # 1 => i - 1 \in 1..R
      OBVIOUS
    <3>2. e[i] = f[i] /\ (i # 1 => e[i - 1] = f[i - 1])
      BY <3>1
    <3> QED
      BY <2>3, <3>2
  <2>5. e = [i \in 1..R |-> e[i]]
    OBVIOUS
  <2> HIDE DEF e
  <2>6. Flat(e)
    BY <2>4, <2>5
  <2> QED
    BY <2>6
<1>2. PICK f : f = CHOOSE h : Flat(h)
  OBVIOUS
<1>3. Len(ss) = R
  <2>1. ss \in Seq(Seq(X))
    OBVIOUS
  <2> QED
    BY <2>1
<1>4. FlattenSeq(ss) = f[R]
  BY <1>2, <1>3 DEF FlattenSeq
<1>5. Flat(f)
  <2> HIDE DEF Flat
  <2> QED
    BY <1>1, <1>2, Zenon
<1>6. /\ f[1] = ss[1]
      /\ \A i \in 1..R : i # 1 => f[i] = f[i - 1] \o ss[i]
  <2>1. ASSUME NEW i \in 1..R
        PROVE  f[i] = IF i = 1 THEN ss[i] ELSE f[i - 1] \o ss[i]
    <3>1. PICK h : h = [j \in 1..R |-> IF j = 1 THEN ss[j]
                                       ELSE f[j - 1] \o ss[j]]
      OBVIOUS
    <3>2. f = h
      BY <1>5, <3>1
    <3>3. h[i] = IF i = 1 THEN ss[i] ELSE f[i - 1] \o ss[i]
      BY <3>1, Zenon
    <3> QED
      BY <3>2, <3>3, Zenon
  <2>2. 1 \in 1..R
    OBVIOUS
  <2> HIDE DEF Flat
  <2> QED
    BY <2>1, <2>2
<1>7. ASSUME NEW k \in 1..R PROVE Enumerates(f[k], First(k))
  <2> DEFINE bad == {i \in 1..R : ~Enumerates(f[i], First(i))}
  <2> SUFFICES ASSUME bad # {} PROVE FALSE
    OBVIOUS
  <2>1. bad \in SUBSET Nat
    OBVIOUS
  <2>2. PICK i \in bad : \A j \in bad : i <= j
    <3> HIDE DEF bad
    <3> QED
      BY <2>1, LeastNumber
  <2>3. CASE i = 1
    <3>1. First(1) = T[1] /\ 1 \in 1..R
      <4>1. 1..1 = {1}
        OBVIOUS
      <4> QED
        BY <4>1 DEF Together
    <3> HIDE DEF First
    <3> QED
      BY <1>6, <2>2, <2>3, <3>1
  <2>4. CASE i # 1
    <3>1. PICK j \in 1..R : i = j + 1
      <4>1. i - 1 \in 1..R /\ i = (i - 1) + 1
        BY <2>2, <2>4
      <4> QED
        BY <4>1
    <3>2. j + 1 \in 1..R /\ (j + 1) - 1 = j /\ j + 1 # 1 /\ ~(i <= j)
      BY <2>2, <3>1
    <3>3. First(j + 1) = First(j) \cup T[j + 1]
      <4>1. 1..(j + 1) = 1..j \cup {j + 1}
        OBVIOUS
      <4> QED
        BY <4>1 DEF Together
    <3>4. First(j) \cap T[j + 1] = {}
      <4> SUFFICES ASSUME NEW r \in 1..j, NEW x \in T[r], x \in T[j + 1]
                   PROVE  FALSE
        BY DEF Together
      <4>1. r \in 1..R /\ r # j + 1
        OBVIOUS
      <4> QED
        BY <3>2, <4>1
    <3>5. Enumerates(f[j], First(j))
      <4> HIDE DEF First
      <4> QED
        BY <2>2, <3>2
    <3>6. f[j + 1] = f[j] \o ss[j + 1]
      BY <1>6, <3>2
    <3> HIDE DEF First
    <3>7. Enumerates(f[j + 1], First(j + 1))
      <4>1. Enumerates(ss[j + 1], T[j + 1])
        BY <3>2
      <4>2. Enumerates(f[j] \o ss[j + 1], First(j) \cup T[j + 1])
        BY <3>4, <3>5, <4>1, EnumeratesBoth
      <4> QED
        BY <3>3, <3>6, <4>2
    <3> QED
      BY <2>2, <3>1, <3>7
  <2> QED
    BY <2>3, <2>4
<1>8. R \in 1..R
  OBVIOUS
<1> QED
  BY <1>4, <1>7, <1>8

\* The matches of all rounds.
Schedule(n) ==
  UNION {Met(n, r, Pairs(n)) : r \in 1..(Participants(n) - 1)}

\* GenerateRoundRobin lists the matches of all rounds.
LEMMA RoundRobinListed ==
    ASSUME NEW n \in Nat, n >= 2
    PROVE  Enumerates(GenerateRoundRobin(n), Schedule(n))
<1>1. PICK R \in Nat : R = Participants(n) - 1 /\ R >= 1
  BY DEF Participants
<1>2. PICK T : T = [r \in 1..R |-> Met(n, r, Pairs(n))]
  OBVIOUS
<1>3. PICK ss : ss = [r \in 1..R |-> RoundRobinRound(n, r)]
  OBVIOUS
<1>4. PICK X : X = Together(T, R)
  OBVIOUS
<1>5. ASSUME NEW r \in 1..R
      PROVE  Enumerates(ss[r], T[r]) /\ ss[r] \in Seq(X)
  <2>1. Enumerates(ss[r], T[r])
    BY <1>1, <1>2, <1>3, RoundListed
  <2>2. T[r] \subseteq X
    BY <1>4 DEF Together
  <2>3. ss[r] \in Seq(T[r])
    BY <2>1 DEF Enumerates
  <2> QED
    BY <2>1, <2>2, <2>3
<1>6. ASSUME NEW r \in 1..R, NEW q \in 1..R, NEW x \in T[r], x \in T[q]
      PROVE  r = q
  <2>1. PICK k \in 1..Pairs(n) : x = Opposite(n, r, k)
    BY <1>2 DEF Met
  <2>2. PICK l \in 1..Pairs(n) : x = Opposite(n, q, l)
    BY <1>2, <1>6 DEF Met
  <2>3. x.round = r
    BY <1>1, <2>1, Opponents
  <2>4. x.round = q
    BY <1>1, <2>2, Opponents
  <2> QED
    BY <2>3, <2>4
<1>7. \A r, q \in 1..R : r # q => T[r] \cap T[q] = {}
  BY <1>6
<1>8. ss \in [1..R -> Seq(X)]
  BY <1>3, <1>5
<1>9. \A r \in 1..R : Enumerates(ss[r], T[r])
  BY <1>5
<1>10. Enumerates(FlattenSeq(ss), Together(T, R))
  BY <1>1, <1>7, <1>8, <1>9, Flattened
<1>11. Together(T, R) = Schedule(n)
  BY <1>1, <1>2 DEF Schedule, Together
<1>12. FlattenSeq(ss) = GenerateRoundRobin(n)
  BY <1>1, <1>3 DEF GenerateRoundRobin
<1> QED
  BY <1>10, <1>11, <1>12

\* Match m is between t and u, with t in slot s.
Between(ms, m, s, t, u) == ms[m].team[s] = t /\ ms[m].team[3 - s] = u

\* The rows ms are a round robin of n teams.
Robin(n, ms) ==
  /\ ms \in Seq(Row)
  /\ \A m \in DOMAIN ms :
       /\ ms[m].next = 0 /\ ms[m].loserNext = 0
       /\ \A s \in Slots : ms[m].team[s] # 0
  /\ \A t, u \in 1..n : t # u =>
       \E m \in DOMAIN ms : \E s \in Slots : Between(ms, m, s, t, u)
  /\ \A m, k \in DOMAIN ms : \A s, z \in Slots :
       Between(ms, m, s, ms[k].team[z], ms[k].team[3 - z]) => m = k
  /\ \A m, k \in DOMAIN ms : \A s, z \in Slots :
       ms[m].round = ms[k].round /\ ms[m].team[s] = ms[k].team[z] => m = k

\* The match x is the one of the k-th pair of round r, in a circle of P places.
At(n, P, r, k, x) ==
  /\ x = Opposite(n, r, k) /\ x \in Row
  /\ x.round = r /\ x.next = 0 /\ x.loserNext = 0
  /\ x.status = "scheduled" /\ x.winner = 0
  /\ \A s \in Slots : x.team[s] # 0
  /\ x.team[1] = Seat(P, r, k) /\ x.team[2] = Seat(P, r, P + 1 - k)

\* Where the two teams of a scheduled match stand in the circle.
LEMMA Scheduling ==
    ASSUME NEW n \in Nat, n >= 2, NEW x \in Schedule(n)
    PROVE  \E r \in 1..(Participants(n) - 1), k \in 1..Pairs(n) :
             At(n, Participants(n), r, k, x)
<1>1. PICK r \in 1..(Participants(n) - 1) : x \in Met(n, r, Pairs(n))
  BY DEF Schedule
<1>2. PICK k \in 1..Pairs(n) : x = Opposite(n, r, k) /\ ~Paused(n, r, k)
  BY <1>1 DEF Met
<1>3. \A s \in Slots : x.team[s] # 0
  BY <1>2 DEF Paused
<1>4. x.team[1] # 0 /\ x.team[2] # 0
  BY <1>3 DEF Slots
<1>5. x.team[1] = Who(n, r, k) /\ x.team[2] = Who(n, r, Participants(n) + 1 - k)
  BY <1>2, Opponents
<1>6. /\ x.team[1] = Seat(Participants(n), r, k)
      /\ x.team[2] = Seat(Participants(n), r, Participants(n) + 1 - k)
  BY <1>4, <1>5 DEF Who
<1> QED
  BY <1>2, <1>3, <1>6, Opponents DEF At

\* GenerateRoundRobin makes a round robin.
LEMMA RobinGenerated ==
    ASSUME NEW n \in Nat, n >= 2
    PROVE  Robin(n, GenerateRoundRobin(n))
<1>1. PICK ms : ms = GenerateRoundRobin(n)
  OBVIOUS
<1>2. Enumerates(ms, Schedule(n))
  BY <1>1, RoundRobinListed
<1>3. PICK h \in Nat : /\ h = Pairs(n) /\ h >= 1 /\ Participants(n) = 2 * h
                       /\ n <= 2 * h
  BY DEF Participants, Pairs
<1> DEFINE P == 2 * h
<1>4. ASSUME NEW x \in Schedule(n)
      PROVE  \E r \in 1..(P - 1), k \in 1..h : At(n, P, r, k, x)
  BY <1>3, Scheduling
<1>5. /\ ms \in Seq(Schedule(n)) /\ DOMAIN ms = 1..Len(ms)
      /\ \A m \in DOMAIN ms : ms[m] \in Schedule(n)
      /\ \A m, k \in DOMAIN ms : ms[m] = ms[k] => m = k
      /\ \A x \in Schedule(n) : \E m \in DOMAIN ms : ms[m] = x
  <2>1. ms \in Seq(Schedule(n))
    BY <1>2 DEF Enumerates
  <2>2. DOMAIN ms = 1..Len(ms) /\ \A m \in DOMAIN ms : ms[m] \in Schedule(n)
    BY <2>1
  <2> QED
    BY <1>2, <2>1, <2>2 DEF Enumerates
<1>6. ms \in Seq(Row)
  <2>1. Schedule(n) \subseteq Row
    BY <1>4 DEF At
  <2> QED
    BY <1>5, <2>1
<1>7. ASSUME NEW m \in DOMAIN ms
      PROVE  /\ ms[m].next = 0 /\ ms[m].loserNext = 0
             /\ \A s \in Slots : ms[m].team[s] # 0
  BY <1>4, <1>5 DEF At
<1>8. ASSUME NEW t \in 1..n, NEW u \in 1..n, t # u
      PROVE  \E m \in DOMAIN ms : \E s \in Slots : Between(ms, m, s, t, u)
  <2>1. PICK r \in 1..(P - 1), k \in 1..h :
            \/ Seat(P, r, k) = t /\ Seat(P, r, P + 1 - k) = u
            \/ Seat(P, r, k) = u /\ Seat(P, r, P + 1 - k) = t
    <3>1. t \in 1..P /\ u \in 1..P
      BY <1>3
    <3>2. CASE t < u
      BY <1>3, <3>1, <3>2, OppositeOnce
    <3>3. CASE u < t
      BY <1>3, <3>1, <3>3, OppositeOnce
    <3> QED
      BY <1>8, <3>2, <3>3
  <2>2. PICK x : x = Opposite(n, r, k)
    OBVIOUS
  <2>3. /\ x.team[1] = Seat(P, r, k) /\ x.team[2] = Seat(P, r, P + 1 - k)
        /\ x.team[1] # 0 /\ x.team[2] # 0
    <3>1. x.team[1] = Who(n, r, k) /\ x.team[2] = Who(n, r, P + 1 - k)
      BY <1>3, <2>2, Opponents
    <3> QED
      BY <1>3, <2>1, <3>1 DEF Who
  <2>4. ~Paused(n, r, k)
    BY <2>2, <2>3 DEF Paused, Slots
  <2>5. x \in Schedule(n)
    <3>1. x \in Met(n, r, Pairs(n))
      BY <1>3, <2>2, <2>4 DEF Met
    <3> QED
      BY <1>3, <3>1 DEF Schedule
  <2>6. PICK m \in DOMAIN ms : ms[m] = x
    BY <1>5, <2>5
  <2>7. 1 \in Slots /\ 2 \in Slots /\ 3 - 1 = 2 /\ 3 - 2 = 1
    BY DEF Slots
  <2> QED
    BY <2>1, <2>3, <2>6, <2>7 DEF Between
<1>9. ASSUME NEW m \in DOMAIN ms, NEW k \in DOMAIN ms,
             NEW s \in Slots, NEW z \in Slots,
             Between(ms, m, s, ms[k].team[z], ms[k].team[3 - z])
      PROVE  m = k
  <2>1. PICK r \in 1..(P - 1), i \in 1..h :
          /\ ms[m] = Opposite(n, r, i) /\ ms[m].team[1] = Seat(P, r, i)
          /\ ms[m].team[2] = Seat(P, r, P + 1 - i)
    BY <1>4, <1>5 DEF At
  <2>2. PICK q \in 1..(P - 1), l \in 1..h :
          /\ ms[k] = Opposite(n, q, l) /\ ms[k].team[1] = Seat(P, q, l)
          /\ ms[k].team[2] = Seat(P, q, P + 1 - l)
    BY <1>4, <1>5 DEF At
  <2>3. \/ /\ ms[m].team[1] = ms[k].team[1]
           /\ ms[m].team[2] = ms[k].team[2]
        \/ /\ ms[m].team[1] = ms[k].team[2]
           /\ ms[m].team[2] = ms[k].team[1]
    BY <1>9 DEF Between, Slots
  <2>4. r = q /\ i = l
    BY <1>3, <2>1, <2>2, <2>3, NeverAgain
  <2> QED
    BY <1>5, <2>1, <2>2, <2>4
<1>10. ASSUME NEW m \in DOMAIN ms, NEW k \in DOMAIN ms,
              NEW s \in Slots, NEW z \in Slots,
              ms[m].round = ms[k].round, ms[m].team[s] = ms[k].team[z]
       PROVE  m = k
  <2>1. PICK r \in 1..(P - 1), i \in 1..h :
          /\ ms[m] = Opposite(n, r, i) /\ ms[m].team[1] = Seat(P, r, i)
          /\ ms[m].team[2] = Seat(P, r, P + 1 - i) /\ ms[m].round = r
    BY <1>4, <1>5 DEF At
  <2>2. PICK l \in 1..h :
          /\ ms[k] = Opposite(n, r, l) /\ ms[k].team[1] = Seat(P, r, l)
          /\ ms[k].team[2] = Seat(P, r, P + 1 - l)
    <3>1. PICK q \in 1..(P - 1), l \in 1..h : At(n, P, q, l, ms[k])
      BY <1>4, <1>5
    <3> QED
      BY <1>10, <2>1, <3>1 DEF At
  <2>3. PICK p, q \in 1..P :
          /\ p \in {i, P + 1 - i} /\ q \in {l, P + 1 - l}
          /\ Seat(P, r, p) = Seat(P, r, q)
    <3>1. i \in 1..P /\ P + 1 - i \in 1..P /\ l \in 1..P /\ P + 1 - l \in 1..P
      BY <1>3
    <3> QED
      BY <1>10, <2>1, <2>2, <3>1 DEF Slots
  <2>4. p = q
    BY <1>3, <2>3, Seats
  <2>5. i = l
    BY <1>3, <2>3, <2>4
  <2> QED
    BY <1>5, <2>1, <2>2, <2>5
<1> QED
  BY <1>1, <1>6, <1>7, <1>8, <1>9, <1>10 DEF Robin

\* What Robin reads of the rows is kept.
LEMMA SameRobin ==
    ASSUME NEW n, NEW ms, Robin(n, ms), NEW new, new \in Seq(Row),
           DOMAIN new = DOMAIN ms,
           \A m \in DOMAIN ms :
             /\ new[m].team = ms[m].team /\ new[m].round = ms[m].round
             /\ new[m].next = ms[m].next /\ new[m].loserNext = ms[m].loserNext
    PROVE  Robin(n, new)
<1>1. \A m \in DOMAIN new :
        /\ new[m].next = 0 /\ new[m].loserNext = 0
        /\ \A s \in Slots : new[m].team[s] # 0
  BY DEF Robin
<1>2. \A m \in DOMAIN ms : \A s, t, u :
        Between(new, m, s, t, u) <=> Between(ms, m, s, t, u)
  BY DEF Between
<1>3. ASSUME NEW t \in 1..n, NEW u \in 1..n, t # u
      PROVE  \E m \in DOMAIN new : \E s \in Slots : Between(new, m, s, t, u)
  BY <1>2, <1>3 DEF Robin
<1>4. ASSUME NEW m \in DOMAIN new, NEW k \in DOMAIN new,
             NEW s \in Slots, NEW z \in Slots,
             Between(new, m, s, new[k].team[z], new[k].team[3 - z])
      PROVE  m = k
  <2>1. Between(ms, m, s, ms[k].team[z], ms[k].team[3 - z])
    BY <1>2, <1>4
  <2> QED
    BY <2>1 DEF Robin
<1>5. ASSUME NEW m \in DOMAIN new, NEW k \in DOMAIN new,
             NEW s \in Slots, NEW z \in Slots,
             new[m].round = new[k].round, new[m].team[s] = new[k].team[z]
      PROVE  m = k
  <2>1. ms[m].round = ms[k].round /\ ms[m].team[s] = ms[k].team[z]
    BY <1>5
  <2> QED
    BY <2>1 DEF Robin
<1> QED
  BY <1>1, <1>3, <1>4, <1>5 DEF Robin

\* There are no BYEs in a round robin, and nothing leads on.
LEMMA RobinInserted ==
    ASSUME NEW n \in Nat, n >= 2
    PROVE  Robin(n, Linked(WithByes(GenerateRoundRobin(n)), 0))
<1>1. PICK g : g = GenerateRoundRobin(n) /\ Robin(n, g)
  BY RobinGenerated
<1>2. /\ g \in Seq(Row)
      /\ \A m \in DOMAIN g : g[m] \in Row /\ g[m].next = 0
                             /\ g[m].loserNext = 0 /\ ~IsBye(g[m])
  BY <1>1 DEF Robin, IsBye
<1> DEFINE Passed(x) == IF IsBye(x)
                        THEN [x EXCEPT !.status = "completed",
                                       !.winner = ByeWinner(x)]
                        ELSE x
           byes(m, s) == {f \in Feeders(g, m, s) : IsBye(g[f])}
           Placed(m, s) == IF byes(m, s) = {} THEN g[m].team[s]
                           ELSE ByeWinner(g[CHOOSE f \in byes(m, s) : TRUE])
<1>3. PICK w : w = WithByes(g)
  OBVIOUS
<1>4. w = [m \in DOMAIN g |->
             [Passed(g[m]) EXCEPT !.team = [s \in Slots |-> Placed(m, s)]]]
  BY <1>3 DEF WithByes
<1>5. ASSUME NEW m \in DOMAIN g PROVE w[m] = g[m]
  <2>1. ASSUME NEW s \in Slots PROVE Placed(m, s) = g[m].team[s]
    <3>1. byes(m, s) = {}
      BY <1>2 DEF Feeders
    <3> HIDE DEF byes
    <3> QED
      BY <3>1
  <2>2. PICK T : T = [s \in Slots |-> Placed(m, s)]
    OBVIOUS
  <2>3. T = g[m].team
    <3>1. g[m].team \in [Slots -> Nat]
      BY <1>2 DEF Row
    <3>2. T = [s \in Slots |-> g[m].team[s]]
      <4> HIDE DEF Placed
      <4> QED
        BY <2>1, <2>2
    <3> QED
      BY <3>1, <3>2
  <2>4. Passed(g[m]) = g[m]
    BY <1>2
  <2>5. w[m] = [g[m] EXCEPT !.team = T]
    <3> HIDE DEF Placed, Passed
    <3> QED
      BY <1>4, <2>2, <2>4
  <2>6. PICK x : x = g[m] /\ x \in Row
    BY <1>2
  <2>7. x = [x EXCEPT !.team = T]
    BY <2>3, <2>6 DEF Row
  <2> QED
    BY <2>5, <2>6, <2>7
<1>6. PICK l : l = Linked(w, 0)
  OBVIOUS
<1>7. l = [m \in DOMAIN g |->
             [w[m] EXCEPT !.next = IF @ = 0 THEN 0 ELSE 0 + @,
                          !.loserNext = IF @ = 0 THEN 0 ELSE 0 + @]]
  <2>1. DOMAIN w = DOMAIN g
    BY <1>4
  <2> QED
    BY <1>6, <2>1 DEF Linked
<1>8. ASSUME NEW m \in DOMAIN g PROVE l[m] = g[m]
  <2>1. PICK x : x = w[m] /\ x \in Row /\ x.next = 0 /\ x.loserNext = 0
                 /\ x = g[m]
    BY <1>2, <1>5
  <2>2. PICK a, b : /\ a = IF x.next = 0 THEN 0 ELSE 0 + x.next
                    /\ b = IF x.loserNext = 0 THEN 0 ELSE 0 + x.loserNext
    OBVIOUS
  <2>3. a = x.next /\ b = x.loserNext
    BY <2>1, <2>2
  <2>4. x = [x EXCEPT !.next = a, !.loserNext = b]
    BY <2>1, <2>3 DEF Row
  <2> QED
    BY <1>7, <2>1, <2>2, <2>4
<1>9. l = g
  <2>1. l = [m \in DOMAIN g |-> l[m]]
    BY <1>7
  <2>2. g = [m \in DOMAIN g |-> g[m]]
    BY <1>2
  <2>3. [m \in DOMAIN g |-> l[m]] = [m \in DOMAIN g |-> g[m]]
    BY <1>8
  <2> QED
    BY <2>1, <2>2, <2>3
<1> QED
  BY <1>1, <1>3, <1>6, <1>9

\* Completing a match of a round robin.
LEMMA PlayedKeepsRobin ==
    ASSUME NEW n, NEW ms, Robin(n, ms), NEW m \in DOMAIN ms, NEW s \in Slots,
           NEW new,
           new = [ms EXCEPT ![m].status = "completed",
                            ![m].winner = ms[m].team[s],
                            ![m].loser  = ms[m].team[3 - s]]
    PROVE  Robin(n, new)
<1>1. ms \in Seq(Row) /\ DOMAIN ms = 1..Len(ms) /\ Len(ms) \in Nat
  BY DEF Robin
<1>2. 3 - s \in Slots
  BY DEF Slots
<1>3. PICK a, b : a = ms[m].team[s] /\ b = ms[m].team[3 - s]
  OBVIOUS
<1>4. PICK x : x = ms[m] /\ x \in Row
  BY <1>1
<1>5. a \in Nat /\ b \in Nat
  BY <1>2, <1>3, <1>4 DEF Row
<1>6. PICK y : y = [x EXCEPT !.status = "completed", !.winner = a,
                             !.loser = b]
  OBVIOUS
<1>7. new = [ms EXCEPT ![m] = y]
  BY <1>1, <1>3, <1>4, <1>6
<1>8. y = [round |-> x.round, team |-> x.team, status |-> "completed",
           winner |-> a, loser |-> b, next |-> x.next, slot |-> x.slot,
           loserNext |-> x.loserNext, loserSlot |-> x.loserSlot]
  <2>1. x = [round |-> x.round, team |-> x.team, status |-> x.status,
             winner |-> x.winner, loser |-> x.loser, next |-> x.next,
             slot |-> x.slot, loserNext |-> x.loserNext,
             loserSlot |-> x.loserSlot]
    BY <1>4 DEF Row
  <2> QED
    BY <1>6, <2>1
<1>9. y \in Row
  BY <1>4, <1>5, <1>8 DEF Row
<1>10. /\ new \in Seq(Row)
       /\ new[m] = y /\ \A k \in DOMAIN ms : k # m => new[k] = ms[k]
  <2>1. PICK S : S = Row
    OBVIOUS
  <2>2. ms \in Seq(S) /\ m \in 1..Len(ms) /\ y \in S
    BY <1>1, <1>9, <2>1
  <2>3. /\ [ms EXCEPT ![m] = y] \in Seq(S)
        /\ \A k \in 1..Len(ms) :
             [ms EXCEPT ![m] = y][k] = IF k = m THEN y ELSE ms[k]
    BY <2>2, ExceptSeq
  <2> QED
    BY <1>1, <1>7, <2>1, <2>2, <2>3
<1>11. new \in Seq(Row) /\ DOMAIN new = DOMAIN ms
  BY <1>7, <1>10
<1>12. \A k \in DOMAIN ms :
         /\ new[k].team = ms[k].team /\ new[k].round = ms[k].round
         /\ new[k].next = ms[k].next /\ new[k].loserNext = ms[k].loserNext
  BY <1>4, <1>8, <1>10
<1> QED
  BY <1>11, <1>12, SameRobin

\* Nobody is advanced in a round robin.
LEMMA RobinLeadsNowhere ==
    ASSUME NEW n, Robin(n, matches), NEW m \in DOMAIN matches
    PROVE  Advanced(m) = matches
BY DEF Robin, Advanced, Slotted

\* What Robin says in the words of the property.
MeetOnce(n, ms) ==
  LET Pair(m) == {ms[m].team[s] : s \in Slots}
  IN  /\ \A t, u \in 1..n : t # u =>
           Cardinality({m \in DOMAIN ms : Pair(m) = {t, u}}) = 1
      /\ \A m, k \in DOMAIN ms :
           m # k /\ ms[m].round = ms[k].round => Pair(m) \cap Pair(k) = {}

\* A round robin has the property.
LEMMA RobinMeetOnce ==
    ASSUME NEW n \in Nat, NEW ms, Robin(n, ms)
    PROVE  MeetOnce(n, ms)
<1> DEFINE Pair(m) == {ms[m].team[s] : s \in Slots}
<1>1. ASSUME NEW m \in DOMAIN ms, NEW t, NEW u, t # u, Pair(m) = {t, u}
      PROVE  \E s \in Slots : Between(ms, m, s, t, u)
  <2>1. {ms[m].team[1], ms[m].team[2]} = {t, u}
    BY <1>1 DEF Slots
  <2>2. \/ ms[m].team[1] = t /\ ms[m].team[2] = u
        \/ ms[m].team[1] = u /\ ms[m].team[2] = t
    BY <1>1, <2>1
  <2>3. 1 \in Slots /\ 2 \in Slots /\ 3 - 1 = 2 /\ 3 - 2 = 1
    BY DEF Slots
  <2> QED
    BY <2>2, <2>3 DEF Between
<1>2. ASSUME NEW m \in DOMAIN ms, NEW t, NEW u, NEW s \in Slots,
             Between(ms, m, s, t, u)
      PROVE  Pair(m) = {t, u}
  <2>1. {ms[m].team[1], ms[m].team[2]} = {t, u}
    BY <1>2 DEF Between, Slots
  <2> QED
    BY <2>1 DEF Slots
<1>3. ASSUME NEW t \in 1..n, NEW u \in 1..n, t # u
      PROVE  Cardinality({m \in DOMAIN ms : Pair(m) = {t, u}}) = 1
  <2>1. PICK m \in DOMAIN ms : \E s \in Slots : Between(ms, m, s, t, u)
    BY <1>3 DEF Robin
  <2>2. PICK s \in Slots : Between(ms, m, s, t, u)
    BY <2>1
  <2>3. Pair(m) = {t, u}
    BY <1>2, <2>2
  <2>4. ASSUME NEW k \in DOMAIN ms, Pair(k) = {t, u} PROVE k = m
    <3>1. PICK z \in Slots : Between(ms, k, z, t, u)
      BY <1>1, <1>3, <2>4
    <3>2. Between(ms, k, z, ms[m].team[s], ms[m].team[3 - s])
      BY <2>2, <3>1 DEF Between
    <3> QED
      BY <3>2 DEF Robin
  <2> HIDE DEF Pair
  <2>5. {k \in DOMAIN ms : Pair(k) = {t, u}} = {m}
    BY <2>3, <2>4
  <2> QED
    BY <2>5, FS_Singleton
<1>4. ASSUME NEW m \in DOMAIN ms, NEW k \in DOMAIN ms, m # k,
             ms[m].round = ms[k].round
      PROVE  Pair(m) \cap Pair(k) = {}
  <2> SUFFICES ASSUME NEW s \in Slots, NEW z \in Slots,
                      ms[m].team[s] = ms[k].team[z]
               PROVE  FALSE
    OBVIOUS
  <2> QED
    BY <1>4 DEF Robin
<1> QED
  BY <1>3, <1>4 DEF MeetOnce

-----------------------------------------------------------------------------
(* The bracket of a division.                                                *)

\* Brackets are generated by one organiser.
OneOrganiser == \A o, p \in Organisers : o = p

Single == format = "single_elimination"

\* The invariant: while somebody may still generate, there is nothing yet, and
\* what was generated is a tree or a round robin.
BracketInv ==
  /\ entries \in Nat /\ entries >= 2
  /\ checked \subseteq Organisers
  /\ checked # {} => matches = <<>>
  /\ Single /\ matches # <<>> => Tree(entries, matches)
  /\ ~Elimination /\ matches # <<>> => Robin(entries, matches)

\* A new division has no matches.
LEMMA BracketStarts == Init => BracketInv
<1> SUFFICES ASSUME Init PROVE BracketInv
  OBVIOUS
<1>1. entries \in Nat /\ entries >= 2
  BY SizesAssumption DEF Init
<1> QED
  BY <1>1 DEF Init, BracketInv

\* The rows that are inserted are numbered from one.
LEMMA FirstBracket ==
    ASSUME NEW n \in Nat, n >= 2, NEW ms, Tree(n, ms)
    PROVE  <<>> \o ms = ms /\ DOMAIN ms = 1..Final(n)
<1>1. ms \in [1..Final(n) -> Row] /\ Final(n) \in Nat
  BY Halves DEF Tree, Wired, Final
<1>2. ms \in Seq(Row)
  BY <1>1
<1> QED
  BY <1>1, <1>2, ConcatEmptySeq

\* Every step of the organiser and of the matches keeps the tree.
LEMMA BracketStep ==
    ASSUME OneOrganiser, BracketInv, [Next]_vars
    PROVE  BracketInv'
<1>1. ASSUME NEW o \in Organisers, CheckNoMatches(o) PROVE BracketInv'
  BY <1>1 DEF CheckNoMatches, BracketInv, Single, Elimination
<1>2. ASSUME NEW o \in Organisers, GenerateBracket(o) PROVE BracketInv'
  <2>1. matches = <<>> /\ checked' = {} /\ Len(matches) = 0
        /\ entries' = entries /\ format' = format
    BY <1>2, EmptySeq DEF GenerateBracket, BracketInv, OneOrganiser
  <2>2. ASSUME Single PROVE Tree(entries, matches')
    <3>1. PICK ms : ms = Linked(WithByes(GenerateSingleElimination(entries)), 0)
      OBVIOUS
    <3>2. matches' = <<>> \o ms
      BY <1>2, <2>1, <2>2, <3>1 DEF GenerateBracket, Generated, Single
    <3>3. Tree(entries, ms)
      BY <3>1, GeneratedIsTree DEF BracketInv
    <3>4. <<>> \o ms = ms
      BY <3>3, FirstBracket DEF BracketInv
    <3> QED
      BY <3>2, <3>3, <3>4
  <2>3. ASSUME ~Elimination PROVE Robin(entries, matches')
    <3>1. PICK ms : ms = Linked(WithByes(GenerateRoundRobin(entries)), 0)
      OBVIOUS
    <3>2. matches' = <<>> \o ms
      BY <1>2, <2>1, <2>3, <3>1 DEF GenerateBracket, Generated, Elimination
    <3>3. Robin(entries, ms)
      BY <3>1, RobinInserted DEF BracketInv
    <3>4. <<>> \o ms = ms
      BY <3>3, ConcatEmptySeq DEF Robin
    <3> QED
      BY <3>2, <3>3, <3>4
  <2> QED
    BY <2>1, <2>2, <2>3 DEF BracketInv, Single, Elimination
<1>3. ASSUME NEW m \in DOMAIN matches, Single
      PROVE  /\ Tree(entries, matches) /\ m \in 1..Final(entries)
             /\ matches # <<>> /\ checked = {}
  <2>1. matches # <<>>
    BY EmptySeq
  <2>2. Tree(entries, matches) /\ checked = {}
    BY <1>3, <2>1 DEF BracketInv
  <2> QED
    BY <2>1, <2>2, FirstBracket DEF BracketInv
<1>4. ASSUME NEW m \in DOMAIN matches, matches' # <<>> \/ checked = {},
             UNCHANGED <<format, entries, checked>>,
             Single => Tree(entries, matches'),
             ~Elimination => Robin(entries, matches')
      PROVE  BracketInv'
  <2>1. matches # <<>>
    BY EmptySeq
  <2>2. checked = {}
    BY <2>1 DEF BracketInv
  <2> QED
    BY <1>4, <2>2 DEF BracketInv, Single, Elimination
<1>5. ASSUME NEW m \in DOMAIN matches, AdvanceWinner(m) PROVE BracketInv'
  <2>1. UNCHANGED <<format, entries, checked>> /\ matches[m].winner # 0
        /\ matches' = Advanced(m)
    BY <1>5 DEF AdvanceWinner
  <2>2. checked = {}
    BY EmptySeq DEF BracketInv
  <2>3. ASSUME Single PROVE Tree(entries, matches')
    <3>1. Tree(entries, matches) /\ m \in 1..Final(entries)
      BY <1>3, <2>3
    <3>2. matches[m].loserNext = 0
      BY <3>1 DEF Tree, Wired
    <3>3. matches' = Slotted(matches, matches[m].next, matches[m].slot,
                             matches[m].winner)
      BY <2>1, <3>2 DEF Advanced, Slotted
    <3> QED
      BY <2>1, <3>1, <3>3, SlottedKeepsTree DEF BracketInv
  <2>4. ASSUME ~Elimination PROVE Robin(entries, matches')
    <3>1. Robin(entries, matches)
      BY <2>4, EmptySeq DEF BracketInv
    <3> QED
      BY <2>1, <3>1, RobinLeadsNowhere
  <2> QED
    BY <1>4, <2>1, <2>2, <2>3, <2>4
<1>6. ASSUME NEW m \in DOMAIN matches, NEW s \in Slots, CompleteMatch(m, s)
      PROVE  BracketInv'
  <2>1. /\ UNCHANGED <<format, entries, checked>>
        /\ matches[m].status = "scheduled"
        /\ \A u \in Slots : matches[m].team[u] # 0
        /\ matches' = [matches EXCEPT ![m].status = "completed",
                                      ![m].winner = matches[m].team[s],
                                      ![m].loser  = matches[m].team[3 - s]]
    BY <1>6 DEF CompleteMatch, Playable
  <2>2. checked = {}
    BY EmptySeq DEF BracketInv
  <2>3. ASSUME Single PROVE Tree(entries, matches')
    <3>1. Tree(entries, matches) /\ m \in 1..Final(entries)
      BY <1>3, <2>3
    <3> QED
      BY <2>1, <3>1, PlayedKeepsTree DEF BracketInv
  <2>4. ASSUME ~Elimination PROVE Robin(entries, matches')
    <3>1. Robin(entries, matches)
      BY <2>4, EmptySeq DEF BracketInv
    <3> QED
      BY <2>1, <3>1, PlayedKeepsRobin
  <2> QED
    BY <1>4, <2>1, <2>2, <2>3, <2>4
<1>7. ASSUME UNCHANGED vars PROVE BracketInv'
  BY <1>7 DEF vars, BracketInv, Single, Elimination
<1> QED
  BY <1>1, <1>2, <1>5, <1>6, <1>7 DEF Next

\* What the properties read of the tree.
LEMMA TreeRead ==
    ASSUME BracketInv, Single, NEW m \in DOMAIN matches
    PROVE  /\ Tree(entries, matches) /\ DOMAIN matches = 1..Final(entries)
           /\ matches \in [1..Final(entries) -> Row]
           /\ entries \in Nat /\ entries >= 2
           /\ matches[m] \in Row /\ matches[m].round = RoundOf(entries, m)
           /\ matches[m].loserNext = 0
           /\ matches[m].round = 1 <=> m <= Half(entries)
           /\ matches[m].round # 1 <=> m > Half(entries)
<1>1. matches # <<>>
  BY EmptySeq
<1>2. Tree(entries, matches) /\ entries \in Nat /\ entries >= 2
  BY <1>1 DEF BracketInv
<1>3. DOMAIN matches = 1..Final(entries)
  BY <1>2, FirstBracket
<1>4. /\ matches[m] \in Row /\ matches[m].round = RoundOf(entries, m)
      /\ matches[m].loserNext = 0 /\ matches \in [1..Final(entries) -> Row]
  BY <1>2, <1>3 DEF Tree, Wired
<1>5. m \in 1..(Size(entries) - 1)
  BY <1>3 DEF Final
<1>6. RoundOf(entries, m) = 1 <=> m <= Half(entries)
  BY <1>2, <1>5, Links
<1>7. m <= Half(entries) <=> ~(m > Half(entries))
  BY <1>2, <1>5, Halves
<1> QED
  BY <1>2, <1>3, <1>4, <1>6, <1>7

\* A division keeps its format.
LEMMA FormatKept == Spec => [](format \in Formats)
<1>1. Init => format \in Formats
  BY DEF Init
<1>2. format \in Formats /\ [Next]_vars => (format \in Formats)'
  BY DEF Next, vars, CheckNoMatches, GenerateBracket, AdvanceWinner,
         CompleteMatch
<1> QED
  BY <1>1, <1>2, PTL DEF Spec

\* Whatever the number of teams and the order of the calls, each place of a
\* later round is fed by one match, whose winner is the only team that can
\* stand there: the links of GenerateSingleElimination are a tree, and BYEs
\* and AdvanceWinner keep to it.
THEOREM PlacesEarned ==
    ASSUME OneOrganiser
    PROVE  Spec => [](format # "double_elimination" => PlacesAreEarned)
<1>1. BracketInv /\ format \in Formats
        => (format # "double_elimination" => PlacesAreEarned)
  <2> SUFFICES ASSUME BracketInv, format \in Formats,
                      format # "double_elimination", Elimination,
                      NEW m \in DOMAIN matches, NEW s \in Slots,
                      matches[m].round > 1
               PROVE  \E f \in DOMAIN matches :
                        /\ Feeders(matches, m, s) = {f}
                        /\ matches[m].team[s] \in {0, matches[f].winner}
    BY DEF PlacesAreEarned
  <2>1. Single
    BY FormatsAssumption DEF Elimination, Single
  <2>2. /\ Tree(entries, matches) /\ DOMAIN matches = 1..Final(entries)
        /\ entries \in Nat /\ entries >= 2 /\ m > Half(entries)
    <3>1. matches[m].round # 1
      BY <2>1, TreeRead DEF Row
    <3> QED
      BY <2>1, <3>1, TreeRead
  <2>3. PICK f : f = Feed(entries, m, s)
    OBVIOUS
  <2>4. f \in DOMAIN matches
    BY <2>2, <2>3, Feeding
  <2>5. Feeders(matches, m, s) = {f}
    BY <2>2, <2>3, Feeds DEF Tree
  <2>6. matches[m].team[s] \in {0, matches[f].winner}
    BY <2>2, <2>3 DEF Tree, Earned
  <2> QED
    BY <2>4, <2>5, <2>6
<1>2. Spec => [](format \in Formats)
  BY FormatKept
<1>3. BracketInv /\ [Next]_vars => BracketInv'
  BY BracketStep
<1> QED
  BY <1>1, <1>2, <1>3, BracketStarts, PTL DEF Spec

\* Whatever the number of teams and the order of the calls, a team that lost
\* a match stands in no match that is still to be played and won no later one.
THEOREM LosersAreOut ==
    ASSUME OneOrganiser
    PROVE  Spec => []OneLossIsOut
<1>1. BracketInv => OneLossIsOut
  <2> SUFFICES ASSUME BracketInv, Single,
                      NEW m \in DOMAIN matches, NEW k \in DOMAIN matches,
                      matches[m].loser # 0, k # m, NEW s \in Slots,
                      matches[k].team[s] = matches[m].loser
               PROVE  /\ matches[k].round < matches[m].round
                      /\ matches[k].winner = matches[m].loser
    BY DEF OneLossIsOut, Single
  <2>1. /\ Tree(entries, matches) /\ DOMAIN matches = 1..Final(entries)
        /\ entries \in Nat /\ entries >= 2
        /\ matches[m] \in Row /\ matches[k] \in Row
    BY TreeRead
  <2>2. PICK n \in Nat : n = entries
    BY <2>1
  <2>3. PICK ms : ms = matches
    OBVIOUS
  <2>4. /\ n >= 2 /\ Tree(n, ms) /\ m \in 1..Final(n) /\ k \in 1..Final(n)
        /\ ms[m].round \in Nat /\ ms[k].round \in Nat
        /\ ms[m].status \in {"scheduled", "completed"}
    BY <2>1, <2>2, <2>3 DEF Row
  <2>5. PICK t : t = ms[m].loser
    OBVIOUS
  <2>6. t # 0 /\ ms[k].team[s] = t
    BY <2>3, <2>5
  <2>7. PICK u \in Slots : ms[m].winner = ms[m].team[u]
                           /\ t = ms[m].team[3 - u]
    BY <2>4, <2>5, <2>6 DEF Tree, Settled
  <2>8. 3 - u \in Slots /\ 3 - u # u
    BY DEF Slots
  <2>9. ms[m].winner # t
    BY <2>4, <2>6, <2>7, <2>8, OnceARound
  <2>10. ms[k].round # ms[m].round
    BY <2>4, <2>6, <2>7, <2>8, OnceARound
  <2>11. ~(ms[m].round < ms[k].round)
    BY <2>4, <2>6, <2>7, <2>8, <2>9, PastWon
  <2>12. ms[k].round < ms[m].round
    BY <2>4, <2>10, <2>11
  <2>13. ms[k].winner = t
    BY <2>4, <2>6, <2>7, <2>8, <2>12, PastWon
  <2> QED
    BY <2>3, <2>5, <2>12, <2>13
<1>2. BracketInv /\ [Next]_vars => BracketInv'
  BY BracketStep
<1> QED
  BY <1>1, <1>2, BracketStarts, PTL DEF Spec

\* Whatever the number of teams and whoever wins, the best 2^k seeds do not
\* meet before the last k rounds (bracketSeedOrder).
THEOREM SeedsMeetLate ==
    ASSUME OneOrganiser
    PROVE  Spec => []TopSeedsMeetLate
<1>1. BracketInv => TopSeedsMeetLate
  <2> SUFFICES ASSUME BracketInv, Single, NEW m \in DOMAIN matches,
                      NEW k \in 0..(Rounds(entries) - 1),
                      \A s \in Slots : matches[m].team[s] \in 1..Pow2[k]
               PROVE  matches[m].round > Rounds(entries) - k
    BY DEF TopSeedsMeetLate, Single
  <2>1. /\ Tree(entries, matches) /\ m \in 1..Final(entries)
        /\ entries \in Nat /\ entries >= 2
        /\ matches[m].round = RoundOf(entries, m)
    BY TreeRead
  <2>2. PICK d \in Nat : /\ d = Depth(entries, m) - 1
                         /\ d = Rounds(entries) - RoundOf(entries, m)
    BY <2>1, Places
  <2>3. PICK t : t = matches[m].team[2]
    OBVIOUS
  <2>4. t \in 1..Pow2[k] /\ 2 \in Slots
    BY <2>3 DEF Slots
  <2>5. t > Pow2[d]
    BY <2>1, <2>2, <2>3, <2>4, SecondIsWeaker
  <2>6. k \in Nat /\ Pow2[k] \in Nat /\ Pow2[d] \in Nat
    BY <2>1, Halves, Powers
  <2>7. ~(k <= d)
    <3>1. ASSUME k < d PROVE FALSE
      BY <2>2, <2>4, <2>5, <2>6, <3>1, PowersGrow
    <3>2. ASSUME k = d PROVE FALSE
      BY <2>4, <2>5, <2>6, <3>2
    <3> QED
      BY <2>6, <3>1, <3>2
  <2>8. RoundOf(entries, m) \in Int /\ Rounds(entries) \in Int
    <3>1. m \in 1..(Size(entries) - 1)
      BY <2>1 DEF Final
    <3> QED
      BY <2>1, <3>1, RoundsMeet, Halves
  <2> QED
    BY <2>1, <2>2, <2>6, <2>7, <2>8
<1>2. BracketInv /\ [Next]_vars => BracketInv'
  BY BracketStep
<1> QED
  BY <1>1, <1>2, BracketStarts, PTL DEF Spec

\* Whatever the number of teams and the order of the calls, a single
\* elimination or a round robin that is not over has a match that can be
\* played or a winner that can be advanced: the first match that is not
\* completed is waiting for nobody but its own feeders, which are.
THEOREM BracketIsNeverStuck ==
    ASSUME OneOrganiser
    PROVE  Spec => [](format # "double_elimination" => NeverStuck)
<1>1. BracketInv => (format = "single_elimination" => NeverStuck)
  <2> SUFFICES ASSUME BracketInv, Single, matches # <<>>,
                      Completed # DOMAIN matches
               PROVE  \E m \in DOMAIN matches :
                        \/ Playable(m)
                        \/ matches[m].winner # 0 /\ Advanced(m) # matches
    BY DEF NeverStuck, Single
  <2>1. /\ Tree(entries, matches) /\ DOMAIN matches = 1..Final(entries)
        /\ entries \in Nat /\ entries >= 2
        /\ matches \in [1..Final(entries) -> Row]
    BY FirstBracket DEF BracketInv, Tree, Wired
  <2> DEFINE open == {m \in 1..Final(entries) : m \notin Completed}
  <2>2. open # {} /\ open \in SUBSET Nat
    BY <2>1 DEF Completed
  <2>3. PICK m \in open : \A f \in open : m <= f
    <3> HIDE DEF open
    <3> QED
      BY <2>2, LeastNumber
  <2>4. m \in 1..Final(entries) /\ matches[m].status = "scheduled"
    BY <2>1, <2>3 DEF Completed, Row
  <2>5. CASE \A s \in Slots : matches[m].team[s] # 0
    BY <2>1, <2>4, <2>5 DEF Playable
  <2>6. CASE ~(\A s \in Slots : matches[m].team[s] # 0)
    <3>1. PICK s \in Slots : matches[m].team[s] = 0
      BY <2>6
    <3>2. ~(m <= Half(entries))
      BY <2>1, <2>4, <3>1 DEF Tree, DrawKept
    <3>3. m > Half(entries)
      BY <2>1, <2>4, <3>2, Halves
    <3>4. PICK f : f = Feed(entries, m, s)
      OBVIOUS
    <3>5. /\ f \in 1..Final(entries) /\ f < m
          /\ f # Final(entries) /\ Up(entries, f) = m /\ Side(f) = s
      BY <2>1, <2>4, <3>3, <3>4, Feeding
    <3>6. f \in Completed
      <4>1. ~(m <= f)
        BY <2>4, <3>5
      <4> QED
        BY <2>3, <3>5, <4>1
    <3>7. matches[f].winner # 0
      BY <2>1, <3>5, <3>6 DEF Completed, Tree, Settled
    <3>8. /\ matches[f].next = m /\ matches[f].slot = s
          /\ matches[f].loserNext = 0
      BY <2>1, <3>5 DEF Tree, Wired
    <3>9. Advanced(f) = [matches EXCEPT ![m].team[s] = matches[f].winner]
      BY <2>4, <3>7, <3>8 DEF Advanced, Slotted
    <3>10. Advanced(f)[m].team[s] = matches[f].winner
      <4>1. PICK T : T = [matches[m].team EXCEPT ![s] = matches[f].winner]
        OBVIOUS
      <4>2. matches[m] \in Row /\ matches[m].team \in [Slots -> Nat]
        BY <2>1, <2>4 DEF Row
      <4>3. T[s] = matches[f].winner
        BY <4>1, <4>2
      <4>4. Advanced(f)[m] = [matches[m] EXCEPT !.team = T]
        BY <2>1, <2>4, <3>9, <4>1
      <4>5. [matches[m] EXCEPT !.team = T].team = T
        BY <4>2 DEF Row
      <4> QED
        BY <4>3, <4>4, <4>5
    <3> QED
      BY <2>1, <3>1, <3>5, <3>7, <3>10
  <2> QED
    BY <2>5, <2>6
<1>2. BracketInv => (format = "round_robin" => NeverStuck)
  <2> SUFFICES ASSUME BracketInv, ~Elimination, matches # <<>>,
                      NEW m \in DOMAIN matches, m \notin Completed
               PROVE  Playable(m)
    BY DEF NeverStuck, Elimination, Completed
  <2>1. Robin(entries, matches)
    BY DEF BracketInv
  <2>2. \A s \in Slots : matches[m].team[s] # 0
    BY <2>1 DEF Robin
  <2>3. matches[m].status = "scheduled"
    <3>1. matches[m] \in Row
      BY <2>1 DEF Robin
    <3> QED
      BY <3>1 DEF Row, Completed
  <2> QED
    BY <2>2, <2>3 DEF Playable
<1>3. Spec => [](format \in Formats)
  BY FormatKept
<1>4. BracketInv /\ format \in Formats
        => (format # "double_elimination" => NeverStuck)
  BY <1>1, <1>2, FormatsAssumption
<1>5. BracketInv /\ [Next]_vars => BracketInv'
  BY BracketStep
<1> QED
  BY <1>3, <1>4, <1>5, BracketStarts, PTL DEF Spec

\* Whatever the number of teams, odd or even, every two teams of a round robin
\* meet exactly once and nobody plays twice in a round: the circle that
\* GenerateRoundRobin turns seats everybody opposite everybody.
THEOREM PairsMeetOnce ==
    ASSUME OneOrganiser
    PROVE  Spec => []EveryPairMeetsOnce
<1>1. BracketInv => EveryPairMeetsOnce
  <2> SUFFICES ASSUME BracketInv, ~Elimination, matches # <<>>
               PROVE  EveryPairMeetsOnce
    BY DEF EveryPairMeetsOnce, Elimination
  <2>1. Robin(entries, matches) /\ entries \in Nat
    BY DEF BracketInv
  <2>2. MeetOnce(entries, matches)
    BY <2>1, RobinMeetOnce
  <2> QED
    BY <2>2, Zenon DEF EveryPairMeetsOnce, MeetOnce
<1>2. BracketInv /\ [Next]_vars => BracketInv'
  BY BracketStep
<1> QED
  BY <1>1, <1>2, BracketStarts, PTL DEF Spec
=============================================================================
