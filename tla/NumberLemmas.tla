------------------------------ MODULE NumberLemmas ------------------------------
(***************************************************************************)
(* What the proofs of several components use about natural numbers: a set  *)
(* of them has a least one and, if it is bounded, a greatest; how          *)
(* remainders wrap round; and that a loop over 1..n, written as a function *)
(* of the number of rounds, is a function.                                 *)
(***************************************************************************)
EXTENDS Integers, WellFoundedInduction, TLAPS

Less == {s \in Nat \X Nat : s[1] < s[2]}

LEMMA LessIsWellFounded == IsWellFoundedOn(Less, Nat)
  BY NatLessThanWellFounded DEF OpToRel, Less

\* A set of numbers that is not empty has a least one: what a search that takes the
\* first there is comes to.
LEMMA LeastNat ==
    ASSUME NEW T, T \subseteq Nat, T # {}
    PROVE  \E x \in T : \A y \in T : x <= y
<1>1. PICK x \in T : \A y \in T : ~ (<<y, x>> \in Less)
  BY LessIsWellFounded, WFMin
<1>2. ASSUME NEW y \in T
      PROVE  x <= y
  <2>1. x \in Nat /\ y \in Nat
    OBVIOUS
  <2>2. ~(y < x)
    <3>1. SUFFICES ASSUME y < x
                   PROVE  <<y, x>> \in Less
      BY <1>1
    <3>2. QED
      BY <2>1, <3>1 DEF Less
  <2>3. QED
    BY <2>1, <2>2
<1>3. QED
  BY <1>2

\* ... and one that is bounded a greatest: what a search downwards comes to.
LEMMA GreatestNat ==
    ASSUME NEW n \in Nat, NEW T, T \subseteq 0..n, T # {}
    PROVE  \E x \in T : \A y \in T : y <= x
<1> DEFINE D == {n - x : x \in T}
<1>1. D \subseteq Nat /\ D # {}
  <2>1. PICK x \in T : TRUE
    OBVIOUS
  <2>2. n - x \in D
    OBVIOUS
  <2>3. \A y \in T : n - y \in Nat
    OBVIOUS
  <2>4. QED
    BY <2>2, <2>3
<1>2. PICK d \in D : \A e \in D : d <= e
  BY <1>1, LeastNat
<1>3. PICK x \in T : d = n - x
  BY <1>2
<1>4. \A y \in T : n - x <= n - y
  <2>1. ASSUME NEW y \in T
        PROVE  n - y \in D
    OBVIOUS
  <2>2. QED
    BY <1>2, <1>3, <2>1
<1>5. ASSUME NEW y \in T
      PROVE  y <= x
  <2>1. n - x <= n - y /\ x \in Int /\ y \in Int
    BY <1>4
  <2>2. QED
    BY <2>1
<1>6. QED
  BY <1>5

\* After every round of a loop that starts with a value of V and takes each value of V
\* to one of V, the value is one of V.
LEMMA LoopStaysIn ==
    ASSUME NEW n \in Nat, NEW V, NEW f, f[0] \in V,
           \A i \in 1..n : f[i - 1] \in V => f[i] \in V
    PROVE  \A i \in 0..n : f[i] \in V
<1> DEFINE T == {i \in 0..n : f[i] \notin V}
<1>1. SUFFICES ASSUME T # {}
               PROVE  FALSE
  OBVIOUS
<1>2. PICK i \in T : \A j \in T : i <= j
  <2>1. T \subseteq Nat
    OBVIOUS
  <2>2. QED
    BY <1>1, <2>1, LeastNat
<1>3. i \in 1..n /\ i - 1 \in 0..n
  BY <1>2
<1>4. i - 1 \notin T
  BY <1>2, <1>3
<1>5. QED
  BY <1>2, <1>3, <1>4

\* The loops of n rounds from v, the i-th of which takes x to step[i][x].
Steps(n, V) == [1..n -> [V -> V]]

Loops(n, V, step, v) ==
    {f \in [0..n -> V] : f[0] = v /\ \A i \in 1..n : f[i] = step[i][f[i - 1]]}

\* There is one: it has a value after each round.
LEMMA LoopIsFunction ==
    ASSUME NEW n \in Nat, NEW V, NEW v \in V, NEW step \in Steps(n, V)
    PROVE  Loops(n, V, step, v) # {}
<1> USE DEF Steps
<1> DEFINE IsLoop(f, m) == /\ f \in [0..m -> V] /\ f[0] = v
                           /\ \A i \in 1..m : f[i] = step[i][f[i - 1]]
           T == {m \in 0..n : ~\E f : IsLoop(f, m)}
<1>1. SUFFICES ASSUME T # {}
               PROVE  FALSE
  <2>1. n \in T \/ \E f : IsLoop(f, n)
    BY DEF Loops
  <2>2. QED
    BY <1>1, <2>1 DEF Loops
<1>2. PICK m \in T : \A k \in T : m <= k
  <2>1. T \subseteq Nat
    OBVIOUS
  <2>2. QED
    BY <1>1, <2>1, LeastNat
<1>3. m # 0
  <2>1. IsLoop([i \in 0..0 |-> v], 0)
    OBVIOUS
  <2>2. 0 \notin T
    BY <2>1
  <2>3. QED
    BY <1>2, <2>2
<1>4. PICK g : IsLoop(g, m - 1)
  <2>1. m \in 1..n
    BY <1>2, <1>3
  <2>2. m - 1 \notin T
    <3> HIDE DEF T
    <3>1. QED
      BY <1>2, <2>1
  <2>3. m - 1 \in 0..n
    BY <2>1
  <2>4. QED
    BY <2>2, <2>3
<1> DEFINE f == [i \in 0..m |-> IF i = m THEN step[m][g[m - 1]] ELSE g[i]]
<1>5. m \in 1..n /\ m - 1 \in 0..m - 1 /\ g[m - 1] \in V
  BY <1>2, <1>3, <1>4
<1>6. f \in [0..m -> V] /\ f[0] = v
  BY <1>4, <1>5
<1>7. ASSUME NEW i \in 1..m
      PROVE  f[i] = step[i][f[i - 1]]
  <2>1. i - 1 \in 0..m - 1 /\ f[i - 1] = g[i - 1]
    BY <1>5
  <2>2. CASE i = m
    <3>1. f[m] = step[m][g[m - 1]]
      BY <1>5
    <3>2. QED
      BY <2>1, <2>2, <3>1
  <2>3. CASE i # m
    BY <1>4, <1>5, <2>1, <2>3
  <2>4. QED
    BY <2>2, <2>3
<1>8. QED
  BY <1>2, <1>6, <1>7

\* Places round a circle of n: the one k further on, for k < n.
LEMMA Wrap ==
    ASSUME NEW n \in Nat \ {0}, NEW i \in 0..n - 1, NEW k \in 0..n - 1
    PROVE  (i + k) % n = IF i + k < n THEN i + k ELSE i + k - n
  OBVIOUS

\* Quotient and remainder.
LEMMA DivMod ==
    ASSUME NEW q \in Nat, NEW g \in Nat \ {0}
    PROVE  q = (q \div g) * g + (q % g) /\ q % g \in 0..g - 1 /\ q \div g \in Nat
  OBVIOUS

\* Less than a quotient, multiplied back, is less than what was divided.
LEMMA TimesBelow ==
    ASSUME NEW q \in Nat, NEW g \in Nat \ {0}, NEW u \in Nat, u < q \div g
    PROVE  u * g < q /\ u * g \in Nat /\ u < q
<1>1. q = (q \div g) * g + (q % g) /\ q % g \in 0..g - 1 /\ q \div g \in Nat
  BY DivMod
<1>2. \A c \in Nat : u < c => u * g < c * g
  OBVIOUS
<1>3. u * g < (q \div g) * g
  BY <1>1, <1>2
<1>4. u * g \in Nat /\ (q \div g) * g \in Nat /\ u <= u * g
  BY <1>1
<1>5. QED
  BY <1>1, <1>3, <1>4

\* What is less than a multiple of the divisor stays less when both are divided.
LEMMA DivideBelow ==
    ASSUME NEW q \in Nat, NEW g \in Nat \ {0}, NEW x \in Nat, x < q, q % g = 0
    PROVE  x \div g < q \div g /\ x \div g \in Nat /\ x \div g <= x
<1>1. /\ q = (q \div g) * g + (q % g) /\ q % g \in 0..g - 1 /\ q \div g \in Nat
      /\ x = (x \div g) * g + (x % g) /\ x % g \in 0..g - 1 /\ x \div g \in Nat
  BY DivMod
<1>2. \A a, b \in Nat : a <= b => a * g <= b * g
  OBVIOUS
<1>3. (q \div g) * g \in Nat /\ (x \div g) * g \in Nat /\ x \div g <= (x \div g) * g
  BY <1>1
<1>4. x \div g <= x
  BY <1>1, <1>3
<1>5. ASSUME q \div g <= x \div g
      PROVE  FALSE
  <2>1. (q \div g) * g <= (x \div g) * g
    BY <1>1, <1>2, <1>5
  <2>2. QED
    BY <1>1, <1>3, <2>1
<1>6. QED
  BY <1>1, <1>4, <1>5

\* A number in range is its own remainder.
LEMMA SmallMod ==
    ASSUME NEW m \in Nat, NEW x \in Nat, x < m
    PROVE  x % m = x
  OBVIOUS
=============================================================================
