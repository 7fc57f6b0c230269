----------------------------- MODULE Induction -----------------------------
(***************************************************************************)
(* What proofs about the recursive functions of this project rest on.  The *)
(* induction theorems of the library take an operator; here a predicate is *)
(* a set and a step a function, and the least counterexample comes from    *)
(* the well-foundedness of the order of the natural numbers.               *)
(***************************************************************************)
EXTENDS Integers, FiniteSets, FiniteSetsExt, FiniteSetTheorems, WellFoundedInduction, TLAPS

LEMMA LeastNat ==
    ASSUME NEW T, T \subseteq Nat, T # {}
    PROVE  \E x \in T : \A y \in T : x <= y
  <1>1. IsWellFoundedOn(OpToRel(<, Nat), Nat)
    BY NatLessThanWellFounded
  <1>2. PICK x \in T : \A y \in T : ~(<<y, x>> \in OpToRel(<, Nat))
    BY <1>1, WFMin
  <1>3. \A y \in T : ~(y < x)
    BY <1>2 DEF OpToRel
  <1>4. QED
    BY <1>3

(* A set that holds 0 and with each number below n the next one. *)
LEMMA UpTo ==
    ASSUME NEW n \in Nat, NEW P, 0 \in P,
           \A i \in 1..n : i - 1 \in P => i \in P
    PROVE  0..n \subseteq P
  <1> DEFINE T == (0..n) \ P
  <1>1. SUFFICES ASSUME T # {}
                 PROVE  FALSE
    OBVIOUS
  <1>2. PICK x \in T : \A y \in T : x <= y
    <2>1. T \subseteq Nat
      OBVIOUS
    <2> HIDE DEF T
    <2>2. QED
      BY <1>1, <2>1, LeastNat
  <1>3. x \in 1..n /\ x - 1 \in 0..n /\ ~(x <= x - 1)
    BY <1>2
  <1>4. x - 1 \in P
    BY <1>2, <1>3
  <1>5. QED
    BY <1>2, <1>3, <1>4

(* f begins with base, and F makes each value from the one before. *)
MadeUpTo(f, n, base, F) ==
    f[0] = base /\ \A i \in 1..n : f[i] = F[<<f[i - 1], i>>]

(* A function defined step by step from 0 on. *)
LEMMA StepByStep ==
    ASSUME NEW S, NEW n \in Nat, NEW base \in S, NEW F \in [S \X (1..n) -> S]
    PROVE  \E f \in [0..n -> S] : MadeUpTo(f, n, base, F)
  <1> DEFINE Made(f, m) == MadeUpTo(f, m, base, F)
             P == {m \in 0..n : \E f \in [0..m -> S] : Made(f, m)}
  <1>1. 0 \in P
    <2> DEFINE f == [i \in 0..0 |-> base]
    <2>1. f \in [0..0 -> S] /\ f[0] = base /\ \A i \in 1..0 : FALSE
      OBVIOUS
    <2> HIDE DEF f
    <2>2. Made(f, 0)
      BY <2>1 DEF MadeUpTo
    <2>3. QED
      BY <2>1, <2>2
  <1>2. ASSUME NEW m \in 1..n, m - 1 \in P
        PROVE  m \in P
    <2>1. PICK f \in [0..(m - 1) -> S] : Made(f, m - 1)
      BY <1>2
    <2> DEFINE g == [i \in 0..m |-> IF i = m THEN F[<<f[m - 1], m>>] ELSE f[i]]
    <2>2. F[<<f[m - 1], m>>] \in S
      BY <2>1
    <2>3. g \in [0..m -> S]
      BY <2>2
    <2>4. g[0] = base
      BY <2>1 DEF MadeUpTo
    <2>5. ASSUME NEW i \in 1..m
          PROVE  g[i] = F[<<g[i - 1], i>>]
      <3>1. CASE i = m
        <4>1. m \in 0..m /\ m - 1 \in 0..m /\ m - 1 # m
          OBVIOUS
        <4>2. g[m] = F[<<f[m - 1], m>>] /\ g[m - 1] = f[m - 1]
          BY <4>1
        <4>3. QED
          BY <3>1, <4>2
      <3>2. CASE i # m
        <4>1. i \in 1..(m - 1)
          BY <3>2
        <4>2. g[i] = f[i] /\ g[i - 1] = f[i - 1]
          BY <4>1
        <4>3. QED
          BY <2>1, <4>1, <4>2 DEF MadeUpTo
      <3>3. QED
        BY <3>1, <3>2
    <2> HIDE DEF g
    <2>6. Made(g, m)
      BY <2>4, <2>5 DEF MadeUpTo
    <2>7. QED
      BY <2>3, <2>6
  <1>3. n \in P
    <2> HIDE DEF P
    <2>1. 0..n \subseteq P
      BY <1>1, <1>2, UpTo
    <2>2. QED
      BY <2>1
  <1>4. QED
    BY <1>3

(* The greatest of finitely many numbers, as Max has it. *)
LEMMA MaxOf ==
    ASSUME NEW n \in Nat, NEW T, T \subseteq 1..n, T # {}
    PROVE  Max(T) \in T /\ \A i \in T : i <= Max(T)
  <1> DEFINE D == {n - i : i \in T}
  <1>1. D \subseteq Nat /\ D # {}
    <2>1. ASSUME NEW i \in T
          PROVE  n - i \in Nat
      <3>1. i \in 1..n
        OBVIOUS
      <3>2. QED
        BY <3>1
    <2>2. QED
      BY <2>1
  <1>2. PICK d \in D : \A e \in D : d <= e
    BY <1>1, LeastNat
  <1>3. PICK m \in T : d = n - m
    BY <1>2
  <1>4. \A i \in T : m >= i
    <2> TAKE i \in T
    <2>1. n - i \in D
      OBVIOUS
    <2>2. n - m <= n - i /\ i \in Int /\ m \in Int
      BY <1>2, <1>3, <2>1
    <2>3. QED
      BY <2>2
  <1>5. QED
    BY <1>4 DEF Max
(* The place of i among the numbers of T. *)
Rank(T, i) == Cardinality({j \in T : j <= i})

LEMMA RankGrows ==
    ASSUME NEW n \in Nat, NEW T, T \subseteq 1..n, NEW i \in 1..n
    PROVE  /\ Rank(T, i - 1) \in Nat
           /\ Rank(T, i) = Rank(T, i - 1) + (IF i \in T THEN 1 ELSE 0)
  <1> DEFINE before == {j \in T : j <= i - 1}
  <1>1. IsFiniteSet(before)
    <2>1. IsFiniteSet(1..n)
      BY FS_Interval
    <2>2. before \subseteq 1..n
      OBVIOUS
    <2> HIDE DEF before
    <2>3. QED
      BY <2>1, <2>2, FS_Subset
  <1>2. i \notin before
    OBVIOUS
  <1>3. {j \in T : j <= i} = IF i \in T THEN before \cup {i} ELSE before
    <2>1. \A j \in T : j <= i <=> (j <= i - 1 \/ j = i)
      OBVIOUS
    <2>2. QED
      BY <2>1
  <1> HIDE DEF before
  <1>4. Cardinality(before) \in Nat /\ Cardinality(before \cup {i}) = Cardinality(before) + 1
    BY <1>1, <1>2, FS_CardinalityType, FS_AddElement
  <1>5. Rank(T, i - 1) = Cardinality(before)
    BY DEF Rank, before
  <1>6. Rank(T, i) = Cardinality(IF i \in T THEN before \cup {i} ELSE before)
    BY <1>3 DEF Rank
  <1>7. QED
    BY <1>4, <1>5, <1>6

LEMMA RankOfNone ==
    ASSUME NEW T, NEW i, \A j \in T : ~(j <= i)
    PROVE  Rank(T, i) = 0
  <1>1. {j \in T : j <= i} = {}
    OBVIOUS
  <1>2. QED
    BY <1>1, FS_EmptySet DEF Rank

LEMMA RankOfAll ==
    ASSUME NEW n \in Nat, NEW T, T \subseteq 1..n
    PROVE  Rank(T, n) = Cardinality(T)
  <1>1. \A j \in T : j <= n
    <2> TAKE j \in T
    <2>1. j \in 1..n
      OBVIOUS
    <2>2. QED
      BY <2>1
  <1>2. {j \in T : j <= n} = T
    BY <1>1
  <1>3. QED
    BY <1>2 DEF Rank
=============================================================================
