---------------------------- MODULE Recursion ---------------------------
(***************************************************************************)
(* Induction over an interval of the natural numbers, and functions that   *)
(* are defined by recursion over one.  The induction theorems of the       *)
(* library take the property as an operator; here it is a set, which the   *)
(* provers can instantiate.  The step of a recursion is a function for the *)
(* same reason.                                                            *)
(***************************************************************************)
EXTENDS Integers, SequenceTheorems, WellFoundedInduction, TLAPS

\* Every set of natural numbers has a least element.
LEMMA LeastNatural ==
    ASSUME NEW S \in SUBSET Nat, S # {}
    PROVE  \E n \in S : \A m \in S : n <= m
<1> DEFINE R == OpToRel(<, Nat)
<1>1. \A x, y \in Nat : <<x, y>> \in R <=> x < y
  BY Zenon DEF OpToRel
<1>2. IsWellFoundedOn(R, Nat)
  BY Zenon, NatLessThanWellFounded
<1> HIDE DEF R
<1>3. PICK n \in S : \A m \in S : ~ (<<m, n>> \in R)
  BY <1>2, WFMin
<1>4. ASSUME NEW m \in S PROVE n <= m
  <2>1. n \in Nat /\ m \in Nat /\ ~ (<<m, n>> \in R)
    BY <1>3
  <2>2. ~ (m < n)
    BY <1>1, <2>1
  <2> QED BY <2>1, <2>2
<1> QED BY <1>4

\* Induction: a set that has 0, and with a number the next one, has them all.
LEMMA SetInduction ==
    ASSUME NEW N \in Nat, NEW S, 0 \in S,
           \A n \in 0..N : n < N /\ n \in S => n + 1 \in S
    PROVE  0..N \subseteq S
<1> DEFINE T == (0..N) \ S
<1> SUFFICES ASSUME T # {} PROVE FALSE
  OBVIOUS
<1>1. T \in SUBSET Nat
  OBVIOUS
<1>2. PICK n \in T : \A m \in T : n <= m
  BY <1>1, LeastNatural
<1>3. n # 0 /\ n \in Nat /\ n <= N
  OBVIOUS
<1>4. n - 1 \in 0..N /\ n - 1 \notin T /\ n - 1 < N
  BY <1>2, <1>3
<1> QED BY <1>3, <1>4

\* N steps from b, each by the function g.
Steps(N, V) == [V \X (1..N) -> V]

Iterates(f, N, V, b, g) ==
    /\ f \in [0..N -> V]
    /\ f[0] = b
    /\ \A n \in 1..N : f[n] = g[<<f[n - 1], n>>]

\* There is a function that does them.
LEMMA RecursionExists ==
    ASSUME NEW N \in Nat, NEW V, NEW b \in V, NEW g \in Steps(N, V)
    PROVE  \E f : Iterates(f, N, V, b, g)
<1> DEFINE S == {m \in 0..N : \E f : Iterates(f, m, V, b, g)}
<1>1. 0 \in S
  <2> DEFINE f == [n \in 0..0 |-> b]
  <2>1. Iterates(f, 0, V, b, g)
    BY DEF Iterates
  <2> QED BY <2>1
<1>2. ASSUME NEW m \in 0..N, m < N, m \in S PROVE m + 1 \in S
  <2>1. PICK f : Iterates(f, m, V, b, g)
    BY <1>2
  <2> DEFINE h == [n \in 0..(m + 1) |-> IF n <= m THEN f[n] ELSE g[<<f[m], m + 1>>]]
  <2>2. \A n \in 0..m : f[n] \in V
    BY <2>1 DEF Iterates
  <2>3. h \in [0..(m + 1) -> V]
    <3>1. g[<<f[m], m + 1>>] \in V
      BY <1>2, <2>2 DEF Steps
    <3>2. \A n \in 0..(m + 1) : n <= m => f[n] \in V
      BY <1>2, <2>2
    <3> QED BY <3>1, <3>2
  <2>4. h[0] = b
    BY <1>2, <2>1 DEF Iterates
  <2>5. ASSUME NEW n \in 1..(m + 1) PROVE h[n] = g[<<h[n - 1], n>>]
    <3>1. CASE n <= m
      <4>1. n \in 1..m /\ n \in 0..(m + 1) /\ n - 1 \in 0..(m + 1) /\ n - 1 <= m
        BY <1>2, <3>1
      <4>2. f[n] = g[<<f[n - 1], n>>]
        BY <2>1, <4>1 DEF Iterates
      <4>3. h[n] = f[n] /\ h[n - 1] = f[n - 1]
        BY <3>1, <4>1
      <4> QED BY <4>2, <4>3
    <3>2. CASE n = m + 1
      <4>1. h[n] = g[<<f[m], m + 1>>] /\ h[n - 1] = f[m]
        BY <1>2, <3>2
      <4> QED BY <3>2, <4>1
    <3> QED BY <1>2, <3>1, <3>2
  <2>6. Iterates(h, m + 1, V, b, g)
    BY <2>3, <2>4, <2>5 DEF Iterates
  <2> HIDE DEF h
  <2> QED BY <1>2, <2>6
<1>3. N \in S
  <2> HIDE DEF S
  <2>1. 0..N \subseteq S
    BY <1>1, <1>2, SetInduction
  <2> QED BY <2>1
<1> QED BY <1>3

\* Two of them that take the same steps go the same way.
SameSteps(e, f, N) ==
    /\ e[0] = f[0]
    /\ \A n \in 1..N : e[n - 1] = f[n - 1] => e[n] = f[n]

LEMMA SameStepsAgree ==
    ASSUME NEW N \in Nat, NEW e, NEW f, SameSteps(e, f, N)
    PROVE  \A n \in 0..N : e[n] = f[n]
<1> USE DEF SameSteps
<1> DEFINE S == {n \in 0..N : e[n] = f[n]}
<1>1. 0 \in S
  OBVIOUS
<1>2. ASSUME NEW n \in 0..N, n < N, n \in S PROVE n + 1 \in S
  <2>1. n + 1 \in 1..N /\ (n + 1) - 1 = n
    BY <1>2
  <2> QED BY <1>2, <2>1
<1>3. 0..N \subseteq S
  <2> HIDE DEF S
  <2> QED BY <1>1, <1>2, SetInduction
<1> QED BY <1>3

\* The first n + 1 elements are the first n and one more.
LEMMA PrefixGrows ==
    ASSUME NEW C, NEW s \in Seq(C), NEW n \in 0..Len(s), n < Len(s)
    PROVE  /\ SubSeq(s, 1, n) \in Seq(C)
           /\ SubSeq(s, 1, n + 1) = Append(SubSeq(s, 1, n), s[n + 1])
<1>1. Len(s) \in Nat /\ n \in Nat /\ n + 1 \in 1..Len(s) /\ s[n + 1] \in C
  OBVIOUS
<1>2. \A i \in 1..n : s[i] \in C
  BY <1>1
<1>3. SubSeq(s, 1, n) \in Seq(C)
  BY <1>1, <1>2, SubSeqProperties
<1>4. SubSeq(s, 1, n + 1) = SubSeq(s, 1, n) \o <<s[n + 1]>>
  BY <1>1, SubSeqRecursiveSecond
<1>5. Append(SubSeq(s, 1, n), s[n + 1]) = SubSeq(s, 1, n) \o <<s[n + 1]>>
  BY <1>1, <1>3, AppendIsConcat
<1> QED BY <1>3, <1>4, <1>5

\* Induction over sequences: a set that has the empty one, and with a sequence
\* those that are longer by an element, has them all.
LEMMA SeqInduction ==
    ASSUME NEW C, NEW S, <<>> \in S,
           \A s \in Seq(C), e \in C : s \in S => Append(s, e) \in S
    PROVE  Seq(C) \subseteq S
<1> SUFFICES ASSUME NEW s \in Seq(C) PROVE s \in S
  OBVIOUS
<1> DEFINE N == Len(s)
           T == {n \in 0..N : SubSeq(s, 1, n) \in S}
<1>1. N \in Nat
  OBVIOUS
<1>2. 0 \in T
  <2>1. SubSeq(s, 1, 0) = <<>>
    BY SubSeqEmpty
  <2>2. SubSeq(s, 1, 0) \in S
    BY <2>1, Zenon
  <2> QED BY <1>1, <2>2
<1>3. ASSUME NEW n \in 0..N, n < N, n \in T PROVE n + 1 \in T
  <2>1. s[n + 1] \in C /\ n + 1 \in 0..N
    BY <1>1, <1>3
  <2>2. SubSeq(s, 1, n) \in Seq(C) /\ SubSeq(s, 1, n) \in S
    BY <1>3, PrefixGrows
  <2>3. SubSeq(s, 1, n + 1) = Append(SubSeq(s, 1, n), s[n + 1])
    BY <1>3, PrefixGrows
  <2> QED BY <2>1, <2>2, <2>3
<1>4. N \in T
  <2> HIDE DEF T
  <2>1. 0..N \subseteq T
    BY <1>1, <1>2, <1>3, SetInduction
  <2> QED BY <1>1, <2>1
<1>5. SubSeq(s, 1, N) = s
  BY SubSeqFull
<1> QED BY <1>4, <1>5
=========================================================================
