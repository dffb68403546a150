--------------------------- MODULE TextProofs ---------------------------
(***************************************************************************)
(* Lemmas about texts and what the C library finds in them, for the        *)
(* modules that are made of CString.                                       *)
(***************************************************************************)
EXTENDS CString, Recursion

(***************************************************************************)
(* The first place of a character, and the texts before and behind it.     *)
(***************************************************************************)

\* A text.
Str == Seq(Char)

\* What a text that is longer by a character has at a place.
LEMMA AtAppend ==
    ASSUME NEW s \in Str, NEW ch \in Char
    PROVE  /\ Append(s, ch) \in Str /\ Len(s) \in Nat /\ Len(Append(s, ch)) = Len(s) + 1
           /\ \A k \in Int : At(Append(s, ch), k) = IF k = Len(s) + 1 THEN ch ELSE At(s, k)
           /\ \A k \in 1..Len(s) : Append(s, ch)[k] = s[k]
           /\ Append(s, ch)[Len(s) + 1] = ch
<1> DEFINE t == Append(s, ch)
<1>1. /\ t \in Str /\ Len(t) = Len(s) + 1 /\ Len(s) \in Nat
      /\ DOMAIN t = 1..Len(s) + 1 /\ DOMAIN s = 1..Len(s)
      /\ \A k \in 1..Len(s) : t[k] = s[k]
      /\ t[Len(s) + 1] = ch
  BY AppendProperties DEF Str
<1> HIDE DEF t
<1>2. \A k \in Int : At(t, k) = IF k = Len(s) + 1 THEN ch ELSE At(s, k)
  BY <1>1 DEF At
<1> QED BY <1>1, <1>2 DEF t

LEMMA AtText ==
    ASSUME NEW s \in Str
    PROVE  /\ Len(s) \in Nat
           /\ \A k \in 1..Len(s) : At(s, k) = s[k] /\ s[k] \in Char
           /\ \A k \in Int : At(s, k) # NUL => k \in 1..Len(s)
<1>1. Len(s) \in Nat /\ DOMAIN s = 1..Len(s) /\ \A k \in 1..Len(s) : s[k] \in Char
  BY DEF Str
<1> QED BY <1>1 DEF At

\* The first place of a character, and the texts before and behind it.
LEMMA LeastPlace ==
    ASSUME NEW C, NEW s \in Seq(C), NEW ch, Places(s, ch) # {}
    PROVE  /\ Least(Places(s, ch)) \in 1..Len(s)
           /\ s[Least(Places(s, ch))] = ch
           /\ \A j \in 1..Len(s) : s[j] = ch => Least(Places(s, ch)) <= j
<1> DEFINE P == Places(s, ch)
<1>1. /\ \A j : j \in P <=> j \in 1..Len(s) /\ s[j] = ch
      /\ Len(s) \in Nat
  BY DEF Places
<1>2. P \in SUBSET Nat
  BY <1>1
<1> HIDE DEF P
<1>3. \E i \in P : \A j \in P : i <= j
  BY <1>2, LeastNatural DEF P
<1>4. Least(P) \in P /\ \A j \in P : Least(P) <= j
  BY <1>3, Zenon DEF Least
<1> QED BY <1>1, <1>4 DEF P

\* A text without a character ends nowhere before its end.
LEMMA UntilAll ==
    ASSUME NEW s, NEW ch, Places(s, ch) = {}
    PROVE  Until(s, ch) = s
<1> QED BY DEF Until

LEMMA UntilIs ==
    ASSUME NEW C, NEW s \in Seq(C), NEW ch
    PROVE  \E n \in 0..Len(s) : /\ Until(s, ch) = SubSeq(s, 1, n)
                                /\ \A k \in 1..n : s[k] # ch
<1>1. Len(s) \in Nat /\ DOMAIN s = 1..Len(s)
  OBVIOUS
<1>2. CASE Places(s, ch) = {}
  <2>1. Until(s, ch) = SubSeq(s, 1, Len(s))
    <3>1. SubSeq(s, 1, Len(s)) = s
      BY SubSeqFull
    <3>2. Until(s, ch) = s
      BY <1>2, UntilAll
    <3> QED BY <3>1, <3>2
  <2>2. \A k \in 1..Len(s) : s[k] # ch
    BY <1>1, <1>2 DEF Places
  <2>3. Len(s) \in 0..Len(s)
    BY <1>1
  <2> QED BY <2>1, <2>2, <2>3, Zenon
<1>3. CASE Places(s, ch) # {}
  <2> DEFINE m == Least(Places(s, ch))
  <2>1. m \in 1..Len(s) /\ \A j \in 1..Len(s) : s[j] = ch => m <= j
    BY <1>3, LeastPlace
  <2>2. Until(s, ch) = SubSeq(s, 1, m - 1)
    BY <1>3, Zenon DEF Until
  <2> HIDE DEF m
  <2>3. m - 1 \in 0..Len(s) /\ \A k \in 1..m - 1 : s[k] # ch
    BY <1>1, <2>1
  <2> QED BY <2>2, <2>3
<1> QED BY <1>2, <1>3

LEMMA UntilType ==
    ASSUME NEW C, NEW s \in Seq(C), NEW ch
    PROVE  Until(s, ch) \in Seq(C \ {ch})
<1>1. PICK n \in 0..Len(s) : /\ Until(s, ch) = SubSeq(s, 1, n)
                             /\ \A k \in 1..n : s[k] # ch
  BY UntilIs
<1>2. n \in Int /\ \A k \in 1..n : s[k] \in C \ {ch}
  BY <1>1
<1>3. SubSeq(s, 1, n) \in Seq(C \ {ch})
  BY <1>2, SubSeqProperties
<1> QED BY <1>1, <1>3

\* A text ends at its first NUL, and a part of a text is one.
LEMMA TextUntil ==
    /\ \A s \in Seq(Byte) : Until(s, NUL) \in Str
    /\ \A s \in Str, ch \in Nat : Until(s, ch) \in Str
<1>1. Byte \ {NUL} = Char
  BY DEF Byte, NUL, Char
<1>2. ASSUME NEW s \in Seq(Byte) PROVE Until(s, NUL) \in Str
  <2>1. Until(s, NUL) \in Seq(Byte \ {NUL})
    BY UntilType
  <2> QED BY <1>1, <2>1, Zenon DEF Str
<1>3. ASSUME NEW s \in Str, NEW ch \in Nat PROVE Until(s, ch) \in Str
  <2>1. Until(s, ch) \in Seq(Char \ {ch}) /\ Char \ {ch} \subseteq Char
    BY UntilType DEF Str
  <2> QED BY <2>1, SeqMonotonic DEF Str
<1> QED BY <1>2, <1>3

LEMMA TextBehind ==
    ASSUME NEW s \in Str, NEW ch, Places(s, ch) # {}
    PROVE  Behind(s, ch) \in Str
<1>1. Least(Places(s, ch)) \in 1..Len(s) /\ Len(s) \in Nat
  BY LeastPlace DEF Str
<1>2. \A k \in Least(Places(s, ch)) + 1..Len(s) : s[k] \in Char
  BY <1>1 DEF Str
<1> QED BY <1>1, <1>2, SubSeqProperties DEF Behind, Str

\* What a separator joins, it takes apart, when it is not in the first part.
LEMMA Parted ==
    ASSUME NEW C, NEW s \in Seq(C), NEW t \in Seq(C), NEW ch \in C, Places(s, ch) = {}
    PROVE  LET all == s \o <<ch>> \o t
           IN  /\ all \in Seq(C)
               /\ Places(all, ch) # {}
               /\ Until(all, ch) = s
               /\ Behind(all, ch) = t
<1> DEFINE sep == <<ch>>
           first == s \o sep
           all == first \o t
           m == Len(s) + 1
<1>1. /\ sep \in Seq(C) /\ Len(sep) = 1 /\ sep[1] = ch /\ Len(s) \in Nat /\ Len(t) \in Nat
      /\ \A k \in 1..Len(s) : s[k] # ch
      /\ m \in Nat /\ m = Len(s) + 1
  BY DEF Places
<1> HIDE DEF sep, m
<1>2. /\ first \in Seq(C) /\ Len(first) = m
      /\ \A k \in 1..m : first[k] = IF k < m THEN s[k] ELSE ch
  <2>1. /\ first \in Seq(C) /\ Len(first) = Len(s) + Len(sep)
        /\ \A k \in 1..Len(s) + Len(sep) : first[k] = IF k <= Len(s) THEN s[k] ELSE sep[k - Len(s)]
    BY <1>1, ConcatProperties
  <2> HIDE DEF first
  <2> QED BY <1>1, <2>1
<1> HIDE DEF first
<1>3. /\ all \in Seq(C) /\ Len(all) = m + Len(t)
      /\ \A k \in 1..m + Len(t) : all[k] = IF k <= m THEN first[k] ELSE t[k - m]
  <2>1. /\ all \in Seq(C) /\ Len(all) = Len(first) + Len(t)
        /\ \A k \in 1..Len(first) + Len(t) :
              all[k] = IF k <= Len(first) THEN first[k] ELSE t[k - Len(first)]
    BY <1>2, ConcatProperties
  <2> QED BY <1>2, <2>1
<1> HIDE DEF all
<1>4. /\ all[m] = ch /\ m \in 1..Len(all)
      /\ \A k \in 1..m - 1 : all[k] = s[k] /\ all[k] # ch
  BY <1>1, <1>2, <1>3
<1>5. Places(all, ch) # {}
  BY <1>3, <1>4 DEF Places
<1>6. Least(Places(all, ch)) = m
  <2> DEFINE n == Least(Places(all, ch))
  <2>1. n \in 1..Len(all) /\ all[n] = ch /\ \A j \in 1..Len(all) : all[j] = ch => n <= j
    BY <1>3, <1>5, LeastPlace
  <2> HIDE DEF n
  <2>2. n = m
    BY <1>1, <1>3, <1>4, <2>1
  <2> QED BY <2>2 DEF n
<1>7. Until(all, ch) = s
  <2>1. Until(all, ch) = SubSeq(all, 1, m - 1)
    BY <1>5, <1>6, Zenon DEF Until
  <2>2. /\ SubSeq(all, 1, m - 1) \in Seq(C) /\ Len(SubSeq(all, 1, m - 1)) = Len(s)
        /\ \A k \in 1..Len(s) : SubSeq(all, 1, m - 1)[k] = all[k]
    <3>1. m - 1 \in Int /\ 1 \in Int /\ \A k \in 1..m - 1 : all[k] \in C
      BY <1>1, <1>3
    <3>2. /\ SubSeq(all, 1, m - 1) \in Seq(C)
          /\ Len(SubSeq(all, 1, m - 1)) = IF 1 <= m - 1 THEN (m - 1) - 1 + 1 ELSE 0
          /\ \A k \in 1..(m - 1) - 1 + 1 : SubSeq(all, 1, m - 1)[k] = all[1 + k - 1]
      BY <3>1, SubSeqProperties
    <3> QED BY <1>1, <3>2
  <2>3. SubSeq(all, 1, m - 1) = s
    <3> DEFINE u == SubSeq(all, 1, m - 1)
    <3>1. u \in Seq(C) /\ Len(u) = Len(s) /\ \A k \in 1..Len(s) : u[k] = s[k]
      BY <1>1, <1>4, <2>2
    <3> HIDE DEF u
    <3>2. u = s
      BY <3>1, SeqEqual
    <3> QED BY <3>2 DEF u
  <2> QED BY <2>1, <2>3
<1>8. Behind(all, ch) = t
  <2> DEFINE u == SubSeq(all, m + 1, Len(all))
  <2>1. Behind(all, ch) = u
    BY <1>6 DEF Behind
  <2>2. u \in Seq(C) /\ Len(u) = Len(t) /\ \A k \in 1..Len(t) : u[k] = t[k]
    <3>1. m + 1 \in Int /\ Len(all) \in Int /\ \A k \in m + 1..Len(all) : all[k] \in C
      BY <1>1, <1>3
    <3>2. /\ u \in Seq(C)
          /\ Len(u) = IF m + 1 <= Len(all) THEN Len(all) - (m + 1) + 1 ELSE 0
          /\ \A k \in 1..Len(all) - (m + 1) + 1 : u[k] = all[(m + 1) + k - 1]
      BY <3>1, SubSeqProperties
    <3> HIDE DEF u
    <3>3. ASSUME NEW k \in 1..Len(t) PROVE u[k] = t[k]
      <4>1. /\ k \in 1..Len(all) - (m + 1) + 1 /\ (m + 1) + k - 1 = m + k
            /\ m + k \in 1..m + Len(t) /\ ~(m + k <= m) /\ (m + k) - m = k
        BY <1>1, <1>3
      <4> QED BY <1>3, <3>2, <4>1
    <3> QED BY <1>1, <1>3, <3>2, <3>3
  <2> HIDE DEF u
  <2>3. u = t
    BY <2>2, SeqEqual
  <2> QED BY <2>1, <2>3
<1> QED BY <1>3, <1>5, <1>7, <1>8 DEF all, first, sep

\* A text with a separator is what is before it, the separator and what is behind.
LEMMA Rejoined ==
    ASSUME NEW C, NEW s \in Seq(C), NEW ch, Places(s, ch) # {}
    PROVE  s = Append(Until(s, ch), ch) \o Behind(s, ch)
<1> DEFINE n == Least(Places(s, ch))
           N == Len(s)
           a == Until(s, ch)
           q == Behind(s, ch)
           u == Append(a, ch)
           all == u \o q
<1>1. n \in 1..N /\ s[n] = ch /\ N \in Nat /\ \A k \in 1..N : s[k] \in C
  BY LeastPlace
<1>2. a = SubSeq(s, 1, n - 1) /\ q = SubSeq(s, n + 1, N)
  BY DEF Until, Behind
<1> HIDE DEF n, N
<1>3. a \in Seq(C) /\ Len(a) = n - 1 /\ \A k \in 1..n - 1 : a[k] = s[k]
  <2>1. 1 \in Int /\ n - 1 \in Int /\ (n - 1) - 1 + 1 = n - 1 /\ \A k \in 1..n - 1 : s[k] \in C
    BY <1>1
  <2>2. /\ SubSeq(s, 1, n - 1) \in Seq(C)
        /\ Len(SubSeq(s, 1, n - 1)) = IF 1 <= n - 1 THEN (n - 1) - 1 + 1 ELSE 0
        /\ \A k \in 1..(n - 1) - 1 + 1 : SubSeq(s, 1, n - 1)[k] = s[1 + k - 1]
    BY <2>1, SubSeqProperties
  <2>3. \A k \in 1..n - 1 : 1 + k - 1 = k
    BY <1>1
  <2> HIDE DEF a
  <2>4. (IF 1 <= n - 1 THEN (n - 1) - 1 + 1 ELSE 0) = n - 1
    BY <1>1
  <2> QED BY <1>2, <2>1, <2>2, <2>3, <2>4
<1>4. q \in Seq(C) /\ Len(q) = N - n /\ \A k \in 1..N - n : q[k] = s[n + k]
  <2>1. n + 1 \in Int /\ N \in Int /\ N - (n + 1) + 1 = N - n /\ \A k \in n + 1..N : s[k] \in C
    BY <1>1
  <2>2. /\ SubSeq(s, n + 1, N) \in Seq(C)
        /\ Len(SubSeq(s, n + 1, N)) = IF n + 1 <= N THEN N - (n + 1) + 1 ELSE 0
        /\ \A k \in 1..N - (n + 1) + 1 : SubSeq(s, n + 1, N)[k] = s[(n + 1) + k - 1]
    BY <2>1, SubSeqProperties
  <2>3. \A k \in 1..N - n : (n + 1) + k - 1 = n + k
    BY <1>1
  <2> HIDE DEF q
  <2>4. (IF n + 1 <= N THEN N - (n + 1) + 1 ELSE 0) = N - n
    BY <1>1
  <2> QED BY <1>2, <2>1, <2>2, <2>3, <2>4
<1> HIDE DEF a, q
<1>5. ch \in C
  BY <1>1
<1>6. u \in Seq(C) /\ Len(u) = n /\ \A k \in 1..n : u[k] = s[k]
  <2>1. /\ u \in Seq(C) /\ Len(u) = Len(a) + 1 /\ u[Len(a) + 1] = ch
        /\ \A k \in 1..Len(a) : u[k] = a[k]
    BY <1>3, <1>5, AppendProperties
  <2> HIDE DEF u
  <2> QED BY <1>1, <1>3, <2>1
<1> HIDE DEF u
<1>7. all \in Seq(C) /\ Len(all) = n + (N - n)
      /\ \A k \in 1..n + (N - n) : all[k] = IF k <= n THEN u[k] ELSE q[k - n]
  <2>1. /\ all \in Seq(C) /\ Len(all) = Len(u) + Len(q)
        /\ \A k \in 1..Len(u) + Len(q) : all[k] = IF k <= Len(u) THEN u[k] ELSE q[k - Len(u)]
    BY <1>4, <1>6, ConcatProperties
  <2> HIDE DEF all
  <2> QED BY <1>4, <1>6, <2>1, Zenon
<1> HIDE DEF all
<1>8. Len(all) = N /\ \A k \in 1..N : all[k] = s[k]
  <2>1. n + (N - n) = N
    BY <1>1
  <2>2. ASSUME NEW k \in 1..N PROVE all[k] = s[k]
    <3>1. CASE k <= n
      BY <1>1, <1>6, <1>7, <2>1, <3>1
    <3>2. CASE ~(k <= n)
      <4>1. k - n \in 1..N - n /\ n + (k - n) = k
        BY <1>1, <3>2
      <4> QED BY <1>4, <1>7, <2>1, <3>2, <4>1
    <3> QED BY <3>1, <3>2
  <2> QED BY <1>7, <2>1, <2>2
<1>9. s = all
  BY <1>7, <1>8, SeqEqual DEF N
<1> QED BY <1>9 DEF all, u, a, q

LEMMA NoNul ==
    ASSUME NEW s \in Str
    PROVE  Until(s, NUL) = s
<1>1. \A i \in DOMAIN s : s[i] \in Char
  BY DEF Str
<1>2. NUL \notin Char
  BY DEF Char, NUL
<1>3. Places(s, NUL) = {}
  BY <1>1, <1>2 DEF Places
<1> QED BY <1>3, UntilAll

(***************************************************************************)
(* The parts of a text, texts one behind the other, and parts less some.   *)
(***************************************************************************)
Parts(C) == Seq(Seq(C)) \ {<<>>}

\* A part has no separator.
LEMMA WithCharType ==
    ASSUME NEW C, NEW separator, NEW parts \in Parts(C \ {separator}), NEW ch \in C
    PROVE  WithChar(parts, ch, separator) \in Parts(C \ {separator})
<1> DEFINE n == Len(parts)
           t == Append(parts[n], ch)
           D == C \ {separator}
<1>1. parts \in Seq(Seq(D)) /\ n \in 1..Len(parts) /\ n \in Nat /\ parts[n] \in Seq(D)
      /\ <<>> \in Seq(D)
  BY EmptySeq DEF Parts
<1>2. CASE ch = separator
  BY <1>1, <1>2, AppendProperties DEF Parts, WithChar
<1>3. CASE ch # separator
  <2>1. t \in Seq(D)
    <3>1. ch \in D
      BY <1>3
    <3> HIDE DEF D
    <3> QED BY <1>1, <3>1, AppendProperties
  <2>2. WithChar(parts, ch, separator) = [parts EXCEPT ![n] = t]
    BY <1>3 DEF WithChar
  <2> HIDE DEF t, n, D
  <2>3. [parts EXCEPT ![n] = t] \in Seq(Seq(D)) /\ Len([parts EXCEPT ![n] = t]) = Len(parts)
    BY <1>1, <2>1, ExceptSeq
  <2>4. [parts EXCEPT ![n] = t] # <<>>
    BY <1>1, <2>3, EmptySeq
  <2> QED BY <2>2, <2>3, <2>4 DEF Parts, D
<1> QED BY <1>2, <1>3

\* The states of Split.
SplitRun(f, s, C, separator) ==
    /\ f \in [0..Len(s) -> Parts(C \ {separator})]
    /\ f[0] = << <<>> >>
    /\ \A i \in 1..Len(s) : f[i] = WithChar(f[i - 1], s[i], separator)

LEMMA SplitRuns ==
    ASSUME NEW C, NEW separator, NEW s \in Seq(C)
    PROVE  \E f : SplitRun(f, s, C, separator) /\ Split(s, separator) = f[Len(s)]
<1> DEFINE N == Len(s)
           V == Parts(C \ {separator})
           b == << <<>> >>
           Step(v, x) == WithChar(v, x, separator)
           Rec(f) == f = [i \in 0..N |-> IF i = 0 THEN b ELSE Step(f[i - 1], s[i])]
           h == CHOOSE f : Rec(f)
           g == [p \in V \X (1..N) |-> Step(p[1], s[p[2]])]
<1>1. N \in Nat /\ b \in V /\ g \in Steps(N, V)
  <2>1. b \in V
    BY EmptySeq DEF Parts
  <2>2. \A v \in V, e \in C : Step(v, e) \in V
    BY WithCharType
  <2>3. \A i \in 1..N : s[i] \in C
    OBVIOUS
  <2> HIDE DEF V, b, Step
  <2>4. g \in Steps(N, V)
    BY <2>2, <2>3, Zenon DEF Steps
  <2> QED BY <2>1, <2>4
<1> HIDE DEF Step
<1>2. PICK f : Iterates(f, N, V, b, g)
  <2> HIDE DEF N, V, b, g
  <2> QED BY <1>1, RecursionExists
<1>3. /\ f \in [0..N -> V] /\ f[0] = b
      /\ \A i \in 1..N : f[i] = Step(f[i - 1], s[i])
  <2>1. \A v \in V, i \in 1..N : g[<<v, i>>] = Step(v, s[i])
    <3> HIDE DEF V, b
    <3> QED BY Zenon
  <2>2. \A i \in 1..N : i - 1 \in 0..N
    BY <1>1
  <2> HIDE DEF N, V, b, g
  <2> QED BY <1>2, <2>1, <2>2 DEF Iterates
<1> HIDE DEF N, V, b
<1>4. Rec(f)
  <2>1. ASSUME NEW i \in 0..N PROVE f[i] = IF i = 0 THEN b ELSE Step(f[i - 1], s[i])
    <3>1. i # 0 => i \in 1..N
      BY <1>1
    <3> QED BY <1>3, <3>1
  <2> QED BY <1>3, <2>1
<1>5. Rec(h)
  BY <1>4
<1>6. Split(s, separator) = h[N]
  BY DEF Split, N, b, Step
<1>7. h[N] = f[N]
  <2> HIDE DEF h
  <2>1. SameSteps(h, f, N)
    BY <1>1, <1>4, <1>5 DEF SameSteps
  <2> QED BY <1>1, <2>1, SameStepsAgree
<1>8. SplitRun(f, s, C, separator)
  BY <1>3 DEF SplitRun, N, V, b, Step
<1> HIDE DEF h
<1> QED BY <1>6, <1>7, <1>8 DEF N

\* A text that is longer by a character.
LEMMA SplitAppend ==
    ASSUME NEW C, NEW separator, NEW s \in Seq(C), NEW e \in C
    PROVE  /\ Split(s, separator) \in Parts(C \ {separator})
           /\ Split(Append(s, e), separator) = WithChar(Split(s, separator), e, separator)
<1> DEFINE N == Len(s)
           more == Append(s, e)
<1>1. /\ N \in Nat /\ more \in Seq(C) /\ Len(more) = N + 1
      /\ more[N + 1] = e /\ \A n \in 1..N : more[n] = s[n]
  BY AppendProperties
<1>2. PICK f : SplitRun(f, s, C, separator) /\ Split(s, separator) = f[N]
  BY SplitRuns
<1>3. PICK d : SplitRun(d, more, C, separator) /\ Split(more, separator) = d[N + 1]
  <2> HIDE DEF more
  <2> QED BY <1>1, SplitRuns
<1> HIDE DEF more, N
<1>4. SameSteps(d, f, N)
  <2>1. f[0] = << <<>> >> /\ \A i \in 1..N : f[i] = WithChar(f[i - 1], s[i], separator)
    BY <1>2 DEF SplitRun, N
  <2>2. d[0] = << <<>> >> /\ \A i \in 1..N : d[i] = WithChar(d[i - 1], s[i], separator)
    <3>1. \A i \in 1..N : i \in 1..Len(more)
      BY <1>1
    <3> QED BY <1>1, <1>3, <3>1, Zenon DEF SplitRun
  <2> QED BY <2>1, <2>2 DEF SameSteps
<1>5. d[N] = f[N]
  BY <1>1, <1>4, SameStepsAgree
<1>6. f[N] \in Parts(C \ {separator})
  <2>1. N \in 0..N
    BY <1>1
  <2>2. f \in [0..N -> Parts(C \ {separator})]
    BY <1>2, Zenon DEF SplitRun, N
  <2> QED BY <2>1, <2>2
<1>7. d[N + 1] = WithChar(d[N], e, separator)
  <2>1. N + 1 \in 1..Len(more) /\ (N + 1) - 1 = N
    BY <1>1
  <2> QED BY <1>1, <1>3, <2>1, Zenon DEF SplitRun
<1> QED BY <1>2, <1>3, <1>5, <1>6, <1>7, Zenon DEF more

\* Of nothing.
LEMMA SplitEmpty ==
    ASSUME NEW C, NEW separator, TRUE
    PROVE  Split(<<>>, separator) = << <<>> >>
<1>1. <<>> \in Seq(C) /\ Len(<<>>) = 0
  BY EmptySeq
<1>2. PICK f : SplitRun(f, <<>>, C, separator) /\ Split(<<>>, separator) = f[Len(<<>>)]
  BY <1>1, SplitRuns
<1> QED BY <1>1, <1>2, Zenon DEF SplitRun

\* The states of Concat.
ConcatRun(f, parts, C) ==
    /\ f \in [0..Len(parts) -> Seq(C)]
    /\ f[0] = <<>>
    /\ \A i \in 1..Len(parts) : f[i] = f[i - 1] \o parts[i]

LEMMA ConcatRuns ==
    ASSUME NEW C, NEW parts \in Seq(Seq(C))
    PROVE  \E f : ConcatRun(f, parts, C) /\ Concat(parts) = f[Len(parts)]
<1> DEFINE N == Len(parts)
           V == Seq(C)
           b == <<>>
           Step(v, x) == v \o x
           Rec(f) == f = [i \in 0..N |-> IF i = 0 THEN b ELSE Step(f[i - 1], parts[i])]
           h == CHOOSE f : Rec(f)
           g == [p \in V \X (1..N) |-> Step(p[1], parts[p[2]])]
<1>1. N \in Nat /\ b \in V /\ g \in Steps(N, V)
  <2>1. b \in V
    BY EmptySeq
  <2>2. \A v \in V, e \in Seq(C) : Step(v, e) \in V
    BY ConcatProperties
  <2>3. \A i \in 1..N : parts[i] \in Seq(C)
    OBVIOUS
  <2> HIDE DEF V, b, Step
  <2>4. g \in Steps(N, V)
    BY <2>2, <2>3, Zenon DEF Steps
  <2> QED BY <2>1, <2>4
<1> HIDE DEF Step
<1>2. PICK f : Iterates(f, N, V, b, g)
  <2> HIDE DEF N, V, b, g
  <2> QED BY <1>1, RecursionExists
<1>3. /\ f \in [0..N -> V] /\ f[0] = b
      /\ \A i \in 1..N : f[i] = Step(f[i - 1], parts[i])
  <2>1. \A v \in V, i \in 1..N : g[<<v, i>>] = Step(v, parts[i])
    <3> HIDE DEF V, b
    <3> QED BY Zenon
  <2>2. \A i \in 1..N : i - 1 \in 0..N
    BY <1>1
  <2> HIDE DEF N, V, b, g
  <2> QED BY <1>2, <2>1, <2>2 DEF Iterates
<1> HIDE DEF N, V, b
<1>4. Rec(f)
  <2>1. ASSUME NEW i \in 0..N PROVE f[i] = IF i = 0 THEN b ELSE Step(f[i - 1], parts[i])
    <3>1. i # 0 => i \in 1..N
      BY <1>1
    <3> QED BY <1>3, <3>1
  <2> QED BY <1>3, <2>1
<1>5. Rec(h)
  BY <1>4
<1>6. Concat(parts) = h[N]
  BY DEF Concat, N, b, Step
<1>7. h[N] = f[N]
  <2> HIDE DEF h
  <2>1. SameSteps(h, f, N)
    BY <1>1, <1>4, <1>5 DEF SameSteps
  <2> QED BY <1>1, <2>1, SameStepsAgree
<1>8. ConcatRun(f, parts, C)
  BY <1>3 DEF ConcatRun, N, V, b, Step
<1> HIDE DEF h
<1> QED BY <1>6, <1>7, <1>8 DEF N

\* One text more.
LEMMA ConcatAppend ==
    ASSUME NEW C, NEW parts \in Seq(Seq(C)), NEW e \in Seq(C)
    PROVE  /\ Concat(parts) \in Seq(C)
           /\ Concat(Append(parts, e)) = Concat(parts) \o e
<1> DEFINE N == Len(parts)
           more == Append(parts, e)
<1>1. /\ N \in Nat /\ more \in Seq(Seq(C)) /\ Len(more) = N + 1
      /\ more[N + 1] = e /\ \A n \in 1..N : more[n] = parts[n]
  BY AppendProperties
<1>2. PICK f : ConcatRun(f, parts, C) /\ Concat(parts) = f[N]
  BY ConcatRuns
<1>3. PICK d : ConcatRun(d, more, C) /\ Concat(more) = d[N + 1]
  <2> HIDE DEF more
  <2> QED BY <1>1, ConcatRuns
<1> HIDE DEF more, N
<1>4. SameSteps(d, f, N)
  <2>1. f[0] = <<>> /\ \A i \in 1..N : f[i] = f[i - 1] \o parts[i]
    BY <1>2 DEF ConcatRun, N
  <2>2. d[0] = <<>> /\ \A i \in 1..N : d[i] = d[i - 1] \o parts[i]
    <3>1. \A i \in 1..N : i \in 1..Len(more)
      BY <1>1
    <3> QED BY <1>1, <1>3, <3>1, Zenon DEF ConcatRun
  <2> QED BY <2>1, <2>2 DEF SameSteps
<1>5. d[N] = f[N]
  BY <1>1, <1>4, SameStepsAgree
<1>6. f[N] \in Seq(C)
  <2>1. N \in 0..N
    BY <1>1
  <2>2. f \in [0..N -> Seq(C)]
    BY <1>2, Zenon DEF ConcatRun, N
  <2> QED BY <2>1, <2>2
<1>7. d[N + 1] = d[N] \o e
  <2>1. N + 1 \in 1..Len(more) /\ (N + 1) - 1 = N
    BY <1>1
  <2> QED BY <1>1, <1>3, <2>1, Zenon DEF ConcatRun
<1> QED BY <1>2, <1>3, <1>5, <1>6, <1>7, Zenon DEF more

\* Of nothing.
LEMMA ConcatEmpty ==
    ASSUME NEW C, TRUE
    PROVE  Concat(<<>>) = <<>>
<1>1. <<>> \in Seq(Seq(C)) /\ Len(<<>>) = 0
  BY EmptySeq
<1>2. PICK f : ConcatRun(f, <<>>, C) /\ Concat(<<>>) = f[Len(<<>>)]
  BY <1>1, ConcatRuns
<1> QED BY <1>1, <1>2, Zenon DEF ConcatRun


\* One part more, if it counts.
KeptWith(kept, part, out) == IF part \in out THEN kept ELSE Append(kept, part)

LEMMA KeptType ==
    ASSUME NEW C, NEW out
    PROVE  \A v \in Seq(C \ out), e \in C : KeptWith(v, e, out) \in Seq(C \ out)
<1> SUFFICES ASSUME NEW v \in Seq(C \ out), NEW e \in C
             PROVE  KeptWith(v, e, out) \in Seq(C \ out)
  OBVIOUS
<1>1. CASE e \in out
  BY <1>1, Zenon DEF KeptWith
<1>2. CASE e \notin out
  <2>1. Append(v, e) \in Seq(C \ out)
    BY <1>2, AppendProperties
  <2> QED BY <1>2, <2>1, Zenon DEF KeptWith
<1> QED BY <1>1, <1>2

\* The states of Without.
WithoutRun(f, parts, C, out) ==
    /\ f \in [0..Len(parts) -> Seq(C \ out)]
    /\ f[0] = <<>>
    /\ \A i \in 1..Len(parts) : f[i] = KeptWith(f[i - 1], parts[i], out)

LEMMA WithoutRuns ==
    ASSUME NEW C, NEW out, NEW parts \in Seq(C)
    PROVE  \E f : WithoutRun(f, parts, C, out) /\ Without(parts, out) = f[Len(parts)]
<1> DEFINE N == Len(parts)
           V == Seq(C \ out)
           b == <<>>
           Step(v, x) == KeptWith(v, x, out)
           Rec(f) == f = [i \in 0..N |-> IF i = 0 THEN b ELSE Step(f[i - 1], parts[i])]
           h == CHOOSE f : Rec(f)
           g == [p \in V \X (1..N) |-> Step(p[1], parts[p[2]])]
<1>1. N \in Nat /\ b \in V /\ g \in Steps(N, V)
  <2>1. b \in V
    BY EmptySeq
  <2>2. \A v \in V, e \in C : Step(v, e) \in V
    BY KeptType
  <2>3. \A i \in 1..N : parts[i] \in C
    OBVIOUS
  <2> HIDE DEF V, b, Step
  <2>4. g \in Steps(N, V)
    BY <2>2, <2>3, Zenon DEF Steps
  <2> QED BY <2>1, <2>4
<1> HIDE DEF Step
<1>2. PICK f : Iterates(f, N, V, b, g)
  <2> HIDE DEF N, V, b, g
  <2> QED BY <1>1, RecursionExists
<1>3. /\ f \in [0..N -> V] /\ f[0] = b
      /\ \A i \in 1..N : f[i] = Step(f[i - 1], parts[i])
  <2>1. \A v \in V, i \in 1..N : g[<<v, i>>] = Step(v, parts[i])
    <3> HIDE DEF V, b
    <3> QED BY Zenon
  <2>2. \A i \in 1..N : i - 1 \in 0..N
    BY <1>1
  <2> HIDE DEF N, V, b, g
  <2> QED BY <1>2, <2>1, <2>2 DEF Iterates
<1> HIDE DEF N, V, b
<1>4. Rec(f)
  <2>1. ASSUME NEW i \in 0..N PROVE f[i] = IF i = 0 THEN b ELSE Step(f[i - 1], parts[i])
    <3>1. i # 0 => i \in 1..N
      BY <1>1
    <3> QED BY <1>3, <3>1
  <2> QED BY <1>3, <2>1
<1>5. Rec(h)
  BY <1>4
<1>6. Without(parts, out) = h[N]
  BY DEF Without, KeptWith, N, b, Step
<1>7. h[N] = f[N]
  <2> HIDE DEF h
  <2>1. SameSteps(h, f, N)
    BY <1>1, <1>4, <1>5 DEF SameSteps
  <2> QED BY <1>1, <2>1, SameStepsAgree
<1>8. WithoutRun(f, parts, C, out)
  BY <1>3 DEF WithoutRun, N, V, b, Step
<1> HIDE DEF h
<1> QED BY <1>6, <1>7, <1>8 DEF N

\* Nothing comes from elsewhere.
LEMMA WithoutType ==
    ASSUME NEW C, NEW out, NEW parts \in Seq(C)
    PROVE  Without(parts, out) \in Seq(C)
<1> DEFINE N == Len(parts)
<1>1. PICK f : WithoutRun(f, parts, C, out) /\ Without(parts, out) = f[N]
  BY WithoutRuns
<1>2. f \in [0..N -> Seq(C \ out)]
  BY <1>1, Zenon DEF WithoutRun
<1>3. N \in 0..N
  OBVIOUS
<1> HIDE DEF N
<1>4. f[N] \in Seq(C \ out)
  BY <1>2, <1>3
<1>5. Seq(C \ out) \subseteq Seq(C)
  OBVIOUS
<1> QED BY <1>1, <1>4, <1>5

\* One part more.
LEMMA WithoutAppend ==
    ASSUME NEW C, NEW out, NEW parts \in Seq(C), NEW e \in C
    PROVE  /\ Without(parts, out) \in Seq(C \ out)
           /\ Without(Append(parts, e), out) = KeptWith(Without(parts, out), e, out)
<1> DEFINE N == Len(parts)
           more == Append(parts, e)
<1>1. /\ N \in Nat /\ more \in Seq(C) /\ Len(more) = N + 1
      /\ more[N + 1] = e /\ \A n \in 1..N : more[n] = parts[n]
  BY AppendProperties
<1>2. PICK f : WithoutRun(f, parts, C, out) /\ Without(parts, out) = f[N]
  BY WithoutRuns
<1>3. PICK d : WithoutRun(d, more, C, out) /\ Without(more, out) = d[N + 1]
  <2> HIDE DEF more
  <2> QED BY <1>1, WithoutRuns
<1> HIDE DEF more, N
<1>4. SameSteps(d, f, N)
  <2>1. f[0] = <<>> /\ \A i \in 1..N : f[i] = KeptWith(f[i - 1], parts[i], out)
    BY <1>2 DEF WithoutRun, N
  <2>2. d[0] = <<>> /\ \A i \in 1..N : d[i] = KeptWith(d[i - 1], parts[i], out)
    <3>1. \A i \in 1..N : i \in 1..Len(more)
      BY <1>1
    <3> QED BY <1>1, <1>3, <3>1, Zenon DEF WithoutRun
  <2> QED BY <2>1, <2>2 DEF SameSteps
<1>5. d[N] = f[N]
  BY <1>1, <1>4, SameStepsAgree
<1>6. f[N] \in Seq(C \ out)
  <2>1. N \in 0..N
    BY <1>1
  <2>2. f \in [0..N -> Seq(C \ out)]
    BY <1>2, Zenon DEF WithoutRun, N
  <2> QED BY <2>1, <2>2
<1>7. d[N + 1] = KeptWith(d[N], e, out)
  <2>1. N + 1 \in 1..Len(more) /\ (N + 1) - 1 = N
    BY <1>1
  <2> QED BY <1>1, <1>3, <2>1, Zenon DEF WithoutRun
<1> QED BY <1>2, <1>3, <1>5, <1>6, <1>7, Zenon DEF more

\* Of nothing.
LEMMA WithoutEmpty ==
    ASSUME NEW C, NEW out, TRUE
    PROVE  Without(<<>>, out) = <<>>
<1>1. <<>> \in Seq(C) /\ Len(<<>>) = 0
  BY EmptySeq
<1>2. PICK f : WithoutRun(f, <<>>, C, out) /\ Without(<<>>, out) = f[Len(<<>>)]
  BY <1>1, WithoutRuns
<1> QED BY <1>1, <1>2, Zenon DEF WithoutRun

\* A character more, the last part apart.
LEMMA WithCharAppend ==
    ASSUME NEW C, NEW done \in Seq(Seq(C)), NEW c \in Seq(C), NEW ch \in C, NEW sep
    PROVE  WithChar(Append(done, c), ch, sep) = IF ch = sep THEN Append(Append(done, c), <<>>)
                                                ELSE Append(done, Append(c, ch))
<1> DEFINE p == Append(done, c)
           N == Len(done)
           more == Append(c, ch)
           q == Append(done, more)
           w == [p EXCEPT ![N + 1] = more]
<1>1. /\ p \in Seq(Seq(C)) /\ Len(p) = N + 1 /\ N \in Nat /\ p[N + 1] = c
      /\ \A i \in 1..N : p[i] = done[i]
  BY AppendProperties
<1>2. more \in Seq(C)
  BY AppendProperties
<1>3. WithChar(p, ch, sep) = IF ch = sep THEN Append(p, <<>>) ELSE w
  <2> HIDE DEF p
  <2>1. Append(p[N + 1], ch) = more
    BY <1>1
  <2> HIDE DEF more
  <2> QED BY <1>1, <2>1 DEF WithChar
<1> HIDE DEF more, p
<1>4. /\ q \in Seq(Seq(C)) /\ Len(q) = N + 1 /\ q[N + 1] = more
      /\ \A i \in 1..N : q[i] = done[i]
  BY <1>2, AppendProperties
<1>5. /\ w \in Seq(Seq(C)) /\ Len(w) = N + 1
      /\ \A j \in 1..N + 1 : w[j] = IF j = N + 1 THEN more ELSE p[j]
  <2>1. N + 1 \in 1..Len(p)
    BY <1>1
  <2> QED BY <1>1, <1>2, <2>1, ExceptSeq
<1> HIDE DEF q, w
<1>6. \A i \in 1..N + 1 : w[i] = q[i]
  <2>1. \A i \in 1..N + 1 : i = N + 1 \/ (i \in 1..N /\ i # N + 1)
    BY <1>1
  <2> HIDE DEF N
  <2> QED BY <1>1, <1>4, <1>5, <2>1
<1>7. w = q
  <2>1. \A i \in 1..Len(w) : w[i] = q[i]
    BY <1>5, <1>6
  <2> QED BY <1>4, <1>5, <2>1, SeqEqual
<1> QED BY <1>3, <1>7, Zenon DEF p, q, more

\* Where two texts go when one is put behind the other.
Joins(u, s, t) ==
    /\ Len(u) = Len(s) + Len(t) /\ Len(s) \in Nat /\ Len(t) \in Nat
    /\ \A i \in 1..Len(s) : u[i] = s[i]
    /\ \A i \in 1..Len(t) : u[i + Len(s)] = t[i]

LEMMA ConcatJoins ==
    ASSUME NEW C, NEW s \in Seq(C), NEW t \in Seq(C)
    PROVE  s \o t \in Seq(C) /\ Joins(s \o t, s, t)
<1> DEFINE u == s \o t
<1>1. /\ u \in Seq(C) /\ Len(u) = Len(s) + Len(t)
      /\ \A i \in 1..Len(s) + Len(t) : u[i] = IF i <= Len(s) THEN s[i] ELSE t[i - Len(s)]
  BY ConcatProperties
<1>2. Len(s) \in Nat /\ Len(t) \in Nat
  OBVIOUS
<1> HIDE DEF u
<1>3. \A i \in 1..Len(s) : u[i] = s[i]
  BY <1>1, <1>2
<1>4. ASSUME NEW i \in 1..Len(t) PROVE u[i + Len(s)] = t[i]
  <2>1. i + Len(s) \in 1..Len(s) + Len(t) /\ ~ (i + Len(s) <= Len(s)) /\ (i + Len(s)) - Len(s) = i
    BY <1>2
  <2> QED BY <1>1, <2>1, Zenon
<1>5. Joins(u, s, t)
  BY <1>1, <1>2, <1>3, <1>4, Zenon DEF Joins
<1> QED BY <1>1, <1>5 DEF u

\* What texts one behind the other begin with.
Heads(a, b) ==
    /\ Len(a) \in Nat /\ Len(b) \in Nat /\ Len(a) <= Len(b)
    /\ \A j \in 1..Len(a) : b[j] = a[j]

LEMMA ConcatBegins ==
    ASSUME NEW C, NEW parts \in Seq(Seq(C)), NEW f, ConcatRun(f, parts, C), NEW k \in 0..Len(parts)
    PROVE  Heads(f[k], f[Len(parts)])
<1> DEFINE N == Len(parts)
           Begins(a, b) == Len(a) <= Len(b) /\ \A j \in 1..Len(a) : b[j] = a[j]
           S == {n \in 0..N : k <= n => Begins(f[k], f[n])}
<1>1. N \in Nat /\ k \in 0..N /\ k \in Nat
  OBVIOUS
<1>2. /\ f \in [0..N -> Seq(C)]
      /\ \A i \in 1..N : f[i] = f[i - 1] \o parts[i] /\ parts[i] \in Seq(C)
  BY Zenon, ElementOfSeq DEF ConcatRun
<1>3. \A i \in 0..N : f[i] \in Seq(C) /\ Len(f[i]) \in Nat
  BY <1>2
<1>4. Begins(f[k], f[k])
  BY <1>1, <1>3
<1>5. 0 \in S
  <2>1. k <= 0 => k = 0
    BY <1>1
  <2>2. 0 \in 0..N
    BY <1>1
  <2> HIDE DEF Begins
  <2> QED BY <1>4, <2>1, <2>2
<1>6. ASSUME NEW n \in 0..N, n < N, n \in S PROVE n + 1 \in S
  <2>1. n + 1 \in 1..N /\ n + 1 \in 0..N /\ (n + 1) - 1 = n /\ n \in Nat
    BY <1>1, <1>6
  <2>2. f[n + 1] = f[n] \o parts[n + 1] /\ parts[n + 1] \in Seq(C) /\ f[n] \in Seq(C)
    BY <1>2, <1>3, <2>1
  <2>3. Len(f[n]) \in Nat /\ Len(f[n + 1]) \in Nat /\ Len(f[k]) \in Nat
    BY <1>1, <1>3, <2>1
  <2>4. Joins(f[n] \o parts[n + 1], f[n], parts[n + 1])
    BY <2>2, ConcatJoins
  <2>5. Begins(f[n], f[n + 1])
    <3>1. /\ Len(f[n + 1]) = Len(f[n]) + Len(parts[n + 1]) /\ Len(parts[n + 1]) \in Nat
          /\ \A i \in 1..Len(f[n]) : f[n + 1][i] = f[n][i]
      BY <2>2, <2>4, Zenon DEF Joins
    <3>2. \A x, y, z \in Nat : z = x + y => x <= z
      OBVIOUS
    <3> QED BY <2>3, <3>1, <3>2, Zenon
  <2>6. CASE k = n + 1
    BY <1>4, <2>1, <2>6
  <2>7. CASE k <= n
    <3>1. Begins(f[k], f[n])
      BY <1>6, <2>7
    <3>2. Begins(f[k], f[n + 1])
      <4>1. Len(f[k]) <= Len(f[n]) /\ Len(f[n]) <= Len(f[n + 1])
        BY <2>5, <3>1, Zenon
      <4>2. \A j \in 1..Len(f[k]) : j \in 1..Len(f[n])
        BY <2>3, <4>1
      <4>3. \A j \in 1..Len(f[k]) : f[n + 1][j] = f[k][j]
        BY <2>5, <3>1, <4>2, Zenon
      <4>4. Len(f[k]) <= Len(f[n + 1])
        BY <2>3, <4>1
      <4> QED BY <4>3, <4>4
    <3> HIDE DEF Begins
    <3> QED BY <2>1, <3>2
  <2>8. CASE ~ (k <= n + 1)
    BY <2>1, <2>8
  <2>9. k = n + 1 \/ k <= n \/ ~ (k <= n + 1)
    BY <1>1, <2>1
  <2> HIDE DEF S
  <2> QED BY <2>6, <2>7, <2>8, <2>9
<1>7. N \in S
  <2> HIDE DEF S
  <2>1. 0..N \subseteq S
    BY <1>1, <1>5, <1>6, SetInduction
  <2>2. N \in 0..N
    BY <1>1
  <2> QED BY <2>1, <2>2
<1>8. k <= N /\ N \in 0..N
  BY <1>1
<1>9. Begins(f[k], f[N])
  BY <1>7, <1>8
<1>10. Len(f[k]) \in Nat /\ Len(f[N]) \in Nat
  BY <1>1, <1>3, <1>8
<1> QED BY <1>9, <1>10, Zenon DEF Heads

LEMMA ConcatOne ==
    ASSUME NEW C, NEW s \in Seq(C), NEW t \in Seq(C), NEW e \in C
    PROVE  s \o Append(t, e) = Append(s \o t, e)
<1> DEFINE z == <<e>>
<1>1. z \in Seq(C)
  OBVIOUS
<1>2. Append(t, e) = t \o z
  BY AppendIsConcat
<1>3. s \o t \in Seq(C)
  BY ConcatProperties
<1>4. Append(s \o t, e) = (s \o t) \o z
  <2> DEFINE u == s \o t
  <2>1. u \in Seq(C)
    BY <1>3
  <2> HIDE DEF u
  <2>2. Append(u, e) = u \o z
    BY <2>1, AppendIsConcat
  <2> QED BY <2>2 DEF u
<1> HIDE DEF z
<1>5. (s \o t) \o z = s \o (t \o z)
  BY <1>1, ConcatAssociative
<1> QED BY <1>2, <1>4, <1>5

\* A text that is longer by an element, read up to or from some place.
LEMMA PrefixKept ==
    ASSUME NEW C, NEW s \in Seq(C), NEW e \in C, NEW n \in 0..Len(s)
    PROVE  SubSeq(Append(s, e), 1, n) = SubSeq(s, 1, n)
<1> DEFINE t == Append(s, e)
<1>1. t \in Seq(C) /\ Len(s) \in Nat /\ n \in Int /\ \A k \in 1..Len(s) : t[k] = s[k] /\ s[k] \in C
  BY AppendProperties
<1> HIDE DEF t
<1>2. \A k \in 1..n : t[k] = s[k] /\ s[k] \in C /\ t[k] \in C
  BY <1>1
<1>3. /\ SubSeq(t, 1, n) \in Seq(C) /\ Len(SubSeq(t, 1, n)) = IF 1 <= n THEN n - 1 + 1 ELSE 0
      /\ \A k \in 1..n - 1 + 1 : SubSeq(t, 1, n)[k] = t[1 + k - 1]
  BY <1>1, <1>2, SubSeqProperties
<1>4. /\ SubSeq(s, 1, n) \in Seq(C) /\ Len(SubSeq(s, 1, n)) = IF 1 <= n THEN n - 1 + 1 ELSE 0
      /\ \A k \in 1..n - 1 + 1 : SubSeq(s, 1, n)[k] = s[1 + k - 1]
  BY <1>1, <1>2, SubSeqProperties
<1> DEFINE x == SubSeq(t, 1, n)
           y == SubSeq(s, 1, n)
<1>5. Len(x) = Len(y) /\ \A k \in 1..Len(x) : k \in 1..n /\ k \in 1..n - 1 + 1 /\ 1 + k - 1 = k
  BY <1>1, <1>3, <1>4
<1> HIDE DEF x, y
<1>6. x \in Seq(C) /\ y \in Seq(C) /\ \A k \in 1..Len(x) : x[k] = y[k]
  BY <1>2, <1>3, <1>4, <1>5 DEF x, y
<1>7. x = y
  BY <1>5, <1>6, SeqEqual
<1> QED BY <1>7 DEF x, y, t

LEMMA SuffixGrows ==
    ASSUME NEW C, NEW s \in Seq(C), NEW e \in C, NEW m \in 1..Len(s) + 1
    PROVE  SubSeq(Append(s, e), m, Len(s) + 1) = Append(SubSeq(s, m, Len(s)), e)
<1> DEFINE t == Append(s, e)
           N == Len(s)
<1>1. /\ t \in Seq(C) /\ Len(t) = N + 1 /\ N \in Nat /\ \A k \in 1..N : t[k] = s[k]
      /\ t[N + 1] = e /\ m \in 1..N + 1
  BY AppendProperties
<1>2. SubSeq(t, m, N + 1) = SubSeq(t, m, N) \o <<e>>
  <2>1. m \in 1..Len(t) /\ N + 1 \in m..Len(t) /\ (N + 1) - 1 = N
    BY <1>1
  <2> HIDE DEF t
  <2>2. SubSeq(t, m, N + 1) = SubSeq(t, m, (N + 1) - 1) \o <<t[N + 1]>>
    BY <1>1, <2>1, SubSeqRecursiveSecond
  <2> QED BY <1>1, <2>1, <2>2
<1>3. SubSeq(t, m, N) = SubSeq(s, m, N) /\ SubSeq(s, m, N) \in Seq(C)
  <2> HIDE DEF t
  <2> DEFINE x == SubSeq(t, m, N)
             y == SubSeq(s, m, N)
  <2>1. \A k \in m..N : t[k] = s[k] /\ s[k] \in C /\ t[k] \in C
    BY <1>1
  <2>2. /\ x \in Seq(C) /\ Len(x) = IF m <= N THEN N - m + 1 ELSE 0
        /\ \A k \in 1..N - m + 1 : x[k] = t[m + k - 1]
    BY <1>1, <2>1, SubSeqProperties
  <2>3. /\ y \in Seq(C) /\ Len(y) = IF m <= N THEN N - m + 1 ELSE 0
        /\ \A k \in 1..N - m + 1 : y[k] = s[m + k - 1]
    BY <1>1, <2>1, SubSeqProperties
  <2> HIDE DEF x, y, N
  <2>4. Len(x) = Len(y) /\ \A k \in 1..Len(x) : k \in 1..N - m + 1 /\ m + k - 1 \in m..N
    BY <1>1, <2>2, <2>3
  <2>5. \A k \in 1..Len(x) : x[k] = y[k]
    BY <2>1, <2>2, <2>3, <2>4
  <2>6. x = y
    BY <2>2, <2>3, <2>4, <2>5, SeqEqual
  <2> QED BY <2>3, <2>6 DEF x, y
<1>4. Append(SubSeq(s, m, N), e) = SubSeq(s, m, N) \o <<e>>
  BY <1>3, AppendIsConcat
<1> QED BY <1>2, <1>3, <1>4

\* What a sequence has been appended to, and by what.
LEMMA LastOf ==
    ASSUME NEW C, NEW s \in Seq(C), NEW e \in C, NEW t \in Seq(C), NEW x \in C,
           Append(s, e) = Append(t, x)
    PROVE  s = t /\ e = x
<1> DEFINE u == Append(s, e)
           w == Append(t, x)
<1>1. /\ Len(u) = Len(s) + 1 /\ u[Len(s) + 1] = e /\ \A i \in 1..Len(s) : u[i] = s[i]
      /\ Len(w) = Len(t) + 1 /\ w[Len(t) + 1] = x /\ \A i \in 1..Len(t) : w[i] = t[i]
      /\ Len(s) \in Nat /\ Len(t) \in Nat
  BY AppendProperties
<1>2. u = w
  OBVIOUS
<1> HIDE DEF u, w
<1>3. Len(s) = Len(t) /\ e = x
  BY <1>1, <1>2
<1>4. \A i \in 1..Len(s) : s[i] = t[i]
  BY <1>1, <1>2, <1>3
<1> QED BY <1>3, <1>4, SeqEqual
=========================================================================
