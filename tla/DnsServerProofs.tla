------------------------- MODULE DnsServerProofs ------------------------
(***************************************************************************)
(* Proofs about DnsServer, for any clients, names, types and number of     *)
(* datagrams: a name in which dn_expand has nothing to escape survives the *)
(* way from the wire to text and back, a complete query for such a name    *)
(* gets its own answer, no client gets more replies than it has sent       *)
(* datagrams, and a resolver reads every reply to its last byte.           *)
(***************************************************************************)
EXTENDS DnsServer, Recursion

(***************************************************************************)
(* Names: what dn_expand writes and encode_domain reads.                   *)
(***************************************************************************)
Char  == STRING \cup {Dot, Escape}
Label == Seq(Char)

\* A plain label is spelled as it is.
PlainLabel(label) == \A j \in 1..Len(label) : label[j] \notin Special \cup DOMAIN Decimal

LEMMA EscapedPlain ==
    ASSUME NEW label \in Label, PlainLabel(label)
    PROVE  Escaped(label) = label
<1> DEFINE N == Len(label)
           With(v, n) == v \o Spelled(label[n])
           Rec(f) == f = [n \in 0..N |-> IF n = 0 THEN <<>> ELSE With(f[n - 1], n)]
           h == CHOOSE f : Rec(f)
           w == [n \in 0..N |-> SubSeq(label, 1, n)]
<1>1. N \in Nat
  BY DEF Label
<1>2. \A n \in 1..N : w[n] = With(w[n - 1], n)
  <2> SUFFICES ASSUME NEW n \in 1..N PROVE w[n] = With(w[n - 1], n)
    OBVIOUS
  <2>1. n \in 0..N /\ n - 1 \in 0..N /\ 1 \in 1..N /\ n \in 1..Len(label)
    BY <1>1
  <2>2. SubSeq(label, 1, n) = SubSeq(label, 1, n - 1) \o <<label[n]>>
    BY <2>1, SubSeqRecursiveSecond DEF Label
  <2>3. Spelled(label[n]) = <<label[n]>>
    BY <2>1, Zenon DEF Spelled, PlainLabel
  <2> QED BY <2>2, <2>3
<1>3. w[0] = <<>>
  BY <1>1, SubSeqEmpty
<1>4. Rec(w)
  <2> HIDE DEF With
  <2>1. ASSUME NEW n \in 0..N PROVE w[n] = IF n = 0 THEN <<>> ELSE With(w[n - 1], n)
    <3>1. n # 0 => n \in 1..N
      BY <1>1
    <3> HIDE DEF w
    <3> QED BY <1>2, <1>3, <3>1
  <2> QED BY <2>1
<1>5. Rec(h)
  BY <1>4
<1>6. Escaped(label) = h[N]
  BY DEF Escaped
<1>7. \A n \in 0..N : h[n] = w[n]
  <2> HIDE DEF With, h, w, N
  <2>1. SameSteps(h, w, N)
    BY <1>1, <1>4, <1>5 DEF SameSteps
  <2> QED BY <1>1, <2>1, SameStepsAgree
<1>8. w[N] = label
  BY <1>1, SubSeqFull DEF Label
<1> HIDE DEF h, w, N
<1> QED BY <1>1, <1>6, <1>7, <1>8

\* What dn_expand writes label by label, for a name without such characters.
Joins(f, labels) ==
    /\ f \in [0..Len(labels) -> Label]
    /\ f[0] = <<>>
    /\ \A n \in 1..Len(labels) :
           f[n] = f[n - 1] \o (IF n = 1 THEN <<>> ELSE <<Dot>>) \o labels[n]

LEMMA ExpandJoins ==
    ASSUME NEW labels \in Seq(Label), Plain(labels)
    PROVE  \E f : Joins(f, labels) /\ Expand(labels) = f[Len(labels)]
<1> DEFINE N == Len(labels)
           With(v, n) == v \o (IF n = 1 THEN <<>> ELSE <<Dot>>) \o Escaped(labels[n])
           Rec(f) == f = [n \in 0..N |-> IF n = 0 THEN <<>> ELSE With(f[n - 1], n)]
           h == CHOOSE f : Rec(f)
           g == [p \in Label \X (1..N) |-> With(p[1], p[2])]
<1>1. N \in Nat
  OBVIOUS
<1>2. \A n \in 1..N : labels[n] \in Label /\ Escaped(labels[n]) = labels[n]
  <2> SUFFICES ASSUME NEW n \in 1..N
               PROVE  labels[n] \in Label /\ Escaped(labels[n]) = labels[n]
    OBVIOUS
  <2>1. labels[n] \in Label /\ n \in DOMAIN labels
    OBVIOUS
  <2>2. PlainLabel(labels[n])
    BY <2>1 DEF Plain, PlainLabel, Label
  <2> QED BY <2>1, <2>2, EscapedPlain
<1>3. \A v \in Label, n \in 1..N : With(v, n) \in Label
  <2> SUFFICES ASSUME NEW v \in Label, NEW n \in 1..N PROVE With(v, n) \in Label
    OBVIOUS
  <2>1. <<Dot>> \in Label /\ <<>> \in Label
    <3>1. Dot \in Char
      BY DEF Char
    <3> QED BY <3>1 DEF Label
  <2>2. v \o (IF n = 1 THEN <<>> ELSE <<Dot>>) \in Label
    BY <2>1, ConcatProperties DEF Label
  <2> QED BY <1>2, <2>2, ConcatProperties DEF Label
<1>4. <<>> \in Label
  BY DEF Label
<1>5. PICK f : Iterates(f, N, Label, <<>>, g)
  <2>1. g \in Steps(N, Label)
    BY <1>3 DEF Steps
  <2> HIDE DEF g, N
  <2> QED BY <1>1, <1>4, <2>1, RecursionExists
<1>6. f \in [0..N -> Label] /\ f[0] = <<>> /\ \A n \in 1..N : f[n] = With(f[n - 1], n)
  <2>1. \A v \in Label, n \in 1..N : g[<<v, n>>] = With(v, n)
    OBVIOUS
  <2>2. ASSUME NEW n \in 1..N PROVE f[n] = With(f[n - 1], n)
    <3>1. f[n - 1] \in Label /\ f[n] = g[<<f[n - 1], n>>]
      <4> HIDE DEF g, N
      <4>1. n - 1 \in 0..N
        BY <1>1
      <4> QED BY <1>5, <4>1 DEF Iterates
    <3> HIDE DEF g, With, N
    <3> QED BY <2>1, <3>1
  <2> QED BY <1>5, <2>2 DEF Iterates
<1>7. Rec(f)
  <2> HIDE DEF With, N
  <2>1. ASSUME NEW n \in 0..N PROVE f[n] = IF n = 0 THEN <<>> ELSE With(f[n - 1], n)
    <3>1. n # 0 => n \in 1..N
      BY <1>1
    <3> QED BY <1>6, <3>1
  <2> QED BY <1>6, <2>1
<1>8. Rec(h)
  BY <1>7
<1>9. Expand(labels) = h[N]
  BY DEF Expand
<1>10. \A n \in 0..N : h[n] = f[n]
  <2> HIDE DEF With, h, N
  <2>1. SameSteps(h, f, N)
    BY <1>1, <1>7, <1>8 DEF SameSteps
  <2> QED BY <1>1, <2>1, SameStepsAgree
<1>11. Joins(f, labels)
  BY <1>2, <1>6 DEF Joins
<1>12. h[N] = f[N]
  <2> HIDE DEF h, N
  <2> QED BY <1>1, <1>10
<1> HIDE DEF h
<1> QED BY <1>9, <1>11, <1>12

(***************************************************************************)
(* encode_domain, one character at a time.                                 *)
(***************************************************************************)
Labels == Seq(Label) \ {<<>>}

LEMMA WithNextType ==
    ASSUME NEW labels \in Labels, NEW ch \in Char
    PROVE  WithNext(labels, ch) \in Labels
<1> DEFINE N == Len(labels)
<1>1. labels \in Seq(Label) /\ N \in 1..Len(labels) /\ labels[N] \in Label
  BY EmptySeq DEF Labels
<1>2. CASE ch = Dot
  <2>1. <<>> \in Label
    BY DEF Label
  <2> QED BY <1>1, <1>2, <2>1, AppendProperties DEF Labels, WithNext
<1>3. CASE ch # Dot
  <2> DEFINE e == Append(labels[N], ch)
  <2>1. e \in Label
    BY <1>1, AppendProperties DEF Label
  <2>2. WithNext(labels, ch) = [labels EXCEPT ![N] = e]
    BY <1>3 DEF WithNext
  <2>3. [labels EXCEPT ![N] = e] \in Seq(Label) /\ Len([labels EXCEPT ![N] = e]) = N
    BY <1>1, <2>1, ExceptSeq
  <2>4. N > 0
    BY <1>1
  <2> HIDE DEF e, N
  <2> QED BY <2>2, <2>3, <2>4, EmptySeq DEF Labels
<1> QED BY <1>2, <1>3

Spells(f, text) ==
    /\ f \in [0..Len(text) -> Labels]
    /\ f[0] = << <<>> >>
    /\ \A n \in 1..Len(text) : f[n] = WithNext(f[n - 1], text[n])

LEMMA EncodeSpells ==
    ASSUME NEW text \in Seq(Char)
    PROVE  \E f : Spells(f, text) /\ encode_domain(text) = f[Len(text)]
<1> DEFINE N == Len(text)
           b == << <<>> >>
           Rec(f) == f = [n \in 0..N |-> IF n = 0 THEN b ELSE WithNext(f[n - 1], text[n])]
           h == CHOOSE f : Rec(f)
           g == [p \in Labels \X (1..N) |-> WithNext(p[1], text[p[2]])]
<1>1. N \in Nat /\ b \in Labels
  BY DEF Labels, Label
<1>5. PICK f : Iterates(f, N, Labels, b, g)
  <2>1. g \in Steps(N, Labels)
    BY WithNextType DEF Steps
  <2> HIDE DEF g, N, b
  <2> QED BY <1>1, <2>1, RecursionExists
<1>6. /\ f \in [0..N -> Labels] /\ f[0] = b
      /\ \A n \in 1..N : f[n] = WithNext(f[n - 1], text[n])
  <2>1. \A v \in Labels, n \in 1..N : g[<<v, n>>] = WithNext(v, text[n])
    OBVIOUS
  <2>2. ASSUME NEW n \in 1..N PROVE f[n] = WithNext(f[n - 1], text[n])
    <3>1. f[n - 1] \in Labels /\ f[n] = g[<<f[n - 1], n>>]
      <4> HIDE DEF g, N
      <4>1. n - 1 \in 0..N
        BY <1>1
      <4> QED BY <1>5, <4>1 DEF Iterates
    <3> HIDE DEF g, N
    <3> QED BY <2>1, <3>1
  <2> QED BY <1>5, <2>2 DEF Iterates
<1>7. Rec(f)
  <2> HIDE DEF N, b
  <2>1. ASSUME NEW n \in 0..N PROVE f[n] = IF n = 0 THEN b ELSE WithNext(f[n - 1], text[n])
    <3>1. n # 0 => n \in 1..N
      BY <1>1
    <3> QED BY <1>6, <3>1
  <2> QED BY <1>6, <2>1
<1>8. Rec(h)
  BY <1>7
<1>9. encode_domain(text) = h[N]
  BY DEF encode_domain
<1>10. \A n \in 0..N : h[n] = f[n]
  <2> HIDE DEF h, N, b
  <2>1. SameSteps(h, f, N)
    BY <1>1, <1>7, <1>8 DEF SameSteps
  <2> QED BY <1>1, <2>1, SameStepsAgree
<1>11. Spells(f, text)
  BY <1>6 DEF Spells
<1>12. h[N] = f[N]
  <2> HIDE DEF h, N
  <2> QED BY <1>1, <1>10
<1> HIDE DEF h
<1> QED BY <1>9, <1>11, <1>12

\* The empty text is one empty label.
LEMMA EncodeEmpty == encode_domain(<<>>) = << <<>> >>
<1>1. <<>> \in Seq(Char) /\ Len(<<>>) = 0
  OBVIOUS
<1>2. PICK f : Spells(f, <<>>) /\ encode_domain(<<>>) = f[Len(<<>>)]
  BY <1>1, EncodeSpells
<1> QED BY <1>1, <1>2 DEF Spells

\* A text that is longer by a character.
LEMMA EncodeAppend ==
    ASSUME NEW text \in Seq(Char), NEW ch \in Char
    PROVE  /\ Append(text, ch) \in Seq(Char)
           /\ encode_domain(text) \in Labels
           /\ encode_domain(Append(text, ch)) = WithNext(encode_domain(text), ch)
<1> DEFINE N == Len(text)
           more == Append(text, ch)
<1>1. /\ N \in Nat /\ more \in Seq(Char) /\ Len(more) = N + 1
      /\ more[N + 1] = ch /\ \A n \in 1..N : more[n] = text[n]
  BY AppendProperties
<1>2. PICK f : Spells(f, text) /\ encode_domain(text) = f[N]
  BY EncodeSpells
<1>3. PICK e : Spells(e, more) /\ encode_domain(more) = e[N + 1]
  <2> HIDE DEF more
  <2> QED BY <1>1, EncodeSpells
<1> HIDE DEF more, N
<1>4. SameSteps(e, f, N)
  <2>1. f[0] = << <<>> >> /\ \A n \in 1..N : f[n] = WithNext(f[n - 1], text[n])
    BY <1>2 DEF Spells, N
  <2>2. e[0] = << <<>> >> /\ \A n \in 1..N : e[n] = WithNext(e[n - 1], text[n])
    BY <1>1, <1>3 DEF Spells
  <2> QED BY <2>1, <2>2 DEF SameSteps
<1>5. e[N] = f[N]
  BY <1>1, <1>4, SameStepsAgree
<1>6. f[N] \in Labels
  BY <1>1, <1>2 DEF Spells, N
<1>7. e[N + 1] = WithNext(e[N], ch)
  BY <1>1, <1>3 DEF Spells
<1> QED BY <1>1, <1>2, <1>3, <1>5, <1>6, <1>7 DEF more

\* Characters that are no dot go to the last label.
Longer(labels, l) == [labels EXCEPT ![Len(labels)] = @ \o l]
NoDot == Seq(Char \ {Dot})

LEMMA EncodeLabel ==
    ASSUME NEW text \in Seq(Char), NEW label \in NoDot
    PROVE  /\ text \o label \in Seq(Char)
           /\ encode_domain(text \o label) = Longer(encode_domain(text), label)
<1> DEFINE C == Char \ {Dot}
           Right(l) == /\ text \o l \in Seq(Char)
                       /\ encode_domain(text \o l) = Longer(encode_domain(text), l)
           S == {l \in Seq(C) : Right(l)}
           labels == encode_domain(text)
           N == Len(labels)
<1>1. labels \in Seq(Label) /\ N \in 1..Len(labels) /\ labels[N] \in Seq(Char)
  <2>1. labels \in Labels
    <3>1. Dot \in Char
      BY DEF Char
    <3> QED BY <3>1, EncodeAppend
  <2> QED BY <2>1, EmptySeq DEF Labels, Label
<1>2. <<>> \in S
  <2>1. text \o <<>> = text
    BY ConcatEmptySeq
  <2>2. labels[N] \o <<>> = labels[N]
    BY <1>1, ConcatEmptySeq
  <2>3. Longer(labels, <<>>) = labels
    <3>1. Longer(labels, <<>>) = [labels EXCEPT ![N] = labels[N] \o <<>>]
      BY DEF Longer
    <3>2. [labels EXCEPT ![N] = labels[N]] = labels
      BY <1>1
    <3> QED BY <2>2, <3>1, <3>2, Zenon
  <2>4. Right(<<>>)
    BY <2>1, <2>3, Zenon
  <2> QED BY <2>4
<1>3. ASSUME NEW l \in Seq(C), NEW ch \in C, l \in S
      PROVE  Append(l, ch) \in S
  <2> DEFINE e == labels[N] \o l
  <2>1. /\ l \in Seq(Char) /\ ch \in Char /\ ch # Dot
        /\ text \o l \in Seq(Char) /\ encode_domain(text \o l) = [labels EXCEPT ![N] = e]
    BY <1>3 DEF Longer
  <2>2. text \o Append(l, ch) = Append(text \o l, ch)
    BY <2>1
  <2>3. labels[N] \o Append(l, ch) = Append(e, ch)
    <3> DEFINE h == labels[N]
    <3>1. h \in Seq(Char)
      BY <1>1
    <3> HIDE DEF h
    <3>2. h \o Append(l, ch) = Append(h \o l, ch)
      BY <2>1, <3>1
    <3> QED BY <3>2 DEF h
  <2>4. e \in Label
    BY <1>1, <2>1, ConcatProperties DEF Label
  <2>5. /\ Append(text \o l, ch) \in Seq(Char)
        /\ encode_domain(Append(text \o l, ch)) = WithNext([labels EXCEPT ![N] = e], ch)
    BY <2>1, EncodeAppend
  <2>6. WithNext([labels EXCEPT ![N] = e], ch) = [labels EXCEPT ![N] = Append(e, ch)]
    <3>1. /\ [labels EXCEPT ![N] = e] \in Seq(Label)
          /\ Len([labels EXCEPT ![N] = e]) = N /\ [labels EXCEPT ![N] = e][N] = e
      BY <1>1, <2>4, ExceptSeq
    <3>2. WithNext([labels EXCEPT ![N] = e], ch)
             = [[labels EXCEPT ![N] = e] EXCEPT ![N] = Append(e, ch)]
      <4> HIDE DEF labels, N, e
      <4> QED BY <2>1, <3>1 DEF WithNext
    <3>3. [[labels EXCEPT ![N] = e] EXCEPT ![N] = Append(e, ch)]
             = [labels EXCEPT ![N] = Append(e, ch)]
      <4> HIDE DEF labels, N, e
      <4> QED OBVIOUS
    <3> QED BY <3>2, <3>3
  <2>7. Append(l, ch) \in Seq(C)
    BY <1>3, AppendProperties
  <2>8. Longer(labels, Append(l, ch)) = [labels EXCEPT ![N] = Append(e, ch)]
    BY <2>3 DEF Longer
  <2> HIDE DEF e, labels, N
  <2>9. Right(Append(l, ch))
    BY <2>2, <2>5, <2>6, <2>8 DEF labels
  <2> QED BY <2>7, <2>9
<1>4. Seq(C) \subseteq S
  <2> HIDE DEF S, C
  <2> QED BY <1>2, <1>3, SeqInduction
<1> HIDE DEF Right
<1>5. Right(label)
  BY <1>4 DEF NoDot
<1> QED BY <1>5 DEF Right

\* DnsServer::run passes a name through dn_expand and encode_domain; a plain
\* one comes out as it went in.
LEMMA RoundTrip ==
    ASSUME NEW labels \in Seq(Label), Plain(labels)
    PROVE  encode_domain(Expand(labels)) = labels
<1> DEFINE N == Len(labels)
           Reached(text, n) == /\ text \in Seq(Char)
                               /\ encode_domain(text) = SubSeq(labels, 1, n)
<1>1. N \in Nat /\ N # 0 /\ \A n \in 1..N : labels[n] \in NoDot /\ labels[n] \in Label
  <2>1. N # 0
    BY EmptySeq DEF Plain
  <2>2. ASSUME NEW n \in 1..N PROVE labels[n] \in NoDot /\ labels[n] \in Label
    <3>1. labels[n] \in Seq(Char)
      BY DEF Label
    <3>2. \A j \in 1..Len(labels[n]) : labels[n][j] \in Char \ {Dot}
      <4>1. Dot \in Special
        BY DEF Special
      <4>2. \A j \in 1..Len(labels[n]) : labels[n][j] \in Char /\ labels[n][j] \notin Special
        BY <3>1 DEF Plain
      <4> QED BY <4>1, <4>2
    <3>3. labels[n] \in Seq(Char \ {Dot})
      <4> DEFINE l == labels[n]
                 C == Char \ {Dot}
      <4>1. Len(l) \in Nat /\ l = [j \in 1..Len(l) |-> l[j]]
        BY <3>1
      <4> HIDE DEF l, C
      <4>2. l \in [1..Len(l) -> C]
        BY <3>2, <4>1 DEF l, C
      <4>3. l \in Seq(C)
        BY <4>1, <4>2, SeqDef
      <4> QED BY <4>3 DEF l, C
    <3> QED BY <3>1, <3>3 DEF NoDot, Label
  <2> QED BY <2>1, <2>2
<1>2. PICK f : Joins(f, labels) /\ Expand(labels) = f[N]
  BY ExpandJoins
<1>3. /\ f[0] = <<>> /\ \A n \in 0..N : f[n] \in Seq(Char)
      /\ \A n \in 1..N : f[n] = f[n - 1] \o (IF n = 1 THEN <<>> ELSE <<Dot>>) \o labels[n]
  BY <1>2 DEF Joins, Label
<1>4. Reached(f[1], 1)
  <2>1. 1 \in 1..N /\ labels[1] \in Seq(Char)
    BY <1>1 DEF Label
  <2>2. f[1] = <<>> \o labels[1]
    <3>1. f[1] = f[0] \o <<>> \o labels[1]
      <4> HIDE DEF N
      <4>1. 1 - 1 = 0
        OBVIOUS
      <4> QED BY <1>3, <2>1, <4>1
    <3>2. f[0] \o <<>> = <<>>
      BY <1>3
    <3> QED BY <3>1, <3>2
  <2>3. <<>> \in Seq(Char)
    OBVIOUS
  <2>4. f[1] \in Seq(Char) /\ encode_domain(f[1]) = Longer(encode_domain(<<>>), labels[1])
    BY <1>1, <2>1, <2>2, <2>3, EncodeLabel, Zenon
  <2>5. Longer(encode_domain(<<>>), labels[1]) = <<labels[1]>>
    <3> DEFINE s == << <<>> >>
    <3>1. Len(s) = 1 /\ s[1] = <<>>
      OBVIOUS
    <3>2. <<>> \o labels[1] = labels[1]
      BY <2>1, ConcatEmptySeq
    <3>3. [s EXCEPT ![1] = labels[1]] = <<labels[1]>>
      OBVIOUS
    <3>4. encode_domain(<<>>) = s
      BY EncodeEmpty
    <3> HIDE DEF s
    <3>5. Longer(s, labels[1]) = [s EXCEPT ![1] = s[1] \o labels[1]]
      BY <3>1, Zenon DEF Longer
    <3> QED BY <3>1, <3>2, <3>3, <3>4, <3>5, Zenon
  <2>6. SubSeq(labels, 1, 1) = <<labels[1]>>
    <3>1. SubSeq(labels, 1, 0) = <<>>
      BY SubSeqEmpty
    <3>2. SubSeq(labels, 1, 1) = Append(SubSeq(labels, 1, 0), labels[1])
      <4>1. 0 \in 0..Len(labels) /\ 0 < Len(labels) /\ 0 + 1 = 1
        BY <1>1
      <4> QED BY <4>1, PrefixGrows
    <3>3. Append(<<>>, labels[1]) = <<labels[1]>>
      OBVIOUS
    <3> QED BY <3>1, <3>2, <3>3, Zenon
  <2> QED BY <2>4, <2>5, <2>6
<1>5. ASSUME NEW n \in 1..N, n < N, Reached(f[n], n) PROVE Reached(f[n + 1], n + 1)
  <2> DEFINE text == Append(f[n], Dot)
             l == labels[n + 1]
             s == SubSeq(labels, 1, n)
  <2>1. n + 1 \in 1..N /\ n + 1 # 1 /\ (n + 1) - 1 = n /\ n \in 0..N
    BY <1>1, <1>5
  <2>2. l \in NoDot /\ l \in Seq(Char) /\ Dot \in Char /\ <<Dot>> \in Seq(Char)
    BY <1>1, <2>1 DEF Label, Char
  <2>3. f[n + 1] = text \o l
    <3>1. f[n + 1] = f[n] \o <<Dot>> \o l
      BY <1>3, <2>1
    <3>2. text = f[n] \o <<Dot>>
      BY <1>5, <2>2, AppendIsConcat
    <3> QED BY <3>1, <3>2
  <2>4. text \in Seq(Char) /\ encode_domain(text) = WithNext(s, Dot)
    BY <1>5, <2>2, EncodeAppend
  <2>5. text \o l \in Seq(Char) /\ encode_domain(text \o l) = Longer(encode_domain(text), l)
    <3> HIDE DEF text, l
    <3> QED BY <2>2, <2>4, EncodeLabel
  <2>6. s \in Seq(Label) /\ SubSeq(labels, 1, n + 1) = Append(s, l) /\ Len(s) = n
    <3>1. s \in Seq(Label) /\ SubSeq(labels, 1, n + 1) = Append(s, l)
      BY <1>5, <2>1, PrefixGrows
    <3> QED BY <1>1, <3>1
  <2>7. Longer(Append(s, <<>>), l) = Append(s, l)
    <3>1. <<>> \in Label
      BY DEF Label
    <3>2. Append(s, <<>>) \in Seq(Label) /\ Len(Append(s, <<>>)) = n + 1
          /\ Append(s, <<>>)[n + 1] = <<>>
      BY <2>6, <3>1, AppendProperties
    <3>3. <<>> \o l = l
      BY <2>2, ConcatEmptySeq
    <3>4. Longer(Append(s, <<>>), l) = [Append(s, <<>>) EXCEPT ![n + 1] = l]
      <4>1. Longer(Append(s, <<>>), l)
              = [Append(s, <<>>) EXCEPT ![n + 1] = Append(s, <<>>)[n + 1] \o l]
        BY <3>2 DEF Longer
      <4> QED BY <3>2, <3>3, <4>1, Zenon
    <3>5. [Append(s, <<>>) EXCEPT ![n + 1] = l] = Append(s, l)
      <4> HIDE DEF s, l
      <4> DEFINE a == [Append(s, <<>>) EXCEPT ![n + 1] = l]
                 b == Append(s, l)
      <4>1. l \in Label /\ n \in Nat
        BY <2>2 DEF Label
      <4>2. a \in Seq(Label) /\ Len(a) = n + 1
        BY <3>2, <4>1, ExceptSeq
      <4>3. b \in Seq(Label) /\ Len(b) = n + 1
        BY <2>6, <4>1, AppendProperties
      <4>4. ASSUME NEW i \in 1..(n + 1) PROVE a[i] = b[i]
        <5>1. CASE i = n + 1
          BY <2>6, <3>2, <4>1, <5>1, AppendProperties
        <5>2. CASE i # n + 1
          <6>1. i \in 1..n
            BY <4>1, <5>2
          <6>2. Append(s, <<>>)[i] = s[i] /\ b[i] = s[i]
            BY <2>6, <3>1, <4>1, <6>1, AppendProperties
          <6>3. a[i] = Append(s, <<>>)[i]
            <7>1. i \in DOMAIN Append(s, <<>>)
              BY <3>2
            <7> HIDE DEF s, l
            <7> QED BY <5>2, <7>1
          <6> QED BY <6>2, <6>3
        <5> QED BY <5>1, <5>2
      <4> HIDE DEF a, b
      <4>5. a = b
        BY <4>2, <4>3, <4>4, SeqEqual
      <4> QED BY <4>5 DEF a, b
    <3> QED BY <3>4, <3>5
  <2>8. WithNext(s, Dot) = Append(s, <<>>)
    BY DEF WithNext
  <2> HIDE DEF text, l, s
  <2> QED BY <2>3, <2>4, <2>5, <2>6, <2>7, <2>8
<1>6. Reached(f[N], N)
  <2> DEFINE S == {n \in 0..N : n = 0 \/ Reached(f[n], n)}
  <2> HIDE DEF Reached, N
  <2>1. 0 \in S
    BY <1>1
  <2>2. ASSUME NEW n \in 0..N, n < N, n \in S PROVE n + 1 \in S
    <3>1. CASE n = 0
      BY <1>1, <1>4, <3>1
    <3>2. CASE n # 0
      <4>1. n \in 1..N /\ n + 1 \in 0..N
        BY <1>1, <2>2, <3>2
      <4> QED BY <1>5, <2>2, <3>2, <4>1
    <3> QED BY <3>1, <3>2
  <2>3. 0..N \subseteq S
    <3> HIDE DEF S
    <3> QED BY <1>1, <2>1, <2>2, SetInduction
  <2> QED BY <1>1, <2>3
<1>7. SubSeq(labels, 1, N) = labels
  BY SubSeqFull
<1> QED BY <1>2, <1>6, <1>7

(***************************************************************************)
(* How often a client is answered.                                         *)
(***************************************************************************)
\* What an iteration leaves behind, whatever recvfrom has done: it has sent
\* a reply to the client, and the buffer holds no query any more; or it has
\* sent none, and a query in the buffer was there or has been received.
LEMMA ServeOutcome ==
    ASSUME CountsInv, NEW datagram, NEW bytes, Serve(datagram, bytes)
    PROVE  /\ DOMAIN buffer' = {"id", "query", "name", "type", "class"}
           /\ \/ /\ Overlay(bytes).query
                 /\ buffer'.query = FALSE
                 /\ answered' = [c \in Client |->
                                    answered[c] + IF c = client' THEN 1 ELSE 0]
              \/ /\ buffer'.query = Overlay(bytes).query
                 /\ answered' = answered
<1> DEFINE got  == Overlay(bytes)
           text == IF Decodes(bytes) THEN Expand(bytes.name) ELSE name
<1>1. PICK question \in Question(got, bytes) :
         IF question.class = "IN" /\ got.query
         THEN LET reply == Reply(client', got.id, text, question)
              IN  /\ buffer' = Sent(got, reply)
                  /\ answered' = [c \in Client |->
                         answered[c] + IF c = client' THEN 1 ELSE 0]
                  /\ last' = [datagram |-> datagram, reply |-> reply]
         ELSE /\ buffer' = Kept(got, bytes, question)
              /\ answered' = answered
              /\ last' = [datagram |-> datagram, reply |-> Nothing]
  BY DEF Serve
<1>2. DOMAIN got = {"id", "query", "name", "type", "class"}
  BY DEF CountsInv, Overlay
<1>3. CASE question.class = "IN" /\ got.query
  <2>1. PICK reply : buffer' = Sent(got, reply)
    BY <1>1, <1>3
  <2>2. /\ DOMAIN buffer' = {"id", "query", "name", "type", "class"}
        /\ buffer'.query = FALSE
    BY <2>1 DEF Sent
  <2> QED BY <1>1, <1>3, <2>2
<1>4. CASE ~(question.class = "IN" /\ got.query)
  <2>1. buffer' = Kept(got, bytes, question) /\ answered' = answered
    BY <1>1, <1>4
  <2>2. /\ DOMAIN buffer' = DOMAIN got
        /\ buffer'.query = got.query
    BY <1>2, <2>1 DEF Kept
  <2> QED BY <1>2, <2>1, <2>2
<1> QED BY <1>3, <1>4

LEMMA OnceInit == Init => OnceInv
<1> SUFFICES ASSUME Init PROVE OnceInv
  OBVIOUS
<1>1. CountsInv
  BY DEF Init, CountsInv
<1>2. client \notin Client
  BY DnsAssumption DEF Init, DnsAssumption
<1>3. AtMostOneReply
  BY DEF Init, AtMostOneReply
<1> QED BY <1>1, <1>2, <1>3 DEF OnceInv, PendingInv

\* A datagram counts for its sender, who is the one that is answered.
LEMMA OnceReceive ==
    ASSUME OnceInv, NEW d \in Datagram, Receive(d)
    PROVE  OnceInv'
<1> DEFINE from == d.from
<1>1. /\ from \in Client /\ client' = from
      /\ received' = [received EXCEPT ![from] = @ + 1]
      /\ received \in [Client -> Nat] /\ answered \in [Client -> Nat]
      /\ CountsInv /\ Serve(d, d.bytes)
  BY DEF Receive, Datagram, OnceInv, CountsInv
<1>2. received' \in [Client -> Nat]
  BY <1>1
<1>3. /\ received'[from] = received[from] + 1
      /\ \A c \in Client : c # from => received'[c] = received[c]
  BY <1>1
<1>4. \A c \in Client : answered[c] <= received[c]
  BY DEF OnceInv, AtMostOneReply
<1>5. CASE /\ buffer'.query = FALSE
           /\ answered' = [c \in Client |-> answered[c] + IF c = client' THEN 1 ELSE 0]
  <2>1. answered' \in [Client -> Nat]
    BY <1>1, <1>5
  <2>2. \A c \in Client : answered'[c] <= received'[c]
    BY <1>1, <1>3, <1>4, <1>5
  <2>3. CountsInv'
    BY <1>1, <1>2, <2>1, ServeOutcome DEF CountsInv
  <2> QED BY <1>5, <2>2, <2>3 DEF OnceInv, PendingInv, AtMostOneReply
<1>6. CASE answered' = answered
  <2>1. \A c \in Client : answered'[c] <= received'[c]
    BY <1>1, <1>3, <1>4, <1>6
  <2>2. answered'[from] < received'[from]
    BY <1>1, <1>3, <1>4, <1>6
  <2>3. CountsInv'
    BY <1>1, <1>2, <1>6, ServeOutcome DEF CountsInv
  <2> QED BY <1>1, <2>1, <2>2, <2>3 DEF OnceInv, PendingInv, AtMostOneReply
<1> QED BY <1>1, <1>5, <1>6, ServeOutcome

\* A failing recvfrom leaves a query in the buffer only if it was there, and
\* then it has not been answered.
LEMMA OnceReceiveFails ==
    ASSUME OnceInv, ReceiveFails
    PROVE  OnceInv'
<1>1. /\ received' = received /\ client' = client
      /\ received \in [Client -> Nat] /\ answered \in [Client -> Nat]
      /\ CountsInv /\ Serve(Nothing, <<>>)
  BY DEF ReceiveFails, OnceInv, CountsInv
<1>2. Overlay(<<>>).query = buffer.query
  BY <1>1 DEF Overlay, CountsInv
<1>3. \A c \in Client : answered[c] <= received[c]
  BY DEF OnceInv, AtMostOneReply
<1>4. CASE /\ buffer.query /\ buffer'.query = FALSE
           /\ answered' = [c \in Client |-> answered[c] + IF c = client' THEN 1 ELSE 0]
  <2>1. answered' \in [Client -> Nat]
    BY <1>1, <1>4
  <2>2. client \in Client => answered[client] < received[client]
    BY <1>4 DEF OnceInv, PendingInv
  <2>3. \A c \in Client : answered'[c] <= received'[c]
    BY <1>1, <1>3, <1>4, <2>2
  <2>4. CountsInv'
    BY <1>1, <2>1, ServeOutcome DEF CountsInv
  <2> QED BY <1>4, <2>3, <2>4 DEF OnceInv, PendingInv, AtMostOneReply
<1>5. CASE buffer'.query = buffer.query /\ answered' = answered
  <2>1. CountsInv'
    BY <1>1, <1>5, ServeOutcome DEF CountsInv
  <2> QED BY <1>1, <1>5, <2>1 DEF OnceInv, PendingInv, AtMostOneReply
<1> QED BY <1>1, <1>2, <1>4, <1>5, ServeOutcome

\* No client gets more replies than it has sent datagrams: the reply is built
\* in the buffer of the request, so that what stays there is no query, and an
\* iteration without a datagram finds none to answer again.
THEOREM OnceReplyTheorem == Spec => []AtMostOneReply
<1>1. Init => OnceInv
  BY OnceInit
<1>2. OnceInv /\ [Next]_vars => OnceInv'
  <2>1. OnceInv /\ Next => OnceInv'
    BY OnceReceive, OnceReceiveFails DEF Next
  <2>2. OnceInv /\ UNCHANGED vars => OnceInv'
    BY DEF vars, OnceInv, CountsInv, PendingInv, AtMostOneReply
  <2> QED BY <2>1, <2>2
<1>3. OnceInv => AtMostOneReply
  BY DEF OnceInv
<1> QED BY <1>1, <1>2, <1>3, PTL DEF Spec

(***************************************************************************)
(* What the variables hold.                                                *)
(***************************************************************************)
\* The parts of the buffer after recvfrom.
LEMMA OverlayType ==
    ASSUME TypeOK, NEW bytes \in {d.bytes : d \in Datagram} \cup {<<>>}
    PROVE  /\ Overlay(bytes) \in Bytes
           /\ \A f \in DOMAIN bytes : Overlay(bytes)[f] = bytes[f]
           /\ "name" \in DOMAIN bytes => bytes.name \in Asked
<1> DEFINE F == {"id", "query", "name", "type", "class"}
<1>1. /\ buffer \in Bytes /\ DOMAIN buffer = F
  BY DEF TypeOK, Bytes
<1>2. /\ DOMAIN bytes \subseteq F
      /\ "id" \in DOMAIN bytes => bytes.id \in Id
      /\ "query" \in DOMAIN bytes => bytes.query \in BOOLEAN
      /\ "name" \in DOMAIN bytes => bytes.name \in Asked
      /\ "type" \in DOMAIN bytes => bytes.type \in Type
      /\ "class" \in DOMAIN bytes => bytes.class \in Class
  <2>1. CASE bytes = <<>>
    BY <2>1
  <2>2. CASE bytes # <<>>
    BY <2>2 DEF Datagram
  <2> QED BY <2>1, <2>2
<1>3. Asked \subseteq Wire
  BY DEF Wire
<1>4. Overlay(bytes) = [f \in F |-> IF f \in DOMAIN bytes THEN bytes[f] ELSE buffer[f]]
  BY <1>1 DEF Overlay
<1>5. Overlay(bytes) \in Bytes
  BY <1>1, <1>2, <1>3, <1>4 DEF Bytes
<1> QED BY <1>2, <1>4, <1>5

\* Four bytes behind a name are a type and a class, whatever they were.
LEMMA QuestionType ==
    ASSUME TypeOK, NEW bytes \in {d.bytes : d \in Datagram} \cup {<<>>},
           NEW question \in Question(Overlay(bytes), bytes)
    PROVE  question \in [type : Type, class : Class]
<1>1. "other" \in Type
  BY DnsAssumption DEF DnsAssumption
<1> QED BY <1>1 DEF Question, Behind, Shifted, Class

\* The text is a name that can be asked for, and so is the one in a reply.
LEMMA ServeType ==
    ASSUME TypeOK, client' \in Client \cup {Nobody},
           NEW datagram \in Datagram \cup {Nothing},
           NEW bytes \in {d.bytes : d \in Datagram} \cup {<<>>},
           Serve(datagram, bytes)
    PROVE  /\ buffer' \in Bytes
           /\ name' \in {Expand(n) : n \in Name}
           /\ last' \in [datagram : Datagram \cup {Nothing}, reply : Replies \cup {Nothing}]
<1> DEFINE got  == Overlay(bytes)
           text == IF Decodes(bytes) THEN Expand(bytes.name) ELSE name
<1>1. PICK question \in Question(got, bytes) :
         IF question.class = "IN" /\ got.query
         THEN LET reply == Reply(client', got.id, text, question)
              IN  /\ buffer' = Sent(got, reply)
                  /\ answered' = [c \in Client |->
                         answered[c] + IF c = client' THEN 1 ELSE 0]
                  /\ last' = [datagram |-> datagram, reply |-> reply]
         ELSE /\ buffer' = Kept(got, bytes, question)
              /\ answered' = answered
              /\ last' = [datagram |-> datagram, reply |-> Nothing]
  BY DEF Serve
<1>2. got \in Bytes /\ question \in [type : Type, class : Class]
  BY OverlayType, QuestionType
<1>3. text \in {Expand(n) : n \in Name}
  <2>1. CASE Decodes(bytes)
    <3>1. bytes.name \in Name
      BY <2>1, OverlayType DEF Decodes, Asked
    <3> QED BY <2>1, <3>1
  <2>2. CASE ~Decodes(bytes)
    BY <2>2 DEF TypeOK
  <2> QED BY <2>1, <2>2
<1>4. name' = text
  BY DEF Serve
<1> HIDE DEF got, text
<1>5. CASE question.class = "IN" /\ got.query
  <2> DEFINE reply == Reply(client', got.id, text, question)
  <2>1. encode_domain(text) \in {encode_domain(Expand(n)) : n \in Name}
    BY <1>3
  <2>2. reply \in Replies
    BY <1>2, <1>5, <2>1 DEF Reply, Replies, Bytes
  <2>3. Sent(got, reply) \in Bytes
    <3>1. encode_domain(text) \in Wire
      BY <2>1 DEF Wire
    <3> QED BY <1>2, <3>1 DEF Sent, Reply, Bytes
  <2>4. buffer' = Sent(got, reply) /\ last' = [datagram |-> datagram, reply |-> reply]
    BY <1>1, <1>5
  <2> QED BY <1>3, <1>4, <2>2, <2>3, <2>4
<1>6. CASE ~(question.class = "IN" /\ got.query)
  <2>1. buffer' = Kept(got, bytes, question) /\ last' = [datagram |-> datagram, reply |-> Nothing]
    BY <1>1, <1>6
  <2>2. Kept(got, bytes, question) \in Bytes
    BY <1>2 DEF Kept, Bytes
  <2> QED BY <1>3, <1>4, <2>1, <2>2
<1> QED BY <1>5, <1>6

LEMMA ServerInit == Init => ServerInv
<1> SUFFICES ASSUME Init PROVE ServerInv
  OBVIOUS
<1>1. MaxDatagrams \in Nat
  BY DnsAssumption DEF DnsAssumption
<1>2. buffer \in Bytes
  BY DEF Init, Bytes, Wire
<1>3. TypeOK
  BY <1>1, <1>2 DEF Init, TypeOK
<1>4. BudgetInv
  BY <1>1 DEF Init, BudgetInv
<1> QED BY <1>3, <1>4, OnceInit DEF ServerInv

\* A client has not sent more than the datagrams that have come, and has not
\* been answered more often than that.
LEMMA CountsType ==
    ASSUME NEW r \in [Client -> Nat], NEW a \in [Client -> Nat], NEW b \in Nat,
           \A c \in Client : a[c] <= r[c] /\ r[c] + b <= MaxDatagrams
    PROVE  r \in [Client -> 0..MaxDatagrams] /\ a \in [Client -> 0..MaxDatagrams]
<1>1. MaxDatagrams \in Nat
  BY DnsAssumption DEF DnsAssumption
<1>2. \A c \in Client : r[c] \in 0..MaxDatagrams /\ a[c] \in 0..MaxDatagrams
  BY <1>1
<1> QED BY <1>2

LEMMA ServerReceive ==
    ASSUME ServerInv, NEW d \in Datagram, Receive(d)
    PROVE  ServerInv'
<1> USE DEF ServerInv
<1>1. OnceInv'
  BY OnceReceive
<1>2. /\ d.from \in Client /\ client' = d.from /\ Serve(d, d.bytes)
      /\ d.bytes \in {e.bytes : e \in Datagram}
  BY DEF Receive, Datagram
<1>3. MaxDatagrams \in Nat /\ budget' \in 0..MaxDatagrams
  BY DnsAssumption DEF DnsAssumption, Receive, TypeOK
<1>4. BudgetInv'
  <2>1. received \in [Client -> 0..MaxDatagrams] /\ budget \in 0..MaxDatagrams
    BY DEF TypeOK
  <2>2. \A c \in Client : received'[c] + budget' <= received[c] + budget
    BY <1>2, <1>3, <2>1 DEF Receive
  <2>3. \A c \in Client : received'[c] \in Nat
    BY <1>1 DEF OnceInv, CountsInv
  <2> QED BY <1>3, <2>1, <2>2, <2>3 DEF BudgetInv
<1>5. /\ received' \in [Client -> 0..MaxDatagrams]
      /\ answered' \in [Client -> 0..MaxDatagrams]
  <2>1. /\ received' \in [Client -> Nat] /\ answered' \in [Client -> Nat] /\ budget' \in Nat
        /\ \A c \in Client : answered'[c] <= received'[c]
        /\ \A c \in Client : received'[c] + budget' <= MaxDatagrams
    BY <1>1, <1>3, <1>4 DEF OnceInv, CountsInv, AtMostOneReply, BudgetInv
  <2> QED BY <2>1, CountsType
<1>6. TypeOK'
  BY <1>2, <1>3, <1>5, ServeType DEF TypeOK
<1> QED BY <1>1, <1>4, <1>6

LEMMA ServerReceiveFails ==
    ASSUME ServerInv, ReceiveFails
    PROVE  ServerInv'
<1> USE DEF ServerInv
<1>1. OnceInv'
  BY OnceReceiveFails
<1>2. /\ client' = client /\ budget' = budget /\ received' = received
      /\ Serve(Nothing, <<>>)
  BY DEF ReceiveFails
<1>3. client' \in Client \cup {Nobody} /\ budget' \in 0..MaxDatagrams
  BY <1>2 DEF TypeOK
<1>4. BudgetInv'
  BY <1>2 DEF BudgetInv
<1>5. /\ received' \in [Client -> 0..MaxDatagrams]
      /\ answered' \in [Client -> 0..MaxDatagrams]
  <2>1. /\ received' \in [Client -> Nat] /\ answered' \in [Client -> Nat] /\ budget' \in Nat
        /\ \A c \in Client : answered'[c] <= received'[c]
        /\ \A c \in Client : received'[c] + budget' <= MaxDatagrams
    BY <1>1, <1>3, <1>4 DEF OnceInv, CountsInv, AtMostOneReply, BudgetInv
  <2> QED BY <2>1, CountsType
<1>6. TypeOK'
  BY <1>2, <1>3, <1>5, ServeType DEF TypeOK
<1> QED BY <1>1, <1>4, <1>6

LEMMA ServerStep == ServerInv /\ [Next]_vars => ServerInv'
<1>1. ServerInv /\ Next => ServerInv'
  BY ServerReceive, ServerReceiveFails DEF Next
<1>2. ServerInv /\ UNCHANGED vars => ServerInv'
  BY DEF vars, ServerInv, TypeOK, BudgetInv, OnceInv, CountsInv, PendingInv, AtMostOneReply
<1> QED BY <1>1, <1>2

\* The variables of DnsServer::run hold what they are meant to: what goes into
\* a reply is always an id, a type and a name that somebody can have sent, and
\* no more is received than the bound allows.
THEOREM TypeTheorem == Spec => []TypeOK
<1>1. ServerInv => TypeOK
  BY DEF ServerInv
<1> QED BY <1>1, ServerInit, ServerStep, PTL DEF Spec

(***************************************************************************)
(* A complete query and the reply to it.                                   *)
(***************************************************************************)
\* A reply is a record, which the empty tuple is not.
LEMMA ReplyIsSomething ==
    ASSUME NEW to, NEW id, NEW text, NEW question
    PROVE  Reply(to, id, text, question) # Nothing
<1> DEFINE r == Reply(to, id, text, question)
<1>1. "to" \in DOMAIN r
  BY DEF Reply
<1>2. DOMAIN Nothing = 1..0
  BY DEF Nothing
<1>3. "to" \notin DOMAIN Nothing
  <2>1. \A i \in DOMAIN Nothing : FALSE
    BY <1>2
  <2> QED BY <2>1
<1> HIDE DEF r
<1>4. r # Nothing
  BY <1>1, <1>3
<1> QED BY <1>4 DEF r

\* A name that can be asked for is a sequence of labels.
LEMMA NameType ==
    ASSUME NEW n \in Name
    PROVE  n \in Seq(Label)
<1>1. n \in Seq(Seq(STRING))
  BY DnsAssumption DEF DnsAssumption
<1>2. Seq(STRING) \subseteq Label
  <2> SUFFICES ASSUME NEW l \in Seq(STRING) PROVE l \in Label
    OBVIOUS
  <2>1. STRING \subseteq Char
    BY DEF Char
  <2> QED BY <2>1, SeqMonotonic DEF Label
<1> QED BY <1>1, <1>2, SeqMonotonic

\* The name in a complete query comes through dn_expand and encode_domain.
LEMMA NameReturns ==
    ASSUME NEW d \in Datagram, WellFormed(d)
    PROVE  /\ d.bytes.name # Bad
           /\ encode_domain(Expand(d.bytes.name)) = d.bytes.name
<1> DEFINE n == d.bytes.name
<1>1. n # Bad /\ Plain(n)
  BY DEF WellFormed
<1>2. n \in Name
  <2>1. d.bytes.name \in Asked
    BY DEF WellFormed, Datagram
  <2> QED BY <1>1, <2>1 DEF Asked
<1>3. n \in Seq(Label)
  BY <1>2, NameType
<1> HIDE DEF n
<1>4. encode_domain(Expand(n)) = n
  BY <1>1, <1>3, RoundTrip
<1> QED BY <1>1, <1>4 DEF n

\* All that a reply to a complete query says comes from the query.
LEMMA WellFormedServed ==
    ASSUME TypeOK, NEW d \in Datagram, WellFormed(d), client' = d.from, Serve(d, d.bytes)
    PROVE  \E question : /\ question.type = d.bytes.type
                         /\ last' = [datagram |-> d,
                                     reply |-> Reply(d.from, d.bytes.id, Expand(d.bytes.name),
                                                     question)]
<1> DEFINE bytes == d.bytes
           got   == Overlay(bytes)
           text  == Expand(bytes.name)
<1>1. /\ DOMAIN bytes = {"id", "query", "name", "type", "class"}
      /\ bytes.query /\ bytes.class = "IN" /\ Decodes(bytes)
  BY NameReturns DEF WellFormed, Decodes
<1>2. got.id = bytes.id /\ got.query = bytes.query
  BY <1>1, OverlayType
<1>3. \A q \in Question(got, bytes) : q.type = bytes.type /\ q.class = "IN"
  BY <1>1 DEF Question, Behind
<1>4. PICK question \in Question(got, bytes) :
         IF question.class = "IN" /\ got.query
         THEN last' = [datagram |-> d, reply |-> Reply(client', got.id, text, question)]
         ELSE TRUE
  BY <1>1 DEF Serve
<1>5. last' = [datagram |-> d, reply |-> Reply(d.from, bytes.id, text, question)]
  <2> HIDE DEF got, bytes, text
  <2> QED BY <1>1, <1>2, <1>3, <1>4
<1> QED BY <1>3, <1>5

LEMMA WellFormedStep ==
    ASSUME ServerInv, WellFormedAnswered, [Next]_vars
    PROVE  WellFormedAnswered'
<1>1. CASE ReceiveFails
  <2>1. last'.datagram = Nothing
    BY <1>1 DEF ReceiveFails, Serve
  <2> QED BY <2>1 DEF WellFormedAnswered, WellFormed
<1>2. ASSUME NEW d \in Datagram, Receive(d) PROVE WellFormedAnswered'
  <2>1. client' = d.from /\ Serve(d, d.bytes) /\ TypeOK
    BY <1>2 DEF Receive, ServerInv
  <2>2. last'.datagram = d
    BY <2>1 DEF Serve
  <2>3. CASE WellFormed(d)
    <3>1. PICK question :
              /\ question.type = d.bytes.type
              /\ last' = [datagram |-> d,
                          reply |-> Reply(d.from, d.bytes.id, Expand(d.bytes.name), question)]
      BY <2>1, <2>3, WellFormedServed
    <3> DEFINE r == Reply(d.from, d.bytes.id, Expand(d.bytes.name), question)
    <3>2. last'.reply = r /\ r # Nothing
      BY <3>1, ReplyIsSomething
    <3>3. r.to = d.from /\ r.id = d.bytes.id /\ r.name = d.bytes.name /\ r.type = d.bytes.type
      BY <2>3, <3>1, NameReturns DEF Reply
    <3> HIDE DEF r
    <3> QED BY <2>2, <3>2, <3>3 DEF WellFormedAnswered
  <2>4. CASE ~WellFormed(d)
    BY <2>2, <2>4 DEF WellFormedAnswered
  <2> QED BY <2>3, <2>4
<1>3. CASE UNCHANGED vars
  BY <1>3 DEF vars, WellFormedAnswered
<1> QED BY <1>1, <1>2, <1>3 DEF Next

\* A complete query is answered to its sender with its own id, name and type:
\* of what earlier iterations have left in the buffer, in name and in
\* clientAddress nothing gets into the reply, and the plain name in it is the
\* one that was sent although it went through text.
THEOREM AnsweredTheorem == Spec => []WellFormedAnswered
<1>1. Init => WellFormedAnswered
  BY DEF Init, WellFormedAnswered, WellFormed
<1>2. ServerInv /\ WellFormedAnswered /\ [Next]_vars => WellFormedAnswered'
  BY WellFormedStep
<1> QED BY <1>1, <1>2, ServerInit, ServerStep, PTL DEF Spec

(***************************************************************************)
(* What is written at an offset is what is read there.                     *)
(***************************************************************************)
\* Writes that begin at these offsets, have these lengths and do not overlap.
Apart(writes, start, size) ==
    /\ DOMAIN writes = 1..Len(start)
    /\ \A k \in 1..Len(start) : /\ writes[k][1] = start[k] /\ start[k] \in Nat
                                /\ DOMAIN writes[k][2] = 1..size[k] /\ size[k] \in Nat
    /\ \A j, k \in 1..Len(start) : j < k => start[j] + size[j] <= start[k]

\* The first bytes of such writes are found where they were put.
Shows(d, len, writes, start, size) ==
    /\ DOMAIN d = 1..len
    /\ \A k \in 1..Len(start) : \A p \in 1..size[k] :
           start[k] + p <= len => d[start[k] + p] = writes[k][2][p]

\* Where no write hides another, the last one to reach a byte is the only one.
LEMMA LaidShows ==
    ASSUME NEW len \in Nat, NEW writes, NEW start, NEW size, Apart(writes, start, size),
           Len(start) \in Nat
    PROVE  Shows(Laid(len, writes), len, writes, start, size)
<1> SUFFICES ASSUME NEW k \in 1..Len(start), NEW p \in 1..size[k], start[k] + p <= len
             PROVE  Laid(len, writes)[start[k] + p] = writes[k][2][p]
  BY DEF Shows, Laid
<1> DEFINE i == start[k] + p
<1>1. i \in 1..len /\ i - start[k] = p
  BY DEF Apart
<1>2. Over(writes, i) = {k}
  <2>1. \A j \in 1..Len(start) : i - start[j] \in 1..size[j] <=> j = k
    <3> SUFFICES ASSUME NEW j \in 1..Len(start)
                 PROVE  i - start[j] \in 1..size[j] <=> j = k
      OBVIOUS
    <3>1. /\ start[j] \in Nat /\ start[k] \in Nat /\ size[j] \in Nat /\ size[k] \in Nat
          /\ j < k => start[j] + size[j] <= start[k]
          /\ k < j => start[k] + size[k] <= start[j]
      BY DEF Apart
    <3>2. j < k \/ j = k \/ k < j
      OBVIOUS
    <3> QED BY <3>1, <3>2
  <2> HIDE DEF i
  <2> QED BY <2>1 DEF Over, Apart
<1>3. Latest(writes, i) = k
  <2> HIDE DEF i
  <2>1. \A j \in {k} : j <= k
    OBVIOUS
  <2> QED BY <1>2, <2>1 DEF Latest
<1>4. writes[k][1] = start[k]
  BY DEF Apart
<1> HIDE DEF i
<1> QED BY <1>1, <1>2, <1>3, <1>4 DEF Laid, i

\* The bytes of the prepared records that steer a resolver: names, types and
\* lengths.
Steers(d, len, bytes) ==
    /\ Len(d) = len /\ DOMAIN d = 1..len
    /\ \A x \in bytes : x[1] \in 0..len - 1 /\ d[x[1] + 1] = x[2]

AddressBytes == {<<0, 192>>, <<1, 12>>, <<2, 0>>, <<3, 1>>, <<10, 0>>, <<11, 4>>}

LEMMA AddressLaid == Steers(prepare_dns_reply_a.data, 16, AddressBytes)
<1> DEFINE s == <<0, 2, 4, 6, 10, 12>>
           z == <<2, 2, 2, 4, 2, 4>>
           writes ==
              << <<0, Compressed>>, <<2, Address>>, <<4, Internet>>, <<6, Hour>>,
                 <<10, <<0, 4>>>>, <<12, spoof_addr>> >>
           d == prepare_dns_reply_a.data
<1>1. Len(s) = 6 /\ DOMAIN writes = 1..6
  OBVIOUS
<1>2. \A k \in 1..6 : writes[k][1] = s[k] /\ s[k] \in Nat
  OBVIOUS
<1>3. \A k \in 1..6 : DOMAIN writes[k][2] = 1..z[k]
  <2>1. /\ DOMAIN writes[1][2] = 1..2 /\ DOMAIN writes[2][2] = 1..2
        /\ DOMAIN writes[3][2] = 1..2 /\ DOMAIN writes[4][2] = 1..4
        /\ DOMAIN writes[5][2] = 1..2 /\ DOMAIN writes[6][2] = 1..4
    BY DEF Compressed, Internet, Hour, Mail, Srv, Address, spoof_addr
  <2>2. /\ z[1] = 2 /\ z[2] = 2 /\ z[3] = 2 /\ z[4] = 4 /\ z[5] = 2 /\ z[6] = 4
    OBVIOUS
  <2>3. \A k \in 1..6 : k \in {1, 2, 3, 4, 5, 6}
    OBVIOUS
  <2> HIDE DEF writes, z
  <2> QED BY <2>1, <2>2, <2>3
<1>4. \A k \in 1..6 : z[k] \in Nat
  OBVIOUS
<1>5. \A j, k \in 1..6 : j < k => s[j] + z[j] <= s[k]
  OBVIOUS
<1>6. /\ s[1] = 0 /\ s[2] = 2 /\ s[5] = 10 /\ z[1] = 2 /\ z[2] = 2 /\ z[5] = 2
  OBVIOUS
<1>7. /\ writes[1][2] = <<192, 12>> /\ writes[2][2] = <<0, 1>> /\ writes[5][2] = <<0, 4>>
  BY DEF Compressed, Address
<1>8. d = Laid(16, writes)
  BY DEF prepare_dns_reply_a, Body
<1> HIDE DEF writes, s, z, d
<1>9. Apart(writes, s, z)
  BY <1>1, <1>2, <1>3, <1>4, <1>5 DEF Apart
<1>10. Shows(d, 16, writes, s, z)
  <2>1. Len(s) \in Nat
    BY <1>1
  <2> QED BY <1>8, <1>9, <2>1, LaidShows, Zenon
<1>11. DOMAIN d = 1..16 /\ Len(d) = 16
  BY <1>8 DEF Laid
<1>12. /\ d[1] = 192 /\ d[2] = 12 /\ d[3] = 0 /\ d[4] = 1 /\ d[11] = 0 /\ d[12] = 4
  BY <1>1, <1>6, <1>7, <1>10 DEF Shows
<1>13. \A x \in AddressBytes : x[1] \in 0..16 - 1 /\ d[x[1] + 1] = x[2]
  BY <1>12 DEF AddressBytes
<1> QED BY <1>11, <1>13 DEF Steers, d

MailBytes == {<<0, 192>>, <<1, 12>>, <<2, 0>>, <<3, 15>>, <<10, 0>>, <<11, 9>>, <<14, 4>>,
               <<19, 192>>, <<20, 12>>, <<21, 4>>, <<26, 192>>, <<27, 12>>, <<28, 0>>,
               <<29, 1>>, <<36, 0>>, <<37, 4>>}

LEMMA MailLaid == Steers(prepare_dns_reply_mx.data, 42, MailBytes)
<1> DEFINE s == <<0, 2, 4, 6, 10, 12, 14, 21, 28, 30, 32, 36, 38>>
           z == <<2, 2, 2, 4, 2, 2, 7, 7, 2, 2, 4, 2, 4>>
           writes ==
              << <<0, Compressed>>, <<2, <<0, 15>>>>, <<4, Internet>>, <<6, Hour>>,
                 <<10, <<0, 9>>>>, <<12, <<0, 10>>>>, <<14, Mail>>, <<21, Mail>>,
                 <<21 + 7, Address>>, <<21 + 9, Internet>>, <<21 + 11, Hour>>,
                 <<21 + 15, <<0, 4>>>>, <<21 + 17, spoof_addr>> >>
           d == prepare_dns_reply_mx.data
<1>1. Len(s) = 13 /\ DOMAIN writes = 1..13
  OBVIOUS
<1>2. \A k \in 1..13 : writes[k][1] = s[k] /\ s[k] \in Nat
  OBVIOUS
<1>3. \A k \in 1..13 : DOMAIN writes[k][2] = 1..z[k]
  <2>1. /\ DOMAIN writes[1][2] = 1..2 /\ DOMAIN writes[2][2] = 1..2
        /\ DOMAIN writes[3][2] = 1..2 /\ DOMAIN writes[4][2] = 1..4
        /\ DOMAIN writes[5][2] = 1..2 /\ DOMAIN writes[6][2] = 1..2
        /\ DOMAIN writes[7][2] = 1..7 /\ DOMAIN writes[8][2] = 1..7
        /\ DOMAIN writes[9][2] = 1..2 /\ DOMAIN writes[10][2] = 1..2
        /\ DOMAIN writes[11][2] = 1..4 /\ DOMAIN writes[12][2] = 1..2
        /\ DOMAIN writes[13][2] = 1..4
    BY DEF Compressed, Internet, Hour, Mail, Srv, Address, spoof_addr
  <2>2. /\ z[1] = 2 /\ z[2] = 2 /\ z[3] = 2 /\ z[4] = 4 /\ z[5] = 2 /\ z[6] = 2 /\ z[7] = 7
        /\ z[8] = 7 /\ z[9] = 2 /\ z[10] = 2 /\ z[11] = 4 /\ z[12] = 2 /\ z[13] = 4
    OBVIOUS
  <2>3. \A k \in 1..13 : k \in {1, 2, 3, 4, 5, 6, 7, 8, 9, 10, 11, 12, 13}
    OBVIOUS
  <2> HIDE DEF writes, z
  <2> QED BY <2>1, <2>2, <2>3
<1>4. \A k \in 1..13 : z[k] \in Nat
  OBVIOUS
<1>5. \A j, k \in 1..13 : j < k => s[j] + z[j] <= s[k]
  OBVIOUS
<1>6. /\ s[1] = 0 /\ s[2] = 2 /\ s[5] = 10 /\ s[7] = 14 /\ s[8] = 21 /\ s[9] = 28
      /\ s[12] = 36 /\ z[1] = 2 /\ z[2] = 2 /\ z[5] = 2 /\ z[7] = 7 /\ z[8] = 7 /\ z[9] = 2
      /\ z[12] = 2
  OBVIOUS
<1>7. /\ writes[1][2] = <<192, 12>> /\ writes[2][2] = <<0, 15>> /\ writes[5][2] = <<0, 9>>
      /\ writes[7][2] = <<4, 109, 97, 105, 108, 192, 12>>
      /\ writes[8][2] = <<4, 109, 97, 105, 108, 192, 12>> /\ writes[9][2] = <<0, 1>>
      /\ writes[12][2] = <<0, 4>>
  BY DEF Compressed, Mail, Address
<1>8. d = Laid(42, writes)
  BY DEF prepare_dns_reply_mx, Body
<1> HIDE DEF writes, s, z, d
<1>9. Apart(writes, s, z)
  BY <1>1, <1>2, <1>3, <1>4, <1>5 DEF Apart
<1>10. Shows(d, 42, writes, s, z)
  <2>1. Len(s) \in Nat
    BY <1>1
  <2> QED BY <1>8, <1>9, <2>1, LaidShows, Zenon
<1>11. DOMAIN d = 1..42 /\ Len(d) = 42
  BY <1>8 DEF Laid
<1>12. /\ d[1] = 192 /\ d[2] = 12 /\ d[3] = 0 /\ d[4] = 15 /\ d[11] = 0 /\ d[12] = 9
  BY <1>1, <1>6, <1>7, <1>10 DEF Shows
<1>13. /\ d[15] = 4 /\ d[20] = 192 /\ d[21] = 12 /\ d[22] = 4 /\ d[27] = 192 /\ d[28] = 12
  BY <1>1, <1>6, <1>7, <1>10 DEF Shows
<1>14. /\ d[29] = 0 /\ d[30] = 1 /\ d[37] = 0 /\ d[38] = 4
  BY <1>1, <1>6, <1>7, <1>10 DEF Shows
<1>15. \A x \in MailBytes : x[1] \in 0..42 - 1 /\ d[x[1] + 1] = x[2]
  BY <1>12, <1>13, <1>14 DEF MailBytes
<1> QED BY <1>11, <1>15 DEF Steers, d

ServiceBytes == {<<0, 192>>, <<1, 12>>, <<2, 0>>, <<3, 33>>, <<10, 0>>, <<11, 12>>, <<18, 3>>,
               <<22, 192>>, <<23, 12>>, <<24, 3>>, <<28, 192>>, <<29, 12>>, <<30, 0>>,
               <<31, 1>>, <<38, 0>>, <<39, 4>>}

LEMMA ServiceLaid == Steers(prepare_dns_reply_srv(0).data, 44, ServiceBytes)
<1> DEFINE s == <<0, 2, 4, 6, 10, 12, 14, 16, 18, 22, 24, 28, 30, 32, 34, 38, 40>>
           z == <<2, 2, 2, 4, 2, 2, 2, 2, 4, 2, 4, 2, 2, 2, 4, 2, 4>>
           writes ==
              << <<0, Compressed>>, <<2, <<0, 33>>>>, <<4, Internet>>, <<6, Hour>>,
                 <<10, <<0, 12>>>>, <<12, <<0, 0>>>>, <<14, <<0, 0>>>>, <<16, <<8, 0>>>>,
                 <<18, Srv>>, <<22, <<192, 12 + 0>>>>, <<24, Srv>>,
                 <<24 + 4, <<192, 12 + 0>>>>, <<24 + 6, Address>>, <<24 + 8, Internet>>,
                 <<24 + 10, Hour>>, <<24 + 14, <<0, 4>>>>, <<24 + 16, spoof_addr>> >>
           d == prepare_dns_reply_srv(0).data
<1>1. Len(s) = 17 /\ DOMAIN writes = 1..17
  OBVIOUS
<1>2. \A k \in 1..17 : writes[k][1] = s[k] /\ s[k] \in Nat
  OBVIOUS
<1>3. \A k \in 1..17 : DOMAIN writes[k][2] = 1..z[k]
  <2>1. /\ DOMAIN writes[1][2] = 1..2 /\ DOMAIN writes[2][2] = 1..2
        /\ DOMAIN writes[3][2] = 1..2 /\ DOMAIN writes[4][2] = 1..4
        /\ DOMAIN writes[5][2] = 1..2 /\ DOMAIN writes[6][2] = 1..2
        /\ DOMAIN writes[7][2] = 1..2 /\ DOMAIN writes[8][2] = 1..2
        /\ DOMAIN writes[9][2] = 1..4 /\ DOMAIN writes[10][2] = 1..2
        /\ DOMAIN writes[11][2] = 1..4 /\ DOMAIN writes[12][2] = 1..2
        /\ DOMAIN writes[13][2] = 1..2 /\ DOMAIN writes[14][2] = 1..2
        /\ DOMAIN writes[15][2] = 1..4 /\ DOMAIN writes[16][2] = 1..2
        /\ DOMAIN writes[17][2] = 1..4
    BY DEF Compressed, Internet, Hour, Mail, Srv, Address, spoof_addr
  <2>2. /\ z[1] = 2 /\ z[2] = 2 /\ z[3] = 2 /\ z[4] = 4 /\ z[5] = 2 /\ z[6] = 2 /\ z[7] = 2
        /\ z[8] = 2 /\ z[9] = 4 /\ z[10] = 2 /\ z[11] = 4 /\ z[12] = 2 /\ z[13] = 2
        /\ z[14] = 2 /\ z[15] = 4 /\ z[16] = 2 /\ z[17] = 4
    OBVIOUS
  <2>3. \A k \in 1..17 : k \in {1, 2, 3, 4, 5, 6, 7, 8, 9, 10, 11, 12, 13, 14, 15, 16, 17}
    OBVIOUS
  <2> HIDE DEF writes, z
  <2> QED BY <2>1, <2>2, <2>3
<1>4. \A k \in 1..17 : z[k] \in Nat
  OBVIOUS
<1>5. \A j, k \in 1..17 : j < k => s[j] + z[j] <= s[k]
  OBVIOUS
<1>6. /\ s[1] = 0 /\ s[2] = 2 /\ s[5] = 10 /\ s[9] = 18 /\ s[10] = 22 /\ s[11] = 24
      /\ s[12] = 28 /\ s[13] = 30 /\ s[16] = 38 /\ z[1] = 2 /\ z[2] = 2 /\ z[5] = 2
      /\ z[9] = 4 /\ z[10] = 2 /\ z[11] = 4 /\ z[12] = 2 /\ z[13] = 2 /\ z[16] = 2
  OBVIOUS
<1>7. /\ writes[1][2] = <<192, 12>> /\ writes[2][2] = <<0, 33>> /\ writes[5][2] = <<0, 12>>
      /\ writes[9][2] = <<3, 115, 114, 118>> /\ writes[10][2] = <<192, 12>>
      /\ writes[11][2] = <<3, 115, 114, 118>> /\ writes[12][2] = <<192, 12>>
      /\ writes[13][2] = <<0, 1>> /\ writes[16][2] = <<0, 4>>
  BY DEF Compressed, Srv, Address
<1>8. d = Laid(44, writes)
  BY DEF prepare_dns_reply_srv, Body
<1> HIDE DEF writes, s, z, d
<1>9. Apart(writes, s, z)
  BY <1>1, <1>2, <1>3, <1>4, <1>5 DEF Apart
<1>10. Shows(d, 44, writes, s, z)
  <2>1. Len(s) \in Nat
    BY <1>1
  <2> QED BY <1>8, <1>9, <2>1, LaidShows, Zenon
<1>11. DOMAIN d = 1..44 /\ Len(d) = 44
  BY <1>8 DEF Laid
<1>12. /\ d[1] = 192 /\ d[2] = 12 /\ d[3] = 0 /\ d[4] = 33 /\ d[11] = 0 /\ d[12] = 12
  BY <1>1, <1>6, <1>7, <1>10 DEF Shows
<1>13. /\ d[19] = 3 /\ d[23] = 192 /\ d[24] = 12 /\ d[25] = 3 /\ d[29] = 192 /\ d[30] = 12
  BY <1>1, <1>6, <1>7, <1>10 DEF Shows
<1>14. /\ d[31] = 0 /\ d[32] = 1 /\ d[39] = 0 /\ d[40] = 4
  BY <1>1, <1>6, <1>7, <1>10 DEF Shows
<1>15. \A x \in ServiceBytes : x[1] \in 0..44 - 1 /\ d[x[1] + 1] = x[2]
  BY <1>12, <1>13, <1>14 DEF ServiceBytes
<1> QED BY <1>11, <1>15 DEF Steers, d

AuthorityBytes == {<<0, 192>>, <<1, 12>>, <<2, 0>>, <<3, 6>>, <<10, 0>>, <<11, 34>>, <<12, 3>>,
               <<16, 192>>, <<17, 12>>, <<18, 5>>, <<24, 192>>, <<25, 12>>}

LEMMA AuthorityLaid == Steers(prepare_dns_reply_default.data, 46, AuthorityBytes)
<1> DEFINE s == <<0, 2, 4, 6, 10, 12, 16, 18, 24, 26, 30, 34, 38, 42>>
           z == <<2, 2, 2, 4, 2, 4, 2, 6, 2, 4, 4, 4, 4, 4>>
           writes ==
              << <<0, Compressed>>, <<2, <<0, 6>>>>, <<4, Internet>>, <<6, Hour>>,
                 <<10, <<0, 34>>>>, <<12, <<3, 110, 115, 49>>>>, <<16, Compressed>>,
                 <<18, <<5, 97, 98, 117, 115, 101>>>>, <<24, Compressed>>,
                 <<26, <<81, 121, 87, 245>>>>, <<30, Hour>>, <<34, <<0, 0, 2, 88>>>>,
                 <<38, <<0, 9, 58, 128>>>>, <<42, <<0, 0, 0, 60>>>> >>
           d == prepare_dns_reply_default.data
<1>1. Len(s) = 14 /\ DOMAIN writes = 1..14
  OBVIOUS
<1>2. \A k \in 1..14 : writes[k][1] = s[k] /\ s[k] \in Nat
  OBVIOUS
<1>3. \A k \in 1..14 : DOMAIN writes[k][2] = 1..z[k]
  <2>1. /\ DOMAIN writes[1][2] = 1..2 /\ DOMAIN writes[2][2] = 1..2
        /\ DOMAIN writes[3][2] = 1..2 /\ DOMAIN writes[4][2] = 1..4
        /\ DOMAIN writes[5][2] = 1..2 /\ DOMAIN writes[6][2] = 1..4
        /\ DOMAIN writes[7][2] = 1..2 /\ DOMAIN writes[8][2] = 1..6
        /\ DOMAIN writes[9][2] = 1..2 /\ DOMAIN writes[10][2] = 1..4
        /\ DOMAIN writes[11][2] = 1..4 /\ DOMAIN writes[12][2] = 1..4
        /\ DOMAIN writes[13][2] = 1..4 /\ DOMAIN writes[14][2] = 1..4
    BY DEF Compressed, Internet, Hour, Mail, Srv, Address, spoof_addr
  <2>2. /\ z[1] = 2 /\ z[2] = 2 /\ z[3] = 2 /\ z[4] = 4 /\ z[5] = 2 /\ z[6] = 4 /\ z[7] = 2
        /\ z[8] = 6 /\ z[9] = 2 /\ z[10] = 4 /\ z[11] = 4 /\ z[12] = 4 /\ z[13] = 4
        /\ z[14] = 4
    OBVIOUS
  <2>3. \A k \in 1..14 : k \in {1, 2, 3, 4, 5, 6, 7, 8, 9, 10, 11, 12, 13, 14}
    OBVIOUS
  <2> HIDE DEF writes, z
  <2> QED BY <2>1, <2>2, <2>3
<1>4. \A k \in 1..14 : z[k] \in Nat
  OBVIOUS
<1>5. \A j, k \in 1..14 : j < k => s[j] + z[j] <= s[k]
  OBVIOUS
<1>6. /\ s[1] = 0 /\ s[2] = 2 /\ s[5] = 10 /\ s[6] = 12 /\ s[7] = 16 /\ s[8] = 18 /\ s[9] = 24
      /\ z[1] = 2 /\ z[2] = 2 /\ z[5] = 2 /\ z[6] = 4 /\ z[7] = 2 /\ z[8] = 6 /\ z[9] = 2
  OBVIOUS
<1>7. /\ writes[1][2] = <<192, 12>> /\ writes[2][2] = <<0, 6>> /\ writes[5][2] = <<0, 34>>
      /\ writes[6][2] = <<3, 110, 115, 49>> /\ writes[7][2] = <<192, 12>>
      /\ writes[8][2] = <<5, 97, 98, 117, 115, 101>> /\ writes[9][2] = <<192, 12>>
  BY DEF Compressed
<1>8. d = Laid(46, writes)
  BY DEF prepare_dns_reply_default, Body
<1> HIDE DEF writes, s, z, d
<1>9. Apart(writes, s, z)
  BY <1>1, <1>2, <1>3, <1>4, <1>5 DEF Apart
<1>10. Shows(d, 46, writes, s, z)
  <2>1. Len(s) \in Nat
    BY <1>1
  <2> QED BY <1>8, <1>9, <2>1, LaidShows, Zenon
<1>11. DOMAIN d = 1..46 /\ Len(d) = 46
  BY <1>8 DEF Laid
<1>12. /\ d[1] = 192 /\ d[2] = 12 /\ d[3] = 0 /\ d[4] = 6 /\ d[11] = 0 /\ d[12] = 34
  BY <1>1, <1>6, <1>7, <1>10 DEF Shows
<1>13. /\ d[13] = 3 /\ d[17] = 192 /\ d[18] = 12 /\ d[19] = 5 /\ d[25] = 192 /\ d[26] = 12
  BY <1>1, <1>6, <1>7, <1>10 DEF Shows
<1>14. \A x \in AuthorityBytes : x[1] \in 0..46 - 1 /\ d[x[1] + 1] = x[2]
  BY <1>12, <1>13 DEF AuthorityBytes
<1> QED BY <1>11, <1>14 DEF Steers, d

(***************************************************************************)
(* How a resolver passes over a name.                                      *)
(***************************************************************************)
\* The end of the labels that begin at an offset.
Walks(f, m) ==
    /\ DOMAIN f = 0..Len(m) + 63
    /\ \A o \in 0..Len(m) + 63 :
           f[o] = IF Octet(m, o) \in 1..63 THEN f[o + 1 + Octet(m, o)] ELSE o

\* What NameEnd makes of that end.
Finish(m, end) ==
    IF Octet(m, end) = 0 THEN end + 1
    ELSE IF Octet(m, end) = 192 /\ Octet(m, end + 1) = 12 THEN end + 2
    ELSE Len(m) + 1

\* A sequence of any bytes.
Message(m) == Len(m) \in Nat /\ DOMAIN m = 1..Len(m)

\* Labels are passed over from the first on: every walk ends, as a label leads
\* forward.
LEMMA WalkExists ==
    ASSUME NEW m, Message(m)
    PROVE  \E f : f = [o \in 0..Len(m) + 63 |->
                         IF Octet(m, o) \in 1..63 THEN f[o + 1 + Octet(m, o)] ELSE o]
<1> DEFINE T == Len(m) + 63
           Next1(f, o) == IF Octet(m, o) \in 1..63 THEN f[o + 1 + Octet(m, o)] ELSE o
           From(f, n) == f = [o \in T - n..T |-> Next1(f, o)]
           S == {n \in 0..T : \E f : From(f, n)}
<1>1. T \in Nat /\ Len(m) \in Nat
  BY DEF Message
<1>2. \A o \in 0..T : Octet(m, o) \in 1..63 => o + 1 + Octet(m, o) \in o + 1..T
  <2> SUFFICES ASSUME NEW o \in 0..T, Octet(m, o) \in 1..63
               PROVE  o + 1 + Octet(m, o) \in o + 1..T
    OBVIOUS
  <2> DEFINE l == Octet(m, o)
             n == Len(m)
  <2>1. o + 1 \in 1..n /\ l \in 1..63
    BY DEF Octet, Message
  <2>2. n \in Nat /\ T = n + 63 /\ o \in Nat
    BY <1>1
  <2> HIDE DEF l, n, T
  <2>3. o + 1 + l \in o + 1..T
    BY <2>1, <2>2
  <2> QED BY <2>3 DEF l
<1>3. 0 \in S
  <2> DEFINE f == [o \in T - 0..T |-> o]
  <2>1. ASSUME NEW o \in T - 0..T PROVE Next1(f, o) = o
    <3>1. o = T
      BY <1>1
    <3>2. Octet(m, o) \notin 1..63
      <4>1. o + 1 \notin 1..Len(m)
        BY <1>1, <3>1
      <4> QED BY <4>1 DEF Octet, Message
    <3> QED BY <3>2
  <2>2. From(f, 0)
    <3> HIDE DEF Next1, T
    <3> QED BY <2>1
  <2> HIDE DEF From, f
  <2>3. 0 \in 0..T
    BY <1>1
  <2> QED BY <2>2, <2>3
<1>4. ASSUME NEW n \in 0..T, n < T, n \in S PROVE n + 1 \in S
  <2>1. PICK f : From(f, n)
    BY <1>4
  <2> DEFINE b == T - (n + 1)
             e == [o \in b..T |-> IF o = b THEN Next1(f, b) ELSE f[o]]
  <2>2. b \in 0..T /\ b + 1 = T - n /\ n + 1 \in 0..T
    BY <1>1, <1>4
  <2>3. ASSUME NEW o \in b..T PROVE e[o] = Next1(e, o)
    <3>1. Next1(e, o) = Next1(f, o)
      <4>1. CASE Octet(m, o) \in 1..63
        <5> DEFINE p == o + 1 + Octet(m, o)
        <5>1. p \in o + 1..T
          BY <1>2, <2>2, <4>1
        <5>2. p \in b..T /\ p # b
          <6> HIDE DEF p
          <6> QED BY <1>1, <2>2, <5>1
        <5>3. e[p] = f[p]
          <6> HIDE DEF p, Next1, T, b
          <6> QED BY <5>2
        <5> HIDE DEF e, T
        <5> QED BY <4>1, <5>3
      <4>2. CASE Octet(m, o) \notin 1..63
        <5> HIDE DEF e, T
        <5> QED BY <4>2
      <4> QED BY <4>1, <4>2
    <3>2. e[o] = Next1(f, o)
      <4>1. CASE o = b
        <5> HIDE DEF Next1, T
        <5> QED BY <4>1
      <4>2. CASE o # b
        <5>1. o \in T - n..T
          BY <1>1, <2>2, <4>2
        <5>2. f[o] = Next1(f, o)
          <6> HIDE DEF Next1, T
          <6> QED BY <2>1, <5>1
        <5>3. e[o] = f[o]
          <6> HIDE DEF Next1, T, b
          <6> QED BY <4>2
        <5> HIDE DEF e, T, Next1
        <5> QED BY <5>2, <5>3
      <4> QED BY <4>1, <4>2
    <3> HIDE DEF e, T, Next1
    <3> QED BY <3>1, <3>2
  <2>4. From(e, n + 1)
    <3>1. e = [o \in b..T |-> e[o]]
      <4> HIDE DEF Next1, T, b
      <4> QED OBVIOUS
    <3> HIDE DEF e, T, Next1
    <3> QED BY <2>3, <3>1
  <2> HIDE DEF From, e, T
  <2> QED BY <2>2, <2>4
<1>5. T \in S
  <2> HIDE DEF S, T
  <2>1. 0..T \subseteq S
    BY <1>1, <1>3, <1>4, SetInduction
  <2> QED BY <1>1, <2>1
<1>6. PICK f : From(f, T)
  <2> HIDE DEF From
  <2> QED BY <1>5
<1>7. T - T = 0
  BY <1>1
<1>8. f = [o \in 0..T |-> Next1(f, o)]
  <2> HIDE DEF Next1, T
  <2> QED BY <1>6, <1>7
<1> QED BY <1>8

\* So NameEnd is what one such walk says.
LEMMA NameEndWalks ==
    ASSUME NEW m, Message(m), NEW at
    PROVE  \E f : Walks(f, m) /\ NameEnd(m, at) = Finish(m, f[at])
<1> DEFINE T == Len(m) + 63
           Next1(f, o) == IF Octet(m, o) \in 1..63 THEN f[o + 1 + Octet(m, o)] ELSE o
           Rec(f) == f = [o \in 0..T |-> Next1(f, o)]
           h == CHOOSE f : Rec(f)
<1>1. Rec(h)
  <2>1. \E f : Rec(f)
    BY WalkExists
  <2> HIDE DEF Rec
  <2> QED BY <2>1
<1>2. NameEnd(m, at) = Finish(m, h[at])
  BY Zenon DEF NameEnd, Finish
<1>3. Walks(h, m)
  <2> HIDE DEF h
  <2>1. DOMAIN h = 0..T /\ \A o \in 0..T : h[o] = Next1(h, o)
    <3> HIDE DEF Next1, T
    <3> QED BY <1>1
  <2> QED BY <2>1 DEF Walks
<1> HIDE DEF h
<1> QED BY <1>2, <1>3

\* A pointer to the question, and a label in front of one.
PointerAt(m, at) == Octet(m, at) = 192 /\ Octet(m, at + 1) = 12

LEMMA EndPointer ==
    ASSUME NEW m, Message(m), NEW at \in 0..Len(m), PointerAt(m, at)
    PROVE  NameEnd(m, at) = at + 2
<1>1. PICK f : Walks(f, m) /\ NameEnd(m, at) = Finish(m, f[at])
  BY NameEndWalks
<1>2. at \in 0..Len(m) + 63
  BY DEF Message
<1>3. f[at] = at
  <2>1. Octet(m, at) \notin 1..63
    BY DEF PointerAt
  <2> QED BY <1>1, <1>2, <2>1, Zenon DEF Walks
<1> QED BY <1>1, <1>3 DEF Finish, PointerAt

LEMMA EndLabel ==
    ASSUME NEW m, Message(m), NEW at \in 0..Len(m), NEW l \in 1..63, Octet(m, at) = l,
           PointerAt(m, at + 1 + l)
    PROVE  NameEnd(m, at) = at + 1 + l + 2
<1> DEFINE p == at + 1 + l
<1>1. PICK f : Walks(f, m) /\ NameEnd(m, at) = Finish(m, f[at])
  BY NameEndWalks
<1>2. at \in 0..Len(m) + 63 /\ p \in 0..Len(m) + 63
  <2>1. Len(m) \in Nat /\ at + 1 \in 1..Len(m)
    BY DEF Message, Octet
  <2> QED BY <2>1
<1>3. f[at] = f[p]
  BY <1>1, <1>2 DEF Walks
<1>4. f[p] = p
  <2> HIDE DEF p
  <2>1. Octet(m, p) = 192
    BY DEF p, PointerAt
  <2>2. Octet(m, p) \notin 1..63
    BY <2>1
  <2> QED BY <1>1, <1>2, <2>2, Zenon DEF Walks
<1>5. Finish(m, p) = p + 2
  <2> HIDE DEF p
  <2>1. PointerAt(m, p)
    BY DEF p
  <2> QED BY <2>1 DEF Finish, PointerAt
<1> QED BY <1>1, <1>3, <1>4, <1>5

(**************************************************************************)
(* The name in the question, as encode_domain writes it.                   *)
(**************************************************************************)
\* Where the length of each label is in the bytes of a name.
Sizes(labels) == Len(labels) \in Nat /\ \A n \in 1..Len(labels) : Len(labels[n]) \in 1..63

\* A resolver that follows the lengths meets every label, and then the zero.
Marks(w, labels) ==
    LET N == Len(labels)
        o == NameOctets(labels)
    IN  /\ w \in [0..N -> Nat] /\ w[0] = 0
        /\ o \in Seq(Nat) /\ Len(o) = w[N] + 1 /\ o[w[N] + 1] = 0
        /\ \A n \in 1..N : /\ w[n] = w[n - 1] + 1 + Len(labels[n])
                           /\ w[n] <= w[N]
                           /\ o[w[n - 1] + 1] = Len(labels[n])

\* The bytes of the first n labels.
Piece(labels, n) == <<Len(labels[n]) % 256>> \o Letters(Len(labels[n]))

\* The bytes of 0, 1, ... labels.
Parts(f, labels) ==
    /\ f \in [0..Len(labels) -> Seq(Nat)]
    /\ f[0] = <<>>
    /\ \A n \in 1..Len(labels) : f[n] = f[n - 1] \o Piece(labels, n)

\* What a concatenation of bytes is.
Joined(S, c, a, b) ==
    /\ c = a \o b /\ c \in Seq(S) /\ Len(a) \in Nat /\ Len(b) \in Nat
    /\ Len(c) = Len(a) + Len(b)
    /\ \A i \in 1..Len(a) : c[i] = a[i]
    /\ \A i \in 1..Len(b) : c[Len(a) + i] = b[i]

\* Of two sequences of the same set it is one.
LEMMA JoinBytes ==
    ASSUME NEW S, NEW a \in Seq(S), NEW b \in Seq(S)
    PROVE  Joined(S, a \o b, a, b)
<1>1. Len(a) \in Nat /\ Len(b) \in Nat
  OBVIOUS
<1>2. /\ a \o b \in Seq(S) /\ Len(a \o b) = Len(a) + Len(b)
      /\ \A i \in 1..Len(a) + Len(b) :
            (a \o b)[i] = IF i <= Len(a) THEN a[i] ELSE b[i - Len(a)]
  BY ConcatProperties
<1> DEFINE c == a \o b
           n == Len(a)
           k == Len(b)
<1> HIDE DEF c, n, k
<1>3. n \in Nat /\ k \in Nat
  BY <1>1 DEF n, k
<1>4. \A i \in 1..n + k : c[i] = IF i <= n THEN a[i] ELSE b[i - n]
  BY <1>2 DEF c, n, k
<1>5. ASSUME NEW i \in 1..n PROVE c[i] = a[i]
  BY <1>3, <1>4
<1>6. ASSUME NEW i \in 1..k PROVE c[n + i] = b[i]
  <2>1. n + i \in 1..n + k /\ ~(n + i <= n) /\ (n + i) - n = i
    BY <1>3
  <2> QED BY <1>4, <2>1
<1> QED BY <1>1, <1>2, <1>5, <1>6 DEF Joined, c, n, k

\* A label has at most 63 bytes, so that its length survives in a char.
LEMMA PieceType ==
    ASSUME NEW labels, Sizes(labels), NEW n \in 1..Len(labels)
    PROVE  /\ Piece(labels, n) \in Seq(Nat) /\ Len(Piece(labels, n)) = 1 + Len(labels[n])
           /\ Piece(labels, n)[1] = Len(labels[n])
<1> DEFINE l == Len(labels[n])
<1>1. l \in 1..63
  BY DEF Sizes
<1> HIDE DEF l
<1>2. l % 256 = l
  BY <1>1
<1>3. <<l>> \in Seq(Nat) /\ Len(<<l>>) = 1 /\ <<l>>[1] = l
  BY <1>1
<1>4. Letters(l) \in Seq(Nat) /\ Len(Letters(l)) = l
  BY <1>1 DEF Letters
<1> DEFINE p == <<l>>
           q == Letters(l)
<1>5. p \o q \in Seq(Nat) /\ Len(p \o q) = 1 + l /\ (p \o q)[1] = l
  <2>1. p \in Seq(Nat) /\ Len(p) = 1 /\ p[1] = l /\ q \in Seq(Nat) /\ Len(q) = l
    BY <1>3, <1>4
  <2> HIDE DEF p, q
  <2>2. Joined(Nat, p \o q, p, q)
    BY <2>1, JoinBytes
  <2>3. 1 \in 1..Len(p)
    BY <2>1
  <2> QED BY <1>1, <2>1, <2>2, <2>3 DEF Joined
<1>6. Piece(labels, n) = p \o q
  BY <1>2 DEF Piece, l
<1> QED BY <1>5, <1>6 DEF l

\* The recursion of NameOctets builds these parts.
LEMMA NameParts ==
    ASSUME NEW labels, Sizes(labels)
    PROVE  \E f : Parts(f, labels) /\ NameOctets(labels) = f[Len(labels)] \o <<0>>
<1> DEFINE N == Len(labels)
           With(v, n) == v \o (<<Len(labels[n]) % 256>> \o Letters(Len(labels[n])))
           Rec(f) == f = [n \in 0..N |-> IF n = 0 THEN <<>> ELSE With(f[n - 1], n)]
           h == CHOOSE f : Rec(f)
           V == Seq(Nat)
           g == [p \in V \X (1..N) |-> With(p[1], p[2])]
<1>1. N \in Nat /\ <<>> \in V
  BY DEF Sizes
<1>2. \A v \in V, n \in 1..N : With(v, n) \in V /\ With(v, n) = v \o Piece(labels, n)
  <2> SUFFICES ASSUME NEW v \in V, NEW n \in 1..N
               PROVE  With(v, n) \in V /\ With(v, n) = v \o Piece(labels, n)
    OBVIOUS
  <2>1. Piece(labels, n) \in V
    BY PieceType
  <2>2. v \o Piece(labels, n) \in V
    BY <2>1, ConcatProperties
  <2> QED BY <2>2 DEF Piece
<1>3. PICK f : Iterates(f, N, V, <<>>, g)
  <2>1. g \in Steps(N, V)
    <3> HIDE DEF With, V
    <3> QED BY <1>2 DEF Steps
  <2> HIDE DEF g, N, V
  <2> QED BY <1>1, <2>1, RecursionExists
<1>4. f \in [0..N -> V] /\ f[0] = <<>> /\ \A n \in 1..N : f[n] = With(f[n - 1], n)
  <2>1. \A v \in V, n \in 1..N : g[<<v, n>>] = With(v, n)
    <3> HIDE DEF With, V
    <3> QED OBVIOUS
  <2>2. ASSUME NEW n \in 1..N PROVE f[n] = With(f[n - 1], n)
    <3>1. f[n - 1] \in V /\ f[n] = g[<<f[n - 1], n>>]
      <4> HIDE DEF g, N, V
      <4>1. n - 1 \in 0..N
        BY <1>1
      <4> QED BY <1>3, <4>1 DEF Iterates
    <3> HIDE DEF g, With, N, V
    <3> QED BY <2>1, <3>1
  <2> HIDE DEF g, V
  <2> QED BY <1>3, <2>2 DEF Iterates
<1>5. Rec(f)
  <2> HIDE DEF With, N, V
  <2>1. ASSUME NEW n \in 0..N PROVE f[n] = IF n = 0 THEN <<>> ELSE With(f[n - 1], n)
    <3>1. n # 0 => n \in 1..N
      BY <1>1
    <3> QED BY <1>4, <3>1
  <2> QED BY <1>4, <2>1
<1>6. Rec(h)
  BY <1>5
<1>7. NameOctets(labels) = h[N] \o <<0>>
  BY Zenon DEF NameOctets
<1>8. \A n \in 0..N : h[n] = f[n]
  <2> HIDE DEF With, h, N
  <2>1. SameSteps(h, f, N)
    BY <1>1, <1>5, <1>6 DEF SameSteps
  <2> QED BY <1>1, <2>1, SameStepsAgree
<1>9. Parts(f, labels)
  <2>1. \A n \in 1..N : f[n - 1] \in V
    <3> HIDE DEF V, With, N
    <3>1. \A n \in 1..N : n - 1 \in 0..N
      BY <1>1
    <3> QED BY <1>4, <3>1
  <2>2. \A n \in 1..N : f[n] = f[n - 1] \o Piece(labels, n)
    <3> HIDE DEF With, V, N
    <3> QED BY <1>2, <1>4, <2>1
  <2> QED BY <1>4, <2>2 DEF Parts
<1>10. h[N] = f[N]
  <2> HIDE DEF h, N
  <2> QED BY <1>1, <1>8
<1> HIDE DEF h
<1> QED BY <1>7, <1>9, <1>10

\* The lengths lead from label to label, and to the zero.
LEMMA NameMarks ==
    ASSUME NEW labels, Sizes(labels)
    PROVE  \E w : Marks(w, labels)
<1> DEFINE N == Len(labels)
           o == NameOctets(labels)
<1>1. PICK f : Parts(f, labels) /\ o = f[N] \o <<0>>
  BY NameParts
<1>2. N \in Nat /\ \A n \in 0..N : f[n] \in Seq(Nat) /\ Len(f[n]) \in Nat
  <2>1. N \in Nat /\ f \in [0..N -> Seq(Nat)]
    BY <1>1 DEF Sizes, Parts
  <2> HIDE DEF N
  <2> QED BY <2>1
<1> HIDE DEF N
<1>3. ASSUME NEW n \in 1..N
      PROVE  /\ n - 1 \in 0..N /\ Len(f[n]) = Len(f[n - 1]) + 1 + Len(labels[n])
             /\ Len(labels[n]) \in 1..63
             /\ f[n][Len(f[n - 1]) + 1] = Len(labels[n])
             /\ \A i \in 1..Len(f[n - 1]) : f[n][i] = f[n - 1][i]
  <2> DEFINE a == f[n - 1]
             p == Piece(labels, n)
  <2>1. n - 1 \in 0..N
    BY <1>2
  <2>2. a \in Seq(Nat)
    BY <1>2, <2>1
  <2>3. p \in Seq(Nat) /\ Len(p) = 1 + Len(labels[n]) /\ p[1] = Len(labels[n])
    BY PieceType DEF N
  <2>4. f[n] = a \o p
    BY <1>1 DEF Parts, N
  <2>5. Len(labels[n]) \in 1..63
    BY DEF N, Sizes
  <2> DEFINE l == Len(labels[n])
  <2> HIDE DEF a, p, l
  <2>6. /\ Len(a \o p) = Len(a) + 1 + l /\ (a \o p)[Len(a) + 1] = l
        /\ \A i \in 1..Len(a) : (a \o p)[i] = a[i]
    <3>1. l \in 1..63 /\ p \in Seq(Nat) /\ Len(p) = 1 + l /\ p[1] = l /\ Len(a) \in Nat
      BY <2>2, <2>3, <2>5 DEF l
    <3>2. Joined(Nat, a \o p, a, p)
      BY <2>2, <3>1, JoinBytes
    <3>3. Len(a \o p) = Len(a) + 1 + l
      <4> DEFINE x == Len(a)
                 y == Len(p)
                 z == Len(a \o p)
      <4>1. z = x + y /\ x \in Nat /\ l \in 1..63 /\ y = 1 + l
        BY <3>1, <3>2 DEF Joined
      <4> HIDE DEF x, y, z
      <4>2. z = x + 1 + l
        BY <4>1
      <4> QED BY <4>2 DEF x, z
    <3>4. 1 \in 1..Len(p)
      BY <3>1
    <3>5. (a \o p)[Len(a) + 1] = l
      BY <3>1, <3>2, <3>4 DEF Joined
    <3> QED BY <3>2, <3>3, <3>5 DEF Joined
  <2> QED BY <2>1, <2>4, <2>5, <2>6 DEF a, l
\* What is written stays.
<1> DEFINE Within(n) == \A k \in 0..n : /\ Len(f[k]) <= Len(f[n])
                                        /\ \A i \in 1..Len(f[k]) : f[n][i] = f[k][i]
           S == {n \in 0..N : Within(n)}
<1>4. 0 \in S
  BY <1>2
<1>5. ASSUME NEW n \in 0..N, n < N, n \in S PROVE n + 1 \in S
  <2>1. n + 1 \in 1..N /\ (n + 1) - 1 = n
    BY <1>2, <1>5
  <2>2. /\ Len(f[n + 1]) = Len(f[n]) + 1 + Len(labels[n + 1]) /\ Len(labels[n + 1]) \in 1..63
        /\ \A i \in 1..Len(f[n]) : f[n + 1][i] = f[n][i]
    BY <1>3, <2>1
  <2>3. ASSUME NEW k \in 0..n + 1
        PROVE  /\ Len(f[k]) <= Len(f[n + 1])
               /\ \A i \in 1..Len(f[k]) : f[n + 1][i] = f[k][i]
    <3>1. CASE k = n + 1
      <4>1. Len(f[k]) \in Nat
        BY <1>2, <2>1, <3>1
      <4> QED BY <3>1, <4>1
    <3>2. CASE k # n + 1
      <4>1. k \in 0..n /\ k \in 0..N
        BY <1>2, <3>2
      <4>2. /\ Len(f[k]) <= Len(f[n])
            /\ \A i \in 1..Len(f[k]) : f[n][i] = f[k][i]
        BY <1>5, <4>1
      <4>3. Len(f[k]) \in Nat /\ Len(f[n]) \in Nat
        BY <1>2, <4>1
      <4>4. \A i \in 1..Len(f[k]) : i \in 1..Len(f[n])
        BY <4>2, <4>3
      <4>5. Len(f[k]) <= Len(f[n + 1])
        <5> DEFINE x == Len(f[n + 1])
                   y == Len(f[n])
                   z == Len(f[k])
                   l == Len(labels[n + 1])
        <5>1. x = y + 1 + l /\ l \in 1..63 /\ z <= y /\ y \in Nat /\ z \in Nat
          BY <2>2, <4>2, <4>3
        <5> HIDE DEF x, y, z, l
        <5>2. z <= x
          BY <5>1
        <5> QED BY <5>2 DEF x, z
      <4> QED BY <2>2, <4>2, <4>4, <4>5
    <3> QED BY <3>1, <3>2
  <2>4. n + 1 \in 0..N
    BY <2>1
  <2> QED BY <2>3, <2>4
<1>6. Within(N)
  <2> HIDE DEF Within
  <2>1. 0..N \subseteq S
    <3> HIDE DEF S
    <3> QED BY <1>2, <1>4, <1>5, SetInduction
  <2> QED BY <1>2, <2>1
<1> DEFINE w == [n \in 0..N |-> Len(f[n])]
           e == f[N]
<1>7. /\ o \in Seq(Nat) /\ Len(o) = Len(e) + 1 /\ o[Len(e) + 1] = 0
      /\ \A i \in 1..Len(e) : o[i] = e[i]
  <2>1. e \in Seq(Nat) /\ o = e \o <<0>>
    BY <1>1, <1>2
  <2>2. <<0>> \in Seq(Nat) /\ Len(<<0>>) = 1 /\ <<0>>[1] = 0
    OBVIOUS
  <2> HIDE DEF e, o
  <2> QED BY <2>1, <2>2, ConcatProperties
<1>8. w \in [0..N -> Nat] /\ w[0] = 0 /\ w[N] = Len(e)
  <2>1. f[0] = <<>>
    BY <1>1 DEF Parts
  <2> QED BY <1>2, <2>1
<1>9. ASSUME NEW n \in 1..N
      PROVE  /\ w[n] = w[n - 1] + 1 + Len(labels[n]) /\ w[n] <= w[N]
             /\ o[w[n - 1] + 1] = Len(labels[n])
  <2>1. w[n] = Len(f[n]) /\ w[n - 1] = Len(f[n - 1])
    BY <1>2, <1>3
  <2>2. Len(f[n]) = Len(f[n - 1]) + 1 + Len(labels[n]) /\ Len(labels[n]) \in 1..63
        /\ f[n][Len(f[n - 1]) + 1] = Len(labels[n])
    BY <1>3
  <2>3. n \in 0..N /\ n - 1 \in 0..N
    BY <1>2, <1>3
  <2>4. Len(f[n]) <= Len(e) /\ \A i \in 1..Len(f[n]) : e[i] = f[n][i]
    BY <1>6, <2>3
  <2> DEFINE i == Len(f[n - 1]) + 1
  <2>5. i \in 1..Len(f[n]) /\ i \in 1..Len(e)
    <3> DEFINE x == Len(f[n - 1])
               y == Len(f[n])
               z == Len(e)
               l == Len(labels[n])
    <3>1. x \in Nat /\ y \in Nat /\ z \in Nat
      BY <1>2, <2>3
    <3>2. y = x + 1 + l /\ l \in 1..63 /\ y <= z
      BY <2>2, <2>4
    <3> HIDE DEF x, y, z, l
    <3>3. x + 1 \in 1..y /\ x + 1 \in 1..z
      BY <3>1, <3>2
    <3> QED BY <3>3 DEF x, y, z
  <2>6. o[i] = Len(labels[n])
    <3> HIDE DEF e, o, i
    <3> QED BY <1>7, <2>2, <2>4, <2>5 DEF i
  <2> HIDE DEF e, o, w
  <2> QED BY <1>8, <2>1, <2>2, <2>4, <2>6
<1>10. Marks(w, labels)
  <2> HIDE DEF w, e, o
  <2> QED BY <1>7, <1>8, <1>9 DEF Marks, N, o
<1> QED BY <1>10

\* A name that stands behind the header of a message.
Named(m, labels) ==
    /\ Message(m) /\ Sizes(labels)
    /\ NameOctets(labels) \in Seq(Nat) /\ Len(NameOctets(labels)) \in Nat
    /\ 12 + Len(NameOctets(labels)) <= Len(m)
    /\ \A i \in 1..Len(NameOctets(labels)) : m[12 + i] = NameOctets(labels)[i]

\* A resolver that reads it ends behind the zero.
LEMMA EndName ==
    ASSUME NEW m, NEW labels, Named(m, labels)
    PROVE  NameEnd(m, 12) = 12 + Len(NameOctets(labels))
<1> DEFINE N == Len(labels)
           o == NameOctets(labels)
           T == Len(m)
<1>1. Message(m) /\ Sizes(labels)
  BY DEF Named
<1>2. PICK f : Walks(f, m) /\ NameEnd(m, 12) = Finish(m, f[12])
  BY <1>1, NameEndWalks
<1>3. PICK w : Marks(w, labels)
  BY <1>1, NameMarks
<1>4. /\ N \in Nat /\ T \in Nat /\ Len(o) \in Nat /\ 12 + Len(o) <= T
      /\ \A i \in 1..Len(o) : m[12 + i] = o[i]
      /\ w \in [0..N -> Nat] /\ w[0] = 0 /\ Len(o) = w[N] + 1 /\ o[w[N] + 1] = 0
      /\ \A n \in 1..N : /\ w[n] = w[n - 1] + 1 + Len(labels[n]) /\ w[n] <= w[N]
                         /\ o[w[n - 1] + 1] = Len(labels[n]) /\ Len(labels[n]) \in 1..63
  BY <1>1, <1>3 DEF Named, Sizes, Message, Marks
<1>5. \A x \in Nat : x + 1 <= Len(o) => Octet(m, 12 + x) = o[x + 1]
  <2> SUFFICES ASSUME NEW x \in Nat, x + 1 <= Len(o) PROVE Octet(m, 12 + x) = o[x + 1]
    OBVIOUS
  <2> DEFINE k == Len(o)
  <2>1. k \in Nat /\ x + 1 <= k /\ 12 + k <= T /\ T \in Nat
    BY <1>4
  <2> HIDE DEF k, T
  <2>2. x + 1 \in 1..k /\ 12 + x + 1 \in 1..T /\ 12 + (x + 1) = 12 + x + 1
    BY <2>1
  <2>3. DOMAIN m = 1..T
    BY <1>1 DEF Message, T
  <2>4. m[12 + (x + 1)] = o[x + 1]
    BY <1>4, <2>2 DEF k
  <2> HIDE DEF o
  <2> QED BY <2>2, <2>3, <2>4 DEF Octet
<1>6. /\ DOMAIN f = 0..T + 63
      /\ \A x \in 0..T + 63 : f[x] = IF Octet(m, x) \in 1..63 THEN f[x + 1 + Octet(m, x)] ELSE x
  BY <1>2 DEF Walks
<1> DEFINE S == {n \in 0..N : f[12 + w[n]] = f[12]}
<1> HIDE DEF N, T, o
<1>7. 0 \in S
  BY <1>4
<1>8. ASSUME NEW n \in 0..N, n < N, n \in S PROVE n + 1 \in S
  <2>1. n + 1 \in 1..N /\ (n + 1) - 1 = n /\ n + 1 \in 0..N
    BY <1>4, <1>8
  <2> DEFINE l == Len(labels[n + 1])
             a == w[n]
             b == w[n + 1]
             e == w[N]
  <2>2. /\ b = a + 1 + l /\ l \in 1..63 /\ a \in Nat /\ b <= e /\ e \in Nat
        /\ Len(o) = e + 1 /\ o[a + 1] = l
    BY <1>4, <2>1
  <2> HIDE DEF l, a, b, e
  <2>3. a + 1 <= Len(o) /\ 12 + a \in 0..T + 63 /\ 12 + a + 1 + l = 12 + b
    <3> DEFINE k == Len(o)
    <3>1. k \in Nat /\ T \in Nat /\ 12 + k <= T /\ k = e + 1
      BY <1>4, <2>2
    <3> HIDE DEF k
    <3>2. a + 1 <= k /\ 12 + a \in 0..T + 63 /\ 12 + a + 1 + l = 12 + b
      BY <2>2, <3>1
    <3> QED BY <3>2 DEF k
  <2>4. Octet(m, 12 + a) = l
    BY <1>5, <2>2, <2>3
  <2>5. f[12 + a] = f[12 + b]
    <3> DEFINE p == 12 + a
    <3>1. p \in 0..T + 63 /\ Octet(m, p) = l /\ p + 1 + l = 12 + b
      BY <2>3, <2>4
    <3> HIDE DEF p
    <3>2. f[p] = f[p + 1 + l]
      BY <1>6, <2>2, <3>1
    <3> QED BY <3>1, <3>2 DEF p
  <2>6. f[12 + a] = f[12]
    BY <1>8 DEF a
  <2> QED BY <2>1, <2>5, <2>6 DEF b
<1>9. f[12 + w[N]] = f[12]
  <2>1. 0..N \subseteq S
    <3> HIDE DEF S
    <3> QED BY <1>4, <1>7, <1>8, SetInduction
  <2> QED BY <1>4, <2>1
<1>10. f[12 + w[N]] = 12 + w[N] /\ Octet(m, 12 + w[N]) = 0
  <2> DEFINE e == w[N]
  <2>1. e \in Nat /\ Len(o) = e + 1 /\ o[e + 1] = 0
    BY <1>4
  <2> HIDE DEF e
  <2>2. 12 + e \in 0..T + 63 /\ e + 1 <= Len(o)
    BY <1>4, <2>1
  <2>3. Octet(m, 12 + e) = 0
    BY <1>5, <2>1, <2>2
  <2>4. f[12 + e] = 12 + e
    <3> DEFINE p == 12 + e
    <3>1. p \in 0..T + 63 /\ Octet(m, p) = 0
      BY <2>2, <2>3
    <3> HIDE DEF p
    <3>2. 0 \notin 1..63
      OBVIOUS
    <3>3. f[p] = p
      BY <1>6, <3>1, <3>2
    <3> QED BY <3>3 DEF p
  <2> QED BY <2>3, <2>4 DEF e
<1>11. NameEnd(m, 12) = 12 + w[N] + 1
  BY <1>2, <1>9, <1>10 DEF Finish
<1> QED BY <1>4, <1>11 DEF o, N

(**************************************************************************)
(* A whole reply.                                                          *)
(**************************************************************************)
\* The records of a reply in the message: they begin behind the question, and
\* the header says how many there are.
Placed(m, q, d) ==
    /\ Message(m) /\ Message(d) /\ q \in Nat
    /\ Len(m) = q + Len(d)
    /\ \A i \in 1..Len(d) : m[q + i] = d[i]

\* A reply with these records.
Whole(m, q, body) ==
    /\ Placed(m, q, body.data)
    /\ NameEnd(m, 12) + 4 = q
    /\ Word(m, 6) = body.answ /\ Word(m, 8) = body.auth /\ Word(m, 10) = body.addi

\* The bytes themselves, whatever they are.
Contents(d) == {d[i] : i \in DOMAIN d}
Counted(body) == body.answ \in Nat /\ body.auth \in Nat /\ body.addi \in Nat

\* A sequence of bytes is one of these and others.
LEMMA MoreBytes ==
    ASSUME NEW s \in Seq(Nat), NEW X
    PROVE  s \in Seq(Nat \cup X)
<1>1. Nat \subseteq Nat \cup X
  OBVIOUS
<1> QED BY <1>1, SeqMonotonic

\* The counts in the header.
Header(h, x, y, z) ==
    /\ h \in Seq(Nat) /\ Len(h) = 12
    /\ h[7] = 0 /\ h[8] = x /\ h[9] = 0 /\ h[10] = y /\ h[11] = 0 /\ h[12] = z

\* encode_spoof_dns_header puts them there.
LEMMA HeaderIs ==
    ASSUME NEW x \in Nat, NEW y \in Nat, NEW z \in Nat
    PROVE  Header(encode_spoof_dns_header(x, y, z), x, y, z)
BY DEF encode_spoof_dns_header, Header

\* Bytes that no reader looks at.
LEMMA LettersAre ==
    ASSUME NEW n \in Nat
    PROVE  Letters(n) \in Seq(Nat) /\ Len(Letters(n)) = n
BY DEF Letters

\* Where the parts of a reply are found in it.
Follow(m, h, o, d) ==
    /\ Placed(m, 16 + Len(o), d)
    /\ \A i \in 1..12 : m[i] = h[i]
    /\ \A i \in 1..Len(o) : m[12 + i] = o[i]

\* Four parts behind one another.
LEMMA FourParts ==
    ASSUME NEW X, NEW h \in Seq(X), NEW o \in Seq(X), NEW l \in Seq(X), NEW d \in Seq(X),
           Len(h) = 12, Len(l) = 4
    PROVE  Follow(h \o o \o l \o d, h, o, d)
<1> DEFINE a == h \o o
           b == a \o l
           m == b \o d
           x == Len(o)
           y == Len(d)
<1>1. Joined(X, a, h, o)
  BY JoinBytes
<1>2. Joined(X, b, a, l)
  <2>1. a \in Seq(X)
    BY <1>1 DEF Joined
  <2> HIDE DEF a
  <2> QED BY <2>1, JoinBytes
<1>3. Joined(X, m, b, d)
  <2>1. b \in Seq(X)
    BY <1>2 DEF Joined
  <2> HIDE DEF b
  <2> QED BY <2>1, JoinBytes
<1> HIDE DEF a, b, m
<1>4. x \in Nat /\ y \in Nat /\ Len(a) = 12 + x /\ Len(b) = 16 + x /\ Len(m) = 16 + x + y
  <2>1. x \in Nat /\ y \in Nat
    BY <1>1, <1>3 DEF Joined
  <2>2. Len(a) = 12 + x
    BY <1>1 DEF Joined
  <2>3. Len(b) = (12 + x) + 4
    BY <1>2, <2>2 DEF Joined
  <2>4. Len(m) = ((12 + x) + 4) + y
    BY <1>3, <2>3 DEF Joined
  <2> HIDE DEF x, y
  <2> QED BY <2>1, <2>2, <2>3, <2>4
<1>5. m \in Seq(X) /\ d \in Seq(X)
  BY <1>3 DEF Joined
<1>6. /\ \A i \in 1..Len(h) : a[i] = h[i]
      /\ \A i \in 1..Len(a) : b[i] = a[i]
      /\ \A i \in 1..Len(b) : m[i] = b[i]
      /\ \A i \in 1..Len(o) : a[Len(h) + i] = o[i]
      /\ \A i \in 1..Len(d) : m[Len(b) + i] = d[i]
  BY <1>1, <1>2, <1>3 DEF Joined
<1>7. ASSUME NEW i \in 1..(12 + x) PROVE m[i] = a[i]
  <2>1. i \in 1..(16 + x)
    <3> HIDE DEF x
    <3> QED BY <1>4
  <2> QED BY <1>4, <1>6, <2>1
<1>8. ASSUME NEW i \in 1..12 PROVE m[i] = h[i]
  <2>1. i \in 1..(12 + x)
    <3> HIDE DEF x
    <3> QED BY <1>4
  <2> QED BY <1>6, <1>7, <2>1
<1>9. ASSUME NEW i \in 1..x PROVE m[12 + i] = o[i]
  <2>1. 12 + i \in 1..(12 + x)
    <3> HIDE DEF x
    <3> QED BY <1>4
  <2>2. a[12 + i] = o[i]
    BY <1>6
  <2> QED BY <1>7, <2>1, <2>2
<1>10. Placed(m, 16 + x, d)
  <2>1. Message(m) /\ Message(d)
    BY <1>5 DEF Message
  <2>2. 16 + x \in Nat
    <3> HIDE DEF x
    <3> QED BY <1>4
  <2>3. \A i \in 1..Len(d) : m[(16 + x) + i] = d[i]
    BY <1>4, <1>6
  <2> QED BY <1>4, <2>1, <2>2, <2>3 DEF Placed
<1> QED BY <1>8, <1>9, <1>10 DEF Follow, a, b, m

\* What run() sends has all that.
LEMMA Assembled ==
    ASSUME NEW labels, Sizes(labels), NEW body, Counted(body),
           body.data \in Seq(Contents(body.data))
    PROVE  \E q : Whole(Octets(labels, body), q, body)
<1> DEFINE h == encode_spoof_dns_header(body.answ, body.auth, body.addi)
           o == NameOctets(labels)
           l == Letters(4)
           d == body.data
           X == Nat \cup Contents(d)
           m == h \o o \o l \o d
           q == 16 + Len(o)
<1>1. /\ h \in Seq(Nat) /\ Len(h) = 12
      /\ h[7] = 0 /\ h[8] = body.answ /\ h[9] = 0 /\ h[10] = body.auth
      /\ h[11] = 0 /\ h[12] = body.addi
  <2>1. body.answ \in Nat /\ body.auth \in Nat /\ body.addi \in Nat
    BY DEF Counted
  <2>2. Header(h, body.answ, body.auth, body.addi)
    BY <2>1, HeaderIs
  <2> QED BY <2>2 DEF Header
<1>2. o \in Seq(Nat)
  <2>1. PICK w : Marks(w, labels)
    BY NameMarks
  <2> QED BY <2>1 DEF Marks
<1>3. l \in Seq(Nat) /\ Len(l) = 4
  BY LettersAre
<1>4. h \in Seq(X) /\ o \in Seq(X) /\ l \in Seq(X) /\ d \in Seq(X)
  <2>1. h \in Seq(X) /\ o \in Seq(X) /\ l \in Seq(X)
    <3> HIDE DEF h, o, l, d
    <3> QED BY <1>1, <1>2, <1>3, MoreBytes
  <2>2. Contents(d) \subseteq X
    OBVIOUS
  <2>3. d \in Seq(X)
    <3> HIDE DEF X
    <3> QED BY <2>2, SeqMonotonic
  <2> QED BY <2>1, <2>3
<1>5. m = Octets(labels, body)
  BY DEF Octets
<1> HIDE DEF h, o, l, d, X
<1>6. /\ Placed(m, q, d)
      /\ \A i \in 1..12 : m[i] = h[i]
      /\ \A i \in 1..Len(o) : m[12 + i] = o[i]
  <2>1. Follow(m, h, o, d)
    BY <1>1, <1>3, <1>4, FourParts, Zenon
  <2> QED BY <2>1 DEF Follow
<1> HIDE DEF m, q
<1>7. Len(o) \in Nat /\ q = 16 + Len(o) /\ Message(m) /\ Len(d) \in Nat /\ Len(m) = q + Len(d)
  BY <1>2, <1>6 DEF Placed, Message, q
<1>8. Len(m) \in Nat /\ 12 + Len(o) <= Len(m) /\ 12 <= Len(m) /\ (12 + Len(o)) + 4 = q
  <2> DEFINE x == Len(o)
             y == Len(d)
             z == Len(m)
  <2>1. x \in Nat /\ q = 16 + x /\ y \in Nat /\ z = q + y
    BY <1>7
  <2> HIDE DEF x, y, z
  <2>2. z \in Nat /\ 12 + x <= z /\ 12 <= z /\ (12 + x) + 4 = q
    BY <2>1
  <2> QED BY <2>2 DEF x, z
<1>9. Named(m, labels)
  BY <1>2, <1>6, <1>7, <1>8 DEF Named, o
<1>10. NameEnd(m, 12) + 4 = q
  BY <1>8, <1>9, EndName DEF o
<1>11. Word(m, 6) = body.answ /\ Word(m, 8) = body.auth /\ Word(m, 10) = body.addi
  <2>1. /\ m[7] = 0 /\ m[8] = body.answ /\ m[9] = 0 /\ m[10] = body.auth
        /\ m[11] = 0 /\ m[12] = body.addi
    BY <1>1, <1>6
  <2>2. DOMAIN m = 1..Len(m)
    BY <1>7 DEF Message
  <2>3. \A i \in 1..12 : i \in DOMAIN m
    <3> DEFINE z == Len(m)
    <3>1. z \in Nat /\ 12 <= z /\ DOMAIN m = 1..z
      BY <1>8, <2>2
    <3> HIDE DEF z
    <3> QED BY <3>1
  <2>4. /\ Octet(m, 6) = 0 /\ Octet(m, 7) = body.answ /\ Octet(m, 8) = 0
        /\ Octet(m, 9) = body.auth /\ Octet(m, 10) = 0 /\ Octet(m, 11) = body.addi
    BY <2>1, <2>3 DEF Octet
  <2> QED BY <2>4 DEF Word, Counted
<1> QED BY <1>5, <1>6, <1>10, <1>11 DEF Whole, d

(***************************************************************************)
(* How a resolver passes over a record.                                    *)
(***************************************************************************)
\* A record with a name of e bytes, this type and n bytes of data.
Record(m, at, e, t, n) ==
    /\ NameEnd(m, at) = at + e /\ Word(m, at + e) = t /\ Word(m, at + e + 8) = n

\* Its data are as long as its length says.
Fits(m, at, end) == RecordEnd(m, at) = end /\ DataEnd(m, at) = end

\* Where its data are and end.
LEMMA RecordPasses ==
    ASSUME NEW m, NEW at \in Nat, NEW e \in Nat, NEW n \in Nat, NEW t, Record(m, at, e, t, n)
    PROVE  /\ NameEnd(m, at) = at + e /\ Word(m, NameEnd(m, at)) = t
           /\ DataAt(m, at) = at + e + 10 /\ RecordEnd(m, at) = at + e + 10 + n
<1>1. NameEnd(m, at) = at + e /\ Word(m, at + e) = t /\ Word(m, at + e + 8) = n
  BY DEF Record
<1>2. DataAt(m, at) = at + e + 10
  BY <1>1 DEF DataAt
<1>3. (at + e + 10) - 2 = at + e + 8
  OBVIOUS
<1>4. RecordEnd(m, at) = at + e + 10 + n
  BY <1>1, <1>2, <1>3, Zenon DEF RecordEnd
<1> QED BY <1>1, <1>2, <1>4

\* A, MX, SRV and SOA.
LEMMA AddressFits ==
    ASSUME NEW m, NEW at \in Nat, NEW e \in Nat, Record(m, at, e, 1, 4)
    PROVE  Fits(m, at, at + e + 14)
<1>1. /\ Word(m, NameEnd(m, at)) = 1 /\ DataAt(m, at) = at + e + 10
      /\ RecordEnd(m, at) = at + e + 10 + 4
  BY RecordPasses
<1>2. DataEnd(m, at) = at + e + 10 + 4
  BY <1>1 DEF DataEnd
<1>3. at + e + 10 + 4 = at + e + 14
  OBVIOUS
<1> QED BY <1>1, <1>2, <1>3 DEF Fits

LEMMA MailFits ==
    ASSUME NEW m, NEW at \in Nat, Record(m, at, 2, 15, 9), NameEnd(m, at + 14) = at + 21
    PROVE  Fits(m, at, at + 21)
<1>1. /\ Word(m, NameEnd(m, at)) = 15 /\ DataAt(m, at) = at + 2 + 10
      /\ RecordEnd(m, at) = at + 2 + 10 + 9
  BY RecordPasses
<1>2. at + 2 + 10 + 2 = at + 14 /\ at + 2 + 10 + 9 = at + 21
  OBVIOUS
<1>3. DataEnd(m, at) = NameEnd(m, at + 2 + 10 + 2)
  BY <1>1 DEF DataEnd
<1> QED BY <1>1, <1>2, <1>3 DEF Fits

LEMMA ServiceFits ==
    ASSUME NEW m, NEW at \in Nat, Record(m, at, 2, 33, 12), NameEnd(m, at + 18) = at + 24
    PROVE  Fits(m, at, at + 24)
<1>1. /\ Word(m, NameEnd(m, at)) = 33 /\ DataAt(m, at) = at + 2 + 10
      /\ RecordEnd(m, at) = at + 2 + 10 + 12
  BY RecordPasses
<1>2. at + 2 + 10 + 6 = at + 18 /\ at + 2 + 10 + 12 = at + 24
  OBVIOUS
<1>3. DataEnd(m, at) = NameEnd(m, at + 2 + 10 + 6)
  BY <1>1 DEF DataEnd
<1> QED BY <1>1, <1>2, <1>3 DEF Fits

LEMMA AuthorityFits ==
    ASSUME NEW m, NEW at \in Nat, Record(m, at, 2, 6, 34),
           NameEnd(m, at + 12) = at + 18, NameEnd(m, at + 18) = at + 26
    PROVE  Fits(m, at, at + 46)
<1>1. /\ Word(m, NameEnd(m, at)) = 6 /\ DataAt(m, at) = at + 2 + 10
      /\ RecordEnd(m, at) = at + 2 + 10 + 34
  BY RecordPasses
<1>2. at + 2 + 10 = at + 12 /\ at + 2 + 10 + 34 = at + 46 /\ at + 26 + 5 * 4 = at + 46
  OBVIOUS
<1>3. DataEnd(m, at) = NameEnd(m, NameEnd(m, at + 12)) + 5 * 4
  BY <1>1, <1>2 DEF DataEnd
<1> QED BY <1>1, <1>2, <1>3 DEF Fits

\* A reply with one record, and one with two.
LEMMA ReadsOne ==
    ASSUME NEW m, Word(m, 6) + Word(m, 8) + Word(m, 10) = 1,
           Fits(m, NameEnd(m, 12) + 4, Len(m))
    PROVE  Reads(m)
<1> DEFINE records == Word(m, 6) + Word(m, 8) + Word(m, 10)
           q == NameEnd(m, 12) + 4
           Rec(f) == f = [n \in 0..records |-> IF n = 0 THEN q ELSE RecordEnd(m, f[n - 1])]
           h == CHOOSE f : Rec(f)
           w == [n \in 0..1 |-> IF n = 0 THEN q ELSE Len(m)]
<1>1. records = 1
  OBVIOUS
<1> HIDE DEF records, q
<1>2. w[0] = q /\ w[1] = Len(m) /\ RecordEnd(m, q) = Len(m) /\ DataEnd(m, q) = Len(m)
  BY DEF Fits, q
<1>3. Rec(w)
  <2>1. ASSUME NEW n \in 0..1 PROVE w[n] = IF n = 0 THEN q ELSE RecordEnd(m, w[n - 1])
    <3>1. n = 0 \/ (n = 1 /\ n - 1 = 0)
      OBVIOUS
    <3> HIDE DEF w
    <3> QED BY <1>2, <3>1
  <2> QED BY <1>1, <2>1
<1>4. Rec(h)
  BY <1>3
<1>5. Reads(m) <=> /\ \A n \in 1..records : DataEnd(m, h[n - 1]) = RecordEnd(m, h[n - 1])
                   /\ h[records] = Len(m)
  BY DEF Reads, records, q
<1> HIDE DEF h
<1>6. h[0] = q /\ h[1] = Len(m)
  <2>1. 0 \in 0..records /\ 1 \in 0..records
    BY <1>1
  <2>2. h[0] = q
    BY <1>4, <2>1
  <2>3. h[1] = RecordEnd(m, h[0])
    BY <1>4, <2>1
  <2> QED BY <1>2, <2>2, <2>3
<1>7. \A n \in 1..records : n - 1 = 0
  BY <1>1
<1> QED BY <1>1, <1>2, <1>5, <1>6, <1>7

LEMMA ReadsTwo ==
    ASSUME NEW m, NEW b, Word(m, 6) + Word(m, 8) + Word(m, 10) = 2,
           Fits(m, NameEnd(m, 12) + 4, b), Fits(m, b, Len(m))
    PROVE  Reads(m)
<1> DEFINE records == Word(m, 6) + Word(m, 8) + Word(m, 10)
           q == NameEnd(m, 12) + 4
           Rec(f) == f = [n \in 0..records |-> IF n = 0 THEN q ELSE RecordEnd(m, f[n - 1])]
           h == CHOOSE f : Rec(f)
           w == [n \in 0..2 |-> IF n = 0 THEN q ELSE IF n = 1 THEN b ELSE Len(m)]
<1>1. records = 2
  OBVIOUS
<1> HIDE DEF records, q
<1>2. /\ w[0] = q /\ w[1] = b /\ w[2] = Len(m) /\ RecordEnd(m, q) = b /\ DataEnd(m, q) = b
      /\ RecordEnd(m, b) = Len(m) /\ DataEnd(m, b) = Len(m)
  BY DEF Fits, q
<1>3. Rec(w)
  <2>1. ASSUME NEW n \in 0..2 PROVE w[n] = IF n = 0 THEN q ELSE RecordEnd(m, w[n - 1])
    <3>1. n = 0 \/ (n = 1 /\ n - 1 = 0) \/ (n = 2 /\ n - 1 = 1)
      OBVIOUS
    <3> HIDE DEF w
    <3> QED BY <1>2, <3>1
  <2> QED BY <1>1, <2>1
<1>4. Rec(h)
  BY <1>3
<1>5. Reads(m) <=> /\ \A n \in 1..records : DataEnd(m, h[n - 1]) = RecordEnd(m, h[n - 1])
                   /\ h[records] = Len(m)
  BY DEF Reads, records, q
<1> HIDE DEF h
<1>6. h[0] = q /\ h[1] = b /\ h[2] = Len(m)
  <2>1. 0 \in 0..records /\ 1 \in 0..records /\ 2 \in 0..records /\ 2 - 1 = 1 /\ 1 - 1 = 0
    BY <1>1
  <2>2. h[0] = q
    BY <1>4, <2>1
  <2>3. h[1] = RecordEnd(m, h[0])
    BY <1>4, <2>1
  <2>4. h[2] = RecordEnd(m, h[1])
    BY <1>4, <2>1
  <2> QED BY <1>2, <2>2, <2>3, <2>4
<1>7. \A n \in 1..records : n - 1 = 0 \/ n - 1 = 1
  BY <1>1
<1> QED BY <1>1, <1>2, <1>5, <1>6, <1>7

(**************************************************************************)
(* The replies of each type.                                               *)
(**************************************************************************)
\* What a resolver sees of such a record in a message.
Sees(m, q, bytes) == \A x \in bytes : Octet(m, q + x[1]) = x[2]

\* Bytes of the records are seen behind the question.
LEMMA PlacedSees ==
    ASSUME NEW m, NEW q, NEW d, NEW len \in Nat, NEW bytes,
           Placed(m, q, d), Steers(d, len, bytes)
    PROVE  /\ q \in Nat /\ Message(m) /\ Len(m) = q + len
           /\ Sees(m, q, bytes)
<1>1. /\ Message(m) /\ q \in Nat /\ Len(m) = q + len /\ Len(d) = len
      /\ \A i \in 1..len : m[q + i] = d[i]
  BY DEF Placed, Steers
<1>2. ASSUME NEW x \in bytes PROVE Octet(m, q + x[1]) = x[2]
  <2> DEFINE o == x[1]
  <2>1. o \in 0..len - 1 /\ d[o + 1] = x[2]
    BY DEF Steers
  <2> HIDE DEF o
  <2>2. o + 1 \in 1..len /\ q + o + 1 \in 1..(q + len) /\ q + (o + 1) = q + o + 1
    BY <1>1, <2>1
  <2>3. m[q + o + 1] = x[2]
    BY <1>1, <2>1, <2>2
  <2>4. q + o + 1 \in DOMAIN m
    BY <1>1, <2>2 DEF Message
  <2> QED BY <2>3, <2>4 DEF Octet, o
<1> QED BY <1>1, <1>2 DEF Sees

\* A record whose name is a pointer.
LEMMA RecordAt ==
    ASSUME NEW m, Message(m), NEW at \in 0..Len(m), NEW t \in Nat, NEW n \in Nat,
           PointerAt(m, at), Octet(m, at + 2) = 0, Octet(m, at + 3) = t,
           Octet(m, at + 10) = 0, Octet(m, at + 11) = n
    PROVE  Record(m, at, 2, t, n)
<1>1. NameEnd(m, at) = at + 2
  BY EndPointer
<1>2. (at + 2) + 1 = at + 3 /\ (at + 2) + 8 = at + 10 /\ (at + 10) + 1 = at + 11
  <2>1. at \in Int
    BY DEF Message
  <2> QED BY <2>1
<1>3. Word(m, at + 2) = t
  BY <1>2 DEF Word
<1>4. Word(m, at + 2 + 8) = n
  BY <1>2 DEF Word
<1> QED BY <1>1, <1>3, <1>4 DEF Record

\* A name of a label and a pointer.
LEMMA LabelPasses ==
    ASSUME NEW m, Message(m), NEW at \in 0..Len(m), NEW l \in 1..63, NEW p, NEW end,
           p = at + 1 + l, end = p + 2, Octet(m, at) = l, PointerAt(m, p)
    PROVE  NameEnd(m, at) = end
BY EndLabel

\* What is known of a whole reply with such records.
LEMMA WholeSees ==
    ASSUME NEW m, NEW q, NEW body, NEW len \in Nat, NEW bytes,
           Whole(m, q, body), Steers(body.data, len, bytes)
    PROVE  /\ q \in Nat /\ Message(m) /\ Len(m) = q + len /\ Sees(m, q, bytes)
           /\ q = NameEnd(m, 12) + 4
           /\ Word(m, 6) = body.answ /\ Word(m, 8) = body.auth /\ Word(m, 10) = body.addi
<1>1. Placed(m, q, body.data)
  BY DEF Whole
<1>2. q \in Nat /\ Message(m) /\ Len(m) = q + len /\ Sees(m, q, bytes)
  BY <1>1, PlacedSees
<1> QED BY <1>2 DEF Whole

\* A reply with each of the records is read to its last byte.
LEMMA AddressReads ==
    ASSUME NEW m, NEW q, Whole(m, q, prepare_dns_reply_a)
    PROVE  Reads(m)
<1>1. /\ q \in Nat /\ Message(m) /\ Len(m) = q + 16 /\ Sees(m, q, AddressBytes)
      /\ q = NameEnd(m, 12) + 4
      /\ Word(m, 6) = 1 /\ Word(m, 8) = 0 /\ Word(m, 10) = 0
  <2>1. /\ prepare_dns_reply_a.answ = 1 /\ prepare_dns_reply_a.auth = 0
        /\ prepare_dns_reply_a.addi = 0
    BY DEF prepare_dns_reply_a, Body
  <2>2. 16 \in Nat
    OBVIOUS
  <2> QED BY <2>1, <2>2, AddressLaid, WholeSees
<1>2. /\ Octet(m, q) = 192 /\ Octet(m, q + 1) = 12 /\ Octet(m, q + 2) = 0
      /\ Octet(m, q + 3) = 1 /\ Octet(m, q + 10) = 0 /\ Octet(m, q + 11) = 4
  BY <1>1 DEF Sees, AddressBytes
<1>3. Record(m, q, 2, 1, 4)
  <2>1. q \in 0..Len(m) /\ PointerAt(m, q)
    BY <1>1, <1>2 DEF PointerAt
  <2> QED BY <1>1, <1>2, <2>1, RecordAt
<1>4. Fits(m, q, Len(m))
  <2>1. Fits(m, q, q + 2 + 14)
    BY <1>1, <1>3, AddressFits
  <2>2. q + 2 + 14 = q + 16
    BY <1>1
  <2> QED BY <1>1, <2>1, <2>2
<1> QED BY <1>1, <1>4, ReadsOne

LEMMA MailReads ==
    ASSUME NEW m, NEW q, Whole(m, q, prepare_dns_reply_mx)
    PROVE  Reads(m)
<1>1. /\ q \in Nat /\ Message(m) /\ Len(m) = q + 42 /\ Sees(m, q, MailBytes)
      /\ q = NameEnd(m, 12) + 4
      /\ Word(m, 6) = 1 /\ Word(m, 8) = 0 /\ Word(m, 10) = 1
  <2>1. /\ prepare_dns_reply_mx.answ = 1 /\ prepare_dns_reply_mx.auth = 0
        /\ prepare_dns_reply_mx.addi = 1
    BY DEF prepare_dns_reply_mx, Body
  <2>2. 42 \in Nat
    OBVIOUS
  <2> QED BY <2>1, <2>2, MailLaid, WholeSees
<1>2. /\ Octet(m, q) = 192 /\ Octet(m, q + 1) = 12 /\ Octet(m, q + 2) = 0
      /\ Octet(m, q + 3) = 15 /\ Octet(m, q + 10) = 0 /\ Octet(m, q + 11) = 9
      /\ Octet(m, q + 14) = 4 /\ Octet(m, q + 19) = 192 /\ Octet(m, q + 20) = 12
      /\ Octet(m, q + 21) = 4 /\ Octet(m, q + 26) = 192 /\ Octet(m, q + 27) = 12
      /\ Octet(m, q + 28) = 0 /\ Octet(m, q + 29) = 1
      /\ Octet(m, q + 36) = 0 /\ Octet(m, q + 37) = 4
  BY <1>1 DEF Sees, MailBytes
<1>3. q \in 0..Len(m) /\ q + 14 \in 0..Len(m) /\ q + 21 \in 0..Len(m)
  BY <1>1
<1>4. Record(m, q, 2, 15, 9)
  <2>1. PointerAt(m, q)
    BY <1>2 DEF PointerAt
  <2> QED BY <1>1, <1>2, <1>3, <2>1, RecordAt
<1>5. NameEnd(m, q + 14) = q + 21
  <2> DEFINE at  == q + 14
             p   == q + 19
             end == q + 21
  <2>1. /\ 4 \in 1..63 /\ at \in 0..Len(m) /\ p = at + 1 + 4 /\ end = p + 2
        /\ p + 1 = q + 20
    BY <1>1, <1>3
  <2>2. Octet(m, at) = 4 /\ PointerAt(m, p)
    BY <1>2, <2>1 DEF PointerAt
  <2> HIDE DEF at, p, end
  <2>3. NameEnd(m, at) = end
    BY <1>1, <2>1, <2>2, LabelPasses
  <2> QED BY <2>3 DEF at, end
<1>6. Record(m, q + 21, 7, 1, 4)
  <2>1. /\ q + 28 + 1 = q + 29 /\ q + 36 + 1 = q + 37
        /\ q + 21 + 7 = q + 28 /\ q + 28 + 8 = q + 36
    BY <1>1
  <2>2. NameEnd(m, q + 21) = q + 28
    <3> DEFINE at  == q + 21
               p   == q + 26
               end == q + 28
    <3>1. /\ 4 \in 1..63 /\ at \in 0..Len(m) /\ p = at + 1 + 4 /\ end = p + 2
          /\ p + 1 = q + 27
      BY <1>1, <1>3
    <3>2. Octet(m, at) = 4 /\ PointerAt(m, p)
      BY <1>2, <3>1 DEF PointerAt
    <3> HIDE DEF at, p, end
    <3>3. NameEnd(m, at) = end
      BY <1>1, <3>1, <3>2, LabelPasses
    <3> QED BY <3>3 DEF at, end
  <2>3. Word(m, q + 28) = 1 /\ Word(m, q + 36) = 4
    BY <1>2, <2>1 DEF Word
  <2> QED BY <2>1, <2>2, <2>3 DEF Record
<1>7. Fits(m, q, q + 21)
  BY <1>1, <1>4, <1>5, MailFits
<1>8. Fits(m, q + 21, Len(m))
  <2>1. q + 21 \in Nat /\ 7 \in Nat /\ q + 21 + 7 + 14 = q + 42
    BY <1>1
  <2>2. Fits(m, q + 21, q + 21 + 7 + 14)
    BY <1>6, <2>1, AddressFits
  <2> QED BY <1>1, <2>1, <2>2
<1> QED BY <1>1, <1>7, <1>8, ReadsTwo

LEMMA ServiceReads ==
    ASSUME NEW m, NEW q, Whole(m, q, prepare_dns_reply_srv(0))
    PROVE  Reads(m)
<1>1. /\ q \in Nat /\ Message(m) /\ Len(m) = q + 44 /\ Sees(m, q, ServiceBytes)
      /\ q = NameEnd(m, 12) + 4
      /\ Word(m, 6) = 1 /\ Word(m, 8) = 0 /\ Word(m, 10) = 1
  <2>1. /\ prepare_dns_reply_srv(0).answ = 1 /\ prepare_dns_reply_srv(0).auth = 0
        /\ prepare_dns_reply_srv(0).addi = 1
    BY DEF prepare_dns_reply_srv, Body
  <2>2. 44 \in Nat
    OBVIOUS
  <2> QED BY <2>1, <2>2, ServiceLaid, WholeSees
<1>2. /\ Octet(m, q) = 192 /\ Octet(m, q + 1) = 12 /\ Octet(m, q + 2) = 0
      /\ Octet(m, q + 3) = 33 /\ Octet(m, q + 10) = 0 /\ Octet(m, q + 11) = 12
      /\ Octet(m, q + 18) = 3 /\ Octet(m, q + 22) = 192 /\ Octet(m, q + 23) = 12
      /\ Octet(m, q + 24) = 3 /\ Octet(m, q + 28) = 192 /\ Octet(m, q + 29) = 12
      /\ Octet(m, q + 30) = 0 /\ Octet(m, q + 31) = 1
      /\ Octet(m, q + 38) = 0 /\ Octet(m, q + 39) = 4
  BY <1>1 DEF Sees, ServiceBytes
<1>3. q \in 0..Len(m) /\ q + 18 \in 0..Len(m) /\ q + 24 \in 0..Len(m)
  BY <1>1
<1>4. Record(m, q, 2, 33, 12)
  <2>1. PointerAt(m, q)
    BY <1>2 DEF PointerAt
  <2> QED BY <1>1, <1>2, <1>3, <2>1, RecordAt
<1>5. NameEnd(m, q + 18) = q + 24
  <2> DEFINE at  == q + 18
             p   == q + 22
             end == q + 24
  <2>1. /\ 3 \in 1..63 /\ at \in 0..Len(m) /\ p = at + 1 + 3 /\ end = p + 2
        /\ p + 1 = q + 23
    BY <1>1, <1>3
  <2>2. Octet(m, at) = 3 /\ PointerAt(m, p)
    BY <1>2, <2>1 DEF PointerAt
  <2> HIDE DEF at, p, end
  <2>3. NameEnd(m, at) = end
    BY <1>1, <2>1, <2>2, LabelPasses
  <2> QED BY <2>3 DEF at, end
<1>6. Record(m, q + 24, 6, 1, 4)
  <2>1. /\ q + 30 + 1 = q + 31 /\ q + 38 + 1 = q + 39
        /\ q + 24 + 6 = q + 30 /\ q + 30 + 8 = q + 38
    BY <1>1
  <2>2. NameEnd(m, q + 24) = q + 30
    <3> DEFINE at  == q + 24
               p   == q + 28
               end == q + 30
    <3>1. /\ 3 \in 1..63 /\ at \in 0..Len(m) /\ p = at + 1 + 3 /\ end = p + 2
          /\ p + 1 = q + 29
      BY <1>1, <1>3
    <3>2. Octet(m, at) = 3 /\ PointerAt(m, p)
      BY <1>2, <3>1 DEF PointerAt
    <3> HIDE DEF at, p, end
    <3>3. NameEnd(m, at) = end
      BY <1>1, <3>1, <3>2, LabelPasses
    <3> QED BY <3>3 DEF at, end
  <2>3. Word(m, q + 30) = 1 /\ Word(m, q + 38) = 4
    BY <1>2, <2>1 DEF Word
  <2> QED BY <2>1, <2>2, <2>3 DEF Record
<1>7. Fits(m, q, q + 24)
  BY <1>1, <1>4, <1>5, ServiceFits
<1>8. Fits(m, q + 24, Len(m))
  <2>1. q + 24 \in Nat /\ 6 \in Nat /\ q + 24 + 6 + 14 = q + 44
    BY <1>1
  <2>2. Fits(m, q + 24, q + 24 + 6 + 14)
    BY <1>6, <2>1, AddressFits
  <2> QED BY <1>1, <2>1, <2>2
<1> QED BY <1>1, <1>7, <1>8, ReadsTwo

LEMMA AuthorityReads ==
    ASSUME NEW m, NEW q, Whole(m, q, prepare_dns_reply_default)
    PROVE  Reads(m)
<1>1. /\ q \in Nat /\ Message(m) /\ Len(m) = q + 46 /\ Sees(m, q, AuthorityBytes)
      /\ q = NameEnd(m, 12) + 4
      /\ Word(m, 6) = 0 /\ Word(m, 8) = 1 /\ Word(m, 10) = 0
  <2>1. /\ prepare_dns_reply_default.answ = 0 /\ prepare_dns_reply_default.auth = 1
        /\ prepare_dns_reply_default.addi = 0
    BY DEF prepare_dns_reply_default, Body
  <2>2. 46 \in Nat
    OBVIOUS
  <2> QED BY <2>1, <2>2, AuthorityLaid, WholeSees
<1>2. /\ Octet(m, q) = 192 /\ Octet(m, q + 1) = 12 /\ Octet(m, q + 2) = 0
      /\ Octet(m, q + 3) = 6 /\ Octet(m, q + 10) = 0 /\ Octet(m, q + 11) = 34
      /\ Octet(m, q + 12) = 3 /\ Octet(m, q + 16) = 192 /\ Octet(m, q + 17) = 12
      /\ Octet(m, q + 18) = 5 /\ Octet(m, q + 24) = 192 /\ Octet(m, q + 25) = 12
  BY <1>1 DEF Sees, AuthorityBytes
<1>3. q \in 0..Len(m) /\ q + 12 \in 0..Len(m) /\ q + 18 \in 0..Len(m)
  BY <1>1
<1>4. Record(m, q, 2, 6, 34)
  <2>1. PointerAt(m, q)
    BY <1>2 DEF PointerAt
  <2> QED BY <1>1, <1>2, <1>3, <2>1, RecordAt
<1>5. NameEnd(m, q + 12) = q + 18
  <2> DEFINE at  == q + 12
             p   == q + 16
             end == q + 18
  <2>1. /\ 3 \in 1..63 /\ at \in 0..Len(m) /\ p = at + 1 + 3 /\ end = p + 2
        /\ p + 1 = q + 17
    BY <1>1, <1>3
  <2>2. Octet(m, at) = 3 /\ PointerAt(m, p)
    BY <1>2, <2>1 DEF PointerAt
  <2> HIDE DEF at, p, end
  <2>3. NameEnd(m, at) = end
    BY <1>1, <2>1, <2>2, LabelPasses
  <2> QED BY <2>3 DEF at, end
<1>6. NameEnd(m, q + 18) = q + 26
  <2> DEFINE at  == q + 18
             p   == q + 24
             end == q + 26
  <2>1. /\ 5 \in 1..63 /\ at \in 0..Len(m) /\ p = at + 1 + 5 /\ end = p + 2
        /\ p + 1 = q + 25
    BY <1>1, <1>3
  <2>2. Octet(m, at) = 5 /\ PointerAt(m, p)
    BY <1>2, <2>1 DEF PointerAt
  <2> HIDE DEF at, p, end
  <2>3. NameEnd(m, at) = end
    BY <1>1, <2>1, <2>2, LabelPasses
  <2> QED BY <2>3 DEF at, end
<1>7. Fits(m, q, Len(m))
  BY <1>1, <1>4, <1>5, <1>6, AuthorityFits
<1> QED BY <1>1, <1>7, ReadsOne

\* What is laid out is a sequence, and so is a prepared record.
LEMMA LaidIsSeq ==
    ASSUME NEW len \in Nat, NEW writes, NEW d, d = Laid(len, writes)
    PROVE  d \in Seq(Contents(d))
<1>1. d = [i \in 1..len |-> d[i]]
  BY DEF Laid
<1>2. d \in [1..len -> Contents(d)]
  BY <1>1 DEF Contents
<1> QED BY <1>2, SeqDef

\* A body that can be sent.
Prepared(body) == Counted(body) /\ body.data \in Seq(Contents(body.data))

\* Every Body is.
LEMMA BodyPrepared ==
    ASSUME NEW len \in Nat, NEW writes, NEW x \in Nat, NEW y \in Nat, NEW z \in Nat
    PROVE  Prepared(Body(len, writes, x, y, z))
<1> DEFINE d == Laid(len, writes)
           b == Body(len, writes, x, y, z)
<1>1. b.data = d /\ b.answ = x /\ b.auth = y /\ b.addi = z
  BY DEF Body
<1>2. d \in Seq(Contents(d))
  BY LaidIsSeq
<1> HIDE DEF d, b
<1>3. Prepared(b)
  BY <1>1, <1>2 DEF Prepared, Counted
<1> QED BY <1>3 DEF b

LEMMA RecordsPrepared ==
    /\ Prepared(prepare_dns_reply_a) /\ Prepared(prepare_dns_reply_mx)
    /\ Prepared(prepare_dns_reply_srv(0)) /\ Prepared(prepare_dns_reply_default)
<1>1. 0 \in Nat /\ 1 \in Nat /\ 12 + 4 \in Nat /\ 12 + 2 + 7 + 17 + 4 \in Nat
      /\ 44 \in Nat /\ 46 \in Nat
  OBVIOUS
<1>2. Prepared(prepare_dns_reply_a)
  BY <1>1, BodyPrepared, Zenon DEF prepare_dns_reply_a
<1>3. Prepared(prepare_dns_reply_mx)
  BY <1>1, BodyPrepared, Zenon DEF prepare_dns_reply_mx
<1>4. Prepared(prepare_dns_reply_srv(0))
  BY <1>1, BodyPrepared, Zenon DEF prepare_dns_reply_srv
<1>5. Prepared(prepare_dns_reply_default)
  BY <1>1, BodyPrepared, Zenon DEF prepare_dns_reply_default
<1> QED BY <1>2, <1>3, <1>4, <1>5

\* For every name with labels of one to 63 bytes and every type but WINS.
LEMMA ReadsPrepared ==
    ASSUME NEW labels, Sizes(labels), NEW type, type # "WINS"
    PROVE  Reads(Octets(labels, Prepare(type)))
<1> DEFINE m(body) == Octets(labels, body)
<1>1. ASSUME NEW body, Prepared(body) PROVE \E q : Whole(m(body), q, body)
  BY <1>1, Assembled DEF Prepared
<1>2. Reads(m(prepare_dns_reply_a))
  BY <1>1, RecordsPrepared, AddressReads
<1>3. Reads(m(prepare_dns_reply_mx))
  BY <1>1, RecordsPrepared, MailReads
<1>4. Reads(m(prepare_dns_reply_srv(0)))
  BY <1>1, RecordsPrepared, ServiceReads
<1>5. Reads(m(prepare_dns_reply_default))
  BY <1>1, RecordsPrepared, AuthorityReads
<1>6. Prepare(type) \in {prepare_dns_reply_a, prepare_dns_reply_mx, prepare_dns_reply_srv(0),
                         prepare_dns_reply_default}
  BY Zenon DEF Prepare
<1> QED BY <1>2, <1>3, <1>4, <1>5, <1>6

(***************************************************************************)
(* The names in replies.                                                   *)
(***************************************************************************)
\* dn_expand writes characters, whatever there is to escape.
LEMMA SpelledType ==
    ASSUME NEW ch \in Char
    PROVE  Spelled(ch) \in Label
<1>1. Escape \in Char
  BY DEF Char
<1>2. ASSUME ch \in DOMAIN Decimal PROVE Decimal[ch] \in Label
  <2>1. Decimal[ch] \in [1..3 -> Char]
    BY <1>2, DecimalAssumption DEF DecimalAssumption, Char
  <2> DEFINE d == Decimal[ch]
  <2> HIDE DEF d
  <2>2. 3 \in Nat /\ d \in [1..3 -> Char]
    BY <2>1 DEF d
  <2>3. d \in Seq(Char)
    BY <2>2, SeqDef
  <2> QED BY <2>3 DEF Label, d
<1>3. <<Escape>> \in Label /\ <<Escape, ch>> \in Label /\ <<ch>> \in Label
  BY <1>1 DEF Label
<1>4. ASSUME ch \in DOMAIN Decimal PROVE <<Escape>> \o Decimal[ch] \in Label
  BY <1>2, <1>3, <1>4, ConcatProperties DEF Label
<1> QED BY <1>3, <1>4 DEF Spelled

LEMMA EscapedType ==
    ASSUME NEW label \in Label
    PROVE  Escaped(label) \in Label
<1> DEFINE N == Len(label)
           With(v, n) == v \o Spelled(label[n])
           Rec(f) == f = [n \in 0..N |-> IF n = 0 THEN <<>> ELSE With(f[n - 1], n)]
           h == CHOOSE f : Rec(f)
           g == [p \in Label \X (1..N) |-> With(p[1], p[2])]
<1>1. N \in Nat /\ <<>> \in Label
  BY DEF Label
<1>2. \A v \in Label, n \in 1..N : With(v, n) \in Label
  <2> SUFFICES ASSUME NEW v \in Label, NEW n \in 1..N PROVE With(v, n) \in Label
    OBVIOUS
  <2>1. label[n] \in Char
    BY DEF Label
  <2>2. Spelled(label[n]) \in Label
    BY <2>1, SpelledType
  <2> QED BY <2>2, ConcatProperties DEF Label
<1>3. PICK f : Iterates(f, N, Label, <<>>, g)
  <2>1. g \in Steps(N, Label)
    BY <1>2 DEF Steps
  <2> HIDE DEF g, N
  <2> QED BY <1>1, <2>1, RecursionExists
<1>4. f \in [0..N -> Label] /\ f[0] = <<>> /\ \A n \in 1..N : f[n] = With(f[n - 1], n)
  <2>1. \A v \in Label, n \in 1..N : g[<<v, n>>] = With(v, n)
    OBVIOUS
  <2>2. ASSUME NEW n \in 1..N PROVE f[n] = With(f[n - 1], n)
    <3>1. f[n - 1] \in Label /\ f[n] = g[<<f[n - 1], n>>]
      <4> HIDE DEF g, N
      <4>1. n - 1 \in 0..N
        BY <1>1
      <4> QED BY <1>3, <4>1 DEF Iterates
    <3> HIDE DEF g, With, N
    <3> QED BY <2>1, <3>1
  <2> QED BY <1>3, <2>2 DEF Iterates
<1>5. Rec(f)
  <2> HIDE DEF With, N
  <2>1. ASSUME NEW n \in 0..N PROVE f[n] = IF n = 0 THEN <<>> ELSE With(f[n - 1], n)
    <3>1. n # 0 => n \in 1..N
      BY <1>1
    <3> QED BY <1>4, <3>1
  <2> QED BY <1>4, <2>1
<1>6. Rec(h)
  BY <1>5
<1>7. Escaped(label) = h[N]
  BY DEF Escaped
<1>8. \A n \in 0..N : h[n] = f[n]
  <2> HIDE DEF With, h, N
  <2>1. SameSteps(h, f, N)
    BY <1>1, <1>5, <1>6 DEF SameSteps
  <2> QED BY <1>1, <2>1, SameStepsAgree
<1>9. h[N] \in Label
  <2> HIDE DEF h, N
  <2> QED BY <1>1, <1>4, <1>8
<1> HIDE DEF h
<1> QED BY <1>7, <1>9

LEMMA ExpandType ==
    ASSUME NEW labels \in Seq(Label)
    PROVE  Expand(labels) \in Label
<1> DEFINE N == Len(labels)
           With(v, n) == v \o (IF n = 1 THEN <<>> ELSE <<Dot>>) \o Escaped(labels[n])
           Rec(f) == f = [n \in 0..N |-> IF n = 0 THEN <<>> ELSE With(f[n - 1], n)]
           h == CHOOSE f : Rec(f)
           g == [p \in Label \X (1..N) |-> With(p[1], p[2])]
<1>1. N \in Nat /\ <<>> \in Label
  BY DEF Label
<1>2. \A v \in Label, n \in 1..N : With(v, n) \in Label
  <2> SUFFICES ASSUME NEW v \in Label, NEW n \in 1..N PROVE With(v, n) \in Label
    OBVIOUS
  <2>1. <<Dot>> \in Label /\ <<>> \in Label
    <3>1. Dot \in Char
      BY DEF Char
    <3> QED BY <3>1 DEF Label
  <2>2. v \o (IF n = 1 THEN <<>> ELSE <<Dot>>) \in Label
    BY <2>1, ConcatProperties DEF Label
  <2>3. Escaped(labels[n]) \in Label
    BY EscapedType
  <2> QED BY <2>2, <2>3, ConcatProperties DEF Label
<1>3. PICK f : Iterates(f, N, Label, <<>>, g)
  <2>1. g \in Steps(N, Label)
    BY <1>2 DEF Steps
  <2> HIDE DEF g, N
  <2> QED BY <1>1, <2>1, RecursionExists
<1>4. f \in [0..N -> Label] /\ f[0] = <<>> /\ \A n \in 1..N : f[n] = With(f[n - 1], n)
  <2>1. \A v \in Label, n \in 1..N : g[<<v, n>>] = With(v, n)
    OBVIOUS
  <2>2. ASSUME NEW n \in 1..N PROVE f[n] = With(f[n - 1], n)
    <3>1. f[n - 1] \in Label /\ f[n] = g[<<f[n - 1], n>>]
      <4> HIDE DEF g, N
      <4>1. n - 1 \in 0..N
        BY <1>1
      <4> QED BY <1>3, <4>1 DEF Iterates
    <3> HIDE DEF g, With, N
    <3> QED BY <2>1, <3>1
  <2> QED BY <1>3, <2>2 DEF Iterates
<1>5. Rec(f)
  <2> HIDE DEF With, N
  <2>1. ASSUME NEW n \in 0..N PROVE f[n] = IF n = 0 THEN <<>> ELSE With(f[n - 1], n)
    <3>1. n # 0 => n \in 1..N
      BY <1>1
    <3> QED BY <1>4, <3>1
  <2> QED BY <1>4, <2>1
<1>6. Rec(h)
  BY <1>5
<1>7. Expand(labels) = h[N]
  BY DEF Expand
<1>8. \A n \in 0..N : h[n] = f[n]
  <2> HIDE DEF With, h, N
  <2>1. SameSteps(h, f, N)
    BY <1>1, <1>5, <1>6 DEF SameSteps
  <2> QED BY <1>1, <2>1, SameStepsAgree
<1>9. h[N] \in Label
  <2> HIDE DEF h, N
  <2> QED BY <1>1, <1>4, <1>8
<1> HIDE DEF h
<1> QED BY <1>7, <1>9

\* The labels in a reply are sequences, also when dots of the query have cut
\* them up.
LEMMA ReadableSizes ==
    ASSUME NEW labels \in {encode_domain(Expand(n)) : n \in Name}, Readable(labels)
    PROVE  Sizes(labels)
<1>1. PICK n \in Name : labels = encode_domain(Expand(n))
  OBVIOUS
<1>2. Expand(n) \in Seq(Char)
  BY NameType, ExpandType DEF Label
<1>3. Dot \in Char
  BY DEF Char
<1>4. labels \in Labels
  BY <1>1, <1>2, <1>3, EncodeAppend
<1>5. Len(labels) \in Nat /\ DOMAIN labels = 1..Len(labels)
  BY <1>4 DEF Labels
<1> QED BY <1>5 DEF Readable, Sizes

\* It is enough to know what a reply consists of.
LEMMA TypeParses ==
    ASSUME TypeOK
    PROVE  ReplyParses
<1> DEFINE r == last.reply
<1> SUFFICES ASSUME r # Nothing, r.type # "WINS", Readable(r.name)
             PROVE  Reads(Octets(r.name, Prepare(r.type)))
  BY DEF ReplyParses
<1>1. r \in Replies
  BY DEF TypeOK
<1>2. r.name \in {encode_domain(Expand(n)) : n \in Name}
  BY <1>1 DEF Replies
<1> HIDE DEF r
<1>3. Sizes(r.name)
  BY <1>2, ReadableSizes
<1> QED BY <1>3, ReadsPrepared

\* A resolver finds the records of every reply, at every offset that the
\* prepare_dns_reply_* count by hand, whatever the labels of the name and their
\* lengths, as far as RFC 1035 allows them; not of replies to the root and to
\* WINS queries, which the property leaves out.
THEOREM ParsesTheorem == Spec => []ReplyParses
BY TypeTheorem, TypeParses, PTL

=========================================================================
