------------------------- MODULE DnsClientProofs ------------------------
(***************************************************************************)
(* What the client and its servers say to each other.                      *)
(***************************************************************************)
EXTENDS DnsClient, TextProofs

(***************************************************************************)
(* Without a duplicated datagram every look-up is answered by a reply to   *)
(* its own request, although all requests have the same id.  What the      *)
(* bytes say plays no part: Accepted, Parse and the servers' encoders stay *)
(* unexpanded.                                                             *)
(***************************************************************************)

\* Whatever a server answers, a request gives way to one datagram of its look-up.
LEMMA AnswerKeeps ==
    ASSUME OwnTraffic, NEW q \in toServer, NEW bytes, NEW answers, NEW heard,
           Answer(q, bytes, answers, heard)
    PROVE  OwnTraffic'
<1> USE DEF OwnTraffic, Answer, client
<1>1. Reply(q, bytes, answers).n = q.n
  BY DEF Reply
<1>2. /\ toServer' = toServer \ {q}
      /\ toClient' = toClient \cup {Reply(q, bytes, answers)}
      /\ UNCHANGED <<phase, lookups, from, copies>>
  OBVIOUS
<1>3. CASE copies = 0
  <2>1. toClient = {} /\ q.n = lookups /\ phase = "waiting"
    BY <1>3
  <2>2. toServer' = {}
    BY <1>2, <1>3
  <2>3. toClient' = {Reply(q, bytes, answers)}
    BY <1>2, <2>1
  <2> QED BY <1>1, <1>2, <1>3, <2>1, <2>2, <2>3
<1>4. CASE copies # 0
  BY <1>2, <1>4
<1> QED BY <1>3, <1>4

LEMMA LookupKeeps ==
    ASSUME OwnTraffic, NEW text \in Domain, DNSLookup(text)
    PROVE  OwnTraffic'
<1> DEFINE asked == [n |-> lookups + 1, domain |-> text, bytes |-> Request(text), copy |-> 0]
<1> USE DEF OwnTraffic
<1>1. /\ phase # "waiting" /\ phase' = "waiting" /\ lookups' = lookups + 1
      /\ toServer' = toServer \cup {asked}
      /\ UNCHANGED <<toClient, copies>>
  BY DEF DNSLookup
<1>2. asked.n = lookups + 1
  OBVIOUS
<1> HIDE DEF asked
<1>3. CASE copies = 0
  <2>1. toServer' = {asked} /\ toClient' = {}
    BY <1>1, <1>3
  <2> QED BY <1>1, <1>2, <1>3, <2>1
<1>4. CASE copies # 0
  BY <1>1, <1>4
<1> QED BY <1>3, <1>4

LEMMA NetworkKeeps ==
    ASSUME OwnTraffic, Network
    PROVE  OwnTraffic'
<1> USE DEF OwnTraffic, client
<1>1. CASE LoseRequest
  BY <1>1 DEF LoseRequest
<1>2. CASE LoseReply
  BY <1>2 DEF LoseReply
<1>3. CASE DuplicateRequest
  BY <1>3 DEF DuplicateRequest
<1>4. CASE DuplicateReply
  BY <1>4 DEF DuplicateReply
<1> QED BY <1>1, <1>2, <1>3, <1>4 DEF Network

LEMMA ReceiveKeeps ==
    ASSUME OwnTraffic, NEW d \in toClient, Receive(d)
    PROVE  OwnTraffic'
<1> USE DEF OwnTraffic
<1>1. /\ phase = "waiting"
      /\ toClient' = toClient \ {d}
      /\ UNCHANGED <<lookups, toServer, copies>>
      /\ \/ phase' = "returned" /\ from'.n = d.n
         \/ UNCHANGED phase
  <2> DEFINE buf == d.bytes \o SubSeq(recvbuf, Len(d.bytes) + 1, Len(recvbuf))
             taken == [answers |-> d.answers, domain |-> d.domain, n |-> d.n]
  <2>1. /\ phase = "waiting" /\ toClient' = toClient \ {d}
        /\ UNCHANGED <<lookups, toServer, copies>>
        /\ IF Accepted(buf) THEN phase' = "returned" /\ from' = taken ELSE UNCHANGED phase
    BY Zenon DEF Receive
  <2>2. taken.n = d.n
    OBVIOUS
  <2> HIDE DEF buf, taken
  <2> QED BY <2>1, <2>2
<1>2. CASE copies = 0
  <2>1. toServer = {} /\ d.n = lookups
    BY <1>2
  <2>2. toClient' = {} /\ toServer' = {}
    BY <1>1, <1>2, <2>1
  <2> QED BY <1>1, <1>2, <2>1, <2>2
<1>3. CASE copies # 0
  BY <1>1, <1>3
<1> QED BY <1>2, <1>3

LEMMA OwnTrafficInductive ==
    ASSUME OwnTraffic, [Next]_vars
    PROVE  OwnTraffic'
<1>1. CASE \E text \in Domain : DNSLookup(text)
  BY <1>1, LookupKeeps
<1>2. CASE Server
  <2>1. PICK q \in toServer : \E bytes, answers, heard : Answer(q, bytes, answers, heard)
    <3>1. CASE CodecAnswers
      BY <3>1 DEF CodecAnswers
    <3>2. CASE OtherAnswers
      BY <3>2 DEF OtherAnswers
    <3>3. CASE DaemonAnswers
      BY <3>3 DEF DaemonAnswers
    <3> QED BY <1>2, <3>1, <3>2, <3>3 DEF Server
  <2> QED BY <2>1, AnswerKeeps
<1>3. CASE Network
  BY <1>3, NetworkKeeps
<1>4. CASE Arrive
  BY <1>4, ReceiveKeeps DEF Arrive
<1>5. CASE UNCHANGED vars
  BY <1>5 DEF OwnTraffic, vars, client, net
<1> QED BY <1>1, <1>2, <1>3, <1>4, <1>5 DEF Next

\* A look-up returns with a reply to its own request unless a datagram has been
\* duplicated (RecvDNSResponse compares only the id, which never changes).
THEOREM OwnAnswer == Spec => []AnswersOwnRequest
<1>1. Init => OwnTraffic
  BY DEF Init, OwnTraffic
<1>2. OwnTraffic /\ [Next]_vars => OwnTraffic'
  BY OwnTrafficInductive
<1>3. OwnTraffic => AnswersOwnRequest
  BY DEF OwnTraffic, AnswersOwnRequest
<1> QED BY <1>1, <1>2, <1>3, PTL DEF Spec

(***************************************************************************)
(* What a request says: it is made of the labels of the name looked up,    *)
(* of which none is so long that its length is cut.                        *)
(***************************************************************************)
\* A label behind its length, and with a dot behind it.
Prefixed(l) == <<Len(l)>> \o l
Closed(l)   == l \o <<Dot>>

SizedAll(labels)  == [i \in DOMAIN labels |-> Prefixed(labels[i])]
ClosedAll(labels) == [i \in DOMAIN labels |-> Closed(labels[i])]

LEMMA LabelsType ==
    ASSUME NEW text \in Domain
    PROVE  Labels(text) \in Seq(Label)
BY ClientAssumption

LEMMA LabelIs ==
    ASSUME NEW l \in Label
    PROVE  /\ l \in Seq(Char) /\ Len(l) \in 1..63 /\ Len(l) \in Byte
           /\ l \in Seq(Byte)
           /\ \A i \in 1..Len(l) : l[i] \in Char /\ l[i] # Dot
<1>1. l \in Seq(Char \ {Dot}) /\ Len(l) \in 1..63
  BY DEF Label
<1>2. Char \ {Dot} \subseteq Char /\ Char \ {Dot} \subseteq Byte
  BY DEF Char, Byte, Dot
<1>3. l \in Seq(Char) /\ l \in Seq(Byte)
  BY <1>1, <1>2, SeqMonotonic
<1>4. Len(l) \in Byte
  BY <1>1 DEF Byte
<1>5. \A i \in 1..Len(l) : l[i] \in Char \ {Dot}
  BY <1>1, ElementOfSeq
<1> QED BY <1>1, <1>3, <1>4, <1>5

LEMMA ByteNat == \A n \in Byte : n \in Nat
BY DEF Byte

LEMMA DotText == <<Dot>> \in Seq(Byte) /\ Len(<<Dot>>) = 1
<1>1. Dot \in Byte
  BY DEF Dot, Byte
<1> QED BY <1>1

LEMMA ClosedText == \A l \in Label : l \in Seq(Byte) /\ Closed(l) \in Seq(Byte)
<1> SUFFICES ASSUME NEW l \in Label PROVE l \in Seq(Byte) /\ Closed(l) \in Seq(Byte)
  OBVIOUS
<1> DEFINE d == <<Dot>>
<1>1. l \in Seq(Byte) /\ d \in Seq(Byte)
  BY LabelIs, DotText
<1> HIDE DEF d
<1>2. l \o d \in Seq(Byte)
  BY <1>1, ConcatJoins
<1> QED BY <1>1, <1>2, Zenon DEF Closed, d

LEMMA SizedIs ==
    ASSUME NEW l \in Label
    PROVE  /\ Prefixed(l) \in Seq(Byte) /\ Len(Prefixed(l)) = Len(l) + 1 /\ Len(l) \in Nat
           /\ Prefixed(l)[1] = Len(l)
           /\ \A i \in 1..Len(l) : Prefixed(l)[i + 1] = l[i]
<1> DEFINE one == <<Len(l)>>
<1>1. /\ one \in Seq(Byte) /\ Len(one) = 1 /\ one[1] = Len(l)
      /\ l \in Seq(Byte) /\ Len(l) \in Nat
  <2>1. l \in Seq(Byte) /\ Len(l) \in Byte /\ Len(l) \in 1..63
    BY LabelIs
  <2> HIDE DEF Byte
  <2> QED BY <2>1
<1> HIDE DEF one
<1>2. /\ one \o l \in Seq(Byte) /\ Len(one \o l) = Len(one) + Len(l)
      /\ \A i \in 1..Len(one) + Len(l) :
            (one \o l)[i] = IF i <= Len(one) THEN one[i] ELSE l[i - Len(one)]
  BY <1>1, ConcatProperties
<1>3. Prefixed(l) = one \o l
  BY DEF Prefixed, one
<1> DEFINE s == Prefixed(l)
<1> HIDE DEF s
<1>4. s[1] = one[1] /\ \A i \in 1..Len(l) : s[i + 1] = l[i]
  BY <1>1, <1>2, <1>3 DEF s
<1> QED BY <1>1, <1>2, <1>3, <1>4 DEF s

LEMMA SizedType ==
    ASSUME NEW labels \in Seq(Label)
    PROVE  /\ SizedAll(labels) \in Seq(Seq(Byte)) /\ Len(SizedAll(labels)) = Len(labels)
           /\ \A i \in 1..Len(labels) : SizedAll(labels)[i] = Prefixed(labels[i])
<1>1. Len(labels) \in Nat /\ DOMAIN labels = 1..Len(labels)
      /\ \A i \in 1..Len(labels) : labels[i] \in Label
  OBVIOUS
<1>2. \A i \in 1..Len(labels) : Prefixed(labels[i]) \in Seq(Byte)
  BY <1>1, SizedIs
<1>3. SizedAll(labels) \in [1..Len(labels) -> Seq(Byte)]
  BY <1>1, <1>2 DEF SizedAll
<1>4. SizedAll(labels) \in Seq(Seq(Byte))
  BY <1>1, <1>3, SeqDef
<1> QED BY <1>1, <1>3, <1>4 DEF SizedAll

LEMMA ClosedType ==
    ASSUME NEW labels \in Seq(Label)
    PROVE  /\ ClosedAll(labels) \in Seq(Seq(Byte)) /\ Len(ClosedAll(labels)) = Len(labels)
           /\ \A i \in 1..Len(labels) : ClosedAll(labels)[i] = Closed(labels[i])
<1>1. Len(labels) \in Nat /\ DOMAIN labels = 1..Len(labels)
      /\ \A i \in 1..Len(labels) : labels[i] \in Label
  OBVIOUS
<1>2. \A l \in Label : Closed(l) \in Seq(Byte)
  BY ClosedText
<1>3. ClosedAll(labels) \in [1..Len(labels) -> Seq(Byte)]
  BY <1>1, <1>2 DEF ClosedAll
<1>4. ClosedAll(labels) \in Seq(Seq(Byte))
  BY <1>1, <1>3, SeqDef
<1> QED BY <1>1, <1>3, <1>4 DEF ClosedAll

\* No length is cut.
LEMMA WireIs ==
    ASSUME NEW labels \in Seq(Label)
    PROVE  Wire(labels) = Concat(SizedAll(labels)) /\ Wire(labels) \in Seq(Byte)
<1>1. [i \in DOMAIN labels |-> <<Len(labels[i]) % 256>> \o labels[i]] = SizedAll(labels)
  <2>1. \A i \in DOMAIN labels : Len(labels[i]) \in 1..63
    BY LabelIs
  <2>2. \A n \in 1..63 : n % 256 = n
    OBVIOUS
  <2>3. \A i \in DOMAIN labels : Len(labels[i]) % 256 = Len(labels[i])
    BY <2>1, <2>2, Zenon
  <2> QED BY <2>3, Zenon DEF SizedAll, Prefixed
<1>2. Wire(labels) = Concat(SizedAll(labels))
  BY <1>1, Zenon DEF Wire
<1>3. Concat(SizedAll(labels)) \in Seq(Byte)
  <2>1. SizedAll(labels) \in Seq(Seq(Byte)) /\ <<>> \in Seq(Byte)
    BY SizedType, EmptySeq
  <2> QED BY <2>1, ConcatAppend
<1> QED BY <1>2, <1>3

LEMMA SizedConcat == \A labels : Sized(labels) = Concat(SizedAll(labels))
BY Zenon DEF Sized, SizedAll, Prefixed

LEMMA EncodedIs == \A labels : Encoded(labels) = Concat(SizedAll(labels)) \o <<0>>
BY SizedConcat, Zenon DEF Encoded, Root

LEMMA EndedIs == \A labels : Ended(labels) = Concat(ClosedAll(labels))
BY Zenon DEF Ended, ClosedAll, Closed

\* Where texts one behind the other are parted is nothing to the whole.
OneText(s, t, u) == (s \o t) \o u = s \o (t \o u)

LEMMA ThreeParts ==
    ASSUME NEW C
    PROVE  \A s, t, u \in Seq(C) : OneText(s, t, u)
BY ConcatAssociative DEF OneText

LEMMA ThreeTexts == \A s, t, u \in Seq(Byte) : OneText(s, t, u)
BY ConcatAssociative DEF OneText

Regroups(s, t, u, v) ==
    /\ (s \o (t \o u)) \o v = (s \o t) \o (u \o v)
    /\ s \o t \in Seq(Byte) /\ t \o u \in Seq(Byte)

LEMMA FourTexts == \A s, t, u, v \in Seq(Byte) : Regroups(s, t, u, v)
<1> TAKE s, t, u, v \in Seq(Byte)
<1> DEFINE st == s \o t
<1> HIDE DEF Byte
<1>1. st \in Seq(Byte) /\ t \o u \in Seq(Byte)
  BY ConcatProperties
<1>2. OneText(s, t, u)
  BY ThreeTexts
<1> HIDE DEF st
<1>3. OneText(st, u, v)
  BY <1>1, ThreeTexts
<1> QED BY <1>1, <1>2, <1>3, Zenon DEF OneText, Regroups, st

\* A server's queue has requests only.
Requests == \A q \in toServer : q.domain \in Domain /\ q.bytes = Request(q.domain)

LEMMA RequestIs ==
    ASSUME NEW text \in Domain
    PROVE  LET A == Id \o <<1, 0, 0, 1, 0, 0, 0, 0, 0, 0>>
           IN  /\ Request(text) = A \o Encoded(Labels(text)) \o <<0, 1, 0, 1>>
               /\ A \in Seq(Byte) /\ Encoded(Labels(text)) \in Seq(Byte)
               /\ Request(text) = A \o Wire(Labels(text)) \o <<0, 0, 1, 0, 1>>
<1> DEFINE H == <<1, 0, 0, 1, 0, 0, 0, 0, 0, 0>>
           A == Id \o H
           W == Wire(Labels(text))
           T == <<0, 1, 0, 1>>
<1>1. A \in Seq(Byte) /\ T \in Seq(Byte) /\ 0 \in Byte
  <2>1. H \in Seq(Byte) /\ T \in Seq(Byte) /\ 0 \in Byte
    BY DEF Byte
  <2> HIDE DEF H, T, Byte
  <2> QED BY <2>1, CodecAssumption, ConcatProperties
<1>2. W \in Seq(Byte) /\ W \o <<0>> = Encoded(Labels(text))
  BY LabelsType, WireIs, EncodedIs
<1>3. Request(text) = A \o W \o <<0, 0, 1, 0, 1>>
  BY Zenon DEF Request, EncodeDotStr
<1>4. <<0>> \o T = <<0, 0, 1, 0, 1>>
  <2> DEFINE z == <<0>>
             v == <<0, 0, 1, 0, 1>>
             u == z \o T
  <2>1. /\ z \in Seq(Byte) /\ Len(z) = 1 /\ z[1] = 0
        /\ Len(T) = 4 /\ T[1] = 0 /\ T[2] = 1 /\ T[3] = 0 /\ T[4] = 1
        /\ v \in Seq(Byte) /\ Len(v) = 5
        /\ v[1] = 0 /\ v[2] = 0 /\ v[3] = 1 /\ v[4] = 0 /\ v[5] = 1
    BY DEF Byte
  <2> HIDE DEF z, v, T, Byte
  <2>2. /\ u \in Seq(Byte) /\ Len(u) = Len(z) + Len(T)
        /\ \A i \in 1..Len(z) + Len(T) : u[i] = IF i <= Len(z) THEN z[i] ELSE T[i - Len(z)]
    BY <1>1, <2>1, ConcatProperties
  <2> HIDE DEF u
  <2>3. u[1] = 0 /\ u[2] = 0 /\ u[3] = 1 /\ u[4] = 0 /\ u[5] = 1
    BY <2>1, <2>2
  <2>4. \A i \in 1..5 : i = 1 \/ i = 2 \/ i = 3 \/ i = 4 \/ i = 5
    OBVIOUS
  <2>5. \A i \in 1..5 : u[i] = v[i]
    BY <2>1, <2>3, <2>4, Zenon
  <2>6. u = v
    <3>1. Len(u) = 5
      BY <2>1, <2>2
    <3> QED BY <2>1, <2>2, <2>5, <3>1, SeqEqual
  <2> QED BY <2>6 DEF u, v, z
<1> HIDE DEF A, W, T, Byte
<1>5. (A \o (W \o <<0>>)) \o T = (A \o W) \o (<<0>> \o T) /\ W \o <<0>> \in Seq(Byte)
  <2> DEFINE Z == <<0>>
  <2>1. Z \in Seq(Byte)
    BY <1>1
  <2> HIDE DEF Z
  <2>2. Regroups(A, W, Z, T)
    BY <1>1, <1>2, <2>1, FourTexts
  <2> QED BY <2>2 DEF Z, Regroups
<1>6. Request(text) = A \o Encoded(Labels(text)) \o T
  BY <1>2, <1>3, <1>4, <1>5, Zenon
<1> QED BY <1>1, <1>2, <1>3, <1>5, <1>6, Zenon DEF A, T, W

LEMMA AnswerTakes ==
    ASSUME Requests, NEW q \in toServer, NEW bytes, NEW answers, NEW heard,
           Answer(q, bytes, answers, heard)
    PROVE  Requests'
<1>1. toServer' = toServer \ {q}
  BY Zenon DEF Answer
<1> QED BY <1>1, Zenon DEF Requests

LEMMA RequestsInductive ==
    ASSUME Requests, [Next]_vars
    PROVE  Requests'
<1>1. CASE \E text \in Domain : DNSLookup(text)
  <2>1. PICK text \in Domain : DNSLookup(text)
    BY <1>1
  <2> DEFINE asked == [n |-> lookups + 1, domain |-> text, bytes |-> Request(text), copy |-> 0]
  <2>2. asked.domain = text /\ asked.bytes = Request(text)
    OBVIOUS
  <2>3. toServer' = toServer \cup {asked}
    BY <2>1, Zenon DEF DNSLookup
  <2> HIDE DEF asked
  <2> QED BY <2>2, <2>3, Zenon DEF Requests
<1>2. CASE Server
  <2>1. PICK q \in toServer : \E bytes, answers, heard : Answer(q, bytes, answers, heard)
    <3>1. CASE CodecAnswers
      BY <3>1, Zenon DEF CodecAnswers
    <3>2. CASE OtherAnswers
      BY <3>2, Zenon DEF OtherAnswers
    <3>3. CASE DaemonAnswers
      BY <3>3, Zenon DEF DaemonAnswers
    <3> QED BY <1>2, <3>1, <3>2, <3>3 DEF Server
  <2> QED BY <2>1, AnswerTakes
<1>3. CASE LoseRequest
  BY <1>3, Zenon DEF LoseRequest, Requests
<1>4. CASE LoseReply
  BY <1>4, Zenon DEF LoseReply, Requests
<1>5. CASE DuplicateRequest
  <2>1. PICK q \in toServer : toServer' = toServer \cup {[q EXCEPT !.copy = copies + 1]}
    BY <1>5 DEF DuplicateRequest
  <2>2. /\ [q EXCEPT !.copy = copies + 1].domain = q.domain
        /\ [q EXCEPT !.copy = copies + 1].bytes = q.bytes
    OBVIOUS
  <2> QED BY <2>1, <2>2, Zenon DEF Requests
<1>6. CASE DuplicateReply
  BY <1>6, Zenon DEF DuplicateReply, Requests
<1>7. CASE Arrive
  BY <1>7, Zenon DEF Arrive, Receive, Requests
<1>8. CASE UNCHANGED vars
  BY <1>8 DEF Requests, vars, net
<1> QED BY <1>1, <1>2, <1>3, <1>4, <1>5, <1>6, <1>7, <1>8, Zenon DEF Next, Network

LEMMA RequestsAlways == Spec => []Requests
<1>1. Init => Requests
  BY DEF Init, Requests
<1>2. Requests /\ [Next]_vars => Requests'
  BY RequestsInductive
<1> QED BY <1>1, <1>2, PTL DEF Spec

\* What is copied out of a message.
LEMMA PieceType ==
    ASSUME NEW b \in Seq(Byte), NEW p \in Nat, NEW n \in Nat
    PROVE  Piece(b, p, n) \in Seq(Byte) /\ Len(Piece(b, p, n)) = n
<1>1. \A i \in Nat : At(b, i) \in Byte
  <2> SUFFICES ASSUME NEW i \in Nat PROVE At(b, i) \in Byte
    OBVIOUS
  <2>1. 0 \in Byte
    BY DEF Byte
  <2>2. i \in DOMAIN b => b[i] \in Byte
    OBVIOUS
  <2> QED BY <2>1, <2>2, Zenon DEF At, NUL
<1>2. \A i \in 1..n : p + i - 1 \in Nat
  OBVIOUS
<1>3. Piece(b, p, n) \in [1..n -> Byte]
  BY <1>1, <1>2, Zenon DEF Piece
<1>4. Piece(b, p, n) \in Seq(Byte)
  BY <1>3, SeqDef
<1> DEFINE x == Piece(b, p, n)
<1> HIDE DEF x
<1>5. DOMAIN x = 1..n /\ x \in Seq(Byte)
  BY <1>3, <1>4 DEF x
<1>6. Len(x) = n
  BY <1>5, LenProperties
<1> QED BY <1>4, <1>6 DEF x

LEMMA PieceIs ==
    ASSUME NEW b \in Seq(Byte), NEW p \in Nat, NEW l \in Seq(Byte),
           \A i \in 1..Len(l) : At(b, p + i - 1) = l[i]
    PROVE  Piece(b, p, Len(l)) = l
<1> DEFINE x == Piece(b, p, Len(l))
<1>1. Len(l) \in Nat
  OBVIOUS
<1>2. x \in Seq(Byte) /\ Len(x) = Len(l)
  BY <1>1, PieceType
<1>3. \A i \in 1..Len(l) : x[i] = l[i]
  BY DEF Piece
<1> HIDE DEF x
<1>4. x = l
  BY <1>2, <1>3, SeqEqual
<1> QED BY <1>4 DEF x

\* The bytes of a request.
LEMMA RequestBytes ==
    ASSUME NEW text \in Domain
    PROVE  LET b == Request(text)
               W == Wire(Labels(text))
           IN  /\ b \in Seq(Byte) /\ W \in Seq(Byte)
               /\ Len(W) \in Nat /\ Len(b) = Len(W) + 17
               /\ At(b, 1) = Id[1] /\ At(b, 2) = Id[2]
               /\ At(b, 5) = 0 /\ At(b, 6) = 1 /\ At(b, 7) = 0 /\ At(b, 8) = 0
               /\ \A j \in 1..Len(W) : At(b, j + 12) = W[j]
               /\ At(b, Len(W) + 13) = 0
<1> DEFINE H == <<1, 0, 0, 1, 0, 0, 0, 0, 0, 0>>
           A == Id \o H
           W == Wire(Labels(text))
           T == <<0, 0, 1, 0, 1>>
           b == Request(text)
           N == Len(W)
<1>1. /\ H \in Seq(Byte) /\ Len(H) = 10
      /\ H[3] = 0 /\ H[4] = 1 /\ H[5] = 0 /\ H[6] = 0
      /\ T \in Seq(Byte) /\ Len(T) = 5 /\ T[1] = 0
      /\ Id \in Seq(Byte) /\ Len(Id) = 2
  BY CodecAssumption DEF Byte
<1>2. W \in Seq(Byte) /\ b = (A \o W) \o T
  BY RequestIs, LabelsType, WireIs
<1> HIDE DEF H, W, T, b, Byte
<1>3. A \in Seq(Byte) /\ Joins(A, Id, H)
  BY <1>1, ConcatJoins
<1> HIDE DEF A
<1>4. /\ Len(A) = 12 /\ A[1] = Id[1] /\ A[2] = Id[2]
      /\ A[5] = 0 /\ A[6] = 1 /\ A[7] = 0 /\ A[8] = 0
  <2>1. /\ 1 \in 1..Len(Id) /\ 2 \in 1..Len(Id)
        /\ 3 \in 1..Len(H) /\ 4 \in 1..Len(H) /\ 5 \in 1..Len(H) /\ 6 \in 1..Len(H)
        /\ 3 + Len(Id) = 5 /\ 4 + Len(Id) = 6 /\ 5 + Len(Id) = 7 /\ 6 + Len(Id) = 8
        /\ Len(Id) + Len(H) = 12
    BY <1>1
  <2>2. A[3 + Len(Id)] = H[3] /\ A[4 + Len(Id)] = H[4] /\ A[5 + Len(Id)] = H[5]
        /\ A[6 + Len(Id)] = H[6]
    BY <1>3, <2>1, Zenon DEF Joins
  <2> QED BY <1>1, <1>3, <2>1, <2>2, Zenon DEF Joins
<1> DEFINE AW == A \o W
<1>5. AW \in Seq(Byte) /\ Joins(AW, A, W)
  <2>1. A \in Seq(Byte) /\ W \in Seq(Byte)
    BY <1>2, <1>3
  <2> QED BY <2>1, ConcatJoins
<1>6. b = AW \o T
  BY <1>2
<1> HIDE DEF AW
<1>7. b \in Seq(Byte) /\ Joins(b, AW, T)
  <2>1. AW \in Seq(Byte) /\ T \in Seq(Byte)
    BY <1>1, <1>5
  <2>2. AW \o T \in Seq(Byte) /\ Joins(AW \o T, AW, T)
    BY <2>1, ConcatJoins
  <2> QED BY <1>6, <2>2, Zenon
<1>8. N \in Nat /\ Len(A) = 12 /\ Len(AW) = N + 12 /\ Len(b) = N + 17
  BY <1>1, <1>2, <1>4, <1>5, <1>7 DEF Joins
<1>9. \A i \in 1..N + 17 : At(b, i) = b[i]
  <2>1. DOMAIN b = 1..N + 17
    BY <1>7, <1>8
  <2> QED BY <2>1, Zenon DEF At
<1>10. \A i \in 1..12 : At(b, i) = A[i]
  <2> TAKE i \in 1..12
  <2>1. i \in 1..N + 17 /\ i \in 1..Len(AW) /\ i \in 1..Len(A)
    <3> HIDE DEF N
    <3> QED BY <1>8
  <2> QED BY <1>5, <1>7, <1>9, <2>1, Zenon DEF Joins
<1>11. \A j \in 1..N : At(b, j + 12) = W[j]
  <2> TAKE j \in 1..N
  <2>1. j + 12 \in 1..N + 17 /\ j + 12 \in 1..Len(AW)
    <3> HIDE DEF N
    <3> QED BY <1>8
  <2>2. AW[j + 12] = W[j]
    BY <1>5, <1>8, Zenon DEF Joins
  <2> QED BY <1>7, <1>9, <2>1, <2>2, Zenon DEF Joins
<1>12. At(b, N + 13) = 0
  <2>1. N + 13 \in 1..N + 17 /\ 1 + Len(AW) = N + 13 /\ 1 \in 1..Len(T)
    <3> HIDE DEF N
    <3> QED BY <1>1, <1>8
  <2>2. b[1 + Len(AW)] = T[1]
    BY <1>7, <2>1, Zenon DEF Joins
  <2> QED BY <1>1, <1>9, <2>1, <2>2, Zenon
<1>13. At(b, 1) = A[1] /\ At(b, 2) = A[2] /\ At(b, 5) = A[5] /\ At(b, 6) = A[6]
       /\ At(b, 7) = A[7] /\ At(b, 8) = A[8]
  BY <1>10
<1> QED BY <1>2, <1>4, <1>7, <1>8, <1>11, <1>12, <1>13, Zenon DEF b, W, N

(***************************************************************************)
(* The name that Query::decode reads.                                      *)
(***************************************************************************)
ReadState == [p : Nat, text : Seq(Byte)]

LEMMA LabelReadType ==
    ASSUME NEW b \in Seq(Byte), NEW st \in ReadState
    PROVE  LabelRead(st, b) \in ReadState
<1> DEFINE n == At(b, st.p)
           t == st.text \o Piece(b, st.p + 1, n) \o <<Dot>>
<1>1. st.p \in Nat /\ st.text \in Seq(Byte)
  BY DEF ReadState
<1>2. LabelRead(st, b) = IF n \notin 1..63 THEN st ELSE [p |-> st.p + n + 1, text |-> t]
  BY Zenon DEF LabelRead
<1>3. CASE n \notin 1..63
  BY <1>2, <1>3
<1>4. CASE n \in 1..63
  <2>1. n \in Nat /\ st.p + 1 \in Nat /\ st.p + n + 1 \in Nat
    <3> HIDE DEF n
    <3> QED BY <1>1, <1>4
  <2>2. Piece(b, st.p + 1, n) \in Seq(Byte)
    <3> HIDE DEF n
    <3> QED BY <2>1, PieceType
  <2>3. st.text \o Piece(b, st.p + 1, n) \in Seq(Byte)
    BY <1>1, <2>2, ConcatProperties
  <2>4. <<Dot>> \in Seq(Byte)
    BY DEF Dot, Byte
  <2>5. t \in Seq(Byte)
    BY <2>3, <2>4, ConcatProperties
  <2> HIDE DEF t, n
  <2>6. [p |-> st.p + n + 1, text |-> t] \in ReadState
    BY <2>1, <2>5 DEF ReadState
  <2> QED BY <1>2, <1>4, <2>6
<1> QED BY <1>3, <1>4

QnameRun(f, b, p) ==
    /\ f \in [0..Len(b) -> ReadState]
    /\ f[0] = [p |-> p, text |-> <<>>]
    /\ \A i \in 1..Len(b) : f[i] = LabelRead(f[i - 1], b)

LEMMA QnameRuns ==
    ASSUME NEW b \in Seq(Byte), NEW p \in Nat
    PROVE  \E f : /\ QnameRun(f, b, p)
                  /\ decode_qname(b, p) = [text |-> f[Len(b)].text, ends |-> At(b, f[Len(b)].p) = 0]
<1> DEFINE N == Len(b)
           V == ReadState
           s == [p |-> p, text |-> <<>>]
           Step(v) == LabelRead(v, b)
           Rec(f) == f = [i \in 0..N |-> IF i = 0 THEN s ELSE Step(f[i - 1])]
           h == CHOOSE f : Rec(f)
           g == [q \in V \X (1..N) |-> Step(q[1])]
<1>1. N \in Nat /\ s \in V /\ g \in Steps(N, V)
  <2>1. s \in V
    BY EmptySeq DEF ReadState
  <2>2. \A v \in V : Step(v) \in V
    BY LabelReadType
  <2> HIDE DEF V, s, Step
  <2>3. g \in Steps(N, V)
    BY <2>2, Zenon DEF Steps
  <2> QED BY <2>1, <2>3
<1> HIDE DEF Step
<1>2. PICK f : Iterates(f, N, V, s, g)
  <2> HIDE DEF N, V, s, g
  <2> QED BY <1>1, RecursionExists
<1>3. /\ f \in [0..N -> V] /\ f[0] = s
      /\ \A i \in 1..N : f[i] = Step(f[i - 1])
  <2>1. \A v \in V, i \in 1..N : g[<<v, i>>] = Step(v)
    <3> HIDE DEF V, s
    <3> QED BY Zenon
  <2>2. \A i \in 1..N : i - 1 \in 0..N
    BY <1>1
  <2> HIDE DEF N, V, s, g
  <2> QED BY <1>2, <2>1, <2>2 DEF Iterates
<1> HIDE DEF N, V, s
<1>4. Rec(f)
  <2>1. ASSUME NEW i \in 0..N PROVE f[i] = IF i = 0 THEN s ELSE Step(f[i - 1])
    <3>1. i # 0 => i \in 1..N
      BY <1>1
    <3> QED BY <1>3, <3>1
  <2> QED BY <1>3, <2>1
<1>5. Rec(h)
  BY <1>4
<1>6. decode_qname(b, p) = [text |-> h[N].text, ends |-> At(b, h[N].p) = 0]
  BY Zenon DEF decode_qname, N, s, Step
<1>7. h[N] = f[N]
  <2> HIDE DEF h
  <2>1. SameSteps(h, f, N)
    BY <1>1, <1>4, <1>5 DEF SameSteps
  <2> QED BY <1>1, <2>1, SameStepsAgree
<1>8. QnameRun(f, b, p)
  BY <1>3 DEF QnameRun, N, V, s, Step
<1> HIDE DEF h
<1> QED BY <1>6, <1>7, <1>8 DEF N

\* A turn of the loop reads a label.
LEMMA LabelReadIs ==
    ASSUME NEW b \in Seq(Byte), NEW p \in Nat, NEW text \in Seq(Byte), NEW l \in Label,
           At(b, p) = Len(l), \A i \in 1..Len(l) : At(b, p + i) = l[i]
    PROVE  LabelRead([p |-> p, text |-> text], b) =
              [p |-> p + Len(l) + 1, text |-> text \o Closed(l)]
<1>1. l \in Seq(Byte) /\ Len(l) \in 1..63 /\ Len(l) \in Nat
  <2>1. \A n \in 1..63 : n \in Nat
    OBVIOUS
  <2> QED BY <2>1, LabelIs
<1>2. Piece(b, p + 1, Len(l)) = l
  <2>1. \A i \in Nat : (p + 1) + i - 1 = p + i
    OBVIOUS
  <2>2. \A i \in 1..Len(l) : i \in Nat
    BY <1>1
  <2>3. \A i \in 1..Len(l) : At(b, (p + 1) + i - 1) = l[i]
    BY <2>1, <2>2
  <2>4. p + 1 \in Nat
    OBVIOUS
  <2> QED BY <1>1, <2>3, <2>4, PieceIs
<1>3. (text \o l) \o <<Dot>> = text \o Closed(l)
  <2>1. <<Dot>> \in Seq(Byte)
    BY DEF Dot, Byte
  <2> DEFINE d == <<Dot>>
  <2> HIDE DEF d
  <2>2. d \in Seq(Byte) /\ l \in Seq(Byte)
    BY <1>1, <2>1 DEF d
  <2>3. OneText(text, l, d)
    BY <2>2, ThreeTexts
  <2> QED BY <2>3 DEF Closed, d, OneText
<1> DEFINE st == [p |-> p, text |-> text]
<1>4. st.p = p /\ st.text = text
  OBVIOUS
<1> HIDE DEF st
<1>5. LabelRead(st, b) =
         [p |-> p + Len(l) + 1, text |-> (text \o Piece(b, p + 1, Len(l))) \o <<Dot>>]
  BY <1>1, <1>4, Zenon DEF LabelRead
<1> QED BY <1>2, <1>3, <1>5 DEF st

\* The states of the encoding of labels: as many bytes as labels at least.
LEMMA WireLong ==
    ASSUME NEW labels \in Seq(Label), NEW g, ConcatRun(g, SizedAll(labels), Byte)
    PROVE  \A k \in 0..Len(labels) : /\ g[k] \in Seq(Byte) /\ Len(g[k]) \in Nat /\ k <= Len(g[k])
                                     /\ k > 0 => g[k] = g[k - 1] \o Prefixed(labels[k])
<1> DEFINE K == Len(labels)
           S == {k \in 0..K : k <= Len(g[k])}
<1>1. K \in Nat
  OBVIOUS
<1>2. /\ g \in [0..K -> Seq(Byte)] /\ g[0] = <<>>
      /\ \A i \in 1..K : g[i] = g[i - 1] \o Prefixed(labels[i]) /\ labels[i] \in Label
  <2>1. Len(SizedAll(labels)) = K /\ \A i \in 1..K : SizedAll(labels)[i] = Prefixed(labels[i])
    BY SizedType
  <2>2. \A i \in 1..K : labels[i] \in Label
    OBVIOUS
  <2> HIDE DEF K
  <2> QED BY <2>1, <2>2, Zenon DEF ConcatRun
<1> HIDE DEF K
<1>3. \A k \in 0..K : g[k] \in Seq(Byte) /\ Len(g[k]) \in Nat
  BY <1>2
<1>4. 0 \in S
  <2>1. Len(g[0]) = 0 /\ 0 \in 0..K
    BY <1>1, <1>2, EmptySeq
  <2> QED BY <2>1
<1>5. ASSUME NEW k \in 0..K, k < K, k \in S PROVE k + 1 \in S
  <2>1. k + 1 \in 1..K /\ k + 1 \in 0..K /\ (k + 1) - 1 = k /\ k \in Nat
    BY <1>1, <1>5
  <2> DEFINE l == labels[k + 1]
             x == Len(g[k])
             y == Len(Prefixed(l))
             z == Len(g[k + 1])
  <2>2. g[k + 1] = g[k] \o Prefixed(l) /\ l \in Label /\ g[k] \in Seq(Byte)
    BY <1>2, <1>3, <2>1
  <2> HIDE DEF l
  <2>3. Prefixed(l) \in Seq(Byte) /\ y = Len(l) + 1 /\ Len(l) \in Nat
    BY <2>2, SizedIs
  <2>4. Joins(g[k] \o Prefixed(l), g[k], Prefixed(l))
    BY <2>2, <2>3, ConcatJoins
  <2>5. z = x + y /\ x \in Nat
    BY <2>2, <2>4, Zenon DEF Joins
  <2>6. k <= x
    BY <1>5
  <2> HIDE DEF x, y, z
  <2>7. k + 1 <= z
    BY <2>1, <2>3, <2>5, <2>6
  <2> QED BY <2>1, <2>7 DEF z
<1>6. 0..K \subseteq S
  <2> HIDE DEF S
  <2> QED BY <1>1, <1>4, <1>5, SetInduction
<1>7. ASSUME NEW k \in 0..K, k > 0 PROVE g[k] = g[k - 1] \o Prefixed(labels[k])
  <2>1. k \in 1..K
    BY <1>1, <1>7
  <2> QED BY <1>2, <2>1, Zenon
<1> QED BY <1>3, <1>6, <1>7 DEF K

\* Where the labels of a name stand in a message.
Stands(labels, b, o) ==
    /\ \A j \in 1..Len(Wire(labels)) : At(b, j + o) = Wire(labels)[j]
    /\ At(b, Len(Wire(labels)) + o + 1) = 0

LEMMA QnameTurns ==
    ASSUME NEW labels \in Seq(Label), NEW b \in Seq(Byte), NEW o \in Nat, Stands(labels, b, o),
           NEW g, ConcatRun(g, SizedAll(labels), Byte),
           NEW e, ConcatRun(e, ClosedAll(labels), Byte),
           NEW f, QnameRun(f, b, o + 1), Len(labels) <= Len(b)
    PROVE  \A k \in 0..Len(labels) : f[k] = [p |-> Len(g[k]) + o + 1, text |-> e[k]]
<1> DEFINE K == Len(labels)
           st(k) == [p |-> Len(g[k]) + o + 1, text |-> e[k]]
           S == {k \in 0..K : f[k] = st(k)}
<1>1. K \in Nat /\ Len(b) \in Nat /\ K <= Len(b)
  OBVIOUS
<1>2. /\ \A k \in 0..K : g[k] \in Seq(Byte) /\ Len(g[k]) \in Nat
      /\ \A k \in 0..K : k > 0 => g[k] = g[k - 1] \o Prefixed(labels[k])
  BY WireLong, Zenon
<1>3. g[0] = <<>> /\ e[0] = <<>> /\ f[0] = [p |-> o + 1, text |-> <<>>]
  BY Zenon DEF ConcatRun, QnameRun
<1>4. Len(ClosedAll(labels)) = K /\ \A i \in 1..K : ClosedAll(labels)[i] = Closed(labels[i])
  BY ClosedType
<1>5. /\ \A k \in 0..K : e[k] \in Seq(Byte)
      /\ \A k \in 1..K : e[k] = e[k - 1] \o Closed(labels[k])
  <2> HIDE DEF K
  <2>1. e \in [0..K -> Seq(Byte)]
    BY <1>4, Zenon DEF ConcatRun
  <2>2. \A k \in 1..K : e[k] = e[k - 1] \o Closed(labels[k])
    BY <1>4, Zenon DEF ConcatRun
  <2> QED BY <2>1, <2>2
<1>6. \A k \in 1..K : labels[k] \in Label
  OBVIOUS
<1> HIDE DEF K
<1>7. 0 \in S
  <2>1. Len(g[0]) = 0 /\ 0 \in 0..K
    BY <1>1, <1>3, EmptySeq
  <2>2. Len(g[0]) + o + 1 = o + 1
    BY <2>1
  <2> QED BY <1>3, <2>1, <2>2, Zenon
<1>8. ASSUME NEW k \in 0..K, k < K, k \in S PROVE k + 1 \in S
  <2> DEFINE l == labels[k + 1]
             x == Len(g[k])
             q == x + o + 1
  <2>1. k + 1 \in 1..K /\ k + 1 \in 0..K /\ (k + 1) - 1 = k /\ k \in Nat /\ k + 1 \in 1..Len(b)
        /\ k + 1 > 0
    BY <1>1, <1>8
  <2>2. l \in Label /\ g[k + 1] = g[k] \o Prefixed(l) /\ e[k + 1] = e[k] \o Closed(l)
        /\ g[k] \in Seq(Byte) /\ e[k] \in Seq(Byte) /\ x \in Nat /\ Len(g[k + 1]) \in Nat
    BY <1>2, <1>5, <1>6, <2>1, Zenon
  <2>3. f[k] = [p |-> q, text |-> e[k]]
    BY <1>8
  <2> HIDE DEF l
  <2>4. /\ Prefixed(l) \in Seq(Byte) /\ Len(Prefixed(l)) = Len(l) + 1 /\ Len(l) \in Nat
        /\ Prefixed(l)[1] = Len(l)
        /\ \A i \in 1..Len(l) : Prefixed(l)[i + 1] = l[i]
    BY <2>2, SizedIs
  <2>5. Joins(g[k + 1], g[k], Prefixed(l))
    <3>1. Joins(g[k] \o Prefixed(l), g[k], Prefixed(l))
      BY <2>2, <2>4, ConcatJoins
    <3> QED BY <2>2, <3>1, Zenon
  <2>6. Len(g[k + 1]) = x + (Len(l) + 1)
    BY <2>4, <2>5, Zenon DEF Joins
  <2>7. ASSUME NEW i \in 0..Len(l) PROVE At(b, i + q) = Prefixed(l)[i + 1]
    <3>1. /\ Len(g[k + 1]) \in Nat /\ Len(g[K]) \in Nat /\ Len(g[k + 1]) <= Len(g[K])
          /\ \A j \in 1..Len(g[k + 1]) : g[K][j] = g[k + 1][j]
      <4> DEFINE parts == SizedAll(labels)
      <4>1. parts \in Seq(Seq(Byte)) /\ Len(parts) = K /\ ConcatRun(g, parts, Byte)
        BY SizedType DEF K
      <4> HIDE DEF parts
      <4>2. k + 1 \in 0..Len(parts)
        BY <2>1, <4>1
      <4>3. Heads(g[k + 1], g[Len(parts)])
        BY <4>1, <4>2, ConcatBegins
      <4> QED BY <4>1, <4>3, Zenon DEF Heads
    <3>2. Wire(labels) = g[K]
      <4>1. PICK d : /\ ConcatRun(d, SizedAll(labels), Byte)
                     /\ Concat(SizedAll(labels)) = d[Len(SizedAll(labels))]
        BY SizedType, ConcatRuns
      <4>2. Len(SizedAll(labels)) = K
        BY SizedType DEF K
      <4>3. SameSteps(d, g, K)
        BY <4>1, <4>2, Zenon DEF SameSteps, ConcatRun
      <4>4. d[K] = g[K]
        <5>1. K \in 0..K
          BY <1>1
        <5> QED BY <1>1, <4>3, <5>1, SameStepsAgree
      <4> QED BY <4>1, <4>2, <4>4, WireIs
    <3>3. /\ i + 1 \in 1..Len(Prefixed(l))
          /\ (i + 1) + x \in 1..Len(g[k + 1]) /\ (i + 1) + x \in 1..Len(g[K])
          /\ i + q = ((i + 1) + x) + o
      <4> HIDE DEF x
      <4> QED BY <2>2, <2>4, <2>6, <3>1
    <3>4. At(b, ((i + 1) + x) + o) = g[K][(i + 1) + x]
      BY <3>2, <3>3, Zenon DEF Stands
    <3>5. g[K][(i + 1) + x] = g[k + 1][(i + 1) + x]
      BY <3>1, <3>3, Zenon
    <3>6. g[k + 1][(i + 1) + x] = Prefixed(l)[i + 1]
      BY <2>5, <3>3, Zenon DEF Joins
    <3> QED BY <3>3, <3>4, <3>5, <3>6, Zenon
  <2>8. q \in Nat
    <3> HIDE DEF x
    <3> QED BY <2>2
  <2>9. At(b, q) = Len(l)
    <3>1. 0 \in 0..Len(l) /\ 0 + q = q /\ 0 + 1 = 1
      <4> HIDE DEF q
      <4> QED BY <2>4, <2>8
    <3>2. At(b, 0 + q) = Prefixed(l)[0 + 1]
      BY <2>7, <3>1
    <3> QED BY <2>4, <3>1, <3>2, Zenon
  <2>10. \A i \in 1..Len(l) : At(b, q + i) = l[i]
    <3> TAKE i \in 1..Len(l)
    <3>1. i \in 0..Len(l) /\ i + q = q + i
      <4> HIDE DEF q
      <4> QED BY <2>4, <2>8
    <3>2. At(b, i + q) = Prefixed(l)[i + 1]
      BY <2>7, <3>1
    <3> QED BY <2>4, <3>1, <3>2, Zenon
  <2> HIDE DEF q
  <2>11. LabelRead([p |-> q, text |-> e[k]], b) = [p |-> q + Len(l) + 1, text |-> e[k] \o Closed(l)]
    BY <2>2, <2>8, <2>9, <2>10, LabelReadIs, ZenonT(60)
  <2>12. f[k + 1] = LabelRead(f[k], b)
    BY <2>1, Zenon DEF QnameRun
  <2>13. q + Len(l) + 1 = Len(g[k + 1]) + o + 1
    <3> HIDE DEF x
    <3> QED BY <2>2, <2>4, <2>6 DEF q
  <2>14. f[k + 1] = st(k + 1)
    BY <2>2, <2>3, <2>11, <2>12, <2>13, Zenon
  <2> HIDE DEF st
  <2> QED BY <2>1, <2>14
<1>9. 0..K \subseteq S
  <2> HIDE DEF S
  <2> QED BY <1>1, <1>7, <1>8, SetInduction
<1> QED BY <1>9 DEF K

\* The name is read to its end, with a dot behind every label.
LEMMA QnameReads ==
    ASSUME NEW labels \in Seq(Label), NEW b \in Seq(Byte), NEW o \in Nat, Stands(labels, b, o),
           Len(Wire(labels)) <= Len(b)
    PROVE  decode_qname(b, o + 1) = [text |-> Ended(labels), ends |-> TRUE]
<1> DEFINE K == Len(labels)
           N == Len(b)
           W == Wire(labels)
<1>1. /\ SizedAll(labels) \in Seq(Seq(Byte)) /\ Len(SizedAll(labels)) = K
      /\ ClosedAll(labels) \in Seq(Seq(Byte)) /\ Len(ClosedAll(labels)) = K
      /\ K \in Nat /\ N \in Nat
  BY SizedType, ClosedType
<1>2. PICK g : /\ ConcatRun(g, SizedAll(labels), Byte)
               /\ Concat(SizedAll(labels)) = g[Len(SizedAll(labels))]
  BY <1>1, ConcatRuns
<1>3. PICK e : /\ ConcatRun(e, ClosedAll(labels), Byte)
               /\ Concat(ClosedAll(labels)) = e[Len(ClosedAll(labels))]
  BY <1>1, ConcatRuns
<1>4. o + 1 \in Nat
  OBVIOUS
<1>5. PICK f : /\ QnameRun(f, b, o + 1)
               /\ decode_qname(b, o + 1) = [text |-> f[N].text, ends |-> At(b, f[N].p) = 0]
  BY <1>4, QnameRuns
<1>6. g[K] = W /\ e[K] = Ended(labels)
  BY <1>1, <1>2, <1>3, WireIs, EndedIs, Zenon
<1>7. K <= N /\ K \in 0..K /\ Len(W) \in Nat
  <2>1. K \in 0..K
    BY <1>1
  <2>2. K <= Len(g[K]) /\ Len(g[K]) \in Nat
    BY <1>2, <2>1, WireLong
  <2>3. K <= Len(W) /\ Len(W) \in Nat /\ Len(W) <= N
    BY <1>6, <2>2
  <2> HIDE DEF K, N, W
  <2> QED BY <1>1, <2>1, <2>3
<1>8. f[K] = [p |-> Len(W) + o + 1, text |-> Ended(labels)]
  <2>1. f[K] = [p |-> Len(g[K]) + o + 1, text |-> e[K]]
    BY <1>2, <1>3, <1>5, <1>7, QnameTurns
  <2> QED BY <1>6, <2>1, Zenon
<1>9. LabelRead(f[K], b) = f[K]
  <2>1. f[K].p = Len(W) + o + 1
    BY <1>8
  <2>2. At(b, f[K].p) = 0
    BY <2>1, Zenon DEF Stands
  <2>3. 0 \notin 1..63
    OBVIOUS
  <2> QED BY <2>2, <2>3, Zenon DEF LabelRead
<1> DEFINE S == {i \in 0..N : K <= i => f[i] = f[K]}
<1> HIDE DEF K, N, W
<1>10. 0 \in S
  <2>1. K <= 0 => K = 0
    BY <1>1
  <2> QED BY <1>1, <2>1
<1>11. ASSUME NEW i \in 0..N, i < N, i \in S PROVE i + 1 \in S
  <2>1. /\ i + 1 \in 1..N /\ i + 1 \in 0..N /\ (i + 1) - 1 = i
        /\ K <= i + 1 => K = i + 1 \/ K <= i
    BY <1>1, <1>11
  <2>2. f[i + 1] = LabelRead(f[i], b)
    BY <1>5, <2>1, Zenon DEF QnameRun, N
  <2>3. K <= i + 1 => f[i + 1] = f[K]
    <3>1. CASE K <= i
      <4>1. f[i] = f[K]
        BY <1>11, <3>1
      <4> QED BY <1>9, <2>2, <4>1, Zenon
    <3> QED BY <2>1, <3>1, Zenon
  <2> QED BY <2>1, <2>3
<1>12. f[N] = f[K]
  <2> HIDE DEF S
  <2>1. 0..N \subseteq S
    BY <1>1, <1>10, <1>11, SetInduction
  <2>2. N \in 0..N
    BY <1>1
  <2> QED BY <1>7, <2>1, <2>2 DEF S
<1>13. f[N].text = Ended(labels) /\ f[N].p = Len(W) + o + 1
  BY <1>8, <1>12
<1>14. At(b, f[N].p) = 0
  BY <1>13, Zenon DEF Stands, W
<1> QED BY <1>5, <1>13, <1>14, Zenon DEF N

(***************************************************************************)
(* The name that Response::code writes.                                    *)
(***************************************************************************)
LEMMA SplitLabel ==
    ASSUME NEW done \in Seq(Seq(Byte)), NEW s \in Seq(Byte), Split(s, Dot) = Append(done, <<>>),
           NEW l \in Seq(Char \ {Dot})
    PROVE  Split(s \o l, Dot) = Append(done, l)
<1> DEFINE C == Char \ {Dot}
           S == {t \in Seq(C) : Split(s \o t, Dot) = Append(done, t)}
<1>1. C \subseteq Byte /\ Dot \notin C
  BY DEF Char, Byte
<1> HIDE DEF C
<1>2. <<>> \in S
  <2>1. s \o <<>> = s
    BY ConcatEmptySeq
  <2>2. <<>> \in Seq(C)
    BY EmptySeq
  <2>3. Split(s \o <<>>, Dot) = Append(done, <<>>)
    BY <2>1, Zenon
  <2> QED BY <2>2, <2>3
<1>3. ASSUME NEW t \in Seq(C), NEW c \in C, t \in S PROVE Append(t, c) \in S
  <2> DEFINE u == s \o t
  <2>1. t \in Seq(Byte) /\ c \in Byte /\ c # Dot
    BY <1>1, SeqMonotonic
  <2>2. u \in Seq(Byte)
    BY <2>1, ConcatProperties
  <2>3. s \o Append(t, c) = Append(u, c)
    BY <2>1, ConcatOne
  <2>4. Split(u, Dot) = Append(done, t)
    BY <1>3
  <2> HIDE DEF u
  <2>5. Split(Append(u, c), Dot) = WithChar(Split(u, Dot), c, Dot)
    BY <2>1, <2>2, SplitAppend
  <2>6. WithChar(Append(done, t), c, Dot) = Append(done, Append(t, c))
    <3>1. \A sep : WithChar(Append(done, t), c, sep) = IF c = sep THEN Append(Append(done, t), <<>>)
                                                       ELSE Append(done, Append(t, c))
      BY <2>1, WithCharAppend
    <3> QED BY <2>1, <3>1, Zenon
  <2>7. Append(t, c) \in Seq(C)
    BY AppendProperties
  <2>8. Split(s \o Append(t, c), Dot) = Append(done, Append(t, c))
    BY <2>3, <2>4, <2>5, <2>6, Zenon
  <2> QED BY <2>7, <2>8
<1>4. \A t \in Seq(C), c \in C : t \in S => Append(t, c) \in S
  <2> HIDE DEF S
  <2> QED BY <1>3
<1>5. l \in S
  <2> HIDE DEF S
  <2>1. Seq(C) \subseteq S
    BY <1>2, <1>4, SeqInduction
  <2> QED BY <2>1 DEF C
<1> QED BY <1>5

LEMMA SplitClosed ==
    ASSUME NEW done \in Seq(Label), NEW s \in Seq(Byte), Split(s, Dot) = Append(done, <<>>),
           NEW l \in Label
    PROVE  Split(s \o Closed(l), Dot) = Append(Append(done, l), <<>>)
<1> DEFINE u == s \o l
<1>1. l \in Seq(Byte) /\ l \in Seq(Char \ {Dot}) /\ Dot \in Byte
  <2>1. l \in Seq(Byte)
    BY LabelIs
  <2>2. l \in Seq(Char \ {Dot})
    BY Zenon DEF Label
  <2>3. Dot \in Byte
    BY DEF Dot, Byte
  <2> QED BY <2>1, <2>2, <2>3
<1>2. done \in Seq(Seq(Byte))
  <2>1. Label \subseteq Seq(Byte)
    BY LabelIs
  <2> QED BY <2>1, SeqMonotonic
<1>3. Split(u, Dot) = Append(done, l)
  BY <1>1, <1>2, SplitLabel
<1>4. s \o Closed(l) = Append(u, Dot)
  <2>1. Closed(l) = Append(l, Dot)
    BY <1>1, AppendIsConcat DEF Closed
  <2> HIDE DEF Dot
  <2> QED BY <1>1, <2>1, ConcatOne
<1>5. u \in Seq(Byte)
  BY <1>1, ConcatProperties
<1> HIDE DEF u, Dot
<1>6. Split(Append(u, Dot), Dot) = WithChar(Split(u, Dot), Dot, Dot)
  BY <1>1, <1>5, SplitAppend
<1>7. WithChar(Append(done, l), Dot, Dot) = Append(Append(done, l), <<>>)
  BY Zenon DEF WithChar
<1> QED BY <1>3, <1>4, <1>6, <1>7, Zenon

\* The parts of a name with a dot at its end: its labels and nothing.
LEMMA EndedSplit ==
    ASSUME NEW labels \in Seq(Label)
    PROVE  Split(Ended(labels), Dot) = Append(labels, <<>>)
<1> DEFINE K == Len(labels)
           done(k) == SubSeq(labels, 1, k)
<1>1. ClosedAll(labels) \in Seq(Seq(Byte)) /\ Len(ClosedAll(labels)) = K /\ K \in Nat
  BY ClosedType
<1>2. PICK e : /\ ConcatRun(e, ClosedAll(labels), Byte)
               /\ Concat(ClosedAll(labels)) = e[Len(ClosedAll(labels))]
  BY <1>1, ConcatRuns
<1>3. /\ \A k \in 0..K : e[k] \in Seq(Byte)
      /\ \A k \in 1..K : e[k] = e[k - 1] \o Closed(labels[k])
      /\ e[0] = <<>> /\ e[K] = Ended(labels)
  <2>1. \A k \in 1..K : ClosedAll(labels)[k] = Closed(labels[k])
    BY ClosedType
  <2> HIDE DEF K
  <2>2. e \in [0..K -> Seq(Byte)]
    BY <1>1, <1>2, Zenon DEF ConcatRun
  <2>3. \A k \in 1..K : e[k] = e[k - 1] \o Closed(labels[k])
    BY <1>1, <1>2, <2>1, Zenon DEF ConcatRun
  <2>4. e[0] = <<>>
    BY <1>2, Zenon DEF ConcatRun
  <2>5. e[K] = Ended(labels)
    BY <1>1, <1>2, EndedIs, Zenon
  <2>6. \A k \in 0..K : e[k] \in Seq(Byte)
    BY <2>2
  <2> QED BY <2>3, <2>4, <2>5, <2>6
<1>4. \A k \in 1..K : labels[k] \in Label
  OBVIOUS
<1>5. ASSUME NEW k \in 0..K, k < K
      PROVE  done(k) \in Seq(Label) /\ done(k + 1) = Append(done(k), labels[k + 1])
  BY <1>5, PrefixGrows
<1>6. done(0) = <<>> /\ done(K) = labels
  BY SubSeqEmpty, SubSeqFull
<1> DEFINE S == {k \in 0..K : Split(e[k], Dot) = Append(done(k), <<>>)}
<1> HIDE DEF K, done
<1>7. 0 \in S
  <2>1. Split(<<>>, Dot) = << <<>> >>
    BY SplitEmpty
  <2>2. Append(<<>>, <<>>) = << <<>> >>
    OBVIOUS
  <2>3. Split(e[0], Dot) = Append(done(0), <<>>)
    BY <1>3, <1>6, <2>1, <2>2, Zenon
  <2>4. 0 \in 0..K
    BY <1>1
  <2> QED BY <2>3, <2>4
<1>8. ASSUME NEW k \in 0..K, k < K, k \in S PROVE k + 1 \in S
  <2>1. k + 1 \in 1..K /\ k + 1 \in 0..K /\ (k + 1) - 1 = k
    BY <1>1, <1>8
  <2> DEFINE d == done(k)
             l == labels[k + 1]
             s == e[k]
  <2>2. d \in Seq(Label) /\ l \in Label /\ s \in Seq(Byte) /\ done(k + 1) = Append(d, l)
    BY <1>3, <1>4, <1>5, <1>8, <2>1
  <2>3. Split(s, Dot) = Append(d, <<>>)
    BY <1>8
  <2>4. e[k + 1] = s \o Closed(l)
    BY <1>3, <2>1, Zenon
  <2> HIDE DEF d, l, s
  <2>5. Split(s \o Closed(l), Dot) = Append(Append(d, l), <<>>)
    BY <2>2, <2>3, SplitClosed
  <2>6. Split(e[k + 1], Dot) = Append(done(k + 1), <<>>)
    BY <2>2, <2>4, <2>5, Zenon
  <2> QED BY <2>1, <2>6
<1>9. K \in S
  <2> HIDE DEF S
  <2>1. 0..K \subseteq S
    BY <1>1, <1>7, <1>8, SetInduction
  <2>2. K \in 0..K
    BY <1>1
  <2> QED BY <2>1, <2>2
<1>10. Split(e[K], Dot) = Append(done(K), <<>>)
  BY <1>9
<1> QED BY <1>3, <1>6, <1>10, Zenon

\* An empty label behind the others is a zero.
LEMMA WireEnds ==
    ASSUME NEW labels \in Seq(Label)
    PROVE  Wire(Append(labels, <<>>)) = Wire(labels) \o <<0>>
<1> DEFINE all == Append(labels, <<>>)
           K == Len(labels)
           cut == [i \in DOMAIN all |-> <<Len(all[i]) % 256>> \o all[i]]
           zero == <<0>>
           sized == SizedAll(labels)
           more == Append(sized, zero)
<1>1. /\ DOMAIN all = 1..K + 1 /\ K \in Nat /\ all[K + 1] = <<>>
      /\ \A i \in 1..K : all[i] = labels[i] /\ labels[i] \in Label
  <2>1. /\ labels \in Seq(Seq(Byte)) /\ <<>> \in Seq(Byte)
        /\ \A i \in 1..K : labels[i] \in Label
    <3>1. Label \subseteq Seq(Byte)
      BY LabelIs
    <3> QED BY <3>1, SeqMonotonic, EmptySeq
  <2>2. /\ Append(labels, <<>>) \in Seq(Seq(Byte)) /\ Len(Append(labels, <<>>)) = K + 1
        /\ \A i \in 1..K : Append(labels, <<>>)[i] = labels[i]
        /\ Append(labels, <<>>)[K + 1] = <<>>
    BY <2>1, AppendProperties
  <2> QED BY <2>1, <2>2
<1>2. sized \in Seq(Seq(Byte)) /\ Len(sized) = K /\ \A i \in 1..K : sized[i] = Prefixed(labels[i])
  BY SizedType
<1>3. zero \in Seq(Byte)
  BY DEF Byte
<1> HIDE DEF all, K, zero, sized
<1>4. /\ more \in Seq(Seq(Byte)) /\ Len(more) = K + 1
      /\ \A i \in 1..K : more[i] = sized[i]
      /\ more[K + 1] = zero
  BY <1>2, <1>3, AppendProperties
<1>5. ASSUME NEW i \in 1..K + 1 PROVE <<Len(all[i]) % 256>> \o all[i] = more[i]
  <2>1. CASE i \in 1..K
    <3>1. all[i] = labels[i] /\ labels[i] \in Label /\ more[i] = Prefixed(labels[i])
      BY <1>1, <1>2, <1>4, <2>1
    <3>2. Len(labels[i]) \in 1..63
      BY <3>1, LabelIs
    <3>3. \A n \in 1..63 : n % 256 = n
      OBVIOUS
    <3> QED BY <3>1, <3>2, <3>3, Zenon DEF Prefixed
  <2>2. CASE i = K + 1
    <3>1. all[i] = <<>> /\ more[i] = zero
      BY <1>1, <1>4, <2>2
    <3>2. Len(<<>>) = 0 /\ 0 % 256 = 0
      BY EmptySeq
    <3>3. zero \o <<>> = zero
      BY <1>3, ConcatEmptySeq
    <3> QED BY <3>1, <3>2, <3>3, Zenon DEF zero
  <2>3. i \in 1..K \/ i = K + 1
    BY <1>1
  <2> HIDE DEF more
  <2> QED BY <2>1, <2>2, <2>3, Zenon
<1>6. cut = more
  <2>1. cut = [i \in 1..K + 1 |-> more[i]]
    BY <1>1, <1>5
  <2>2. more = [i \in 1..K + 1 |-> more[i]]
    <3> HIDE DEF more
    <3> QED BY <1>4, LenProperties
  <2> QED BY <2>1, <2>2, Zenon
<1>7. Wire(all) = Concat(more)
  <2> HIDE DEF more
  <2> QED BY <1>6, Zenon DEF Wire
<1>8. Concat(more) = Concat(sized) \o zero
  BY <1>2, <1>3, ConcatAppend
<1> QED BY <1>7, <1>8, WireIs, Zenon DEF all, sized, zero

\* The bytes behind the names of a reply, parted elsewhere.
LEMMA ReplyTail ==
    LET T == <<1, 0, 1, 192, 12, 0, 1, 0, 1, 0, 0, 0, 0, 0, 4>>
        first == <<0, 1, 0, 1>>
        rest  == <<192, 12, 0, 1, 0, 1, 0, 0, 0, 0, 0, 4>>
    IN  /\ <<0>> \o T = first \o rest
        /\ T \in Seq(Byte) /\ first \in Seq(Byte) /\ rest \in Seq(Byte)
<1> DEFINE T == <<1, 0, 1, 192, 12, 0, 1, 0, 1, 0, 0, 0, 0, 0, 4>>
           first == <<0, 1, 0, 1>>
           rest  == <<192, 12, 0, 1, 0, 1, 0, 0, 0, 0, 0, 4>>
           zero  == <<0>>
           u == zero \o T
           v == first \o rest
<1>1. /\ zero \in Seq(Byte) /\ T \in Seq(Byte) /\ first \in Seq(Byte) /\ rest \in Seq(Byte)
      /\ Len(zero) = 1 /\ Len(T) = 15 /\ Len(first) = 4 /\ Len(rest) = 12
  BY DEF Byte
<1>2. /\ zero[1] = 0 /\ T[1] = 1 /\ T[2] = 0 /\ T[3] = 1
      /\ first[1] = 0 /\ first[2] = 1 /\ first[3] = 0 /\ first[4] = 1
      /\ \A i \in 1..12 : T[i + 3] = rest[i]
  <2>1. /\ zero[1] = 0 /\ T[1] = 1 /\ T[2] = 0 /\ T[3] = 1
        /\ first[1] = 0 /\ first[2] = 1 /\ first[3] = 0 /\ first[4] = 1
    OBVIOUS
  <2>2. /\ T[4] = rest[1] /\ T[5] = rest[2] /\ T[6] = rest[3] /\ T[7] = rest[4]
        /\ T[8] = rest[5] /\ T[9] = rest[6] /\ T[10] = rest[7] /\ T[11] = rest[8]
        /\ T[12] = rest[9] /\ T[13] = rest[10] /\ T[14] = rest[11] /\ T[15] = rest[12]
    OBVIOUS
  <2> HIDE DEF T, rest, zero, first
  <2>3. \A i \in 1..12 : T[i + 3] = rest[i]
    BY <2>2
  <2> QED BY <2>1, <2>3
<1> HIDE DEF T, first, rest, zero, Byte
<1>3. u \in Seq(Byte) /\ Joins(u, zero, T)
  BY <1>1, ConcatJoins
<1>4. v \in Seq(Byte) /\ Joins(v, first, rest)
  BY <1>1, ConcatJoins
<1> HIDE DEF u, v
<1>5. Len(u) = 16 /\ Len(v) = 16
  BY <1>1, <1>3, <1>4 DEF Joins
<1>6. \A i \in 1..4 : u[i] = v[i]
  <2>1. v[1] = 0 /\ v[2] = 1 /\ v[3] = 0 /\ v[4] = 1
    <3>1. 1 \in 1..Len(first) /\ 2 \in 1..Len(first) /\ 3 \in 1..Len(first) /\ 4 \in 1..Len(first)
      BY <1>1
    <3> QED BY <1>2, <1>4, <3>1, Zenon DEF Joins
  <2>2. u[1] = 0 /\ u[2] = 1 /\ u[3] = 0 /\ u[4] = 1
    <3>1. /\ 1 \in 1..Len(zero) /\ 1 \in 1..Len(T) /\ 2 \in 1..Len(T) /\ 3 \in 1..Len(T)
          /\ 1 + Len(zero) = 2 /\ 2 + Len(zero) = 3 /\ 3 + Len(zero) = 4
      BY <1>1
    <3>2. u[1] = 0 /\ u[1 + Len(zero)] = 1 /\ u[2 + Len(zero)] = 0 /\ u[3 + Len(zero)] = 1
      BY <1>2, <1>3, <3>1, Zenon DEF Joins
    <3> QED BY <3>1, <3>2, Zenon
  <2>3. \A i \in 1..4 : i = 1 \/ i = 2 \/ i = 3 \/ i = 4
    OBVIOUS
  <2> QED BY <2>1, <2>2, <2>3, Zenon
<1>7. \A i \in 1..12 : u[i + 4] = v[i + 4]
  <2> TAKE i \in 1..12
  <2>1. /\ i + 3 \in 1..Len(T) /\ (i + 3) + Len(zero) = i + 4
        /\ i \in 1..Len(rest) /\ i + Len(first) = i + 4
    BY <1>1
  <2>2. u[(i + 3) + Len(zero)] = T[i + 3]
    BY <1>3, <2>1, Zenon DEF Joins
  <2>3. v[i + Len(first)] = rest[i]
    BY <1>4, <2>1, Zenon DEF Joins
  <2> QED BY <1>2, <2>1, <2>2, <2>3, Zenon
<1>8. \A i \in 1..Len(u) : u[i] = v[i]
  <2> TAKE i \in 1..Len(u)
  <2>1. i \in 1..4 \/ (i - 4 \in 1..12 /\ (i - 4) + 4 = i)
    BY <1>5
  <2> QED BY <1>6, <1>7, <2>1, Zenon
<1>9. u = v
  BY <1>3, <1>4, <1>5, <1>8, SeqEqual
<1> QED BY <1>1, <1>9 DEF u, v, T, first, rest, zero

\* What a server of the codec reads of a request, and what it writes.
LEMMA CodecReads ==
    ASSUME NEW text \in Domain
    PROVE  /\ decode(Request(text)).name = Ended(Labels(text))
           /\ decode(Request(text)).id = Id
           /\ decode(Request(text)).ends
<1> DEFINE b == Request(text)
           labels == Labels(text)
           W == Wire(labels)
<1>1. /\ b \in Seq(Byte) /\ W \in Seq(Byte)
      /\ Len(W) \in Nat /\ Len(b) = Len(W) + 17
      /\ At(b, 1) = Id[1] /\ At(b, 2) = Id[2]
      /\ At(b, 5) = 0 /\ At(b, 6) = 1 /\ At(b, 7) = 0 /\ At(b, 8) = 0
      /\ \A j \in 1..Len(W) : At(b, j + 12) = W[j]
      /\ At(b, Len(W) + 13) = 0
  BY RequestBytes, Zenon
<1>2. labels \in Seq(Label)
  BY LabelsType
<1> HIDE DEF b, labels
<1>3. Stands(labels, b, 12)
  <2>1. Len(W) + 12 + 1 = Len(W) + 13
    BY <1>1
  <2> QED BY <1>1, <2>1, Zenon DEF Stands
<1>4. decode_qname(b, 13) = [text |-> Ended(labels), ends |-> TRUE]
  <2>1. 12 \in Nat /\ 12 + 1 = 13 /\ Len(W) <= Len(b)
    BY <1>1
  <2>2. decode_qname(b, 12 + 1) = [text |-> Ended(labels), ends |-> TRUE]
    BY <1>1, <1>2, <1>3, <2>1, QnameReads
  <2> QED BY <2>1, <2>2, Zenon
<1>5. Word(b, 5) + Word(b, 7) = 1
  <2>1. Word(b, 5) = 1
    BY <1>1 DEF Word
  <2>2. Word(b, 7) = 0
    BY <1>1 DEF Word
  <2> QED BY <2>1, <2>2
<1> DEFINE Names(n) == [i \in 1..n |-> decode_qname(b, Header + 1 + 4 * (i - 1))]
           D(n) == [id |-> Piece(b, 1, 2), name |-> IF n = 0 THEN <<>> ELSE Names(n)[n].text,
                    ends |-> \A i \in 1..n : Names(n)[i].ends]
           names == Names(1)
<1>6. decode(b) = [id |-> Piece(b, 1, 2), name |-> IF 1 = 0 THEN <<>> ELSE names[1].text,
                   ends |-> \A i \in 1..1 : names[i].ends]
  <2>1. decode(b) = D(Word(b, 5) + Word(b, 7))
    BY Zenon DEF decode
  <2> HIDE DEF D
  <2>2. decode(b) = D(1)
    BY <1>5, <2>1, Zenon
  <2> QED BY <2>2, Zenon DEF D
<1>7. names[1] = decode_qname(b, 13) /\ \A i \in 1..1 : i = 1
  <2>1. Header + 1 + 4 * (1 - 1) = 13 /\ 1 \in 1..1
    BY DEF Header
  <2>2. \A i \in 1..1 : i = 1
    OBVIOUS
  <2> QED BY <2>1, <2>2, Zenon
<1>8. Piece(b, 1, 2) = Id
  <2>1. Id \in Seq(Byte) /\ Len(Id) = 2
    BY CodecAssumption
  <2>2. \A i \in 1..2 : At(b, 1 + i - 1) = Id[i]
    <3>1. \A i \in 1..2 : (i = 1 \/ i = 2) /\ 1 + i - 1 = i
      OBVIOUS
    <3> QED BY <1>1, <3>1, Zenon
  <2> DEFINE p == 1
  <2>3. p \in Nat /\ \A i \in 1..Len(Id) : At(b, p + i - 1) = Id[i]
    BY <2>1, <2>2
  <2> HIDE DEF p
  <2>4. Piece(b, p, Len(Id)) = Id
    BY <1>1, <2>1, <2>3, PieceIs
  <2> QED BY <2>1, <2>4 DEF p
<1>9. names[1].text = Ended(labels) /\ names[1].ends
  BY <1>4, <1>7
<1> HIDE DEF names
<1>10. /\ decode(b).name = Ended(labels) /\ decode(b).id = Id
       /\ decode(b).ends <=> \A i \in 1..1 : names[i].ends
  <2>1. 1 # 0
    OBVIOUS
  <2> QED BY <1>6, <1>8, <1>9, <2>1
<1> QED BY <1>7, <1>9, <1>10, Zenon DEF b, labels

CodecReply(labels) ==
    Id \o <<133, 128, 0, 1, 0, 1, 0, 0, 0, 0>> \o Encoded(labels) \o <<0, 1, 0, 1>>
    \o <<192, 12, 0, 1, 0, 1, 0, 0, 0, 0, 0, 4>> \o Spoofed

LEMMA CodecWrites ==
    ASSUME NEW text \in Domain
    PROVE  code(decode(Request(text))) = CodecReply(Labels(text))
<1> DEFINE H == <<133, 128, 0, 1, 0, 1, 0, 0, 0, 0>>
           A == Id \o H
           labels == Labels(text)
           W == Wire(labels)
           T == <<1, 0, 1, 192, 12, 0, 1, 0, 1, 0, 0, 0, 0, 0, 4>>
           first == <<0, 1, 0, 1>>
           rest  == <<192, 12, 0, 1, 0, 1, 0, 0, 0, 0, 0, 4>>
           query == decode(Request(text))
           Z == <<0>>
           E == W \o Z
<1>1. labels \in Seq(Label) /\ W \in Seq(Byte) /\ E = Encoded(labels)
  BY LabelsType, WireIs, EncodedIs
<1>2. A \in Seq(Byte)
  <2>1. H \in Seq(Byte) /\ Id \in Seq(Byte)
    BY CodecAssumption DEF Byte
  <2> HIDE DEF H
  <2> QED BY <2>1, ConcatProperties
<1>3. query.name = Ended(labels) /\ query.id = Id
  BY CodecReads
<1>4. code_domain(query.name) = E \o Z
  BY <1>1, <1>3, EndedSplit, WireEnds, Zenon DEF code_domain
<1>5. code(query) = A \o (E \o Z) \o T \o Spoofed
  BY <1>3, <1>4, Zenon DEF code, code_hdr
<1>6. Z \o T = first \o rest /\ T \in Seq(Byte) /\ first \in Seq(Byte) /\ rest \in Seq(Byte)
  BY ReplyTail
<1>7. 0 \in Byte /\ Z \in Seq(Byte)
  BY DEF Byte
<1> HIDE DEF A, W, T, first, rest, query, Z
<1>8. E \in Seq(Byte)
  BY <1>1, <1>7, ConcatProperties
<1> HIDE DEF E
<1>9. (A \o (E \o Z)) \o T = (A \o E) \o (Z \o T) /\ A \o E \in Seq(Byte)
  <2>1. A \in Seq(Byte) /\ E \in Seq(Byte) /\ Z \in Seq(Byte) /\ T \in Seq(Byte)
    BY <1>2, <1>6, <1>7, <1>8 DEF Z
  <2>2. Regroups(A, E, Z, T)
    BY <2>1, FourTexts
  <2> QED BY <2>2, Zenon DEF Regroups
<1>10. (A \o E) \o (first \o rest) = ((A \o E) \o first) \o rest
  <2> DEFINE AE == A \o E
  <2>1. AE \in Seq(Byte)
    BY <1>9
  <2> HIDE DEF AE
  <2>2. OneText(AE, first, rest)
    BY <1>6, <2>1, ThreeTexts
  <2> QED BY <2>2, Zenon DEF AE, OneText
<1>11. code(query) = (((A \o E) \o first) \o rest) \o Spoofed
  BY <1>5, <1>6, <1>9, <1>10, Zenon
<1> QED BY <1>1, <1>11, Zenon DEF A, first, rest, query, CodecReply

LEMMA RequestsReplied == Requests => CodecReplies
<1> SUFFICES ASSUME Requests, NEW q \in toServer
             PROVE  LET labels == Without(Split(q.domain, Dot), {<<>>})
                    IN  /\ decode(q.bytes).name = Ended(labels)
                        /\ code(decode(q.bytes)) =
                              Id \o <<133, 128, 0, 1, 0, 1, 0, 0, 0, 0>> \o Encoded(labels)
                              \o <<0, 1, 0, 1>>
                              \o <<192, 12, 0, 1, 0, 1, 0, 0, 0, 0, 0, 4>> \o Spoofed
  BY Zenon DEF CodecReplies
<1> DEFINE text == q.domain
<1>1. text \in Domain /\ q.bytes = Request(text)
  BY Zenon DEF Requests
<1> HIDE DEF text
<1>2. decode(Request(text)).name = Ended(Labels(text))
  BY <1>1, CodecReads
<1>3. code(decode(Request(text))) = CodecReply(Labels(text))
  BY <1>1, CodecWrites
<1> QED BY <1>1, <1>2, <1>3, ZenonT(60) DEF Labels, CodecReply, text

\* What Query::decode reads of a request is its name, and what Response::code
\* answers is a reply as RFC 1035 writes it, for every name.
THEOREM CodecTheorem == Spec => []CodecReplies
<1>1. Requests => CodecReplies
  BY RequestsReplied
<1> QED BY <1>1, RequestsAlways, PTL

(***************************************************************************)
(* Where a text lies in a message.                                         *)
(***************************************************************************)
\* Where a text lies in a message: behind p bytes, and not beyond its end.
Lies(b, p, s) ==
    /\ Len(b) \in Nat /\ Len(s) \in Nat /\ p + Len(s) <= Len(b)
    /\ \A j \in 1..Len(s) : At(b, p + j) = s[j]

\* What lies in a text lies in a longer one.
LEMMA LiesStill ==
    ASSUME NEW C, NEW s \in Seq(C), NEW t \in Seq(C), NEW p \in Nat, NEW x, Lies(s, p, x)
    PROVE  Lies(s \o t, p, x)
<1> DEFINE u == s \o t
<1>1. u \in Seq(C) /\ Joins(u, s, t)
  BY ConcatJoins
<1> HIDE DEF u
<1>2. /\ Len(u) = Len(s) + Len(t) /\ Len(s) \in Nat /\ Len(t) \in Nat
      /\ \A i \in 1..Len(s) : u[i] = s[i]
  BY <1>1, Zenon DEF Joins
<1>3. Len(u) \in Nat /\ DOMAIN u = 1..Len(u) /\ DOMAIN s = 1..Len(s)
  BY <1>1
<1>4. /\ Len(x) \in Nat /\ p + Len(x) <= Len(s)
      /\ \A j \in 1..Len(x) : At(s, p + j) = x[j]
  BY Zenon DEF Lies
<1>5. ASSUME NEW j \in 1..Len(x) PROVE At(u, p + j) = x[j]
  <2>1. p + j \in 1..Len(s) /\ p + j \in 1..Len(u)
    BY <1>2, <1>4
  <2>2. At(u, p + j) = At(s, p + j)
    BY <1>2, <1>3, <2>1, Zenon DEF At
  <2> QED BY <1>4, <2>2, Zenon
<1>6. p + Len(x) <= Len(u)
  BY <1>2, <1>4
<1> QED BY <1>3, <1>4, <1>5, <1>6, Zenon DEF Lies, u

\* The parts of what lies in a message.
LEMMA LiesParts ==
    ASSUME NEW C, NEW b, NEW s \in Seq(C), NEW t \in Seq(C), NEW p \in Nat, Lies(b, p, s \o t)
    PROVE  Lies(b, p, s) /\ Lies(b, p + Len(s), t)
<1> DEFINE u == s \o t
<1>1. u \in Seq(C) /\ Joins(u, s, t)
  BY ConcatJoins
<1>2. Lies(b, p, u)
  OBVIOUS
<1> HIDE DEF u
<1>3. /\ Len(u) = Len(s) + Len(t) /\ Len(s) \in Nat /\ Len(t) \in Nat
      /\ \A i \in 1..Len(s) : u[i] = s[i]
      /\ \A i \in 1..Len(t) : u[i + Len(s)] = t[i]
  BY <1>1, Zenon DEF Joins
<1>4. /\ Len(b) \in Nat /\ p + Len(u) <= Len(b)
      /\ \A j \in 1..Len(u) : At(b, p + j) = u[j]
  BY <1>2, Zenon DEF Lies
<1>5. p + Len(s) <= Len(b) /\ (p + Len(s)) + Len(t) <= Len(b)
  BY <1>3, <1>4
<1>6. ASSUME NEW j \in 1..Len(s) PROVE At(b, p + j) = s[j]
  <2>1. j \in 1..Len(u)
    BY <1>3
  <2> QED BY <1>3, <1>4, <2>1, Zenon
<1>7. ASSUME NEW j \in 1..Len(t) PROVE At(b, (p + Len(s)) + j) = t[j]
  <2>1. j + Len(s) \in 1..Len(u) /\ (p + Len(s)) + j = p + (j + Len(s))
    BY <1>3
  <2> QED BY <1>3, <1>4, <2>1, Zenon
<1> QED BY <1>3, <1>4, <1>5, <1>6, <1>7, Zenon DEF Lies

\* The parts of texts one behind the other, each where those before it end.
LieInRow(b, o, parts, g) ==
    /\ g[0] = <<>> /\ g[Len(parts)] = Concat(parts)
    /\ \A k \in 0..Len(parts) : g[k] \in Seq(Byte)
    /\ \A k \in 1..Len(parts) : /\ g[k] = g[k - 1] \o parts[k]
                                /\ Len(g[k]) = Len(g[k - 1]) + Len(parts[k])
                                /\ Len(g[k - 1]) \in Nat
                                /\ Lies(b, o + Len(g[k - 1]), parts[k])

LEMMA LiesRun ==
    ASSUME NEW b, NEW o \in Nat, NEW parts \in Seq(Seq(Byte)), NEW g, ConcatRun(g, parts, Byte),
           Lies(b, o, Concat(parts))
    PROVE  LieInRow(b, o, parts, g)
<1> DEFINE N == Len(parts)
<1>1. N \in Nat /\ \A k \in 1..N : parts[k] \in Seq(Byte)
  OBVIOUS
<1>2. g[0] = <<>> /\ g \in [0..N -> Seq(Byte)] /\ \A k \in 1..N : g[k] = g[k - 1] \o parts[k]
  BY Zenon DEF ConcatRun
<1>3. \A k \in 0..N : g[k] \in Seq(Byte) /\ Len(g[k]) \in Nat
  BY <1>2
<1>4. g[N] = Concat(parts)
  <2>1. PICK d : ConcatRun(d, parts, Byte) /\ Concat(parts) = d[N]
    BY ConcatRuns
  <2>2. SameSteps(d, g, N)
    BY <2>1, Zenon DEF SameSteps, ConcatRun
  <2>3. N \in 0..N
    BY <1>1
  <2>4. d[N] = g[N]
    BY <1>1, <2>2, <2>3, SameStepsAgree
  <2> QED BY <2>1, <2>4
<1>5. Lies(b, o, g[N])
  BY <1>4
<1> HIDE DEF N
<1>6. ASSUME NEW k \in 1..N
      PROVE  /\ Len(g[k]) = Len(g[k - 1]) + Len(parts[k])
             /\ Lies(b, o + Len(g[k - 1]), parts[k])
  <2> DEFINE a == g[k - 1]
             c == parts[k]
             u == g[k]
             w == g[N]
  <2>1. k - 1 \in 0..N /\ k \in 0..N /\ N \in 0..N
    BY <1>1
  <2>2. a \in Seq(Byte) /\ c \in Seq(Byte) /\ u \in Seq(Byte) /\ u = a \o c /\ w \in Seq(Byte)
        /\ Len(w) \in Nat /\ Len(a) \in Nat /\ Len(c) \in Nat /\ Len(u) \in Nat
    <3>1. /\ a \in Seq(Byte) /\ u \in Seq(Byte) /\ w \in Seq(Byte)
          /\ Len(w) \in Nat /\ Len(a) \in Nat /\ Len(u) \in Nat
      BY <1>3, <2>1, Zenon
    <3>2. c \in Seq(Byte) /\ u = a \o c
      BY <1>1, <1>2, Zenon
    <3>3. Len(c) \in Nat
      <4> HIDE DEF c
      <4> QED BY <3>2
    <3> QED BY <3>1, <3>2, <3>3, Zenon
  <2>3. Heads(u, w)
    <3>1. k \in 0..Len(parts)
      BY <2>1 DEF N
    <3> QED BY <3>1, ConcatBegins DEF N
  <2>4. Lies(b, o, w)
    BY <1>5
  <2> HIDE DEF a, c, u, w
  <2>5. Lies(b, o, u)
    <3>1. /\ Len(u) <= Len(w) /\ \A j \in 1..Len(u) : w[j] = u[j]
      BY <2>3, Zenon DEF Heads
    <3>2. /\ Len(b) \in Nat /\ o + Len(w) <= Len(b) /\ \A j \in 1..Len(w) : At(b, o + j) = w[j]
      BY <2>4, Zenon DEF Lies
    <3>3. o + Len(u) <= Len(b) /\ \A j \in 1..Len(u) : j \in 1..Len(w)
      BY <2>2, <3>1, <3>2
    <3> QED BY <2>2, <3>1, <3>2, <3>3, Zenon DEF Lies
  <2>6. Lies(b, o + Len(a), c)
    BY <2>2, <2>5, LiesParts
  <2>7. Len(u) = Len(a) + Len(c)
    <3>1. Joins(a \o c, a, c)
      BY <2>2, ConcatJoins
    <3> QED BY <2>2, <3>1, Zenon DEF Joins
  <2> QED BY <2>6, <2>7 DEF a, c, u
<1>7. \A k \in 1..N : k - 1 \in 0..N
  BY <1>1
<1> QED BY <1>2, <1>3, <1>4, <1>6, <1>7, Zenon DEF LieInRow, N

\* Texts one behind the other, in two groups.
LEMMA ConcatConcat ==
    ASSUME NEW C, NEW p \in Seq(Seq(C)), NEW q \in Seq(Seq(C))
    PROVE  Concat(p \o q) = Concat(p) \o Concat(q)
<1> DEFINE V == Seq(C)
           S == {r \in Seq(V) : Concat(p \o r) = Concat(p) \o Concat(r)}
<1>1. <<>> \in S
  <2>1. p \o <<>> = p /\ <<>> \in Seq(V)
    BY ConcatEmptySeq, EmptySeq
  <2>2. Concat(<<>>) = <<>>
    BY ConcatEmpty
  <2>3. Concat(p) \in Seq(C)
    BY EmptySeq, ConcatAppend
  <2>4. Concat(p) \o <<>> = Concat(p)
    BY <2>3, ConcatEmptySeq
  <2>5. Concat(p \o <<>>) = Concat(p) \o Concat(<<>>)
    BY <2>1, <2>2, <2>4, Zenon
  <2> QED BY <2>1, <2>5
<1>2. ASSUME NEW r \in Seq(V), NEW e \in V, r \in S PROVE Append(r, e) \in S
  <2> DEFINE u == p \o r
             x == Concat(p)
             y == Concat(r)
  <2>1. u \in Seq(Seq(C)) /\ Append(r, e) \in Seq(V)
    BY ConcatProperties, AppendProperties
  <2>2. p \o Append(r, e) = Append(u, e)
    <3>1. p \in Seq(V)
      OBVIOUS
    <3> HIDE DEF V
    <3> QED BY <3>1, ConcatOne
  <2>3. Concat(u) = x \o y
    BY <1>2
  <2> HIDE DEF u
  <2>4. Concat(Append(u, e)) = Concat(u) \o e
    BY <2>1, ConcatAppend
  <2>5. Concat(Append(r, e)) = y \o e /\ x \in Seq(C) /\ y \in Seq(C) /\ e \in Seq(C)
    BY ConcatAppend
  <2> HIDE DEF x, y, S, V
  <2>6. (x \o y) \o e = x \o (y \o e)
    <3>1. OneText(x, y, e)
      BY <2>5, ThreeParts
    <3> QED BY <3>1, Zenon DEF OneText
  <2>7. Concat(p \o Append(r, e)) = Concat(p) \o Concat(Append(r, e))
    BY <2>2, <2>3, <2>4, <2>5, <2>6, Zenon DEF x
  <2> QED BY <2>1, <2>7 DEF S
<1>3. q \in S
  <2> HIDE DEF S
  <2>1. q \in Seq(V)
    OBVIOUS
  <2>2. \A r \in Seq(V), e \in V : r \in S => Append(r, e) \in S
    BY <1>2
  <2> HIDE DEF V
  <2>3. Seq(V) \subseteq S
    BY <1>1, <2>2, SeqInduction
  <2> QED BY <2>1, <2>3
<1> QED BY <1>3

(***************************************************************************)
(* DecodeDotStr of a name that stands in a message.                        *)
(***************************************************************************)

\* The loop stands behind o bytes.
Turn(o, text, length, jumps, jumped) ==
    [ok |-> TRUE, p |-> o + 1, text |-> text, length |-> length, jumps |-> jumps, jumped |-> jumped]

Turned(b, o, l, text, length, jumps, jumped) ==
    LET next == LabelDecoded(Turn(o, text, length, jumps, jumped), b)
    IN  /\ Len(text) + Len(Closed(l)) > DotStrSize => next.ok = FALSE
        /\ Len(text) + Len(Closed(l)) <= DotStrSize =>
              next = Turn(o + Len(Prefixed(l)), text \o Closed(l),
                          IF jumped THEN length ELSE length + Len(Prefixed(l)), jumps, jumped)

LEMMA LabelTurn ==
    ASSUME NEW b \in Seq(Byte), NEW o \in Nat, NEW l \in Label, Lies(b, o, Prefixed(l)),
           NEW text \in Seq(Byte), NEW length \in Nat, NEW jumps, NEW jumped \in BOOLEAN
    PROVE  Turned(b, o, l, text, length, jumps, jumped)
<1> DEFINE st == Turn(o, text, length, jumps, jumped)
           n == Len(l)
<1>1. l \in Seq(Byte) /\ n \in 1..63 /\ n \in Nat /\ n # 0 /\ n < 64
  <2>1. \A m \in 1..63 : m \in Nat /\ m # 0 /\ m < 64
    OBVIOUS
  <2> QED BY <2>1, LabelIs
<1>2. /\ Len(Prefixed(l)) = n + 1 /\ Prefixed(l)[1] = n
      /\ \A i \in 1..n : Prefixed(l)[i + 1] = l[i]
  BY SizedIs
<1>3. Closed(l) \in Seq(Byte) /\ Len(Closed(l)) = n + 1
  <2> DEFINE dot == <<Dot>>
  <2>1. dot \in Seq(Byte) /\ Len(dot) = 1
    BY DEF Dot, Byte
  <2> HIDE DEF dot
  <2>2. l \o dot \in Seq(Byte) /\ Joins(l \o dot, l, dot)
    BY <1>1, <2>1, ConcatJoins
  <2>3. Len(l \o dot) = n + Len(dot)
    BY <2>2, Zenon DEF Joins
  <2> QED BY <2>1, <2>2, <2>3 DEF Closed, dot
<1>4. At(b, o + 1) = n
  <2>1. 1 \in 1..Len(Prefixed(l))
    BY <1>1, <1>2
  <2> QED BY <1>2, <2>1, Zenon DEF Lies
<1>5. Piece(b, (o + 1) + 1, n) = l
  <2> HIDE DEF n
  <2>1. \A i \in 1..n : i + 1 \in 1..Len(Prefixed(l)) /\ ((o + 1) + 1) + i - 1 = o + (i + 1)
    BY <1>1, <1>2
  <2>2. \A i \in 1..n : At(b, ((o + 1) + 1) + i - 1) = l[i]
    BY <1>2, <2>1, Zenon DEF Lies
  <2>3. (o + 1) + 1 \in Nat
    OBVIOUS
  <2> QED BY <1>1, <2>2, <2>3, PieceIs DEF n
<1>6. (text \o l) \o <<Dot>> = text \o Closed(l)
  <2> DEFINE dot == <<Dot>>
  <2>1. dot \in Seq(Byte)
    BY DEF Dot, Byte
  <2> HIDE DEF dot
  <2>2. OneText(text, l, dot)
    BY <1>1, <2>1, ThreeTexts
  <2> QED BY <2>2, Zenon DEF Closed, dot, OneText
<1>7. /\ st.ok = TRUE /\ st.p = o + 1 /\ st.text = text /\ st.length = length
      /\ st.jumps = jumps /\ st.jumped = jumped
  BY DEF Turn
<1> DEFINE L == Len(text)
<1>8. L \in Nat
  OBVIOUS
<1> HIDE DEF st, n
<1>9. CASE L + n + 1 > DotStrSize
  <2>1. LabelDecoded(st, b) = [st EXCEPT !.ok = FALSE]
    BY <1>1, <1>4, <1>7, <1>9, Zenon DEF LabelDecoded
  <2>2. LabelDecoded(st, b).ok = FALSE
    BY <2>1 DEF st, Turn
  <2>3. ~ (L + Len(Closed(l)) <= DotStrSize)
    <3> HIDE DEF L
    <3> QED BY <1>1, <1>3, <1>8, <1>9, CodecAssumption
  <2> QED BY <2>2, <2>3, Zenon DEF Turned, st
<1>10. CASE ~ (L + n + 1 > DotStrSize)
  <2>1. LabelDecoded(st, b) =
           [ok |-> TRUE, p |-> (o + 1) + n + 1, text |-> text \o l \o <<Dot>>,
            length |-> IF jumped THEN length ELSE length + (n + 1),
             jumps |-> jumps, jumped |-> jumped]
    BY <1>1, <1>4, <1>5, <1>7, <1>10, Zenon DEF LabelDecoded, Counted
  <2>2. (o + 1) + n + 1 = (o + Len(Prefixed(l))) + 1
    BY <1>1, <1>2
  <2>3. LabelDecoded(st, b) =
           Turn(o + Len(Prefixed(l)), text \o Closed(l),
                IF jumped THEN length ELSE length + Len(Prefixed(l)), jumps, jumped)
    BY <1>2, <1>6, <2>1, <2>2, Zenon DEF Turn
  <2>4. ~ (L + Len(Closed(l)) > DotStrSize)
    <3> HIDE DEF L
    <3> QED BY <1>1, <1>3, <1>8, <1>10, CodecAssumption
  <2> QED BY <2>3, <2>4, Zenon DEF Turned, st
<1> QED BY <1>9, <1>10, Zenon

\* A name that has failed has failed.
LEMMA FailedTurn ==
    ASSUME NEW st, NEW b, st.ok = FALSE
    PROVE  LabelDecoded(st, b) = st
BY Zenon DEF LabelDecoded

\* The states of DecodeDotStr.
DotRun(f, b, st, N) ==
    /\ f[0] = st
    /\ \A i \in 1..N : f[i] = LabelDecoded(f[i - 1], b)

LEMMA DotRuns ==
    ASSUME NEW b, NEW p, NEW jumps \in Nat
    PROVE  \E f : LET N == DotStrSize + jumps
                      end == f[N]
                  IN  /\ DotRun(f, b, [ok |-> TRUE, p |-> p, text |-> <<>>, length |-> 0,
                                       jumps |-> jumps, jumped |-> FALSE], N)
                      /\ DecodeDotStr(b, p, jumps) =
                            [ok |-> end.ok, text |-> end.text,
                             length |-> IF end.jumped THEN end.length ELSE end.length + 1]
<1> DEFINE N == DotStrSize + jumps
           s == [ok |-> TRUE, p |-> p, text |-> <<>>, length |-> 0, jumps |-> jumps,
                 jumped |-> FALSE]
           Step(v) == LabelDecoded(v, b)
           Rec(f, n) == f = [i \in 0..n |-> IF i = 0 THEN s ELSE Step(f[i - 1])]
           h == CHOOSE f : Rec(f, N)
           S == {n \in 0..N : \E f : Rec(f, n)}
           end == h[N]
<1>1. N \in Nat
  BY CodecAssumption
<1>2. DecodeDotStr(b, p, jumps) = [ok |-> end.ok, text |-> end.text,
                                   length |-> IF end.jumped THEN end.length ELSE end.length + 1]
  BY Zenon DEF DecodeDotStr
<1> HIDE DEF N, s, Step
<1>3. 0 \in S
  <2> DEFINE f == [i \in 0..0 |-> s]
  <2>1. Rec(f, 0)
    OBVIOUS
  <2>2. 0 \in 0..N
    BY <1>1
  <2> QED BY <2>1, <2>2
<1>4. ASSUME NEW n \in 0..N, n < N, n \in S PROVE n + 1 \in S
  <2>1. PICK f : Rec(f, n)
    BY <1>4
  <2> DEFINE d == [i \in 0..n + 1 |-> IF i = n + 1 THEN Step(f[n]) ELSE f[i]]
  <2>2. ASSUME NEW i \in 0..n + 1 PROVE d[i] = IF i = 0 THEN s ELSE Step(d[i - 1])
    <3>1. n \in Nat /\ i \in Nat
      BY <1>1
    <3>2. CASE i = n + 1
      <4>1. i # 0 /\ i - 1 = n /\ n \in 0..n + 1 /\ n # n + 1
        BY <3>1, <3>2
      <4>2. d[n] = f[n] /\ d[i] = Step(f[n])
        BY <3>2, <4>1
      <4> QED BY <4>1, <4>2
    <3>3. CASE i # n + 1
      <4>1. i \in 0..n
        BY <3>1, <3>3
      <4>2. d[i] = f[i]
        BY <3>3
      <4>3. f[i] = IF i = 0 THEN s ELSE Step(f[i - 1])
        BY <2>1, <4>1
      <4>4. i # 0 => i - 1 \in 0..n + 1 /\ i - 1 # n + 1
        BY <3>1, <4>1
      <4>5. i # 0 => d[i - 1] = f[i - 1]
        BY <4>4
      <4> QED BY <4>2, <4>3, <4>5
    <3> QED BY <3>2, <3>3
  <2>3. Rec(d, n + 1)
    <3>1. d = [i \in 0..n + 1 |-> d[i]]
      OBVIOUS
    <3> HIDE DEF d
    <3> QED BY <2>2, <3>1
  <2>4. n + 1 \in 0..N
    BY <1>1, <1>4
  <2> HIDE DEF d, Rec
  <2> QED BY <2>3, <2>4
<1>5. \E f : Rec(f, N)
  <2> HIDE DEF Rec
  <2>1. N \in S
    <3> HIDE DEF S
    <3>1. 0..N \subseteq S
      BY <1>1, <1>3, <1>4, SetInduction
    <3>2. N \in 0..N
      BY <1>1
    <3> QED BY <3>1, <3>2
  <2> QED BY <2>1
<1>6. Rec(h, N)
  <2> HIDE DEF Rec
  <2> QED BY <1>5
<1>7. h[0] = s /\ \A i \in 1..N : h[i] = Step(h[i - 1])
  <2>1. \A i \in 0..N : h[i] = IF i = 0 THEN s ELSE Step(h[i - 1])
    <3> HIDE DEF h
    <3> QED BY <1>6
  <2>2. 0 \in 0..N /\ \A i \in 1..N : i \in 0..N /\ i # 0
    BY <1>1
  <2> HIDE DEF h
  <2> QED BY <2>1, <2>2, Zenon
<1>8. DotRun(h, b, s, N)
  <2> HIDE DEF h
  <2> QED BY <1>7, Zenon DEF DotRun, Step
<1> HIDE DEF h
<1> QED BY <1>2, <1>8, Zenon DEF N, s

\* A label takes as many bytes in a message as with a dot behind it, two at least.
Alike(labels, g, e) ==
    /\ g[0] = <<>> /\ e[0] = <<>>
    /\ \A k \in 0..Len(labels) :
          /\ g[k] \in Seq(Byte) /\ e[k] \in Seq(Byte)
          /\ Len(e[k]) \in Nat /\ Len(g[k]) = Len(e[k])
          /\ 2 * k <= Len(e[k]) /\ Len(e[k]) <= Len(e[Len(labels)])
    /\ \A k \in 1..Len(labels) :
          /\ labels[k] \in Label
          /\ e[k] = e[k - 1] \o Closed(labels[k])
          /\ Len(e[k]) = Len(e[k - 1]) + Len(Closed(labels[k]))

LEMMA AsLong ==
    ASSUME NEW labels \in Seq(Label), NEW g, ConcatRun(g, SizedAll(labels), Byte),
           NEW e, ConcatRun(e, ClosedAll(labels), Byte)
    PROVE  Alike(labels, g, e)
<1> DEFINE K == Len(labels)
           S == {k \in 0..K : Len(g[k]) = Len(e[k]) /\ 2 * k <= Len(e[k])}
<1>1. /\ SizedAll(labels) \in Seq(Seq(Byte)) /\ Len(SizedAll(labels)) = K
      /\ \A i \in 1..K : SizedAll(labels)[i] = Prefixed(labels[i])
      /\ ClosedAll(labels) \in Seq(Seq(Byte)) /\ Len(ClosedAll(labels)) = K
      /\ \A i \in 1..K : ClosedAll(labels)[i] = Closed(labels[i])
  BY SizedType, ClosedType
<1>2. K \in Nat /\ \A k \in 1..K : labels[k] \in Label
  OBVIOUS
<1> HIDE DEF K
<1>3. /\ g[0] = <<>> /\ e[0] = <<>>
      /\ g \in [0..K -> Seq(Byte)] /\ e \in [0..K -> Seq(Byte)]
      /\ \A k \in 1..K : g[k] = g[k - 1] \o Prefixed(labels[k])
      /\ \A k \in 1..K : e[k] = e[k - 1] \o Closed(labels[k])
  BY <1>1, Zenon DEF ConcatRun
<1>4. \A k \in 0..K : /\ g[k] \in Seq(Byte) /\ e[k] \in Seq(Byte)
                      /\ Len(g[k]) \in Nat /\ Len(e[k]) \in Nat
  BY <1>3
<1>5. \A l \in Label : /\ Prefixed(l) \in Seq(Byte) /\ Closed(l) \in Seq(Byte)
                       /\ Len(Prefixed(l)) = Len(Closed(l)) /\ Len(Closed(l)) \in Nat
                       /\ 2 <= Len(Closed(l))
  <2> SUFFICES ASSUME NEW l \in Label
               PROVE  /\ Prefixed(l) \in Seq(Byte) /\ Closed(l) \in Seq(Byte)
                      /\ Len(Prefixed(l)) = Len(Closed(l)) /\ Len(Closed(l)) \in Nat
                      /\ 2 <= Len(Closed(l))
    OBVIOUS
  <2> DEFINE dot == <<Dot>>
             n == Len(l)
  <2>1. l \in Seq(Byte) /\ n \in 1..63 /\ dot \in Seq(Byte) /\ Len(dot) = 1
    BY LabelIs, DotText
  <2>2. Prefixed(l) \in Seq(Byte) /\ Len(Prefixed(l)) = n + 1
    BY SizedIs
  <2> HIDE DEF dot
  <2>3. l \o dot \in Seq(Byte) /\ Joins(l \o dot, l, dot)
    BY <2>1, ConcatJoins
  <2>4. Len(l \o dot) = n + 1
    BY <2>1, <2>3, Zenon DEF Joins
  <2>5. Closed(l) \in Seq(Byte) /\ Len(Closed(l)) = n + 1
    BY <2>3, <2>4, Zenon DEF Closed, dot
  <2>6. \A m \in 1..63 : m + 1 \in Nat /\ 2 <= m + 1
    OBVIOUS
  <2> QED BY <2>1, <2>2, <2>5, <2>6, Zenon
<1>6. ASSUME NEW k \in 1..K
      PROVE  /\ k - 1 \in 0..K /\ Len(g[k]) = Len(g[k - 1]) + Len(Closed(labels[k]))
             /\ Len(e[k]) = Len(e[k - 1]) + Len(Closed(labels[k]))
  <2>1. k - 1 \in 0..K
    BY <1>2
  <2> DEFINE l == labels[k]
             x == g[k - 1]
             y == e[k - 1]
  <2>2. l \in Label /\ x \in Seq(Byte) /\ y \in Seq(Byte)
    BY <1>2, <1>4, <2>1, Zenon
  <2>3. g[k] = x \o Prefixed(l) /\ e[k] = y \o Closed(l)
    BY <1>3, Zenon
  <2> HIDE DEF l, x, y
  <2>4. Joins(x \o Prefixed(l), x, Prefixed(l)) /\ Joins(y \o Closed(l), y, Closed(l))
    BY <1>5, <2>2, ConcatJoins
  <2>5. Len(g[k]) = Len(x) + Len(Closed(l)) /\ Len(e[k]) = Len(y) + Len(Closed(l))
    BY <1>5, <2>2, <2>3, <2>4, Zenon DEF Joins
  <2> QED BY <2>1, <2>5 DEF l, x, y
<1>7. 0 \in S
  <2>1. 0 \in 0..K /\ Len(g[0]) = 0 /\ Len(e[0]) = 0 /\ 2 * 0 <= 0
    BY <1>2, <1>3, EmptySeq
  <2> QED BY <2>1
<1>8. ASSUME NEW k \in 0..K, k < K, k \in S PROVE k + 1 \in S
  <2>1. k + 1 \in 1..K /\ k + 1 \in 0..K /\ (k + 1) - 1 = k /\ k \in Nat
    BY <1>2, <1>8
  <2> DEFINE x == Len(g[k])
             y == Len(e[k])
             c == Len(Closed(labels[k + 1]))
             u == Len(g[k + 1])
             w == Len(e[k + 1])
  <2>2. u = x + c /\ w = y + c
    BY <1>6, <2>1, Zenon
  <2>3. x \in Nat /\ y \in Nat /\ c \in Nat /\ 2 <= c
    BY <1>2, <1>4, <1>5, <2>1, Zenon
  <2>4. x = y /\ 2 * k <= y
    BY <1>8
  <2> HIDE DEF x, y, c, u, w
  <2>5. u = w /\ 2 * (k + 1) <= w
    BY <2>1, <2>2, <2>3, <2>4
  <2> QED BY <2>1, <2>5 DEF u, w
<1>9. 0..K \subseteq S
  <2> HIDE DEF S
  <2> QED BY <1>2, <1>7, <1>8, SetInduction
<1>10. ASSUME NEW k \in 0..K PROVE Len(e[k]) <= Len(e[K])
  <2>1. Heads(e[k], e[Len(ClosedAll(labels))])
    <3> DEFINE parts == ClosedAll(labels)
    <3>1. parts \in Seq(Seq(Byte)) /\ ConcatRun(e, parts, Byte) /\ k \in 0..Len(parts)
      BY <1>1
    <3> HIDE DEF parts
    <3>2. Heads(e[k], e[Len(parts)])
      BY <3>1, ConcatBegins
    <3> QED BY <3>2 DEF parts
  <2> QED BY <1>1, <2>1, Zenon DEF Heads
<1>11. \A k \in 0..K : Len(g[k]) = Len(e[k]) /\ 2 * k <= Len(e[k])
  BY <1>9
<1> QED BY <1>2, <1>3, <1>4, <1>6, <1>10, <1>11, Zenon DEF Alike, K

\* How far the loop has come after k labels.
Reached(st, k, o, text, length, jumps, jumped, g, e) ==
    IF Len(text) + Len(e[k]) <= DotStrSize
    THEN st = Turn(o + Len(g[k]), text \o e[k],
                   IF jumped THEN length ELSE length + Len(g[k]), jumps, jumped)
    ELSE st.ok = FALSE

LEMMA NameTurns ==
    ASSUME NEW labels \in Seq(Label), NEW b \in Seq(Byte), NEW o \in Nat, Lies(b, o, Sized(labels)),
           NEW text \in Seq(Byte), NEW length \in Nat, NEW jumps, NEW jumped \in BOOLEAN,
           Len(text) <= DotStrSize,
           NEW N \in Nat, NEW f, DotRun(f, b, Turn(o, text, length, jumps, jumped), N),
           NEW g, ConcatRun(g, SizedAll(labels), Byte),
           NEW e, ConcatRun(e, ClosedAll(labels), Byte)
    PROVE  \A k \in 0..Len(labels) :
              k <= N => Reached(f[k], k, o, text, length, jumps, jumped, g, e)
<1> DEFINE K == Len(labels)
           Has(k) == Reached(f[k], k, o, text, length, jumps, jumped, g, e)
           S == {k \in 0..K : k <= N => Has(k)}
           T == Len(text)
<1>1. K \in Nat /\ T \in Nat /\ T <= DotStrSize
  OBVIOUS
<1>2. /\ g[0] = <<>> /\ e[0] = <<>>
      /\ \A k \in 0..K : /\ g[k] \in Seq(Byte) /\ e[k] \in Seq(Byte)
                         /\ Len(e[k]) \in Nat /\ Len(g[k]) = Len(e[k])
      /\ \A k \in 1..K : /\ labels[k] \in Label
                         /\ e[k] = e[k - 1] \o Closed(labels[k])
                         /\ Len(e[k]) = Len(e[k - 1]) + Len(Closed(labels[k]))
  <2>1. Alike(labels, g, e)
    BY AsLong
  <2> QED BY <2>1, Zenon DEF Alike
<1>3. \A k \in 1..K : /\ Lies(b, o + Len(g[k - 1]), Prefixed(labels[k]))
                      /\ Len(g[k]) = Len(g[k - 1]) + Len(Prefixed(labels[k]))
  <2> DEFINE parts == SizedAll(labels)
  <2>1. /\ parts \in Seq(Seq(Byte)) /\ Len(parts) = K /\ ConcatRun(g, parts, Byte)
        /\ \A i \in 1..K : parts[i] = Prefixed(labels[i])
        /\ Lies(b, o, Concat(parts))
    BY SizedType, SizedConcat
  <2> HIDE DEF parts, K
  <2>2. LieInRow(b, o, parts, g)
    BY <2>1, LiesRun
  <2> QED BY <2>1, <2>2, Zenon DEF LieInRow
<1>4. /\ f[0] = Turn(o, text, length, jumps, jumped)
      /\ \A i \in 1..N : f[i] = LabelDecoded(f[i - 1], b)
  BY Zenon DEF DotRun
<1> HIDE DEF K, T
<1>5. 0 \in S
  <2>1. Len(g[0]) = 0 /\ Len(e[0]) = 0 /\ 0 \in 0..K
    BY <1>1, <1>2, EmptySeq
  <2>2. text \o e[0] = text
    BY <1>2, ConcatEmptySeq
  <2>3. o + Len(g[0]) = o /\ length + Len(g[0]) = length /\ T + Len(e[0]) <= DotStrSize
    BY <1>1, <2>1
  <2>4. (IF jumped THEN length ELSE length + Len(g[0])) = length
    BY <2>3, Zenon
  <2>5. Has(0)
    BY <1>4, <2>2, <2>3, <2>4, Zenon DEF Reached, T
  <2> HIDE DEF Has
  <2> QED BY <2>1, <2>5
<1>6. ASSUME NEW k \in 0..K, k < K, k \in S PROVE k + 1 \in S
  <2>1. k + 1 \in 1..K /\ k + 1 \in 0..K /\ (k + 1) - 1 = k /\ k \in Nat
    BY <1>1, <1>6
  <2> SUFFICES ASSUME k + 1 <= N PROVE Has(k + 1)
    <3> HIDE DEF Has
    <3> QED BY <2>1
  <2>2. k <= N /\ k + 1 \in 1..N
    BY <2>1
  <2>3. Has(k)
    BY <1>6, <2>2
  <2> DEFINE l == labels[k + 1]
             x == Len(e[k])
             y == Len(e[k + 1])
             q == o + Len(g[k])
             t == text \o e[k]
             c == Len(Closed(l))
             n == IF jumped THEN length ELSE length + Len(g[k])
             st == Turn(q, t, n, jumps, jumped)
  <2>4. f[k + 1] = LabelDecoded(f[k], b)
    BY <1>4, <2>1, <2>2, Zenon
  <2>5. /\ l \in Label /\ e[k] \in Seq(Byte) /\ e[k + 1] = e[k] \o Closed(l)
        /\ x \in Nat /\ y \in Nat /\ y = x + c /\ Len(g[k]) = x /\ Len(g[k + 1]) = y
    BY <1>2, <2>1, Zenon
  <2>6. Closed(l) \in Seq(Byte) /\ c \in Nat /\ Len(Prefixed(l)) \in Nat
    <3> HIDE DEF l
    <3>1. Closed(l) \in Seq(Byte)
      BY <2>5, ClosedText
    <3>2. Prefixed(l) \in Seq(Byte)
      BY <2>5, SizedIs
    <3> QED BY <3>1, <3>2
  <2>7. Len(t) = T + x /\ t \in Seq(Byte)
    <3>1. Joins(text \o e[k], text, e[k]) /\ text \o e[k] \in Seq(Byte)
      BY <2>5, ConcatJoins
    <3> QED BY <3>1, Zenon DEF Joins, T
  <2>8. /\ Lies(b, q, Prefixed(l)) /\ Len(g[k + 1]) = Len(g[k]) + Len(Prefixed(l))
    BY <1>3, <2>1, Zenon
  <2>9. t \o Closed(l) = text \o e[k + 1]
    <3> DEFINE u == e[k]
               w == Closed(l)
    <3>1. u \in Seq(Byte) /\ w \in Seq(Byte)
      BY <2>5, <2>6
    <3> HIDE DEF u, w
    <3>2. OneText(text, u, w)
      BY <3>1, ThreeTexts
    <3> QED BY <2>5, <3>2, Zenon DEF u, w, OneText
  <2> DEFINE X == Len(g[k])
             Y == Len(g[k + 1])
             P == Len(Prefixed(l))
  <2>10. q \in Nat /\ n \in Nat /\ q + P = o + Y
         /\ (IF jumped THEN n ELSE n + P) = IF jumped THEN length ELSE length + Y
    <3>1. X \in Nat /\ P \in Nat /\ Y = X + P
      BY <2>5, <2>6, <2>8
    <3> HIDE DEF X, Y, P
    <3>2. /\ o + X \in Nat /\ length + X \in Nat
          /\ (o + X) + P = o + Y /\ (length + X) + P = length + Y
      BY <3>1
    <3> QED BY <3>2, Zenon DEF X
  <2> HIDE DEF l, q, t, n, X, Y, P
  <2>11. CASE T + x <= DotStrSize
    <3>1. f[k] = st
      BY <2>3, <2>11, Zenon DEF Reached, q, t, n, T
    <3>2. /\ Len(t) + c > DotStrSize => LabelDecoded(st, b).ok = FALSE
          /\ Len(t) + c <= DotStrSize =>
                LabelDecoded(st, b) = Turn(q + P, t \o Closed(l), IF jumped THEN n ELSE n + P,
                                           jumps, jumped)
      <4>1. Turned(b, q, l, t, n, jumps, jumped)
        BY <2>5, <2>7, <2>8, <2>10, LabelTurn
      <4> QED BY <4>1, Zenon DEF Turned, P
    <3>3. Len(t) + c = T + y
      <4> HIDE DEF x, y, c
      <4> QED BY <1>1, <2>5, <2>6, <2>7
    <3>4. T + y > DotStrSize <=> ~ (T + y <= DotStrSize)
      <4> DEFINE z == T + y
      <4>1. z \in Nat /\ DotStrSize \in Nat
        <5> HIDE DEF y
        <5> QED BY <1>1, <2>5, CodecAssumption
      <4> HIDE DEF z
      <4>2. z > DotStrSize <=> ~ (z <= DotStrSize)
        BY <4>1
      <4> QED BY <4>2 DEF z
    <3>5. T + y <= DotStrSize =>
             f[k + 1] = Turn(o + Y, text \o e[k + 1], IF jumped THEN length ELSE length + Y,
                             jumps, jumped)
      BY <2>4, <2>9, <2>10, <3>1, <3>2, <3>3, Zenon
    <3>6. ~ (T + y <= DotStrSize) => f[k + 1].ok = FALSE
      BY <2>4, <3>1, <3>2, <3>3, <3>4, Zenon
    <3> QED BY <3>5, <3>6, Zenon DEF Reached, T, Y
  <2>12. CASE ~ (T + x <= DotStrSize)
    <3>1. f[k].ok = FALSE
      BY <2>3, <2>12, Zenon DEF Reached, T
    <3>2. f[k + 1] = f[k]
      BY <2>4, <3>1, FailedTurn
    <3>3. ~ (T + y <= DotStrSize)
      <4> HIDE DEF x, y, c
      <4> QED BY <1>1, <2>5, <2>6, <2>12, CodecAssumption
    <3> QED BY <3>1, <3>2, <3>3, Zenon DEF Reached, T
  <2> QED BY <2>11, <2>12
<1>7. 0..K \subseteq S
  <2> HIDE DEF S
  <2> QED BY <1>1, <1>5, <1>6, SetInduction
<1> QED BY <1>7 DEF K

\* Where the loop stays, it ends.
LEMMA StaysThere ==
    ASSUME NEW f, NEW b, NEW st, NEW N \in Nat, DotRun(f, b, st, N), NEW m \in 0..N,
           LabelDecoded(f[m], b) = f[m]
    PROVE  f[N] = f[m]
<1> DEFINE S == {i \in 0..N : m <= i => f[i] = f[m]}
<1>1. 0 \in S
  <2>1. 0 \in 0..N /\ (m <= 0 => m = 0)
    OBVIOUS
  <2> QED BY <2>1
<1>2. ASSUME NEW i \in 0..N, i < N, i \in S PROVE i + 1 \in S
  <2>1. i + 1 \in 1..N /\ i + 1 \in 0..N /\ (i + 1) - 1 = i /\ (m <= i + 1 => m = i + 1 \/ m <= i)
    BY <1>2
  <2>2. f[i + 1] = LabelDecoded(f[i], b)
    BY <2>1, Zenon DEF DotRun
  <2>3. m <= i => f[i] = f[m]
    BY <1>2
  <2>4. m <= i + 1 => f[i + 1] = f[m]
    BY <2>1, <2>2, <2>3, Zenon
  <2> QED BY <2>1, <2>4
<1>3. N \in S
  <2> HIDE DEF S
  <2>1. 0..N \subseteq S
    BY <1>1, <1>2, SetInduction
  <2>2. N \in 0..N
    OBVIOUS
  <2> QED BY <2>1, <2>2
<1>4. m <= N
  OBVIOUS
<1> QED BY <1>3, <1>4

LEMMA NulTurn ==
    ASSUME NEW st, NEW b, At(b, st.p) = 0
    PROVE  LabelDecoded(st, b) = st
BY Zenon DEF LabelDecoded

\* The labels of a name have been read, if there is room for them.
AllRead(f, N, labels, o, text, length, jumps, jumped) ==
    LET K == Len(labels)
        S == Len(Sized(labels))
        all == Len(text) + Len(Ended(labels))
    IN  /\ ~ (all <= DotStrSize) => f[N].ok = FALSE
        /\ all <= DotStrSize =>
              /\ K \in 0..N /\ 2 * K <= Len(Ended(labels))
              /\ f[K] = Turn(o + S, text \o Ended(labels),
                             IF jumped THEN length ELSE length + S, jumps, jumped)

LEMMA NameEnds ==
    ASSUME NEW labels \in Seq(Label), NEW b \in Seq(Byte), NEW o \in Nat, Lies(b, o, Sized(labels)),
           NEW text \in Seq(Byte), NEW length \in Nat, NEW jumps, NEW jumped \in BOOLEAN,
           Len(text) <= DotStrSize,
           NEW N \in Nat, NEW f, DotRun(f, b, Turn(o, text, length, jumps, jumped), N),
           DotStrSize < Len(text) + 2 * N
    PROVE  AllRead(f, N, labels, o, text, length, jumps, jumped)
<1> DEFINE K == Len(labels)
           T == Len(text)
           E == Len(Ended(labels))
           s == Turn(o, text, length, jumps, jumped)
<1>1. /\ SizedAll(labels) \in Seq(Seq(Byte)) /\ Len(SizedAll(labels)) = K
      /\ ClosedAll(labels) \in Seq(Seq(Byte)) /\ Len(ClosedAll(labels)) = K
      /\ K \in Nat /\ T \in Nat
  BY SizedType, ClosedType
<1>2. PICK g : /\ ConcatRun(g, SizedAll(labels), Byte)
               /\ Concat(SizedAll(labels)) = g[Len(SizedAll(labels))]
  BY <1>1, ConcatRuns
<1>3. PICK e : /\ ConcatRun(e, ClosedAll(labels), Byte)
               /\ Concat(ClosedAll(labels)) = e[Len(ClosedAll(labels))]
  BY <1>1, ConcatRuns
<1>4. Alike(labels, g, e)
  BY <1>2, <1>3, AsLong
<1>5. g[K] = Sized(labels) /\ e[K] = Ended(labels)
  BY <1>1, <1>2, <1>3, SizedConcat, EndedIs, Zenon
<1>6. \A k \in 0..K : k <= N => Reached(f[k], k, o, text, length, jumps, jumped, g, e)
  BY <1>2, <1>3, NameTurns
<1>7. \A k \in 0..K : Len(e[k]) \in Nat /\ 2 * k <= Len(e[k]) /\ Len(e[k]) <= Len(e[K])
  BY <1>4, Zenon DEF Alike
<1>8. K \in 0..K /\ E \in Nat /\ 2 * K <= E
  <2>1. K \in 0..K
    BY <1>1
  <2> QED BY <1>5, <1>7, <2>1, Zenon
<1> HIDE DEF K, T, E, s
<1>9. CASE ~ (T + E <= DotStrSize)
  <2>1. PICK k \in 0..K : k <= N /\ ~ (T + Len(e[k]) <= DotStrSize)
    <3>1. CASE K <= N
      <4>1. ~ (T + Len(e[K]) <= DotStrSize)
        BY <1>5, <1>9, Zenon DEF E
      <4> QED BY <1>8, <3>1, <4>1
    <3>2. CASE ~ (K <= N)
      <4>1. N \in 0..K /\ N <= N
        BY <1>1, <3>2
      <4> DEFINE x == Len(e[N])
      <4>2. x \in Nat /\ 2 * N <= x
        BY <1>7, <4>1
      <4> HIDE DEF x
      <4>3. ~ (T + x <= DotStrSize)
        BY <1>1, <4>2, CodecAssumption DEF T
      <4> QED BY <4>1, <4>3 DEF x
    <3> QED BY <3>1, <3>2
  <2>2. Reached(f[k], k, o, text, length, jumps, jumped, g, e)
    BY <1>6, <2>1
  <2>3. f[k].ok = FALSE
    BY <2>1, <2>2, Zenon DEF Reached, T
  <2>4. k \in 0..N
    BY <1>1, <2>1
  <2>5. LabelDecoded(f[k], b) = f[k]
    BY <2>3, FailedTurn
  <2>6. DotRun(f, b, s, N)
    BY DEF s
  <2>7. f[N] = f[k]
    BY <2>4, <2>5, <2>6, StaysThere
  <2>8. f[N].ok = FALSE
    BY <2>3, <2>7
  <2> QED BY <1>9, <2>8, Zenon DEF AllRead, T, E
<1>10. CASE T + E <= DotStrSize
  <2>1. K \in 0..N
    BY <1>1, <1>8, <1>10, CodecAssumption DEF T
  <2>2. K <= N
    BY <2>1
  <2>3. Reached(f[K], K, o, text, length, jumps, jumped, g, e)
    BY <1>6, <1>8, <2>2
  <2>4. f[K] = Turn(o + Len(Sized(labels)), text \o Ended(labels),
                    IF jumped THEN length ELSE length + Len(Sized(labels)), jumps, jumped)
    BY <1>5, <1>10, <2>3, Zenon DEF Reached, T, E
  <2> QED BY <1>8, <1>10, <2>1, <2>4, Zenon DEF AllRead, K, T, E
<1> QED BY <1>9, <1>10

\* What is decoded of a name.
Decodes(name, text, length) ==
    /\ name.ok = (Len(text) <= DotStrSize)
    /\ Len(text) <= DotStrSize => name.text = text /\ name.length = length

LEMMA PlainName ==
    ASSUME NEW labels \in Seq(Label), NEW b \in Seq(Byte), NEW o \in Nat,
           Lies(b, o, Sized(labels) \o Root), NEW jumps \in Nat
    PROVE  Decodes(DecodeDotStr(b, o + 1, jumps), Ended(labels), Len(Sized(labels)) + 1)
<1> DEFINE N == DotStrSize + jumps
           D == DecodeDotStr(b, o + 1, jumps)
           K == Len(labels)
           S == Len(Sized(labels))
           E == Len(Ended(labels))
           none == <<>>
           s == Turn(o, none, 0, jumps, FALSE)
<1>1. /\ Sized(labels) \in Seq(Byte) /\ Ended(labels) \in Seq(Byte)
      /\ S \in Nat /\ E \in Nat /\ K \in Nat
  <2>1. /\ SizedAll(labels) \in Seq(Seq(Byte)) /\ ClosedAll(labels) \in Seq(Seq(Byte))
    BY SizedType, ClosedType
  <2>2. Concat(SizedAll(labels)) \in Seq(Byte) /\ Concat(ClosedAll(labels)) \in Seq(Byte)
    BY <2>1, EmptySeq, ConcatAppend
  <2>3. Sized(labels) \in Seq(Byte) /\ Ended(labels) \in Seq(Byte)
    BY <2>2, SizedConcat, EndedIs
  <2> QED BY <2>3
<1>2. Lies(b, o, Sized(labels)) /\ At(b, o + S + 1) = 0
  <2>1. Root \in Seq(Byte) /\ Len(Root) = 1 /\ Root[1] = 0
    BY DEF Root, Byte
  <2>2. Lies(b, o, Sized(labels)) /\ Lies(b, o + S, Root)
    BY <1>1, <2>1, LiesParts
  <2>3. 1 \in 1..Len(Root)
    BY <2>1
  <2> QED BY <2>1, <2>2, <2>3, Zenon DEF Lies
<1>3. none \in Seq(Byte) /\ Len(none) = 0 /\ none \o Ended(labels) = Ended(labels)
  BY <1>1, EmptySeq, ConcatEmptySeq
<1>4. N \in Nat /\ 0 <= DotStrSize /\ DotStrSize < 0 + 2 * N /\ 0 \in Nat
  BY CodecAssumption
<1>5. PICK f : /\ DotRun(f, b, s, N)
               /\ D = [ok |-> f[N].ok, text |-> f[N].text,
                       length |-> IF f[N].jumped THEN f[N].length ELSE f[N].length + 1]
  BY DotRuns, Zenon DEF Turn
<1> HIDE DEF N, D, S, E, K, none
<1>6. AllRead(f, N, labels, o, none, 0, jumps, FALSE)
  BY <1>2, <1>3, <1>4, <1>5, NameEnds
<1>7. 0 + E = E /\ Len(none) + E = E
  BY <1>1, <1>3
<1>8. CASE ~ (E <= DotStrSize)
  <2>1. f[N].ok = FALSE
    BY <1>6, <1>7, <1>8, Zenon DEF AllRead, E
  <2>2. D.ok = FALSE
    <3> DEFINE v == f[N]
    <3> HIDE DEF v
    <3>1. D.ok = v.ok
      BY <1>5 DEF v
    <3> QED BY <2>1, <3>1 DEF v
  <2>3. (E <= DotStrSize) = FALSE
    BY <1>8
  <2> QED BY <1>8, <2>2, <2>3, Zenon DEF Decodes, D, E
<1>9. CASE E <= DotStrSize
  <2>1. /\ K \in 0..N
        /\ f[K] = Turn(o + S, none \o Ended(labels), IF FALSE THEN 0 ELSE 0 + S, jumps, FALSE)
    BY <1>6, <1>7, <1>9, Zenon DEF AllRead, E, K, S
  <2>2. f[K] = Turn(o + S, Ended(labels), S, jumps, FALSE)
    <3>1. 0 + S = S
      BY <1>1
    <3> QED BY <1>3, <2>1, <3>1, Zenon
  <2>3. /\ f[K].ok = TRUE /\ f[K].p = o + S + 1 /\ f[K].text = Ended(labels)
        /\ f[K].length = S /\ f[K].jumped = FALSE
    BY <2>2 DEF Turn
  <2>4. LabelDecoded(f[K], b) = f[K]
    BY <1>2, <2>3, NulTurn
  <2>5. f[N] = f[K]
    BY <1>4, <1>5, <2>1, <2>4, StaysThere
  <2>6. D.ok = TRUE /\ D.text = Ended(labels) /\ D.length = S + 1
    <3> DEFINE v == f[N]
    <3>1. v.ok = TRUE /\ v.text = Ended(labels) /\ v.length = S /\ v.jumped = FALSE
      BY <2>3, <2>5
    <3> HIDE DEF v
    <3>2. D = [ok |-> v.ok, text |-> v.text,
               length |-> IF v.jumped THEN v.length ELSE v.length + 1]
      BY <1>5 DEF v
    <3> QED BY <3>1, <3>2
  <2>7. (E <= DotStrSize) = TRUE
    BY <1>9
  <2> QED BY <1>9, <2>6, <2>7, Zenon DEF Decodes, D, E, S
<1> QED BY <1>8, <1>9

LEMMA NameTypes ==
    ASSUME NEW labels \in Seq(Label)
    PROVE  /\ Sized(labels) \in Seq(Byte) /\ Ended(labels) \in Seq(Byte)
           /\ Len(Sized(labels)) \in Nat /\ Len(Ended(labels)) \in Nat /\ Len(labels) \in Nat
<1>1. /\ SizedAll(labels) \in Seq(Seq(Byte)) /\ ClosedAll(labels) \in Seq(Seq(Byte))
  BY SizedType, ClosedType
<1>2. Concat(SizedAll(labels)) \in Seq(Byte) /\ Concat(ClosedAll(labels)) \in Seq(Byte)
  BY <1>1, EmptySeq, ConcatAppend
<1>3. Sized(labels) \in Seq(Byte) /\ Ended(labels) \in Seq(Byte)
  BY <1>2, SizedConcat, EndedIs
<1> QED BY <1>3

\* A pointer to the name in the question.
Points(b, o) == At(b, o + 1) = 192 /\ At(b, o + 2) = 12

PointerTurned(b, o, text, length, jumps) ==
    LabelDecoded(Turn(o, text, length, jumps, FALSE), b)
       = Turn(12, text, length + 2, jumps - 1, TRUE)

LEMMA PointerTurn ==
    ASSUME NEW b, NEW o \in Nat, Points(b, o),
           NEW text, NEW length, NEW jumps \in Nat \ {0}
    PROVE  PointerTurned(b, o, text, length, jumps)
<1> DEFINE st == Turn(o, text, length, jumps, FALSE)
<1>1. /\ st.ok = TRUE /\ st.p = o + 1 /\ st.text = text /\ st.length = length
      /\ st.jumps = jumps /\ st.jumped = FALSE
  BY DEF Turn
<1> HIDE DEF st
<1>0. At(b, o + 1) = 192 /\ At(b, o + 2) = 12
  BY DEF Points
<1>2. JumpPos(b, o + 1) = 13
  <2>1. (o + 1) + 1 = o + 2
    OBVIOUS
  <2>2. Word(b, o + 1) = 49164
    BY <1>0, <2>1 DEF Word
  <2> QED BY <2>2 DEF JumpPos
<1>3. 192 # 0 /\ ~ (192 < 64) /\ jumps # 0 /\ 12 + 1 = 13
  OBVIOUS
<1>4. LabelDecoded(st, b) = [ok |-> TRUE, p |-> 13, text |-> text, length |-> length + 2,
                             jumps |-> jumps - 1, jumped |-> TRUE]
  <2> DEFINE c == 192
  <2>1. At(b, o + 1) = c /\ c # 0 /\ ~ (c < 64)
    BY <1>0, <1>3
  <2> HIDE DEF c
  <2> QED BY <1>1, <1>2, <1>3, <2>1, Zenon DEF LabelDecoded, Counted
<1> QED BY <1>3, <1>4, Zenon DEF Turn, st, PointerTurned

LEMMA PointedName ==
    ASSUME NEW l1 \in Seq(Label), NEW l2 \in Seq(Label), NEW b \in Seq(Byte), NEW o \in Nat,
           Lies(b, o, Sized(l1) \o Pointer), Lies(b, 12, Sized(l2) \o Root),
           NEW jumps \in Nat \ {0}
    PROVE  Decodes(DecodeDotStr(b, o + 1, jumps), Ended(l1) \o Ended(l2), Len(Sized(l1)) + 2)
<1> DEFINE N == DotStrSize + jumps
           D == DecodeDotStr(b, o + 1, jumps)
           K1 == Len(l1)
           S1 == Len(Sized(l1))
           T1 == Ended(l1)
           E1 == Len(T1)
           S2 == Len(Sized(l2))
           K2 == Len(l2)
           T2 == Ended(l2)
           E2 == Len(T2)
           T == T1 \o T2
           E == Len(T)
           none == <<>>
           s == Turn(o, none, 0, jumps, FALSE)
<1>1. /\ Sized(l1) \in Seq(Byte) /\ T1 \in Seq(Byte) /\ S1 \in Nat /\ E1 \in Nat /\ K1 \in Nat
      /\ Sized(l2) \in Seq(Byte) /\ T2 \in Seq(Byte) /\ S2 \in Nat /\ E2 \in Nat /\ K2 \in Nat
  BY NameTypes
<1>2. /\ Lies(b, o, Sized(l1)) /\ Points(b, o + S1)
  <2>1. Pointer \in Seq(Byte) /\ Len(Pointer) = 2 /\ Pointer[1] = 192 /\ Pointer[2] = 12
    BY DEF Pointer, Header, Byte
  <2>2. Lies(b, o, Sized(l1)) /\ Lies(b, o + S1, Pointer)
    BY <1>1, <2>1, LiesParts
  <2>3. 1 \in 1..Len(Pointer) /\ 2 \in 1..Len(Pointer)
    BY <2>1
  <2>4. At(b, (o + S1) + 1) = Pointer[1] /\ At(b, (o + S1) + 2) = Pointer[2]
    BY <2>2, <2>3, Zenon DEF Lies
  <2> QED BY <2>1, <2>2, <2>4 DEF Points
<1>3. /\ Lies(b, 12, Sized(l2)) /\ At(b, (12 + S2) + 1) = 0
  <2>1. Root \in Seq(Byte) /\ Len(Root) = 1 /\ Root[1] = 0
    BY DEF Root, Byte
  <2> DEFINE q == 12
  <2>2. q \in Nat /\ Lies(b, q, Sized(l2) \o Root)
    OBVIOUS
  <2> HIDE DEF q
  <2>3. Lies(b, q, Sized(l2)) /\ Lies(b, q + S2, Root)
    BY <1>1, <2>1, <2>2, LiesParts
  <2>4. 1 \in 1..Len(Root)
    BY <2>1
  <2>5. Lies(b, q, Sized(l2)) /\ At(b, (q + S2) + 1) = 0
    BY <2>1, <2>3, <2>4, Zenon DEF Lies
  <2> QED BY <2>5 DEF q
<1>4. none \in Seq(Byte) /\ Len(none) = 0 /\ none \o T1 = T1
  BY <1>1, EmptySeq, ConcatEmptySeq
<1>5. /\ N \in Nat /\ 0 <= DotStrSize /\ DotStrSize < 0 + 2 * N /\ 0 \in Nat
      /\ N = DotStrSize + jumps /\ DotStrSize \in Nat \ {0}
  BY CodecAssumption
<1>6. PICK f : /\ DotRun(f, b, s, N)
               /\ D = [ok |-> f[N].ok, text |-> f[N].text,
                       length |-> IF f[N].jumped THEN f[N].length ELSE f[N].length + 1]
  BY DotRuns, Zenon DEF Turn
<1>7. T \in Seq(Byte) /\ E = E1 + E2 /\ E \in Nat
  <2> HIDE DEF T1, T2
  <2>1. T \in Seq(Byte) /\ Joins(T, T1, T2)
    BY <1>1, ConcatJoins
  <2>2. E = E1 + E2
    BY <2>1, Zenon DEF Joins
  <2> QED BY <1>1, <2>1, <2>2
<1> HIDE DEF N, D, S1, E1, K1, S2, E2, K2, T1, T2, none, T, E, s
<1>8. AllRead(f, N, l1, o, none, 0, jumps, FALSE)
  BY <1>2, <1>4, <1>5, <1>6, NameEnds DEF s
<1>9. 0 + E1 = E1 /\ Len(none) + E1 = E1
  BY <1>1, <1>4
<1>10. f[N].ok = FALSE => D.ok = FALSE
  <2> DEFINE v == f[N]
  <2> HIDE DEF v
  <2>1. D.ok = v.ok
    BY <1>6 DEF v
  <2> QED BY <2>1 DEF v
<1>11. CASE ~ (E1 <= DotStrSize)
  <2>1. f[N].ok = FALSE
    BY <1>8, <1>9, <1>11, Zenon DEF AllRead, E1, T1
  <2>2. ~ (E <= DotStrSize) /\ (E <= DotStrSize) = FALSE
    BY <1>1, <1>5, <1>7, <1>11
  <2> QED BY <1>10, <2>1, <2>2, Zenon DEF Decodes, D, E, T, T1, T2
<1>12. CASE E1 <= DotStrSize
  <2>1. /\ K1 \in 0..N /\ 2 * K1 <= E1
        /\ f[K1] = Turn(o + S1, none \o T1, IF FALSE THEN 0 ELSE 0 + S1, jumps, FALSE)
    BY <1>8, <1>9, <1>12, Zenon DEF AllRead, E1, K1, S1, T1
  <2>2. f[K1] = Turn(o + S1, T1, S1, jumps, FALSE)
    <3>1. 0 + S1 = S1
      BY <1>1
    <3> QED BY <1>4, <2>1, <3>1, Zenon
  <2> DEFINE M == N - (K1 + 1)
             A == K1 + 1
             g == [i \in 0..M |-> f[A + i]]
             t == Turn(12, T1, S1 + 2, jumps - 1, TRUE)
  <2>3. /\ M \in Nat /\ A \in 1..N /\ A - 1 = K1 /\ A + M = N /\ A \in Nat
        /\ DotStrSize < E1 + 2 * M
    BY <1>1, <1>5, <1>12, <2>1
  <2>4. f[A] = t
    <3>1. f[A] = LabelDecoded(f[K1], b)
      BY <1>6, <2>3, Zenon DEF DotRun
    <3> DEFINE q == o + S1
    <3>2. q \in Nat
      BY <1>1
    <3>3. Points(b, q)
      BY <1>2
    <3> HIDE DEF q
    <3>4. PointerTurned(b, q, T1, S1, jumps)
      BY <3>2, <3>3, PointerTurn
    <3> QED BY <2>2, <3>1, <3>4, Zenon DEF q, t, PointerTurned
  <2> HIDE DEF A, M, t
  <2>5. DotRun(g, b, t, M)
    <3>1. g[0] = f[A]
      <4>1. 0 \in 0..M /\ A + 0 = A
        BY <2>3
      <4> QED BY <4>1
    <3>2. ASSUME NEW i \in 1..M PROVE g[i] = LabelDecoded(g[i - 1], b)
      <4>1. i \in 0..M /\ i - 1 \in 0..M /\ A + i \in 1..N /\ (A + i) - 1 = A + (i - 1)
        BY <2>3
      <4>2. g[i] = f[A + i] /\ g[i - 1] = f[A + (i - 1)]
        BY <4>1
      <4>3. f[A + i] = LabelDecoded(f[(A + i) - 1], b)
        BY <1>6, <4>1, Zenon DEF DotRun
      <4> QED BY <4>1, <4>2, <4>3, Zenon
    <3> HIDE DEF g
    <3> QED BY <2>4, <3>1, <3>2, Zenon DEF DotRun
  <2>6. g[M] = f[N]
    <3>1. M \in 0..M
      BY <2>3
    <3> QED BY <2>3, <3>1
  <2> HIDE DEF g
  <2> DEFINE p == 12
             n == S1 + 2
             j == jumps - 1
  <2>7. /\ p \in Nat /\ n \in Nat /\ j \in Nat /\ Lies(b, p, Sized(l2))
        /\ At(b, (p + S2) + 1) = 0 /\ TRUE \in BOOLEAN
    BY <1>1, <1>3
  <2>8. DotRun(g, b, Turn(p, T1, n, j, TRUE), M)
    BY <2>5 DEF t
  <2>9. D = [ok |-> g[M].ok, text |-> g[M].text,
             length |-> IF g[M].jumped THEN g[M].length ELSE g[M].length + 1]
    BY <1>6, <2>6, Zenon
  <2> HIDE DEF p, n, j
  <2>10. AllRead(g, M, l2, p, T1, n, j, TRUE)
    <3>1. Len(T1) <= DotStrSize /\ DotStrSize < Len(T1) + 2 * M
      BY <1>12, <2>3 DEF E1
    <3> QED BY <1>1, <2>3, <2>7, <2>8, <3>1, NameEnds
  <2>11. CASE ~ (E <= DotStrSize)
    <3>1. g[M].ok = FALSE
      BY <1>7, <2>10, <2>11, Zenon DEF AllRead, E1, E2, T2
    <3>2. (E <= DotStrSize) = FALSE
      BY <2>11
    <3>3. D.ok = FALSE
      BY <1>10, <2>6, <3>1, Zenon
    <3> QED BY <2>11, <3>2, <3>3, Zenon DEF Decodes, D, E, T, T1, T2
  <2>12. CASE E <= DotStrSize
    <3>1. /\ K2 \in 0..M
          /\ g[K2] = Turn(p + S2, T, IF TRUE THEN n ELSE n + S2, j, TRUE)
      BY <1>7, <2>10, <2>12, Zenon DEF AllRead, E1, E2, T2, K2, S2, T
    <3>2. /\ g[K2].ok = TRUE /\ g[K2].p = (p + S2) + 1 /\ g[K2].text = T
          /\ g[K2].length = n /\ g[K2].jumped = TRUE
      BY <3>1 DEF Turn
    <3>3. LabelDecoded(g[K2], b) = g[K2]
      BY <2>7, <3>2, NulTurn
    <3>4. g[M] = g[K2]
      BY <2>3, <2>8, <3>1, <3>3, StaysThere
    <3>5. D.ok = TRUE /\ D.text = T /\ D.length = n
      <4> DEFINE v == g[M]
      <4>1. v.ok = TRUE /\ v.text = T /\ v.length = n /\ v.jumped = TRUE
        BY <3>2, <3>4
      <4> HIDE DEF v
      <4>2. D = [ok |-> v.ok, text |-> v.text,
                 length |-> IF v.jumped THEN v.length ELSE v.length + 1]
        BY <2>9 DEF v
      <4> QED BY <4>1, <4>2
    <3>6. (E <= DotStrSize) = TRUE
      BY <2>12
    <3> QED BY <2>12, <3>5, <3>6, Zenon DEF Decodes, D, E, T, T1, T2, n, S1
  <2> QED BY <2>11, <2>12
<1> QED BY <1>11, <1>12

(***************************************************************************)
(* The text of a name.                                                     *)
(***************************************************************************)
LEMMA NoLabels == Sized(<<>>) = <<>> /\ Ended(<<>>) = <<>>
<1> DEFINE none == <<>>
<1>1. SizedAll(none) = none /\ ClosedAll(none) = none
  <2>1. none \in Seq(Label) /\ Len(none) = 0
    BY EmptySeq
  <2> HIDE DEF none
  <2>2. /\ SizedAll(none) \in Seq(Seq(Byte)) /\ Len(SizedAll(none)) = 0
        /\ ClosedAll(none) \in Seq(Seq(Byte)) /\ Len(ClosedAll(none)) = 0
    BY <2>1, SizedType, ClosedType
  <2>3. SizedAll(none) = <<>> /\ ClosedAll(none) = <<>>
    BY <2>2, EmptySeq
  <2> QED BY <2>3 DEF none
<1>2. Concat(none) = none
  BY ConcatEmpty
<1> HIDE DEF none
<1>3. Sized(none) = none /\ Ended(none) = none
  BY <1>1, <1>2, SizedConcat, EndedIs, Zenon
<1> QED BY <1>3 DEF none

LEMMA EndedText ==
    ASSUME NEW labels \in Seq(Label)
    PROVE  Ended(labels) \in Seq(Char)
<1>1. Len(labels) \in Nat /\ DOMAIN labels = 1..Len(labels)
      /\ \A i \in 1..Len(labels) : labels[i] \in Label
  OBVIOUS
<1>2. \A l \in Label : Closed(l) \in Seq(Char)
  <2> SUFFICES ASSUME NEW l \in Label PROVE Closed(l) \in Seq(Char)
    OBVIOUS
  <2>1. l \in Seq(Char) /\ <<Dot>> \in Seq(Char)
    BY LabelIs DEF Dot, Char
  <2> QED BY <2>1, ConcatProperties DEF Closed
<1>3. ClosedAll(labels) \in [1..Len(labels) -> Seq(Char)]
  BY <1>1, <1>2 DEF ClosedAll
<1>4. ClosedAll(labels) \in Seq(Seq(Char))
  BY <1>1, <1>3, SeqDef
<1>5. Concat(ClosedAll(labels)) \in Seq(Char)
  BY <1>4, EmptySeq, ConcatAppend
<1> QED BY <1>5, EndedIs

LEMMA EndedLong ==
    ASSUME NEW labels \in Seq(Label), labels # <<>>
    PROVE  2 <= Len(Ended(labels))
<1> DEFINE K == Len(labels)
           E == Len(Ended(labels))
<1>1. /\ SizedAll(labels) \in Seq(Seq(Byte)) /\ Len(SizedAll(labels)) = K
      /\ ClosedAll(labels) \in Seq(Seq(Byte)) /\ Len(ClosedAll(labels)) = K
      /\ K \in Nat /\ E \in Nat
  BY SizedType, ClosedType, NameTypes
<1>2. PICK g : ConcatRun(g, SizedAll(labels), Byte)
  BY <1>1, ConcatRuns
<1>3. PICK e : /\ ConcatRun(e, ClosedAll(labels), Byte)
               /\ Concat(ClosedAll(labels)) = e[Len(ClosedAll(labels))]
  BY <1>1, ConcatRuns
<1>4. Alike(labels, g, e)
  BY <1>2, <1>3, AsLong
<1>5. e[K] = Ended(labels)
  BY <1>1, <1>3, EndedIs, Zenon
<1>6. 1 <= K
  BY EmptySeq
<1> HIDE DEF K, E
<1>7. K \in 0..K
  BY <1>1
<1>8. 2 * K <= E
  BY <1>4, <1>5, <1>7, Zenon DEF Alike, K, E
<1>9. 2 <= E
  BY <1>1, <1>6, <1>8
<1> QED BY <1>9 DEF E

LEMMA EndedJoined ==
    ASSUME NEW p \in Seq(Label), NEW q \in Seq(Label)
    PROVE  p \o q \in Seq(Label) /\ Ended(p \o q) = Ended(p) \o Ended(q)
<1> DEFINE r == p \o q
           cp == ClosedAll(p)
           cq == ClosedAll(q)
           cr == ClosedAll(r)
<1>1. r \in Seq(Label) /\ Joins(r, p, q)
  BY ConcatJoins
<1> HIDE DEF r
<1>2. /\ cp \in Seq(Seq(Byte)) /\ Len(cp) = Len(p) /\ \A i \in 1..Len(p) : cp[i] = Closed(p[i])
      /\ cq \in Seq(Seq(Byte)) /\ Len(cq) = Len(q) /\ \A i \in 1..Len(q) : cq[i] = Closed(q[i])
      /\ cr \in Seq(Seq(Byte)) /\ Len(cr) = Len(r) /\ \A i \in 1..Len(r) : cr[i] = Closed(r[i])
  BY <1>1, ClosedType
<1> HIDE DEF cp, cq, cr
<1>3. cp \o cq \in Seq(Seq(Byte)) /\ Joins(cp \o cq, cp, cq)
  BY <1>2, ConcatJoins
<1> DEFINE u == cp \o cq
           P == Len(p)
           Q == Len(q)
<1>4. /\ P \in Nat /\ Q \in Nat /\ Len(r) = P + Q
      /\ \A i \in 1..P : r[i] = p[i]
      /\ \A i \in 1..Q : r[i + P] = q[i]
  BY <1>1, Zenon DEF Joins
<1>5. /\ u \in Seq(Seq(Byte)) /\ Len(u) = P + Q
      /\ \A i \in 1..P : u[i] = cp[i]
      /\ \A i \in 1..Q : u[i + P] = cq[i]
  BY <1>2, <1>3, Zenon DEF Joins
<1> HIDE DEF u, P, Q
<1>6. ASSUME NEW i \in 1..P + Q PROVE cr[i] = u[i]
  <2>1. CASE i \in 1..P
    <3>1. cr[i] = Closed(p[i]) /\ u[i] = Closed(p[i])
      BY <1>2, <1>4, <1>5, <2>1, Zenon DEF P
    <3> QED BY <3>1
  <2>2. CASE i \notin 1..P
    <3> DEFINE j == i - P
    <3>1. j \in 1..Q /\ j + P = i
      BY <1>4, <2>2
    <3> HIDE DEF j
    <3>2. r[i] = q[j] /\ u[i] = cq[j] /\ cq[j] = Closed(q[j])
      BY <1>2, <1>4, <1>5, <3>1, Zenon DEF Q
    <3>3. cr[i] = Closed(r[i])
      BY <1>2, <1>4, Zenon
    <3> QED BY <3>2, <3>3
  <2> QED BY <2>1, <2>2
<1>7. cr = u
  <2>1. Len(cr) = P + Q
    BY <1>2, <1>4
  <2> QED BY <1>2, <1>5, <1>6, <2>1, SeqEqual
<1>8. Concat(u) = Concat(cp) \o Concat(cq)
  BY <1>2, ConcatConcat DEF u
<1>9. Ended(r) = Ended(p) \o Ended(q)
  BY <1>7, <1>8, EndedIs, Zenon DEF cp, cq, cr
<1> QED BY <1>1, <1>9 DEF r

\* The text without its last dot.
Spells(labels) ==
    /\ Fits(Dotted(labels)) = (Len(Ended(labels)) <= DotStrSize)
    /\ Until(Dotted(labels), NUL) = Dotted(labels)
    /\ \A name, before : name.text = Ended(labels) => Name(name, before) = Dotted(labels)

LEMMA NameSpelt ==
    ASSUME NEW labels \in Seq(Label), labels # <<>>
    PROVE  Spells(labels)
<1> DEFINE s == Ended(labels)
           E == Len(s)
           t == SubSeq(s, 1, E - 1)
<1>1. s \in Seq(Char) /\ E \in Nat /\ 2 <= E
  BY EndedText, EndedLong, NameTypes
<1> HIDE DEF s
<1>2. t \in Str /\ Len(t) = E - 1
  <2>1. \A i \in 1..E - 1 : s[i] \in Char
    BY <1>1
  <2>2. t \in Seq(Char) /\ Len(t) = E - 1
    BY <1>1, <2>1, SubSeqProperties
  <2> QED BY <2>2, Zenon DEF Str
<1>3. Dotted(labels) = t
  BY Zenon DEF Dotted, s
<1>4. Until(t, NUL) = t
  BY <1>2, NoNul
<1> HIDE DEF E, t
<1>5. Fits(t) = (E <= DotStrSize)
  <2>1. (E - 1 < DotStrSize) = (E <= DotStrSize)
    BY <1>1, CodecAssumption
  <2> QED BY <1>2, <2>1, Zenon DEF Fits
<1>6. ASSUME NEW name, NEW before, name.text = s PROVE Name(name, before) = t
  <2>1. s # <<>>
    BY <1>1 DEF E
  <2> QED BY <1>6, <2>1, Zenon DEF Name, t, E
<1> QED BY <1>3, <1>4, <1>5, <1>6, Zenon DEF Spells, E, s

(***************************************************************************)
(* A record that stands in a message.                                      *)
(***************************************************************************)
LEMMA OwnerType == \A owner \in {Root, Pointer} : owner \in Seq(Byte) /\ Len(owner) \in Nat
<1>1. 0 \in Byte /\ 192 \in Byte /\ Header \in Byte
  BY DEF Header, Byte
<1>2. Root \in Seq(Byte) /\ Len(Root) = 1
  BY <1>1 DEF Root
<1>3. Pointer \in Seq(Byte) /\ Len(Pointer) = 2
  BY <1>1 DEF Pointer
<1> QED BY <1>2, <1>3

\* The parts of a record, where the parser looks for them.
Fields(b, o, owner, r) ==
    LET p == o + Len(owner)
    IN  /\ Lies(b, o, owner) /\ Word(b, p + 1) = Kind(r)
        /\ Word(b, p + 9) = Len(Data(r)) /\ Lies(b, p + 10, Data(r))

LEMMA RecordKinds ==
    ASSUME NEW r \in Record
    PROVE  \/ r.type = "A" /\ r.ip \in [1..4 -> Byte]
           \/ /\ r.type = "CNAME" /\ r.labels \in Seq(Label) /\ r.labels # <<>>
              /\ r.pointed \in BOOLEAN
           \/ r.type = "other"
BY DEF Record

LEMMA DataType ==
    ASSUME NEW r \in Record
    PROVE  Data(r) \in Seq(Byte) /\ Len(Data(r)) \in Nat /\ Kind(r) \in {1, 5, 16}
<1>1. CASE r.type = "A" /\ r.ip \in [1..4 -> Byte]
  <2>1. Data(r) = r.ip /\ Kind(r) = 1
    BY <1>1 DEF Data, Kind
  <2>2. r.ip \in Seq(Byte)
    BY <1>1, SeqDef
  <2> QED BY <2>1, <2>2
<1>2. CASE r.type = "CNAME" /\ r.labels \in Seq(Label) /\ r.pointed \in BOOLEAN
  <2> DEFINE end == IF r.pointed THEN Pointer ELSE Root
  <2>1. end \in Seq(Byte) /\ Sized(r.labels) \in Seq(Byte)
    <3>1. Sized(r.labels) \in Seq(Byte)
      BY <1>2, NameTypes
    <3>2. Pointer \in Seq(Byte) /\ Root \in Seq(Byte)
      BY DEF Pointer, Root, Header, Byte
    <3> QED BY <3>1, <3>2
  <2>2. Data(r) = Sized(r.labels) \o end /\ Kind(r) = 5
    BY <1>2 DEF Data, Kind
  <2> HIDE DEF end
  <2>3. Data(r) \in Seq(Byte)
    BY <2>1, <2>2, ConcatProperties
  <2> QED BY <2>2, <2>3
<1>3. CASE r.type = "other"
  <2>1. Data(r) = <<1, 97>> /\ Kind(r) = 16
    BY <1>3 DEF Data, Kind
  <2> QED BY <2>1 DEF Byte
<1> QED BY <1>1, <1>2, <1>3, RecordKinds

\* What is decoded of its owner and of its alias, when the question has been read.
OwnerRead(name, owner) == name.ok = TRUE /\ name.length = Len(owner)

LEMMA OwnerDecoded ==
    ASSUME NEW labels \in Seq(Label), NEW b \in Seq(Byte), Lies(b, 12, Encoded(labels)),
           NEW o \in Nat, NEW owner \in {Root, Pointer}, Lies(b, o, owner),
           NEW jumps \in Nat \ {0}, Len(Ended(labels)) <= DotStrSize
    PROVE  OwnerRead(DecodeDotStr(b, o + 1, jumps), owner)
<1> DEFINE none == <<>>
           name == DecodeDotStr(b, o + 1, jumps)
           E == Ended(labels)
<1>1. none \in Seq(Label) /\ Sized(none) = none /\ Ended(none) = none /\ Len(none) = 0
  BY NoLabels, EmptySeq
<1>2. Root \in Seq(Byte) /\ Len(Root) = 1 /\ Pointer \in Seq(Byte) /\ Len(Pointer) = 2
  BY DEF Root, Pointer, Header, Byte
<1>3. none \o Root = Root /\ none \o Pointer = Pointer /\ none \o E = E
  BY <1>2, NameTypes, ConcatEmptySeq
<1> HIDE DEF none, name, E
<1>4. CASE owner = Root
  <2>1. Lies(b, o, Sized(none) \o Root)
    BY <1>1, <1>3, <1>4
  <2>2. Decodes(DecodeDotStr(b, o + 1, jumps), Ended(none), Len(Sized(none)) + 1)
    BY <1>1, <2>1, PlainName
  <2>3. Decodes(name, none, 0 + 1)
    BY <1>1, <2>2, Zenon DEF name
  <2>4. 0 + 1 = 1 /\ Len(none) <= DotStrSize /\ (Len(none) <= DotStrSize) = TRUE
    BY <1>1, CodecAssumption
  <2>5. name.ok = TRUE /\ name.length = 1
    BY <2>3, <2>4, Zenon DEF Decodes
  <2> QED BY <1>2, <1>4, <2>5 DEF name, OwnerRead
<1>5. CASE owner = Pointer
  <2>1. Lies(b, o, Sized(none) \o Pointer) /\ Lies(b, 12, Sized(labels) \o Root)
    <3>1. Lies(b, o, Sized(none) \o Pointer)
      BY <1>1, <1>3, <1>5
    <3>2. Lies(b, 12, Sized(labels) \o Root)
      BY Zenon DEF Encoded
    <3> QED BY <3>1, <3>2
  <2>2. Decodes(DecodeDotStr(b, o + 1, jumps), Ended(none) \o Ended(labels), Len(Sized(none)) + 2)
    BY <1>1, <2>1, PointedName
  <2>3. Decodes(name, E, 0 + 2)
    BY <1>1, <1>3, <2>2, Zenon DEF name, E
  <2>4. 0 + 2 = 2 /\ Len(E) <= DotStrSize /\ (Len(E) <= DotStrSize) = TRUE
    BY DEF E
  <2>5. name.ok = TRUE /\ name.length = 2
    BY <2>3, <2>4, Zenon DEF Decodes
  <2> QED BY <1>2, <1>5, <2>5 DEF name, OwnerRead
<1> QED BY <1>4, <1>5

\* The labels of an alias.
Spelt(r, labels) == IF r.pointed THEN r.labels \o labels ELSE r.labels

LEMMA AliasDecoded ==
    ASSUME NEW labels \in Seq(Label), NEW b \in Seq(Byte), Lies(b, 12, Encoded(labels)),
           NEW r \in Record, r.type = "CNAME",
           NEW o \in Nat, Lies(b, o, Data(r)), NEW jumps \in Nat \ {0}
    PROVE  /\ Spelt(r, labels) \in Seq(Label) /\ Spelt(r, labels) # <<>>
           /\ \E n : Decodes(DecodeDotStr(b, o + 1, jumps), Ended(Spelt(r, labels)), n)
<1> DEFINE l == r.labels
           name == DecodeDotStr(b, o + 1, jumps)
<1>1. l \in Seq(Label) /\ l # <<>> /\ r.pointed \in BOOLEAN
  BY RecordKinds
<1> HIDE DEF name
<1>2. CASE r.pointed = TRUE
  <2>1. Data(r) = Sized(l) \o Pointer /\ Spelt(r, labels) = l \o labels
    BY <1>2 DEF Data, Spelt
  <2> HIDE DEF l
  <2>2. Lies(b, o, Sized(l) \o Pointer) /\ Lies(b, 12, Sized(labels) \o Root)
    <3>1. Lies(b, o, Sized(l) \o Pointer)
      BY <2>1
    <3>2. Lies(b, 12, Sized(labels) \o Root)
      BY Zenon DEF Encoded
    <3> QED BY <3>1, <3>2
  <2>3. Decodes(DecodeDotStr(b, o + 1, jumps), Ended(l) \o Ended(labels), Len(Sized(l)) + 2)
    BY <1>1, <2>2, PointedName
  <2>4. l \o labels \in Seq(Label) /\ Ended(l \o labels) = Ended(l) \o Ended(labels)
    BY <1>1, EndedJoined
  <2>5. l \o labels # <<>>
    <3>1. Joins(l \o labels, l, labels)
      BY <1>1, ConcatJoins
    <3> DEFINE m == Len(l)
               k == Len(labels)
    <3>2. Len(l \o labels) = m + k
      BY <3>1, Zenon DEF Joins
    <3>3. m \in Nat /\ m # 0 /\ k \in Nat
      BY <1>1, EmptySeq
    <3> HIDE DEF m, k
    <3>4. Len(l \o labels) # 0
      BY <3>2, <3>3
    <3>5. Len(<<>>) = 0
      OBVIOUS
    <3> QED BY <3>4, <3>5, Zenon
  <2> QED BY <2>1, <2>3, <2>4, <2>5, Zenon
<1>3. CASE r.pointed = FALSE
  <2>1. Data(r) = Sized(l) \o Root /\ Spelt(r, labels) = l
    BY <1>3 DEF Data, Spelt
  <2> HIDE DEF l
  <2>2. Lies(b, o, Sized(l) \o Root)
    BY <2>1
  <2>3. Decodes(DecodeDotStr(b, o + 1, jumps), Ended(l), Len(Sized(l)) + 1)
    BY <1>1, <2>2, PlainName
  <2> QED BY <1>1, <2>1, <2>3, Zenon
<1> QED BY <1>1, <1>2, <1>3

(***************************************************************************)
(* What the client takes of a record is what it says.                      *)
(***************************************************************************)
Agrees(st, found, labels, o) ==
    /\ st = [ok |-> st.ok, p |-> st.p, name |-> st.name, ips |-> st.ips, cnames |-> st.cnames]
    /\ found = [ok |-> st.ok, ips |-> st.ips, cnames |-> st.cnames]
    /\ st.ok \in BOOLEAN
    /\ st.ok = TRUE => st.p = o + 1 /\ Len(Ended(labels)) <= DotStrSize

\* AnswerRead with names for what it looks at.
AnswerParts(st, b, jumps, own, p, type, data, als, cname) ==
    /\ own = DecodeDotStr(b, st.p, jumps)
    /\ p = st.p + own.length
    /\ type = Word(b, p)
    /\ data = p + 10
    /\ als = DecodeDotStr(b, data, jumps)
    /\ cname = Name(als, Name(own, st.name))

AnswerReads(next, st, b, own, p, type, data, als, cname) ==
    next = IF type = 5 /\ ~ als.ok THEN [st EXCEPT !.ok = FALSE]
           ELSE [ok |-> TRUE, p |-> data + Word(b, p + 8),
                 name   |-> IF type = 5 THEN cname ELSE Name(own, st.name),
                 ips    |-> IF type = 1 THEN Append(st.ips, Piece(b, data, 4)) ELSE st.ips,
                 cnames |-> IF type = 5 THEN Append(st.cnames, Until(cname, NUL)) ELSE st.cnames]

LEMMA AnswerIs ==
    ASSUME NEW st, NEW b, NEW jumps, NEW own, NEW p, NEW type, NEW data, NEW als, NEW cname,
           AnswerParts(st, b, jumps, own, p, type, data, als, cname), st.ok = TRUE, own.ok = TRUE
    PROVE  AnswerReads(AnswerRead(st, b, jumps), st, b, own, p, type, data, als, cname)
BY Zenon DEF AnswerRead, AnswerParts, AnswerReads

LEMMA AliasIs ==
    \A r, text : Alias(r, text) = Dotted(Spelt(r, Labels(text)))
<1> TAKE r, text
<1>1. CASE r.pointed
  BY <1>1, Zenon DEF Alias, Spelt, Labels
<1>2. CASE ~ r.pointed
  BY <1>2, Zenon DEF Alias, Spelt, Labels
<1> QED BY <1>1, <1>2

LEMMA AnswerStep ==
    ASSUME NEW text \in Domain, NEW b \in Seq(Byte), Lies(b, 12, Encoded(Labels(text))),
           NEW o \in Nat, NEW owner \in {Root, Pointer},
           NEW r \in Record, Len(Data(r)) \in Byte, Fields(b, o, owner, r),
           NEW jumps \in Nat \ {0}, NEW st, NEW found, Agrees(st, found, Labels(text), o)
    PROVE  Agrees(AnswerRead(st, b, jumps), Take(found, r, text), Labels(text),
                  o + Len(owner) + 10 + Len(Data(r)))
<1> DEFINE labels == Labels(text)
           n == Len(Data(r))
           m == Len(owner)
           end == o + m + 10 + n
           own == DecodeDotStr(b, st.p, jumps)
           p == st.p + own.length
           type == Word(b, p)
           data == p + 10
           als == DecodeDotStr(b, data, jumps)
           cname == Name(als, Name(own, st.name))
           next == AnswerRead(st, b, jumps)
           has == Take(found, r, text)
<1>1. /\ labels \in Seq(Label) /\ n \in Nat /\ owner \in Seq(Byte) /\ m \in Nat
      /\ Data(r) \in Seq(Byte) /\ Kind(r) \in {1, 5, 16}
  <2>1. owner \in Seq(Byte)
    BY OwnerType
  <2>2. m \in Nat
    BY <2>1
  <2> QED BY <2>1, <2>2, LabelsType, DataType
<1>2. /\ st = [ok |-> st.ok, p |-> st.p, name |-> st.name, ips |-> st.ips, cnames |-> st.cnames]
      /\ found = [ok |-> st.ok, ips |-> st.ips, cnames |-> st.cnames]
      /\ st.ok \in BOOLEAN
      /\ st.ok = TRUE => st.p = o + 1 /\ Len(Ended(labels)) <= DotStrSize
  BY Zenon DEF Agrees
<1>3. Fields(b, o, owner, r)
  OBVIOUS
<1>4. AnswerParts(st, b, jumps, own, p, type, data, als, cname)
  BY Zenon DEF AnswerParts
<1>5. found.ok = st.ok /\ found.ips = st.ips /\ found.cnames = st.cnames
  BY <1>2
<1>6. CASE st.ok = FALSE
  <2>1. next = st
    BY <1>6, Zenon DEF AnswerRead
  <2>2. has = found
    BY <1>5, <1>6, Zenon DEF Take
  <2> QED BY <1>2, <1>6, <2>1, <2>2, Zenon DEF Agrees
<1>7. CASE st.ok = TRUE
  <2>1. st.p = o + 1 /\ Len(Ended(labels)) <= DotStrSize
    BY <1>2, <1>7
  <2>2. own.ok = TRUE /\ own.length = m
    <3>1. Lies(b, o, owner)
      BY <1>3, Zenon DEF Fields
    <3> HIDE DEF labels
    <3>2. Lies(b, 12, Encoded(labels))
      BY DEF labels
    <3>3. OwnerRead(DecodeDotStr(b, o + 1, jumps), owner)
      BY <1>1, <2>1, <3>1, <3>2, OwnerDecoded
    <3> QED BY <2>1, <3>3, Zenon DEF OwnerRead
  <2> DEFINE d == o + m + 10
  <2>3. /\ p = (o + m) + 1 /\ p + 8 = (o + m) + 9 /\ data = d + 1 /\ d \in Nat
    <3> HIDE DEF own, m
    <3> QED BY <1>1, <2>1, <2>2
  <2>4. type = Kind(r) /\ Word(b, p + 8) = n /\ Lies(b, d, Data(r))
    BY <1>3, <2>3, Zenon DEF Fields
  <2>5. data + Word(b, p + 8) = end + 1
    <3> HIDE DEF p, m, n, data
    <3> QED BY <1>1, <2>3, <2>4
  <2> HIDE DEF own, p, type, data, als, cname, next, has, labels, n, m, end, d
  <2>6. next = IF type = 5 /\ ~ als.ok THEN [st EXCEPT !.ok = FALSE]
               ELSE [ok |-> TRUE, p |-> data + Word(b, p + 8),
                     name   |-> IF type = 5 THEN cname ELSE Name(own, st.name),
                     ips    |-> IF type = 1 THEN Append(st.ips, Piece(b, data, 4)) ELSE st.ips,
                     cnames |-> IF type = 5 THEN Append(st.cnames, Until(cname, NUL))
                                ELSE st.cnames]
    <3>1. AnswerReads(next, st, b, own, p, type, data, als, cname)
      BY <1>4, <1>7, <2>2, AnswerIs DEF next
    <3> QED BY <3>1, Zenon DEF AnswerReads
  <2>7. CASE r.type = "A" /\ r.ip \in [1..4 -> Byte]
    <3>1. Kind(r) = 1 /\ Data(r) = r.ip /\ n = 4 /\ r.ip \in Seq(Byte)
      <4>1. Kind(r) = 1 /\ Data(r) = r.ip
        BY <2>7 DEF Kind, Data
      <4>2. r.ip \in Seq(Byte)
        BY <2>7, SeqDef
      <4> DEFINE x == r.ip
      <4>3. x \in Seq(Byte) /\ DOMAIN x = 1..4
        BY <2>7, <4>2
      <4> HIDE DEF x
      <4>4. Len(x) = 4
        BY <4>3, LenProperties
      <4> QED BY <4>1, <4>2, <4>4 DEF n, x
    <3>2. Piece(b, data, 4) = r.ip
      <4> DEFINE x == r.ip
      <4>1. x \in Seq(Byte) /\ Len(x) = 4 /\ \A j \in 1..Len(x) : At(b, d + j) = x[j]
        BY <2>4, <3>1, Zenon DEF Lies, n
      <4>2. \A j \in 1..4 : data + j - 1 = d + j
        BY <2>3
      <4> HIDE DEF x
      <4>3. \A j \in 1..Len(x) : At(b, data + j - 1) = x[j]
        BY <4>1, <4>2, Zenon
      <4>4. data \in Nat
        BY <2>3
      <4>5. Piece(b, data, Len(x)) = x
        BY <4>1, <4>3, <4>4, PieceIs
      <4> QED BY <4>1, <4>5 DEF x
    <3>3. next = [ok |-> TRUE, p |-> end + 1, name |-> Name(own, st.name),
                  ips |-> Append(st.ips, r.ip), cnames |-> st.cnames]
      <4>1. type = 1 /\ type # 5
        BY <2>4, <3>1
      <4> QED BY <2>5, <2>6, <3>2, <4>1
    <3>4. has = [ok |-> TRUE, ips |-> Append(st.ips, r.ip), cnames |-> st.cnames]
      <4>1. has = [found EXCEPT !.ips = Append(@, r.ip)]
        BY <1>5, <1>7, <2>7 DEF Take, has
      <4> QED BY <1>2, <1>5, <1>7, <4>1
    <3> QED BY <2>1, <3>3, <3>4 DEF Agrees, next, has, end, labels, m, n
  <2>8. CASE r.type = "CNAME"
    <3> DEFINE full == Spelt(r, labels)
    <3>1. /\ full \in Seq(Label) /\ full # <<>>
          /\ \E z : Decodes(DecodeDotStr(b, d + 1, jumps), Ended(full), z)
      <4>1. Lies(b, 12, Encoded(labels))
        BY DEF labels
      <4> QED BY <1>1, <2>3, <2>4, <2>8, <4>1, AliasDecoded
    <3> HIDE DEF full
    <3>2. PICK z : Decodes(als, Ended(full), z)
      BY <2>3, <3>1 DEF als
    <3>3. Spells(full)
      BY <3>1, NameSpelt
    <3>4. /\ als.ok = Fits(Dotted(full))
          /\ als.ok => cname = Dotted(full) /\ Until(cname, NUL) = cname
      <4>1. Fits(Dotted(full)) = (Len(Ended(full)) <= DotStrSize)
        BY <3>3, Zenon DEF Spells
      <4>2. als.ok = (Len(Ended(full)) <= DotStrSize)
        BY <3>2, Zenon DEF Decodes
      <4>3. ASSUME als.ok PROVE cname = Dotted(full) /\ Until(cname, NUL) = cname
        <5>1. als.text = Ended(full)
          BY <3>2, <4>2, <4>3, Zenon DEF Decodes
        <5>2. cname = Dotted(full)
          BY <3>3, <5>1, Zenon DEF Spells, cname
        <5> QED BY <3>3, <5>2, Zenon DEF Spells
      <4> QED BY <4>1, <4>2, <4>3, Zenon
    <3>5. Alias(r, text) = Dotted(full)
      BY AliasIs, Zenon DEF full, labels
    <3> DEFINE w == Dotted(full)
    <3>6. has = IF Fits(w) THEN [found EXCEPT !.cnames = Append(@, w)]
                ELSE [found EXCEPT !.ok = FALSE]
      BY <1>5, <1>7, <2>8, <3>5 DEF Take, has
    <3> HIDE DEF w
    <3>7. type = 5 /\ type # 1
      <4>1. Kind(r) = 5
        BY <2>8 DEF Kind
      <4> QED BY <2>4, <4>1
    <3>8. CASE Fits(w)
      <4>1. next = [ok |-> TRUE, p |-> end + 1, name |-> w,
                    ips |-> st.ips, cnames |-> Append(st.cnames, w)]
        <5>1. als.ok /\ cname = w /\ Until(cname, NUL) = w
          BY <3>4, <3>8, Zenon DEF w
        <5> QED BY <2>5, <2>6, <3>7, <5>1
      <4>2. has = [ok |-> TRUE, ips |-> st.ips, cnames |-> Append(st.cnames, w)]
        <5>1. has = [found EXCEPT !.cnames = Append(@, w)]
          BY <3>6, <3>8
        <5> QED BY <1>2, <1>5, <1>7, <5>1
      <4> QED BY <2>1, <4>1, <4>2 DEF Agrees, next, has, end, labels, m, n
    <3>9. CASE ~ Fits(w)
      <4>1. next = [ok |-> FALSE, p |-> st.p, name |-> st.name, ips |-> st.ips,
                    cnames |-> st.cnames]
        <5>1. ~ als.ok
          BY <3>4, <3>9, Zenon DEF w
        <5>2. next = [st EXCEPT !.ok = FALSE]
          BY <2>6, <3>7, <5>1
        <5> QED BY <1>2, <5>2
      <4>2. has = [ok |-> FALSE, ips |-> st.ips, cnames |-> st.cnames]
        <5>1. has = [found EXCEPT !.ok = FALSE]
          BY <3>6, <3>9
        <5> QED BY <1>2, <5>1
      <4> QED BY <4>1, <4>2 DEF Agrees, next, has, end, labels, m, n
    <3> QED BY <3>8, <3>9
  <2>9. CASE r.type = "other"
    <3>1. type # 5 /\ type # 1
      <4>1. Kind(r) = 16
        BY <2>9 DEF Kind
      <4> QED BY <2>4, <4>1
    <3>2. next = [ok |-> TRUE, p |-> end + 1, name |-> Name(own, st.name),
                  ips |-> st.ips, cnames |-> st.cnames]
      BY <2>5, <2>6, <3>1
    <3>3. has = found
      BY <1>5, <1>7, <2>9 DEF Take, has
    <3>4. has = [ok |-> TRUE, ips |-> st.ips, cnames |-> st.cnames]
      BY <1>2, <1>7, <3>3
    <3> QED BY <2>1, <3>2, <3>4 DEF Agrees, next, has, end, labels, m, n
  <2> QED BY <2>7, <2>8, <2>9, RecordKinds
<1> QED BY <1>2, <1>6, <1>7

(***************************************************************************)
(* The states of the loops over the questions and the answers, and of what *)
(* a reply says.                                                           *)
(***************************************************************************)
QuestionRun(f, b) ==
    /\ f[0] = [ok |-> TRUE, p |-> Header + 1, name |-> <<>>, ips |-> <<>>, cnames |-> <<>>]
    /\ \A i \in 1..Word(b, 5) : f[i] = QuestionRead(f[i - 1], b)

AnswerRun(f, b, jumps) ==
    /\ f[0] = Questions(b)
    /\ \A i \in 1..Word(b, 7) : f[i] = AnswerRead(f[i - 1], b, jumps)

SaidRun(f, records, text) ==
    /\ f[0] = [ok |-> Fits(Asked(text)), ips |-> <<>>, cnames |-> <<>>]
    /\ \A i \in 1..Len(records) : f[i] = Take(f[i - 1], records[i], text)

LEMMA QuestionRuns ==
    ASSUME NEW b, Word(b, 5) \in Nat
    PROVE  \E f : QuestionRun(f, b) /\ Questions(b) = f[Word(b, 5)]
<1> DEFINE N == Word(b, 5)
           s == [ok |-> TRUE, p |-> Header + 1, name |-> <<>>, ips |-> <<>>, cnames |-> <<>>]
           Step(v, i) == QuestionRead(v, b)
           Rec(f, n) == f = [i \in 0..n |-> IF i = 0 THEN s ELSE Step(f[i - 1], i)]
           h == CHOOSE f : Rec(f, N)
           S == {n \in 0..N : \E f : Rec(f, n)}
<1>1. N \in Nat
  OBVIOUS
<1>2. Questions(b) = h[N]
  BY Zenon DEF Questions
<1> HIDE DEF N, s, Step
<1>3. 0 \in S
  <2> DEFINE f == [i \in 0..0 |-> s]
  <2>1. Rec(f, 0)
    OBVIOUS
  <2>2. 0 \in 0..N
    BY <1>1
  <2> QED BY <2>1, <2>2
<1>4. ASSUME NEW n \in 0..N, n < N, n \in S PROVE n + 1 \in S
  <2>1. PICK f : Rec(f, n)
    BY <1>4
  <2> DEFINE d == [i \in 0..n + 1 |-> IF i = n + 1 THEN Step(f[n], n + 1) ELSE f[i]]
  <2>2. ASSUME NEW i \in 0..n + 1 PROVE d[i] = IF i = 0 THEN s ELSE Step(d[i - 1], i)
    <3>1. n \in Nat /\ i \in Nat
      BY <1>1
    <3>2. CASE i = n + 1
      <4>1. i # 0 /\ i - 1 = n /\ n \in 0..n + 1 /\ n # n + 1
        BY <3>1, <3>2
      <4>2. d[n] = f[n] /\ d[i] = Step(f[n], n + 1)
        BY <3>2, <4>1
      <4> QED BY <3>2, <4>1, <4>2
    <3>3. CASE i # n + 1
      <4>1. i \in 0..n
        BY <3>1, <3>3
      <4>2. d[i] = f[i]
        BY <3>3
      <4>3. f[i] = IF i = 0 THEN s ELSE Step(f[i - 1], i)
        BY <2>1, <4>1
      <4>4. i # 0 => i - 1 \in 0..n + 1 /\ i - 1 # n + 1
        BY <3>1, <4>1
      <4>5. i # 0 => d[i - 1] = f[i - 1]
        BY <4>4
      <4> QED BY <4>2, <4>3, <4>5
    <3> QED BY <3>2, <3>3
  <2>3. Rec(d, n + 1)
    <3>1. d = [i \in 0..n + 1 |-> d[i]]
      OBVIOUS
    <3> HIDE DEF d
    <3> QED BY <2>2, <3>1
  <2>4. n + 1 \in 0..N
    BY <1>1, <1>4
  <2> HIDE DEF d, Rec
  <2> QED BY <2>3, <2>4
<1>5. \E f : Rec(f, N)
  <2> HIDE DEF Rec
  <2>1. N \in S
    <3> HIDE DEF S
    <3>1. 0..N \subseteq S
      BY <1>1, <1>3, <1>4, SetInduction
    <3>2. N \in 0..N
      BY <1>1
    <3> QED BY <3>1, <3>2
  <2> QED BY <2>1
<1>6. Rec(h, N)
  <2> HIDE DEF Rec
  <2> QED BY <1>5
<1>7. h[0] = s /\ \A i \in 1..N : h[i] = Step(h[i - 1], i)
  <2>1. \A i \in 0..N : h[i] = IF i = 0 THEN s ELSE Step(h[i - 1], i)
    <3> HIDE DEF h
    <3> QED BY <1>6
  <2>2. 0 \in 0..N /\ \A i \in 1..N : i \in 0..N /\ i # 0
    BY <1>1
  <2> HIDE DEF h
  <2> QED BY <2>1, <2>2, Zenon
<1>8. QuestionRun(h, b)
  <2> HIDE DEF h
  <2> QED BY <1>7, Zenon DEF QuestionRun, Step, s, N
<1> HIDE DEF h
<1> QED BY <1>2, <1>8, Zenon DEF N

LEMMA AnswerRuns ==
    ASSUME NEW b, NEW jumps, Word(b, 7) \in Nat
    PROVE  \E f : AnswerRun(f, b, jumps) /\ Answers(b, jumps) = f[Word(b, 7)]
<1> DEFINE N == Word(b, 7)
           s == Questions(b)
           Step(v, i) == AnswerRead(v, b, jumps)
           Rec(f, n) == f = [i \in 0..n |-> IF i = 0 THEN s ELSE Step(f[i - 1], i)]
           h == CHOOSE f : Rec(f, N)
           S == {n \in 0..N : \E f : Rec(f, n)}
<1>1. N \in Nat
  OBVIOUS
<1>2. Answers(b, jumps) = h[N]
  BY Zenon DEF Answers
<1> HIDE DEF N, s, Step
<1>3. 0 \in S
  <2> DEFINE f == [i \in 0..0 |-> s]
  <2>1. Rec(f, 0)
    OBVIOUS
  <2>2. 0 \in 0..N
    BY <1>1
  <2> QED BY <2>1, <2>2
<1>4. ASSUME NEW n \in 0..N, n < N, n \in S PROVE n + 1 \in S
  <2>1. PICK f : Rec(f, n)
    BY <1>4
  <2> DEFINE d == [i \in 0..n + 1 |-> IF i = n + 1 THEN Step(f[n], n + 1) ELSE f[i]]
  <2>2. ASSUME NEW i \in 0..n + 1 PROVE d[i] = IF i = 0 THEN s ELSE Step(d[i - 1], i)
    <3>1. n \in Nat /\ i \in Nat
      BY <1>1
    <3>2. CASE i = n + 1
      <4>1. i # 0 /\ i - 1 = n /\ n \in 0..n + 1 /\ n # n + 1
        BY <3>1, <3>2
      <4>2. d[n] = f[n] /\ d[i] = Step(f[n], n + 1)
        BY <3>2, <4>1
      <4> QED BY <3>2, <4>1, <4>2
    <3>3. CASE i # n + 1
      <4>1. i \in 0..n
        BY <3>1, <3>3
      <4>2. d[i] = f[i]
        BY <3>3
      <4>3. f[i] = IF i = 0 THEN s ELSE Step(f[i - 1], i)
        BY <2>1, <4>1
      <4>4. i # 0 => i - 1 \in 0..n + 1 /\ i - 1 # n + 1
        BY <3>1, <4>1
      <4>5. i # 0 => d[i - 1] = f[i - 1]
        BY <4>4
      <4> QED BY <4>2, <4>3, <4>5
    <3> QED BY <3>2, <3>3
  <2>3. Rec(d, n + 1)
    <3>1. d = [i \in 0..n + 1 |-> d[i]]
      OBVIOUS
    <3> HIDE DEF d
    <3> QED BY <2>2, <3>1
  <2>4. n + 1 \in 0..N
    BY <1>1, <1>4
  <2> HIDE DEF d, Rec
  <2> QED BY <2>3, <2>4
<1>5. \E f : Rec(f, N)
  <2> HIDE DEF Rec
  <2>1. N \in S
    <3> HIDE DEF S
    <3>1. 0..N \subseteq S
      BY <1>1, <1>3, <1>4, SetInduction
    <3>2. N \in 0..N
      BY <1>1
    <3> QED BY <3>1, <3>2
  <2> QED BY <2>1
<1>6. Rec(h, N)
  <2> HIDE DEF Rec
  <2> QED BY <1>5
<1>7. h[0] = s /\ \A i \in 1..N : h[i] = Step(h[i - 1], i)
  <2>1. \A i \in 0..N : h[i] = IF i = 0 THEN s ELSE Step(h[i - 1], i)
    <3> HIDE DEF h
    <3> QED BY <1>6
  <2>2. 0 \in 0..N /\ \A i \in 1..N : i \in 0..N /\ i # 0
    BY <1>1
  <2> HIDE DEF h
  <2> QED BY <2>1, <2>2, Zenon
<1>8. AnswerRun(h, b, jumps)
  <2> HIDE DEF h
  <2> QED BY <1>7, Zenon DEF AnswerRun, Step, s, N
<1> HIDE DEF h
<1> QED BY <1>2, <1>8, Zenon DEF N

LEMMA SaidRuns ==
    ASSUME NEW records \in Seq(Record), NEW text
    PROVE  \E f : SaidRun(f, records, text) /\ Said(records, text) = f[Len(records)]
<1> DEFINE N == Len(records)
           s == [ok |-> Fits(Asked(text)), ips |-> <<>>, cnames |-> <<>>]
           Step(v, i) == Take(v, records[i], text)
           Rec(f, n) == f = [i \in 0..n |-> IF i = 0 THEN s ELSE Step(f[i - 1], i)]
           h == CHOOSE f : Rec(f, N)
           S == {n \in 0..N : \E f : Rec(f, n)}
<1>1. N \in Nat
  OBVIOUS
<1>2. Said(records, text) = h[N]
  BY Zenon DEF Said
<1> HIDE DEF N, s, Step
<1>3. 0 \in S
  <2> DEFINE f == [i \in 0..0 |-> s]
  <2>1. Rec(f, 0)
    OBVIOUS
  <2>2. 0 \in 0..N
    BY <1>1
  <2> QED BY <2>1, <2>2
<1>4. ASSUME NEW n \in 0..N, n < N, n \in S PROVE n + 1 \in S
  <2>1. PICK f : Rec(f, n)
    BY <1>4
  <2> DEFINE d == [i \in 0..n + 1 |-> IF i = n + 1 THEN Step(f[n], n + 1) ELSE f[i]]
  <2>2. ASSUME NEW i \in 0..n + 1 PROVE d[i] = IF i = 0 THEN s ELSE Step(d[i - 1], i)
    <3>1. n \in Nat /\ i \in Nat
      BY <1>1
    <3>2. CASE i = n + 1
      <4>1. i # 0 /\ i - 1 = n /\ n \in 0..n + 1 /\ n # n + 1
        BY <3>1, <3>2
      <4>2. d[n] = f[n] /\ d[i] = Step(f[n], n + 1)
        BY <3>2, <4>1
      <4> QED BY <3>2, <4>1, <4>2
    <3>3. CASE i # n + 1
      <4>1. i \in 0..n
        BY <3>1, <3>3
      <4>2. d[i] = f[i]
        BY <3>3
      <4>3. f[i] = IF i = 0 THEN s ELSE Step(f[i - 1], i)
        BY <2>1, <4>1
      <4>4. i # 0 => i - 1 \in 0..n + 1 /\ i - 1 # n + 1
        BY <3>1, <4>1
      <4>5. i # 0 => d[i - 1] = f[i - 1]
        BY <4>4
      <4> QED BY <4>2, <4>3, <4>5
    <3> QED BY <3>2, <3>3
  <2>3. Rec(d, n + 1)
    <3>1. d = [i \in 0..n + 1 |-> d[i]]
      OBVIOUS
    <3> HIDE DEF d
    <3> QED BY <2>2, <3>1
  <2>4. n + 1 \in 0..N
    BY <1>1, <1>4
  <2> HIDE DEF d, Rec
  <2> QED BY <2>3, <2>4
<1>5. \E f : Rec(f, N)
  <2> HIDE DEF Rec
  <2>1. N \in S
    <3> HIDE DEF S
    <3>1. 0..N \subseteq S
      BY <1>1, <1>3, <1>4, SetInduction
    <3>2. N \in 0..N
      BY <1>1
    <3> QED BY <3>1, <3>2
  <2> QED BY <2>1
<1>6. Rec(h, N)
  <2> HIDE DEF Rec
  <2> QED BY <1>5
<1>7. h[0] = s /\ \A i \in 1..N : h[i] = Step(h[i - 1], i)
  <2>1. \A i \in 0..N : h[i] = IF i = 0 THEN s ELSE Step(h[i - 1], i)
    <3> HIDE DEF h
    <3> QED BY <1>6
  <2>2. 0 \in 0..N /\ \A i \in 1..N : i \in 0..N /\ i # 0
    BY <1>1
  <2> HIDE DEF h
  <2> QED BY <2>1, <2>2, Zenon
<1>8. SaidRun(h, records, text)
  <2> HIDE DEF h
  <2> QED BY <1>7, Zenon DEF SaidRun, Step, s, N
<1> HIDE DEF h
<1> QED BY <1>2, <1>8, Zenon DEF N

(***************************************************************************)
(* A reply that says something is understood.                              *)
(***************************************************************************)
\* The records stand one behind the other, from P[0] on.
RecordsLie(b, o, owner, records, P) ==
    /\ P[0] = o
    /\ \A k \in 1..Len(records) :
          /\ P[k - 1] \in Nat /\ Fields(b, P[k - 1], owner, records[k])
          /\ P[k] = P[k - 1] + Len(owner) + 10 + Len(Data(records[k]))

\* A message with one question and some answers.
Says(b, labels, owner, records) ==
    /\ Word(b, 5) = 1 /\ Word(b, 7) = Len(records)
    /\ Lies(b, 12, Encoded(labels))
    /\ \E P : RecordsLie(b, 12 + Len(Encoded(labels)) + 4, owner, records, P)

LEMMA EncodedLong ==
    ASSUME NEW labels \in Seq(Label)
    PROVE  Encoded(labels) \in Seq(Byte) /\ Len(Encoded(labels)) = Len(Sized(labels)) + 1
<1> DEFINE s == Sized(labels)
<1>1. s \in Seq(Byte)
  BY NameTypes
<1>2. Root \in Seq(Byte) /\ Len(Root) = 1
  BY DEF Root, Byte
<1> HIDE DEF s
<1>3. s \o Root \in Seq(Byte) /\ Joins(s \o Root, s, Root)
  BY <1>1, <1>2, ConcatJoins
<1>4. Len(s \o Root) = Len(s) + 1
  BY <1>2, <1>3, Zenon DEF Joins
<1> QED BY <1>3, <1>4, Zenon DEF Encoded, s

LEMMA QuestionStep ==
    ASSUME NEW text \in Domain, NEW b \in Seq(Byte), Word(b, 5) = 1,
           Lies(b, 12, Encoded(Labels(text)))
    PROVE  Agrees(Questions(b), [ok |-> Fits(Asked(text)), ips |-> <<>>, cnames |-> <<>>],
                  Labels(text), 12 + Len(Encoded(Labels(text))) + 4)
<1> DEFINE labels == Labels(text)
           s == [ok |-> TRUE, p |-> 13, name |-> <<>>, ips |-> <<>>, cnames |-> <<>>]
           asked == DecodeDotStr(b, 13, 0)
           next == Questions(b)
           L == Len(Encoded(labels))
           E == Len(Ended(labels))
<1>1. labels \in Seq(Label) /\ labels # <<>>
  BY ClientAssumption
<1>2. PICK f : QuestionRun(f, b) /\ Questions(b) = f[Word(b, 5)]
  BY QuestionRuns
<1>3. next = QuestionRead(s, b)
  <2>1. Header + 1 = 13 /\ 1 \in 1..1 /\ 1 - 1 = 0
    BY DEF Header
  <2>2. f[1] = QuestionRead(f[0], b) /\ f[0] = s
    BY <1>2, <2>1, Zenon DEF QuestionRun
  <2> QED BY <1>2, <2>2, Zenon
<1>4. next = [ok |-> asked.ok, p |-> 13 + asked.length + 4, name |-> Name(asked, <<>>),
              ips |-> <<>>, cnames |-> <<>>]
  <2>1. s.ok = TRUE /\ s.p = 13 /\ s.name = <<>> /\ s.ips = <<>> /\ s.cnames = <<>>
    OBVIOUS
  <2> HIDE DEF s, asked
  <2>2. QuestionRead(s, b) = [ok |-> asked.ok, p |-> 13 + asked.length + 4,
                              name |-> Name(asked, <<>>), ips |-> <<>>, cnames |-> <<>>]
    BY <2>1, Zenon DEF QuestionRead, asked
  <2> QED BY <1>3, <2>2, Zenon
<1>5. Decodes(asked, Ended(labels), Len(Sized(labels)) + 1)
  <2> DEFINE o == 12
             j == 0
  <2>1. o \in Nat /\ j \in Nat /\ o + 1 = 13 /\ Lies(b, o, Sized(labels) \o Root)
    BY DEF Encoded
  <2> HIDE DEF o, labels
  <2>2. asked = DecodeDotStr(b, o + 1, j)
    BY <2>1
  <2> HIDE DEF j, asked
  <2>3. Decodes(DecodeDotStr(b, o + 1, j), Ended(labels), Len(Sized(labels)) + 1)
    BY <1>1, <2>1, PlainName
  <2> QED BY <2>2, <2>3
<1>6. L \in Nat /\ L = Len(Sized(labels)) + 1 /\ E \in Nat
  BY <1>1, EncodedLong, NameTypes
<1>7. Spells(labels)
  BY <1>1, NameSpelt
<1>8. Asked(text) = Dotted(labels)
  BY Zenon DEF Asked, Labels, labels
<1> HIDE DEF next, asked, L, E, labels, s
<1>9. /\ asked.ok = (E <= DotStrSize) /\ Fits(Asked(text)) = (E <= DotStrSize)
      /\ E <= DotStrSize => asked.length = L
  BY <1>5, <1>6, <1>7, <1>8, Zenon DEF Decodes, Spells, E
<1>10. next.ok = TRUE => next.p = 12 + L + 4 + 1 /\ E <= DotStrSize
  <2> SUFFICES ASSUME next.ok = TRUE PROVE next.p = 12 + L + 4 + 1 /\ E <= DotStrSize
    OBVIOUS
  <2>1. asked.ok = TRUE /\ next.p = 13 + asked.length + 4
    BY <1>4
  <2>2. E <= DotStrSize /\ asked.length = L
    BY <1>9, <2>1, Zenon
  <2> QED BY <1>6, <2>1, <2>2
<1>11. Fits(Asked(text)) = next.ok /\ next.ok \in BOOLEAN
  <2>1. (E <= DotStrSize) \in BOOLEAN
    OBVIOUS
  <2>2. next.ok = asked.ok
    BY <1>4
  <2> QED BY <1>9, <2>1, <2>2, Zenon
<1>12. /\ next = [ok |-> next.ok, p |-> next.p, name |-> next.name, ips |-> next.ips,
                  cnames |-> next.cnames]
       /\ next.ips = <<>> /\ next.cnames = <<>>
  BY <1>4
<1>13. Agrees(next, [ok |-> Fits(Asked(text)), ips |-> <<>>, cnames |-> <<>>], labels, 12 + L + 4)
  BY <1>10, <1>11, <1>12, Zenon DEF Agrees, E
<1> QED BY <1>13 DEF next, labels, L

LEMMA ReplyRead ==
    ASSUME NEW text \in Domain, NEW b \in Seq(Byte), NEW owner \in {Root, Pointer},
           NEW records \in Seq(Record), Len(records) \in Byte,
           \A i \in DOMAIN records : Len(Data(records[i])) \in Byte,
           Says(b, Labels(text), owner, records), NEW jumps \in Nat \ {0}
    PROVE  Parse(b, jumps) = Said(records, text)
<1> DEFINE labels == Labels(text)
           R == Len(records)
           o == 12 + Len(Encoded(labels)) + 4
<1>1. /\ Word(b, 5) = 1 /\ Word(b, 7) = R /\ Lies(b, 12, Encoded(labels))
      /\ \E P : RecordsLie(b, o, owner, records, P)
  BY Zenon DEF Says
<1>2. PICK P : RecordsLie(b, o, owner, records, P)
  BY <1>1
<1>3. /\ R \in Nat /\ R \in Byte
      /\ \A k \in 1..R : records[k] \in Record /\ Len(Data(records[k])) \in Byte
  OBVIOUS
<1>4. Word(b, 5) = 1 /\ Word(b, 7) = R
  BY <1>1
<1>5. PICK f : AnswerRun(f, b, jumps) /\ Answers(b, jumps) = f[Word(b, 7)]
  BY <1>3, <1>4, AnswerRuns
<1>6. PICK g : SaidRun(g, records, text) /\ Said(records, text) = g[Len(records)]
  BY SaidRuns
<1>7. /\ f[0] = Questions(b) /\ Answers(b, jumps) = f[R]
      /\ \A i \in 1..R : f[i] = AnswerRead(f[i - 1], b, jumps)
  BY <1>4, <1>5, Zenon DEF AnswerRun
<1>8. /\ g[0] = [ok |-> Fits(Asked(text)), ips |-> <<>>, cnames |-> <<>>]
      /\ Said(records, text) = g[R]
      /\ \A i \in 1..R : g[i] = Take(g[i - 1], records[i], text)
  BY <1>6, Zenon DEF SaidRun
<1>9. /\ P[0] = o
      /\ \A k \in 1..R :
            /\ P[k - 1] \in Nat /\ Fields(b, P[k - 1], owner, records[k])
            /\ P[k] = P[k - 1] + Len(owner) + 10 + Len(Data(records[k]))
  BY <1>2, Zenon DEF RecordsLie
<1> DEFINE S == {k \in 0..R : Agrees(f[k], g[k], labels, P[k])}
<1> HIDE DEF R
<1>10. 0 \in S
  <2>1. Agrees(Questions(b), [ok |-> Fits(Asked(text)), ips |-> <<>>, cnames |-> <<>>], labels, o)
    BY <1>1, <1>4, QuestionStep
  <2> HIDE DEF o, labels
  <2>2. Agrees(f[0], g[0], labels, P[0])
    BY <1>7, <1>8, <1>9, <2>1, Zenon
  <2>3. 0 \in 0..R
    BY <1>3
  <2> QED BY <2>2, <2>3
<1>11. ASSUME NEW k \in 0..R, k < R, k \in S PROVE k + 1 \in S
  <2> DEFINE q == P[k]
             r == records[k + 1]
             st == f[k]
             has == g[k]
  <2>1. k + 1 \in 1..R /\ k + 1 \in 0..R /\ (k + 1) - 1 = k
    BY <1>3, <1>11
  <2>2. /\ q \in Nat /\ Fields(b, q, owner, r) /\ P[k + 1] = q + Len(owner) + 10 + Len(Data(r))
        /\ f[k + 1] = AnswerRead(st, b, jumps) /\ g[k + 1] = Take(has, r, text)
        /\ r \in Record /\ Len(Data(r)) \in Byte
    BY <1>3, <1>7, <1>8, <1>9, <2>1, Zenon
  <2>3. Agrees(st, has, Labels(text), q)
    BY <1>11
  <2> HIDE DEF q, r, st, has
  <2>4. Agrees(AnswerRead(st, b, jumps), Take(has, r, text), Labels(text),
               q + Len(owner) + 10 + Len(Data(r)))
    BY <1>1, <2>2, <2>3, AnswerStep
  <2>5. Agrees(f[k + 1], g[k + 1], labels, P[k + 1])
    BY <2>2, <2>4, Zenon
  <2> HIDE DEF labels
  <2> QED BY <2>1, <2>5
<1>12. R \in S
  <2> HIDE DEF S
  <2>1. 0..R \subseteq S
    BY <1>3, <1>10, <1>11, SetInduction
  <2>2. R \in 0..R
    BY <1>3
  <2> QED BY <2>1, <2>2
<1>13. Agrees(f[R], g[R], labels, P[R])
  BY <1>12
<1> QED BY <1>7, <1>8, <1>13, Zenon DEF Agrees, Parse

(***************************************************************************)
(* What the servers' replies say.                                          *)
(***************************************************************************)
LEMMA LiesSelf ==
    ASSUME NEW C, NEW s \in Seq(C)
    PROVE  Lies(s, 0, s)
<1>1. Len(s) \in Nat /\ DOMAIN s = 1..Len(s) /\ 0 + Len(s) <= Len(s)
  OBVIOUS
<1>2. \A j \in 1..Len(s) : 0 + j = j
  BY <1>1
<1>3. \A j \in 1..Len(s) : At(s, 0 + j) = s[j]
  BY <1>1, <1>2, Zenon DEF At
<1> QED BY <1>1, <1>3, Zenon DEF Lies

\* Two bytes of a text that make up a number.
Pair(w, i, y) == i \in 1..Len(w) /\ i + 1 \in 1..Len(w) /\ w[i] = 0 /\ w[i + 1] = y /\ y \in Nat

LEMMA WordIs ==
    ASSUME NEW b, NEW o \in Nat, NEW w, Lies(b, o, w), NEW i, NEW y, Pair(w, i, y)
    PROVE  Word(b, o + i) = y
<1>1. Len(w) \in Nat /\ \A j \in 1..Len(w) : At(b, o + j) = w[j]
  BY Zenon DEF Lies
<1>2. i \in 1..Len(w) /\ i + 1 \in 1..Len(w) /\ w[i] = 0 /\ w[i + 1] = y /\ y \in Nat
  BY Zenon DEF Pair
<1>3. i \in Nat /\ (o + i) + 1 = o + (i + 1)
  BY <1>1, <1>2
<1>4. At(b, o + i) = 0 /\ At(b, (o + i) + 1) = y
  BY <1>1, <1>2, <1>3, Zenon
<1> QED BY <1>2, <1>4 DEF Word

\* A reply in its parts: id, rest of the header, question, records.
Built(I, H, labels, T, C) == (((I \o H) \o Encoded(labels)) \o T) \o C

Counts(H, n) == /\ H \in Seq(Byte) /\ Len(H) = 10
                /\ H[3] = 0 /\ H[4] = 1 /\ H[5] = 0 /\ H[6] = n

Opens(b, labels, n, C) ==
    /\ b \in Seq(Byte) /\ Word(b, 5) = 1 /\ Word(b, 7) = n /\ Lies(b, 12, Encoded(labels))
    /\ Lies(b, 12 + Len(Encoded(labels)) + 4, C)

LEMMA ReplyOpens ==
    ASSUME NEW I \in Seq(Byte), Len(I) = 2, NEW n \in Nat, NEW H, Counts(H, n),
           NEW labels \in Seq(Label), NEW T \in Seq(Byte), Len(T) = 4, NEW C \in Seq(Byte)
    PROVE  Opens(Built(I, H, labels, T, C), labels, n, C)
<1> DEFINE E == Encoded(labels)
           A == I \o H
           AE == A \o E
           B == AE \o T
           b == B \o C
<1>1. E \in Seq(Byte) /\ H \in Seq(Byte) /\ Len(H) = 10
  BY EncodedLong DEF Counts
<1> HIDE DEF E
<1>2. A \in Seq(Byte) /\ Joins(A, I, H)
  BY <1>1, ConcatJoins
<1> HIDE DEF A
<1>3. AE \in Seq(Byte) /\ Joins(AE, A, E)
  BY <1>1, <1>2, ConcatJoins
<1> HIDE DEF AE
<1>4. B \in Seq(Byte) /\ Joins(B, AE, T)
  BY <1>3, ConcatJoins
<1> HIDE DEF B
<1>5. b \in Seq(Byte) /\ Joins(b, B, C)
  BY <1>4, ConcatJoins
<1>6. Lies(b, 0, B \o C)
  BY <1>5, LiesSelf
<1> HIDE DEF b
<1> DEFINE z == 0
<1>7. z \in Nat /\ Lies(b, z, B \o C)
  BY <1>6
<1> HIDE DEF z
<1>8. Lies(b, z, B) /\ Lies(b, z + Len(B), C)
  BY <1>4, <1>7, LiesParts
<1>9. Lies(b, z, AE)
  BY <1>3, <1>7, <1>8, LiesParts DEF B
<1>10. Lies(b, z, A) /\ Lies(b, z + Len(A), E)
  BY <1>1, <1>2, <1>7, <1>9, LiesParts DEF AE
<1>11. Lies(b, z + Len(I), H)
  BY <1>1, <1>7, <1>10, LiesParts DEF A
<1>12. z + Len(I) = 2 /\ z + Len(A) = 12 /\ z + Len(B) = 12 + Len(E) + 4
  <2> DEFINE a == Len(A)
             e == Len(E)
             ae == Len(AE)
  <2>1. a = Len(I) + Len(H) /\ ae = a + e /\ Len(B) = ae + Len(T) /\ e \in Nat
    BY <1>2, <1>3, <1>4, Zenon DEF Joins
  <2> HIDE DEF a, e, ae
  <2>2. a = 12 /\ ae = 12 + e /\ Len(B) = 12 + e + 4
    BY <1>1, <2>1
  <2> QED BY <2>1, <2>2 DEF z, a, e
<1>13. Word(b, 5) = 1 /\ Word(b, 7) = n
  <2> DEFINE o == 2
  <2>1. o \in Nat /\ Lies(b, o, H) /\ o + 3 = 5 /\ o + 5 = 7
    BY <1>11, <1>12
  <2>2. Pair(H, 3, 1) /\ Pair(H, 5, n)
    BY <1>1 DEF Counts, Pair
  <2> HIDE DEF o
  <2>3. Word(b, o + 3) = 1
    BY <2>1, <2>2, WordIs
  <2>4. Word(b, o + 5) = n
    BY <2>1, <2>2, WordIs
  <2> QED BY <2>1, <2>3, <2>4
<1>14. Lies(b, 12, E) /\ Lies(b, 12 + Len(E) + 4, C)
  BY <1>8, <1>10, <1>12
<1>15. Opens(b, labels, n, C)
  BY <1>5, <1>13, <1>14, Zenon DEF Opens, E
<1> QED BY <1>15, Zenon DEF Built, b, B, AE, A, E

LEMMA SpoofedIs ==
    /\ SpoofedRecord \in Record /\ SpoofedRecord.type = "A"
    /\ Data(SpoofedRecord) = Spoofed /\ Kind(SpoofedRecord) = 1
    /\ Spoofed \in Seq(Byte) /\ Len(Spoofed) = 4
<1>1. Spoofed \in Seq(Byte) /\ Len(Spoofed) = 4 /\ Spoofed \in [1..4 -> Byte]
  BY DEF Spoofed, Byte
<1>2. SpoofedRecord.type = "A" /\ SpoofedRecord.ip = Spoofed
  BY DEF SpoofedRecord
<1>3. SpoofedRecord \in [type : {"A"}, ip : [1..4 -> Byte]]
  <2> DEFINE ip == Spoofed
  <2>1. ip \in [1..4 -> Byte] /\ SpoofedRecord = [type |-> "A", ip |-> ip]
    BY <1>1 DEF SpoofedRecord
  <2> HIDE DEF ip
  <2> QED BY <2>1
<1>4. SpoofedRecord \in Record
  BY <1>3 DEF Record
<1>5. Data(SpoofedRecord) = Spoofed /\ Kind(SpoofedRecord) = 1
  BY <1>2 DEF Data, Kind
<1> QED BY <1>1, <1>2, <1>4, <1>5

\* The record of the servers that know one address.
LEMMA SpoofedFields ==
    ASSUME NEW b, NEW o \in Nat,
           Lies(b, o, <<192, 12, 0, 1, 0, 1, 0, 0, 0, 0, 0, 4>> \o Spoofed)
    PROVE  Fields(b, o, Pointer, SpoofedRecord)
<1> DEFINE w == <<192, 12, 0, 1, 0, 1, 0, 0, 0, 0, 0, 4>>
           p == o + 2
<1>1. /\ w \in Seq(Byte) /\ Len(w) = 12 /\ w[1] = 192 /\ w[2] = 12
      /\ w[3] = 0 /\ w[4] = 1 /\ w[11] = 0 /\ w[12] = 4
  BY DEF Byte
<1>2. Pointer[1] = 192 /\ Pointer[2] = 12 /\ Len(Pointer) = 2
  BY DEF Pointer, Header
<1>3. Lies(b, o, w \o Spoofed)
  OBVIOUS
<1> HIDE DEF w
<1>4. Lies(b, o, w) /\ Lies(b, o + Len(w), Spoofed)
  BY <1>1, <1>3, SpoofedIs, LiesParts
<1>5. Lies(b, o, Pointer)
  <2>1. Len(b) \in Nat /\ o + Len(w) <= Len(b) /\ \A j \in 1..Len(w) : At(b, o + j) = w[j]
    BY <1>4, Zenon DEF Lies
  <2>2. o + Len(Pointer) <= Len(b)
    BY <1>1, <1>2, <2>1
  <2>3. \A j \in 1..Len(Pointer) : j \in 1..Len(w) /\ (j = 1 \/ j = 2)
    BY <1>1, <1>2
  <2>4. w[1] = Pointer[1] /\ w[2] = Pointer[2]
    BY <1>1, <1>2
  <2>5. \A j \in 1..Len(Pointer) : At(b, o + j) = Pointer[j]
    BY <2>1, <2>3, <2>4, Zenon
  <2>6. Len(Pointer) \in Nat
    BY <1>2
  <2> QED BY <2>1, <2>2, <2>5, <2>6, Zenon DEF Lies
<1>6. Word(b, p + 1) = 1 /\ Word(b, p + 9) = 4
  <2>1. Pair(w, 3, 1) /\ Pair(w, 11, 4)
    BY <1>1 DEF Pair
  <2>2. Word(b, o + 3) = 1
    BY <1>4, <2>1, WordIs
  <2>3. Word(b, o + 11) = 4
    BY <1>4, <2>1, WordIs
  <2>4. p + 1 = o + 3 /\ p + 9 = o + 11
    OBVIOUS
  <2> QED BY <2>2, <2>3, <2>4
<1>7. Lies(b, p + 10, Spoofed)
  <2>1. p + 10 = o + Len(w)
    BY <1>1
  <2> QED BY <1>4, <2>1, Zenon
<1>8. p = o + Len(Pointer) /\ Len(Data(SpoofedRecord)) = 4
  BY <1>2, SpoofedIs
<1> HIDE DEF p
<1> QED BY <1>5, <1>6, <1>7, <1>8, SpoofedIs, Zenon DEF Fields

LEMMA KindByte == {1, 5, 16} \subseteq Byte
BY DEF Byte

\* A record as the other servers write it.
LEMMA WrittenFields ==
    ASSUME NEW b, NEW o \in Nat, NEW owner \in {Root, Pointer},
           NEW r \in Record, Len(Data(r)) \in Byte, Lies(b, o, owner \o Written(r))
    PROVE  Fields(b, o, owner, r)
<1> DEFINE k == Kind(r)
           n == Len(Data(r))
           w == <<0, k, 0, 1, 0, 0, 0, 9, 0, n>>
           D == Data(r)
           p == o + Len(owner)
<1>1. k \in Byte /\ n \in Byte /\ D \in Seq(Byte)
  BY DataType, KindByte
<1>2. owner \in Seq(Byte) /\ Len(owner) \in Nat
  BY OwnerType
<1>3. Written(r) = w \o D
  BY Zenon DEF Written
<1> HIDE DEF k, n, D
<1>4. /\ w \in Seq(Byte) /\ Len(w) = 10 /\ w[1] = 0 /\ w[2] = k /\ w[9] = 0 /\ w[10] = n
      /\ k \in Nat /\ n \in Nat
  BY <1>1 DEF Byte
<1> HIDE DEF w
<1>5. w \o D \in Seq(Byte)
  BY <1>1, <1>4, ConcatJoins
<1> DEFINE v == w \o D
<1>6. Lies(b, o, owner \o v) /\ v \in Seq(Byte)
  BY <1>3, <1>5
<1> HIDE DEF v
<1>7. Lies(b, o, owner) /\ Lies(b, p, v)
  BY <1>2, <1>6, LiesParts
<1>8. p \in Nat
  BY <1>2
<1> HIDE DEF p
<1>9. Lies(b, p, w) /\ Lies(b, p + Len(w), D)
  BY <1>1, <1>4, <1>7, <1>8, LiesParts DEF v
<1>10. Word(b, p + 1) = k /\ Word(b, p + 9) = n
  <2>1. Pair(w, 1, k) /\ Pair(w, 9, n)
    BY <1>4 DEF Pair
  <2>2. Word(b, p + 1) = k
    BY <1>8, <1>9, <2>1, WordIs
  <2>3. Word(b, p + 9) = n
    BY <1>8, <1>9, <2>1, WordIs
  <2> QED BY <2>2, <2>3
<1> QED BY <1>4, <1>7, <1>9, <1>10, Zenon DEF Fields, p, k, n, D

LEMMA WrittenType ==
    ASSUME NEW owner \in {Root, Pointer}, NEW r \in Record, Len(Data(r)) \in Byte
    PROVE  /\ owner \o Written(r) \in Seq(Byte)
           /\ Len(owner \o Written(r)) = Len(owner) + 10 + Len(Data(r))
<1> DEFINE k == Kind(r)
           n == Len(Data(r))
           w == <<0, k, 0, 1, 0, 0, 0, 9, 0, n>>
           D == Data(r)
<1>1. k \in Byte /\ n \in Byte /\ n \in Nat /\ D \in Seq(Byte)
  BY DataType, KindByte
<1>2. owner \in Seq(Byte) /\ Len(owner) \in Nat
  BY OwnerType
<1>3. Written(r) = w \o D
  BY Zenon DEF Written
<1> HIDE DEF k, D
<1>4. w \in Seq(Byte) /\ Len(w) = 10
  <2> HIDE DEF n
  <2> QED BY <1>1 DEF Byte
<1> HIDE DEF w
<1>5. w \o D \in Seq(Byte) /\ Joins(w \o D, w, D)
  BY <1>1, <1>4, ConcatJoins
<1> DEFINE v == w \o D
<1>6. v \in Seq(Byte) /\ Len(v) = 10 + Len(D)
  BY <1>4, <1>5, Zenon DEF Joins
<1> HIDE DEF v
<1>7. owner \o v \in Seq(Byte) /\ Joins(owner \o v, owner, v)
  BY <1>2, <1>6, ConcatJoins
<1>8. Len(owner \o v) = Len(owner) + Len(v)
  BY <1>7, Zenon DEF Joins
<1>9. Len(owner) + (10 + n) = Len(owner) + 10 + n
  <2> HIDE DEF n
  <2> QED BY <1>1, <1>2
<1> QED BY <1>3, <1>6, <1>7, <1>8, <1>9, Zenon DEF v, n, D

\* One behind the other.
LEMMA RecordsRow ==
    ASSUME NEW b, NEW o \in Nat, NEW owner \in {Root, Pointer}, NEW records \in Seq(Record),
           \A i \in DOMAIN records : Len(Data(records[i])) \in Byte,
           Lies(b, o, Concat([i \in DOMAIN records |-> owner \o Written(records[i])]))
    PROVE  \E P : RecordsLie(b, o, owner, records, P)
<1> DEFINE parts == [i \in DOMAIN records |-> owner \o Written(records[i])]
           R == Len(records)
<1>1. /\ R \in Nat /\ DOMAIN records = 1..R
      /\ \A i \in 1..R : records[i] \in Record /\ Len(Data(records[i])) \in Byte
  OBVIOUS
<1>2. \A i \in 1..R : /\ parts[i] = owner \o Written(records[i]) /\ parts[i] \in Seq(Byte)
                      /\ Len(parts[i]) = Len(owner) + 10 + Len(Data(records[i]))
  <2> TAKE i \in 1..R
  <2>1. parts[i] = owner \o Written(records[i])
    BY <1>1
  <2> DEFINE r == records[i]
  <2>2. r \in Record /\ Len(Data(r)) \in Byte
    BY <1>1
  <2> HIDE DEF r, parts
  <2>3. /\ owner \o Written(r) \in Seq(Byte)
        /\ Len(owner \o Written(r)) = Len(owner) + 10 + Len(Data(r))
    BY <2>2, WrittenType
  <2> QED BY <2>1, <2>3 DEF r
<1>3. parts \in Seq(Seq(Byte)) /\ Len(parts) = R
  <2>1. DOMAIN parts = 1..R /\ parts = [i \in 1..R |-> parts[i]]
    BY <1>1
  <2> HIDE DEF parts, R
  <2>2. parts \in [1..R -> Seq(Byte)]
    BY <1>2, <2>1
  <2>3. parts \in Seq(Seq(Byte))
    BY <1>1, <2>2, SeqDef
  <2> QED BY <1>1, <2>1, <2>3, LenProperties
<1>4. Lies(b, o, Concat(parts))
  OBVIOUS
<1> HIDE DEF parts
<1>5. PICK g : ConcatRun(g, parts, Byte)
  BY <1>3, ConcatRuns
<1>6. LieInRow(b, o, parts, g)
  BY <1>3, <1>4, <1>5, LiesRun
<1> HIDE DEF R
<1>7. /\ g[0] = <<>>
      /\ \A k \in 1..R : /\ Len(g[k]) = Len(g[k - 1]) + Len(parts[k]) /\ Len(g[k - 1]) \in Nat
                         /\ Lies(b, o + Len(g[k - 1]), parts[k])
  BY <1>3, <1>6, Zenon DEF LieInRow
<1> DEFINE P == [k \in 0..R |-> o + Len(g[k])]
<1>8. P[0] = o
  <2>1. 0 \in 0..R /\ Len(g[0]) = 0 /\ o + 0 = o
    BY <1>1, <1>7, EmptySeq
  <2> QED BY <2>1
<1>9. ASSUME NEW k \in 1..R
      PROVE  /\ P[k - 1] \in Nat /\ Fields(b, P[k - 1], owner, records[k])
             /\ P[k] = P[k - 1] + Len(owner) + 10 + Len(Data(records[k]))
  <2> DEFINE r == records[k]
             x == Len(g[k - 1])
             m == Len(owner)
             n == Len(Data(r))
             u == Len(g[k])
  <2>1. k - 1 \in 0..R /\ k \in 0..R
    BY <1>1
  <2>2. P[k - 1] = o + x /\ P[k] = o + u
    BY <2>1
  <2>3. /\ r \in Record /\ n \in Byte /\ m \in Nat /\ x \in Nat /\ n \in Nat
    <3>1. r \in Record /\ n \in Byte
      BY <1>1
    <3>2. m \in Nat
      BY OwnerType
    <3>3. x \in Nat
      BY <1>7
    <3>4. n \in Nat
      <4> HIDE DEF n
      <4> QED BY <3>1, ByteNat
    <3> QED BY <3>1, <3>2, <3>3, <3>4
  <2>4. parts[k] = owner \o Written(r) /\ u = x + (m + 10 + n) /\ Lies(b, o + x, parts[k])
    BY <1>2, <1>7, Zenon
  <2> HIDE DEF P, r, x, u
  <2>5. Lies(b, o + x, owner \o Written(r)) /\ o + x \in Nat
    BY <2>3, <2>4
  <2> DEFINE q == o + x
  <2>6. q \in Nat /\ Lies(b, q, owner \o Written(r)) /\ Len(Data(r)) \in Byte
    BY <2>3, <2>5
  <2> HIDE DEF q
  <2>7. Fields(b, q, owner, r)
    BY <2>3, <2>6, WrittenFields
  <2> HIDE DEF m, n
  <2>8. o + u = q + m + 10 + n
    BY <2>3, <2>4 DEF q
  <2> QED BY <2>2, <2>6, <2>7, <2>8, Zenon DEF q, m, n, r
<1> HIDE DEF P
<1>10. RecordsLie(b, o, owner, records, P)
  BY <1>8, <1>9, Zenon DEF RecordsLie, R
<1> QED BY <1>10

SaysThat(b, text, owner, records) ==
    b \in Seq(Byte) /\ Says(b, Labels(text), owner, records)

\* A reply that opens so, with its records in a row, says them.
LEMMA OpensSays ==
    ASSUME NEW b, NEW text \in Domain, NEW owner, NEW records, NEW C,
           Opens(b, Labels(text), Len(records), C),
           \E P : RecordsLie(b, 12 + Len(Encoded(Labels(text))) + 4, owner, records, P)
    PROVE  SaysThat(b, text, owner, records)
BY Zenon DEF Opens, SaysThat, Says

LEMMA CodecSays ==
    ASSUME NEW text \in Domain
    PROVE  SaysThat(code(decode(Request(text))), text, Pointer, <<SpoofedRecord>>)
<1> DEFINE labels == Labels(text)
           H == <<133, 128, 0, 1, 0, 1, 0, 0, 0, 0>>
           T == <<0, 1, 0, 1>>
           w == <<192, 12, 0, 1, 0, 1, 0, 0, 0, 0, 0, 4>>
           C == w \o Spoofed
           E == Encoded(labels)
           X == ((Id \o H) \o E) \o T
           b == X \o C
           o == 12 + Len(E) + 4
           records == <<SpoofedRecord>>
<1>1. Counts(H, 1) /\ T \in Seq(Byte) /\ Len(T) = 4 /\ w \in Seq(Byte)
  BY DEF Counts, Byte
<1>2. /\ Id \in Seq(Byte) /\ Len(Id) = 2 /\ labels \in Seq(Label) /\ 1 \in Nat
      /\ Spoofed \in Seq(Byte) /\ Len(records) = 1
  BY CodecAssumption, ClientAssumption, SpoofedIs
<1>3. code(decode(Request(text))) = (X \o w) \o Spoofed
  <2>1. code(decode(Request(text))) = CodecReply(labels)
    BY CodecWrites
  <2> HIDE DEF labels
  <2> QED BY <2>1, Zenon DEF CodecReply
<1>4. b = Built(Id, H, labels, T, C)
  <2> HIDE DEF H, T, C, labels
  <2> QED BY Zenon DEF Built
<1>5. C \in Seq(Byte) /\ E \in Seq(Byte) /\ Len(E) \in Nat
  <2>1. E \in Seq(Byte)
    BY <1>2, EncodedLong
  <2> HIDE DEF E, w, labels
  <2> QED BY <1>1, <1>2, <2>1, ConcatJoins
<1> DEFINE R == <<SpoofedRecord>>
<1>6. X \in Seq(Byte)
  <2> DEFINE A == Id \o H
             AE == A \o E
  <2>1. H \in Seq(Byte)
    BY <1>1 DEF Counts
  <2> HIDE DEF H
  <2>2. A \in Seq(Byte)
    BY <1>2, <2>1, ConcatJoins
  <2> HIDE DEF A, E
  <2>3. AE \in Seq(Byte)
    BY <1>5, <2>2, ConcatJoins
  <2> HIDE DEF AE, T
  <2>4. AE \o T \in Seq(Byte)
    BY <1>1, <2>3, ConcatJoins
  <2> QED BY <2>4 DEF AE, A
<1> HIDE DEF H, T, labels
<1>7. Opens(b, labels, 1, C)
  <2> HIDE DEF C
  <2> DEFINE n == 1
  <2>1. n \in Nat /\ Counts(H, n)
    BY <1>1
  <2> HIDE DEF n
  <2>2. Opens(Built(Id, H, labels, T, C), labels, n, C)
    BY <1>1, <1>2, <1>5, <2>1, ReplyOpens
  <2> HIDE DEF b
  <2> QED BY <1>4, <2>2, Zenon DEF n
<1> HIDE DEF X
<1>8. OneText(X, w, Spoofed)
  <2> HIDE DEF w
  <2> QED BY <1>1, <1>2, <1>6, ThreeTexts
<1>9. code(decode(Request(text))) = b
  <2> HIDE DEF w
  <2> QED BY <1>3, <1>8, Zenon DEF OneText
<1> HIDE DEF b
<1>10. Lies(b, o, C) /\ o \in Nat
  <2>1. Lies(b, o, C)
    BY <1>7, Zenon DEF Opens
  <2> HIDE DEF E, b
  <2> QED BY <1>5, <2>1
<1> HIDE DEF o
<1>11. Fields(b, o, Pointer, SpoofedRecord)
  <2>1. Lies(b, o, <<192, 12, 0, 1, 0, 1, 0, 0, 0, 0, 0, 4>> \o Spoofed)
    BY <1>10
  <2> QED BY <1>10, <2>1, SpoofedFields
<1> DEFINE e == o + Len(Pointer) + 10 + Len(Data(SpoofedRecord))
           P == [k \in 0..1 |-> IF k = 0 THEN o ELSE e]
<1>12. RecordsLie(b, o, Pointer, records, P)
  <2>1. /\ P[0] = o /\ P[1] = e /\ records[1] = SpoofedRecord /\ Len(records) = 1
        /\ \A k \in 1..1 : k = 1 /\ k - 1 = 0
    OBVIOUS
  <2> HIDE DEF P, records
  <2>2. ASSUME NEW k \in 1..Len(records)
        PROVE  /\ P[k - 1] \in Nat /\ Fields(b, P[k - 1], Pointer, records[k])
               /\ P[k] = P[k - 1] + Len(Pointer) + 10 + Len(Data(records[k]))
    <3>1. k = 1 /\ k - 1 = 0
      BY <2>1
    <3> QED BY <1>10, <1>11, <2>1, <3>1, Zenon DEF e
  <2> QED BY <2>1, <2>2, Zenon DEF RecordsLie
<1>13. \E Q : RecordsLie(b, 12 + Len(Encoded(labels)) + 4, Pointer, records, Q)
  BY <1>12, Zenon DEF o, E
<1>14. SaysThat(b, text, Pointer, records)
  <2>1. Opens(b, Labels(text), Len(records), C)
    BY <1>2, <1>7, Zenon DEF labels
  <2>2. \E Q : RecordsLie(b, 12 + Len(Encoded(Labels(text))) + 4, Pointer, records, Q)
    BY <1>13, Zenon DEF labels
  <2> HIDE DEF records, C
  <2> QED BY <2>1, <2>2, OpensSays
<1> QED BY <1>9, <1>14, Zenon

\* What stands behind a text.
LEMMA RestIs ==
    ASSUME NEW C, NEW s \in Seq(C), NEW t \in Seq(C), NEW n, n = Len(s) + 1
    PROVE  SubSeq(s \o t, n, Len(s \o t)) = t
<1> DEFINE u == s \o t
           x == SubSeq(u, n, Len(u))
<1>1. u \in Seq(C) /\ Joins(u, s, t)
  BY ConcatJoins
<1> HIDE DEF u
<1>2. /\ Len(u) = Len(s) + Len(t) /\ Len(s) \in Nat /\ Len(t) \in Nat
      /\ \A i \in 1..Len(t) : u[i + Len(s)] = t[i]
  BY <1>1, Zenon DEF Joins
<1>3. n \in 1..(Len(u) + 1) /\ Len(u) \in 0..Len(u) /\ n \in Nat
  BY <1>2
<1>4. /\ x \in Seq(C) /\ Len(x) = IF n <= Len(u) THEN Len(u) - n + 1 ELSE 0
      /\ \A i \in 1..Len(u) - n + 1 : x[i] = u[n + i - 1]
  <2> HIDE DEF x
  <2>1. /\ x \in Seq(C) /\ Len(x) = IF n <= Len(u) THEN Len(u) - n + 1 ELSE 0
        /\ \A i \in 1..Len(u) - n + 1 : x[i] = u[n + i - 1]
    BY <1>1, <1>3, SubSeqProperties DEF x
  <2> QED BY <2>1
<1> HIDE DEF x
<1>5. Len(x) = Len(t) /\ Len(u) - n + 1 = Len(t)
  BY <1>2, <1>4
<1>6. \A i \in 1..Len(t) : x[i] = t[i]
  <2> TAKE i \in 1..Len(t)
  <2>1. n + i - 1 = i + Len(s) /\ i \in 1..Len(u) - n + 1
    BY <1>2, <1>5
  <2> QED BY <1>2, <1>4, <2>1, Zenon
<1>7. x = t
  BY <1>4, <1>5, <1>6, SeqEqual
<1> QED BY <1>7 DEF x, u

\* What a server copies of a request: the id and the question.
LEMMA RequestCopied ==
    ASSUME NEW text \in Domain
    PROVE  LET b == Request(text)
           IN  /\ SubSeq(b, 1, 2) \in Seq(Byte) /\ Len(SubSeq(b, 1, 2)) = 2
               /\ SubSeq(b, Header + 1, Len(b)) = Encoded(Labels(text)) \o <<0, 1, 0, 1>>
<1> DEFINE H == <<1, 0, 0, 1, 0, 0, 0, 0, 0, 0>>
           A == Id \o H
           E == Encoded(Labels(text))
           T == <<0, 1, 0, 1>>
           b == Request(text)
<1>1. b = (A \o E) \o T /\ E \in Seq(Byte)
  BY RequestIs
<1>2. /\ H \in Seq(Byte) /\ Len(H) = 10 /\ T \in Seq(Byte)
      /\ Id \in Seq(Byte) /\ Len(Id) = 2
  BY CodecAssumption DEF Byte
<1> HIDE DEF H, T, E, b
<1>3. A \in Seq(Byte) /\ Joins(A, Id, H)
  BY <1>2, ConcatJoins
<1> HIDE DEF A
<1>4. Len(A) = 12
  BY <1>2, <1>3 DEF Joins
<1>5. E \o T \in Seq(Byte)
  BY <1>1, <1>2, ConcatJoins
<1>6. OneText(A, E, T)
  BY <1>1, <1>2, <1>3, ThreeTexts
<1> DEFINE Q == E \o T
<1>7. b = A \o Q /\ Q \in Seq(Byte)
  BY <1>1, <1>5, <1>6, Zenon DEF OneText
<1> HIDE DEF Q
<1>8. SubSeq(b, Header + 1, Len(b)) = Q
  <2>1. Header + 1 = Len(A) + 1
    BY <1>4 DEF Header
  <2>2. SubSeq(A \o Q, Header + 1, Len(A \o Q)) = Q
    BY <1>3, <1>7, <2>1, RestIs
  <2> QED BY <1>7, <2>2, Zenon
<1>9. SubSeq(b, 1, 2) \in Seq(Byte) /\ Len(SubSeq(b, 1, 2)) = 2
  <2>1. A \o Q \in Seq(Byte) /\ Joins(A \o Q, A, Q)
    BY <1>3, <1>7, ConcatJoins
  <2>2. b \in Seq(Byte) /\ Len(b) = Len(A) + Len(Q) /\ Len(Q) \in Nat
    BY <1>7, <2>1, Zenon DEF Joins
  <2>3. 1 \in 1..(Len(b) + 1) /\ 2 \in 0..Len(b)
    BY <1>4, <2>2
  <2>4. SubSeq(b, 1, 2) \in Seq(Byte) /\ Len(SubSeq(b, 1, 2)) = IF 1 <= 2 THEN 2 - 1 + 1 ELSE 0
    BY <2>2, <2>3, SubSeqProperties
  <2> QED BY <2>4
<1> QED BY <1>8, <1>9, Zenon DEF Q, E, T, b

LEMMA FlagBytes == 0 \in Byte /\ 1 \in Byte /\ 128 \in Byte /\ 129 \in Byte
BY DEF Byte

LEMMA OtherSays ==
    ASSUME NEW q, NEW text \in Domain, q.bytes = Request(text),
           NEW owner \in {Root, Pointer}, NEW records \in Seq(Record), Len(records) \in Byte,
           \A i \in DOMAIN records : Len(Data(records[i])) \in Byte
    PROVE  SaysThat(OtherReply(q, owner, records), text, owner, records)
<1> DEFINE labels == Labels(text)
           n == Len(records)
           H == <<129, 128, 0, 1, 0, n, 0, 0, 0, 0>>
           T == <<0, 1, 0, 1>>
           row == [i \in DOMAIN records |-> owner \o Written(records[i])]
           C == Concat(row)
           E == Encoded(labels)
           I == SubSeq(q.bytes, 1, 2)
           A == I \o H
           b == OtherReply(q, owner, records)
           o == 12 + Len(E) + 4
<1>1. I \in Seq(Byte) /\ Len(I) = 2 /\ Question(q) = E \o T
  <2>1. LET m == Request(text)
        IN  /\ SubSeq(m, 1, 2) \in Seq(Byte) /\ Len(SubSeq(m, 1, 2)) = 2
            /\ SubSeq(m, Header + 1, Len(m)) = Encoded(Labels(text)) \o <<0, 1, 0, 1>>
    BY RequestCopied
  <2> QED BY <2>1, Zenon DEF Question
<1>2. n \in Byte /\ n \in Nat
  <2> HIDE DEF n
  <2> QED BY ByteNat DEF n
<1>3. Counts(H, n) /\ T \in Seq(Byte) /\ Len(T) = 4
  <2> HIDE DEF n
  <2>1. 0 \in Byte /\ 1 \in Byte /\ 128 \in Byte /\ 129 \in Byte
    BY FlagBytes
  <2>2. /\ H \in Seq(Byte) /\ Len(H) = 10
        /\ H[3] = 0 /\ H[4] = 1 /\ H[5] = 0 /\ H[6] = n
    BY <1>2, <2>1
  <2>3. T \in Seq(Byte) /\ Len(T) = 4
    BY <2>1
  <2> HIDE DEF H, T
  <2> QED BY <2>2, <2>3 DEF Counts
<1>4. labels \in Seq(Label)
  BY ClientAssumption
<1>5. C \in Seq(Byte)
  <2>1. \A i \in DOMAIN records : row[i] \in Seq(Byte)
    <3> TAKE i \in DOMAIN records
    <3>1. row[i] = owner \o Written(records[i])
      OBVIOUS
    <3> DEFINE r == records[i]
    <3>2. r \in Record /\ Len(Data(r)) \in Byte
      OBVIOUS
    <3> HIDE DEF r, row
    <3>3. owner \o Written(r) \in Seq(Byte)
      BY <3>2, WrittenType
    <3> QED BY <3>1, <3>3 DEF r
  <2>2. DOMAIN records = 1..n /\ DOMAIN row = DOMAIN records /\ row = [i \in 1..n |-> row[i]]
    OBVIOUS
  <2> HIDE DEF row, n
  <2>3. row \in [1..n -> Seq(Byte)]
    BY <2>1, <2>2
  <2>4. row \in Seq(Seq(Byte))
    BY <1>2, <2>3, SeqDef
  <2>5. PICK g : ConcatRun(g, row, Byte) /\ Concat(row) = g[Len(row)]
    BY <2>4, ConcatRuns
  <2>6. Len(row) \in 0..Len(row)
    BY <2>4
  <2>7. g[Len(row)] \in Seq(Byte)
    BY <2>5, <2>6, Zenon DEF ConcatRun
  <2> QED BY <2>5, <2>7
<1>6. E \in Seq(Byte) /\ Len(E) \in Nat
  <2>1. E \in Seq(Byte)
    BY <1>4, EncodedLong
  <2> HIDE DEF E
  <2> QED BY <2>1
<1> HIDE DEF labels
<1>7. b = (A \o (E \o T)) \o C
  <2> HIDE DEF E, T
  <2> QED BY <1>1, Zenon DEF OtherReply
<1>8. A \in Seq(Byte)
  <2>1. H \in Seq(Byte)
    BY <1>3, Zenon DEF Counts
  <2> HIDE DEF H, I
  <2> QED BY <1>1, <2>1, ConcatJoins
<1> HIDE DEF b
<1>9. b = Built(I, H, labels, T, C)
  <2>1. OneText(A, E, T)
    <3> HIDE DEF A, E, T
    <3> QED BY <1>3, <1>6, <1>8, ThreeTexts
  <2> HIDE DEF T, H, I, C
  <2> QED BY <1>7, <2>1, Zenon DEF OneText, Built
<1> HIDE DEF H, T, I
<1>10. Opens(b, labels, n, C)
  <2> HIDE DEF n, C, E
  <2>1. Opens(Built(I, H, labels, T, C), labels, n, C)
    BY <1>1, <1>2, <1>3, <1>4, <1>5, ReplyOpens
  <2> QED BY <1>9, <2>1, Zenon
<1>11. \E P : RecordsLie(b, o, owner, records, P)
  <2>1. Lies(b, o, C)
    <3> HIDE DEF C
    <3> QED BY <1>10, Zenon DEF Opens
  <2>2. o \in Nat
    <3> HIDE DEF E
    <3> QED BY <1>6
  <2> HIDE DEF o, b
  <2>3. Lies(b, o, Concat([i \in DOMAIN records |-> owner \o Written(records[i])]))
    BY <2>1
  <2> QED BY <2>2, <2>3, RecordsRow
<1>12. SaysThat(b, text, owner, records)
  <2>1. Opens(b, Labels(text), Len(records), C)
    BY <1>10, Zenon DEF labels
  <2>2. \E Q : RecordsLie(b, 12 + Len(Encoded(Labels(text))) + 4, owner, records, Q)
    BY <1>11, Zenon DEF o, E, labels
  <2> HIDE DEF C
  <2> QED BY <2>1, <2>2, OpensSays
<1> QED BY <1>12 DEF b

(***************************************************************************)
(* What follows a reply in the buffer changes nothing.                     *)
(***************************************************************************)
\* The flags that the client does not wait for.
Refused(b) == b \in Seq(Byte) /\ Lies(b, 2, <<132>>)

LEMMA StillRefused ==
    ASSUME NEW b, Refused(b), NEW t \in Seq(Byte)
    PROVE  Refused(b \o t)
<1> DEFINE p == 2
           x == <<132>>
<1>1. b \in Seq(Byte) /\ Lies(b, p, x) /\ p \in Nat
  BY DEF Refused
<1> HIDE DEF p, x
<1>2. Lies(b \o t, p, x) /\ b \o t \in Seq(Byte)
  BY <1>1, LiesStill, ConcatProperties
<1> QED BY <1>2, Zenon DEF Refused, p, x

LEMMA NotAccepted ==
    ASSUME NEW b, Refused(b)
    PROVE  ~ Accepted(b)
<1> DEFINE x == <<132>>
<1>1. Len(x) = 1 /\ x[1] = 132 /\ 1 \in 1..1 /\ 2 + 1 = 3
  OBVIOUS
<1>2. Lies(b, 2, x)
  BY Zenon DEF Refused
<1> HIDE DEF x
<1>3. At(b, 3) = 132
  <2>1. \A j \in 1..Len(x) : At(b, 2 + j) = x[j]
    BY <1>2, Zenon DEF Lies
  <2>2. At(b, 2 + 1) = x[1]
    BY <1>1, <2>1
  <2> QED BY <1>1, <2>2
<1> DEFINE y == At(b, 3)
           accepted == Accepted(b)
<1>4. accepted => y \in {129, 133}
  BY Zenon DEF Accepted
<1>5. y = 132
  BY <1>3
<1> HIDE DEF y, accepted
<1>6. ~ accepted
  BY <1>4, <1>5
<1> QED BY <1>6 DEF accepted

LEMMA DaemonRefused ==
    ASSUME NEW q, NEW text \in Domain, q.bytes = Request(text)
    PROVE  Refused(DaemonReply(q))
<1> DEFINE I == SubSeq(q.bytes, 1, 2)
           H == <<132, 0, 0, 1, 0, 1, 0, 0, 0, 0>>
           R == <<192, 12, 0, 1, 0, 1, 0, 0, 14, 16, 0, 4>>
           A == I \o H
           Q == Question(q)
           E == Encoded(Labels(text))
           T == <<0, 1, 0, 1>>
<1>1. I \in Seq(Byte) /\ Len(I) = 2 /\ Q = E \o T
  <2>1. LET m == Request(text)
        IN  /\ SubSeq(m, 1, 2) \in Seq(Byte) /\ Len(SubSeq(m, 1, 2)) = 2
            /\ SubSeq(m, Header + 1, Len(m)) = Encoded(Labels(text)) \o <<0, 1, 0, 1>>
    BY RequestCopied
  <2> QED BY <2>1, Zenon DEF Question
<1>2. /\ H \in Seq(Byte) /\ Len(H) = 10 /\ H[1] = 132
      /\ R \in Seq(Byte) /\ T \in Seq(Byte) /\ Spoofed \in Seq(Byte)
  BY SpoofedIs DEF Byte
<1>3. E \in Seq(Byte)
  <2>1. Labels(text) \in Seq(Label)
    BY ClientAssumption
  <2> QED BY <2>1, EncodedLong
<1>4. DaemonReply(q) = ((A \o Q) \o R) \o Spoofed
  BY Zenon DEF DaemonReply
<1> HIDE DEF E, T
<1>5. Q \in Seq(Byte)
  BY <1>1, <1>2, <1>3, ConcatProperties
<1> HIDE DEF I, H, R, Q
<1>6. A \in Seq(Byte) /\ Joins(A, I, H)
  BY <1>1, <1>2, ConcatJoins
<1> HIDE DEF A
<1>7. Refused(A)
  <2> DEFINE x == <<132>>
  <2>1. Len(x) = 1 /\ x[1] = H[1]
    BY <1>2
  <2> HIDE DEF x
  <2>2. /\ Len(A) = Len(I) + Len(H) /\ \A i \in 1..Len(H) : A[i + Len(I)] = H[i]
    BY <1>6, Zenon DEF Joins
  <2>3. Len(A) = 12 /\ DOMAIN A = 1..12 /\ 1 + Len(I) = 3 /\ 1 \in 1..Len(H)
    BY <1>1, <1>2, <1>6, <2>2
  <2>4. A[3] = x[1]
    BY <2>1, <2>2, <2>3, Zenon
  <2>5. 3 \in 1..12
    OBVIOUS
  <2>6. At(A, 3) = x[1]
    BY <2>3, <2>4, <2>5, Zenon DEF At
  <2>7. Len(A) \in Nat /\ Len(x) \in Nat /\ 2 + Len(x) <= Len(A)
    BY <2>1, <2>3
  <2>8. ASSUME NEW j \in 1..Len(x) PROVE At(A, 2 + j) = x[j]
    <3>1. j = 1 /\ 2 + j = 3
      BY <2>1
    <3> QED BY <2>6, <3>1, Zenon
  <2>9. Lies(A, 2, x)
    BY <2>7, <2>8, Zenon DEF Lies
  <2> QED BY <1>6, <2>9, Zenon DEF Refused, x
<1>8. Refused(A \o Q)
  BY <1>5, <1>7, StillRefused
<1>9. Refused((A \o Q) \o R)
  BY <1>2, <1>8, StillRefused
<1>10. Refused(((A \o Q) \o R) \o Spoofed)
  BY <1>2, <1>9, StillRefused
<1> QED BY <1>4, <1>10, Zenon

\* What follows a reply in the buffer changes nothing of what it says.
LEMMA WordStill ==
    ASSUME NEW s \in Seq(Byte), NEW t \in Seq(Byte), NEW p \in Nat \ {0}, p + 1 <= Len(s)
    PROVE  Word(s \o t, p) = Word(s, p)
<1> DEFINE u == s \o t
<1>1. u \in Seq(Byte) /\ Joins(u, s, t)
  BY ConcatJoins
<1> HIDE DEF u
<1>2. /\ Len(u) = Len(s) + Len(t) /\ Len(s) \in Nat /\ Len(t) \in Nat
      /\ \A i \in 1..Len(s) : u[i] = s[i]
  BY <1>1, Zenon DEF Joins
<1>3. DOMAIN u = 1..Len(u) /\ DOMAIN s = 1..Len(s)
  BY <1>1
<1>4. ASSUME NEW i \in 1..Len(s) PROVE At(u, i) = At(s, i)
  <2>1. i \in 1..Len(u)
    BY <1>2
  <2> QED BY <1>2, <1>3, <2>1, Zenon DEF At
<1>5. p \in 1..Len(s) /\ p + 1 \in 1..Len(s)
  BY <1>2
<1>6. At(u, p) = At(s, p) /\ At(u, p + 1) = At(s, p + 1)
  BY <1>4, <1>5
<1> QED BY <1>6, Zenon DEF Word, u

LEMMA FieldsStill ==
    ASSUME NEW b \in Seq(Byte), NEW t \in Seq(Byte), NEW o \in Nat, NEW owner \in {Root, Pointer},
           NEW r \in Record, Fields(b, o, owner, r)
    PROVE  Fields(b \o t, o, owner, r)
<1> DEFINE p == o + Len(owner)
           D == Data(r)
<1>1. /\ Lies(b, o, owner) /\ Word(b, p + 1) = Kind(r)
      /\ Word(b, p + 9) = Len(D) /\ Lies(b, p + 10, D)
  BY Zenon DEF Fields
<1>2. p \in Nat
  BY OwnerType
<1> HIDE DEF p, D
<1>3. Len(D) \in Nat /\ p + 10 + Len(D) <= Len(b) /\ Len(b) \in Nat
  BY <1>1, Zenon DEF Lies
<1>4. /\ p + 1 \in Nat \ {0} /\ (p + 1) + 1 <= Len(b)
      /\ p + 9 \in Nat \ {0} /\ (p + 9) + 1 <= Len(b) /\ p + 10 \in Nat
  BY <1>2, <1>3
<1>5. Word(b \o t, p + 1) = Word(b, p + 1)
  BY <1>4, WordStill
<1>6. Word(b \o t, p + 9) = Word(b, p + 9)
  BY <1>4, WordStill
<1>7. Lies(b \o t, o, owner)
  BY <1>1, LiesStill
<1> DEFINE d == p + 10
<1>8. d \in Nat /\ Lies(b, d, D)
  BY <1>1, <1>4
<1> HIDE DEF d
<1>9. Lies(b \o t, d, D)
  BY <1>8, LiesStill
<1> QED BY <1>1, <1>5, <1>6, <1>7, <1>9, Zenon DEF Fields, p, D, d

LEMMA StillSays ==
    ASSUME NEW b, NEW text \in Domain, NEW owner \in {Root, Pointer},
           NEW records \in Seq(Record), SaysThat(b, text, owner, records), NEW t \in Seq(Byte)
    PROVE  SaysThat(b \o t, text, owner, records)
<1> DEFINE labels == Labels(text)
           E == Encoded(labels)
           o == 12 + Len(E) + 4
           u == b \o t
           n == Len(records)
<1>1. b \in Seq(Byte) /\ Says(b, labels, owner, records)
  BY Zenon DEF SaysThat
<1> HIDE DEF labels
<1>2. /\ Word(b, 5) = 1 /\ Word(b, 7) = n /\ Lies(b, 12, E)
      /\ \E P : RecordsLie(b, o, owner, records, P)
  BY <1>1, Zenon DEF Says
<1>3. PICK P : RecordsLie(b, o, owner, records, P)
  BY <1>2
<1> HIDE DEF o, E
<1>4. 12 \in Nat /\ 5 \in Nat \ {0} /\ 7 \in Nat \ {0} /\ 5 + 1 <= Len(b) /\ 7 + 1 <= Len(b)
  <2>1. Len(b) \in Nat /\ Len(E) \in Nat /\ 12 + Len(E) <= Len(b)
    BY <1>2, Zenon DEF Lies
  <2> QED BY <2>1
<1>5. Word(u, 5) = 1
  <2>1. Word(b \o t, 5) = Word(b, 5)
    BY <1>1, <1>4, WordStill
  <2> QED BY <1>2, <2>1
<1>6. Word(u, 7) = n
  <2>1. Word(b \o t, 7) = Word(b, 7)
    BY <1>1, <1>4, WordStill
  <2> HIDE DEF n
  <2> QED BY <1>2, <2>1
<1>7. Lies(u, 12, E)
  <2> DEFINE z == 12
  <2>1. z \in Nat /\ Lies(b, z, E)
    BY <1>2, <1>4
  <2> HIDE DEF z
  <2>2. Lies(b \o t, z, E)
    BY <1>1, <2>1, LiesStill
  <2> QED BY <2>2 DEF z
<1>8. RecordsLie(u, o, owner, records, P)
  <2>1. /\ P[0] = o
        /\ \A k \in 1..Len(records) :
              /\ P[k - 1] \in Nat /\ Fields(b, P[k - 1], owner, records[k])
              /\ P[k] = P[k - 1] + Len(owner) + 10 + Len(Data(records[k]))
    BY <1>3, Zenon DEF RecordsLie
  <2>2. ASSUME NEW k \in 1..Len(records)
        PROVE  Fields(u, P[k - 1], owner, records[k])
    <3> DEFINE r == records[k]
               x == P[k - 1]
    <3>1. r \in Record
      OBVIOUS
    <3>2. x \in Nat /\ Fields(b, x, owner, r)
      BY <2>1, Zenon
    <3> HIDE DEF r, x
    <3>3. Fields(b \o t, x, owner, r)
      BY <1>1, <3>1, <3>2, FieldsStill
    <3> QED BY <3>3, Zenon DEF r, x
  <2> HIDE DEF u
  <2> QED BY <2>1, <2>2, Zenon DEF RecordsLie
<1>9. u \in Seq(Byte)
  BY <1>1, ConcatProperties
<1>10. Says(u, labels, owner, records)
  <2>1. \E Q : RecordsLie(u, o, owner, records, Q)
    BY <1>8, Zenon
  <2> HIDE DEF u
  <2> QED BY <1>5, <1>6, <1>7, <2>1, Zenon DEF Says, o, E, n
<1> QED BY <1>9, <1>10, Zenon DEF SaysThat, labels, u

(***************************************************************************)
(* What a look-up finds is what its reply says.                            *)
(***************************************************************************)
Readable(b, text, records) ==
    /\ text \in Domain /\ records \in Seq(Record) /\ Len(records) \in Byte
    /\ \A i \in DOMAIN records : Len(Data(records[i])) \in Byte
    /\ \E owner \in {Root, Pointer} : SaysThat(b, text, owner, records)

LEMMA ReadableIs ==
    ASSUME NEW b, NEW text, NEW records, Readable(b, text, records)
    PROVE  /\ Len(b) \in Nat \ {0}
           /\ Parse(b, Len(b)) = Said(records, text)
<1>1. PICK owner \in {Root, Pointer} : SaysThat(b, text, owner, records)
  BY Zenon DEF Readable
<1>2. b \in Seq(Byte) /\ Says(b, Labels(text), owner, records)
  BY <1>1, Zenon DEF SaysThat
<1>3. /\ text \in Domain /\ records \in Seq(Record) /\ Len(records) \in Byte
      /\ \A i \in DOMAIN records : Len(Data(records[i])) \in Byte
  BY Zenon DEF Readable
<1> DEFINE jumps == Len(b)
<1>4. jumps \in Nat \ {0}
  <2> DEFINE e == Len(Encoded(Labels(text)))
             n == Len(b)
  <2>1. Lies(b, 12, Encoded(Labels(text)))
    BY <1>2, Zenon DEF Says
  <2>2. n \in Nat /\ e \in Nat /\ 12 + e <= n
    BY <2>1, Zenon DEF Lies
  <2> HIDE DEF e, n
  <2>3. n \in Nat \ {0}
    BY <2>2
  <2> QED BY <2>3 DEF n
<1> HIDE DEF jumps
<1>5. Parse(b, jumps) = Said(records, text)
  BY <1>1, <1>2, <1>3, <1>4, ReplyRead
<1> QED BY <1>4, <1>5 DEF jumps

LEMMA StillReadable ==
    ASSUME NEW b, NEW text, NEW records, Readable(b, text, records), NEW t \in Seq(Byte)
    PROVE  Readable(b \o t, text, records)
<1>1. PICK owner \in {Root, Pointer} : SaysThat(b, text, owner, records)
  BY Zenon DEF Readable
<1>2. /\ text \in Domain /\ records \in Seq(Record) /\ Len(records) \in Byte
      /\ \A i \in DOMAIN records : Len(Data(records[i])) \in Byte
  BY Zenon DEF Readable
<1>3. SaysThat(b \o t, text, owner, records)
  BY <1>1, <1>2, StillSays
<1> QED BY <1>2, <1>3, Zenon DEF Readable

LEMMA CodecReadable ==
    ASSUME NEW text \in Domain
    PROVE  Readable(code(decode(Request(text))), text, <<SpoofedRecord>>)
<1> DEFINE records == <<SpoofedRecord>>
<1>1. SaysThat(code(decode(Request(text))), text, Pointer, records)
  BY CodecSays
<1>2. /\ records \in Seq(Record) /\ Len(records) = 1
      /\ \A i \in DOMAIN records : records[i] = SpoofedRecord
  BY SpoofedIs
<1>3. Len(Data(SpoofedRecord)) = 4 /\ 4 \in Byte /\ 1 \in Byte
  BY SpoofedIs DEF Byte
<1>4. Pointer \in {Root, Pointer}
  OBVIOUS
<1> HIDE DEF records
<1>5. Readable(code(decode(Request(text))), text, records)
  BY <1>1, <1>2, <1>3, <1>4, Zenon DEF Readable
<1> QED BY <1>5 DEF records

LEMMA OtherReadable ==
    ASSUME NEW q, NEW text \in Domain, q.bytes = Request(text), NEW owner \in Owner,
           NEW records \in Found
    PROVE  Readable(OtherReply(q, owner, records), text, records)
<1>1. /\ owner \in {Root, Pointer} /\ records \in Seq(Record) /\ Len(records) \in Byte
      /\ \A i \in DOMAIN records : Len(Data(records[i])) \in Byte
  BY ClientAssumption
<1>2. SaysThat(OtherReply(q, owner, records), text, owner, records)
  BY <1>1, OtherSays
<1> QED BY <1>1, <1>2, Zenon DEF Readable

\* A datagram that the client passes over, or understands.
Sound(d) ==
    /\ d.bytes \in Seq(Byte)
    /\ Refused(d.bytes) \/ Readable(d.bytes, d.domain, d.answers)

LEMMA ServersSound ==
    ASSUME NEW q, q.domain \in Domain, q.bytes = Request(q.domain)
    PROVE  /\ Sound(Reply(q, code(decode(q.bytes)), <<SpoofedRecord>>))
           /\ \A owner \in Owner, records \in Found :
                 Sound(Reply(q, OtherReply(q, owner, records), records))
           /\ Sound(Reply(q, DaemonReply(q), <<SpoofedRecord>>))
<1>1. \A bytes, answers : /\ Reply(q, bytes, answers).bytes = bytes
                          /\ Reply(q, bytes, answers).domain = q.domain
                          /\ Reply(q, bytes, answers).answers = answers
  BY DEF Reply
<1> DEFINE text == q.domain
<1>2. text \in Domain /\ q.bytes = Request(text)
  OBVIOUS
<1> HIDE DEF text
<1>3. Readable(code(decode(q.bytes)), text, <<SpoofedRecord>>)
  BY <1>2, CodecReadable
<1>4. \A owner \in Owner, records \in Found : Readable(OtherReply(q, owner, records), text, records)
  BY <1>2, OtherReadable
<1>5. Refused(DaemonReply(q))
  BY <1>2, DaemonRefused
<1>6. \A b, records : Readable(b, text, records) => b \in Seq(Byte)
  BY Zenon DEF Readable, SaysThat
<1>7. \A bytes, answers : Readable(bytes, text, answers) => Sound(Reply(q, bytes, answers))
  BY <1>1, <1>6, Zenon DEF Sound, text
<1>8. \A bytes, answers : Refused(bytes) => Sound(Reply(q, bytes, answers))
  BY <1>1, Zenon DEF Sound, Refused
<1> QED BY <1>3, <1>4, <1>5, <1>7, <1>8, Zenon

LEMMA PartType ==
    ASSUME NEW C, NEW s \in Seq(C), NEW m \in Nat \ {0}
    PROVE  SubSeq(s, m, Len(s)) \in Seq(C)
<1> DEFINE n == Len(s)
<1>1. n \in Nat
  OBVIOUS
<1>2. CASE m <= n
  <2>1. m \in 1..(n + 1) /\ n \in 0..n
    BY <1>1, <1>2
  <2> QED BY <2>1, SubSeqProperties
<1>3. CASE m > n
  <2>1. SubSeq(s, m, n) = <<>>
    <3> HIDE DEF n
    <3> QED BY <1>1, <1>3, SubSeqEmpty
  <2> QED BY <2>1, EmptySeq
<1> QED BY <1>1, <1>2, <1>3

\* The buffer that a sound datagram has been received in.
LEMMA BufferRead ==
    ASSUME NEW d, Sound(d), NEW buf \in Seq(Byte),
           NEW rest, rest = SubSeq(buf, Len(d.bytes) + 1, Len(buf)), NEW new, new = d.bytes \o rest
    PROVE  /\ new \in Seq(Byte)
           /\ Accepted(new) => /\ Parse(new, Len(new)) = Said(d.answers, d.domain)
                               /\ Readable(new, d.domain, d.answers)
<1> DEFINE b == d.bytes
<1>1. b \in Seq(Byte) /\ (Refused(b) \/ Readable(b, d.domain, d.answers))
  BY Zenon DEF Sound
<1> DEFINE m == Len(b) + 1
<1>2. m \in Nat \ {0}
  <2> HIDE DEF b
  <2> QED BY <1>1
<1>3. rest \in Seq(Byte)
  <2>1. rest = SubSeq(buf, m, Len(buf))
    OBVIOUS
  <2> HIDE DEF m
  <2> QED BY <1>2, <2>1, PartType
<1>4. new = b \o rest
  OBVIOUS
<1> HIDE DEF b
<1>5. new \in Seq(Byte)
  <2>1. b \o rest \in Seq(Byte)
    BY <1>1, <1>3, ConcatJoins
  <2> QED BY <1>4, <2>1, Zenon
<1>6. CASE Refused(b)
  <2>1. Refused(new)
    BY <1>3, <1>4, <1>6, StillRefused
  <2> QED BY <1>5, <2>1, NotAccepted
<1>7. CASE Readable(b, d.domain, d.answers)
  <2> DEFINE text == d.domain
             records == d.answers
  <2> HIDE DEF text, records
  <2>1. Readable(b, text, records)
    BY <1>7 DEF text, records
  <2>2. Readable(new, text, records)
    BY <1>3, <1>4, <2>1, StillReadable
  <2>3. Parse(new, Len(new)) = Said(records, text)
    BY <2>2, ReadableIs
  <2> QED BY <1>5, <2>2, <2>3 DEF text, records
<1> QED BY <1>1, <1>6, <1>7

Address == [1..4 -> Byte]

Finding(found) ==
    /\ found = [ok |-> found.ok, ips |-> found.ips, cnames |-> found.cnames]
    /\ found.ips \in Seq(Address)

LEMMA TakeFinds ==
    ASSUME NEW found, Finding(found), NEW r \in Record, NEW text
    PROVE  Finding(Take(found, r, text))
<1> DEFINE ok == found.ok
           ips == found.ips
           cnames == found.cnames
           alias == Alias(r, text)
<1>1. found = [ok |-> ok, ips |-> ips, cnames |-> cnames] /\ ips \in Seq(Address)
  BY Zenon DEF Finding
<1>2. Take(found, r, text) = IF ~ found.ok THEN found
        ELSE CASE r.type = "A"     -> [found EXCEPT !.ips = Append(@, r.ip)]
               [] r.type = "CNAME" -> IF Fits(alias)
                                      THEN [found EXCEPT !.cnames = Append(@, alias)]
                                      ELSE [found EXCEPT !.ok = FALSE]
               [] OTHER            -> found
  BY Zenon DEF Take
<1> HIDE DEF ips, cnames, ok, alias
<1>3. \/ r.type = "A" /\ r.ip \in Address
      \/ r.type = "CNAME"
      \/ r.type = "other"
  BY RecordKinds, Zenon DEF Address
<1> DEFINE t == Take(found, r, text)
           more == Append(ips, r.ip)
           named == Append(cnames, alias)
<1>4. \/ t = found
      \/ r.type = "A" /\ t = [ok |-> ok, ips |-> more, cnames |-> cnames]
      \/ t = [ok |-> ok, ips |-> ips, cnames |-> named]
      \/ t = [ok |-> FALSE, ips |-> ips, cnames |-> cnames]
  <2>1. /\ [found EXCEPT !.ips = Append(@, r.ip)] = [ok |-> ok, ips |-> more, cnames |-> cnames]
        /\ [found EXCEPT !.cnames = Append(@, alias)] =
              [ok |-> ok, ips |-> ips, cnames |-> named]
        /\ [found EXCEPT !.ok = FALSE] = [ok |-> FALSE, ips |-> ips, cnames |-> cnames]
    <3>1. /\ found.ips = ips /\ found.cnames = cnames
          /\ found = [ok |-> ok, ips |-> ips, cnames |-> cnames]
      BY <1>1 DEF ips, cnames
    <3>2. [found EXCEPT !.ips = Append(@, r.ip)] = [found EXCEPT !.ips = more]
      BY <3>1, Zenon
    <3>3. [found EXCEPT !.cnames = Append(@, alias)] = [found EXCEPT !.cnames = named]
      BY <3>1, Zenon
    <3> HIDE DEF more, named
    <3>4. /\ [found EXCEPT !.ips = more] = [ok |-> ok, ips |-> more, cnames |-> cnames]
          /\ [found EXCEPT !.cnames = named] = [ok |-> ok, ips |-> ips, cnames |-> named]
          /\ [found EXCEPT !.ok = FALSE] = [ok |-> FALSE, ips |-> ips, cnames |-> cnames]
      <4>1. [found EXCEPT !.ips = more] = [ok |-> ok, ips |-> more, cnames |-> cnames]
        BY <3>1
      <4>2. [found EXCEPT !.cnames = named] = [ok |-> ok, ips |-> ips, cnames |-> named]
        BY <3>1
      <4>3. [found EXCEPT !.ok = FALSE] = [ok |-> FALSE, ips |-> ips, cnames |-> cnames]
        <5> DEFINE no == FALSE
        <5> HIDE DEF no
        <5>1. [found EXCEPT !.ok = no] = [ok |-> no, ips |-> ips, cnames |-> cnames]
          BY <3>1
        <5> QED BY <5>1 DEF no
      <4> QED BY <4>1, <4>2, <4>3
    <3> QED BY <3>2, <3>3, <3>4, Zenon
  <2> HIDE DEF t, more, named
  <2>2. CASE r.type = "A"
    BY <1>2, <2>1, <2>2 DEF t
  <2>3. CASE r.type = "CNAME"
    BY <1>2, <2>1, <2>3 DEF t
  <2>4. CASE r.type = "other"
    BY <1>2, <2>1, <2>4 DEF t
  <2> QED BY <1>3, <2>2, <2>3, <2>4
<1>5. r.type = "A" => more \in Seq(Address)
  <2> SUFFICES ASSUME r.type = "A" PROVE more \in Seq(Address)
    OBVIOUS
  <2>1. r.ip \in Address
    BY <1>3
  <2> HIDE DEF more
  <2> QED BY <1>1, <2>1, AppendProperties DEF more
<1> HIDE DEF t, more, named
<1>6. CASE t = found
  BY <1>6 DEF t
<1>7. CASE r.type = "A" /\ t = [ok |-> ok, ips |-> more, cnames |-> cnames]
  BY <1>5, <1>7 DEF Finding, t
<1>8. CASE t = [ok |-> ok, ips |-> ips, cnames |-> named]
  BY <1>1, <1>8 DEF Finding, t
<1>9. CASE t = [ok |-> FALSE, ips |-> ips, cnames |-> cnames]
  BY <1>1, <1>9 DEF Finding, t
<1> QED BY <1>4, <1>6, <1>7, <1>8, <1>9

LEMMA SaidFinds ==
    ASSUME NEW records \in Seq(Record), NEW text
    PROVE  Finding(Said(records, text))
<1> DEFINE N == Len(records)
<1>1. PICK f : SaidRun(f, records, text) /\ Said(records, text) = f[N]
  BY SaidRuns
<1>2. /\ f[0] = [ok |-> Fits(Asked(text)), ips |-> <<>>, cnames |-> <<>>]
      /\ \A i \in 1..N : f[i] = Take(f[i - 1], records[i], text)
  BY <1>1, Zenon DEF SaidRun
<1>3. N \in Nat /\ \A i \in 1..N : records[i] \in Record
  OBVIOUS
<1> DEFINE S == {k \in 0..N : Finding(f[k])}
<1> HIDE DEF N
<1>4. 0 \in S
  <2> DEFINE ok == Fits(Asked(text))
  <2>1. f[0] = [ok |-> ok, ips |-> <<>>, cnames |-> <<>>] /\ <<>> \in Seq(Address)
    BY <1>2, EmptySeq
  <2> HIDE DEF ok
  <2>2. Finding(f[0])
    BY <2>1 DEF Finding
  <2>3. 0 \in 0..N
    BY <1>3
  <2> QED BY <2>2, <2>3
<1>5. ASSUME NEW k \in 0..N, k < N, k \in S PROVE k + 1 \in S
  <2>1. k + 1 \in 1..N /\ k + 1 \in 0..N /\ (k + 1) - 1 = k
    BY <1>3, <1>5
  <2> DEFINE r == records[k + 1]
  <2>2. f[k + 1] = Take(f[k], r, text) /\ r \in Record
    BY <1>2, <1>3, <2>1, Zenon
  <2>3. Finding(f[k])
    BY <1>5
  <2> HIDE DEF r
  <2>4. Finding(f[k + 1])
    BY <2>2, <2>3, TakeFinds
  <2> QED BY <2>1, <2>4
<1>6. N \in S
  <2> HIDE DEF S
  <2>1. 0..N \subseteq S
    BY <1>3, <1>4, <1>5, SetInduction
  <2>2. N \in 0..N
    BY <1>3
  <2> QED BY <2>1, <2>2
<1> QED BY <1>1, <1>6

(***************************************************************************)
(* The invariants.                                                         *)
(***************************************************************************)
\* What is in the network and in the buffer is text, and a datagram that the
\* client would accept says what its server has answered.
Understood ==
    /\ recvbuf \in Seq(Byte) /\ \A d \in toClient : Sound(d)
    /\ FindsWhatIsSaid
    /\ \A i \in DOMAIN result.ips : Len(result.ips[i]) = 4

LEMMA NothingFound == Len(Empty.ips) = 0 /\ \A i \in DOMAIN Empty.ips : Len(Empty.ips[i]) = 4
BY DEF Empty

LEMMA AnswerUnderstood ==
    ASSUME Understood, NEW q, NEW bytes, NEW answers, NEW heard,
           Answer(q, bytes, answers, heard), Sound(Reply(q, bytes, answers))
    PROVE  Understood'
<1>1. toClient' = toClient \cup {Reply(q, bytes, answers)}
  BY Zenon DEF Answer
<1>2. UNCHANGED <<phase, recvbuf, result, from>>
  BY DEF Answer, client
<1>3. \A d \in toClient' : Sound(d)
  BY <1>1, Zenon DEF Understood
<1>4. (\A d \in toClient : Sound(d))'
  BY <1>3
<1>5. (recvbuf \in Seq(Byte) /\ \A i \in DOMAIN result.ips : Len(result.ips[i]) = 4)'
  BY <1>2 DEF Understood
<1>6. FindsWhatIsSaid'
  BY <1>2 DEF Understood, FindsWhatIsSaid
<1> QED BY <1>4, <1>5, <1>6 DEF Understood

LEMMA ReceiveUnderstood ==
    ASSUME Understood, NEW d \in toClient, Receive(d)
    PROVE  Understood'
<1> DEFINE rest == SubSeq(recvbuf, Len(d.bytes) + 1, Len(recvbuf))
           new == d.bytes \o rest
<1>1. Sound(d) /\ recvbuf \in Seq(Byte)
  BY DEF Understood
<1>2. /\ phase = "waiting" /\ toClient' = toClient \ {d} /\ recvbuf' = new
      /\ IF Accepted(new)
         THEN /\ result' = Parse(new, Len(new))
              /\ from' = [answers |-> d.answers, domain |-> d.domain, n |-> d.n]
         ELSE UNCHANGED <<phase, result, from>>
  BY Zenon DEF Receive
<1> HIDE DEF rest
<1>3. /\ new \in Seq(Byte)
      /\ Accepted(new) => /\ Parse(new, Len(new)) = Said(d.answers, d.domain)
                          /\ Readable(new, d.domain, d.answers)
  <2>1. rest = SubSeq(recvbuf, Len(d.bytes) + 1, Len(recvbuf))
    BY DEF rest
  <2> HIDE DEF new
  <2>2. new = d.bytes \o rest
    BY DEF new
  <2> QED BY <1>1, <2>1, <2>2, BufferRead
<1> HIDE DEF new
<1>4. \A e \in toClient' : Sound(e)
  BY <1>2, Zenon DEF Understood
<1>5. CASE Accepted(new)
  <2>1. /\ result' = Said(d.answers, d.domain) /\ Readable(new, d.domain, d.answers)
        /\ from'.answers = d.answers /\ from'.domain = d.domain
    BY <1>2, <1>3, <1>5
  <2>2. d.answers \in Seq(Record)
    BY <2>1, Zenon DEF Readable
  <2> DEFINE said == Said(d.answers, d.domain)
             records == d.answers
  <2>3. said = Said(records, d.domain) /\ records \in Seq(Record)
    BY <2>2
  <2>4. Finding(said)
    <3> HIDE DEF records
    <3> QED BY <2>3, SaidFinds
  <2> HIDE DEF said
  <2>5. \A i \in DOMAIN said.ips : Len(said.ips[i]) = 4
    <3>1. said.ips \in Seq(Address)
      BY <2>4, Zenon DEF Finding
    <3> DEFINE ips == said.ips
    <3>2. \A i \in DOMAIN ips : ips[i] \in Address
      <4>1. ips \in Seq(Address)
        BY <3>1
      <4> HIDE DEF ips
      <4> QED BY <4>1
    <3> HIDE DEF ips
    <3>3. \A x \in Address : Len(x) = 4
      <4> SUFFICES ASSUME NEW x \in Address PROVE Len(x) = 4
        OBVIOUS
      <4> DEFINE n == 4
      <4>1. x \in [1..n -> Byte] /\ n \in Nat
        BY DEF Address
      <4> HIDE DEF n
      <4>2. x \in Seq(Byte)
        BY <4>1, SeqDef
      <4>3. DOMAIN x = 1..n
        BY <4>1, Zenon
      <4> QED BY <4>1, <4>2, <4>3, LenProperties DEF n
    <3>4. \A i \in DOMAIN ips : Len(ips[i]) = 4
      BY <3>2, <3>3, Zenon
    <3> QED BY <3>4 DEF ips
  <2>6. (\A i \in DOMAIN result.ips : Len(result.ips[i]) = 4)'
    BY <2>1, <2>5, Zenon DEF said
  <2>7. FindsWhatIsSaid'
    BY <2>1, Zenon DEF FindsWhatIsSaid
  <2> QED BY <1>2, <1>3, <1>4, <2>6, <2>7, Zenon DEF Understood
<1>6. CASE ~ Accepted(new)
  <2>1. UNCHANGED <<phase, result, from>>
    BY <1>2, <1>6
  <2>2. FindsWhatIsSaid' /\ (\A i \in DOMAIN result.ips : Len(result.ips[i]) = 4)'
    BY <2>1 DEF Understood, FindsWhatIsSaid
  <2> QED BY <1>2, <1>3, <1>4, <2>2, Zenon DEF Understood
<1> QED BY <1>5, <1>6

LEMMA UnderstoodInductive ==
    ASSUME Requests, Understood, [Next]_vars
    PROVE  Understood'
<1>1. CASE \E text \in Domain : DNSLookup(text)
  <2>1. UNCHANGED toClient /\ phase' = "waiting" /\ recvbuf' = <<>> /\ result' = Empty
    BY <1>1 DEF DNSLookup
  <2>2. recvbuf' \in Seq(Byte)
    BY <2>1, EmptySeq
  <2>3. (\A i \in DOMAIN result.ips : Len(result.ips[i]) = 4)'
    BY <2>1, NothingFound
  <2>4. FindsWhatIsSaid' /\ \A d \in toClient' : Sound(d)
    BY <2>1 DEF Understood, FindsWhatIsSaid
  <2> QED BY <2>2, <2>3, <2>4, Zenon DEF Understood
<1>2. CASE Server
  <2>1. PICK q \in toServer : \E bytes, answers, heard :
           Answer(q, bytes, answers, heard) /\ Sound(Reply(q, bytes, answers))
    <3>1. CASE CodecAnswers
      BY <3>1, ServersSound, Zenon DEF CodecAnswers, Requests
    <3>2. CASE OtherAnswers
      <4>1. PICK q \in toServer, owner \in Owner, records \in Found :
               Answer(q, OtherReply(q, owner, records), records, records # <<>>)
        BY <3>2, Zenon DEF OtherAnswers
      <4>2. q.domain \in Domain /\ q.bytes = Request(q.domain)
        BY Zenon DEF Requests
      <4>3. Sound(Reply(q, OtherReply(q, owner, records), records))
        BY <4>2, ServersSound
      <4> QED BY <4>1, <4>3
    <3>3. CASE DaemonAnswers
      BY <3>3, ServersSound, Zenon DEF DaemonAnswers, Requests
    <3> QED BY <1>2, <3>1, <3>2, <3>3 DEF Server
  <2> QED BY <2>1, AnswerUnderstood
<1>3. CASE LoseRequest
  BY <1>3 DEF LoseRequest, client, Understood, FindsWhatIsSaid
<1>4. CASE LoseReply
  <2>1. UNCHANGED <<phase, recvbuf, result, from>> /\ \A d \in toClient' : d \in toClient
    BY <1>4 DEF LoseReply, client
  <2> QED BY <2>1 DEF Understood, FindsWhatIsSaid
<1>5. CASE DuplicateRequest
  BY <1>5 DEF DuplicateRequest, client, Understood, FindsWhatIsSaid
<1>6. CASE DuplicateReply
  <2>1. UNCHANGED <<phase, recvbuf, result, from>>
    BY <1>6 DEF DuplicateReply, client
  <2>2. PICK d \in toClient : toClient' = toClient \cup {[d EXCEPT !.copy = copies + 1]}
    BY <1>6 DEF DuplicateReply
  <2> DEFINE e == [d EXCEPT !.copy = copies + 1]
  <2>3. e.bytes = d.bytes /\ e.domain = d.domain /\ e.answers = d.answers
    OBVIOUS
  <2> HIDE DEF e
  <2>4. Sound(e)
    BY <2>3, Zenon DEF Understood, Sound
  <2>5. \A c \in toClient' : Sound(c)
    BY <2>2, <2>4, Zenon DEF Understood, e
  <2>6. FindsWhatIsSaid' /\ (\A i \in DOMAIN result.ips : Len(result.ips[i]) = 4)'
    BY <2>1 DEF Understood, FindsWhatIsSaid
  <2> QED BY <2>1, <2>5, <2>6 DEF Understood
<1>7. CASE Arrive
  BY <1>7, ReceiveUnderstood, Zenon DEF Arrive
<1>8. CASE UNCHANGED vars
  BY <1>8 DEF vars, client, net, Understood, FindsWhatIsSaid
<1> QED BY <1>1, <1>2, <1>3, <1>4, <1>5, <1>6, <1>7, <1>8, Zenon DEF Next, Network

LEMMA UnderstoodAlways == Spec => []Understood
<1>1. Init => Understood
  <2> SUFFICES ASSUME Init PROVE Understood
    OBVIOUS
  <2>1. recvbuf = <<>> /\ toClient = {} /\ phase = "idle" /\ result = Empty
    BY DEF Init
  <2> QED BY <2>1, EmptySeq, NothingFound DEF Understood, FindsWhatIsSaid
<1>2. Requests /\ Understood /\ [Next]_vars => Understood'
  BY UnderstoodInductive
<1> QED BY <1>1, <1>2, RequestsAlways, PTL DEF Spec

\* A look-up that returns has found what its reply says: the addresses and the
\* aliases of all its records, in their order, however RFC 1035 has the names
\* written, or a failure where a name is longer than the client's room
\* (RecvDNSResponse and DecodeDotStr), whatever was lost, duplicated or delayed
\* and whatever an earlier datagram has left in the buffer.
THEOREM FindsTheorem == Spec => []FindsWhatIsSaid
<1>1. Understood => FindsWhatIsSaid
  BY DEF Understood
<1> QED BY <1>1, UnderstoodAlways, PTL

(***************************************************************************)
(* Types.                                                                  *)
(***************************************************************************)
\* The part of the type invariant that takes no look at a datagram's bytes.
Counters ==
    /\ phase \in {"idle", "waiting", "returned"}
    /\ lookups \in 0..MaxLookups /\ copies \in 0..MaxCopies /\ lost \in 0..MaxLost
    /\ domain \in Domain \cup {<<>>}
    /\ \A d \in toServer \cup toClient : d.n \in 1..lookups
    /\ phase # "returned" => result = Empty

LEMMA CountersAnswer ==
    ASSUME Counters, NEW q \in toServer, NEW bytes, NEW answers, NEW heard,
           Answer(q, bytes, answers, heard)
    PROVE  Counters'
<1>1. /\ toServer' = toServer \ {q} /\ toClient' = toClient \cup {Reply(q, bytes, answers)}
      /\ UNCHANGED <<phase, lookups, domain, result, copies, lost>>
  BY DEF Answer, client
<1>2. Reply(q, bytes, answers).n = q.n
  BY DEF Reply
<1> QED BY <1>1, <1>2 DEF Counters

LEMMA CountersInductive ==
    ASSUME Counters, [Next]_vars
    PROVE  Counters'
<1> USE ClientAssumption
<1>1. CASE \E text \in Domain : DNSLookup(text)
  <2>1. PICK text \in Domain : DNSLookup(text)
    BY <1>1
  <2> DEFINE asked == [n |-> lookups + 1, domain |-> text, bytes |-> Request(text), copy |-> 0]
  <2>2. /\ lookups < MaxLookups /\ phase' = "waiting" /\ lookups' = lookups + 1
        /\ domain' = text /\ result' = Empty /\ toServer' = toServer \cup {asked}
        /\ UNCHANGED <<toClient, copies, lost>>
    BY <2>1, Zenon DEF DNSLookup
  <2>3. asked.n = lookups + 1
    OBVIOUS
  <2> HIDE DEF asked
  <2>4. lookups \in Nat /\ lookups + 1 \in 0..MaxLookups /\ lookups + 1 \in 1..(lookups + 1)
        /\ 1..lookups \subseteq 1..(lookups + 1)
    BY <2>2 DEF Counters
  <2> QED BY <2>2, <2>3, <2>4 DEF Counters
<1>2. CASE Server
  <2>1. PICK q \in toServer : \E bytes, answers, heard : Answer(q, bytes, answers, heard)
    <3>1. CASE CodecAnswers
      BY <3>1, Zenon DEF CodecAnswers
    <3>2. CASE OtherAnswers
      BY <3>2, Zenon DEF OtherAnswers
    <3>3. CASE DaemonAnswers
      BY <3>3, Zenon DEF DaemonAnswers
    <3> QED BY <1>2, <3>1, <3>2, <3>3 DEF Server
  <2> QED BY <2>1, CountersAnswer
<1>3. CASE LoseRequest
  BY <1>3 DEF LoseRequest, client, Counters
<1>4. CASE LoseReply
  BY <1>4 DEF LoseReply, client, Counters
<1>5. CASE DuplicateRequest
  <2>1. PICK q \in toServer : toServer' = toServer \cup {[q EXCEPT !.copy = copies + 1]}
    BY <1>5 DEF DuplicateRequest
  <2> DEFINE e == [q EXCEPT !.copy = copies + 1]
  <2>2. e.n = q.n /\ toServer' = toServer \cup {e}
    BY <2>1
  <2> HIDE DEF e
  <2>3. /\ copies < MaxCopies /\ copies' = copies + 1
        /\ UNCHANGED <<phase, lookups, domain, result, toClient, lost>>
    BY <1>5 DEF DuplicateRequest, client
  <2>4. copies' \in 0..MaxCopies
    BY <2>3 DEF Counters
  <2> QED BY <2>2, <2>3, <2>4 DEF Counters
<1>6. CASE DuplicateReply
  <2>1. PICK d \in toClient : toClient' = toClient \cup {[d EXCEPT !.copy = copies + 1]}
    BY <1>6 DEF DuplicateReply
  <2> DEFINE e == [d EXCEPT !.copy = copies + 1]
  <2>2. e.n = d.n /\ toClient' = toClient \cup {e}
    BY <2>1
  <2> HIDE DEF e
  <2>3. /\ copies < MaxCopies /\ copies' = copies + 1
        /\ UNCHANGED <<phase, lookups, domain, result, toServer, lost>>
    BY <1>6 DEF DuplicateReply, client
  <2>4. copies' \in 0..MaxCopies
    BY <2>3 DEF Counters
  <2> QED BY <2>2, <2>3, <2>4 DEF Counters
<1>7. CASE Arrive
  <2>1. PICK d \in toClient : Receive(d)
    BY <1>7, Zenon DEF Arrive
  <2>2. /\ phase = "waiting" /\ toClient' = toClient \ {d}
        /\ phase' = "returned" \/ UNCHANGED <<phase, result>>
        /\ UNCHANGED <<lookups, domain, toServer, copies, lost>>
    <3> DEFINE new == d.bytes \o SubSeq(recvbuf, Len(d.bytes) + 1, Len(recvbuf))
    <3>1. /\ phase = "waiting" /\ toClient' = toClient \ {d}
          /\ IF Accepted(new) THEN phase' = "returned" ELSE UNCHANGED <<phase, result, from>>
          /\ UNCHANGED <<lookups, domain, toServer, copies, lost, unheard>>
      BY <2>1, Zenon DEF Receive
    <3> HIDE DEF new
    <3> QED BY <3>1
  <2> QED BY <2>2 DEF Counters
<1>8. CASE UNCHANGED vars
  BY <1>8 DEF vars, client, net, Counters
<1> QED BY <1>1, <1>2, <1>3, <1>4, <1>5, <1>6, <1>7, <1>8, Zenon DEF Next, Network

LEMMA AllTyped ==
    ASSUME Counters, Requests, Understood
    PROVE  TypeOK
<1>1. \A d \in toServer : d.bytes \in Seq(Byte)
  <2> TAKE q \in toServer
  <2> DEFINE text == q.domain
  <2>1. text \in Domain /\ q.bytes = Request(text)
    BY Zenon DEF Requests
  <2> HIDE DEF text
  <2>2. Request(text) \in Seq(Byte)
    BY <2>1, RequestBytes, Zenon
  <2> QED BY <2>1, <2>2
<1>2. \A d \in toClient : d.bytes \in Seq(Byte)
  BY Zenon DEF Understood, Sound
<1>3. \A b \in Seq(Byte) : \A i \in DOMAIN b : b[i] \in Byte
  OBVIOUS
<1>4. \A d \in toServer \cup toClient : \A i \in DOMAIN d.bytes : d.bytes[i] \in Byte
  BY <1>1, <1>2, <1>3, Zenon
<1> QED BY <1>4, Zenon DEF TypeOK, Counters, Understood

\* Counters keep their bounds, datagrams are of look-ups begun and consist of
\* bytes, and a look-up that has not returned has found nothing.
THEOREM TypeTheorem == Spec => []TypeOK
<1>1. Init => Counters
  BY ClientAssumption DEF Init, Counters
<1>2. Counters /\ [Next]_vars => Counters'
  BY CountersInductive
<1>3. Counters /\ Requests /\ Understood => TypeOK
  BY AllTyped
<1> QED BY <1>1, <1>2, <1>3, RequestsAlways, UnderstoodAlways, PTL DEF Spec
=========================================================================
