---------------------------- MODULE DnsCodec ----------------------------
(***************************************************************************)
(* The two codecs of DNS messages next to the server's own: Query, Message *)
(* and Response (src/src/query.cpp, message.cpp, response.cpp) with what   *)
(* Resolver::process hands from one to the other, and that of the client   *)
(* CDNSLookup (src/src/DNSLookup.cpp).  A message is a sequence of bytes.  *)
(* A loop that walks from label to label is a recursive function of the    *)
(* number of its turns, with an operator for one turn.                     *)
(***************************************************************************)
EXTENDS CString

CONSTANTS
    Id,         \* the two bytes of the client's process id
    DotStrSize  \* the room for a name in the client, 128

ASSUME CodecAssumption == Id \in Seq(Byte) /\ Len(Id) = 2 /\ DotStrSize \in Nat \ {0}

\* get16bits, or ntohs of what a pointer points to; put16bits.
Word(b, p) == At(b, p) * 256 + At(b, p + 1)

Header == 12
Piece(b, p, n) == [i \in 1..n |-> At(b, p + i - 1)]

(***************************************************************************)
(* Query::decode.                                                          *)
(***************************************************************************)
\* Mutant: a dot between the labels only.
LabelRead_NoLastDot(st, b) ==
    LET n == At(b, st.p)
        dot == IF At(b, st.p + n + 1) = 0 THEN <<>> ELSE <<Dot>>
    IN  IF n \in 1..63 THEN [p |-> st.p + n + 1, text |-> st.text \o Piece(b, st.p + 1, n) \o dot]
        ELSE st

\* A dot behind every label; a byte with one of its two highest bits is never
\* passed over, so that the loop does not end.
LabelRead(st, b) ==
    LET n == At(b, st.p)
    IN  IF n \notin 1..63 THEN st
        ELSE [p |-> st.p + n + 1, text |-> st.text \o Piece(b, st.p + 1, n) \o <<Dot>>]

\* The copy of the name in binaryName is left out: only the log reads it, and from
\* the second label on it is written behind the end of its memory, which is
\* made longer afterwards (query.cpp:129-132).  The model is that of a run in
\* which what lies there bears it.
decode_qname(b, p) ==
    LET st[k \in 0..Len(b)] ==
            IF k = 0 THEN [p |-> p, text |-> <<>>] ELSE LabelRead(st[k - 1], b)
        end == st[Len(b)]
    IN  [text |-> end.text, ends |-> At(b, end.p) = 0]

\* decode_qname leaves the position where it was: type and class are read from
\* the first bytes of the name, and the next entry is looked for behind them.
\* The name of the last entry is kept.
decode(b) ==
    LET entries == Word(b, 5) + Word(b, 7)
        names   == [i \in 1..entries |-> decode_qname(b, Header + 1 + 4 * (i - 1))]
    IN  [id   |-> Piece(b, 1, 2),
         name |-> IF entries = 0 THEN <<>> ELSE names[entries].text,
         ends |-> \A i \in 1..entries : names[i].ends]

(***************************************************************************)
(* Response::code, of what Resolver::process copies from a query: its      *)
(* header, of which the id is used, and its name.                          *)
(***************************************************************************)
code_hdr(id) == id \o <<133, 128, 0, 1, 0, 1, 0, 0, 0, 0>>

Wire(labels) == Concat([i \in DOMAIN labels |-> <<Len(labels[i]) % 256>> \o labels[i]])

\* The text behind the last dot is a label too, and a zero follows it.
code_domain(text) == Wire(Split(text, Dot)) \o <<0>>

Spoofed == <<172, 31, 255, 240>>

code(query) ==
    code_hdr(query.id) \o code_domain(query.name)
    \o <<1, 0, 1, 192, 12, 0, 1, 0, 1, 0, 0, 0, 0, 0, 4>> \o Spoofed

(***************************************************************************)
(* CDNSLookup.                                                             *)
(***************************************************************************)
\* strtok passes over empty labels.
Labels(text) == Without(Split(text, Dot), {<<>>})

EncodeDotStr(text) == Wire(Labels(text))

Request(text) == Id \o <<1, 0, 0, 1, 0, 0, 0, 0, 0, 0>> \o EncodeDotStr(text) \o <<0, 0, 1, 0, 1>>

\* Where a pointer points: the 14 bits that follow its two.
JumpPos(b, p) == (Word(b, p) % 16384) + 1

\* Mutant: the length of a name that ends in a pointer is that of all its labels.
LabelDecoded_Through(st, b) ==
    LET n == At(b, st.p)
    IN  IF ~st.ok \/ n = 0 THEN st
        ELSE IF n < 64 THEN
            IF Len(st.text) + n + 1 > DotStrSize THEN [st EXCEPT !.ok = FALSE]
            ELSE [ok |-> TRUE, p |-> st.p + n + 1,
                  text |-> st.text \o Piece(b, st.p + 1, n) \o <<Dot>>,
                  length |-> st.length + n + 1, jumps |-> st.jumps, jumped |-> FALSE]
        ELSE IF st.jumps = 0 THEN [st EXCEPT !.ok = FALSE]
        ELSE [ok |-> TRUE, p |-> JumpPos(b, st.p), text |-> st.text,
              length |-> st.length, jumps |-> st.jumps - 1, jumped |-> FALSE]

\* jumped: a pointer has been followed, by a call of DecodeDotStr that counts a
\* length of its own.
Counted(st, n) == IF st.jumped THEN st.length ELSE st.length + n

LabelDecoded(st, b) ==
    LET n == At(b, st.p)
    IN  IF ~st.ok \/ n = 0 THEN st
        ELSE IF n < 64 THEN
            IF Len(st.text) + n + 1 > DotStrSize THEN [st EXCEPT !.ok = FALSE]
            ELSE [ok |-> TRUE, p |-> st.p + n + 1,
                  text |-> st.text \o Piece(b, st.p + 1, n) \o <<Dot>>,
                  length |-> Counted(st, n + 1), jumps |-> st.jumps, jumped |-> st.jumped]
        ELSE IF st.jumps = 0 THEN [st EXCEPT !.ok = FALSE]
        ELSE [ok |-> TRUE, p |-> JumpPos(b, st.p), text |-> st.text,
              length |-> Counted(st, 2), jumps |-> st.jumps - 1, jumped |-> TRUE]

\* jumps bounds the recursion, which the code leaves to the message; 0 stands
\* for a NULL start of packet, without which no pointer is followed.  The text
\* has a dot behind every label, so that its length is usPlainStrLen, and every
\* turn makes it longer or takes a jump away.
DecodeDotStr(b, p, jumps) ==
    LET turns == DotStrSize + jumps
        st[k \in 0..turns] ==
            IF k = 0 THEN [ok |-> TRUE, p |-> p, text |-> <<>>, length |-> 0,
                           jumps |-> jumps, jumped |-> FALSE]
            ELSE LabelDecoded(st[k - 1], b)
        end == st[turns]
    IN  [ok |-> end.ok, text |-> end.text,
         length |-> IF end.jumped THEN end.length ELSE end.length + 1]

\* Mutant: the flags are compared without the mask.
Accepted_Exactly(b) == Piece(b, 1, 2) = Id /\ Piece(b, 3, 2) = <<129, 0>> /\ Word(b, 7) > 0

\* The flags of RFC 1035 with the bits AA and RA left out: a reply to a query
\* that asked for recursion, not truncated and without an error.
Accepted(b) ==
    /\ Piece(b, 1, 2) = Id
    /\ At(b, 3) \in {129, 133} /\ At(b, 4) \in {0, 128}
    /\ Word(b, 7) > 0

\* The dot behind the last label gives way to the end of the text; the root has
\* none and leaves the text of the name before it.
Name(decoded, before) ==
    IF decoded.text = <<>> THEN before ELSE SubSeq(decoded.text, 1, Len(decoded.text) - 1)

\* A failure ends the parsing.
QuestionRead(st, b) ==
    LET asked == DecodeDotStr(b, st.p, 0)
    IN  IF ~st.ok THEN st
        ELSE [ok |-> asked.ok, p |-> st.p + asked.length + 4, name |-> Name(asked, st.name),
              ips |-> st.ips, cnames |-> st.cnames]

Questions(b) ==
    LET st[q \in 0..Word(b, 5)] ==
            IF q = 0 THEN [ok |-> TRUE, p |-> Header + 1, name |-> <<>>,
                           ips |-> <<>>, cnames |-> <<>>]
            ELSE QuestionRead(st[q - 1], b)
    IN  st[Word(b, 5)]

AnswerRead(st, b, jumps) ==
    LET owner == DecodeDotStr(b, st.p, jumps)
        p     == st.p + owner.length
        type  == Word(b, p)
        data  == p + 10
        alias == DecodeDotStr(b, data, jumps)
        cname == Name(alias, Name(owner, st.name))
    IN  IF ~st.ok THEN st
        ELSE IF ~owner.ok \/ (type = 5 /\ ~alias.ok) THEN [st EXCEPT !.ok = FALSE]
        ELSE [ok |-> TRUE, p |-> data + Word(b, p + 8),
              name   |-> IF type = 5 THEN cname ELSE Name(owner, st.name),
              ips    |-> IF type = 1 THEN Append(st.ips, Piece(b, data, 4)) ELSE st.ips,
              cnames |-> IF type = 5 THEN Append(st.cnames, Until(cname, NUL)) ELSE st.cnames]

Answers(b, jumps) ==
    LET st[a \in 0..Word(b, 7)] ==
            IF a = 0 THEN Questions(b) ELSE AnswerRead(st[a - 1], b, jumps)
    IN  st[Word(b, 7)]

\* What RecvDNSResponse makes of a reply that it accepts: a failure leaves what
\* was found before it in the lists.
Parse(b, jumps) ==
    LET end == Answers(b, jumps)
    IN  [ok |-> end.ok, ips |-> end.ips, cnames |-> end.cnames]
=========================================================================
