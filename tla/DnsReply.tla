---------------------------- MODULE DnsReply ----------------------------
(***************************************************************************)
(* The bytes of a reply as DnsServer (src/src/dnsserver.cpp) puts them     *)
(* together: the header, the question with the name that encode_domain     *)
(* writes, and the records that prepare_dns_reply_* write field by field   *)
(* at offsets of their own; and what a resolver makes of them, which walks *)
(* from length to length.  Of id, type, class and the letters of the name, *)
(* which steer no reader, it does not matter what they are.                *)
(***************************************************************************)
EXTENDS DnsName

(***************************************************************************)
(* The records.  A write is a pair of an offset and the bytes put there.   *)
(***************************************************************************)
\* calloc, and the calls of memcpy in their order: the last one counts.
Over(writes, i)   == {k \in DOMAIN writes : i - writes[k][1] \in DOMAIN writes[k][2]}
Latest(writes, i) == CHOOSE k \in Over(writes, i) : \A j \in Over(writes, i) : j <= k

Laid(len, writes) ==
    [i \in 1..len |-> IF Over(writes, i) = {} THEN 0
                      ELSE LET w == writes[Latest(writes, i)] IN w[2][i - w[1]]]

\* With the length that put_block_date copies and the counts of the header.
Body(len, writes, answ, auth, addi) ==
    [data |-> Laid(len, writes), answ |-> answ, auth |-> auth, addi |-> addi]

Compressed == <<192, 12>>           \* a pointer to the name in the question
Internet   == <<0, 1>>
Address    == <<0, 1>>              \* type A
Hour       == <<0, 0, 14, 16>>
spoof_addr == <<172, 31, 255, 240>> \* or another

prepare_dns_reply_a ==
    Body(12 + 4,
         << <<0, Compressed>>, <<2, Address>>, <<4, Internet>>, <<6, Hour>>, <<10, <<0, 4>>>>,
            <<12, spoof_addr>> >>, 1, 0, 0)

Mail == <<4, 109, 97, 105, 108, 192, 12>>

\* Mutant: one of the offsets that are counted by hand is one too high.
prepare_dns_reply_mx_Shifted ==
    Body(12 + 2 + 7 + 17 + 4,
         << <<0, Compressed>>, <<2, <<0, 15>>>>, <<4, Internet>>, <<6, Hour>>, <<10, <<0, 9>>>>,
            <<12, <<0, 10>>>>, <<14, Mail>>,
            <<21, Mail>>, <<21 + 7, Address>>, <<21 + 9, Internet>>, <<21 + 11, Hour>>,
            <<21 + 16, <<0, 4>>>>, <<21 + 17, spoof_addr>> >>, 1, 0, 1)

prepare_dns_reply_mx ==
    Body(12 + 2 + 7 + 17 + 4,
         << <<0, Compressed>>, <<2, <<0, 15>>>>, <<4, Internet>>, <<6, Hour>>, <<10, <<0, 9>>>>,
            <<12, <<0, 10>>>>, <<14, Mail>>,
            <<21, Mail>>, <<21 + 7, Address>>, <<21 + 9, Internet>>, <<21 + 11, Hour>>,
            <<21 + 15, <<0, 4>>>>, <<21 + 17, spoof_addr>> >>, 1, 0, 1)

\* The record is there but not counted.
prepare_dns_reply_wins ==
    Body(12 + 4,
         << <<0, Compressed>>, <<2, <<255, 1>>>>, <<4, Internet>>, <<6, Hour>>, <<10, <<0, 4>>>>,
            <<12, spoof_addr>> >>, 0, 0, 0)

Srv == <<3, 115, 114, 118>>

prepare_dns_reply_srv(dn_offset) ==
    LET tgtoffset == <<192, 12 + dn_offset>>
    IN  Body(44,
             << <<0, Compressed>>, <<2, <<0, 33>>>>, <<4, Internet>>, <<6, Hour>>,
                <<10, <<0, 12>>>>, <<12, <<0, 0>>>>, <<14, <<0, 0>>>>, <<16, <<8, 0>>>>,
                <<18, Srv>>, <<22, tgtoffset>>,
                <<24, Srv>>, <<24 + 4, tgtoffset>>, <<24 + 6, Address>>, <<24 + 8, Internet>>,
                <<24 + 10, Hour>>, <<24 + 14, <<0, 4>>>>, <<24 + 16, spoof_addr>> >>, 1, 0, 1)

prepare_dns_reply_default ==
    Body(46,
         << <<0, Compressed>>, <<2, <<0, 6>>>>, <<4, Internet>>, <<6, Hour>>, <<10, <<0, 34>>>>,
            <<12, <<3, 110, 115, 49>>>>, <<16, Compressed>>,
            <<18, <<5, 97, 98, 117, 115, 101>>>>, <<24, Compressed>>,
            <<26, <<81, 121, 87, 245>>>>, <<30, Hour>>, <<34, <<0, 0, 2, 88>>>>,
            <<38, <<0, 9, 58, 128>>>>, <<42, <<0, 0, 0, 60>>>> >>, 0, 1, 0)

\* The switch of lines 140-161.
Prepare(type) ==
    IF type \in {"TXT", "PTR", "AAAA", "A"} THEN prepare_dns_reply_a
    ELSE IF type = "MX"   THEN prepare_dns_reply_mx
    ELSE IF type = "WINS" THEN prepare_dns_reply_wins
    ELSE IF type = "SRV"  THEN prepare_dns_reply_srv(0)
    ELSE prepare_dns_reply_default

(***************************************************************************)
(* The whole reply.                                                        *)
(***************************************************************************)
\* The id is not looked at.
encode_spoof_dns_header(answ, auth, addi) == <<0, 1, 132, 0, 0, 1, 0, answ, 0, auth, 0, addi>>

\* What encode_domain writes of these labels: the length, which is a char, and
\* the letters of each, and a zero behind the last.
Letters(n) == [i \in 1..n |-> 97]

NameOctets(labels) ==
    LET octets[n \in 0..Len(labels)] ==
            IF n = 0 THEN <<>>
            ELSE octets[n - 1] \o (<<Len(labels[n]) % 256>> \o Letters(Len(labels[n])))
    IN  octets[Len(labels)] \o <<0>>

\* Lines 165-175.
Octets(labels, body) ==
    encode_spoof_dns_header(body.answ, body.auth, body.addi)
    \o NameOctets(labels) \o Letters(4) \o body.data

(***************************************************************************)
(* A resolver, after RFC 1035.  Offsets in a message count from zero.      *)
(***************************************************************************)
Octet(m, at) == IF at + 1 \in DOMAIN m THEN m[at + 1] ELSE 0
Word(m, at)  == 256 * Octet(m, at) + Octet(m, at + 1)

\* Names consist of labels up to a zero or to a pointer; the only pointers here
\* are those to the question.  A name that does not end leads out of the message.
NameEnd(m, at) ==
    LET behind[o \in 0..Len(m) + 63] ==
            IF Octet(m, o) \in 1..63 THEN behind[o + 1 + Octet(m, o)] ELSE o
        last == behind[at]
    IN  IF Octet(m, last) = 0 THEN last + 1
        ELSE IF Octet(m, last) = 192 /\ Octet(m, last + 1) = 12 THEN last + 2
        ELSE Len(m) + 1

\* A record: its name, ten bytes with its type first and the length of its data
\* last, and the data.
DataAt(m, at)    == NameEnd(m, at) + 10
RecordEnd(m, at) == DataAt(m, at) + Word(m, DataAt(m, at) - 2)

\* What the data of the types used here consist of.
DataEnd(m, at) ==
    LET type == Word(m, NameEnd(m, at))
        data == DataAt(m, at)
    IN  CASE type = 1  -> data + 4                                  \* A
          [] type = 15 -> NameEnd(m, data + 2)                      \* MX
          [] type = 33 -> NameEnd(m, data + 6)                      \* SRV
          [] type = 6  -> NameEnd(m, NameEnd(m, data)) + 5 * 4      \* SOA
          [] OTHER     -> 0

\* The question, and then as many records as the header announces, the data of
\* each as long as its length says, up to the last byte.
Reads(m) ==
    LET records == Word(m, 6) + Word(m, 8) + Word(m, 10)
        start[n \in 0..records] ==
            IF n = 0 THEN NameEnd(m, 12) + 4 ELSE RecordEnd(m, start[n - 1])
    IN  /\ \A n \in 1..records : DataEnd(m, start[n - 1]) = RecordEnd(m, start[n - 1])
        /\ start[records] = Len(m)

\* Labels and names of the lengths that RFC 1035 allows; the root, which has no
\* label, is none of them.
Readable(labels) ==
    /\ labels # <<>> /\ \A i \in DOMAIN labels : Len(labels[i]) \in 1..63
    /\ WireLength(labels) <= 255
=========================================================================
