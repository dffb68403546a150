---------------------------- MODULE DnsClient ---------------------------
(***************************************************************************)
(* CDNSLookup (src/src/DNSLookup.cpp) and the servers that it may ask: one *)
(* built of the Query, Resolver and Response classes, the daemon's own     *)
(* DnsServer, and any other that answers with records as RFC 1035 writes   *)
(* them.  Datagrams may be lost and duplicated, and a duplicate may come   *)
(* at any later time, in a later look-up too: all of a process's requests  *)
(* have the same id, and the client compares nothing else.                 *)
(***************************************************************************)
EXTENDS DnsCodec

CONSTANTS
    Domain,     \* names to look up: dotted texts with a label at least
    Found,      \* what other servers answer: sequences of records; the labels of an
                \* alias that is pointed are continued by the name looked up
    Owner,      \* how the owner of their records is written
    MaxLookups, MaxCopies, MaxLost  \* bounds

\* A label, of the length that RFC 1035 allows, and the records of a reply.
Label == {l \in Seq(Char \ {Dot}) : Len(l) \in 1..63}

Record == [type : {"A"}, ip : [1..4 -> Byte]]
          \cup [type : {"CNAME"}, labels : Seq(Label) \ {<<>>}, pointed : BOOLEAN]
          \cup [type : {"other"}]

Root    == <<0>>
Pointer == <<192, Header>>  \* to the name in the question

\* Type and data of a record as RFC 1035 has them.
Kind(record) == CASE record.type = "A"     -> 1
                  [] record.type = "CNAME" -> 5
                  [] OTHER                 -> 16

Sized(labels) == Concat([i \in DOMAIN labels |-> <<Len(labels[i])>> \o labels[i]])

Data(record) == CASE record.type = "A"     -> record.ip
                  [] record.type = "CNAME" -> Sized(record.labels)
                                              \o (IF record.pointed THEN Pointer ELSE Root)
                  [] OTHER                 -> <<1, 97>>

\* A reply has room for its records and for their data.
ASSUME ClientAssumption ==
    /\ \A text \in Domain : text \in Seq(Char) /\ Labels(text) \in Seq(Label) \ {<<>>}
    /\ \A records \in Found : /\ records \in Seq(Record) /\ Len(records) \in Byte
                              /\ \A i \in DOMAIN records : Len(Data(records[i])) \in Byte
    /\ Owner \subseteq {Root, Pointer}
    /\ MaxLookups \in Nat /\ MaxCopies \in Nat /\ MaxLost \in Nat

VARIABLES
    phase,      \* of the client: "idle", "waiting", "returned"
    lookups,    \* look-ups begun
    domain,     \* the name looked up
    recvbuf,    \* of the look-up that waits
    result,     \* what the look-up that returned has found
    from,       \* history: the look-up whose reply it was taken from
    toServer, toClient,  \* datagrams on their way
    copies, lost,        \* history: datagrams duplicated and lost
    unheard     \* history: a server found no record, or does not repeat the wish
                \* for recursion

client == <<phase, lookups, domain, recvbuf, result, from>>
net    == <<toServer, toClient, copies, lost, unheard>>
vars   == <<client, net>>

NoReply == [answers |-> <<>>, n |-> 0]
Empty   == [ok |-> FALSE, ips |-> <<>>, cnames |-> <<>>]

Init ==
    /\ phase = "idle" /\ lookups = 0 /\ domain = <<>>
    /\ recvbuf = <<>> /\ result = Empty /\ from = NoReply
    /\ toServer = {} /\ toClient = {}
    /\ copies = 0 /\ lost = 0 /\ unheard = FALSE

\* Mutant: it does not wait for the one before.
DNSLookup_Overlaps(text) ==
    /\ lookups < MaxLookups
    /\ phase' = "waiting" /\ lookups' = lookups + 1 /\ domain' = text
    /\ recvbuf' = <<>> /\ result' = Empty /\ from' = NoReply
    /\ toServer' = toServer \cup
          {[n |-> lookups + 1, domain |-> text, bytes |-> Request(text), copy |-> 0]}
    /\ UNCHANGED <<toClient, copies, lost, unheard>>

\* Mutant: the lists keep what an earlier look-up found.
DNSLookup_KeepsLists(text) ==
    /\ phase # "waiting" /\ lookups < MaxLookups
    /\ phase' = "waiting" /\ lookups' = lookups + 1 /\ domain' = text
    /\ recvbuf' = <<>> /\ from' = NoReply
    /\ toServer' = toServer \cup
          {[n |-> lookups + 1, domain |-> text, bytes |-> Request(text), copy |-> 0]}
    /\ UNCHANGED <<result, toClient, copies, lost, unheard>>

\* SendDNSRequest; RecvDNSResponse clears the lists and its buffer.
DNSLookup(text) ==
    /\ phase # "waiting" /\ lookups < MaxLookups
    /\ phase' = "waiting" /\ lookups' = lookups + 1 /\ domain' = text
    /\ recvbuf' = <<>> /\ result' = Empty /\ from' = NoReply
    /\ toServer' = toServer \cup
          {[n |-> lookups + 1, domain |-> text, bytes |-> Request(text), copy |-> 0]}
    /\ UNCHANGED <<toClient, copies, lost, unheard>>

(***************************************************************************)
(* Servers.                                                                *)
(***************************************************************************)
Reply(q, bytes, answers) ==
    [n |-> q.n, domain |-> q.domain, answers |-> answers, bytes |-> bytes, copy |-> q.copy]

Answer(q, bytes, answers, heard) ==
    /\ toServer' = toServer \ {q}
    /\ toClient' = toClient \cup {Reply(q, bytes, answers)}
    /\ unheard' = (unheard \/ ~heard)
    /\ UNCHANGED <<client, copies, lost>>

SpoofedRecord == [type |-> "A", ip |-> Spoofed]

\* A server of Query::decode, Resolver::process and Response::code.
CodecAnswers ==
    \E q \in toServer :
        /\ decode(q.bytes).ends
        /\ Answer(q, code(decode(q.bytes)), <<SpoofedRecord>>, TRUE)

\* The question of a request, which a reply repeats.
Question(q) == SubSeq(q.bytes, Header + 1, Len(q.bytes))

Written(record) == <<0, Kind(record), 0, 1, 0, 0, 0, 9, 0, Len(Data(record))>> \o Data(record)

\* Names and messages are as long as RFC 1035 allows them to be, so that they fit
\* the client's packet (DNS_PACKET_MAX_SIZE) and its buffer of 1024 bytes.
ASSUME SizeAssumption ==
    \A text \in Domain, records \in Found :
        LET answers == Concat([i \in DOMAIN records |-> Pointer \o Written(records[i])])
        IN  /\ Len(Request(text)) <= Header + 255 + 4
            /\ Len(Request(text)) + Len(answers) <= 512

OtherReply(q, owner, records) ==
    SubSeq(q.bytes, 1, 2) \o <<129, 128, 0, 1, 0, Len(records), 0, 0, 0, 0>> \o Question(q)
    \o Concat([i \in DOMAIN records |-> owner \o Written(records[i])])

OtherAnswers ==
    \E q \in toServer, owner \in Owner, records \in Found :
        Answer(q, OtherReply(q, owner, records), records, records # <<>>)

\* DnsServer: "standard reply, no error", without the bit that repeats the
\* request's wish for recursion.
DaemonReply(q) ==
    SubSeq(q.bytes, 1, 2) \o <<132, 0, 0, 1, 0, 1, 0, 0, 0, 0>> \o Question(q)
    \o <<192, 12, 0, 1, 0, 1, 0, 0, 14, 16, 0, 4>> \o Spoofed

DaemonAnswers == \E q \in toServer : Answer(q, DaemonReply(q), <<SpoofedRecord>>, FALSE)

(***************************************************************************)
(* The network.                                                            *)
(***************************************************************************)
LoseRequest ==
    /\ lost < MaxLost /\ lost' = lost + 1
    /\ \E q \in toServer : toServer' = toServer \ {q}
    /\ UNCHANGED <<client, toClient, copies, unheard>>

LoseReply ==
    /\ lost < MaxLost /\ lost' = lost + 1
    /\ \E d \in toClient : toClient' = toClient \ {d}
    /\ UNCHANGED <<client, toServer, copies, unheard>>

DuplicateRequest ==
    /\ copies < MaxCopies /\ copies' = copies + 1
    /\ \E q \in toServer : toServer' = toServer \cup {[q EXCEPT !.copy = copies + 1]}
    /\ UNCHANGED <<client, toClient, lost, unheard>>

DuplicateReply ==
    /\ copies < MaxCopies /\ copies' = copies + 1
    /\ \E d \in toClient : toClient' = toClient \cup {[d EXCEPT !.copy = copies + 1]}
    /\ UNCHANGED <<client, toServer, lost, unheard>>

(***************************************************************************)
(* RecvDNSResponse: a datagram overwrites its own length of the buffer; one *)
(* that is not accepted is passed over, without a limit to the waiting.     *)
(***************************************************************************)
Receive(d) ==
    LET buf == d.bytes \o SubSeq(recvbuf, Len(d.bytes) + 1, Len(recvbuf))
    IN  /\ phase = "waiting"
        /\ toClient' = toClient \ {d}
        /\ recvbuf' = buf
        /\ IF Accepted(buf)
           THEN /\ phase' = "returned"
                /\ result' = Parse(buf, Len(buf))
                /\ from' = [answers |-> d.answers, domain |-> d.domain, n |-> d.n]
           ELSE UNCHANGED <<phase, result, from>>
        /\ UNCHANGED <<lookups, domain, toServer, copies, lost, unheard>>

Server  == CodecAnswers \/ OtherAnswers \/ DaemonAnswers
Network == LoseRequest \/ LoseReply \/ DuplicateRequest \/ DuplicateReply
Arrive  == \E d \in toClient : Receive(d)
Next    == (\E text \in Domain : DNSLookup(text)) \/ Server \/ Network \/ Arrive

Spec == Init /\ [][Next]_vars

\* A server serves, and the client's loop receives what has come: weak fairness,
\* with what enables the two actions written out.
FairSpec ==
    /\ Spec
    /\ []<>(toServer = {}) \/ []<><<Server>>_vars
    /\ []<>(phase # "waiting" \/ toClient = {}) \/ []<><<Arrive>>_vars

(***************************************************************************)
(* Properties.                                                             *)
(***************************************************************************)
TypeOK ==
    /\ phase \in {"idle", "waiting", "returned"}
    /\ lookups \in 0..MaxLookups /\ copies \in 0..MaxCopies /\ lost \in 0..MaxLost
    /\ domain \in Domain \cup {<<>>}
    /\ \A d \in toServer \cup toClient :
          d.n \in 1..lookups /\ \A i \in DOMAIN d.bytes : d.bytes[i] \in Byte
    /\ phase # "returned" => result = Empty
    /\ \A i \in DOMAIN result.ips : Len(result.ips[i]) = 4

Ended(labels)   == Concat([i \in DOMAIN labels |-> labels[i] \o <<Dot>>])
Dotted(labels)  == SubSeq(Ended(labels), 1, Len(Ended(labels)) - 1)
Encoded(labels) == Sized(labels) \o Root

\* What a server of this codec reads of a request is the name with a dot at its
\* end, and what it writes is a reply as RFC 1035 would have it, although the
\* encoder ends the name twice and the words behind it are a byte out of step.
CodecReplies ==
    \A q \in toServer :
        LET labels == Without(Split(q.domain, Dot), {<<>>})
        IN  /\ decode(q.bytes).name = Ended(labels)
            /\ code(decode(q.bytes)) =
                  Id \o <<133, 128, 0, 1, 0, 1, 0, 0, 0, 0>> \o Encoded(labels) \o <<0, 1, 0, 1>>
                  \o <<192, 12, 0, 1, 0, 1, 0, 0, 0, 0, 0, 4>> \o Spoofed

\* Whether the client has room for a name.
Fits(text) == Len(text) < DotStrSize

Asked(text) == Dotted(Without(Split(text, Dot), {<<>>}))

\* The name that a record spells, with the name asked for behind it if it is
\* pointed.
Alias(record, text) ==
    Dotted(IF record.pointed THEN record.labels \o Without(Split(text, Dot), {<<>>})
           ELSE record.labels)

Take(found, record, text) ==
    IF ~found.ok THEN found
    ELSE CASE record.type = "A"     -> [found EXCEPT !.ips = Append(@, record.ip)]
           [] record.type = "CNAME" -> IF Fits(Alias(record, text))
                                       THEN [found EXCEPT !.cnames = Append(@, Alias(record, text))]
                                       ELSE [found EXCEPT !.ok = FALSE]
           [] OTHER                 -> found

Said(records, text) ==
    LET found[n \in 0..Len(records)] ==
            IF n = 0 THEN [ok |-> Fits(Asked(text)), ips |-> <<>>, cnames |-> <<>>]
            ELSE Take(found[n - 1], records[n], text)
    IN  found[Len(records)]

\* A look-up finds what its reply says, addresses and aliases in their order,
\* however the names are compressed; it fails when there is a name that it has
\* no room for, with the records before it in the lists.
FindsWhatIsSaid == phase = "returned" => result = Said(from.answers, from.domain)

\* The inductive invariant behind the next property: without a duplicate, what
\* is on its way belongs to the look-up that waits and is a single datagram.
OwnTraffic ==
    /\ lookups \in Nat /\ copies \in Nat
    /\ copies = 0 =>
          /\ \A d \in toServer \cup toClient : d.n = lookups
          /\ toServer = {} \/ toClient = {}
          /\ \A d, e \in toServer \cup toClient : d = e
          /\ phase # "waiting" => toServer \cup toClient = {}
          /\ phase = "returned" => from.n = lookups

\* The reply that a look-up returns with is one to its own request, unless a
\* datagram has been duplicated: then it may be the answer to an earlier one.
AnswersOwnRequest == phase = "returned" /\ copies = 0 => from.n = lookups

\* Every look-up ends, unless a datagram is lost or its server's replies are not
\* what the client waits for: there is no time-out.
LookupEnds == phase = "waiting" ~> phase = "returned" \/ lost > 0 \/ unheard
=========================================================================
