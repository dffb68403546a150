---------------------------- MODULE DnsServer ---------------------------
(***************************************************************************)
(* DnsServer::run (src/src/dnsserver.cpp): one thread that receives a      *)
(* datagram, answers it with a fixed record of the type asked for, and     *)
(* receives the next.  Nothing else touches its variables, so an iteration *)
(* of the loop is one action.                                              *)
(*                                                                         *)
(* What makes it interesting is the state that one iteration leaves to the *)
(* next: the buffer (a datagram overwrites only its own length of it), the *)
(* name (kept when dn_expand fails), and the client's address (kept when   *)
(* recvfrom fails).                                                        *)
(***************************************************************************)
EXTENDS DnsReply

CONSTANTS
    Client,        \* senders
    Id,            \* transaction ids
    Name,          \* names that can be asked for: sequences of labels
    Type,          \* query types that can be asked for
    MaxDatagrams   \* bound: datagrams received

Bad     == << <<"bad">> >> \* bytes that dn_expand cannot decode: a name cut short,
                       \* a compression pointer that leads nowhere
Nobody  == "nobody"    \* an address that recvfrom has not written
Nothing == <<>>        \* no datagram, or no reply

ASSUME DnsAssumption ==
    /\ Nobody \notin Client
    /\ Bad \notin Name
    /\ \A n \in Name : n \in Seq(Seq(STRING))
    /\ {"A", "other"} \subseteq Type
    /\ MaxDatagrams \in Nat

VARIABLES
    buffer,     \* what the receive buffer says
    name,       \* the text in the local variable name
    client,     \* clientAddress
    budget,     \* bound: datagrams that may still come
    received,   \* history: datagrams received from each client
    answered,   \* history: replies sent to each client
    last        \* history: the last datagram and the reply to it, if any

vars == <<buffer, name, client, budget, received, answered, last>>

(***************************************************************************)
(* Datagrams.  query stands for the test of lines 136-139: qr and opcode   *)
(* are zero, there is one question and no answer.  A datagram that is      *)
(* short lacks its last fields.                                            *)
(***************************************************************************)
Class == {"IN", "other"}
Asked == Name \cup {Bad}

Datagram ==
    [from : Client,
     bytes : {<<>>} \cup
             [id : Id] \cup
             [id : Id, query : BOOLEAN] \cup
             [id : Id, query : BOOLEAN, name : Asked] \cup
             [id : Id, query : BOOLEAN, name : Asked, type : Type] \cup
             [id : Id, query : BOOLEAN, name : Asked, type : Type, class : Class]]

\* Names as the buffer may hold them: received, or encoded for a reply.
Wire  == Asked \cup {encode_domain(Expand(n)) : n \in Name}
Bytes == [id : Id, query : BOOLEAN, name : Wire, type : Type, class : Class]

\* Stack memory is not initialised.
Init ==
    /\ buffer \in [id : Id, query : BOOLEAN, name : Asked, type : Type, class : Class]
    /\ name \in {Expand(n) : n \in Name}
    /\ client = Nobody
    /\ budget = MaxDatagrams
    /\ received = [c \in Client |-> 0]
    /\ answered = [c \in Client |-> 0]
    /\ last = [datagram |-> Nothing, reply |-> Nothing]

(***************************************************************************)
(* One iteration.                                                          *)
(***************************************************************************)
\* recvfrom: the bytes replace the first ones of the buffer.
Overlay(bytes) ==
    [f \in DOMAIN buffer |-> IF f \in DOMAIN bytes THEN bytes[f] ELSE buffer[f]]

\* dn_expand looks no further than the end of the datagram.
Decodes(bytes) == "name" \in DOMAIN bytes /\ bytes.name # Bad

\* Lines 108-111 when dn_expand has failed: with name_len = -1 they read from
\* the byte before the name.  The root's zero octet and its type make up a
\* class there, a label has letters in its place; of bytes that are no name
\* anything can be read.
Shifted(n, type) ==
    IF n = Bad THEN [type : Type, class : Class]
    ELSE {[type |-> "other",
           class |-> IF n = <<>> /\ type = "A" THEN "IN" ELSE "other"]}

\* Lines 108-111 otherwise: the four bytes behind the name.  Where the
\* datagram ends before them they are what the buffer held, which is its old
\* type and class only if the old name ended at the same place.
Behind(bytes) ==
    LET same == buffer.name # Bad /\ WireLength(buffer.name) = WireLength(bytes.name)
    IN  {q \in [type : Type, class : Class] :
            \A f \in {"type", "class"} :
                IF f \in DOMAIN bytes THEN q[f] = bytes[f]
                ELSE same => q[f] = buffer[f]}

Question(got, bytes) ==
    IF Decodes(bytes) THEN Behind(bytes) ELSE Shifted(got.name, got.type)

\* Lines 165-178.
Reply(to, id, text, question) ==
    [to |-> to, id |-> id, name |-> encode_domain(text),
     type |-> question.type, class |-> question.class]

\* Mutant: the reply is built in a buffer of its own.
Sent_Apart(got, reply) == got

\* The reply is built in the buffer of the request: qr is one from now on.
Sent(got, reply) ==
    [id |-> reply.id, query |-> FALSE, name |-> reply.name,
     type |-> reply.type, class |-> reply.class]

\* Mutant: memset before the test of the request.
Kept_Cleared(got, bytes, question) ==
    [id |-> 0, query |-> TRUE, name |-> <<>>, type |-> "other", class |-> "other"]

\* A request that is not answered stays in the buffer.
Kept(got, bytes, question) ==
    IF Decodes(bytes)
    THEN [got EXCEPT !.type = question.type, !.class = question.class]
    ELSE got

\* Lines 84-179, after recvfrom has left these bytes.
Serve(datagram, bytes) ==
    LET got  == Overlay(bytes)
        text == IF Decodes(bytes) THEN Expand(bytes.name) ELSE name
    IN  /\ name' = text
        /\ \E question \in Question(got, bytes) :
              IF question.class = "IN" /\ got.query
              THEN LET reply == Reply(client', got.id, text, question)
                   IN  /\ buffer' = Sent(got, reply)
                       /\ answered' = [c \in Client |->
                              answered[c] + IF c = client' THEN 1 ELSE 0]
                       /\ last' = [datagram |-> datagram, reply |-> reply]
              ELSE /\ buffer' = Kept(got, bytes, question)
                   /\ answered' = answered
                   /\ last' = [datagram |-> datagram, reply |-> Nothing]

Receive(d) ==
    /\ budget > 0 /\ budget' = budget - 1
    /\ received' = [received EXCEPT ![d.from] = @ + 1]
    /\ client' = d.from
    /\ Serve(d, d.bytes)

\* recvfrom returns -1, which nothing looks at.
ReceiveFails ==
    /\ UNCHANGED <<client, budget, received>>
    /\ Serve(Nothing, <<>>)

Next == ReceiveFails \/ \E d \in Datagram : Receive(d)

Spec == Init /\ [][Next]_vars

(***************************************************************************)
(* Properties.                                                             *)
(***************************************************************************)
Replies ==
    [to : Client \cup {Nobody}, id : Id,
     name : {encode_domain(Expand(n)) : n \in Name},
     type : Type, class : {"IN"}]

TypeOK ==
    /\ buffer \in Bytes
    /\ name \in {Expand(n) : n \in Name}
    /\ client \in Client \cup {Nobody}
    /\ budget \in 0..MaxDatagrams
    /\ received \in [Client -> 0..MaxDatagrams]
    /\ answered \in [Client -> 0..MaxDatagrams]
    /\ last \in [datagram : Datagram \cup {Nothing}, reply : Replies \cup {Nothing}]

\* A complete query for a name that dn_expand spells as it is.
WellFormed(d) ==
    /\ d # Nothing
    /\ DOMAIN d.bytes = {"id", "query", "name", "type", "class"}
    /\ d.bytes.query /\ d.bytes.class = "IN"
    /\ d.bytes.name # Bad /\ Plain(d.bytes.name)

\* Whatever came before it, short datagrams and failed calls included, a
\* complete query is answered to its sender, with its own id, name and type:
\* nothing that run() has kept from an earlier iteration gets into the reply.
WellFormedAnswered ==
    LET d == last.datagram
        r == last.reply
    IN  WellFormed(d) =>
            /\ r # Nothing
            /\ r.to = d.from /\ r.id = d.bytes.id
            /\ r.name = d.bytes.name /\ r.type = d.bytes.type

\* The loop goes on with the old buffer and the old address when recvfrom
\* fails, and with the old header when a datagram is shorter than one; still
\* no client gets more replies than it has sent datagrams.
AtMostOneReply == \A c \in Client : answered[c] <= received[c]

\* A resolver finds in a reply what prepare_dns_reply_* wrote behind the name:
\* read from its beginning, with the real length of the name in it, the records
\* that the counts announce begin where it looks for them, have data of the
\* length that their fields say, and end with the reply.  This is so for every
\* name of labels, not for the root, for which encode_domain writes two zeros;
\* replies to WINS queries announce no record and are left out.
ReplyParses ==
    LET r == last.reply
    IN  r # Nothing /\ r.type # "WINS" /\ Readable(r.name) =>
            Reads(Octets(r.name, Prepare(r.type)))

\* "extract the name from the packet" (dnsserver.cpp:100): the name in a reply
\* is one that the datagram it answers has asked for.
NameFromPacket ==
    LET d == last.datagram
        r == last.reply
    IN  d # Nothing /\ r # Nothing =>
            "name" \in DOMAIN d.bytes /\ d.bytes.name # Bad

(***************************************************************************)
(* The inductive invariants of DnsServerProofs: a request that is still in *)
(* the buffer has not been answered yet, and nobody can have received more *)
(* datagrams than the bound allows.                                        *)
(***************************************************************************)
CountsInv ==
    /\ DOMAIN buffer = {"id", "query", "name", "type", "class"}
    /\ client \in Client \cup {Nobody}
    /\ received \in [Client -> Nat] /\ answered \in [Client -> Nat]

PendingInv ==
    buffer.query = TRUE /\ client \in Client => answered[client] < received[client]

OnceInv == CountsInv /\ PendingInv /\ AtMostOneReply

BudgetInv == \A c \in Client : received[c] + budget <= MaxDatagrams

ServerInv == TypeOK /\ BudgetInv /\ OnceInv
=========================================================================
