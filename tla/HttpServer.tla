---------------------------- MODULE HttpServer --------------------------
(***************************************************************************)
(* Httpd (src/src/httpd.cpp): a thread that accepts connections and starts *)
(* a detached worker for each; the worker reads a request, answers it and  *)
(* closes the connection.  The threads share the process's descriptors,    *)
(* its memory and the table of _httpd_decode.                              *)
(*                                                                         *)
(* An action is one step that another thread or a client can see: a line   *)
(* read, a table tested or filled, a part of the reply written, a          *)
(* descriptor taken or closed, memory taken or freed.                      *)
(***************************************************************************)
EXTENDS Naturals, Sequences, FiniteSets

CONSTANTS
    Conn,       \* clients, each with at most one connection at a time
    Request,    \* memory for requests
    Fd,         \* descriptors that the process has left
    None,       \* no connection, no descriptor, no line
    MayFail     \* threads may fail to start, the page to open, the process to end

\* A request line for the page of the server, for any other path with a slash,
\* for a path without, and a first line that is no request.
Line == {"page", "other", "noslash", "bad"}

ASSUME HttpAssumption ==
    None \notin Conn \cup Request \cup Fd \cup Line /\ MayFail \in BOOLEAN

VARIABLES
    alive,      \* there is a process
    backlog,    \* connections that wait to be accepted
    pc,         \* where a request is; "free": there is no such request
    sock,       \* clientSock of a request
    serves,     \* history: the connection a request was accepted for
    target,     \* the request line of a request; None before it is read
    fds,        \* the connection a descriptor is open for
    first,      \* static int first of _httpd_decode
    filled,     \* its table is filled
    misread,    \* history: the table was used before it was filled
    link,       \* the server's side of a client's connection
    gone,       \* the client has closed its side
    asked,      \* history: the first line read of a client's connection
    unserved,   \* history: clients for whom the page could not be opened
    got         \* what a client has received

request == <<pc, sock, serves, target>>
decoder == <<first, filled, misread>>
client  == <<link, gone, asked, unserved, got>>
vars    == <<alive, backlog, request, fds, decoder, client>>

Writing == {"refuse", "method", "status", "headers", "body"}
Held    == {"accepted", "lost", "read", "test", "fill", "decode", "open", "close"} \cup Writing

Init ==
    /\ alive = TRUE /\ backlog = <<>>
    /\ pc = [r \in Request |-> "free"]
    /\ sock = [r \in Request |-> None]
    /\ serves = [r \in Request |-> None]
    /\ target = [r \in Request |-> None]
    /\ fds = [f \in Fd |-> None]
    /\ first = TRUE /\ filled = FALSE /\ misread = FALSE
    /\ link = [c \in Conn |-> "none"]
    /\ gone = [c \in Conn |-> FALSE]
    /\ asked = [c \in Conn |-> None]
    /\ unserved = {}
    /\ got = [c \in Conn |-> <<>>]

(***************************************************************************)
(* The accepting thread (start, httpdGetConnection).                       *)
(***************************************************************************)
\* Workers that read the page, or the addresses of neighbours before it, may
\* each have a descriptor more, for the moment.
Spare    == {f \in Fd : fds[f] = None}
Opening  == {r \in Request : pc[r] = "open"}
NoFdLeft == Cardinality(Spare) <= Cardinality(Opening)
Pending  == \E r \in Request : pc[r] = "accepted"

\* Memory first, without which nothing happens (lastError = -3); then accept,
\* whose failure for want of a descriptor nobody looks at: such a request has
\* none.
Accept(r, f) ==
    /\ alive /\ ~Pending /\ backlog # <<>> /\ pc[r] = "free"
    /\ fds[f] = None
    /\ fds' = [fds EXCEPT ![f] = Head(backlog)]
    /\ link' = [link EXCEPT ![Head(backlog)] = "open"]
    /\ serves' = [serves EXCEPT ![r] = Head(backlog)]
    /\ sock' = [sock EXCEPT ![r] = f]
    /\ pc' = [pc EXCEPT ![r] = "accepted"]
    /\ backlog' = Tail(backlog)
    /\ UNCHANGED <<alive, target, decoder, gone, asked, unserved, got>>

AcceptFails(r) ==
    /\ alive /\ ~Pending /\ backlog # <<>> /\ pc[r] = "free"
    /\ NoFdLeft
    /\ pc' = [pc EXCEPT ![r] = "accepted"]
    /\ UNCHANGED <<alive, backlog, sock, serves, target, fds, decoder, client>>

Goto(r, label) == pc' = [pc EXCEPT ![r] = label]

Spawn(r) ==
    /\ pc[r] = "accepted"
    /\ Goto(r, "read")
    /\ UNCHANGED <<alive, backlog, sock, serves, target, fds, decoder, client>>

\* pthread_create fails, which is logged: nobody will end the request.
SpawnFails(r) ==
    /\ MayFail /\ pc[r] = "accepted"
    /\ Goto(r, "lost")
    /\ UNCHANGED <<alive, backlog, sock, serves, target, fds, decoder, client>>

(***************************************************************************)
(* A worker reads (httpdReadRequest).                                      *)
(***************************************************************************)
\* The connection that the descriptor of a request is open for.
Peer(r) == IF sock[r] = None THEN None ELSE fds[sock[r]]

ReadRequestLine(r, line) ==
    /\ pc[r] = "read" /\ target[r] = None /\ Peer(r) # None
    /\ target' = [target EXCEPT ![r] = line]
    /\ asked' = [asked EXCEPT ![Peer(r)] = IF @ = None THEN line ELSE @]
    /\ Goto(r, IF line = "bad" THEN "refuse" ELSE "read")
    /\ UNCHANGED <<alive, backlog, sock, serves, fds, decoder, link, gone, unserved, got>>

\* Of the headers only Authorization leads to steps that other threads see.
ReadAuthorization(r) ==
    /\ pc[r] = "read" /\ target[r] # None /\ Peer(r) # None
    /\ Goto(r, "test")
    /\ UNCHANGED <<alive, backlog, sock, serves, target, fds, decoder, client>>

\* _httpd_decode: the flag is taken back before the table is filled.
TestFirst(r) ==
    /\ pc[r] = "test"
    /\ first' = FALSE
    /\ Goto(r, IF first THEN "fill" ELSE "decode")
    /\ UNCHANGED <<alive, backlog, sock, serves, target, fds, filled, misread, client>>

FillTable(r) ==
    /\ pc[r] = "fill"
    /\ filled' = TRUE
    /\ Goto(r, "decode")
    /\ UNCHANGED <<alive, backlog, sock, serves, target, fds, first, misread, client>>

Decode(r) ==
    /\ pc[r] = "decode"
    /\ misread' = (misread \/ ~filled)
    /\ Goto(r, "read")
    /\ UNCHANGED <<alive, backlog, sock, serves, target, fds, first, filled, client>>

\* httpdProcessRequest: a path with a slash is answered, with the page or with
\* a redirect.  _httpd_findContentDir is given the rest of the path from its
\* last slash, which was cut off, so that it always finds the root, whose one
\* entry is the page.
Route(line) == IF line \in {"page", "other"} THEN "open" ELSE "close"

\* Mutants: a request whose headers have no end is dropped; a read waits for
\* the client without a timeout.
ReadEnds_Drops(r) ==
    /\ pc[r] = "read"
    /\ Goto(r, "close")
    /\ UNCHANGED <<alive, backlog, sock, serves, target, fds, decoder, client>>
ReadEnds_Waits(r) ==
    /\ pc[r] = "read" /\ Peer(r) # None /\ gone[Peer(r)]
    /\ Goto(r, Route(target[r]))
    /\ UNCHANGED <<alive, backlog, sock, serves, target, fds, decoder, client>>

\* The empty line, the end of the stream, an error, or ten seconds without a
\* byte: each ends the request, and what has been read of it is processed.
ReadEnds(r) ==
    /\ pc[r] = "read"
    /\ Goto(r, Route(target[r]))
    /\ UNCHANGED <<alive, backlog, sock, serves, target, fds, decoder, client>>

(***************************************************************************)
(* A worker answers (httpdProcessRequest) and ends (httpdEndRequest).      *)
(***************************************************************************)
\* send_http_page, which http_send_redirect calls too, reads the page first,
\* with a descriptor that it takes and gives back.
OpenPage(r) ==
    /\ pc[r] = "open"
    /\ Spare # {}
    /\ Goto(r, "status")
    /\ UNCHANGED <<alive, backlog, sock, serves, target, fds, decoder, client>>

\* It returns without a word when there is no page or no descriptor.
OpenPageFails(r) ==
    /\ pc[r] = "open"
    /\ MayFail \/ Cardinality(Spare) < Cardinality(Opening)
    /\ unserved' = unserved \cup ({Peer(r)} \ {None})
    /\ Goto(r, "close")
    /\ UNCHANGED <<alive, backlog, sock, serves, target, fds, decoder, link, gone, asked, got>>

\* Mutant: the stock answer of _httpd_send404.
Part_Stock(label, line) ==
    IF label = "refuse" THEN "error"
    ELSE IF label \in {"method", "headers"} THEN label
    ELSE IF label = "body" THEN "text"
    ELSE IF line = "page" THEN "200" ELSE "404"

\* What is written at a label: an error and the method that is none, or the
\* status line (with the Location of a redirect), the other headers, and the
\* text.  The calls of write that make up one of these are taken together.
Part(label, line) ==
    IF label = "refuse" THEN "error"
    ELSE IF label \in {"method", "headers"} THEN label
    ELSE IF label = "body" THEN "text"
    ELSE IF line = "page" THEN "200" ELSE "302"

\* Without a descriptor a write fails, to a client that has gone it is lost;
\* nothing looks at the result.
Received(r) ==
    IF Peer(r) # None /\ ~gone[Peer(r)]
    THEN [got EXCEPT ![Peer(r)] = Append(@, Part(pc[r], target[r]))]
    ELSE got

\* The label behind that of a write.
Behind(label) ==
    IF label = "refuse" THEN "method"
    ELSE IF label = "status" THEN "headers"
    ELSE IF label = "headers" THEN "body"
    ELSE "close"

\* Mutant: a worker that refuses a request closes it, and will again.
Write_Ends(r) ==
    /\ pc[r] \in Writing
    /\ got' = Received(r)
    /\ Goto(r, Behind(pc[r]))
    /\ IF pc[r] = "method" /\ Peer(r) # None
       THEN /\ fds' = [fds EXCEPT ![sock[r]] = None]
            /\ link' = [link EXCEPT ![Peer(r)] = "ended"]
       ELSE UNCHANGED <<fds, link>>
    /\ UNCHANGED <<alive, backlog, sock, serves, target, decoder, gone, asked, unserved>>

Write(r) ==
    /\ pc[r] \in Writing
    /\ got' = Received(r)
    /\ Goto(r, Behind(pc[r]))
    /\ UNCHANGED <<alive, backlog, sock, serves, target, fds, decoder, link, gone, asked, unserved>>

\* Mutant: a connection that the client has closed is not closed again.
Close_Forgets(r) ==
    /\ pc[r] = "close"
    /\ Goto(r, "closed")
    /\ IF Peer(r) = None \/ gone[Peer(r)]
       THEN UNCHANGED <<fds, link>>
       ELSE /\ fds' = [fds EXCEPT ![sock[r]] = None]
            /\ link' = [link EXCEPT ![Peer(r)] = "ended"]
    /\ UNCHANGED <<alive, backlog, sock, serves, target, decoder, gone, asked, unserved, got>>

\* Close, then free: in between another connection may be accepted on the
\* same descriptor.
Close(r) ==
    /\ pc[r] = "close"
    /\ Goto(r, "closed")
    /\ IF Peer(r) = None
       THEN UNCHANGED <<fds, link>>
       ELSE /\ fds' = [fds EXCEPT ![sock[r]] = None]
            /\ link' = [link EXCEPT ![Peer(r)] = "ended"]
    /\ UNCHANGED <<alive, backlog, sock, serves, target, decoder, gone, asked, unserved, got>>

Free(r) ==
    /\ pc[r] = "closed"
    /\ Goto(r, "free")
    /\ sock' = [sock EXCEPT ![r] = None]
    /\ serves' = [serves EXCEPT ![r] = None]
    /\ target' = [target EXCEPT ![r] = None]
    /\ UNCHANGED <<alive, backlog, fds, decoder, client>>

(***************************************************************************)
(* The process.  Nothing ignores SIGPIPE: a write to a client that has     *)
(* gone may end it.  thread_httpd returns no value, so that an optimised   *)
(* build may run on behind its end; when pthread_create fails, a thread id *)
(* that was never written is detached.  The kernel resets the connections. *)
(***************************************************************************)
Die(r) ==
    /\ MayFail
    /\ \/ pc[r] \in Writing /\ Peer(r) # None /\ gone[Peer(r)]
       \/ pc[r] \in {"closed", "accepted"}
    /\ alive' = FALSE /\ backlog' = <<>>
    /\ pc' = [q \in Request |-> "free"]
    /\ sock' = [q \in Request |-> None]
    /\ serves' = [q \in Request |-> None]
    /\ target' = [q \in Request |-> None]
    /\ fds' = [f \in Fd |-> None]
    /\ first' = TRUE /\ filled' = FALSE
    /\ link' = [c \in Conn |-> IF link[c] \in {"waiting", "open"} THEN "reset" ELSE link[c]]
    /\ UNCHANGED <<misread, gone, asked, unserved, got>>

Restart ==
    /\ ~alive
    /\ alive' = TRUE
    /\ UNCHANGED <<backlog, request, fds, decoder, client>>

(***************************************************************************)
(* The clients.                                                            *)
(***************************************************************************)
Connect(c) ==
    /\ alive /\ link[c] \notin {"waiting", "open"}
    /\ link' = [link EXCEPT ![c] = "waiting"]
    /\ backlog' = Append(backlog, c)
    /\ gone' = [gone EXCEPT ![c] = FALSE]
    /\ asked' = [asked EXCEPT ![c] = None]
    /\ unserved' = unserved \ {c}
    /\ got' = [got EXCEPT ![c] = <<>>]
    /\ UNCHANGED <<alive, request, fds, decoder>>

Leave(c) ==
    /\ link[c] \in {"waiting", "open"} /\ ~gone[c]
    /\ gone' = [gone EXCEPT ![c] = TRUE]
    /\ UNCHANGED <<alive, backlog, request, fds, decoder, link, asked, unserved, got>>

(***************************************************************************)
(* The specification.  Fairness: every thread of the process is scheduled, *)
(* and a request ends sooner or later because its headers end or a read    *)
(* times out, which is strong fairness as Authorization headers may come   *)
(* in between.  Nothing makes a client connect or leave, or a process      *)
(* start, fail or die.                                                     *)
(***************************************************************************)
AcceptSome == \E r \in Request : AcceptFails(r) \/ \E f \in Fd : Accept(r, f)

Work(r) ==
    \/ TestFirst(r) \/ FillTable(r) \/ Decode(r)
    \/ OpenPage(r) \/ (Spare = {} /\ OpenPageFails(r))
    \/ Write(r) \/ Close(r) \/ Free(r)

Read(r) == ReadAuthorization(r) \/ \E line \in Line : ReadRequestLine(r, line)

Server == AcceptSome \/ \E r \in Request : Spawn(r) \/ Read(r) \/ ReadEnds(r) \/ Work(r)

Fail == \E r \in Request : SpawnFails(r) \/ OpenPageFails(r) \/ Die(r)

Clients == \E c \in Conn : Connect(c) \/ Leave(c)

Next == Server \/ Fail \/ Restart \/ Clients

Spec == Init /\ [][Next]_vars

FairSpec ==
    /\ Spec
    /\ WF_vars(AcceptSome)
    /\ \A r \in Request : WF_vars(Spawn(r)) /\ WF_vars(Work(r)) /\ SF_vars(ReadEnds(r))

(***************************************************************************)
(* Properties.                                                             *)
(***************************************************************************)
FlagTypes ==
    alive \in BOOLEAN /\ first \in BOOLEAN /\ filled \in BOOLEAN /\ misread \in BOOLEAN

ServerTypes ==
    /\ backlog \in Seq(Conn)
    /\ pc \in [Request -> Held \cup {"free", "closed"}]
    /\ sock \in [Request -> Fd \cup {None}]
    /\ serves \in [Request -> Conn \cup {None}]
    /\ target \in [Request -> Line \cup {None}]
    /\ fds \in [Fd -> Conn \cup {None}]

ClientTypes ==
    /\ link \in [Conn -> {"none", "waiting", "open", "ended", "reset"}]
    /\ gone \in [Conn -> BOOLEAN]
    /\ asked \in [Conn -> Line \cup {None}]
    /\ unserved \in SUBSET Conn
    /\ got \in [Conn -> Seq({"error", "method", "200", "302", "headers", "text"})]

\* Every variable has its type (httpd.h:153-158, requestType): a request is at
\* a label of its worker, what a client gets are the parts of an answer.
TypeOK == FlagTypes /\ ServerTypes /\ ClientTypes

\* Descriptors are taken and closed by different threads and used again at
\* once; still the descriptor of a request that has not been closed is open
\* for the connection it was accepted for, and no two requests share one.  A
\* request that is closed twice, or read or answered after it was closed,
\* would meet another client's connection.
Holds(r) == pc[r] \in Held /\ sock[r] # None
OwnDescriptor ==
    /\ \A r \in Request : Holds(r) => serves[r] # None /\ fds[sock[r]] = serves[r]
    /\ \A r, q \in Request :
           Holds(r) /\ Holds(q) /\ r # q =>
               sock[r] # sock[q] /\ serves[r] # serves[q]

\* Nothing is left open, whichever way a request ends: a descriptor is held by
\* a request that a worker is going to end, or by one that SpawnFails has lost.
NoDescriptorLeaks ==
    \A f \in Fd : fds[f] # None => \E r \in Request : Holds(r) /\ sock[r] = f

\* Whatever the other workers do, a client receives nothing but the answer to
\* its own request line, in order: an error for a line that is none, the page
\* or a redirect with one set of headers, nothing for a path without a slash
\* or without a request line.
Answer(line) ==
    IF line = "page" THEN <<"200", "headers", "text">>
    ELSE IF line = "other" THEN <<"302", "headers", "text">>
    ELSE IF line = "bad" THEN <<"error", "method">>
    ELSE <<>>

Begins(g, a) == Len(g) <= Len(a) /\ \A i \in 1..Len(g) : g[i] = a[i]

AnswerFits == \A c \in Conn : Begins(got[c], Answer(asked[c]))

\* A client that has waited has the whole answer when the server closes the
\* connection, even if its headers never ended, unless the page could not be
\* opened, which a redirect needs too; and then it has nothing, not a part.
AnsweredInFull ==
    \A c \in Conn :
        link[c] = "ended" /\ ~gone[c]
            => got[c] = IF c \in unserved THEN <<>> ELSE Answer(asked[c])

\* Threads, descriptors and the queue are invisible: every client is served as
\* if it had a server of its own, whose answer goes to nobody else, stays what
\* its first part has announced, and is complete when the connection ends.
Session == INSTANCE Sessions
ImplementsSessions == Session!Spec

\* Every connection is accepted and ended at last, by its worker or with the
\* process, if threads start: whether the client sends anything or not, and
\* when there are more connections than descriptors or memory.
EveryConnectionEnds ==
    \A c \in Conn : link[c] = "waiting" ~> link[c] \in {"ended", "reset"}

\* "If this is the first call, initialize the mapping table" (httpd.cpp:1122):
\* no header is decoded with a table that is not filled.
TableReady == ~misread

(***************************************************************************)
(* The strengthening of OwnDescriptor that is inductive.                   *)
(***************************************************************************)
\* Who waits is queued once.
QueueInv ==
    /\ \A i \in 1..Len(backlog) : link[backlog[i]] = "waiting"
    /\ \A i, j \in 1..Len(backlog) : i # j => backlog[i] # backlog[j]

\* A descriptor is open for a connection that is, and for no other.
LinkInv ==
    /\ \A f \in Fd : fds[f] # None => link[fds[f]] = "open"
    /\ \A f, g \in Fd : fds[f] # None /\ f # g => fds[f] # fds[g]

\* A request that is free has no descriptor.
FreeInv == \A r \in Request : pc[r] = "free" => sock[r] = None

DescriptorInv ==
    /\ QueueInv /\ LinkInv /\ FreeInv
    /\ \A r \in Request : Holds(r) => serves[r] # None /\ fds[sock[r]] = serves[r]
    /\ \A r, q \in Request : Holds(r) /\ Holds(q) /\ r # q => sock[r] # sock[q]

(***************************************************************************)
(* The inductive strengthening of AnswerFits and AnsweredInFull: what the  *)
(* client of a request has received, by where its worker is.               *)
(***************************************************************************)
\* Before its connection is accepted a client has neither asked nor received,
\* and the memory of a request is cleared before it is used again.
FreshInv ==
    /\ \A c \in Conn : link[c] = "waiting" =>
           asked[c] = None /\ got[c] = <<>> /\ c \notin unserved
    /\ \A r \in Request : pc[r] = "free" => target[r] = None

\* The parts that have been written when a worker is at a label.
Written(label, line) ==
    IF label = "method" THEN <<"error">>
    ELSE IF label = "headers" THEN <<Part("status", line)>>
    ELSE IF label = "body" THEN <<Part("status", line), "headers">>
    ELSE IF label = "close" THEN Answer(line)
    ELSE <<>>

\* The lines that lead a worker to a label.
Leading(label) ==
    IF label \in {"accepted", "lost"} THEN {None}
    ELSE IF label = "read" THEN {None} \cup (Line \ {"bad"})
    ELSE IF label \in {"test", "fill", "decode"} THEN Line \ {"bad"}
    ELSE IF label \in {"refuse", "method"} THEN {"bad"}
    ELSE IF label \in {"open", "status", "headers", "body"} THEN {"page", "other"}
    ELSE {None} \cup Line

\* Where a part may have been written.
Answering == {"method", "headers", "body", "close"}

\* What a client has received is what its worker has written, unless it has
\* gone.
Working(r) ==
    LET c == serves[r]
    IN  /\ target[r] = asked[c] /\ target[r] \in Leading(pc[r])
        /\ pc[r] # "close" => c \notin unserved
        /\ ~gone[c] => got[c] = IF c \in unserved THEN <<>>
                                ELSE Written(pc[r], target[r])
        /\ pc[r] \notin Answering => got[c] = <<>>

WorkInv == \A r \in Request : Holds(r) => Working(r)

AnswerInv == FreshInv /\ WorkInv /\ AnswerFits /\ AnsweredInFull
=========================================================================
