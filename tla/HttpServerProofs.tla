------------------------ MODULE HttpServerProofs ------------------------
(***************************************************************************)
(* Proof that no worker of HttpServer ever holds the descriptor of another *)
(* request or of another client, that every client gets its own answer,    *)
(* whole or not at all, that no descriptor leaks, and that HttpServer      *)
(* implements Sessions, for any clients, memory and descriptors.           *)
(***************************************************************************)
EXTENDS HttpServer, SequenceTheorems, TLAPS

(***************************************************************************)
(* Types.                                                                  *)
(***************************************************************************)
LEMMA TypeInit == Init => TypeOK
<1> SUFFICES ASSUME Init PROVE TypeOK
  OBVIOUS
<1>1. FlagTypes
  BY DEF Init, FlagTypes
<1>2. ServerTypes
  BY DEF Init, ServerTypes
<1>3. ClientTypes
  BY DEF Init, ClientTypes
<1> QED BY <1>1, <1>2, <1>3 DEF TypeOK

LEMMA TypeAccept ==
    ASSUME TypeOK, NEW r \in Request, NEW f \in Fd, Accept(r, f)
    PROVE  TypeOK'
<1>1. Head(backlog) \in Conn /\ Tail(backlog) \in Seq(Conn)
  <2>1. backlog \in Seq(Conn) /\ backlog # <<>>
    BY DEF TypeOK, ServerTypes, Accept
  <2> QED BY <2>1
<1>2. FlagTypes'
  BY DEF TypeOK, FlagTypes, Accept, decoder
<1>3. ServerTypes'
  BY <1>1 DEF TypeOK, ServerTypes, Accept, Held
<1>4. ClientTypes'
  BY <1>1 DEF TypeOK, ClientTypes, Accept
<1> QED BY <1>2, <1>3, <1>4 DEF TypeOK

\* The labels a request may take.
LEMMA TypeGoto ==
    ASSUME TypeOK, NEW r \in Request, NEW label \in Held, Goto(r, label)
    PROVE  pc' \in [Request -> Held \cup {"free", "closed"}]
BY DEF TypeOK, ServerTypes, Goto

LEMMA TypeRead ==
    ASSUME TypeOK, NEW r \in Request, NEW line \in Line, ReadRequestLine(r, line)
    PROVE  TypeOK'
<1>1. pc' \in [Request -> Held \cup {"free", "closed"}]
  BY TypeGoto DEF ReadRequestLine, Held, Writing
<1>2. FlagTypes'
  BY DEF TypeOK, FlagTypes, ReadRequestLine, decoder
<1>3. ServerTypes'
  BY <1>1 DEF TypeOK, ServerTypes, ReadRequestLine
<1>4. ClientTypes'
  BY DEF TypeOK, ClientTypes, ReadRequestLine
<1> QED BY <1>2, <1>3, <1>4 DEF TypeOK

\* The steps that are local to a worker or share only the decoder.
LEMMA TypeLocal ==
    ASSUME TypeOK, NEW r \in Request,
           \/ Spawn(r) \/ SpawnFails(r) \/ ReadAuthorization(r) \/ ReadEnds(r)
           \/ TestFirst(r) \/ FillTable(r) \/ Decode(r) \/ OpenPage(r)
    PROVE  TypeOK'
<1>1. \E label \in Held : Goto(r, label)
  BY DEF Spawn, SpawnFails, ReadAuthorization, ReadEnds, TestFirst, FillTable, Decode,
         OpenPage, Route, Held, Writing
<1>2. UNCHANGED <<alive, backlog, sock, serves, target, fds, client>>
  BY DEF Spawn, SpawnFails, ReadAuthorization, ReadEnds, TestFirst, FillTable, Decode,
         OpenPage
<1>3. /\ first' \in BOOLEAN /\ filled' \in BOOLEAN /\ misread' \in BOOLEAN
  BY DEF TypeOK, FlagTypes, Spawn, SpawnFails, ReadAuthorization, ReadEnds, TestFirst,
                   FillTable, Decode, OpenPage, decoder
<1>4. FlagTypes'
  BY <1>2, <1>3 DEF TypeOK, FlagTypes
<1>5. ServerTypes'
  BY <1>1, <1>2, TypeGoto DEF TypeOK, ServerTypes
<1>6. ClientTypes'
  BY <1>2 DEF TypeOK, ClientTypes, client
<1> QED BY <1>4, <1>5, <1>6 DEF TypeOK

LEMMA TypePeer == ASSUME TypeOK, NEW r \in Request PROVE Peer(r) \in Conn \cup {None}
BY DEF TypeOK, ServerTypes, Peer

LEMMA TypeOpenPageFails ==
    ASSUME TypeOK, NEW r \in Request, OpenPageFails(r)
    PROVE  TypeOK'
<1>1. pc' \in [Request -> Held \cup {"free", "closed"}]
  BY TypeGoto DEF OpenPageFails, Held
<1>2. FlagTypes'
  BY DEF TypeOK, FlagTypes, OpenPageFails, decoder
<1>3. ServerTypes'
  BY <1>1 DEF TypeOK, ServerTypes, OpenPageFails
<1>4. ClientTypes'
  BY TypePeer DEF TypeOK, ClientTypes, OpenPageFails
<1> QED BY <1>2, <1>3, <1>4 DEF TypeOK

LEMMA TypeWrite ==
    ASSUME TypeOK, NEW r \in Request, Write(r)
    PROVE  TypeOK'
<1>1. pc' \in [Request -> Held \cup {"free", "closed"}]
  BY TypeGoto DEF Write, Behind, Held, Writing
<1>2. Part(pc[r], target[r]) \in {"error", "method", "200", "302", "headers", "text"}
  BY DEF Part
<1>3. got' \in [Conn -> Seq({"error", "method", "200", "302", "headers", "text"})]
  BY <1>2, TypePeer DEF TypeOK, ClientTypes, Write, Received
<1>4. FlagTypes'
  BY DEF TypeOK, FlagTypes, Write, decoder
<1>5. ServerTypes'
  BY <1>1 DEF TypeOK, ServerTypes, Write
<1>6. ClientTypes'
  BY <1>3 DEF TypeOK, ClientTypes, Write
<1> QED BY <1>4, <1>5, <1>6 DEF TypeOK

LEMMA TypeClose ==
    ASSUME TypeOK, NEW r \in Request, Close(r)
    PROVE  TypeOK'
<1>1. FlagTypes'
  BY DEF TypeOK, FlagTypes, Close, decoder
<1>2. ServerTypes'
  BY DEF TypeOK, ServerTypes, Close, Goto
<1>3. ClientTypes'
  BY DEF TypeOK, ClientTypes, Close
<1> QED BY <1>1, <1>2, <1>3 DEF TypeOK

LEMMA TypeRequest ==
    ASSUME TypeOK, NEW r \in Request, AcceptFails(r) \/ Free(r) \/ Die(r)
    PROVE  TypeOK'
<1>1. FlagTypes'
  BY DEF TypeOK, FlagTypes, AcceptFails, Free, Die, decoder
<1>2. ServerTypes'
  <2>1. CASE AcceptFails(r)
    BY <2>1 DEF TypeOK, ServerTypes, AcceptFails, Held
  <2>2. CASE Free(r)
    BY <2>2 DEF TypeOK, ServerTypes, Free, Goto
  <2>3. CASE Die(r)
    BY <2>3 DEF TypeOK, ServerTypes, Die
  <2> QED BY <2>1, <2>2, <2>3
<1>3. ClientTypes'
  BY DEF TypeOK, ClientTypes, AcceptFails, Free, Die, client
<1> QED BY <1>1, <1>2, <1>3 DEF TypeOK

LEMMA TypeRestart == ASSUME TypeOK, Restart PROVE TypeOK'
BY DEF TypeOK, FlagTypes, ServerTypes, ClientTypes, Restart, request, decoder, client

LEMMA TypeConnect ==
    ASSUME TypeOK, NEW c \in Conn, Connect(c)
    PROVE  TypeOK'
<1>1. FlagTypes'
  BY DEF TypeOK, FlagTypes, Connect, decoder
<1>2. ServerTypes'
  BY DEF TypeOK, ServerTypes, Connect, request
<1>3. ClientTypes'
  BY DEF TypeOK, ClientTypes, Connect
<1> QED BY <1>1, <1>2, <1>3 DEF TypeOK

LEMMA TypeLeave ==
    ASSUME TypeOK, NEW c \in Conn, Leave(c)
    PROVE  TypeOK'
<1>1. FlagTypes'
  BY DEF TypeOK, FlagTypes, Leave, decoder
<1>2. ServerTypes'
  BY DEF TypeOK, ServerTypes, Leave, request
<1>3. ClientTypes'
  BY DEF TypeOK, ClientTypes, Leave
<1> QED BY <1>1, <1>2, <1>3 DEF TypeOK

\* Every variable keeps its type: what is written is one of the four parts of
\* an answer and a request is at a label of its worker.
THEOREM TypeTheorem == Spec => []TypeOK
<1>1. TypeOK /\ Next => TypeOK'
  BY TypeAccept, TypeRead, TypeLocal, TypeOpenPageFails, TypeWrite, TypeClose, TypeRequest,
     TypeRestart, TypeConnect, TypeLeave
     DEF Next, Server, AcceptSome, Read, Work, Fail, Clients
<1>2. TypeOK /\ UNCHANGED vars => TypeOK'
  BY DEF TypeOK, FlagTypes, ServerTypes, ClientTypes, vars, request, decoder, client
<1> QED BY <1>1, <1>2, TypeInit, PTL DEF Spec

(***************************************************************************)
(* Descriptors.                                                            *)
(***************************************************************************)
LEMMA DescriptorInit == Init => DescriptorInv
BY DEF Init, DescriptorInv, QueueInv, LinkInv, FreeInv, Holds, Held, Writing

\* A worker's step from one label to another disturbs nothing.
LEMMA DescriptorGoto ==
    ASSUME TypeOK, DescriptorInv, NEW r \in Request, NEW label \in Held,
           pc[r] \in Held, Goto(r, label), UNCHANGED <<backlog, sock, serves, fds, link>>
    PROVE  DescriptorInv'
<1>1. \A q \in Request : /\ pc'[q] \in Held => pc[q] \in Held
                         /\ pc'[q] = "free" => pc[q] = "free"
  BY DEF TypeOK, ServerTypes, ClientTypes, Goto, Held, Writing
<1>2. \A q \in Request : Holds(q)' => Holds(q)
  BY <1>1 DEF Holds
<1> QED BY <1>1, <1>2 DEF DescriptorInv, QueueInv, LinkInv, FreeInv

LEMMA DescriptorInside ==
    ASSUME TypeOK, DescriptorInv, NEW r \in Request,
           \/ Spawn(r) \/ SpawnFails(r) \/ Read(r) \/ ReadEnds(r)
           \/ TestFirst(r) \/ FillTable(r) \/ Decode(r)
           \/ OpenPage(r) \/ OpenPageFails(r) \/ Write(r)
    PROVE  DescriptorInv'
<1>1. pc[r] \in Held
  BY DEF Spawn, SpawnFails, Read, ReadRequestLine, ReadAuthorization, ReadEnds, TestFirst,
         FillTable, Decode, OpenPage, OpenPageFails, Write, Held, Writing
<1>2. \E label \in Held : Goto(r, label)
  BY DEF Spawn, SpawnFails, Read, ReadRequestLine, ReadAuthorization, ReadEnds, TestFirst,
         FillTable, Decode, OpenPage, OpenPageFails, Write, Route, Behind, Held, Writing
<1>3. UNCHANGED <<backlog, sock, serves, fds, link>>
  BY DEF Spawn, SpawnFails, Read, ReadRequestLine, ReadAuthorization, ReadEnds, TestFirst,
         FillTable, Decode, OpenPage, OpenPageFails, Write, client
<1> QED BY <1>1, <1>2, <1>3, DescriptorGoto

\* The new descriptor was nobody's, and the client who is taken from the head
\* of the queue is not in it any more and is served by no other request.
LEMMA DescriptorAccept ==
    ASSUME TypeOK, DescriptorInv, NEW r \in Request, NEW f \in Fd, Accept(r, f)
    PROVE  DescriptorInv'
<1> DEFINE c == Head(backlog)
<1>1. /\ backlog \in Seq(Conn) /\ backlog # <<>>
      /\ backlog' = Tail(backlog)
  BY DEF TypeOK, ServerTypes, ClientTypes, Accept
<1>2. /\ c \in Conn /\ c = backlog[1] /\ Len(backlog) \in Nat \ {0}
      /\ Len(backlog') = Len(backlog) - 1
      /\ \A i \in 1..Len(backlog') : backlog'[i] = backlog[i + 1]
  BY <1>1
<1>3. c # None /\ link[c] = "waiting"
  BY <1>2, HttpAssumption DEF DescriptorInv, QueueInv, HttpAssumption
<1>4. /\ fds[f] = None /\ fds'[f] = c
      /\ \A g \in Fd : g # f => fds'[g] = fds[g]
      /\ link'[c] = "open"
      /\ \A d \in Conn : d # c => link'[d] = link[d]
  BY <1>2 DEF TypeOK, ServerTypes, ClientTypes, Accept
<1>5. /\ sock'[r] = f /\ serves'[r] = c /\ pc'[r] = "accepted"
      /\ \A q \in Request : q # r => /\ pc'[q] = pc[q]
                                     /\ sock'[q] = sock[q]
                                     /\ serves'[q] = serves[q]
  BY <1>2 DEF TypeOK, ServerTypes, ClientTypes, Accept
<1>6. \A g \in Fd : fds[g] # None => fds[g] \in Conn /\ fds[g] # c
  BY <1>3 DEF TypeOK, ServerTypes, ClientTypes, DescriptorInv, LinkInv
<1>7. QueueInv'
  <2>1. \A i \in 1..Len(backlog') : i + 1 \in 1..Len(backlog) /\ i + 1 # 1
    BY <1>2
  <2>2. ASSUME NEW i \in 1..Len(backlog') PROVE link'[backlog'[i]] = "waiting"
    <3>1. backlog[i + 1] \in Conn /\ backlog[i + 1] # c
      BY <1>1, <1>2, <2>1 DEF DescriptorInv, QueueInv
    <3> QED BY <1>2, <1>4, <2>1, <3>1 DEF DescriptorInv, QueueInv
  <2>3. ASSUME NEW i \in 1..Len(backlog'), NEW j \in 1..Len(backlog'), i # j
        PROVE  backlog'[i] # backlog'[j]
    BY <1>2, <2>1, <2>3 DEF DescriptorInv, QueueInv
  <2> QED BY <2>2, <2>3 DEF QueueInv
<1>8. LinkInv'
  BY <1>4, <1>6 DEF DescriptorInv, LinkInv
<1>9. FreeInv'
  BY <1>5 DEF DescriptorInv, FreeInv
<1>10. \A q \in Request : q # r /\ Holds(q)' => Holds(q) /\ sock[q] \in Fd /\ sock[q] # f
  BY <1>4, <1>5 DEF TypeOK, ServerTypes, ClientTypes, DescriptorInv, Holds
<1>11. \A q \in Request : Holds(q)' => serves'[q] # None /\ fds'[sock'[q]] = serves'[q]
  BY <1>3, <1>4, <1>5, <1>10 DEF DescriptorInv
<1>12. \A q, s \in Request : Holds(q)' /\ Holds(s)' /\ q # s => sock'[q] # sock'[s]
  BY <1>5, <1>10 DEF DescriptorInv
<1> QED BY <1>7, <1>8, <1>9, <1>11, <1>12 DEF DescriptorInv

\* A request without a descriptor.
LEMMA DescriptorAcceptFails ==
    ASSUME TypeOK, DescriptorInv, NEW r \in Request, AcceptFails(r)
    PROVE  DescriptorInv'
<1>1. sock[r] = None /\ sock' = sock
  BY DEF DescriptorInv, FreeInv, AcceptFails
<1>2. \A q \in Request : /\ Holds(q)' => Holds(q)
                         /\ pc'[q] = "free" => pc[q] = "free"
  BY <1>1 DEF TypeOK, ServerTypes, ClientTypes, AcceptFails, Holds
<1> QED BY <1>1, <1>2 DEF DescriptorInv, QueueInv, LinkInv, FreeInv, AcceptFails, client

\* Nobody else holds the descriptor that is closed, and no other descriptor is
\* open for its client.
LEMMA DescriptorClose ==
    ASSUME TypeOK, DescriptorInv, NEW r \in Request, Close(r)
    PROVE  DescriptorInv'
<1>1. /\ pc[r] = "close" /\ pc'[r] = "closed"
      /\ \A q \in Request : q # r => pc'[q] = pc[q]
      /\ UNCHANGED <<backlog, sock, serves>>
  BY DEF TypeOK, ServerTypes, ClientTypes, Close, Goto
<1>2. \A q \in Request : Holds(q)' => Holds(q) /\ q # r
  BY <1>1 DEF Holds, Held, Writing
<1>3. FreeInv'
  BY <1>1 DEF DescriptorInv, FreeInv
<1>4. CASE Peer(r) = None
  BY <1>1, <1>2, <1>3, <1>4 DEF DescriptorInv, QueueInv, LinkInv, Close
<1>5. CASE Peer(r) # None
  <2> DEFINE f == sock[r]
             c == fds[f]
  <2>1. f \in Fd /\ c \in Conn /\ c = Peer(r) /\ Holds(r)
    BY <1>1, <1>5 DEF TypeOK, ServerTypes, ClientTypes, Peer, Holds, Held
  <2>2. /\ fds'[f] = None
        /\ \A g \in Fd : g # f => fds'[g] = fds[g]
        /\ \A d \in Conn : d # c => link'[d] = link[d]
    BY <1>5, <2>1 DEF TypeOK, ServerTypes, ClientTypes, Close
  <2>3. link[c] = "open"
    BY <1>5, <2>1 DEF DescriptorInv, LinkInv
  <2>4. \A i \in 1..Len(backlog) : backlog[i] \in Conn
    BY DEF TypeOK, ServerTypes
  <2>5. QueueInv'
    BY <1>1, <2>2, <2>3, <2>4 DEF DescriptorInv, QueueInv
  <2>6. LinkInv'
    <3>1. \A g \in Fd : fds'[g] # None => g # f /\ fds[g] \in Conn /\ fds[g] # c
      BY <1>5, <2>1, <2>2 DEF TypeOK, ServerTypes, ClientTypes, DescriptorInv, LinkInv
    <3> QED BY <2>2, <3>1 DEF DescriptorInv, LinkInv
  <2>7. \A q \in Request : Holds(q)' => sock[q] \in Fd /\ sock[q] # f
    BY <1>2, <2>1 DEF TypeOK, ServerTypes, ClientTypes, DescriptorInv, Holds
  <2> QED BY <1>1, <1>2, <1>3, <2>2, <2>5, <2>6, <2>7 DEF DescriptorInv
<1> QED BY <1>4, <1>5

LEMMA DescriptorFree ==
    ASSUME TypeOK, DescriptorInv, NEW r \in Request, Free(r)
    PROVE  DescriptorInv'
<1>1. /\ pc'[r] = "free" /\ sock'[r] = None
      /\ \A q \in Request : q # r => /\ pc'[q] = pc[q]
                                     /\ sock'[q] = sock[q]
                                     /\ serves'[q] = serves[q]
      /\ UNCHANGED <<backlog, fds, link>>
  BY DEF TypeOK, ServerTypes, ClientTypes, Free, Goto, client
<1>2. \A q \in Request : Holds(q)' => Holds(q) /\ q # r
  BY <1>1 DEF Holds
<1> QED BY <1>1, <1>2 DEF DescriptorInv, QueueInv, LinkInv, FreeInv

LEMMA DescriptorDie ==
    ASSUME TypeOK, DescriptorInv, NEW r \in Request, Die(r)
    PROVE  DescriptorInv'
<1>1. /\ backlog' = <<>>
      /\ \A q \in Request : sock'[q] = None
      /\ \A f \in Fd : fds'[f] = None
  BY DEF Die
<1> QED BY <1>1 DEF DescriptorInv, QueueInv, LinkInv, FreeInv, Holds

\* A client who connects has no open connection and is not in the queue.
LEMMA DescriptorConnect ==
    ASSUME TypeOK, DescriptorInv, NEW c \in Conn, Connect(c)
    PROVE  DescriptorInv'
<1>1. /\ link[c] \notin {"waiting", "open"} /\ link'[c] = "waiting"
      /\ \A d \in Conn : d # c => link'[d] = link[d]
      /\ backlog' = Append(backlog, c) /\ backlog \in Seq(Conn)
      /\ UNCHANGED <<pc, sock, serves, fds>>
  BY DEF TypeOK, ServerTypes, ClientTypes, Connect, request
<1>2. /\ Len(backlog) \in Nat /\ Len(backlog') = Len(backlog) + 1
      /\ backlog'[Len(backlog) + 1] = c
      /\ \A i \in 1..Len(backlog) : backlog'[i] = backlog[i] /\ backlog[i] \in Conn
  BY <1>1
<1>3. \A i \in 1..Len(backlog) : backlog[i] # c /\ link'[backlog[i]] = "waiting"
  BY <1>1, <1>2 DEF DescriptorInv, QueueInv
<1>4. \A i \in 1..Len(backlog') : i \in 1..Len(backlog) \/ i = Len(backlog) + 1
  BY <1>2
<1>5. QueueInv'
  <2>1. \A i \in 1..Len(backlog') : link'[backlog'[i]] = "waiting"
    BY <1>1, <1>2, <1>3, <1>4
  <2>2. ASSUME NEW i \in 1..Len(backlog'), NEW j \in 1..Len(backlog'), i # j
        PROVE  backlog'[i] # backlog'[j]
    <3>1. backlog[i] # backlog[j] \/ i \notin 1..Len(backlog) \/ j \notin 1..Len(backlog)
      BY <2>2 DEF DescriptorInv, QueueInv
    <3> QED BY <1>2, <1>3, <1>4, <2>2, <3>1
  <2> QED BY <2>1, <2>2 DEF QueueInv
<1>6. LinkInv'
  BY <1>1 DEF TypeOK, ServerTypes, ClientTypes, DescriptorInv, LinkInv
<1> QED BY <1>1, <1>5, <1>6 DEF DescriptorInv, FreeInv, Holds

LEMMA DescriptorStill ==
    ASSUME DescriptorInv, UNCHANGED <<pc, backlog, sock, serves, fds, link>>
    PROVE  DescriptorInv'
BY DEF DescriptorInv, QueueInv, LinkInv, FreeInv, Holds

LEMMA DescriptorNext == TypeOK /\ DescriptorInv /\ [Next]_vars => DescriptorInv'
<1> SUFFICES ASSUME TypeOK, DescriptorInv, [Next]_vars PROVE DescriptorInv'
  OBVIOUS
<1>1. CASE Server
  BY <1>1, DescriptorInside, DescriptorAccept, DescriptorAcceptFails, DescriptorClose,
     DescriptorFree DEF Server, AcceptSome, Work
<1>2. CASE Fail
  BY <1>2, DescriptorInside, DescriptorDie DEF Fail
<1>3. CASE Restart
  BY <1>3, DescriptorStill DEF Restart, request, client
<1>4. CASE Clients
  <2>1. ASSUME NEW c \in Conn, Leave(c) PROVE DescriptorInv'
    BY <2>1, DescriptorStill DEF Leave, request
  <2> QED BY <1>4, <2>1, DescriptorConnect DEF Clients
<1>5. CASE UNCHANGED vars
  BY <1>5, DescriptorStill DEF vars, request, client
<1> QED BY <1>1, <1>2, <1>3, <1>4, <1>5 DEF Next

\* No two requests share a descriptor, and the descriptor of a request is open
\* for the client it was accepted for until the request closes it: whatever
\* the number of workers and however they interleave with the accepting
\* thread, a close comes once, and only for a descriptor that is still its own.
THEOREM OwnDescriptorTheorem == Spec => []OwnDescriptor
<1>1. TypeOK /\ DescriptorInv => OwnDescriptor
  <2> SUFFICES ASSUME TypeOK, DescriptorInv PROVE OwnDescriptor
    OBVIOUS
  <2>1. ASSUME NEW r \in Request, NEW q \in Request, Holds(r), Holds(q), r # q
        PROVE  sock[r] # sock[q] /\ serves[r] # serves[q]
    <3>1. sock[r] \in Fd /\ sock[q] \in Fd
      BY <2>1 DEF TypeOK, ServerTypes, Holds
    <3> QED BY <2>1, <3>1 DEF DescriptorInv, LinkInv
  <2> QED BY <2>1 DEF DescriptorInv, OwnDescriptor
<1> QED BY <1>1, DescriptorInit, DescriptorNext, TypeTheorem, PTL DEF Spec

(***************************************************************************)
(* Answers.                                                                *)
(***************************************************************************)
LEMMA AnswerCases ==
    ASSUME NEW line
    PROVE  \/ Answer(line) = <<>>
           \/ Answer(line) = <<"error", "method">>
           \/ \E x : Answer(line) = <<x, "headers", "text">>
BY Zenon DEF Answer

LEMMA BeginsLiteral ==
    ASSUME NEW x, NEW y, NEW z
    PROVE  /\ Begins(<<>>, <<>>) /\ Begins(<<>>, <<x, y>>) /\ Begins(<<>>, <<x, y, z>>)
           /\ Begins(<<x>>, <<x, y>>) /\ Begins(<<x>>, <<x, y, z>>)
           /\ Begins(<<x, y>>, <<x, y>>) /\ Begins(<<x, y>>, <<x, y, z>>)
           /\ Begins(<<x, y, z>>, <<x, y, z>>)
BY DEF Begins

LEMMA AppendLiteral ==
    ASSUME NEW x, NEW y, NEW z
    PROVE  /\ Append(<<>>, x) = <<x>> /\ Append(<<x>>, y) = <<x, y>>
           /\ Len(<<>>) = 0 /\ Len(<<x>>) = 1 /\ Len(<<x, y>>) = 2 /\ Len(<<x, y, z>>) = 3
           /\ <<x, y>>[1] = x /\ <<x, y>>[2] = y
           /\ <<x, y, z>>[1] = x /\ <<x, y, z>>[2] = y /\ <<x, y, z>>[3] = z
<1>1. Append(<<>>, x) = <<x>>
  OBVIOUS
<1>2. /\ Len(<<>>) = 0 /\ Len(<<x>>) = 1 /\ Len(<<x, y>>) = 2 /\ Len(<<x, y, z>>) = 3
      /\ <<x>>[1] = x /\ <<x, y>>[1] = x /\ <<x, y>>[2] = y
      /\ <<x, y, z>>[1] = x /\ <<x, y, z>>[2] = y /\ <<x, y, z>>[3] = z
  OBVIOUS
<1> DEFINE S == {x, y, z}
<1>3. Append(<<x>>, y) = <<x, y>>
  <2> DEFINE s == Append(<<x>>, y)
             t == <<x, y>>
  <2>1. <<x>> \in Seq(S) /\ t \in Seq(S) /\ y \in S
    OBVIOUS
  <2>2. s \in Seq(S) /\ Len(s) = 2 /\ s[1] = x /\ s[2] = y
    BY <1>2, <2>1, AppendProperties
  <2>3. \A i \in 1..Len(s) : s[i] = t[i]
    BY <1>2, <2>2
  <2> HIDE DEF S, s, t
  <2>4. Len(s) = Len(t)
    BY <1>2, <2>2 DEF t
  <2>5. s = t
    BY <2>1, <2>2, <2>3, <2>4, SeqEqual
  <2> QED BY <2>5 DEF s, t
<1> QED BY <1>1, <1>2, <1>3

LEMMA AppendThird == ASSUME NEW x, NEW y, NEW z PROVE Append(<<x, y>>, z) = <<x, y, z>>
<1> DEFINE S == {x, y, z}
           s == Append(<<x, y>>, z)
           t == <<x, y, z>>
<1>1. <<x, y>> \in Seq(S) /\ t \in Seq(S) /\ z \in S
  OBVIOUS
<1>2. s \in Seq(S) /\ Len(s) = 3 /\ s[1] = x /\ s[2] = y /\ s[3] = z
  BY <1>1, AppendLiteral, AppendProperties
<1>3. \A i \in 1..Len(s) : s[i] = t[i]
  BY <1>2
<1> HIDE DEF S, s, t
<1>4. Len(s) = Len(t)
  BY <1>2, AppendLiteral DEF t
<1>5. s = t
  BY <1>1, <1>2, <1>3, <1>4, SeqEqual
<1> QED BY <1>5 DEF s, t

LEMMA BeginsEmpty == ASSUME NEW line PROVE Begins(<<>>, Answer(line))
BY AnswerCases, BeginsLiteral

LEMMA BeginsWhole == ASSUME NEW line PROVE Begins(Answer(line), Answer(line))
BY AnswerCases, BeginsLiteral

\* A part that is written is the next one of the answer.
Adds(label, line) ==
    /\ Len(Written(label, line)) < Len(Answer(line))
    /\ Answer(line)[Len(Written(label, line)) + 1] = Part(label, line)
    /\ Append(Written(label, line), Part(label, line)) = Written(Behind(label), line)
    /\ Begins(Append(Written(label, line), Part(label, line)), Answer(line))

LEMMA NextPart ==
    ASSUME NEW label \in Writing, NEW line \in Leading(label)
    PROVE  Adds(label, line)
<1> DEFINE w == Written(label, line)
           part == Part(label, line)
           a == Answer(line)
           n == Written(Behind(label), line)
<1>1. CASE label = "refuse"
  <2>1. w = <<>> /\ part = "error" /\ a = <<"error", "method">> /\ n = <<"error">>
    BY <1>1 DEF Leading, Written, Answer, Part, Behind
  <2> HIDE DEF w, part, a, n
  <2>2. Len(w) < Len(a) /\ a[Len(w) + 1] = part
    BY <2>1
  <2>3. Append(w, part) = n /\ Begins(n, a)
    BY <2>1, AppendLiteral, BeginsLiteral, Zenon
  <2> QED BY <2>2, <2>3, Zenon DEF Adds, w, part, a, n
<1>2. CASE label = "method"
  <2>1. w = <<"error">> /\ part = "method" /\ a = <<"error", "method">> /\ n = a
    BY <1>2 DEF Leading, Written, Answer, Part, Behind
  <2> HIDE DEF w, part, a, n
  <2>2. Len(w) < Len(a) /\ a[Len(w) + 1] = part
    BY <2>1
  <2>3. Append(w, part) = n /\ Begins(n, a)
    BY <2>1, AppendLiteral, BeginsLiteral, Zenon
  <2> QED BY <2>2, <2>3, Zenon DEF Adds, w, part, a, n
<1> DEFINE x == Part("status", line)
<1>3. ASSUME label \in {"status", "headers", "body"}
      PROVE  line \in {"page", "other"} /\ a = <<x, "headers", "text">>
  BY <1>3 DEF Leading, Answer, Part
<1>4. CASE label = "status"
  <2>1. w = <<>> /\ part = x /\ a = <<x, "headers", "text">> /\ n = <<x>>
    BY <1>3, <1>4 DEF Written, Behind
  <2> HIDE DEF w, part, a, n, x
  <2>2. Len(w) < Len(a) /\ a[Len(w) + 1] = part
    BY <2>1
  <2>3. Append(w, part) = n /\ Begins(n, a)
    BY <2>1, AppendLiteral, BeginsLiteral, Zenon
  <2> QED BY <2>2, <2>3, Zenon DEF Adds, w, part, a, n
<1>5. CASE label = "headers"
  <2>1. /\ w = <<x>> /\ part = "headers" /\ a = <<x, "headers", "text">>
        /\ n = <<x, "headers">>
    BY <1>3, <1>5 DEF Written, Behind, Part
  <2> HIDE DEF w, part, a, n, x
  <2>2. Len(w) < Len(a) /\ a[Len(w) + 1] = part
    BY <2>1
  <2>3. Append(w, part) = n /\ Begins(n, a)
    BY <2>1, AppendLiteral, BeginsLiteral, Zenon
  <2> QED BY <2>2, <2>3, Zenon DEF Adds, w, part, a, n
<1>6. CASE label = "body"
  <2>1. /\ w = <<x, "headers">> /\ part = "text" /\ a = <<x, "headers", "text">>
        /\ n = a
    BY <1>3, <1>6 DEF Written, Behind, Part
  <2> HIDE DEF w, part, a, n, x
  <2>2. Len(w) < Len(a) /\ a[Len(w) + 1] = part
    BY <2>1
  <2>3. Append(w, part) = n
    <3>1. Append(<<x, "headers">>, "text") = <<x, "headers", "text">>
      BY AppendThird
    <3> QED BY <2>1, <3>1, Zenon
  <2>4. Begins(n, a)
    BY <2>1, BeginsLiteral, Zenon
  <2> QED BY <2>2, <2>3, <2>4, Zenon DEF Adds, w, part, a, n
<1> QED BY <1>1, <1>2, <1>4, <1>5, <1>6 DEF Writing

(***************************************************************************)
(* Whose descriptor a request has.                                         *)
(***************************************************************************)
LEMMA Served ==
    ASSUME TypeOK, DescriptorInv, NEW r \in Request, Holds(r)
    PROVE  /\ serves[r] \in Conn /\ sock[r] \in Fd
           /\ Peer(r) = serves[r] /\ Peer(r) # None
           /\ link[serves[r]] = "open"
           /\ \A q \in Request : Holds(q) /\ q # r => serves[q] # serves[r]
<1>1. sock[r] \in Fd /\ serves[r] \in Conn /\ serves[r] # None
  BY DEF TypeOK, ServerTypes, Holds, DescriptorInv
<1>2. fds[sock[r]] = serves[r]
  BY DEF DescriptorInv
<1>3. Peer(r) = serves[r]
  BY <1>1, <1>2, HttpAssumption DEF Peer, HttpAssumption
<1>4. link[serves[r]] = "open"
  BY <1>1, <1>2 DEF DescriptorInv, LinkInv
<1>5. ASSUME NEW q \in Request, Holds(q), q # r PROVE serves[q] # serves[r]
  <2>1. sock[q] \in Fd /\ sock[q] # sock[r] /\ fds[sock[q]] = serves[q]
    BY <1>5 DEF TypeOK, ServerTypes, Holds, DescriptorInv
  <2> QED BY <1>1, <1>2, <2>1 DEF DescriptorInv, LinkInv
<1> QED BY <1>1, <1>3, <1>4, <1>5

LEMMA Unserved ==
    ASSUME NEW r \in Request, pc[r] \in Held, ~Holds(r)
    PROVE  Peer(r) = None
BY DEF Holds, Peer

\* A worker whose client and own state stay as they are.
LEMMA WorkingStill ==
    ASSUME NEW q \in Request, Working(q),
           pc'[q] = pc[q], serves'[q] = serves[q], target'[q] = target[q],
           asked'[serves[q]] = asked[serves[q]], gone'[serves[q]] = gone[serves[q]],
           got'[serves[q]] = got[serves[q]],
           serves[q] \in unserved' <=> serves[q] \in unserved
    PROVE  Working(q)'
BY DEF Working

\* A worker that goes on after a leave of its client.
LEMMA WorkingGone ==
    ASSUME NEW q \in Request, Working(q),
           pc'[q] = pc[q], serves'[q] = serves[q], target'[q] = target[q],
           gone'[serves[q]] = TRUE, UNCHANGED <<asked, got, unserved>>
    PROVE  Working(q)'
BY DEF Working

(***************************************************************************)
(* The steps that no client sees.                                          *)
(***************************************************************************)
\* The worker of r goes to another label, and its client does not notice.
LEMMA AnswerQuiet ==
    ASSUME TypeOK, AnswerInv, NEW r \in Request, NEW label \in Held,
           pc[r] \in Held \ Answering, Goto(r, label),
           UNCHANGED <<sock, serves, target, client>>,
           Holds(r) => /\ target[r] \in Leading(label)
                       /\ Written(label, target[r]) = <<>>
    PROVE  AnswerInv'
<1>1. /\ pc'[r] = label
      /\ \A q \in Request : q # r => pc'[q] = pc[q]
  BY DEF TypeOK, ServerTypes, Goto
<1>2. \A q \in Request : Holds(q)' => Holds(q)
  BY <1>1 DEF Holds
<1>3. ASSUME NEW q \in Request, Holds(q)' PROVE Working(q)'
  <2>1. Working(q)
    BY <1>2, <1>3 DEF AnswerInv, WorkInv
  <2>2. CASE q # r
    BY <1>1, <2>1, <2>2, WorkingStill DEF client
  <2>3. CASE q = r
    <3>1. /\ got[serves[r]] = <<>> /\ serves[r] \notin unserved
          /\ target[r] = asked[serves[r]]
      BY <2>1, <2>3 DEF Working, Answering
    <3>2. target[r] \in Leading(label) /\ Written(label, target[r]) = <<>>
      BY <1>2, <1>3, <2>3
    <3> QED BY <1>1, <2>3, <3>1, <3>2 DEF Working, client
  <2> QED BY <2>2, <2>3
<1>4. \A q \in Request : pc'[q] = "free" => pc[q] = "free"
  BY <1>1 DEF Held, Writing
<1> QED BY <1>3, <1>4 DEF AnswerInv, FreshInv, WorkInv, AnswerFits, AnsweredInFull, client

LEMMA AnswerInside ==
    ASSUME TypeOK, AnswerInv, NEW r \in Request,
           \/ Spawn(r) \/ SpawnFails(r) \/ ReadAuthorization(r) \/ ReadEnds(r)
           \/ TestFirst(r) \/ FillTable(r) \/ Decode(r) \/ OpenPage(r)
    PROVE  AnswerInv' /\ UNCHANGED client
<1>1. /\ pc[r] \in Held \ Answering
      /\ UNCHANGED <<sock, serves, target, client>>
  BY DEF Spawn, SpawnFails, ReadAuthorization, ReadEnds, TestFirst, FillTable, Decode,
         OpenPage, Held, Answering, Writing
<1>2. Holds(r) => target[r] \in Leading(pc[r])
  BY DEF AnswerInv, WorkInv, Working
<1>3. PICK label \in Held : /\ Goto(r, label)
                            /\ Holds(r) => /\ target[r] \in Leading(label)
                                           /\ Written(label, target[r]) = <<>>
  <2>1. CASE Spawn(r) \/ SpawnFails(r)
    BY <1>2, <2>1 DEF Spawn, SpawnFails, Leading, Written, Held
  <2>2. CASE ReadAuthorization(r)
    BY <1>2, <2>2 DEF ReadAuthorization, Leading, Written, Held
  <2>3. CASE ReadEnds(r)
    <3>1. Goto(r, Route(target[r])) /\ Route(target[r]) \in Held
      BY <2>3 DEF ReadEnds, Route, Held
    <3>2. Holds(r) => target[r] \in {None} \cup (Line \ {"bad"})
      BY <1>2, <2>3 DEF ReadEnds, Leading
    <3>3. Holds(r) => /\ target[r] \in Leading(Route(target[r]))
                      /\ Written(Route(target[r]), target[r]) = <<>>
      <4>1. CASE target[r] \in {"page", "other"}
        BY <4>1 DEF Route, Leading, Written
      <4>2. CASE target[r] \notin {"page", "other"}
        <5>1. Route(target[r]) = "close"
          BY <4>2 DEF Route
        <5>2. Holds(r) => target[r] \in {None} \cup Line /\ Answer(target[r]) = <<>>
          BY <3>2, <4>2, HttpAssumption DEF HttpAssumption, Line, Answer
        <5> QED BY <5>1, <5>2 DEF Leading, Written
      <4> QED BY <4>1, <4>2
    <3> QED BY <3>1, <3>3
  <2>4. CASE TestFirst(r) \/ FillTable(r) \/ Decode(r)
    BY <1>2, <2>4 DEF TestFirst, FillTable, Decode, Leading, Written, Held
  <2>5. CASE OpenPage(r)
    BY <1>2, <2>5 DEF OpenPage, Leading, Written, Held, Writing
  <2> QED BY <2>1, <2>2, <2>3, <2>4, <2>5
<1> QED BY <1>1, <1>3, AnswerQuiet

(***************************************************************************)
(* The steps that a client sees, each with the step of its session.        *)
(***************************************************************************)
SessionStep == [Session!Next]_(Session!vars)

LEMMA StepOf ==
    ASSUME NEW c \in Conn,
           \/ Session!Connect(c) \/ Session!Leave(c) \/ Session!Accept(c)
           \/ Session!Give(c) \/ Session!Decline(c) \/ Session!End(c)
           \/ \E line \in Line : Session!Ask(c, line)
    PROVE  SessionStep
BY DEF SessionStep, Session!Next

LEMMA StepStill == UNCHANGED client => SessionStep
BY DEF SessionStep, Session!vars, client

LEMMA AnswerRead ==
    ASSUME TypeOK, DescriptorInv, AnswerInv,
           NEW r \in Request, NEW line \in Line, ReadRequestLine(r, line)
    PROVE  AnswerInv' /\ SessionStep
<1> DEFINE c == serves[r]
           label == IF line = "bad" THEN "refuse" ELSE "read"
<1>1. Holds(r) /\ pc[r] = "read"
  BY DEF ReadRequestLine, Holds, Held, Peer
<1>2. /\ c \in Conn /\ Peer(r) = c /\ link[c] = "open"
      /\ \A q \in Request : Holds(q) /\ q # r => serves[q] # c
  BY <1>1, Served
<1>3. /\ asked[c] = None /\ got[c] = <<>> /\ c \notin unserved
  BY <1>1 DEF AnswerInv, WorkInv, Working, ReadRequestLine, Answering
<1>4. /\ asked'[c] = line
      /\ \A d \in Conn : d # c => asked'[d] = asked[d]
      /\ asked' = [asked EXCEPT ![c] = line]
  BY <1>2, <1>3 DEF TypeOK, ClientTypes, ReadRequestLine
<1>5. /\ pc'[r] = label /\ target'[r] = line
      /\ \A q \in Request : q # r => pc'[q] = pc[q] /\ target'[q] = target[q]
      /\ UNCHANGED <<sock, serves, fds, link, gone, unserved, got>>
  BY DEF TypeOK, ServerTypes, ReadRequestLine, Goto
<1>6. ASSUME NEW q \in Request, Holds(q)' PROVE Working(q)'
  <2>1. CASE q # r
    <3>1. Holds(q) /\ Working(q) /\ serves[q] # c /\ serves[q] \in Conn
      BY <1>2, <1>5, <1>6, <2>1, Served DEF Holds, AnswerInv, WorkInv
    <3> QED BY <1>4, <1>5, <2>1, <3>1, WorkingStill
  <2>2. CASE q = r
    <3>1. line \in Leading(label) /\ Written(label, line) = <<>>
      BY DEF Leading, Written, Line
    <3> QED BY <1>3, <1>4, <1>5, <2>2, <3>1 DEF Working
  <2> QED BY <2>1, <2>2
<1>7. FreshInv'
  BY <1>2, <1>4, <1>5 DEF AnswerInv, FreshInv
<1>8. AnswerFits' /\ AnsweredInFull'
  BY <1>2, <1>3, <1>4, <1>5, BeginsEmpty DEF AnswerInv, AnswerFits, AnsweredInFull
<1>9. Session!Ask(c, line)
  BY <1>2, <1>3, <1>4, <1>5 DEF Session!Ask
<1> QED BY <1>2, <1>6, <1>7, <1>8, <1>9, StepOf DEF AnswerInv, WorkInv

\* A request without a descriptor answers nobody.
LEMMA AnswerNobody ==
    ASSUME AnswerInv, TypeOK, NEW r \in Request, NEW label \in Held \cup {"closed"},
           pc[r] \in Held, ~Holds(r), Goto(r, label),
           UNCHANGED <<sock, serves, target, client>>
    PROVE  AnswerInv'
<1>1. /\ pc'[r] = label
      /\ \A q \in Request : q # r => pc'[q] = pc[q]
  BY DEF TypeOK, ServerTypes, Goto
<1>2. \A q \in Request : Holds(q)' => Holds(q) /\ q # r
  BY <1>1 DEF Holds
<1>3. \A q \in Request : pc'[q] = "free" => pc[q] = "free"
  BY <1>1 DEF Held, Writing
<1>4. ASSUME NEW q \in Request, Holds(q)' PROVE Working(q)'
  BY <1>1, <1>2, <1>4, WorkingStill DEF AnswerInv, WorkInv, client
<1> QED BY <1>3, <1>4 DEF AnswerInv, FreshInv, WorkInv, AnswerFits, AnsweredInFull, client

LEMMA AnswerOpenPageFails ==
    ASSUME TypeOK, DescriptorInv, AnswerInv, NEW r \in Request, OpenPageFails(r)
    PROVE  AnswerInv' /\ SessionStep
<1> DEFINE c == serves[r]
<1>1. CASE ~Holds(r)
  <2>1. pc[r] \in Held /\ Peer(r) = None
    BY <1>1, Unserved DEF OpenPageFails, Held
  <2>2. Goto(r, "close") /\ UNCHANGED <<sock, serves, target, client>>
    BY <2>1 DEF OpenPageFails, client
  <2> QED BY <1>1, <2>1, <2>2, AnswerNobody, StepStill DEF Held
<1>2. CASE Holds(r)
  <2>1. /\ c \in Conn /\ Peer(r) = c /\ c # None /\ link[c] = "open"
        /\ \A q \in Request : Holds(q) /\ q # r => serves[q] # c
    BY <1>2, Served
  <2>2. got[c] = <<>> /\ target[r] = asked[c] /\ target[r] \in {"page", "other"}
    BY <1>2 DEF AnswerInv, WorkInv, Working, OpenPageFails, Leading, Answering
  <2>3. /\ pc'[r] = "close" /\ unserved' = unserved \cup {c}
        /\ \A q \in Request : q # r => pc'[q] = pc[q]
        /\ UNCHANGED <<sock, serves, target, fds, link, gone, asked, got>>
    BY <2>1 DEF TypeOK, ServerTypes, OpenPageFails, Goto
  <2>4. ASSUME NEW q \in Request, Holds(q)' PROVE Working(q)'
    <3>1. CASE q # r
      <4>1. Holds(q) /\ Working(q) /\ serves[q] # c
        BY <2>1, <2>3, <2>4, <3>1 DEF Holds, AnswerInv, WorkInv
      <4> QED BY <2>3, <3>1, <4>1, WorkingStill
    <3>2. CASE q = r
      BY <2>2, <2>3, <3>2 DEF Working, Leading, Line
    <3> QED BY <3>1, <3>2
  <2>5. FreshInv'
    BY <2>1, <2>3 DEF AnswerInv, FreshInv
  <2>6. AnswerFits' /\ AnsweredInFull'
    BY <2>1, <2>3 DEF AnswerInv, AnswerFits, AnsweredInFull
  <2>7. Session!Decline(c)
    BY <2>1, <2>2, <2>3 DEF Session!Decline
  <2> QED BY <2>1, <2>4, <2>5, <2>6, <2>7, StepOf DEF AnswerInv, WorkInv
<1> QED BY <1>1, <1>2

LEMMA AnswerWrite ==
    ASSUME TypeOK, DescriptorInv, AnswerInv, NEW r \in Request, Write(r)
    PROVE  AnswerInv' /\ SessionStep
<1> DEFINE c == serves[r]
           label == Behind(pc[r])
<1>1. pc[r] \in Writing /\ pc[r] \in Held /\ label \in Answering
  BY DEF Write, Held, Behind, Answering
<1>2. /\ Goto(r, label) /\ got' = Received(r)
      /\ UNCHANGED <<sock, serves, target, fds, link, gone, asked, unserved>>
  BY DEF Write
<1>3. CASE ~Holds(r)
  <2>1. Peer(r) = None
    BY <1>1, <1>3, Unserved
  <2>2. UNCHANGED client
    BY <1>2, <2>1 DEF Received, client
  <2>3. label \in Held \cup {"closed"}
    BY <1>1 DEF Held, Writing, Answering
  <2> QED BY <1>1, <1>2, <1>3, <2>2, <2>3, AnswerNobody, StepStill
<1>4. CASE Holds(r)
  <2> DEFINE w == Written(pc[r], target[r])
             part == Part(pc[r], target[r])
  <2>1. /\ c \in Conn /\ Peer(r) = c /\ Peer(r) # None /\ link[c] = "open"
        /\ \A q \in Request : Holds(q) /\ q # r => serves[q] # c
    BY <1>4, Served
  <2>2. Working(r)
    BY <1>4 DEF AnswerInv, WorkInv
  <2>3. /\ target[r] = asked[c] /\ target[r] \in Leading(pc[r])
        /\ c \notin unserved /\ (~gone[c] => got[c] = w)
    BY <1>1, <2>2 DEF Working, Writing
  <2>4. /\ Len(w) < Len(Answer(target[r])) /\ Answer(target[r])[Len(w) + 1] = part
        /\ Append(w, part) = Written(label, target[r])
        /\ Begins(Append(w, part), Answer(target[r]))
    BY <1>1, <2>3, NextPart DEF Adds
  <2>5. target[r] \in Leading(label)
    BY <1>1, <2>3 DEF Leading, Behind, Writing, Line
  <2> HIDE DEF w, part
  <2>6. /\ pc'[r] = label
        /\ \A q \in Request : q # r => pc'[q] = pc[q]
    BY <1>2 DEF TypeOK, ServerTypes, Goto
  <2>7. /\ \A d \in Conn : d # c => got'[d] = got[d]
        /\ gone[c] => got' = got
        /\ ~gone[c] => got'[c] = Append(w, part) /\ got' = [got EXCEPT ![c] = Append(@, part)]
    BY <1>2, <2>1, <2>3 DEF TypeOK, ClientTypes, Received, part
  <2>8. ASSUME NEW q \in Request, Holds(q)' PROVE Working(q)'
    <3>1. CASE q # r
      <4>1. Holds(q) /\ Working(q) /\ serves[q] # c /\ serves[q] \in Conn
        BY <1>2, <2>1, <2>6, <2>8, <3>1, Served DEF Holds, AnswerInv, WorkInv
      <4> QED BY <1>2, <2>6, <2>7, <3>1, <4>1, WorkingStill
    <3>2. CASE q = r
      <4>1. ~gone[c] => got'[c] = Written(label, target[r])
        BY <2>4, <2>7
      <4> QED BY <1>1, <1>2, <2>3, <2>5, <2>6, <3>2, <4>1 DEF Working
    <3> QED BY <3>1, <3>2
  <2>9. FreshInv'
    BY <1>1, <1>2, <2>1, <2>6, <2>7 DEF AnswerInv, FreshInv, Answering, Writing
  <2>10. AnswerFits' /\ AnsweredInFull'
    <3>1. \A d \in Conn : Begins(got'[d], Answer(asked[d]))
      BY <2>3, <2>4, <2>7 DEF AnswerInv, AnswerFits
    <3> QED BY <1>2, <2>1, <2>7, <3>1 DEF AnswerInv, AnswerFits, AnsweredInFull
  <2>11. SessionStep
    <3>1. CASE gone[c]
      BY <1>2, <2>7, <3>1, StepStill DEF client
    <3>2. CASE ~gone[c]
      BY <1>2, <2>1, <2>3, <2>4, <2>7, <3>2, StepOf DEF Session!Give
    <3> QED BY <3>1, <3>2
  <2> QED BY <2>8, <2>9, <2>10, <2>11 DEF AnswerInv, WorkInv
<1> QED BY <1>3, <1>4

LEMMA AnswerClose ==
    ASSUME TypeOK, DescriptorInv, AnswerInv, NEW r \in Request, Close(r)
    PROVE  AnswerInv' /\ SessionStep
<1> DEFINE c == serves[r]
<1>1. CASE ~Holds(r)
  <2>1. pc[r] \in Held /\ Peer(r) = None
    BY <1>1, Unserved DEF Close, Held
  <2>2. Goto(r, "closed") /\ UNCHANGED <<sock, serves, target, client>>
    BY <2>1 DEF Close, client
  <2> QED BY <1>1, <2>1, <2>2, AnswerNobody, StepStill
<1>2. CASE Holds(r)
  <2>1. /\ c \in Conn /\ Peer(r) = c /\ Peer(r) # None /\ link[c] = "open"
        /\ \A q \in Request : Holds(q) /\ q # r => serves[q] # c
    BY <1>2, Served
  <2>2. Working(r) /\ pc[r] = "close"
    BY <1>2 DEF AnswerInv, WorkInv, Close
  <2>3. ~gone[c] => got[c] = IF c \in unserved THEN <<>> ELSE Answer(asked[c])
    BY <2>2 DEF Working, Written
  <2>4. /\ pc'[r] = "closed" /\ link' = [link EXCEPT ![c] = "ended"]
        /\ \A q \in Request : q # r => pc'[q] = pc[q]
        /\ UNCHANGED <<sock, serves, target, gone, asked, unserved, got>>
    BY <2>1 DEF TypeOK, ServerTypes, Close, Goto
  <2>5. link'[c] = "ended" /\ \A d \in Conn : d # c => link'[d] = link[d]
    BY <2>1, <2>4 DEF TypeOK, ClientTypes
  <2>6. ASSUME NEW q \in Request, Holds(q)' PROVE Working(q)'
    <3>1. q # r /\ Holds(q)
      BY <2>4, <2>6 DEF Holds, Held, Writing
    <3>2. Working(q)
      BY <3>1 DEF AnswerInv, WorkInv
    <3> QED BY <2>4, <3>1, <3>2, WorkingStill
  <2>7. FreshInv' /\ AnswerFits' /\ AnsweredInFull'
    BY <2>3, <2>4, <2>5 DEF AnswerInv, FreshInv, AnswerFits, AnsweredInFull
  <2>8. Session!End(c)
    BY <2>1, <2>3, <2>4 DEF Session!End
  <2> QED BY <2>1, <2>6, <2>7, <2>8, StepOf DEF AnswerInv, WorkInv
<1> QED BY <1>1, <1>2

LEMMA AnswerAccept ==
    ASSUME TypeOK, DescriptorInv, AnswerInv,
           NEW r \in Request, NEW f \in Fd, Accept(r, f)
    PROVE  AnswerInv' /\ SessionStep
<1> DEFINE c == Head(backlog)
<1>1. backlog \in Seq(Conn) /\ backlog # <<>>
  BY DEF TypeOK, ServerTypes, Accept
<1>2. c \in Conn /\ c = backlog[1] /\ 1 \in 1..Len(backlog)
  BY <1>1
<1>3. link[c] = "waiting"
  BY <1>2 DEF DescriptorInv, QueueInv
<1>4. asked[c] = None /\ got[c] = <<>> /\ c \notin unserved /\ target[r] = None
  BY <1>2, <1>3 DEF AnswerInv, FreshInv, Accept
<1>5. /\ link' = [link EXCEPT ![c] = "open"]
      /\ link'[c] = "open" /\ \A d \in Conn : d # c => link'[d] = link[d]
      /\ UNCHANGED <<target, gone, asked, unserved, got>>
  BY <1>2 DEF TypeOK, ClientTypes, Accept
<1>6. /\ pc'[r] = "accepted" /\ serves'[r] = c
      /\ \A q \in Request : q # r => /\ pc'[q] = pc[q]
                                     /\ sock'[q] = sock[q]
                                     /\ serves'[q] = serves[q]
  BY <1>2 DEF TypeOK, ServerTypes, Accept
<1>7. ASSUME NEW q \in Request, Holds(q)' PROVE Working(q)'
  <2>1. CASE q # r
    <3>1. Holds(q) /\ Working(q)
      BY <1>6, <1>7, <2>1 DEF Holds, AnswerInv, WorkInv
    <3> QED BY <1>5, <1>6, <2>1, <3>1, WorkingStill
  <2>2. CASE q = r
    BY <1>4, <1>5, <1>6, <2>2 DEF Working, Leading, Written
  <2> QED BY <2>1, <2>2
<1>8. FreshInv' /\ AnswerFits' /\ AnsweredInFull'
  BY <1>5, <1>6 DEF AnswerInv, FreshInv, AnswerFits, AnsweredInFull
<1>9. Session!Accept(c)
  BY <1>3, <1>5 DEF Session!Accept
<1> QED BY <1>2, <1>7, <1>8, <1>9, StepOf DEF AnswerInv, WorkInv

LEMMA AnswerAcceptFails ==
    ASSUME TypeOK, DescriptorInv, AnswerInv, NEW r \in Request, AcceptFails(r)
    PROVE  AnswerInv' /\ UNCHANGED client
<1>1. sock[r] = None /\ UNCHANGED <<sock, serves, target, client>>
  BY DEF DescriptorInv, FreeInv, AcceptFails
<1>2. /\ pc'[r] = "accepted"
      /\ \A q \in Request : q # r => pc'[q] = pc[q]
  BY DEF TypeOK, ServerTypes, AcceptFails
<1>3. ASSUME NEW q \in Request, Holds(q)' PROVE Working(q)'
  <2>1. q # r /\ Holds(q)
    BY <1>1, <1>2, <1>3 DEF Holds
  <2>2. Working(q)
    BY <2>1 DEF AnswerInv, WorkInv
  <2> QED BY <1>1, <1>2, <2>1, <2>2, WorkingStill DEF client
<1> QED BY <1>1, <1>2, <1>3
        DEF AnswerInv, FreshInv, WorkInv, AnswerFits, AnsweredInFull, client

LEMMA AnswerFree ==
    ASSUME TypeOK, AnswerInv, NEW r \in Request, Free(r)
    PROVE  AnswerInv' /\ UNCHANGED client
<1>1. /\ pc'[r] = "free" /\ target'[r] = None /\ UNCHANGED client
      /\ \A q \in Request : q # r => /\ pc'[q] = pc[q]
                                     /\ sock'[q] = sock[q]
                                     /\ serves'[q] = serves[q]
                                     /\ target'[q] = target[q]
  BY DEF TypeOK, ServerTypes, Free, Goto
<1>2. ASSUME NEW q \in Request, Holds(q)' PROVE Working(q)'
  <2>1. q # r /\ Holds(q)
    BY <1>1, <1>2 DEF Holds, Held, Writing
  <2>2. Working(q)
    BY <2>1 DEF AnswerInv, WorkInv
  <2> QED BY <1>1, <2>1, <2>2, WorkingStill DEF client
<1> QED BY <1>1, <1>2
        DEF AnswerInv, FreshInv, WorkInv, AnswerFits, AnsweredInFull, client

LEMMA AnswerDie ==
    ASSUME TypeOK, AnswerInv, NEW r \in Request, Die(r)
    PROVE  AnswerInv' /\ SessionStep
<1>1. /\ \A q \in Request : sock'[q] = None /\ target'[q] = None
      /\ \A c \in Conn : /\ link'[c] # "waiting"
                         /\ link'[c] = "ended" => link[c] = "ended"
      /\ UNCHANGED <<gone, asked, unserved, got>>
  BY DEF Die
<1>2. AnswerInv'
  <2>1. FreshInv'
    BY <1>1 DEF FreshInv
  <2>2. WorkInv'
    BY <1>1 DEF WorkInv, Holds
  <2>3. AnswerFits' /\ AnsweredInFull'
    BY <1>1 DEF AnswerInv, AnswerFits, AnsweredInFull
  <2> QED BY <2>1, <2>2, <2>3 DEF AnswerInv
<1>3. Session!Break
  BY DEF Die, Session!Break
<1> QED BY <1>2, <1>3 DEF SessionStep, Session!Next

\* Nobody works for a client who connects.
LEMMA AnswerConnect ==
    ASSUME TypeOK, DescriptorInv, AnswerInv, NEW c \in Conn, Connect(c)
    PROVE  AnswerInv' /\ SessionStep
<1>1. /\ link[c] \notin {"waiting", "open"} /\ link'[c] = "waiting"
      /\ asked'[c] = None /\ got'[c] = <<>> /\ unserved' = unserved \ {c}
      /\ \A d \in Conn : d # c => /\ link'[d] = link[d] /\ gone'[d] = gone[d]
                                  /\ asked'[d] = asked[d] /\ got'[d] = got[d]
      /\ UNCHANGED <<pc, sock, serves, target>>
  BY DEF TypeOK, ClientTypes, Connect, request
<1>2. ASSUME NEW q \in Request, Holds(q)' PROVE Working(q)'
  <2>1. Holds(q) /\ Working(q)
    BY <1>1, <1>2 DEF Holds, AnswerInv, WorkInv
  <2>2. serves[q] \in Conn /\ serves[q] # c
    BY <1>1, <2>1, Served
  <2> QED BY <1>1, <2>1, <2>2, WorkingStill
<1>3. FreshInv'
  BY <1>1 DEF AnswerInv, FreshInv
<1>4. AnswerFits' /\ AnsweredInFull'
  BY <1>1, BeginsEmpty DEF AnswerInv, AnswerFits, AnsweredInFull
<1>5. Session!Connect(c)
  BY DEF Connect, Session!Connect
<1> QED BY <1>2, <1>3, <1>4, <1>5, StepOf DEF AnswerInv, WorkInv

LEMMA AnswerLeave ==
    ASSUME TypeOK, DescriptorInv, AnswerInv, NEW c \in Conn, Leave(c)
    PROVE  AnswerInv' /\ SessionStep
<1>1. /\ gone'[c] = TRUE /\ \A d \in Conn : d # c => gone'[d] = gone[d]
      /\ UNCHANGED <<pc, sock, serves, target, link, asked, unserved, got>>
  BY DEF TypeOK, ClientTypes, Leave, request
<1>2. ASSUME NEW q \in Request, Holds(q)' PROVE Working(q)'
  <2>1. Holds(q) /\ Working(q)
    BY <1>1, <1>2 DEF Holds, AnswerInv, WorkInv
  <2>2. serves[q] \in Conn
    BY <2>1, Served
  <2>3. CASE serves[q] = c
    BY <1>1, <2>1, <2>3, WorkingGone
  <2>4. CASE serves[q] # c
    BY <1>1, <2>1, <2>2, <2>4, WorkingStill
  <2> QED BY <2>3, <2>4
<1>3. FreshInv' /\ AnswerFits'
  BY <1>1 DEF AnswerInv, FreshInv, AnswerFits
<1>4. AnsweredInFull'
  BY <1>1 DEF AnswerInv, AnsweredInFull
<1>5. Session!Leave(c)
  BY DEF Leave, Session!Leave
<1> QED BY <1>2, <1>3, <1>4, <1>5, StepOf DEF AnswerInv, WorkInv

LEMMA AnswerStill ==
    ASSUME AnswerInv, UNCHANGED <<pc, sock, serves, target, client>>
    PROVE  AnswerInv'
<1>1. ASSUME NEW q \in Request, Holds(q)' PROVE Working(q)'
  BY <1>1, WorkingStill DEF Holds, AnswerInv, WorkInv, client
<1> QED BY <1>1 DEF AnswerInv, FreshInv, WorkInv, AnswerFits, AnsweredInFull, client

(***************************************************************************)
(* The theorems.                                                           *)
(***************************************************************************)
LEMMA AnswerInit == Init => AnswerInv
<1> SUFFICES ASSUME Init PROVE AnswerInv
  OBVIOUS
<1>1. FreshInv /\ AnsweredInFull
  BY DEF Init, FreshInv, AnsweredInFull
<1>2. WorkInv
  BY DEF Init, WorkInv, Holds
<1>3. AnswerFits
  BY BeginsEmpty DEF Init, AnswerFits
<1> QED BY <1>1, <1>2, <1>3 DEF AnswerInv

LEMMA SessionNext ==
    ASSUME TypeOK, DescriptorInv, AnswerInv, [Next]_vars
    PROVE  AnswerInv' /\ SessionStep
<1>1. ASSUME NEW r \in Request,
             \/ Spawn(r) \/ SpawnFails(r) \/ Read(r) \/ ReadEnds(r) \/ Work(r)
             \/ OpenPageFails(r) \/ Die(r)
      PROVE  AnswerInv' /\ SessionStep
  <2>1. CASE \/ Spawn(r) \/ SpawnFails(r) \/ ReadAuthorization(r) \/ ReadEnds(r)
             \/ TestFirst(r) \/ FillTable(r) \/ Decode(r) \/ OpenPage(r)
    BY <2>1, AnswerInside, StepStill
  <2>2. CASE Free(r)
    BY <2>2, AnswerFree, StepStill
  <2>3. CASE \E line \in Line : ReadRequestLine(r, line)
    BY <2>3, AnswerRead
  <2>4. CASE OpenPageFails(r) \/ Write(r) \/ Close(r) \/ Die(r)
    BY <2>4, AnswerOpenPageFails, AnswerWrite, AnswerClose, AnswerDie
  <2> QED BY <1>1, <2>1, <2>2, <2>3, <2>4 DEF Read, Work
<1>2. CASE AcceptSome
  BY <1>2, AnswerAccept, AnswerAcceptFails, StepStill DEF AcceptSome
<1>3. CASE Clients
  BY <1>3, AnswerConnect, AnswerLeave DEF Clients
<1>4. CASE Restart \/ UNCHANGED vars
  BY <1>4, AnswerStill, StepStill DEF Restart, vars, request
<1> QED BY <1>1, <1>2, <1>3, <1>4 DEF Next, Server, Fail

LEMMA SessionInvariant == Spec => [](TypeOK /\ DescriptorInv /\ AnswerInv)
<1>1. TypeOK /\ DescriptorInv /\ AnswerInv /\ [Next]_vars => AnswerInv'
  BY SessionNext
<1> QED BY <1>1, AnswerInit, DescriptorInit, DescriptorNext, TypeTheorem, PTL DEF Spec

\* Whatever the workers, the accepting thread and failures do in between, no
\* client ever receives a part that is not the next of the answer to its own
\* request line (httpdOutput, http_send_redirect).
THEOREM AnswerTheorem == Spec => []AnswerFits
<1>1. AnswerInv => AnswerFits
  BY DEF AnswerInv
<1> QED BY <1>1, SessionInvariant, PTL

\* A client that waits until the server closes has the whole answer, or, when
\* the page could not be opened for it, nothing (send_http_page).
THEOREM InFullTheorem == Spec => []AnsweredInFull
<1>1. AnswerInv => AnsweredInFull
  BY DEF AnswerInv
<1> QED BY <1>1, SessionInvariant, PTL

\* The web server implements one private session for each client, for any
\* clients, memory and descriptors, deaths and restarts included.
THEOREM SessionTheorem == Spec => ImplementsSessions
<1>1. Init => Session!Init
  BY DEF Init, Session!Init
<1>2. TypeOK /\ DescriptorInv /\ AnswerInv /\ [Next]_vars
        => [Session!Next]_(Session!vars)
  BY SessionNext DEF SessionStep
<1> QED BY <1>1, <1>2, SessionInvariant, PTL DEF Spec, ImplementsSessions, Session!Spec

(***************************************************************************)
(* Descriptors that nobody holds.                                          *)
(***************************************************************************)
LEMMA LeaksGoto ==
    ASSUME TypeOK, NoDescriptorLeaks, NEW r \in Request, NEW label \in Held,
           Goto(r, label), UNCHANGED <<sock, fds>>
    PROVE  NoDescriptorLeaks'
<1>1. \A q \in Request : Holds(q) => Holds(q)'
  BY DEF TypeOK, ServerTypes, Goto, Holds
<1> QED BY <1>1 DEF NoDescriptorLeaks

LEMMA LeaksNext ==
    ASSUME TypeOK, DescriptorInv, NoDescriptorLeaks, [Next]_vars
    PROVE  NoDescriptorLeaks'
<1>1. ASSUME NEW r \in Request, NEW f \in Fd, Accept(r, f)
      PROVE  NoDescriptorLeaks'
  <2>1. Holds(r)' /\ sock'[r] = f
    BY <1>1, HttpAssumption DEF TypeOK, ServerTypes, Accept, Holds, Held, HttpAssumption
  <2>2. \A q \in Request : Holds(q) => q # r /\ Holds(q)' /\ sock'[q] = sock[q]
    BY <1>1 DEF TypeOK, ServerTypes, Accept, Holds, Held, Writing
  <2>3. \A g \in Fd : g # f => fds'[g] = fds[g]
    BY <1>1 DEF TypeOK, ServerTypes, Accept
  <2> QED BY <2>1, <2>2, <2>3 DEF NoDescriptorLeaks
<1>2. ASSUME NEW r \in Request, AcceptFails(r) PROVE NoDescriptorLeaks'
  <2>1. \A q \in Request : Holds(q) => Holds(q)'
    BY <1>2 DEF TypeOK, ServerTypes, AcceptFails, Holds, Held
  <2> QED BY <1>2, <2>1 DEF AcceptFails, NoDescriptorLeaks
<1>3. ASSUME NEW r \in Request,
             \/ Spawn(r) \/ SpawnFails(r) \/ Read(r) \/ ReadEnds(r)
             \/ TestFirst(r) \/ FillTable(r) \/ Decode(r)
             \/ OpenPage(r) \/ OpenPageFails(r) \/ Write(r)
      PROVE  NoDescriptorLeaks'
  <2>1. \E label \in Held : Goto(r, label)
    BY <1>3 DEF Spawn, SpawnFails, Read, ReadRequestLine, ReadAuthorization, ReadEnds,
       TestFirst, FillTable, Decode, OpenPage, OpenPageFails, Write, Route, Behind, Held, Writing
  <2>2. UNCHANGED <<sock, fds>>
    BY <1>3 DEF Spawn, SpawnFails, Read, ReadRequestLine, ReadAuthorization, ReadEnds,
       TestFirst, FillTable, Decode, OpenPage, OpenPageFails, Write
  <2> QED BY <2>1, <2>2, LeaksGoto
<1>4. ASSUME NEW r \in Request, Close(r) PROVE NoDescriptorLeaks'
  <2>1. \A q \in Request : q # r /\ Holds(q) => Holds(q)' /\ sock'[q] = sock[q]
    BY <1>4 DEF TypeOK, ServerTypes, Close, Goto, Holds
  <2>2. ASSUME NEW g \in Fd, fds'[g] # None PROVE fds[g] # None /\ sock[r] # g
    <3>1. CASE Peer(r) = None
      BY <1>4, <2>2, <3>1, HttpAssumption DEF Close, Peer, HttpAssumption
    <3>2. CASE Peer(r) # None
      BY <1>4, <2>2, <3>2 DEF TypeOK, ServerTypes, Close, Peer
    <3> QED BY <3>1, <3>2
  <2> QED BY <2>1, <2>2 DEF NoDescriptorLeaks
<1>5. ASSUME NEW r \in Request, Free(r) PROVE NoDescriptorLeaks'
  <2>1. \A q \in Request : Holds(q) => Holds(q)' /\ sock'[q] = sock[q]
    BY <1>5 DEF TypeOK, ServerTypes, Free, Goto, Holds, Held, Writing
  <2> QED BY <1>5, <2>1 DEF Free, NoDescriptorLeaks
<1>6. ASSUME NEW r \in Request, Die(r) PROVE NoDescriptorLeaks'
  BY <1>6 DEF Die, NoDescriptorLeaks
<1>7. CASE Restart \/ Clients \/ UNCHANGED vars
  <2>1. UNCHANGED <<pc, sock, fds>>
    BY <1>7 DEF Restart, Clients, Connect, Leave, vars, request
  <2> QED BY <2>1 DEF NoDescriptorLeaks, Holds
<1> QED BY <1>1, <1>2, <1>3, <1>4, <1>5, <1>6, <1>7
        DEF Next, Server, AcceptSome, Fail, Work

\* No descriptor of a connection stays open without a request that still has
\* to be ended, or that a failed pthread_create has lost (httpdEndRequest).
THEOREM LeakTheorem == Spec => []NoDescriptorLeaks
<1>1. Init => NoDescriptorLeaks
  BY DEF Init, NoDescriptorLeaks
<1>2. TypeOK /\ DescriptorInv /\ NoDescriptorLeaks /\ [Next]_vars => NoDescriptorLeaks'
  BY LeaksNext
<1> QED BY <1>1, <1>2, SessionInvariant, PTL DEF Spec
=========================================================================
