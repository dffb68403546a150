---------------------------- MODULE Sessions ----------------------------
(***************************************************************************)
(* What the web server promises to its clients, without threads,           *)
(* descriptors, queues or memory: each client has a session of its own,    *)
(* and in it gets the answer to the line it has sent, part by part and as  *)
(* a whole, or nothing.  HttpServer implements it: the module is the       *)
(* abstract specification, and stands for no code of its own.              *)
(***************************************************************************)
EXTENDS Naturals, Sequences

CONSTANTS
    Conn,       \* clients
    Line,       \* first lines of a client
    None,       \* no line
    Answer(_)   \* the parts of the answer to a line, or to none

VARIABLES link, gone, asked, unserved, got

vars == <<link, gone, asked, unserved, got>>

Init ==
    /\ link = [c \in Conn |-> "none"]
    /\ gone = [c \in Conn |-> FALSE]
    /\ asked = [c \in Conn |-> None]
    /\ unserved = {}
    /\ got = [c \in Conn |-> <<>>]

Connect(c) ==
    /\ link[c] \notin {"waiting", "open"}
    /\ link' = [link EXCEPT ![c] = "waiting"]
    /\ gone' = [gone EXCEPT ![c] = FALSE]
    /\ asked' = [asked EXCEPT ![c] = None]
    /\ unserved' = unserved \ {c}
    /\ got' = [got EXCEPT ![c] = <<>>]

Leave(c) ==
    /\ link[c] \in {"waiting", "open"} /\ ~gone[c]
    /\ gone' = [gone EXCEPT ![c] = TRUE]
    /\ UNCHANGED <<link, asked, unserved, got>>

Accept(c) ==
    /\ link[c] = "waiting"
    /\ link' = [link EXCEPT ![c] = "open"]
    /\ UNCHANGED <<gone, asked, unserved, got>>

\* The first line of a session decides, and nothing has been answered before.
Ask(c, line) ==
    /\ link[c] = "open" /\ asked[c] = None /\ got[c] = <<>>
    /\ asked' = [asked EXCEPT ![c] = line]
    /\ UNCHANGED <<link, gone, unserved, got>>

\* The next part of the answer, for a client who is there.
Give(c) ==
    /\ link[c] = "open" /\ ~gone[c] /\ c \notin unserved
    /\ Len(got[c]) < Len(Answer(asked[c]))
    /\ got' = [got EXCEPT ![c] = Append(@, Answer(asked[c])[Len(@) + 1])]
    /\ UNCHANGED <<link, gone, asked, unserved>>

\* There will be no answer: decided before its first part.
Decline(c) ==
    /\ link[c] = "open" /\ got[c] = <<>>
    /\ unserved' = unserved \cup {c}
    /\ UNCHANGED <<link, gone, asked, got>>

\* A session ends when all has been said, or nobody listens.
End(c) ==
    /\ link[c] = "open"
    /\ gone[c] \/ c \in unserved \/ got[c] = Answer(asked[c])
    /\ link' = [link EXCEPT ![c] = "ended"]
    /\ UNCHANGED <<gone, asked, unserved, got>>

\* All sessions at once, with the process.
Break ==
    /\ link' = [c \in Conn |-> IF link[c] \in {"waiting", "open"} THEN "reset" ELSE link[c]]
    /\ UNCHANGED <<gone, asked, unserved, got>>

Next ==
    \/ Break
    \/ \E c \in Conn :
           \/ Connect(c) \/ Leave(c) \/ Accept(c) \/ Give(c) \/ Decline(c) \/ End(c)
           \/ \E line \in Line : Ask(c, line)

Spec == Init /\ [][Next]_vars
=========================================================================
