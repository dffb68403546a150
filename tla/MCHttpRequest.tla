-------------------------- MODULE MCHttpRequest -------------------------
(* Model-checking module of HttpRequest: paths and queries of every shape    *)
(* over a few elements and characters, one in the place of the other.        *)
EXTENDS HttpRequest

CONSTANTS MaxElements, MaxQuery

UpTo(S, n) == UNION {[1..k -> S] : k \in 0..n}

a == <<97>>
b == <<98>>
Page == <<102>>

Paths   == {Slashed(e) : e \in UpTo({a, b, <<Dot>>, <<Dot, Dot>>, <<>>}, MaxElements)}
Queries == UpTo({Equals, Amp, 97, 98}, MaxQuery)
Values  == UpTo({Percent, 48, Plus, 65, Colon}, 3)

\* Every path; every query, of the page's path and of another; values that need
\* escapes; a query that has elements of dots, and one without a path.
MCTarget ==
    Paths
    \cup {<<Slash>> \o Page \o <<Question>> \o q : q \in Queries}
    \cup {<<Slash, 99, Question, 97, Equals>> \o v : v \in Values}
    \cup {<<Slash>> \o Page \o <<Question, 97, Equals>> \o Slashed(e) :
            e \in {<<a, <<Dot, Dot>>, b>>, <<a, <<>>, b>>}}
    \cup {<<Slash, 99, Question, Space, 97, Equals, 98, Amp, 97, Equals, 126, Question>>,
          <<97>>, <<>>}

MCHost == {<<104>>}

\* Every length of the last group of characters, and a colon and a NUL.
MCCredentials ==
    {[user |-> c[1], password |-> c[2]] :
        c \in {<<<<>>, <<117>>>>, <<<<117>>, <<255>>>>,
               <<<<117>>, <<128, Colon>>>>, <<<<NUL>>, <<118>>>>}}

MCPageName == Page
MCTitle    == a
MCMessage  == b
MCNodeID   == <<110>>
MCText     == [page |-> <<70>>, redirect |-> <<82>>]
=========================================================================
