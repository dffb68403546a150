--------------------------- MODULE HttpRequest --------------------------
(***************************************************************************)
(* What a worker of Httpd (src/src/httpd.cpp) makes of one request: it     *)
(* reads the target and the headers, stores the variables of the query,    *)
(* and answers with the page or with a redirect that carries the address   *)
(* asked for to the portal.  HttpServer has the threads, descriptors and   *)
(* connections; a worker shares none of the state of this module.          *)
(***************************************************************************)
EXTENDS HttpText

CONSTANTS
    Target,     \* targets of request lines, shorter than HTTP_MAX_URL
    Host,       \* values of Host headers
    Credentials,\* user and password of Authorization headers
    PageName,   \* "fasterconfig", the entry of the content tree
    Title, Message, NodeID,  \* names of the variables of the page
    Text,       \* what the two answers pass as title: Text.page, Text.redirect
    Room        \* characters of a URL that fit into the headers

\* Texts end at a NUL; credentials are encoded and may have one.  The names on
\* the page are literals, two of which matter, without a blank.
ASSUME RequestAssumption ==
    /\ Target \subseteq Seq(Char) /\ Host \subseteq Seq(Char)
    /\ Credentials \subseteq [user : Seq(Byte), password : Seq(Byte)]
    /\ {Title, Message, NodeID} \subseteq Seq(Char) /\ Title # Message
    /\ \A name \in {Title, Message, NodeID} : Stripped(name) = name
    /\ Text \in [page : Seq(Char), redirect : Seq(Char)]
    /\ Room \in Nat

VARIABLES
    pc,         \* "line", "headers", "process", "done"
    target,     \* history: the target of the request line
    sent,       \* history: the last credentials sent
    path, query, host, authUser, authPassword,
    variables,
    answer      \* what the client gets

vars == <<pc, target, sent, path, query, host, authUser, authPassword, variables, answer>>

\* bzero in httpdGetConnection.
Init ==
    /\ pc = "line"
    /\ target = <<>> /\ sent = <<>>
    /\ path = <<>> /\ query = <<>> /\ host = <<>>
    /\ authUser = <<>> /\ authPassword = <<>>
    /\ variables = <<>>
    /\ answer = [status |-> "none"]

(***************************************************************************)
(* httpdReadRequest.                                                       *)
(***************************************************************************)
ReadRequestLine(t) ==
    /\ pc = "line"
    /\ target' = t
    /\ path' = sanitiseUrl(t)
    /\ pc' = "headers"
    /\ UNCHANGED <<sent, query, host, authUser, authPassword, variables, answer>>

\* A method other than GET and POST is answered with a line of its own, and the
\* request is neither completed nor processed.
RejectMethod ==
    /\ pc = "line"
    /\ pc' = "done"
    /\ answer' = [status |-> "not implemented"]
    /\ UNCHANGED <<target, sent, path, query, host, authUser, authPassword, variables>>

ReadHost(h) ==
    /\ pc = "headers"
    /\ host' = h
    /\ UNCHANGED <<pc, target, sent, path, query, authUser, authPassword, variables, answer>>

\* A client's side of Basic authentication.
Sextets(bytes) ==
    [k \in 1..((4 * Len(bytes) + 2) \div 3) |->
        LET b(n) == At(bytes, (3 * (k - 1)) \div 4 + n)
        IN  << b(1) \div 4, (b(1) % 4) * 16 + b(2) \div 16, (b(1) % 16) * 4 + b(2) \div 64,
               b(1) % 64 >>[((k - 1) % 4) + 1]]

\* The decoded text ends at its first NUL; what is behind its first colon is
\* the password.
ReadAuthorization(c) ==
    LET text == Until(Decode(Sextets(c.user \o <<Colon>> \o c.password)), NUL)
    IN  /\ pc = "headers"
        /\ sent' = c
        /\ authUser' = Until(text, Colon)
        /\ authPassword' = IF Places(text, Colon) = {} THEN authPassword ELSE Behind(text, Colon)
        /\ UNCHANGED <<pc, target, path, query, host, variables, answer>>

\* The reading of a request may end at any time, even before its first line.
EndHeaders ==
    /\ pc \in {"line", "headers"}
    /\ pc' = "process"
    /\ IF Places(path, Question) = {} THEN UNCHANGED <<path, query, variables>>
       ELSE /\ path' = Until(path, Question)
            /\ query' = Behind(path, Question)
            /\ variables' = storeData(variables, Behind(path, Question))
    /\ UNCHANGED <<target, sent, host, authUser, authPassword, answer>>

(***************************************************************************)
(* httpdProcessRequest.  The directory looked for is always the root, so   *)
(* that the last element of the path decides.                              *)
(***************************************************************************)
LastElement == SubSeq(path, Greatest(Places(path, Slash)) + 1, Len(path))

Silent ==
    /\ pc = "process" /\ Places(path, Slash) = {}
    /\ pc' = "done"
    /\ UNCHANGED <<target, sent, path, query, host, authUser, authPassword, variables, answer>>

\* Mutant: each text under the other's name.
PageVariables_Swapped(title, message) ==
    AddVariable(AddVariable(AddVariable(variables, Title, message), Message, title),
                NodeID, <<49, 50, 51>>)

\* send_http_page: the page's own variables are added behind those of the
\* query, and the first value of a name is shown.
PageVariables(title, message) ==
    AddVariable(AddVariable(AddVariable(variables, Title, title), Message, message),
                NodeID, <<49, 50, 51>>)

Shown(v) == [title   |-> GetVariableByName(v, Title),
             message |-> GetVariableByName(v, Message)]

SendPage ==
    /\ pc = "process" /\ Places(path, Slash) # {} /\ LastElement = PageName
    /\ pc' = "done"
    /\ variables' = PageVariables(Text.page, <<>>)
    /\ answer' = [status |-> "200", page |-> Shown(variables')]
    /\ UNCHANGED <<target, sent, path, query, host, authUser, authPassword>>

\* http_callback_404 and http_send_redirect: the address asked for is a
\* parameter of the portal's, in the Location header as far as it fits and in
\* the link of the page.
Address == <<104, 116, 116, 112, Colon, Slash, Slash>> \o host \o path
           \o (IF query = <<>> THEN <<>> ELSE <<Question>> \o query)

SendRedirect ==
    LET url == UrlEncode(Address)
    IN  /\ pc = "process" /\ Places(path, Slash) # {} /\ LastElement # PageName
        /\ pc' = "done"
        /\ variables' = PageVariables(Text.redirect, url)
        /\ answer' = [status |-> "302", page |-> Shown(variables'),
                      location |-> IF Len(url) <= Room THEN url ELSE SubSeq(url, 1, Room)]
        /\ UNCHANGED <<target, sent, path, query, host, authUser, authPassword>>

Next ==
    \/ \E t \in Target : ReadRequestLine(t)
    \/ RejectMethod
    \/ \E h \in Host : ReadHost(h)
    \/ \E c \in Credentials : ReadAuthorization(c)
    \/ EndHeaders
    \/ Silent \/ SendPage \/ SendRedirect

Spec == Init /\ [][Next]_vars

(***************************************************************************)
(* Properties.                                                             *)
(***************************************************************************)
\* Texts have no NUL, also what percent signs spell; every variable has a value.
TypeOK ==
    /\ pc \in {"line", "headers", "process", "done"}
    /\ target \in Target \cup {<<>>} /\ sent \in Credentials \cup {<<>>}
    /\ host \in Host \cup {<<>>}
    /\ {path, query, authUser, authPassword} \subseteq Seq(Char)
    /\ variables \in Variables
    /\ answer.status \in {"none", "not implemented", "200", "302"}

Holds(s, t) == \E i \in 0..Len(s) - Len(t) : SubSeq(s, i + 1, i + Len(t)) = t

Odd == {<<Slash, Slash>>, <<Slash, Dot, Slash>>, <<Slash, Dot, Dot, Slash>>}

Asked(t)  == Until(t, Question)
Queried(t) == IF Places(t, Question) = {} THEN <<>> ELSE Behind(t, Question)

\* A path of which every element is taken for what it says: empty ones and
\* single dots are left out, two dots take away the element before them.  The
\* last element, which no slash follows, is only a name.
Elements(p) ==
    LET parts == Split(p, Slash)
    IN  Without(SubSeq(parts, 2, Len(parts) - 1), {<<>>, <<Dot>>})

Walk(done, e) ==
    IF e # <<Dot, Dot>> THEN Append(done, e)
    ELSE IF done = <<>> THEN <<>> ELSE SubSeq(done, 1, Len(done) - 1)

Walked(elements) ==
    LET done[n \in 0..Len(elements)] == IF n = 0 THEN <<>> ELSE Walk(done[n - 1], elements[n])
    IN  done[Len(elements)]

Slashed(elements) == Concat([i \in DOMAIN elements |-> <<Slash>> \o elements[i]])

Resolved(p) ==
    LET parts == Split(p, Slash)
    IN  Slashed(Append(Walked(Elements(p)), parts[Len(parts)]))

ClimbsTwice(p) == Holds(Elements(p), << <<Dot, Dot>>, <<Dot, Dot>> >>)

Absolute(t) == At(t, 1) = Slash /\ \A s \in Odd : ~Holds(Queried(t), s)

\* What sanitiseUrl says of itself: its three passes, one after the other, leave
\* no doubled slash and no element of dots, pieced together by an earlier pass.
PathClean == pc = "process" => \A s \in Odd : ~Holds(path, s)

\* The path that a request is processed with is the one it names, when it does
\* not climb twice in a row and the query, which is still attached to it when
\* it is cleaned, has no such sequence; the query is the one that was sent.
PathResolved ==
    pc = "process" /\ Absolute(target) /\ ~ClimbsTwice(Asked(target)) =>
        path = Resolved(Asked(target)) /\ query = Queried(target)

\* The comment in sanitiseUrl: /../ sequences are removed with the previous
\* path element.  Of two in a row the second removes nothing.
ClimbsRemoved ==
    pc = "process" /\ Absolute(target) => path = Resolved(Asked(target))

\* The fields of a query, as they are written; the last counts if it has a value.
Fields(q) ==
    LET all == Split(q, Amp)
    IN  IF Places(all[Len(all)], Equals) = {} THEN SubSeq(all, 1, Len(all) - 1) ELSE all

FieldName(f)  == Stripped(Until(f, Equals))
FieldValue(f) == IF Places(f, Equals) = {} THEN <<>>
                 ELSE unescape(SubSeq(f, Greatest(Places(f, Equals)) + 1, Len(f)))
ValuesOf(fields, name) ==
    LET own[n \in 0..Len(fields)] ==
            IF n = 0 THEN <<>>
            ELSE IF FieldName(fields[n]) # name THEN own[n - 1]
            ELSE Append(own[n - 1], FieldValue(fields[n]))
    IN  own[Len(fields)]

\* A name that no equals sign ends keeps the rest of a longer one before it.
Ended(fields) == \A i \in DOMAIN fields : Places(fields[i], Equals) = {} =>
    \A j \in 1..i - 1 : Len(Until(fields[j], Equals)) <= Len(fields[i])

\* The variables of a request are those that its query writes: of each name the
\* values in their order, and no other name.
StoredAsWritten ==
    pc = "process" =>
        LET fields == Fields(query)
        IN  Ended(fields) =>
                /\ {variables[i].name : i \in DOMAIN variables} =
                      {FieldName(fields[i]) : i \in DOMAIN fields}
                /\ \A i \in DOMAIN variables :
                      variables[i].values = ValuesOf(fields, variables[i].name)

\* A page shows what the server says unless the query has a value of that name,
\* which comes first and wins.
PageSays ==
    "page" \in DOMAIN answer =>
        LET fields == Fields(query)
            of(name, own) == (ValuesOf(fields, name) \o <<own>>)[1]
            isPage == answer.status = "200"
        IN  Ended(fields) => answer.page =
                [title   |-> of(Title, IF isPage THEN Text.page ELSE Text.redirect),
                 message |-> of(Message, IF isPage THEN <<>> ELSE UrlEncode(Address))]

\* The portal can read off the redirect which address was asked for, as it would
\* read any form, unless a plus sign is in it, which is not escaped, or it is too
\* long for the header.
RedirectReturns ==
    answer.status = "302" /\ Places(Address, Plus) = {} /\ Len(UrlEncode(Address)) <= Room =>
        storeData(<<>>, <<117, Equals>> \o answer.location) =
            << [name |-> <<117>>, values |-> <<Address>>] >>

\* The user and password that a client encodes arrive, the last ones sent, when
\* the user has no colon and neither has a NUL; padded groups lose nothing and
\* add nothing.
CredentialsArrive ==
    sent # <<>> /\ Places(sent.user, Colon) = {} /\ Places(sent.user \o sent.password, NUL) = {} =>
        authUser = sent.user /\ authPassword = sent.password
=========================================================================
