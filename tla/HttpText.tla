---------------------------- MODULE HttpText ----------------------------
(***************************************************************************)
(* The conversions of httpd.cpp on paths, queries, URLs and credentials.   *)
(* A text is a sequence of character codes without NUL; C's loops over it  *)
(* are recursive functions of the number of characters read, each with the *)
(* step for one character; a loop that skips counts what is to be skipped. *)
(***************************************************************************)
EXTENDS CString

Tab == 9  Space == 32  Percent == 37  Amp == 38  Plus == 43
Slash == 47  Colon == 58  Equals == 61  Question == 63

(***************************************************************************)
(* _httpd_sanitiseUrl: three passes over the whole target, query included. *)
(***************************************************************************)
SlashStep(to, url, i) ==
    IF url[i] = Slash /\ At(url, i + 1) = Slash THEN to ELSE Append(to, url[i])

OneSlash(url) ==
    LET to[i \in 0..Len(url)] == IF i = 0 THEN <<>> ELSE SlashStep(to[i - 1], url, i)
    IN  to[Len(url)]

IsDot(url, i) == <<url[i], At(url, i + 1), At(url, i + 2)>> = <<Slash, Dot, Slash>>

\* Mutant: the slash that ends a sequence begins no other one.
DotStep_Apart(st, url, i) ==
    IF st.skip > 0 THEN [st EXCEPT !.skip = @ - 1]
    ELSE [to |-> Append(st.to, url[i]), skip |-> IF IsDot(url, i) THEN 2 ELSE 0]

\* skip counts the characters that "from" has jumped over.
DotStep(st, url, i) ==
    IF st.skip > 0 THEN [st EXCEPT !.skip = @ - 1]
    ELSE IF IsDot(url, i) THEN [st EXCEPT !.skip = 1]
    ELSE [st EXCEPT !.to = Append(@, url[i])]

NoDots(url) ==
    LET st[i \in 0..Len(url)] ==
            IF i = 0 THEN [to |-> <<>>, skip |-> 0] ELSE DotStep(st[i - 1], url, i)
    IN  st[Len(url)].to

IsClimb(url, i) ==
    <<url[i], At(url, i + 1), At(url, i + 2), At(url, i + 3)>> = <<Slash, Dot, Dot, Slash>>

\* Mutant: the slash is remembered after it is written.
ClimbStep_Late(st, url, i) ==
    IF st.skip > 0 THEN [st EXCEPT !.skip = @ - 1]
    ELSE IF IsClimb(url, i) THEN [to |-> SubSeq(st.to, 1, st.last), skip |-> 2, last |-> st.last]
    ELSE [to |-> Append(st.to, url[i]), skip |-> 0,
          last |-> IF url[i] = Slash THEN Len(st.to) + 1 ELSE st.last]

\* last is where the last slash was written, and is not moved back with "to".
ClimbStep(st, url, i) ==
    IF st.skip > 0 THEN [st EXCEPT !.skip = @ - 1]
    ELSE IF IsClimb(url, i) THEN [to |-> SubSeq(st.to, 1, st.last), skip |-> 2, last |-> st.last]
    ELSE [to |-> Append(st.to, url[i]), skip |-> 0,
          last |-> IF url[i] = Slash THEN Len(st.to) ELSE st.last]

NoClimbs(url) ==
    LET st[i \in 0..Len(url)] ==
            IF i = 0 THEN [to |-> <<>>, last |-> 0, skip |-> 0]
            ELSE ClimbStep(st[i - 1], url, i)
    IN  st[Len(url)].to

sanitiseUrl(url) == NoClimbs(NoDots(OneSlash(url)))

(***************************************************************************)
(* _httpd_unescape, in place, and httpdUrlEncode.                          *)
(***************************************************************************)
from_hex(ch) ==
    IF ch \in 48..57 THEN ch - 48 ELSE IF ch \in 65..70 THEN ch - 55 ELSE (ch + 256 - 87) % 256

\* A percent sign at the very end leaves the character that was there; with
\* one digit behind it the other is zero.
Escaped(st, str, i) ==
    LET high == At(str, i + 1)
        low  == At(str, i + 2)
    IN  IF high = NUL THEN str[Len(st.q) + 1]
        ELSE (from_hex(high) * 16 + IF low = NUL THEN 0 ELSE from_hex(low)) % 256

\* Mutant: the characters behind a percent sign are read again.
UnescapeStep_Rereads(st, str, i) ==
    IF str[i] = Percent
    THEN [q |-> Append(st.q, Escaped(st, str, i)), skip |-> 0]
    ELSE [q |-> Append(st.q, IF str[i] = Plus THEN Space ELSE str[i]), skip |-> 0]

UnescapeStep(st, str, i) ==
    IF st.skip > 0 THEN [st EXCEPT !.skip = @ - 1]
    ELSE IF str[i] = Percent
    THEN [q |-> Append(st.q, Escaped(st, str, i)), skip |-> 2]
    ELSE [q |-> Append(st.q, IF str[i] = Plus THEN Space ELSE str[i]), skip |-> 0]

Unescaped(str) ==
    LET st[i \in 0..Len(str)] ==
            IF i = 0 THEN [q |-> <<>>, skip |-> 0] ELSE UnescapeStep(st[i - 1], str, i)
    IN  st[Len(str)].q

\* Mutant: a NUL does not end the text.
unescape_KeepsNul(str) == Unescaped(str)

\* A NUL ends the text.
unescape(str) == Until(Unescaped(str), NUL)

\* isAcceptable with the mask URL_XPALPHAS, less the ampersand: a plus sign is
\* acceptable, a slash is not.
Acceptable ==
    {33, 34, 36} \cup (39..46) \cup (48..57) \cup (64..90) \cup {95} \cup (97..122)

hex(n) == IF n < 10 THEN 48 + n ELSE 55 + n

EscapedChar(ch) ==
    IF ch \in Acceptable THEN <<ch>> ELSE <<Percent, hex(ch \div 16), hex(ch % 16)>>

EscapeStep(q, str, i) == q \o EscapedChar(str[i])

escape(str) ==
    LET q[i \in 0..Len(str)] == IF i = 0 THEN <<>> ELSE EscapeStep(q[i - 1], str, i)
    IN  q[Len(str)]

\* The loop that turns blanks into plus signs finds none: they are escaped.
UrlEncode(str) ==
    LET q == escape(str)
    IN  [i \in DOMAIN q |-> IF q[i] = Space THEN Plus ELSE q[i]]

(***************************************************************************)
(* The variables of a request: a list of names, each with a list of values *)
(* (httpVar's nextVariable and nextValue).                                 *)
(***************************************************************************)
Variables == Seq([name : Seq(Char), values : Seq(Seq(Char)) \ {<<>>}])

Named(vars, name) == {i \in DOMAIN vars : vars[i].name = name}

\* While the name begins with a blank or a tab ...
Stripped(name) ==
    LET text == {i \in DOMAIN name : name[i] \notin {Space, Tab}}
    IN  IF text = {} THEN <<>> ELSE SubSeq(name, Least(text), Len(name))

\* Mutant: the new value comes first.
AddVariable_First(vars, name, value) ==
    LET n == Stripped(name)
    IN  IF Named(vars, n) = {}
        THEN Append(vars, [name |-> n, values |-> <<value>>])
        ELSE [vars EXCEPT ![Least(Named(vars, n))].values = <<value>> \o @]

AddVariable(vars, name, value) ==
    LET n == Stripped(name)
    IN  IF Named(vars, n) = {}
        THEN Append(vars, [name |-> n, values |-> <<value>>])
        ELSE [vars EXCEPT ![Least(Named(vars, n))].values = Append(@, value)]

\* httpdGetVariableByName, and the value of what it finds.
GetVariableByName(vars, name) == vars[Least(Named(vars, name))].values[1]

(***************************************************************************)
(* _httpd_storeData.  var is written from its start for each field and     *)
(* ended by an equals sign only, so that a field without one keeps the     *)
(* tail of an earlier name.  val is the text behind the last equals sign;  *)
(* NoValue stands for NULL.                                                *)
(***************************************************************************)
NoValue == <<NUL>>

Put(st, ch) == [st EXCEPT !.var[st.at] = ch]

Store(st) ==
    AddVariable(st.vars, Until(st.var, NUL), IF st.val = NoValue THEN <<>> ELSE unescape(st.val))

StoreStep(st, ch) ==
    IF ch = Equals THEN [Put(st, NUL) EXCEPT !.val = <<>>]
    ELSE IF ch = Amp THEN [var |-> st.var, at |-> 1, val |-> NoValue, vars |-> Store(st)]
    ELSE IF st.val # NoValue THEN [st EXCEPT !.val = Append(@, ch)]
    ELSE [Put(st, ch) EXCEPT !.at = @ + 1]

storeData(vars, query) ==
    LET st[i \in 0..Len(query)] ==
            IF i = 0 THEN [var |-> [k \in 1..Len(query) + 1 |-> NUL],
                           at |-> 1, val |-> NoValue, vars |-> vars]
            ELSE StoreStep(st[i - 1], query[i])
        end == st[Len(query)]
    IN  IF end.val = NoValue THEN end.vars ELSE Store(end)

(***************************************************************************)
(* _httpd_decode, of sextets that have been looked up in the table: three  *)
(* bytes for four of them, less what a last group that is not full has too *)
(* many.                                                                   *)
(***************************************************************************)
DecodedByte(six, k) ==
    LET c(n) == At(six, 4 * ((k - 1) \div 3) + n)
    IN  << c(1) * 4 + c(2) \div 16,
           c(2) * 16 + c(3) \div 4,
           c(3) * 64 + c(4) >>[((k - 1) % 3) + 1] % 256

\* Mutant: a last group that is not full is left out.
Decode_FullGroups(six) == [k \in 1..3 * (Len(six) \div 4) |-> DecodedByte(six, k)]

Decode(six) ==
    LET groups == (Len(six) + 3) \div 4
        cut    == IF Len(six) % 4 = 0 THEN 0 ELSE IF Len(six) % 4 = 3 THEN 1 ELSE 2
    IN  [k \in 1..3 * groups - cut |-> DecodedByte(six, k)]
=========================================================================
