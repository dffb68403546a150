----------------------------- MODULE DnsName ----------------------------
(***************************************************************************)
(* Domain names as the DNS server handles them: a sequence of labels on    *)
(* the wire, a text with dots in between in memory (dn_expand of the       *)
(* resolver library), and a sequence of labels again in the reply          *)
(* (DnsServer::encode_domain).  A label is a sequence of characters.       *)
(***************************************************************************)
EXTENDS Naturals, Sequences
LOCAL INSTANCE SequencesExt

CONSTANT Decimal \* of every character that is not printed as it is, a blank
                 \* for instance, the three digits of its code

Dot     == "."
Escape  == "\\"
Special == {Dot, Escape, "\"", ";", "(", ")", "@", "$"}

ASSUME DecimalAssumption ==
    /\ Decimal \in [DOMAIN Decimal -> [1..3 -> STRING \ {Dot}]]
    /\ DOMAIN Decimal \cap Special = {}

\* dn_expand: a special character is escaped, one that cannot be printed is
\* written as its code.
Spelled(ch) ==
    IF ch \in Special THEN <<Escape, ch>>
    ELSE IF ch \in DOMAIN Decimal THEN <<Escape>> \o Decimal[ch]
    ELSE <<ch>>

Escaped(label) ==
    LET text[n \in 0..Len(label)] ==
            IF n = 0 THEN <<>> ELSE text[n - 1] \o Spelled(label[n])
    IN  text[Len(label)]

\* dn_expand: labels joined by dots; the root, which has no label, becomes the
\* empty text.
Expand(labels) ==
    LET text[n \in 0..Len(labels)] ==
            IF n = 0 THEN <<>>
            ELSE text[n - 1] \o (IF n = 1 THEN <<>> ELSE <<Dot>>) \o Escaped(labels[n])
    IN  text[Len(labels)]

\* Mutant: the dot is not skipped.
WithNext_KeepsDot(labels, ch) ==
    IF ch = Dot THEN Append(labels, <<Dot>>)
    ELSE [labels EXCEPT ![Len(labels)] = Append(@, ch)]

\* Every dot ends a label, escaped or not.
WithNext(labels, ch) ==
    IF ch = Dot THEN Append(labels, <<>>)
    ELSE [labels EXCEPT ![Len(labels)] = Append(@, ch)]

\* encode_domain: the text after the last dot is a label too, also when it is
\* empty.
encode_domain(text) ==
    LET labels[n \in 0..Len(text)] ==
            IF n = 0 THEN << <<>> >> ELSE WithNext(labels[n - 1], text[n])
    IN  labels[Len(text)]

\* Bytes on the wire: a length octet per label and the terminator.
WireLength(labels) ==
    FoldLeft(LAMBDA n, label : n + 1 + Len(label), 1, labels)

\* Names of one or more labels of characters that dn_expand leaves as they are.
Plain(labels) ==
    /\ labels # <<>>
    /\ \A i \in DOMAIN labels : /\ labels[i] # <<>>
                                /\ \A j \in DOMAIN labels[i] :
                                       labels[i][j] \notin Special \cup DOMAIN Decimal
=========================================================================
