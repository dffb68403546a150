---------------------------- MODULE CString -----------------------------
(***************************************************************************)
(* Texts as the C code sees them: sequences of character codes, with a NUL *)
(* behind them, and what the C library finds in them.                      *)
(***************************************************************************)
EXTENDS Naturals, Sequences

NUL == 0
Dot == 46

Byte == 0..255
Char == 1..255  \* of a text

\* What *(p + n) reads, the end of the text included.
At(s, i) == IF i \in DOMAIN s THEN s[i] ELSE NUL

\* Positions of a character; strchr finds the least, strrchr the greatest.
Places(s, ch) == {i \in DOMAIN s : s[i] = ch}
Least(places)    == CHOOSE i \in places : \A j \in places : i <= j
Greatest(places) == CHOOSE i \in places : \A j \in places : i >= j

Until(s, ch)  == IF Places(s, ch) = {} THEN s ELSE SubSeq(s, 1, Least(Places(s, ch)) - 1)
Behind(s, ch) == SubSeq(s, Least(Places(s, ch)) + 1, Len(s))

\* The parts of a text between the separators, of which there is at least one.
WithChar(parts, ch, separator) ==
    IF ch = separator THEN Append(parts, <<>>)
    ELSE [parts EXCEPT ![Len(parts)] = Append(@, ch)]

Split(s, separator) ==
    LET parts[n \in 0..Len(s)] ==
            IF n = 0 THEN << <<>> >> ELSE WithChar(parts[n - 1], s[n], separator)
    IN  parts[Len(s)]

\* Texts one behind the other, and parts less those that do not count.
Concat(parts) ==
    LET text[n \in 0..Len(parts)] == IF n = 0 THEN <<>> ELSE text[n - 1] \o parts[n]
    IN  text[Len(parts)]

Without(parts, out) ==
    LET kept[n \in 0..Len(parts)] ==
            IF n = 0 THEN <<>>
            ELSE IF parts[n] \in out THEN kept[n - 1] ELSE Append(kept[n - 1], parts[n])
    IN  kept[Len(parts)]
=========================================================================
