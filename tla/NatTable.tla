---------------------------- MODULE NatTable ----------------------------
(***************************************************************************)
(* The kernel's nat table as iptables(8) changes it, seen through the      *)
(* commands that src/src/iptable.cpp runs.  The kernel is outside the      *)
(* repository: this module is an external one.  The table survives the     *)
(* daemon.                                                                 *)
(*                                                                         *)
(* Every rule belongs to one custom chain, its Home, and is identified by  *)
(* its text; the table keeps how many copies of it are installed.  The     *)
(* position of a rule in its chain is abstracted: the rules of the program *)
(* match disjoint packets.                                                 *)
(***************************************************************************)
EXTENDS Naturals

CONSTANTS Chain,     \* custom chains
          Rule,      \* rules that live in custom chains
          Home,      \* [Rule -> Chain]
          MaxCopies  \* bound: that many copies of a rule, or more

\* live: the custom chains that exist; jumps: how many rules of a built-in
\* chain jump to each of them; copies: how often each rule is installed.
Table == [live : SUBSET Chain, jumps : [Chain -> Nat], copies : [Rule -> 0..MaxCopies]]

BootTable == [live   |-> {},
              jumps  |-> [c \in Chain |-> 0],
              copies |-> [r \in Rule |-> 0]]

Empty(t, c) == \A r \in Rule : Home[r] = c => t.copies[r] = 0

\* -N c: create c.  It fails when c exists, which leaves the table as it is.
NewChain(t, c) == [t EXCEPT !.live = @ \cup {c}]

\* -A <built-in> -j c: fails without the chain; nothing looks for a jump that
\* is already there, so running it twice leaves two.
AppendJump(t, c) ==
    IF c \in t.live THEN [t EXCEPT !.jumps[c] = @ + 1] ELSE t

\* -I or -A of a rule into its chain: fails without the chain, and looks for
\* no copy that is already there.
AddRule(t, r) ==
    IF Home[r] \in t.live /\ t.copies[r] < MaxCopies
    THEN [t EXCEPT !.copies[r] = @ + 1] ELSE t

\* -F c: delete every rule of c (a missing chain has none).
Flush(t, c) ==
    [t EXCEPT !.copies = [r \in Rule |-> IF Home[r] = c THEN 0 ELSE t.copies[r]]]

\* -X c: delete the chain, which fails while it has rules or a rule jumps to it.
DeleteChain(t, c) ==
    IF Empty(t, c) /\ t.jumps[c] = 0 THEN [t EXCEPT !.live = @ \ {c}] ELSE t

Command == [op : {"N", "J", "F", "X"}, on : Chain] \cup [op : {"A"}, on : Rule]

Apply(t, cmd) ==
    IF cmd.op = "N" THEN NewChain(t, cmd.on)
    ELSE IF cmd.op = "J" THEN AppendJump(t, cmd.on)
    ELSE IF cmd.op = "A" THEN AddRule(t, cmd.on)
    ELSE IF cmd.op = "F" THEN Flush(t, cmd.on)
    ELSE DeleteChain(t, cmd.on)
=========================================================================
