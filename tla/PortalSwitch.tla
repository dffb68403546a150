-------------------------- MODULE PortalSwitch --------------------------
(***************************************************************************)
(* What the supervisor promises, without flags, programs or polls: a       *)
(* switch that takes a new position only when the last one is carried out, *)
(* that installs a rule only while the portal is wanted and the rule is    *)
(* not there, and removes rules only while it is not.  A lapse (a command  *)
(* that fails, a position that was given up too early) excuses it from     *)
(* carrying a position out, and rules may then be there twice; it never    *)
(* excuses removing what is wanted or installing what is not.  A switch    *)
(* that is off may leave its excuse behind, and then owes again what it    *)
(* owed.  Application::run implements it (see Supervisor): the module is   *)
(* the abstract specification, and stands for no code of its own.          *)
(***************************************************************************)
EXTENDS Naturals

CONSTANT Rule

VARIABLES want,    \* the portal is wanted
          copies,  \* how often each rule is installed
          excused  \* a lapse has an effect

vars == <<want, copies, excused>>

Init == want = FALSE /\ copies = [r \in Rule |-> 0] /\ excused = FALSE

Settled == \A r \in Rule : copies[r] = IF want THEN 1 ELSE 0

\* A new position is taken from a settled one.
Turn ==
    /\ Settled \/ excused
    /\ want' \in BOOLEAN
    /\ UNCHANGED <<copies, excused>>

Install(r) ==
    /\ want /\ (copies[r] = 0 \/ excused)
    /\ copies' = [copies EXCEPT ![r] = @ + 1]
    /\ UNCHANGED <<want, excused>>

Remove(S) ==
    /\ ~want
    /\ copies' = [r \in Rule |-> IF r \in S THEN 0 ELSE copies[r]]
    /\ UNCHANGED <<want, excused>>

\* Something fails, or is given up.
Lapse == excused' = TRUE /\ UNCHANGED <<want, copies>>

\* The rules are about to be removed, all of them.
Recover ==
    /\ ~want
    /\ excused' = FALSE
    /\ UNCHANGED <<want, copies>>

\* Whoever carries it out is gone: the portal is not wanted any more, and the
\* rules stay where they are until they are removed.
Abandon == want' = FALSE /\ UNCHANGED <<copies, excused>>

Next == \/ Turn \/ Lapse \/ Recover \/ Abandon
        \/ \E r \in Rule : Install(r)
        \/ \E S \in SUBSET Rule : Remove(S)

Spec == Init /\ [][Next]_vars
=========================================================================
