------------------------ MODULE SupervisorProofs ------------------------
(***************************************************************************)
(* Proofs about Supervisor.                                                *)
(***************************************************************************)
EXTENDS Supervisor, TLAPS

(***************************************************************************)
(* The programs and what a command does to the table.                      *)
(***************************************************************************)
\* The programs are sequences of commands, of these lengths.
LEMMA ProgramTypes ==
    /\ iptable_destroy_rule \in Seq(Command) /\ Len(iptable_destroy_rule) = 8
    /\ iptabel_set_NewChain \in Seq(Command) /\ Len(iptabel_set_NewChain) = 8
    /\ Redirect \in Seq(Command) /\ Len(Redirect) = 5
<1> USE DEF Command, Chain, Rule, Do
<1>1. iptable_destroy_rule \in Seq(Command) /\ Len(iptable_destroy_rule) = 8
  BY DEF iptable_destroy_rule
<1>2. iptabel_set_NewChain \in Seq(Command) /\ Len(iptabel_set_NewChain) = 8
  BY DEF iptabel_set_NewChain
<1>3. Redirect \in Seq(Command) /\ Len(Redirect) = 5
  BY DEF Redirect, iptable_redirect_dns, iptable_redirect_http
<1> QED BY <1>1, <1>2, <1>3

\* What each program's commands are, by position.
LEMMA DestroyCommands ==
    /\ \A k \in 1..4 : iptable_destroy_rule[k].op = "F"
    /\ \A k \in 5..8 : iptable_destroy_rule[k].op = "X"
    /\ \A c \in Chain : \E k \in 1..4 : iptable_destroy_rule[k].on = c
BY DEF iptable_destroy_rule, Chain, Do

LEMMA BuildCommands ==
    /\ \A k \in 1..4 : iptabel_set_NewChain[k].op = "N"
    /\ \A k \in 5..8 : /\ iptabel_set_NewChain[k].op = "J"
                       /\ iptabel_set_NewChain[k].on = iptabel_set_NewChain[k - 4].on
    /\ \A c \in Chain : \E k \in 1..4 : iptabel_set_NewChain[k].on = c
BY DEF iptabel_set_NewChain, Chain, Do

LEMMA RedirectCommands ==
    /\ \A k \in 1..5 : Redirect[k].op = "A"
    /\ \A r \in Rule : \E k \in 1..5 : Redirect[k].on = r
    /\ \A j, k \in 1..5 : Redirect[j].on = Redirect[k].on => j = k
BY DEF Redirect, iptable_redirect_dns, iptable_redirect_http, Rule, Do

LEMMA ApplyTypes ==
    ASSUME NEW t \in Table, NEW cmd \in Command
    PROVE  Apply(t, cmd) \in Table
<1> USE DEF Table
<1>1. CASE cmd.op = "N"
  BY <1>1 DEF Command, Apply, NewChain
<1>2. CASE cmd.op = "J"
  BY <1>2 DEF Command, Apply, AppendJump
<1>3. CASE cmd.op = "A"
  BY <1>3, CopiesAssumption DEF Command, Apply, AddRule
<1>4. CASE cmd.op = "F"
  BY <1>4, CopiesAssumption DEF Command, Apply, Flush
<1>5. CASE cmd.op = "X"
  BY <1>5 DEF Command, Apply, DeleteChain
<1> QED BY <1>1, <1>2, <1>3, <1>4, <1>5 DEF Command

\* What each command changes, and that it changes nothing else.
LEMMA ApplyEffects ==
    ASSUME NEW t \in Table, NEW cmd \in Command
    PROVE  LET u == Apply(t, cmd) IN
        /\ cmd.op = "N" => /\ u.live = t.live \cup {cmd.on}
                           /\ u.jumps = t.jumps /\ u.copies = t.copies
        /\ cmd.op = "J" => /\ u.live = t.live /\ u.copies = t.copies
                           /\ \A c \in Chain : t.jumps[c] > 0 => u.jumps[c] > 0
                           /\ cmd.on \in t.live => u.jumps[cmd.on] > 0
        /\ cmd.op = "A" => /\ u.live = t.live /\ u.jumps = t.jumps
                           /\ \A r \in Rule \ {cmd.on} : u.copies[r] = t.copies[r]
                           /\ Home[cmd.on] \in t.live /\ t.copies[cmd.on] < MaxCopies
                                 => u.copies[cmd.on] = t.copies[cmd.on] + 1
        /\ cmd.op = "F" => /\ u.live = t.live /\ u.jumps = t.jumps
                           /\ Empty(u, cmd.on)
                           /\ \A c \in Chain : Empty(t, c) => Empty(u, c)
        /\ cmd.op = "X" => /\ u.jumps = t.jumps /\ u.copies = t.copies
                           /\ \A c \in t.live : t.jumps[c] > 0 => c \in u.live
<1> DEFINE u == Apply(t, cmd)
<1> USE DEF Table
<1>1. CASE cmd.op = "N"
  BY <1>1 DEF Apply, NewChain
<1>2. CASE cmd.op = "J"
  BY <1>2 DEF Command, Apply, AppendJump
<1>3. CASE cmd.op = "A"
  BY <1>3 DEF Command, Apply, AddRule
<1>4. CASE cmd.op = "F"
  BY <1>4 DEF Command, Apply, Flush, Empty
<1>5. CASE cmd.op = "X"
  BY <1>5 DEF Command, Apply, DeleteChain
<1> QED BY <1>1, <1>2, <1>3, <1>4, <1>5 DEF Command

(***************************************************************************)
(* How far each program brings the table, one command at a time.           *)
(***************************************************************************)
LEMMA DestroyStep ==
    ASSUME NEW t \in Table, NEW n \in 1..8
    PROVE  LET u == Apply(t, iptable_destroy_rule[n]) IN
           /\ Emptied(t, n) => Emptied(u, n + 1)
           /\ Hooked(t) => Hooked(u)
<1> DEFINE cmd == iptable_destroy_rule[n]
           u == Apply(t, cmd)
<1>1. cmd \in Command /\ \A k \in 1..4 : iptable_destroy_rule[k].on \in Chain
  BY DEF iptable_destroy_rule, Do, Command, Chain
<1>2. CASE n \in 1..4
  <2>1. cmd.op = "F"
    BY <1>2, DestroyCommands
  <2>2. u.live = t.live /\ u.jumps = t.jumps /\ Empty(u, cmd.on)
        /\ \A c \in Chain : Empty(t, c) => Empty(u, c)
    BY <1>1, <2>1, ApplyEffects
  <2> QED BY <1>1, <1>2, <2>2 DEF Emptied, Hooked
<1>3. CASE n \in 5..8
  <2>1. cmd.op = "X"
    BY <1>3, DestroyCommands
  <2>2. u.jumps = t.jumps /\ u.copies = t.copies
        /\ \A c \in t.live : t.jumps[c] > 0 => c \in u.live
    BY <1>1, <2>1, ApplyEffects
  <2> QED BY <1>3, <2>2 DEF Emptied, Hooked, Empty
<1> QED BY <1>2, <1>3

LEMMA BuildStep ==
    ASSUME NEW t \in Table, NEW n \in 1..8
    PROVE  LET u == Apply(t, iptabel_set_NewChain[n]) IN
           /\ Built(t, n) => Built(u, n + 1)
           /\ u.copies = t.copies
<1> DEFINE cmd == iptabel_set_NewChain[n]
           u == Apply(t, cmd)
<1>1. cmd \in Command /\ \A k \in 1..4 : iptabel_set_NewChain[k].on \in Chain
  BY DEF iptabel_set_NewChain, Do, Command, Chain
<1>2. CASE n \in 1..4
  <2>1. cmd.op = "N"
    BY <1>2, BuildCommands
  <2>2. u.live = t.live \cup {cmd.on} /\ u.jumps = t.jumps /\ u.copies = t.copies
    BY <1>1, <2>1, ApplyEffects
  <2> QED BY <1>1, <1>2, <2>2 DEF Built
<1>3. CASE n \in 5..8
  <2>1. cmd.op = "J" /\ cmd.on = iptabel_set_NewChain[n - 4].on
    BY <1>3, BuildCommands
  <2>2. /\ u.live = t.live /\ u.copies = t.copies
        /\ \A c \in Chain : t.jumps[c] > 0 => u.jumps[c] > 0
        /\ cmd.on \in t.live => u.jumps[cmd.on] > 0
    BY <1>1, <2>1, ApplyEffects
  <2> QED BY <1>1, <1>3, <2>1, <2>2 DEF Built
<1> QED BY <1>2, <1>3

LEMMA RedirectStep ==
    ASSUME NEW t \in Table, NEW n \in 1..5, Hooked(t)
    PROVE  LET u == Apply(t, Redirect[n]) IN
           /\ Installed(t, n) => Installed(u, n + 1)
           /\ Hooked(u)
<1> DEFINE cmd == Redirect[n]
           u == Apply(t, cmd)
<1>1. cmd \in Command /\ \A k \in 1..5 : Redirect[k].on \in Rule
  BY DEF Redirect, iptable_redirect_dns, iptable_redirect_http, Do, Command, Rule
<1>2. cmd.op = "A" /\ cmd.on \in Rule
  BY <1>1, RedirectCommands
<1>3. Home[cmd.on] \in t.live
  BY <1>2 DEF Hooked, Home, Chain, Rule
<1>4. /\ u.live = t.live /\ u.jumps = t.jumps
      /\ \A r \in Rule \ {cmd.on} : u.copies[r] = t.copies[r]
      /\ t.copies[cmd.on] < MaxCopies => u.copies[cmd.on] = t.copies[cmd.on] + 1
  BY <1>1, <1>2, <1>3, ApplyEffects
<1>5. Installed(t, n) => Installed(u, n + 1)
  <2> SUFFICES ASSUME Installed(t, n), NEW k \in 1..5
               PROVE  u.copies[Redirect[k].on] = IF k < n + 1 THEN 1 ELSE 0
    BY DEF Installed
  <2>1. CASE k = n
    <3>1. t.copies[cmd.on] = 0
      BY DEF Installed
    <3> QED BY <2>1, <1>4, <3>1, CopiesAssumption
  <2>2. CASE k # n
    <3>1. Redirect[k].on \in Rule \ {cmd.on}
      BY <1>1, <2>2, RedirectCommands
    <3> QED BY <2>2, <3>1, <1>4 DEF Installed
  <2> QED BY <2>1, <2>2
<1> QED BY <1>4, <1>5 DEF Hooked

\* What the finished programs, and an empty table, amount to.
LEMMA ProgramsDone ==
    ASSUME NEW t \in Table
    PROVE  /\ Emptied(t, 9) => \A r \in Rule : t.copies[r] = 0
           /\ Built(t, 9) => Hooked(t)
           /\ Installed(t, 6) => \A r \in Rule : t.copies[r] = 1
           /\ (\A r \in Rule : t.copies[r] = 0) => Installed(t, 1)
<1>1. Emptied(t, 9) => \A r \in Rule : t.copies[r] = 0
  <2>1. ASSUME Emptied(t, 9), NEW c \in Chain PROVE Empty(t, c)
    <3>1. PICK k \in 1..4 : iptable_destroy_rule[k].on = c
      BY DestroyCommands
    <3>2. k < 9
      OBVIOUS
    <3> QED BY <2>1, <3>1, <3>2 DEF Emptied
  <2>2. \A r \in Rule : Home[r] \in Chain
    BY DEF Home, Chain, Rule
  <2> QED BY <2>1, <2>2 DEF Empty
<1>2. Built(t, 9) => Hooked(t)
  <2> SUFFICES ASSUME Built(t, 9), NEW c \in Chain
               PROVE  c \in t.live /\ t.jumps[c] > 0
    BY DEF Hooked
  <2>1. PICK k \in 1..4 : iptabel_set_NewChain[k].on = c
    BY BuildCommands
  <2>2. k < 9 /\ k + 4 < 9
    OBVIOUS
  <2> QED BY <2>1, <2>2 DEF Built
<1>3. Installed(t, 6) => \A r \in Rule : t.copies[r] = 1
  BY RedirectCommands DEF Installed
<1>4. (\A r \in Rule : t.copies[r] = 0) => Installed(t, 1)
  BY DEF Installed, Redirect, iptable_redirect_dns, iptable_redirect_http, Do, Rule
<1> QED BY <1>1, <1>2, <1>3, <1>4

(***************************************************************************)
(* Types.                                                                  *)
(***************************************************************************)
\* Which program runs where.
LEMMA ProgramOf ==
    /\ Program("startDestroy") = iptable_destroy_rule
    /\ Program("destroy") = iptable_destroy_rule
    /\ Program("startBuild") = iptabel_set_NewChain
    /\ Program("redirect") = Redirect
BY DEF Program

\* The command that runs next is a command of the running program.
LEMMA NextCommand ==
    ASSUME StepInv, pc \in Programs
    PROVE  /\ Program(pc)[step] \in Command
           /\ step \in 1..8 /\ step \in 1..Len(Program(pc))
           /\ Len(Program(pc)) = 5 \/ Len(Program(pc)) = 8
<1>1. /\ Program(pc) \in Seq(Command)
      /\ Len(Program(pc)) = 5 \/ Len(Program(pc)) = 8
  BY ProgramTypes, ProgramOf DEF Programs
<1>2. step \in 1..Len(Program(pc))
  BY DEF StepInv
<1>3. \A q \in Seq(Command) : \A k \in 1..Len(q) : q[k] \in Command
  OBVIOUS
<1>4. Program(pc)[step] \in Command
  BY <1>1, <1>2, <1>3
<1>5. step \in 1..8
  <2>1. \A n : n = 5 \/ n = 8 => \A k \in 1..n : k \in 1..8
    OBVIOUS
  <2> QED BY <1>1, <1>2, <2>1
<1> QED BY <1>1, <1>2, <1>4, <1>5

LEMMA AdvanceTypes ==
    ASSUME StepInv, pc \in Programs, Advance
    PROVE  step' \in 1..8 /\ pc' \in PCs /\ StepInv'
<1>1. CASE step < Len(Program(pc))
  <2>1. step' = step + 1 /\ pc' = pc
    BY <1>1 DEF Advance
  <2>2. step' \in 1..Len(Program(pc)) /\ step' \in 1..8
    <3>1. \A n : n = 5 \/ n = 8 => \A k \in 1..n :
             k < n => k + 1 \in 1..n /\ k + 1 \in 1..8
      OBVIOUS
    <3> QED BY <2>1, <1>1, <3>1, NextCommand
  <2> QED BY <2>1, <2>2 DEF StepInv, PCs
<1>2. CASE ~(step < Len(Program(pc)))
  <2>1. step' = 1 /\ pc' = After(pc)
    BY <1>2 DEF Advance
  <2>2. pc' \in {"startBuild", "setup", "sleep"}
    BY <2>1 DEF After
  <2>3. StepInv'
    <3>1. CASE pc' = "startBuild"
      BY <2>1, <3>1, ProgramTypes, ProgramOf DEF StepInv
    <3>2. CASE pc' \in {"setup", "sleep"}
      BY <2>1, <3>2 DEF StepInv, Programs
    <3> QED BY <2>2, <3>1, <3>2
  <2> QED BY <2>1, <2>2, <2>3 DEF PCs, Starting, Programs, Polling, Sampling
<1> QED BY <1>1, <1>2

TypeInv == TypeOK /\ StepInv

LEMMA TypeInit == Init => TypeInv
<1> SUFFICES ASSUME Init PROVE TypeInv
  OBVIOUS
<1>1. table \in Table
  BY CopiesAssumption DEF Init, BootTable, Table
<1>2. pc \in PCs /\ pc \notin Programs
  BY DEF Init, PCs, Programs
<1>3. StepInv
  BY <1>2 DEF Init, StepInv
<1>4. /\ locked \in BOOLEAN /\ isRedirected \in BOOLEAN /\ isDestroied \in BOOLEAN
      /\ lockfile \in BOOLEAN /\ address \in BOOLEAN
      /\ heard \in BOOLEAN /\ young \in BOOLEAN
  BY DEF Init
<1>5. /\ step \in 1..8
      /\ faults \in 0..MaxFaults /\ crashes \in 0..MaxCrashes
  BY ParameterAssumption DEF Init
<1>6. lapses \subseteq {"command", "build", "pulse"}
      /\ lastRun \in {"none", "destroy", "redirect"}
  BY DEF Init
<1> QED BY <1>1, <1>2, <1>3, <1>4, <1>5, <1>6 DEF TypeInv, TypeOK

LEMMA TypeNext == TypeInv /\ [Next]_vars => TypeInv'
<1> SUFFICES ASSUME TypeInv, [Next]_vars PROVE TypeInv'
  OBVIOUS
<1> USE ParameterAssumption
<1>0. TypeOK /\ StepInv
  BY DEF TypeInv
<1>1. CASE Start
  BY <1>0, <1>1, ProgramTypes, ProgramOf
  DEF Start, TypeInv, TypeOK, StepInv, PCs, Programs, flags, world, samples
<1>2. CASE RunCommand
  <2>1. Apply(table, Program(pc)[step]) \in Table
    BY <1>0, <1>2, NextCommand, ApplyTypes DEF RunCommand, TypeOK
  <2>2. step' \in 1..8 /\ pc' \in PCs /\ StepInv'
    BY <1>0, <1>2, AdvanceTypes DEF RunCommand
  <2> QED BY <1>0, <1>2, <2>1, <2>2
      DEF RunCommand, TypeInv, TypeOK, flags, world, samples, history
<1>3. CASE CommandFails
  <2>1. step' \in 1..8 /\ pc' \in PCs /\ StepInv'
    BY <1>0, <1>3, AdvanceTypes DEF CommandFails
  <2> QED BY <1>0, <1>3, <2>1
      DEF CommandFails, TypeInv, TypeOK, flags, world, samples
<1>4. CASE SetUp
  <2>1. isRedirected' \in BOOLEAN /\ isDestroied' \in BOOLEAN
    BY <1>4 DEF SetUp
  <2>2. StepInv' /\ pc' \in PCs
    BY <1>0, <1>4 DEF SetUp, StepInv, PCs, Programs, Starting
  <2> QED BY <1>0, <1>4, <2>1, <2>2
      DEF SetUp, TypeInv, TypeOK, world, samples, history
<1>16. CASE BeginPolls
  <2>1. locked' \in BOOLEAN /\ heard' \in BOOLEAN /\ young' \in BOOLEAN
    BY <1>16 DEF BeginPolls
  <2>2. StepInv' /\ pc' \in PCs
    BY <1>0, <1>16 DEF BeginPolls, StepInv, PCs, Programs, Polling
  <2> QED BY <1>0, <1>16, <2>1, <2>2 DEF BeginPolls, TypeInv, TypeOK, flags, world, history
<1>5. CASE SetUpFails
  <2>1. isRedirected' \in BOOLEAN /\ isDestroied' \in BOOLEAN
    BY <1>5 DEF SetUpFails
  <2>2. StepInv' /\ pc' \in PCs
    BY <1>0, <1>5 DEF SetUpFails, StepInv, PCs, Programs, Starting
  <2> QED BY <1>0, <1>5, <2>1, <2>2 DEF SetUpFails, TypeInv, TypeOK, world, samples
<1>6. CASE Crash
  BY <1>0, <1>6 DEF Crash, TypeInv, TypeOK, StepInv, PCs, Programs, flags, world, samples
<1>7. CASE CheckLock
  BY <1>0, <1>7 DEF CheckLock, TypeInv, TypeOK, StepInv, PCs, Programs, Polling,
                    Sampling, flags, world, samples, history
<1>8. CASE CheckNetwork
  BY <1>0, <1>8 DEF CheckNetwork, TypeInv, TypeOK, StepInv, PCs, Programs, Polling,
                    Sampling, flags, world, samples, history
<1>17. CASE CheckLockFails
  BY <1>0, <1>17 DEF CheckLockFails, TypeInv, TypeOK, StepInv, PCs, Programs,
                     Polling, Sampling, flags, world, samples
<1>9. CASE CheckNetworkFails
  BY <1>0, <1>9 DEF CheckNetworkFails, TypeInv, TypeOK, StepInv, PCs, Programs,
                    Polling, Sampling, flags, world, samples
<1>10. CASE Rest
  <2>1. lapses' \subseteq {"command", "build", "pulse"}
        /\ heard' \in BOOLEAN /\ young' \in BOOLEAN
    BY <1>0, <1>10 DEF Rest, Hear, TypeOK
  <2>2. isRedirected' \in BOOLEAN /\ isDestroied' \in BOOLEAN
    BY <1>0, <1>10 DEF Rest, Reconcile, TypeOK
  <2> QED BY <1>0, <1>10, <2>1, <2>2 DEF Rest, TypeInv, TypeOK, StepInv, PCs,
                     Programs, Polling, world
<1>11. CASE BeginDestroy
  BY <1>0, <1>11, ProgramTypes, ProgramOf
  DEF BeginDestroy, TypeInv, TypeOK, StepInv, PCs, Programs, world
<1>12. CASE BeginRedirect
  <2>1. isRedirected' \in BOOLEAN /\ isDestroied' \in BOOLEAN
    BY <1>0, <1>12 DEF BeginRedirect, TypeOK
  <2>2. StepInv' /\ pc' \in PCs
    <3>1. pc' = "redirect" /\ step' = 1
      BY <1>12 DEF BeginRedirect
    <3>2. Len(Program(pc')) = 5
      BY <3>1, ProgramTypes, ProgramOf
    <3>3. StepInv'
      BY <3>1, <3>2 DEF StepInv
    <3> QED BY <3>1, <3>3 DEF PCs, Programs
  <2>3. lapses' \subseteq {"command", "build", "pulse"}
        /\ heard' \in BOOLEAN /\ young' \in BOOLEAN
    BY <1>0, <1>12 DEF BeginRedirect, Hear, TypeOK
  <2> QED BY <1>0, <1>12, <2>1, <2>2, <2>3
      DEF BeginRedirect, TypeInv, TypeOK, world
<1>13. CASE Wake
  BY <1>0, <1>13 DEF Wake, TypeInv, TypeOK, StepInv, PCs, Programs, Polling,
                     flags, world, samples, history
<1>14. CASE Environment
  <2>1. lockfile' \in BOOLEAN /\ address' \in BOOLEAN
    BY <1>0, <1>14 DEF Environment, ChangeLockfile, ChangeAddress, TypeOK
  <2>2. UNCHANGED <<pc, step, locked, flags, table, samples, history, lastRun>>
    BY <1>14 DEF Environment, ChangeLockfile, ChangeAddress
  <2> QED BY <1>0, <2>1, <2>2 DEF TypeInv, TypeOK, StepInv, flags, samples, history
<1>15. CASE UNCHANGED vars
  BY <1>0, <1>15 DEF vars, flags, world, samples, history, TypeInv, TypeOK, StepInv
<1> QED
  BY <1>1, <1>2, <1>3, <1>4, <1>5, <1>6, <1>7, <1>8, <1>9, <1>10, <1>11, <1>12,
     <1>13, <1>14, <1>15, <1>16, <1>17 DEF Next, Run, Poll, Fail

\* In every reachable state every variable has its type, whatever the bounds:
\* no command, crash or fault takes the table or the flags out of their sets.
THEOREM TypeCorrect == Spec => []TypeOK
<1>1. TypeInv => TypeOK
  BY DEF TypeInv
<1> QED BY TypeInit, TypeNext, <1>1, PTL DEF Spec

(***************************************************************************)
(* The chains, and a clean start: no assumption on the environment.        *)
(***************************************************************************)
\* Where a program goes after one of its commands, successful or not.
LEMMA AdvanceCases ==
    ASSUME StepInv, pc \in Programs, Advance
    PROVE  /\ \/ pc' = pc /\ step' = step + 1
              \/ pc' = After(pc) /\ step' = 1 /\ step = Len(Program(pc))
           /\ pc \in {"startDestroy", "startBuild", "destroy"} => step \in 1..8
           /\ pc = "redirect" => step \in 1..5
           /\ pc' # pc => step = IF pc = "redirect" THEN 5 ELSE 8
<1>1. Len(Program(pc)) = IF pc = "redirect" THEN 5 ELSE 8
  BY ProgramTypes, ProgramOf DEF Programs
<1>2. step \in 1..Len(Program(pc))
  BY DEF StepInv
<1>3. \/ pc' = pc /\ step' = step + 1
      \/ pc' = After(pc) /\ step' = 1 /\ step = Len(Program(pc))
  <2>1. CASE step < Len(Program(pc))
    BY <2>1 DEF Advance
  <2>2. CASE ~(step < Len(Program(pc)))
    <3>1. step = Len(Program(pc))
      <4>1. \A n : n = 5 \/ n = 8 => \A k \in 1..n : ~(k < n) => k = n
        OBVIOUS
      <4> QED BY <1>1, <1>2, <2>2, <4>1
    <3> QED BY <2>2, <3>1 DEF Advance
  <2> QED BY <2>1, <2>2
<1> QED BY <1>1, <1>2, <1>3

LEMMA ChainsInit == Init => ChainsInv
BY DEF Init, ChainsInv, Starting, Polling, Sampling

LEMMA ChainsNext == TypeInv /\ ChainsInv /\ [Next]_vars => ChainsInv'
<1> SUFFICES ASSUME TypeInv, ChainsInv, [Next]_vars, ("build" \notin lapses)'
             PROVE  /\ (pc = "startBuild" => Built(table, step))'
                    /\ (pc \in Starting \cup Polling => Hooked(table))'
  BY DEF ChainsInv
<1>0. TypeOK /\ StepInv /\ table \in Table
  BY DEF TypeInv, TypeOK
<1> USE DEF Polling, Sampling, Starting
<1>1. CASE Start
  BY <1>1 DEF Start
<1>2. CASE RunCommand
  <2>1. "build" \notin lapses /\ pc \in Programs /\ Advance
        /\ table' = Apply(table, Program(pc)[step])
    BY <1>2 DEF RunCommand, history
  <2>2. CASE pc = "startDestroy"
    <3>1. pc' = pc \/ (pc' = "startBuild" /\ step' = 1)
      BY <1>0, <2>1, <2>2, AdvanceCases DEF After
    <3>2. Built(table', 1)
      BY DEF Built
    <3> QED BY <2>2, <3>1, <3>2
  <2>3. CASE pc = "startBuild"
    <3>1. Built(table, step) /\ step \in 1..8
      BY <1>0, <2>1, <2>3, AdvanceCases DEF ChainsInv
    <3>2. Built(table', step + 1)
      BY <1>0, <2>1, <2>3, <3>1, BuildStep, ProgramOf
    <3>3. CASE pc' = pc /\ step' = step + 1
      BY <2>3, <3>2, <3>3
    <3>4. CASE pc' = "setup" /\ step = 8
      <4>1. table' \in Table
        BY TypeNext DEF TypeInv, TypeOK
      <4> QED BY <3>2, <3>4, <4>1, ProgramsDone
    <3> QED BY <1>0, <2>1, <2>3, <3>3, <3>4, AdvanceCases DEF After
  <2>4. CASE pc = "destroy"
    <3>1. Hooked(table) /\ step \in 1..8
      BY <1>0, <2>1, <2>4, AdvanceCases DEF ChainsInv
    <3>2. Hooked(table')
      BY <1>0, <2>1, <2>4, <3>1, DestroyStep, ProgramOf
    <3>3. pc' \in {"destroy", "sleep"}
      BY <1>0, <2>1, <2>4, AdvanceCases DEF After
    <3> QED BY <3>2, <3>3
  <2>5. CASE pc = "redirect"
    <3>1. Hooked(table) /\ step \in 1..5
      BY <1>0, <2>1, <2>5, AdvanceCases DEF ChainsInv
    <3>2. Hooked(table')
      BY <1>0, <2>1, <2>5, <3>1, RedirectStep, ProgramOf
    <3>3. pc' \in {"redirect", "sleep"}
      BY <1>0, <2>1, <2>5, AdvanceCases DEF After
    <3> QED BY <3>2, <3>3
  <2> QED BY <2>1, <2>2, <2>3, <2>4, <2>5 DEF Programs
<1>3. CASE CommandFails
  <2>1. /\ pc \in Programs /\ Advance /\ table' = table
        /\ "build" \notin lapses /\ pc # "startBuild"
    BY <1>3 DEF CommandFails
  <2>2. \/ pc' = pc /\ step' = step + 1
        \/ pc' = After(pc) /\ step' = 1
    BY <1>0, <2>1, AdvanceCases
  <2>3. CASE pc = "startDestroy"
    <3>1. Built(table, 1)
      BY DEF Built
    <3> QED BY <2>1, <2>2, <2>3, <3>1 DEF After
  <2>4. CASE pc \in {"destroy", "redirect"}
    BY <2>1, <2>2, <2>4 DEF After, ChainsInv
  <2> QED BY <2>1, <2>3, <2>4 DEF Programs
<1>4. CASE SetUp \/ BeginPolls
  BY <1>4 DEF SetUp, BeginPolls, ChainsInv, history
<1>5. CASE SetUpFails \/ Crash
  BY <1>5 DEF SetUpFails, Crash
<1>6. CASE Poll
  BY <1>6 DEF Poll, CheckLock, CheckNetwork, Rest, BeginDestroy, BeginRedirect,
              Hear, Wake, ChainsInv, history
<1>7. CASE CheckLockFails \/ CheckNetworkFails
  BY <1>7 DEF CheckLockFails, CheckNetworkFails, ChainsInv
<1>8. CASE Environment \/ UNCHANGED vars
  BY <1>8 DEF Environment, ChangeLockfile, ChangeAddress, vars, history, ChainsInv
<1> QED BY <1>1, <1>2, <1>3, <1>4, <1>5, <1>6, <1>7, <1>8 DEF Next, Run, Fail

\* The -X commands of iptable_destroy_rule never take away a chain that the
\* redirect programs fill, however often run() switches, whatever the
\* environment does and whichever other commands fail: the jumps that the
\* constructor put there stop them.
THEOREM ChainsTheorem == Spec => []ChainsStayHooked
<1>1. ChainsInv => ChainsStayHooked
  BY DEF ChainsInv, ChainsStayHooked, Hooked
<1> QED BY TypeInit, TypeNext, ChainsInit, ChainsNext, <1>1, PTL DEF Spec

LEMMA CleanInit == Init => CleanInv
BY DEF Init, CleanInv, Starting

LEMMA CleanNext == TypeInv /\ CleanInv /\ [Next]_vars => CleanInv'
<1> SUFFICES ASSUME TypeInv, CleanInv, [Next]_vars, (lapses = {})'
             PROVE  /\ (pc \in {"startDestroy", "destroy"} => Emptied(table, step))'
                    /\ (pc \in {"startBuild"} \cup Starting => Mirrors(FALSE))'
  BY DEF CleanInv
<1>0. TypeOK /\ StepInv /\ table \in Table /\ table' \in Table
  BY TypeNext DEF TypeInv, TypeOK
<1>e. \A t : Emptied(t, 1)
  BY DEF Emptied
<1> USE DEF Starting
<1>1. CASE Start
  BY <1>1, <1>e DEF Start
<1>2. CASE RunCommand
  <2>1. lapses = {} /\ pc \in Programs /\ Advance
        /\ table' = Apply(table, Program(pc)[step])
    BY <1>2 DEF RunCommand, history
  <2>2. CASE pc \in {"startDestroy", "destroy"}
    <3>1. Emptied(table, step) /\ step \in 1..8
      BY <1>0, <2>1, <2>2, AdvanceCases DEF CleanInv
    <3>2. Emptied(table', step + 1)
      BY <1>0, <2>1, <2>2, <3>1, DestroyStep, ProgramOf
    <3>3. CASE pc' = pc /\ step' = step + 1
      BY <2>2, <3>2, <3>3
    <3>4. CASE pc' \in {"startBuild", "sleep"} /\ step = 8
      BY <1>0, <3>2, <3>4, ProgramsDone DEF Mirrors
    <3> QED BY <1>0, <2>1, <2>2, <3>3, <3>4, AdvanceCases DEF After
  <2>3. CASE pc = "startBuild"
    <3>1. Mirrors(FALSE) /\ step \in 1..8
      BY <1>0, <2>1, <2>3, AdvanceCases DEF CleanInv
    <3>2. table'.copies = table.copies
      BY <1>0, <2>1, <2>3, <3>1, BuildStep, ProgramOf
    <3>3. pc' \in {"startBuild", "setup"}
      BY <1>0, <2>1, <2>3, AdvanceCases DEF After
    <3> QED BY <3>1, <3>2, <3>3 DEF Mirrors
  <2>4. CASE pc = "redirect"
    BY <1>0, <2>1, <2>4, AdvanceCases DEF After
  <2> QED BY <2>1, <2>2, <2>3, <2>4 DEF Programs
<1>3. CASE CommandFails
  BY <1>3 DEF CommandFails
<1>8. CASE CheckLockFails \/ CheckNetworkFails
  BY <1>8 DEF CheckLockFails, CheckNetworkFails
<1>4. CASE SetUp
  BY <1>4 DEF SetUp, CleanInv, Mirrors, history
<1>9. CASE BeginPolls \/ SetUpFails \/ Crash
  BY <1>9 DEF BeginPolls, SetUpFails, Crash
<1>5. CASE BeginDestroy
  BY <1>5, <1>e DEF BeginDestroy
<1>6. CASE CheckLock \/ CheckNetwork \/ Rest \/ BeginRedirect \/ Wake
  BY <1>6 DEF CheckLock, CheckNetwork, Rest, BeginRedirect, Wake
<1>7. CASE Environment \/ UNCHANGED vars
  BY <1>7 DEF Environment, ChangeLockfile, ChangeAddress, vars, history, CleanInv,
              Mirrors
<1> QED BY <1>1, <1>2, <1>3, <1>4, <1>5, <1>6, <1>7, <1>8, <1>9
        DEF Next, Run, Poll, Fail

\* Whatever step the last process died in, and whatever the environment did
\* meanwhile, the constructor leaves no rule of the portal in the kernel.
THEOREM RestartTheorem == Spec => []RestartCleans
<1>1. CleanInv => RestartCleans
  BY DEF CleanInv, RestartCleans
<1> QED BY TypeInit, TypeNext, CleanInit, CleanNext, <1>1, PTL DEF Spec

(***************************************************************************)
(* The flags and the samples, whatever the environment does.               *)
(***************************************************************************)
LEMMA FlagsInit == Init => FlagsInv
BY DEF Init, FlagsInv, Polling, Sampling

LEMMA FlagsNext == TypeInv /\ FlagsInv /\ [Next]_vars => FlagsInv'
<1> SUFFICES ASSUME TypeInv, FlagsInv, [Next]_vars PROVE FlagsInv'
  OBVIOUS
<1>0. TypeOK /\ StepInv
  BY DEF TypeInv
<1>b. /\ locked \in BOOLEAN /\ isRedirected \in BOOLEAN /\ isDestroied \in BOOLEAN
      /\ heard \in BOOLEAN /\ young \in BOOLEAN
  BY <1>0 DEF TypeOK
<1> USE DEF Polling, Sampling
<1>1. CASE Start
  BY <1>1 DEF Start, FlagsInv
<1>2. CASE SetUp
  BY <1>2 DEF SetUp, FlagsInv, Settled
<1>3. CASE BeginPolls
  <2>1. /\ pc' = "readLock" /\ lastRun' = "destroy" /\ Settled(FALSE)
        /\ UNCHANGED flags
        /\ locked' = FALSE /\ heard' = FALSE /\ young' = FALSE
    BY <1>3 DEF BeginPolls, FlagsInv
  <2>2. Settled(heard)'
    BY <2>1 DEF Settled, flags
  <2> QED BY <2>1, <2>2 DEF FlagsInv
<1>4. CASE SetUpFails \/ Crash
  BY <1>4 DEF SetUpFails, Crash, FlagsInv
<1>5. CASE RunCommand \/ CommandFails
  <2>1. /\ UNCHANGED <<locked, flags, samples, lastRun>>
        /\ "pulse" \in lapses <=> "pulse" \in lapses'
        /\ \/ pc \in {"startDestroy", "startBuild"}
              /\ pc' \in {"startDestroy", "startBuild", "setup"}
           \/ pc \in {"destroy", "redirect"} /\ pc' \in {pc, "sleep"}
    BY <1>0, <1>5, AdvanceCases
    DEF RunCommand, CommandFails, history, Programs, After
  <2> QED BY <2>1 DEF flags, samples, FlagsInv, Settled, Turning
<1>6. CASE CheckLock \/ CheckNetwork \/ CheckLockFails \/ CheckNetworkFails
  <2>1. /\ UNCHANGED <<flags, samples, lapses, lastRun>>
        /\ pc \in {"readLock", "readNetwork"} /\ pc' \in {"readNetwork", "decide"}
        /\ pc' # "decide" => locked' = locked
    BY <1>6 DEF CheckLock, CheckNetwork, CheckLockFails, CheckNetworkFails, history
  <2> QED BY <2>1 DEF flags, samples, FlagsInv, Settled, Turning
<1>7. CASE Rest
  <2>1. /\ UNCHANGED <<locked, lastRun>> /\ pc = "decide" /\ pc' = "sleep"
        /\ IF locked THEN isRedirected ELSE isDestroied
        /\ isDestroied'  = (isDestroied /\ ~(locked /\ isRedirected))
        /\ isRedirected' = (isRedirected /\ ~(~locked /\ isDestroied))
        /\ heard' = locked /\ young' = (locked # heard)
        /\ "pulse" \notin lapses' => "pulse" \notin lapses /\ ~Pulse
    BY <1>7 DEF Rest, Reconcile, Hear
  <2> QED BY <1>b, <2>1 DEF FlagsInv, Settled, Turning, Pulse
<1>8. CASE BeginDestroy
  <2>1. /\ UNCHANGED locked /\ pc = "decide" /\ pc' = "destroy"
        /\ ~locked /\ ~isDestroied /\ isDestroied'
        /\ isRedirected' = isRedirected
        /\ heard' = locked /\ young' = (locked # heard) /\ lastRun' = "destroy"
    BY <1>8 DEF BeginDestroy
  <2>2. heard /\ isRedirected
    BY <1>b, <2>1 DEF FlagsInv, Settled, Turning
  <2>3. Turning' /\ young' /\ ~heard' /\ locked' = heard'
    BY <1>b, <2>1, <2>2 DEF Turning
  <2> QED BY <2>1, <2>3 DEF FlagsInv
<1>9. CASE BeginRedirect
  <2>1. /\ UNCHANGED locked /\ pc = "decide" /\ pc' = "redirect"
        /\ locked /\ ~isRedirected /\ isRedirected'
        /\ isDestroied' = isDestroied
        /\ heard' = locked /\ young' = (locked # heard) /\ lastRun' = "redirect"
    BY <1>9 DEF BeginRedirect, Hear
  <2>2. ~heard /\ isDestroied
    BY <1>b, <2>1 DEF FlagsInv, Settled, Turning
  <2>3. Turning' /\ young' /\ heard' /\ locked' = heard'
    BY <1>b, <2>1, <2>2 DEF Turning
  <2> QED BY <2>1, <2>3 DEF FlagsInv
<1>10. CASE Wake \/ Environment \/ UNCHANGED vars
  <2>1. /\ UNCHANGED <<locked, flags, samples, lapses, lastRun>>
        /\ pc' = pc \/ (pc = "sleep" /\ pc' = "readLock")
    BY <1>10 DEF Wake, Environment, ChangeLockfile, ChangeAddress, vars, history
  <2> QED BY <2>1 DEF flags, samples, FlagsInv, Settled, Turning
<1> QED BY <1>1, <1>2, <1>3, <1>4, <1>5, <1>6, <1>7, <1>8, <1>9, <1>10
        DEF Next, Run, Poll, Fail

(***************************************************************************)
(* The rules of a polling process.                                         *)
(***************************************************************************)
SafeInv == TypeInv /\ ChainsInv /\ CleanInv /\ FlagsInv /\ RulesInv

LEMMA RulesInit == Init => RulesInv
BY DEF Init, RulesInv, Sampling

LEMMA RulesNext == SafeInv /\ [Next]_vars => RulesInv'
<1> SUFFICES ASSUME SafeInv, [Next]_vars, (lapses = {})'
             PROVE  /\ (pc = "redirect" => Installed(table, step))'
                    /\ (pc \in {"sleep", "readLock"} \cup Sampling
                            => Mirrors(heard))'
  BY DEF RulesInv
<1>0. /\ TypeInv /\ TypeOK /\ StepInv /\ table \in Table
      /\ ChainsInv /\ CleanInv /\ FlagsInv /\ RulesInv
  BY DEF SafeInv, TypeInv, TypeOK
<1>t. TypeInv' /\ table' \in Table
  BY <1>0, TypeNext DEF TypeInv, TypeOK
<1>b. /\ locked \in BOOLEAN /\ isRedirected \in BOOLEAN /\ isDestroied \in BOOLEAN
      /\ heard \in BOOLEAN /\ young \in BOOLEAN
  BY <1>0 DEF TypeOK
<1> USE DEF Sampling, Polling
<1>1. CASE Start \/ SetUp \/ SetUpFails \/ Crash
  BY <1>1 DEF Start, SetUp, SetUpFails, Crash
<1>2. CASE RunCommand
  <2>1. /\ lapses = {} /\ pc \in Programs /\ Advance
        /\ table' = Apply(table, Program(pc)[step])
        /\ heard' = heard
    BY <1>2 DEF RunCommand, history, samples
  <2>2. CASE pc = "redirect"
    <3>1. Hooked(table) /\ Installed(table, step) /\ step \in 1..5 /\ heard
      BY <1>0, <2>1, <2>2, AdvanceCases DEF ChainsInv, RulesInv, FlagsInv
    <3>2. Installed(table', step + 1)
      BY <1>0, <2>1, <2>2, <3>1, RedirectStep, ProgramOf
    <3>3. CASE pc' = pc /\ step' = step + 1
      BY <2>2, <3>2, <3>3
    <3>4. CASE pc' = "sleep" /\ step = 5
      BY <1>t, <2>1, <3>1, <3>2, <3>4, ProgramsDone DEF Mirrors
    <3> QED BY <1>0, <2>1, <2>2, <3>3, <3>4, AdvanceCases DEF After
  <2>3. CASE pc = "destroy"
    <3>1. Emptied(table, step) /\ step \in 1..8 /\ ~heard
      BY <1>0, <2>1, <2>3, AdvanceCases DEF CleanInv, FlagsInv
    <3>2. Emptied(table', step + 1)
      BY <1>0, <2>1, <2>3, <3>1, DestroyStep, ProgramOf
    <3>3. CASE pc' = pc
      BY <2>3, <3>3
    <3>4. CASE pc' = "sleep" /\ step = 8
      BY <1>t, <2>1, <3>1, <3>2, <3>4, ProgramsDone DEF Mirrors
    <3> QED BY <1>0, <2>1, <2>3, <3>3, <3>4, AdvanceCases DEF After
  <2>4. CASE pc \in {"startDestroy", "startBuild"}
    BY <1>0, <2>1, <2>4, AdvanceCases DEF After
  <2> QED BY <2>1, <2>2, <2>3, <2>4 DEF Programs
<1>3. CASE CommandFails
  BY <1>3 DEF CommandFails
<1>4. CASE BeginPolls
  <2>1. Mirrors(FALSE) /\ table' = table /\ pc' = "readLock" /\ heard' = FALSE
    BY <1>0, <1>4 DEF BeginPolls, CleanInv, Starting, history
  <2> QED BY <2>1 DEF Mirrors
<1>5. CASE CheckLock \/ CheckNetwork \/ CheckLockFails \/ CheckNetworkFails \/ Wake
  <2>1. /\ Mirrors(heard) /\ table' = table /\ heard' = heard /\ pc' # "redirect"
    BY <1>0, <1>5 DEF CheckLock, CheckNetwork, CheckLockFails, CheckNetworkFails,
                      Wake, RulesInv, history, samples
  <2> QED BY <2>1 DEF Mirrors
<1>6. CASE Rest
  <2>1. /\ lapses = {} /\ ~Pulse /\ pc = "decide" /\ pc' = "sleep"
        /\ table' = table /\ heard' = locked
        /\ IF locked THEN isRedirected ELSE isDestroied
    BY <1>6 DEF Rest, Hear
  <2>2. Mirrors(heard)
    BY <1>0, <2>1 DEF RulesInv
  <2>3. heard' = heard
    BY <1>0, <1>b, <2>1 DEF FlagsInv, Settled, Turning, Pulse
  <2> QED BY <2>1, <2>2, <2>3 DEF Mirrors
<1>7. CASE BeginDestroy
  BY <1>7 DEF BeginDestroy
<1>8. CASE BeginRedirect
  <2>1. /\ lapses = {} /\ pc = "decide" /\ locked /\ ~isRedirected
        /\ table' = table /\ pc' = "redirect" /\ step' = 1
    BY <1>8 DEF BeginRedirect, Hear
  <2>2. Mirrors(heard) /\ ~heard
    BY <1>0, <1>b, <2>1 DEF RulesInv, FlagsInv, Settled, Turning
  <2> QED BY <1>0, <2>1, <2>2, ProgramsDone DEF Mirrors
<1>9. CASE Environment \/ UNCHANGED vars
  <2>1. UNCHANGED <<pc, step, table, heard, lapses>>
    BY <1>9 DEF Environment, ChangeLockfile, ChangeAddress, vars, samples, history
  <2> QED BY <1>0, <2>1 DEF RulesInv, Mirrors
<1> QED BY <1>1, <1>2, <1>3, <1>4, <1>5, <1>6, <1>7, <1>8, <1>9
        DEF Next, Run, Poll, Fail

LEMMA SafeNext == SafeInv /\ [Next]_vars => SafeInv'
BY TypeNext, ChainsNext, CleanNext, FlagsNext, RulesNext DEF SafeInv

LEMMA SafeInit == Init => SafeInv
BY TypeInit, ChainsInit, CleanInit, FlagsInit, RulesInit DEF SafeInv

\* All of it at once: what the flags, the samples and the table have to do with
\* each other in every state, between the steps of a poll and between the
\* commands of a program too, whatever the environment does.
THEOREM InductiveTheorem == Spec => []IInv
<1>1. SafeInv => IInv
  BY DEF SafeInv, TypeInv, IInv
<1> QED BY SafeInit, SafeNext, <1>1, PTL DEF Spec

\* The main result: whatever the daemon's crashes, its failing commands and
\* reads and the changes of the environment, also between the two reads of a
\* poll, the kernel's rules at the end of a poll are those of the value read,
\* each once, unless a command failed or a value was read by one poll only
\* since the destroy program last ran.
THEOREM MirrorTheorem == Spec => []RulesMirrorLock
<1>1. SafeInv => RulesMirrorLock
  <2> SUFFICES ASSUME SafeInv, pc = "sleep", lapses = {} PROVE Mirrors(locked)
    BY DEF RulesMirrorLock
  <2>1. Mirrors(heard) /\ locked = heard
    BY DEF SafeInv, RulesInv, FlagsInv, Polling
  <2> QED BY <2>1
<1> QED BY SafeInit, SafeNext, <1>1, PTL DEF Spec

\* run() starts a program twice in a row only after a value that one poll only
\* has read, even when the commands of the program or the reads fail.
THEOREM OnceTheorem == Spec => SameRuleOnce
<1>1. TypeInv /\ FlagsInv /\ [Next]_vars =>
         [ "pulse" \notin lapses =>
               /\ BeginDestroy  => lastRun # "destroy"
               /\ BeginRedirect => lastRun # "redirect" ]_vars
  <2> SUFFICES ASSUME TypeInv, FlagsInv, "pulse" \notin lapses
               PROVE  /\ BeginDestroy  => lastRun # "destroy"
                      /\ BeginRedirect => lastRun # "redirect"
    OBVIOUS
  <2>1. /\ locked \in BOOLEAN /\ isRedirected \in BOOLEAN
        /\ isDestroied \in BOOLEAN /\ heard \in BOOLEAN
    BY DEF TypeInv, TypeOK
  <2>2. ASSUME BeginDestroy PROVE lastRun # "destroy"
    <3>1. pc = "decide" /\ ~isDestroied
      BY <2>2 DEF BeginDestroy
    <3> QED BY <2>1, <3>1 DEF FlagsInv, Settled, Turning, Polling, Sampling
  <2>3. ASSUME BeginRedirect PROVE lastRun # "redirect"
    <3>1. pc = "decide" /\ ~isRedirected
      BY <2>3 DEF BeginRedirect
    <3> QED BY <2>1, <3>1 DEF FlagsInv, Settled, Turning, Polling, Sampling
  <2> QED BY <2>2, <2>3
<1>2. SafeInv => TypeInv /\ FlagsInv
  BY DEF SafeInv
<1> QED BY SafeInit, SafeNext, <1>1, <1>2, PTL DEF Spec, SameRuleOnce

(***************************************************************************)
(* Supervisor implements PortalSwitch; the process may die at any step.    *)
(***************************************************************************)
want == pc \in Polling /\ locked

\* Every step of a program is a step of the switch, or none.
LEMMA CommandRefines ==
    ASSUME SafeInv, RunCommand
    PROVE  [Switch!Next]_(Switch!vars)
<1>0. /\ TypeOK /\ StepInv /\ table \in Table /\ pc \in Programs
      /\ ChainsInv /\ CleanInv /\ FlagsInv /\ RulesInv
      /\ Advance /\ table' = Apply(table, Program(pc)[step])
      /\ locked' = locked /\ lapses' = lapses
  BY DEF SafeInv, TypeInv, TypeOK, RunCommand, history
<1>t. Program(pc)[step] \in Command /\ table' \in Table
  BY <1>0, NextCommand, ApplyTypes
<1> DEFINE cmd == Program(pc)[step]
<1>1. CASE pc = "startBuild"
  <2>1. table'.copies = table.copies
    BY <1>0, <1>1, AdvanceCases, BuildStep, ProgramOf
  <2>2. ~want /\ ~want'
    BY <1>0, <1>1, AdvanceCases DEF want, Polling, Sampling, After
  <2> QED BY <1>0, <2>1, <2>2 DEF want, Switch!vars
<1>2. CASE pc \in {"startDestroy", "destroy"}
  <2>1. ~want /\ ~want'
    <3>1. pc = "destroy" => ~locked
      BY <1>0 DEF FlagsInv, Polling, Sampling
    <3>2. pc = "startDestroy" => pc' \in {"startDestroy", "startBuild"}
      BY <1>0, AdvanceCases DEF After
    <3> QED BY <1>0, <1>2, <3>1, <3>2 DEF want, Polling, Sampling
  <2>2. step \in 1..8 /\ cmd = iptable_destroy_rule[step]
    BY <1>0, <1>2, AdvanceCases, ProgramOf
  <2>3. CASE step \in 1..4
    <3>1. cmd.op = "F"
      BY <2>2, <2>3, DestroyCommands
    <3>2. table'.copies = [r \in Rule |-> IF Home[r] = cmd.on THEN 0
                                                             ELSE table.copies[r]]
      BY <1>0, <3>1 DEF Apply, Flush, Table
    <3> DEFINE S == {r \in Rule : Home[r] = cmd.on}
    <3>3. table'.copies = [r \in Rule |-> IF r \in S THEN 0 ELSE table.copies[r]]
      BY <3>2
    <3>4. S \in SUBSET Rule
      OBVIOUS
    <3> HIDE DEF S
    <3>5. Switch!Remove(S)
      BY <1>0, <2>1, <3>3 DEF Switch!Remove, want
    <3> QED BY <3>4, <3>5 DEF Switch!Next
  <2>4. CASE step \in 5..8
    <3>1. cmd.op = "X"
      BY <2>2, <2>4, DestroyCommands
    <3>2. table'.copies = table.copies
      BY <1>0, <1>t, <3>1, ApplyEffects
    <3> QED BY <1>0, <2>1, <3>2 DEF want, Switch!vars
  <2> QED BY <2>2, <2>3, <2>4
<1>3. CASE pc = "redirect"
  <2>1. want /\ want'
    <3>1. locked
      BY <1>0, <1>3 DEF FlagsInv, Polling, Sampling
    <3>2. pc' \in {"redirect", "sleep"}
      BY <1>0, <1>3, AdvanceCases DEF After
    <3> QED BY <1>0, <1>3, <3>1, <3>2 DEF want, Polling, Sampling
  <2>2. step \in 1..5 /\ cmd = Redirect[step]
        /\ (lapses = {} => Installed(table, step))
    BY <1>0, <1>3, AdvanceCases, ProgramOf DEF RulesInv
  <2>3. cmd.op = "A" /\ cmd.on \in Rule
    <3>1. \A k \in 1..5 : Redirect[k].on \in Rule
      BY DEF Redirect, iptable_redirect_dns, iptable_redirect_http, Do, Rule
    <3> QED BY <2>2, <3>1, RedirectCommands
  <2>4. table.copies[cmd.on] = 0 \/ lapses # {}
    BY <2>2 DEF Installed
  <2>5. \/ table'.copies = [table.copies EXCEPT ![cmd.on] = @ + 1]
        \/ table' = table
    BY <1>0, <2>3 DEF Apply, AddRule, Table
  <2>6. CASE table'.copies = [table.copies EXCEPT ![cmd.on] = @ + 1]
    <3>1. Switch!Install(cmd.on)
      BY <1>0, <2>1, <2>4, <2>6 DEF Switch!Install, want
    <3> QED BY <2>3, <3>1 DEF Switch!Next
  <2>7. CASE table' = table
    BY <1>0, <2>1, <2>7 DEF want, Switch!vars
  <2> QED BY <2>5, <2>6, <2>7
<1> QED BY <1>0, <1>1, <1>2, <1>3 DEF Programs

\* Every other step: a sample turns the switch, a death abandons it, a failure
\* or a pulse is a lapse, a new start and the destroy program end it, and the
\* rest is invisible.
LEMMA NextRefines ==
    ASSUME SafeInv, [Next]_vars
    PROVE  [Switch!Next]_(Switch!vars)
<1>0. TypeOK /\ StepInv /\ FlagsInv /\ RulesInv
  BY DEF SafeInv, TypeInv
<1> USE DEF Polling, Sampling, Starting
<1>1. CASE RunCommand
  BY <1>1, CommandRefines
<1>2. CASE CommandFails
  <2>1. pc \in Programs /\ Advance /\ table' = table /\ locked' = locked /\ lapses' # {}
    BY <1>2 DEF CommandFails
  <2>2. \/ pc \in {"startDestroy", "startBuild"}
           /\ pc' \in {"startDestroy", "startBuild", "setup"}
        \/ pc \in {"destroy", "redirect"} /\ pc' \in {pc, "sleep"}
    BY <1>0, <2>1, AdvanceCases DEF Programs, After
  <2>3. Switch!Lapse
    BY <2>1, <2>2 DEF Switch!Lapse
  <2> QED BY <2>3 DEF Switch!Next
<1>3. CASE Start
  <2>1. table' = table /\ pc = "off" /\ pc' = "startDestroy" /\ lapses' = {}
    BY <1>3 DEF Start
  <2>2. Switch!Recover
    BY <2>1 DEF Switch!Recover
  <2> QED BY <2>2 DEF Switch!Next
<1>4. CASE SetUp \/ BeginPolls
  BY <1>4 DEF SetUp, BeginPolls, history, Switch!vars
<1>5. CASE SetUpFails \/ Crash
  <2>1. table' = table /\ pc' = "off" /\ lapses' = lapses
    BY <1>5 DEF SetUpFails, Crash
  <2> QED BY <2>1 DEF Switch!Next, Switch!Abandon
<1>6. CASE CheckLock \/ CheckNetwork \/ CheckLockFails \/ CheckNetworkFails
  <2>1. /\ table' = table /\ lapses' = lapses
        /\ pc \in {"readLock", "readNetwork"}
        /\ pc' \in {"readNetwork", "decide"} /\ locked' \in BOOLEAN
    BY <1>0, <1>6 DEF CheckLock, CheckNetwork, CheckLockFails, CheckNetworkFails,
                      TypeOK, history
  <2>2. lapses = {} => Mirrors(heard) /\ locked = heard
    BY <1>0, <2>1 DEF RulesInv, FlagsInv
  <2>3. Switch!Settled \/ lapses # {}
    BY <2>1, <2>2 DEF Switch!Settled, Mirrors
  <2>4. Switch!Turn
    BY <2>1, <2>3 DEF Switch!Turn
  <2> QED BY <2>4 DEF Switch!Next
<1>7. CASE Rest \/ BeginRedirect
  <2>1. /\ table' = table /\ locked' = locked /\ pc = "decide"
        /\ pc' \in {"sleep", "redirect"} /\ (lapses' = lapses \/ lapses' # {})
    BY <1>7 DEF Rest, BeginRedirect, Hear
  <2>2. CASE lapses' = lapses
    BY <2>1, <2>2 DEF Switch!vars
  <2>3. CASE lapses' # {}
    <3>1. Switch!Lapse
      BY <2>1, <2>3 DEF Switch!Lapse
    <3> QED BY <3>1 DEF Switch!Next
  <2> QED BY <2>1, <2>2, <2>3
<1>8. CASE BeginDestroy
  <2>1. /\ table' = table /\ locked' = locked /\ pc = "decide" /\ pc' = "destroy"
        /\ ~locked /\ lapses' \subseteq lapses
    BY <1>8 DEF BeginDestroy
  <2>2. CASE lapses' = {}
    <3>1. Switch!Recover
      BY <2>1, <2>2 DEF Switch!Recover
    <3> QED BY <3>1 DEF Switch!Next
  <2>3. CASE lapses' # {}
    <3>1. lapses # {}
      BY <2>1, <2>3
    <3> QED BY <2>1, <2>3, <3>1 DEF Switch!vars
  <2> QED BY <2>2, <2>3
<1>9. CASE Wake \/ Environment \/ UNCHANGED vars
  BY <1>9 DEF Wake, Environment, ChangeLockfile, ChangeAddress, vars, history,
              Switch!vars
<1> QED BY <1>1, <1>2, <1>3, <1>4, <1>5, <1>6, <1>7, <1>8, <1>9
        DEF Next, Run, Poll, Fail

\* The supervisor implements the switch, in every environment and with all
\* faults: it removes rules only while the portal is not wanted and installs
\* them only while it is; and unless a lapse excuses it, it takes a new
\* position only when the last one is carried out, and installs no rule that
\* is there.
THEOREM SwitchTheorem == Spec => ImplementsSwitch
<1>1. Init => Switch!Init
  BY DEF Init, Switch!Init, BootTable, Polling, Sampling
<1>2. SafeInv /\ [Next]_vars => [Switch!Next]_(Switch!vars)
  BY NextRefines
<1> QED BY SafeInit, SafeNext, <1>1, <1>2, PTL DEF Spec, ImplementsSwitch, Switch!Spec
=========================================================================
