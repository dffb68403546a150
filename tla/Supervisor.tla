--------------------------- MODULE Supervisor ---------------------------
(***************************************************************************)
(* Application::run (src/src/application.cpp): the main thread, which      *)
(* polls once a second whether the portal must be on and runs the iptables *)
(* programs of Iptable.  The portal must be on while the lock file exists  *)
(* or the station interface has no address; both change under the daemon's *)
(* feet, and so does the daemon: it may die between any two steps and be   *)
(* started again, and the kernel's table outlives it.                      *)
(*                                                                         *)
(* One action is one step that others can see: reading the lock file,      *)
(* reading the interface, deciding, one iptables command, waking up.       *)
(***************************************************************************)
EXTENDS Iptable, Naturals

CONSTANTS
    MaxFaults,   \* bound: failing commands and failing reads of a source
    MaxCrashes   \* bound: deaths of the process

ASSUME ParameterAssumption ==
    /\ MaxFaults \in Nat
    /\ MaxCrashes \in Nat

VARIABLES
    pc,            \* where the main thread is; "off": no process
    step,          \* the command of the current program that runs next
    locked,        \* the local variable of run()
    isRedirected,
    isDestroied,
    table,         \* the kernel's nat table
    lockfile,      \* environment: the lock file exists
    address,       \* environment: the station interface has an IPv4 address
    heard,         \* history: the value that the last poll has read
    young,         \* history: the last poll was the first to read it
    lapses,        \* history: what may still keep the rules from the value
    faults,        \* history: faults so far
    crashes,       \* history: deaths so far
    lastRun        \* history: the program run() started last

flags == <<isRedirected, isDestroied>>
world == <<lockfile, address>>
samples == <<heard, young>>
history == <<lapses, faults, crashes>>
vars == <<pc, step, locked, flags, table, world, samples, history, lastRun>>

Programs == {"startDestroy", "startBuild", "destroy", "redirect"}
Sampling == {"readNetwork", "decide"}
Polling  == {"readLock", "destroy", "redirect", "sleep"} \cup Sampling
Starting == {"setup", "threads"}
PCs      == {"off"} \cup Starting \cup Programs \cup Polling

\* What the daemon is to follow: the condition of line 94.
MustLock == lockfile \/ ~address

Init ==
    /\ pc = "off" /\ step = 1
    /\ locked = FALSE
    /\ isRedirected \in BOOLEAN /\ isDestroied \in BOOLEAN  \* uninitialised
    /\ table = BootTable
    /\ lockfile \in BOOLEAN /\ address \in BOOLEAN
    /\ heard = FALSE /\ young = FALSE
    /\ lapses = {} /\ faults = 0 /\ crashes = 0
    /\ lastRun = "none"

(***************************************************************************)
(* The iptables programs.                                                  *)
(***************************************************************************)
Redirect == iptable_redirect_dns \o iptable_redirect_http

Program(p) ==
    IF p \in {"startDestroy", "destroy"} THEN iptable_destroy_rule
    ELSE IF p = "startBuild" THEN iptabel_set_NewChain
    ELSE Redirect

After(p) == IF p = "startDestroy" THEN "startBuild"
            ELSE IF p = "startBuild" THEN "setup"
            ELSE "sleep"

\* Mutant: one command too many.
Advance_TooFar ==
    IF step <= Len(Program(pc))
    THEN step' = step + 1 /\ pc' = pc
    ELSE step' = 1 /\ pc' = After(pc)

Advance ==
    IF step < Len(Program(pc))
    THEN step' = step + 1 /\ pc' = pc
    ELSE step' = 1 /\ pc' = After(pc)

\* iptables_do_command: the child runs and the parent has waited for it.
RunCommand ==
    /\ pc \in Programs
    /\ table' = Apply(table, Program(pc)[step])
    /\ Advance
    /\ UNCHANGED <<locked, flags, world, samples, history, lastRun>>

\* fork, exec or iptables itself fails: the return code goes nowhere.
CommandFails ==
    /\ pc \in Programs
    /\ faults < MaxFaults
    /\ faults' = faults + 1
    /\ lapses' = lapses \cup {IF pc = "startBuild" THEN "build" ELSE "command"}
    /\ Advance
    /\ UNCHANGED <<locked, flags, table, world, samples, crashes, lastRun>>

(***************************************************************************)
(* Starting and dying.                                                     *)
(***************************************************************************)
\* new Iptable(): the constructor destroys, then builds.
Start ==
    /\ pc = "off"
    /\ pc' = "startDestroy" /\ step' = 1
    /\ lapses' = {}
    /\ UNCHANGED <<locked, flags, table, world, samples, faults, crashes, lastRun>>

\* The flags are set, the DNS server's socket is there and its thread runs.
SetUp ==
    /\ pc = "setup"
    /\ isDestroied' = TRUE /\ isRedirected' = FALSE
    /\ pc' = "threads"
    /\ UNCHANGED <<step, locked, table, world, samples, history, lastRun>>

\* The web server's thread runs too.  The first poll assigns locked before it
\* is read.
BeginPolls ==
    /\ pc = "threads"
    /\ locked' = FALSE
    /\ heard' = FALSE /\ young' = FALSE
    /\ lastRun' = "destroy"
    /\ pc' = "readLock"
    /\ UNCHANGED <<step, flags, table, world, history>>

\* One of the two threads cannot be created: run() returns, and so does
\* main(), when the second fails with the DNS server's thread running.
SetUpFails ==
    /\ pc \in Starting
    /\ crashes < MaxCrashes
    /\ crashes' = crashes + 1
    /\ pc' = "off"
    /\ isDestroied' = TRUE /\ isRedirected' = FALSE
    /\ UNCHANGED <<step, locked, table, world, samples, lapses, faults, lastRun>>

\* The process dies: a signal (nothing ignores SIGPIPE), an exception.
Crash ==
    /\ pc # "off"
    /\ crashes < MaxCrashes
    /\ crashes' = crashes + 1
    /\ pc' = "off" /\ step' = 1
    /\ UNCHANGED <<locked, flags, table, world, samples, lapses, faults, lastRun>>

(***************************************************************************)
(* One poll.                                                               *)
(***************************************************************************)
\* islocked(): when the file is there the network is not looked at.
CheckLock ==
    /\ pc = "readLock"
    /\ IF lockfile THEN locked' = TRUE /\ pc' = "decide"
                   ELSE locked' = locked /\ pc' = "readNetwork"
    /\ UNCHANGED <<step, flags, table, world, samples, history, lastRun>>

\* glob fails, which reads as "no file".
CheckLockFails ==
    /\ pc = "readLock" /\ lockfile
    /\ faults < MaxFaults
    /\ faults' = faults + 1
    /\ pc' = "readNetwork"
    /\ UNCHANGED <<step, locked, flags, table, world, samples, lapses, crashes, lastRun>>

\* getNetworkStatus(staInterface) == 0
CheckNetwork ==
    /\ pc = "readNetwork"
    /\ locked' = ~address
    /\ pc' = "decide"
    /\ UNCHANGED <<step, flags, table, world, samples, history, lastRun>>

\* getifaddrs or getnameinfo fails, which reads as "no address".
CheckNetworkFails ==
    /\ pc = "readNetwork"
    /\ faults < MaxFaults
    /\ faults' = faults + 1
    /\ locked' = TRUE
    /\ pc' = "decide"
    /\ UNCHANGED <<step, flags, table, world, samples, lapses, crashes, lastRun>>

\* Mutants: no flag is ever taken back; each branch takes back its own flag.
Reconcile_Never == UNCHANGED flags
Reconcile_Swapped ==
    /\ isDestroied'  = (isDestroied /\ ~(~locked /\ isRedirected))
    /\ isRedirected' = (isRedirected /\ ~(locked /\ isDestroied))

\* Lines 97-105: the flag of the other program is taken back only here, one
\* poll after the program of this value has run.
Reconcile ==
    /\ isDestroied'  = (isDestroied /\ ~(locked /\ isRedirected))
    /\ isRedirected' = (isRedirected /\ ~(~locked /\ isDestroied))

\* The history of the samples.  A value that only one poll has read is gone
\* before the flags are reconciled: run() then takes them back for the value
\* before it and starts no program, whatever the last program has installed.
Pulse == young /\ locked # heard

Hear ==
    /\ heard' = locked /\ young' = (locked # heard)
    /\ lapses' = lapses \cup (IF Pulse THEN {"pulse"} ELSE {})

\* Neither program has to run.
Rest ==
    /\ pc = "decide"
    /\ IF locked THEN isRedirected ELSE isDestroied
    /\ Reconcile
    /\ pc' = "sleep"
    /\ Hear
    /\ UNCHANGED <<step, locked, table, world, faults, crashes, lastRun>>

BeginDestroy ==
    /\ pc = "decide"
    /\ ~locked /\ ~isDestroied
    /\ isDestroied' = TRUE /\ isRedirected' = isRedirected
    /\ pc' = "destroy" /\ step' = 1
    /\ heard' = locked /\ young' = (locked # heard)
    /\ lapses' = lapses \ {"command", "pulse"}
    /\ lastRun' = "destroy"
    /\ UNCHANGED <<locked, table, world, faults, crashes>>

BeginRedirect ==
    /\ pc = "decide"
    /\ locked /\ ~isRedirected
    /\ isRedirected' = TRUE /\ isDestroied' = isDestroied
    /\ pc' = "redirect" /\ step' = 1
    /\ Hear
    /\ lastRun' = "redirect"
    /\ UNCHANGED <<locked, table, world, faults, crashes>>

\* sleep(1) is over.
Wake ==
    /\ pc = "sleep"
    /\ pc' = "readLock"
    /\ UNCHANGED <<step, locked, flags, table, world, samples, history, lastRun>>

(***************************************************************************)
(* The environment: whoever owns the lock file and the interface changes   *)
(* either at any time, also between the two reads of a poll.               *)
(***************************************************************************)
ChangeLockfile ==
    /\ lockfile' = ~lockfile
    /\ UNCHANGED <<pc, step, locked, flags, table, address, samples, history, lastRun>>

ChangeAddress ==
    /\ address' = ~address
    /\ UNCHANGED <<pc, step, locked, flags, table, lockfile, samples, history, lastRun>>

(***************************************************************************)
(* The specification.  Fairness: the main thread is scheduled and its      *)
(* children end.  Nothing makes the process start, fail or die.            *)
(***************************************************************************)
Poll == CheckLock \/ CheckNetwork \/ Rest \/ BeginDestroy \/ BeginRedirect \/ Wake
Run  == RunCommand \/ SetUp \/ BeginPolls \/ Poll
Fail == CommandFails \/ CheckLockFails \/ CheckNetworkFails \/ SetUpFails \/ Crash
Environment == ChangeLockfile \/ ChangeAddress

Next == Start \/ Run \/ Fail \/ Environment

Spec     == Init /\ [][Next]_vars
FairSpec == Spec /\ WF_vars(Run)

\* The same, with lock file and interface that take turns: what the daemon is
\* to follow never changes, only its two halves do.
SteadySpec == Init /\ [][Next /\ MustLock' = MustLock]_vars

(***************************************************************************)
(* Properties.                                                             *)
(***************************************************************************)
TypeOK ==
    /\ pc \in PCs
    /\ step \in 1..8
    /\ locked \in BOOLEAN
    /\ isRedirected \in BOOLEAN /\ isDestroied \in BOOLEAN
    /\ table \in Table
    /\ lockfile \in BOOLEAN /\ address \in BOOLEAN
    /\ heard \in BOOLEAN /\ young \in BOOLEAN
    /\ lapses \subseteq {"command", "build", "pulse"}
    /\ faults \in 0..MaxFaults
    /\ crashes \in 0..MaxCrashes
    /\ lastRun \in {"none", "destroy", "redirect"}

\* Every rule of the portal is installed once, or none is.
Mirrors(on) == \A r \in Rule : table.copies[r] = IF on THEN 1 ELSE 0

\* When a poll of run() is over, the rules in the kernel are what the value it
\* read asks for: each of the five exactly once, or none.  This is so however
\* the sources change and whichever reads of them fail, survives crashes in
\* the middle of a program and, after the next destroy program, commands that
\* failed and values that one poll only has read.
RulesMirrorLock ==
    pc = "sleep" /\ lapses = {} => Mirrors(locked)

\* "make sure the same rule run only once" (application.cpp:93), as far as it
\* is true: run() starts the destroy program or the redirect program twice in
\* a row only after a value that one poll only has read, be the commands of
\* the programs successful or not.
SameRuleOnce ==
    [][ "pulse" \notin lapses =>
            /\ BeginDestroy  => lastRun # "destroy"
            /\ BeginRedirect => lastRun # "redirect" ]_vars

\* The comment to the letter.
OnlyOnce ==
    [][ /\ BeginDestroy  => lastRun # "destroy"
        /\ BeginRedirect => lastRun # "redirect" ]_vars

\* The -X commands of iptable_destroy_rule never remove a chain that the
\* redirect programs, which do not create chains, are going to fill: once
\* the constructor has run without a failing command, every custom chain
\* exists and is jumped to as long as the process lives.
ChainsStayHooked ==
    pc \in Polling /\ "build" \notin lapses
        => \A c \in Chain : c \in table.live /\ table.jumps[c] > 0

\* A crash may leave rules of the portal behind; the constructor of the next
\* process has removed every one of them, whatever step the old one died in,
\* before the first poll of run().
RestartCleans ==
    pc \in Starting /\ lapses = {} => Mirrors(FALSE)

\* The loop of run() follows its sources: when from some time on they are what
\* they are, the process stays up and no lapse has an effect, its rules are at
\* last there once (gone) and stay so.  The interface may change as long as
\* the lock file is there.  A last value that one poll only has read is a
\* lapse that stays: no program runs any more, and the rules do not follow.
Steady(l, a) ==
    /\ lockfile = l /\ (l \/ address = a)
    /\ pc # "off" /\ lapses = {}
Follows == \A l, a \in BOOLEAN : <>[]Steady(l, a) => <>[]Mirrors(l \/ ~a)

\* run() implements the switch of PortalSwitch: what is wanted is the value of
\* the last sample, a process that is not there or has not polled yet wants
\* nothing, and the switch is excused while a lapse has an effect.
Switch == INSTANCE PortalSwitch
              WITH want <- pc \in Polling /\ locked, copies <- table.copies,
                   excused <- lapses # {}
ImplementsSwitch == Switch!Spec

(***************************************************************************)
(* The inductive invariant of SupervisorProofs.                            *)
(***************************************************************************)
\* The flags know one value, or both programs have run and the flag of the
\* other value is about to be taken back.
Settled(v) == isRedirected = v /\ isDestroied = ~v
Turning    == isRedirected /\ isDestroied

StepInv ==
    step \in 1..(IF pc \in Programs THEN Len(Program(pc)) ELSE 1)

\* The flags and the samples.  Without a pulse the flags of a value that is
\* young are turning, and lastRun is the program of the value heard.
FlagsInv ==
    /\ pc \in Polling =>
        /\ Settled(heard) \/ (Turning /\ young)
        /\ "pulse" \notin lapses =>
              /\ young => Turning
              /\ lastRun = IF heard THEN "redirect" ELSE "destroy"
        /\ pc # "decide" => locked = heard
        /\ pc = "destroy" => ~heard
        /\ pc = "redirect" => heard
    /\ pc = "threads" => Settled(FALSE)

\* How far the first n - 1 commands of a program have brought a table.
Emptied(t, n)   == \A k \in 1..4 : k < n => Empty(t, iptable_destroy_rule[k].on)
Built(t, n)     == \A k \in 1..4 :
                      LET c == iptabel_set_NewChain[k].on
                      IN  /\ k < n => c \in t.live
                          /\ k + 4 < n => t.jumps[c] > 0
Installed(t, n) == \A k \in 1..5 : t.copies[Redirect[k].on] = IF k < n THEN 1 ELSE 0

Hooked(t) == \A c \in Chain : c \in t.live /\ t.jumps[c] > 0

\* The destroy program and the constructor, when no command has failed.
CleanInv ==
    lapses = {} =>
        /\ pc \in {"startDestroy", "destroy"} => Emptied(table, step)
        /\ pc \in {"startBuild"} \cup Starting => Mirrors(FALSE)

ChainsInv ==
    "build" \notin lapses =>
        /\ pc = "startBuild" => Built(table, step)
        /\ pc \in Starting \cup Polling => Hooked(table)

\* The rules of a polling process, when no command has failed.
RulesInv ==
    lapses = {} =>
        /\ pc = "redirect" => Installed(table, step)
        /\ pc \in {"sleep", "readLock"} \cup Sampling => Mirrors(heard)

IInv == /\ TypeOK /\ StepInv /\ FlagsInv /\ CleanInv /\ ChainsInv /\ RulesInv
=========================================================================
