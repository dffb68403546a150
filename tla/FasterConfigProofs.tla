----------------------- MODULE FasterConfigProofs -----------------------
(***************************************************************************)
(* Proofs about FasterConfig: the main thread is the one of Supervisor,    *)
(* whatever the servers and the client do, so that what is proved there    *)
(* holds here; how long the servers live; and where a client gets.         *)
(***************************************************************************)
EXTENDS FasterConfig, SupervisorProofs

(***************************************************************************)
(* The composition implements Supervisor.                                  *)
(***************************************************************************)
\* Every step of the composition is one of the main thread or of the
\* environment, or one that they do not see.
LEMMA MainThreadStep == [NextAll]_all => [Next]_vars
<1> SUFFICES ASSUME [NextAll]_all PROVE Next \/ UNCHANGED vars
  OBVIOUS
<1>1. CASE Daemon
  <2>1. CASE Alone /\ UNCHANGED <<servers, client>>
    BY <2>1 DEF Alone, Next, Run, Fail
  <2>2. CASE StartServers
    BY <2>2 DEF StartServers, Next, Run
  <2>3. CASE StartPolls
    BY <2>3 DEF StartPolls, Next, Run
  <2>4. CASE StartWebServer
    BY <2>4 DEF StartWebServer
  <2> QED BY <1>1, <2>1, <2>2, <2>3, <2>4 DEF Daemon
<1>2. CASE Perish
  BY <1>2 DEF Perish, Next, Fail
<1>3. CASE LingeringEnds
  BY <1>3 DEF LingeringEnds
<1>4. CASE Client
  BY <1>4 DEF Client, Ask, GiveUp, Expire
<1>5. CASE DnsAnswers \/ UpstreamAnswers \/ Connect
  BY <1>5 DEF DnsAnswers, UpstreamAnswers, Connect
<1>6. CASE UNCHANGED all
  BY <1>6 DEF all
<1> QED BY <1>1, <1>2, <1>3, <1>4, <1>5, <1>6 DEF NextAll

\* The daemon with its servers and a client is a Supervisor: nothing that they
\* do touches what the main thread and the environment keep.
THEOREM SupervisorTheorem == SpecAll => Spec
<1>1. InitAll => Init
  BY DEF InitAll
<1> QED BY <1>1, MainThreadStep, PTL DEF SpecAll, Spec

\* The supervisor's results, for the composition.
THEOREM MirrorAllTheorem == SpecAll => []RulesMirrorLock
<1> QED BY MirrorTheorem, SupervisorTheorem, PTL

\* The purpose of the main thread, for the daemon with its servers and clients:
\* the rules in the kernel follow the switch, death by death.
THEOREM SwitchAllTheorem == SpecAll => ImplementsSwitch
<1> QED BY SwitchTheorem, SupervisorTheorem, PTL

(***************************************************************************)
(* The life of the servers.                                                *)
(***************************************************************************)
\* Steps of the main thread that leave the servers alone neither begin nor
\* end its polling.
LEMMA AlonePolls ==
    Alone => /\ pc' \in Polling <=> pc \in Polling
             /\ pc' = "threads" <=> pc = "threads"
<1> SUFFICES ASSUME Alone PROVE /\ pc' \in Polling <=> pc \in Polling
                                /\ pc' = "threads" <=> pc = "threads"
  OBVIOUS
<1> USE DEF Polling, Sampling
<1>1. CASE Start
  BY <1>1 DEF Start
<1>2. CASE RunCommand \/ CommandFails
  <2>1. pc \in Programs /\ pc' \in {pc, After(pc)}
    BY <1>2 DEF RunCommand, CommandFails, Advance
  <2> QED BY <2>1 DEF Programs, After
<1>3. CASE Poll
  BY <1>3 DEF Poll, CheckLock, CheckNetwork, Rest, BeginDestroy, BeginRedirect, Wake
<1>4. CASE CheckLockFails \/ CheckNetworkFails
  BY <1>4 DEF CheckLockFails, CheckNetworkFails
<1>5. CASE Environment
  BY <1>5 DEF Environment, ChangeLockfile, ChangeAddress
<1> QED BY <1>1, <1>2, <1>3, <1>4, <1>5 DEF Alone

LEMMA ServersInit == InitAll => ServersOK
BY DEF InitAll, Init, ServersOK, Polling, Sampling

LEMMA ServersNext == ServersOK /\ [NextAll]_all => ServersOK'
<1> SUFFICES ASSUME ServersOK, [NextAll]_all PROVE ServersOK'
  OBVIOUS
<1>1. CASE Alone /\ UNCHANGED <<servers, client>>
  BY <1>1, AlonePolls DEF ServersOK, servers, client
<1>2. CASE StartServers
  <2>1. /\ pc = "setup" /\ pc' = "threads" /\ dns' \in {"bound", "deaf"}
        /\ UNCHANGED <<http, lingers, doing, known, saw>>
    BY <1>2 DEF StartServers, SetUp, InitDnsServer, client
  <2>2. pc \notin {"threads"} \cup Polling /\ pc' \notin Polling
    BY <2>1 DEF Polling, Sampling
  <2> QED BY <2>1, <2>2 DEF ServersOK
<1>10. CASE StartPolls
  <2>1. /\ pc = "threads" /\ pc' \in Polling /\ http' = "starting"
        /\ UNCHANGED <<dns, lingers, doing, known, saw>>
    BY <1>10 DEF StartPolls, BeginPolls, Polling, client
  <2> QED BY <2>1 DEF ServersOK
<1>3. CASE StartWebServer
  <2>1. /\ http = "starting" /\ http' \in {"listening", "failed"}
        /\ UNCHANGED <<pc, dns, lingers, doing, known, saw>>
    BY <1>3 DEF StartWebServer, CreateWebServer, vars, client
  <2> QED BY <2>1 DEF ServersOK
<1>4. CASE Perish
  <2>1. /\ pc' = "off" /\ dns' = "off" /\ http' = "off"
        /\ doing' = IF doing = "atPortal" THEN "lost" ELSE doing
        /\ UNCHANGED <<lingers, known, saw>>
    BY <1>4 DEF Perish, Crash, SetUpFails
  <2> QED BY <2>1 DEF ServersOK, Polling, Sampling
<1>5. CASE LingeringEnds
  BY <1>5 DEF LingeringEnds, ServersOK, vars, client
<1>6. CASE Client
  <2>1. UNCHANGED <<pc, dns, http, lingers>>
    BY <1>6 DEF Client, Ask, GiveUp, Expire, vars, servers
  <2>2. /\ doing' \in {"idle", "atPortal", "upstream", "lost"}
        /\ known' \in {"none", "site", "portal"} /\ saw' = saw
        /\ doing' = "atPortal" => dns = "bound"
    BY <1>6 DEF Client, Ask, GiveUp, Expire, ServersOK
  <2> QED BY <2>1, <2>2 DEF ServersOK
<1>7. CASE DnsAnswers \/ UpstreamAnswers
  BY <1>7 DEF DnsAnswers, UpstreamAnswers, ServersOK, vars, servers
<1>8. CASE Connect
  <2>1. /\ UNCHANGED <<pc, dns, http, doing, known>>
        /\ saw' \in {"nothing", "site", "portal"} /\ lingers' \in BOOLEAN
    BY <1>8 DEF Connect, ServersOK, vars
  <2> QED BY <2>1 DEF ServersOK
<1>9. CASE UNCHANGED all
  BY <1>9 DEF all, vars, servers, client, ServersOK
<1> QED BY <1>1, <1>2, <1>3, <1>4, <1>5, <1>6, <1>7, <1>8, <1>9, <1>10
        DEF NextAll, Daemon

\* The main thread polls exactly as long as the threads of both servers are
\* there, the DNS server's alone one step longer, and a query waits only in the
\* socket of a server that is bound: a death loses it.
THEOREM ServersTheorem == SpecAll => []ServersOK
<1> QED BY ServersInit, ServersNext, PTL DEF SpecAll

(***************************************************************************)
(* Where a client gets between two polls.                                  *)
(***************************************************************************)
LEMMA GuidedStep ==
    ASSUME TypeOK, RulesMirrorLock, pc = "sleep", lapses = {}
    PROVE  /\ Ask => doing' \in {IF locked THEN "atPortal" ELSE "upstream", "lost"}
           /\ Connect /\ saw' = "portal" => locked
<1>1. \A r \in Rule : Redirected(r) <=> locked
  BY DEF RulesMirrorLock, Mirrors, Redirected, TypeOK
<1>2. "dnsUdp" \in Rule /\ "http" \in Rule
  BY DEF Rule
<1>3. ASSUME Ask
      PROVE  doing' \in {IF locked THEN "atPortal" ELSE "upstream", "lost"}
  BY <1>1, <1>2, <1>3 DEF Ask
<1>4. ASSUME Connect, saw' = "portal" PROVE locked
  BY <1>1, <1>2, <1>4 DEF Connect, Serves
<1> QED BY <1>3, <1>4

\* The sample of the last poll decides where a client gets until the next one,
\* whatever it remembers, however often the process has died and whatever the
\* sources do: the rules that mirror the sample are the only way to the portal,
\* and they cut the way to the station's network.
THEOREM GuideTheorem == SpecAll => SampleGuides
<1>1. TypeOK /\ RulesMirrorLock /\ [NextAll]_all =>
         [ pc = "sleep" /\ lapses = {} =>
               /\ Ask => doing' \in {IF locked THEN "atPortal" ELSE "upstream", "lost"}
               /\ Connect /\ saw' = "portal" => locked ]_all
  BY GuidedStep
<1>2. SpecAll => []TypeOK
  BY SupervisorTheorem, TypeCorrect, PTL
<1> QED BY <1>1, <1>2, MirrorAllTheorem, PTL DEF SpecAll, SampleGuides
=========================================================================
