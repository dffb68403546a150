-------------------------- MODULE FasterConfig --------------------------
(***************************************************************************)
(* The daemon and one client of its network: the main thread of Supervisor *)
(* with the two servers that it starts, and somebody who resolves a name,  *)
(* connects to the address and looks at what comes back, again and again.  *)
(* Whether a packet of the client reaches the daemon is decided by the     *)
(* rules that the main thread has installed; what DnsServer and Httpd do   *)
(* inside is in their own modules, and here a server either answers or is  *)
(* not there.                                                              *)
(*                                                                         *)
(* The three threads share no state, but they share a purpose: the DNS     *)
(* server gives a client an address that leads somewhere only through the  *)
(* rule "http" and the web server, and the client remembers that address   *)
(* for an hour, whatever the lock does meanwhile.                          *)
(***************************************************************************)
EXTENDS Supervisor

CONSTANT BindsMayFail   \* a port may be taken, an address not there yet

ASSUME BindAssumption == BindsMayFail \in BOOLEAN

VARIABLES
    dns,      \* the DNS server's socket: "off", "bound" or "deaf"
    http,     \* the web server: "off", "starting", "listening" or "failed"
    lingers,  \* the kernel keeps a closed connection of the web server's port
    doing,    \* the client: "idle", or where its query has gone
    known,    \* the address the client remembers: "none", "site", "portal"
    saw       \* what its last connection ended on: "nothing", "site", "portal"

servers == <<dns, http, lingers>>
client  == <<doing, known, saw>>
all     == <<vars, servers, client>>

InitAll ==
    /\ Init
    /\ dns = "off" /\ http = "off" /\ lingers = FALSE
    /\ doing = "idle" /\ known = "none" /\ saw = "nothing"

(***************************************************************************)
(* The servers.                                                            *)
(***************************************************************************)
\* A bind that fails is only logged; the thread then receives nothing.
InitDnsServer == dns' \in {"bound"} \cup (IF BindsMayFail THEN {"deaf"} ELSE {})

\* run() binds the DNS server's port itself, and creates its thread.
StartServers ==
    /\ SetUp
    /\ InitDnsServer
    /\ UNCHANGED <<http, lingers, client>>

\* Mutant: a thread that cannot be created is reported, and the polls begin.
StartPolls_Unserved ==
    /\ BeginPolls
    /\ http' \in {"starting", "off"}
    /\ UNCHANGED <<dns, lingers, client>>

\* The web server's thread is created, and the polls begin.
StartPolls ==
    /\ BeginPolls
    /\ http' = "starting"
    /\ UNCHANGED <<dns, lingers, client>>

\* httpdCreate sets no option: bind fails as long as the kernel keeps a
\* connection that the web server of the last process has closed.  start()
\* returns, its thread ends, and nobody looks.
CreateWebServer ==
    /\ http = "starting"
    /\ http' \in (IF lingers THEN {} ELSE {"listening"}) \cup
                 (IF lingers \/ BindsMayFail THEN {"failed"} ELSE {})

StartWebServer ==
    /\ CreateWebServer
    /\ UNCHANGED <<vars, dns, lingers, client>>

\* The end of the process takes along what servers there are, the DNS server
\* alone when the second thread cannot be created, and the queries that wait in
\* its socket.
Perish ==
    /\ Crash \/ SetUpFails
    /\ dns' = "off" /\ http' = "off"
    /\ doing' = IF doing = "atPortal" THEN "lost" ELSE doing
    /\ UNCHANGED <<lingers, known, saw>>

\* External: a minute after the last connection was closed.
LingeringEnds ==
    /\ lingers /\ lingers' = FALSE
    /\ UNCHANGED <<vars, dns, http, client>>

(***************************************************************************)
(* The client (external) and the way of its packets.                       *)
(***************************************************************************)
\* The rules of iptable_redirect_dns and iptable_redirect_http.
Redirected(rule) == table.copies[rule] > 0

\* A query to port 53.  Without the rule it goes to the station's network.
Ask ==
    /\ doing = "idle" /\ known = "none"
    /\ doing' = IF Redirected("dnsUdp")
                THEN IF dns = "bound" THEN "atPortal" ELSE "lost"
                ELSE IF address THEN "upstream" ELSE "lost"
    /\ UNCHANGED <<vars, servers, known, saw>>

\* prepare_dns_reply_a: the portal's address, good for an hour.
DnsAnswers ==
    /\ doing = "atPortal" /\ doing' = "idle"
    /\ known' = "portal"
    /\ UNCHANGED <<vars, servers, saw>>

UpstreamAnswers ==
    /\ doing = "upstream" /\ doing' = "idle"
    /\ known' = "site"
    /\ UNCHANGED <<vars, servers, saw>>

\* No answer in time: the query, or the answer, is lost.
GiveUp ==
    /\ doing # "idle" /\ doing' = "idle"
    /\ UNCHANGED <<vars, servers, known, saw>>

\* The portal's address (DnsIP) is nobody's: only the rule "http" brings a
\* connection to it to the web server, whose answer is the redirect.
Serves == Redirected("http") /\ http = "listening"

Connect ==
    /\ doing = "idle" /\ known # "none"
    /\ saw' = IF known = "site" /\ address THEN "site"
              ELSE IF known = "portal" /\ Serves THEN "portal"
              ELSE "nothing"
    /\ lingers' = (lingers \/ saw' = "portal")
    /\ UNCHANGED <<vars, dns, http, doing, known>>

\* Mutant: the portal's address is good for ever.
Remembered_Portal == {"site"}

\* The addresses whose time to live ends.
Remembered == {"site", "portal"}

Expire ==
    /\ doing = "idle" /\ known \in Remembered
    /\ known' = "none"
    /\ UNCHANGED <<vars, servers, doing, saw>>

(***************************************************************************)
(* The specification.  Fairness: the threads are scheduled; the client     *)
(* tries for ever, remembers nothing for ever, and its network loses some  *)
(* packets but not all.                                                    *)
(***************************************************************************)
Alone == \/ Start \/ RunCommand \/ Poll \/ Environment
         \/ CommandFails \/ CheckLockFails \/ CheckNetworkFails

Daemon == \/ Alone /\ UNCHANGED <<servers, client>>
          \/ StartServers \/ StartPolls
          \/ StartWebServer

Client == Ask \/ GiveUp \/ Expire

NextAll == \/ Daemon \/ Perish \/ LingeringEnds
           \/ Client \/ DnsAnswers \/ UpstreamAnswers \/ Connect

SpecAll == InitAll /\ [][NextAll]_all

FairAll ==
    /\ SpecAll
    /\ WF_all(\/ RunCommand /\ UNCHANGED <<servers, client>>
              \/ Poll /\ UNCHANGED <<servers, client>>
              \/ StartServers \/ StartPolls)
    /\ WF_all(StartWebServer)
    /\ WF_all(Ask) /\ WF_all(GiveUp) /\ WF_all(Expire)
    /\ SF_all(DnsAnswers) /\ SF_all(UpstreamAnswers) /\ SF_all(Connect)

(***************************************************************************)
(* Properties.                                                             *)
(***************************************************************************)
\* The types, and whose life the servers share: run() polls, and installs rules
\* that lead to them, only with the threads of both; the DNS server is there one
\* step earlier; and a query waits only in the socket of one that is there.
ServersOK ==
    /\ dns \in {"off", "bound", "deaf"}
    /\ http \in {"off", "starting", "listening", "failed"}
    /\ lingers \in BOOLEAN
    /\ doing \in {"idle", "atPortal", "upstream", "lost"}
    /\ known \in {"none", "site", "portal"}
    /\ saw \in {"nothing", "site", "portal"}
    /\ pc \in {"threads"} \cup Polling <=> dns # "off"
    /\ pc \in Polling <=> http # "off"
    /\ doing = "atPortal" => dns = "bound"

\* Between two polls the sample of the last one decides where a client gets:
\* while the portal is off no query and no connection ends up there, and while
\* it is on no query gets away to the station's network.
SampleGuides ==
    [][ pc = "sleep" /\ lapses = {} =>
            /\ Ask => doing' \in {IF locked THEN "atPortal" ELSE "upstream", "lost"}
            /\ Connect /\ saw' = "portal" => locked ]_all

\* The purpose of the daemon: from some time on every connection of a client
\* ends on the portal, if the portal must be on and both servers are there,
\* and on the site that the client has asked for, if it must be off; whatever
\* the client remembers from before, and whatever polls, restarts and half
\* installed rules there have been, a last value that one poll only has read
\* excepted (Steady).
Reached(l, a) ==
    <>[](Steady(l, a) /\ (l \/ ~a => dns = "bound" /\ http = "listening"))
        => <>[](saw = IF l \/ ~a THEN "portal" ELSE "site")
ClientFollows == \A l, a \in BOOLEAN : Reached(l, a)

\* "Port the webserver will run on" (httpd.h:221): a daemon whose DNS server
\* sends the clients to that port also brings them to the portal.
PortalServed == <>[](Steady(TRUE, TRUE) /\ dns = "bound") => <>[](saw = "portal")
=========================================================================
