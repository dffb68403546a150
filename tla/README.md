# FasterConfig in TLA+

FasterConfig is the captive portal of a small Wi-Fi device. While the device has
to be configured, every DNS query of a client is answered with the device's own
address and every HTTP request ends on a page of the device; when it is
configured, the traffic must flow as if the daemon were not there. These modules
model the daemon, TLC checks them on small instances, and TLAPS proves the
theorems named below for every value of the constants.

## The system

| component | state | operations | talks to |
|---|---|---|---|
| Application (`application.cpp`) | `isRedirected`, `isDestroied`, `locked` | `run` (poll once a second), `islocked`, `getNetworkStatus`, `getConfig` | starts the two server threads; calls Iptable |
| Iptable (`iptable.cpp`) | none of its own | constructor, `iptable_destroy_rule`, `iptabel_set_NewChain`, `iptable_redirect_dns`, `iptable_redirect_http` | one child process per command, waits for it, drops its return code |
| nat table (kernel) | chains, jumps, rules | `iptables -N -A -I -F -X` | outlives the daemon |
| DnsServer (`dnsserver.cpp`) | receive buffer, `name`, `clientAddress`, `t_type`, `t_class` | `init`, `run` (receive, decode, answer), five `prepare_dns_reply_*` | UDP clients, on a thread of its own |
| Httpd (`httpd.cpp`) | content tree, per-request records, static tables | accept loop, a worker thread per connection: read, parse, find content, answer | TCP clients, on a thread of its own |
| CDNSLookup (`DNSLookup.cpp`) | socket, transaction id, packet | send a query, wait for the reply | a DNS server (not part of the daemon) |
| Message, Query, Response | a decoded message | encode, decode | Resolver; linked, not used by `DnsServer::run` |
| Resolver | list of records | `process` (a query into a response), read a hosts file, find | Query, Response; linked, not used by `DnsServer::run` |
| Logger, Exception, `main` | a log file | print | all |

What is hard here:

* **Application and Iptable.** The value to follow is sampled in two reads while
  both sources change at any time. Two flags remember which program ran last, and
  for one poll after a change both are set; a value that is gone again by then is
  not followed. Commands and reads fail silently. The process may die between two
  commands; the kernel's table survives it and the flags do not. Correct means:
  the rules installed are those the value polled asks for, each once; chains are
  never lost; a restart starts from a clean table.
* **DnsServer.** One buffer serves request and reply, a datagram overwrites only
  its own length of it, and the results of `recvfrom` and `dn_expand` are not
  looked at. Correct means: a reply belongs to the datagram it answers, its
  counts and lengths describe its bytes, nobody gets more replies than it asked
  for.
* **Httpd.** An accepting thread and detached workers share the descriptors of
  the process, its memory and a decoder table that is marked ready before it is
  filled; a number that one worker closes is given to the next client at once;
  reads time out; accepts, threads and the opening of the page fail. Correct
  means: a request only ever touches its own client's connection, every
  connection is closed, every client gets its own answer, whole or not at all.
* **A request.** Its target is cleaned in place by three passes that each may
  spell what an earlier one removed, and with the query still attached; names,
  values, escapes and credentials are taken apart by loops that look ahead and
  write where they read. Correct means: the path is the one named, the variables
  are those written, the page says what the server says, the redirect carries the
  address asked for and gives it back.
* **The daemon as a whole.** Three threads share no variable, but a client is
  only served when the rules, the DNS server and the web server agree, and it
  remembers for an hour what the first of them has told it. Correct means: when
  the lock is steady, all of a client's connections end where it asks for.
* **CDNSLookup.** It waits without a timeout, compares nothing but the flags and
  an id that all of its requests share, and follows pointers through a message.
  Correct means: it finds what the reply says, and the reply is to its request.
* **Message, Query, Response.** Encoder and decoder each have errors of a byte
  that cancel out. Correct means: what they write is what a resolver reads.

`PROJECT.json` lists these under `hazards`, each at its line, with the
properties that are about it.

## Modules

| module | models |
|---|---|
| `NatTable` | external: the kernel's nat table and what one iptables command does to it |
| `Iptable` | the five programs of `iptable.cpp` as sequences of commands; instantiates `NatTable` |
| `Supervisor` | `Application::run` with `islocked` and `getNetworkStatus`, the process's starts and deaths, and the environment; extends `Iptable` |
| `PortalSwitch` | the abstract specification of `Supervisor` |
| `FasterConfig` | the daemon: `Supervisor` with the creation of both servers, and a client; extends `Supervisor` |
| `DnsName` | names on the wire and in memory: `dn_expand` (external), `encode_domain` |
| `DnsReply` | the bytes of the records it sends, and the resolver (external) that reads them; extends `DnsName` |
| `DnsServer` | `DnsServer::run`; extends `DnsReply` |
| `HttpServer` | the accept loop and the workers of `Httpd`, the process's end and restart, the clients |
| `Sessions` | the abstract specification of `HttpServer` |
| `CString` | external: texts with an end, and what the C library finds in them |
| `HttpText` | the conversions of `httpd.cpp`: paths, escapes, variables, credentials; extends `CString` |
| `HttpRequest` | what a worker makes of one request; extends `HttpText` |
| `DnsCodec` | the encoders and decoders of Query, Message, Response and `CDNSLookup`; extends `CString` |
| `DnsClient` | a look-up of `CDNSLookup`, three servers and the network; extends `DnsCodec` |
| `SupervisorProofs` | theorems about `Supervisor`, and that it implements `PortalSwitch` |
| `FasterConfigProofs` | that the daemon implements `Supervisor`; its servers, and where a client gets |
| `Recursion` | induction over numbers and sequences, and recursive functions, as lemmas that the provers can use |
| `TextProofs` | lemmas about texts and what `CString` finds in them, splits and joins; extends `Recursion` |
| `DnsServerProofs` | theorems about `DnsServer` and its names |
| `DnsClientProofs` | theorems about `DnsCodec` and `DnsClient`: what the codec's replies are, what look-ups find |
| `HttpServerProofs` | theorems about `HttpServer`, and that it implements `Sessions` |
| `HttpRequestProofs` | theorems about the conversions of `HttpText` and about `HttpRequest` |
| `MCSupervisor`, `MCFasterConfig`, `MCDnsServer`, `MCHttpServer`, `MCHttpRequest`, `MCDnsClient` | instances for TLC |

### NatTable, Iptable, Supervisor

The table holds which custom chains exist, how many jumps lead to each and how
many copies of each rule are installed. `-N` on an existing chain, `-A` without
the chain and `-X` on a chain that has rules or is jumped to fail and change
nothing. The order of rules inside a chain is abstracted: the daemon's rules
match disjoint packets. The copies of a rule are counted up to `MaxCopies`, which
stands for that many or more: no step and no property tells two copies from more. The
jumps that `-A` appends are counted without a bound; the number of restarts is
what keeps them finite under TLC.

`pc` is the position of the main thread. One action is what others can see of
it: reading the lock file (`CheckLock`, lines 94 and 196-203; `CheckLockFails`, a
`glob` that fails, which the code reads as "no file"), reading the interfaces
(`CheckNetwork`, lines 94 and 204-233; skipped when the file is there;
`CheckNetworkFails`, a failing `getifaddrs`, read as "no address"), the decision
(`Rest`, `BeginDestroy`, `BeginRedirect`, lines 97-116, each with `Reconcile`, lines
97-105), one iptables command (`RunCommand`, or `CommandFails`, after which the
program goes on), `Wake`. A program's commands are run one per step, so a crash or
a change of the environment falls between any two of them. `Start` is a new process
(the constructor's two programs follow), `SetUp` the flags, the DNS server's socket
and its thread (lines 70-84), `BeginPolls` the web server's thread. `SetUpFails` is a
`pthread_create` that fails, the first or the second: in the second case `run()`
returns with the DNS server's thread running, and `main` ends both. `Crash` is a
death anywhere. The environment changes the lock file and the address at any time,
any number of times.

What the flags remember is not enough to follow every sequence of samples, and the
history variables say where that ends. `heard` is the value that the last poll has
read and `young` that it was the first poll to read it. A poll that reads another
value while the last one is young is a `Pulse`: lines 97-105 then take back the flag
of the program that has just run, lines 108-116 start nothing because the other flag
is still set, and from here on the flags do not say what is installed. If the value
stays, no program ever runs again: **a lock held for one poll leaves the rules of the
portal installed for good, and one that is released for one poll leaves them away.**
A lock after the first of these runs the redirect program a second time. Only the next
destroy program ends either, because it removes rules whether or not they are there.

`lapses` says which of three things still has an effect: a rule command that has
failed (`"command"`) or a pulse (`"pulse"`), both until the next destroy program
begins, and a command of the constructor that has failed (`"build"`), until the next
start. A sample that fails is no lapse: the poll acts on what it has read, and the
properties are about that. `lastRun` is the program that `run` has started last;
`faults` and `crashes` count.

### PortalSwitch

A switch with a wanted position and rules. It takes a new position only when the
last is carried out, installs a rule only while the portal is wanted and the
rule is absent, removes rules only while it is not wanted, and may be abandoned
at any time, which leaves the rules behind. A lapse excuses it (`excused`): it may
then leave a position that is not carried out, and install a rule twice, but never
remove a rule that is wanted nor install one that is not. `Recover`, possible only
when the portal is not wanted, ends the excuse. `Supervisor` maps `want` to "polling
and locked", `copies` to the table's and `excused` to "there are lapses".

### FasterConfig

`Supervisor`'s actions and three more pieces of state: the DNS server's socket
(`dns`), the web server (`http`), and whether the kernel still keeps a connection
that a web server of this port has closed (`lingers`). `StartServers` is `SetUp`
with `DnsServer::init`, whose failed bind is only logged: the thread then receives
nothing (`deaf`). `StartPolls` is `BeginPolls` with the web server's thread.
`CreateWebServer` is `httpdCreate` (157-198): no option is set
before `bind`, so it fails as long as `lingers`, and may fail for other reasons
(`BindsMayFail`: the address is that of an interface). `start()` then returns, its
thread ends (`failed`) and nothing tries again. `Perish`, a death or a thread that
cannot be created, takes along what servers there are.

The client (external) resolves a name, connects to the address and remembers it
until it expires. Its query reaches the daemon if the rule for port 53 is
there; otherwise the station's network answers, if it has an address. The
portal's address, which the DNS server's replies carry, belongs to nobody: the
rule for port 80 alone makes a connection to it end at the web server. What the
servers do inside is in their own modules. `SampleGuides` is the promise between
two polls: which way a query goes and where a connection ends is what the last
sample says, unless a lapse has an effect. Rules of connections that are open
already (conntrack) are not modelled: every connection is new.

### DnsName, DnsReply, DnsServer

An iteration of the loop is one action: no other thread touches its variables.
A datagram is a record whose domain says how much of a message it holds
(nothing; the id; the header; the name; the type; all), and `Overlay` puts it
over the buffer. `Behind` reads type and class behind a name that could be
decoded, from the old buffer where the datagram ends too early. `Shifted` reads
them where `name_len = -1` makes the code read, one byte before the name: a
label's letters give no class IN, the zero octet of the root followed by type A
does, and bytes that are no name give anything. `Sent` is the buffer after a
reply, which overwrites the request. `ReceiveFails` is a `recvfrom` that returns
-1: the iteration goes on with the old buffer and address. Stack memory starts
with any contents. `budget` bounds the datagrams that come.

`encode_domain` and `dn_expand` are modelled by what they do to the characters of a
label: `dn_expand` writes a backslash before a dot, a backslash and `" ; ( ) @ $`
(`Special`), and a backslash and three digits for every character that is not printed
as it is, a blank for instance (the constant `Decimal` has the digits of each, from no
class in the run's names to any in the theorems). The escape is that of the glibc and
uClibc resolver. `encode_domain` knows no escape, so such a label comes back changed,
and an escaped dot ends it. `Plain` are the names in which there is none.

`DnsReply` has the bytes of a reply. `prepare_dns_reply_*` write fields at offsets
counted by hand (`data + 21 + 15`) into a cleared buffer of a length of their own, and
each is a list of such writes here. `Octets` is the reply from its header on, with the
name as `encode_domain` writes it. `Reads` is a resolver after RFC 1035, which knows
none of these offsets: it walks from length to length, over the name in the question
to the first record, over a name or a pointer and the length of the data to the
next, and looks into the data of MX, SRV, SOA and A. The letters of labels, the id
and the type asked for steer no reader and are constant. The root, for which
`encode_domain` writes two zeros, so that a resolver begins one byte early, and the
replies to WINS queries, whose header announces no record, are outside `ReplyParses`.

### HttpServer

`pc[r]` says where a request is: with the accepting thread (`accepted`, between
`httpdGetConnection` and `pthread_create`), at a label of its worker, or `free`.
An action is a step that another thread or a client can see:

* `Accept`, `AcceptFails` (lines 292-350): `accept` is not checked, so at the
  descriptor limit the loop makes requests without a descriptor (`sock = None`,
  -1 in the code). The descriptors of the page and of `/proc/net/arp`, which other
  workers have for a moment (`Opening`), count against the limit too. Without memory
  it does nothing.
* `Spawn`, `SpawnFails` (83-154): nobody ends a request without a worker.
* `ReadRequestLine`, `ReadAuthorization`, `ReadEnds` (768-919, 1072-1096): all
  that ends the reading of a request (the empty line, the end of the stream, an
  error, ten seconds without a byte) looks the same to the code and is one
  action, which may come at any time because a client may be slow. Other headers
  change nothing that others see.
* `TestFirst`, `FillTable`, `Decode` (1119-1168): the shared table.
* `Route`, `OpenPage`, `OpenPageFails`, `Write` (199-269, 413-545, 1326-1399): the
  page is read first, with a descriptor for the moment, also for a redirect: the
  status line and the Location header, which need no page, are only sent when it
  could be opened. A refused request is given an error and then, in a write of its
  own, the method that is none; an answer is its status line (with the Location of a
  redirect), its other headers and its text. Between these parts a worker may be
  overtaken, the client may leave and the process may die; the calls of `write` within
  one of them (lines 513-538) are taken together.
* `Close`, `Free` (740-766); in between the descriptor may be taken again.
* `Die`, `Restart`: a write to a client that has gone raises SIGPIPE, which
  nothing ignores; `thread_httpd` has no `return`; a failed `pthread_create` is
  followed by the detaching of an id that was never written. Each may end the
  process, or not.

A path is one of: the page's, another one with a slash, one without. The code
passes `_httpd_findContentDir` the rest of the path from its last slash (line
220: `cp`, not `dirName`), which it has just cut off, so it always finds the
root. Hence a path ends on the page exactly when it ends in `/fasterconfig`, in
whatever directory, and the entry `root` that line 77 registers under
`/fasterconfig` is never found; `strtok` never has anything to take apart after
the start, so its static position is not shared state here.

History variables: `serves` (the client a request was accepted for), `asked`,
`unserved`, `misread`. A history of the first line that was read is enough:
what a client sends later can only be a header.

### Sessions

Every client has a session of its own, and nothing that happens in another
touches it: it waits, is accepted, asks once, is given the parts of its answer in
their order or is declined before the first, and its session ends when all has
been said or nobody listens. The only step all sessions share is the end of the
process. There are no workers, descriptors or requests in it. `HttpServer` maps
its history variables to it by name.

### CString, HttpText, HttpRequest

`HttpText` has an operator for each function that converts a text. A text is a
sequence of character codes; a loop of the code over a text is a recursive
function of the number of characters read, and its body an operator of its own:
`SlashStep`, `DotStep` and `ClimbStep` are the three passes of `_httpd_sanitiseUrl`,
`UnescapeStep` that of `_httpd_unescape` (a percent sign at the end reads no digits
and leaves what was there), `StoreStep` that of `_httpd_storeData` (the buffer `var`
is cleared once for the whole query). Where the code looks ahead, the state counts
how many characters have been jumped over. `Decode` works on sextets; the table
that makes them of characters is `HttpServer`'s matter.

`HttpRequest` is a worker's own state: a step is a line read (`ReadRequestLine`,
`RejectMethod`, `ReadHost`, `ReadAuthorization`; 784-868), the end of the reading
(`EndHeaders`, 871-882, which may come at any time, before the first line too) and
one of the three ends of `httpdProcessRequest`. `LastElement` stands for the
look-up of the directory and the entry, as explained under `HttpServer`. The text
of the page around its variables, and of the redirect around the address, is left
out; `Room` is what the headers have left for the address, which is cut off there
(`httpdAddHeader`, 1366-1375).

Targets are shorter than `HTTP_MAX_URL` and credentials than their buffer. That
a request line has no target, and what lies behind its end in that case, is not
modelled.

### DnsCodec, DnsClient

Messages are sequences of bytes here, because the errors are errors of bytes.
`decode`, `code` and what they call are Query, Message and Response: `decode_qname`
does not move the position of its caller, `code_domain` writes a label of length
zero for the text behind the last dot and then the end of the name, and `code`
writes the words behind it one byte apart from where they belong. `decode_qname` also
copies the labels to `binaryName`, which nothing reads; it copies before it makes room
(`query.cpp:129-130`), so that from the second label on it writes behind the end of the
heap block. What that destroys is outside the model, which stands for the runs in which
it destroys nothing that is read. `Request`,
`Accepted`, `DecodeDotStr`, `Questions`, `Answers` are `CDNSLookup`: names end in a
zero or in a pointer, a name for which there is no room ends the parsing, the
dot behind the last label gives way to the end of the text. The loops over the
labels of a name are recursive functions of the number of turns, with an operator
for one turn: `LabelRead` in the codec, `LabelDecoded` in the client, where `JumpPos`
is the place that a pointer leads to and `Counted` the length of the name, which
grows up to the first pointer only. `SizeAssumption` keeps requests and replies within
the sizes of RFC 1035, and with them within `DNS_PACKET_MAX_SIZE` and the buffer of
1024 bytes: a header, a name of at most 255 bytes and four more for a request, 512
together with the answers.

`DnsClient` is a process that looks names up one after the other. Its requests go
to a server of the codec (`CodecAnswers`, with `Resolver::process`), to the daemon
(`DaemonAnswers`) or to any other (`OtherAnswers`, with the records of `Found` and
the owners of `Owner`). The network loses and duplicates datagrams, and delivers
them in any order, in a later look-up too. `Receive` puts a datagram over the
buffer, passes over what is not accepted and returns with what it finds.

## Runs

| run | question | result |
|---|---|---|
| `supervisor` | are the rules right after every poll, the chains there, restarts clean, and no program run twice, except after a value of one poll, with faults and crashes anywhere? Does `Supervisor` implement `PortalSwitch`, and is `IInv` invariant? | holds |
| `torn_sample` | does each program run only once in a row (`OnlyOnce`), when the condition never changes and only its two sources take turns (`SteadySpec`)? | violated |
| `portal` | do the servers live as long as the polls, does the last sample decide where a client gets, do the rules end where a steady lock asks for them, and do a client's connections? | holds |
| `portal_served` | the last, for a daemon whose binds fail for no reason but its own past | violated |
| `dns` | replies to all types of query against two clients, short and broken datagrams, failing calls | holds |
| `dns_stale_name` | is the name in a reply the one in the datagram? | violated |
| `http` | do requests keep to their own client's descriptor, does nothing leak, does each client have a session of its own (`ImplementsSessions`)? | holds |
| `http_ends` | is every connection ended, when there are more clients than descriptors? | holds |
| `http_table` | is the decoder's table filled before it is used? | violated |
| `request` | are path, variables, page, redirect and credentials those of the request? | holds |
| `request_climbs` | does each /../ take away a path element? | violated |
| `lookup` | does a look-up find what is said, take its own reply, and end? Is the codec's reply one that RFC 1035 knows? | holds |

Bounds. `MaxFaults = 2` and `MaxCrashes = 2` allow a fault in one program and
another in the program that should repair it, and a death during the recovery from
a death; the theorems cover every number. `MaxCopies = 2` tells none, one and more
apart. The environment is not bounded: a pulse may come at any poll. `portal` has no
faults, which `supervisor` has; its one death, anywhere, is enough for a restart with
rules and a connection left behind. `MaxDatagrams = 2` for `dns` is a
datagram that leaves something behind and one that meets it; because the buffer
may start with any contents and the clients share one buffer, a longer history
adds no new kind of leftover. Two clients suffice to answer the wrong one, two
ids to answer with the wrong one. The names are the root, a plain name of two
labels and a label with a dot and a blank in it, one for each case of the conversions. The
two clients are symmetric in every checked invariant.

`http` has two clients that connect again any number of times, two requests and
two descriptors: enough for one worker to close while the other's client is
accepted, for two in the decoder at once, and for the page to find no descriptor.
`http_ends` has one descriptor, so that accepts fail; there the page is never
opened, which does not matter to its property. No sequence in the model is
bounded: a client's headers are read one at a time and not stored.

`request` tries every path of up to four elements out of two names, one dot, two
dots and the empty one: three are needed for a sequence that a pass pieces
together, four for one between others. `request_climbs` has five. Queries are all
texts of up to four characters out of `=`, `&` and two letters, which are also the
names of two variables of the page; values are all texts of up to three out of a
percent sign, two digits, a plus sign and a colon. `Room = 32` stands for the
headers' 1024 and is passed by some of the addresses. Credentials have every
length modulo three.

`lookup` has two look-ups, one duplicate and one loss: enough for a late reply to
meet another look-up. `DotStrSize = 6` stands for the 128 characters that a name
may have in the client, so that names, aliases and aliases that a pointer
continues are found on both sides of it.

Fairness. `FairSpec` assumes weak fairness of `Run`, the steps of the main thread
that do not fail: the scheduler runs it, `waitpid` returns because iptables
ends, `sleep(1)` ends. Nothing is assumed of the process's start, its death, the
faults or the environment; `Follows` is about behaviours in which from some time on the
process stays up, the condition is steady and no lapse has an effect. It does not say
that the daemon follows every steady condition: where the last value that was read
before was a pulse, it does not, and the lapse stays for ever.

`FairAll` of `FasterConfig` assumes the same of the main thread and weak fairness of
the web server's thread. Of the client it assumes that it goes on: it asks, gives
up and forgets (weak fairness), and, because a give-up may always come first,
that an answer which is possible again and again is not always lost and that it
connects again and again (strong fairness). Nothing is assumed of deaths,
restarts, the lock or the kernel's time-out. `ClientFollows` asks for a lock that
is steady from some time on, and, where the portal is wanted, for two servers
that are there. `PortalServed` asks for the DNS server only.

`FairSpec` of `DnsClient` is weak fairness of the servers and of the client's
receiving. It is written with the conditions under which they are enabled, which
are plain, instead of `WF_`: evaluating the actions for `ENABLED` would encode every
message once more. The network is not fair; `LookupEnds` excuses a look-up once a
datagram has been lost.

`FairSpec` of `HttpServer` assumes weak fairness of the accepting thread, of each
`pthread_create` that succeeds and of each worker, and strong fairness of
`ReadEnds`: a read waits ten seconds at most, and no client sends header lines for
ever. The code does not enforce the second; a client that does keeps its worker.
`http_ends` has no failing threads (`MayFail = FALSE`): a request that `SpawnFails`
has lost is never ended, which `NoDescriptorLeaks` says instead. That a client
comes or leaves, or that the process starts, is not assumed.

The main loop and the DNS loop never stop and neither do their models: deadlock
is checked in their runs. The web server may: when all descriptors are with lost
requests and the clients have left, nothing happens any more, so the runs of
`HttpServer` do not check deadlock. A request ends, and so do the look-ups of the
bound: the runs of `HttpRequest` and `DnsClient` do not check it either.

## What the violated runs show

* `torn_sample` (`application.cpp:94`). `islocked()` is read before
  `getNetworkStatus()`. If the lock file appears and the interface gets its
  address in between, the poll reads "off" although the condition was on all
  the time. That is a pulse of the program's own making: the flag taken back (line
  98) is that of the program that has just run, the destroy program is skipped, and
  the next poll runs the redirect program a second time. Each source changes once, so
  that slow sources are no help.
* `portal_served` (`httpd.cpp:190`). The portal serves a client and closes the
  connection; the process dies and comes back within the minute for which the
  kernel keeps it; `bind` fails, `start()` returns, and from then on the DNS server
  sends clients to a port where nobody listens.
* `dns_stale_name` (`dnsserver.cpp:101`). A failure of `dn_expand` is not noticed.
* `http_table` (`httpd.cpp:1126`). `first` is taken back before the table is
  filled; the second worker decodes with an empty table.
* `request_climbs` (`httpd.cpp:978`). Where the first `/../` has gone back to the
  last slash, the next one finds no other slash to go back to: `/a/a/../../` becomes
  `/a/`.

## What is proved

In `SupervisorProofs`, from `ParameterAssumption` (the bounds are naturals):

* `TypeCorrect`: `TypeOK`, for every environment.
* `ChainsTheorem`: `ChainsStayHooked`, for every environment. The invariant is
  `ChainsInv`: how far the constructor's commands have brought the chains. No
  command of a polling process takes a chain away, because `Hooked` gives every
  chain a jump and `-X` respects jumps.
* `RestartTheorem`: `RestartCleans`, for every environment, from `CleanInv`: the
  k-th command of the destroy program has emptied the first k chains, and no
  later command of it or of the constructor fills one.
* `MirrorTheorem` and `OnceTheorem`: `RulesMirrorLock` and `SameRuleOnce`, for every
  environment, however many faults and deaths.

The last two need the inductive invariant `IInv`. Neither property is inductive:
both depend on what the flags mean. `FlagsInv` says it in terms of the samples. The
flags know the value `heard` (`Settled`), or both are set (`Turning`) and the value
is young. In `Turning` they do not say which program ran last; as long as there was
no pulse, a young value is always turning, and `lastRun` is the program of `heard`. A
pulse breaks the second half, and the first half is what is kept through it, so that
the next destroy program finds the flags in a state of which all is known again.
`RulesInv` then says the rules are those of `heard`, command by command, and
`StepInv` that no program is left before its last.

`InductiveTheorem` states `IInv` itself, which the run `supervisor` checks too.

`SwitchTheorem`: every step of `Supervisor` is a step of `PortalSwitch` or leaves its
variables alone, for every environment and with faults and deaths. It uses `IInv`
for the two hard steps: without a lapse a new value is only decided on when the
rules are in the old position, and a rule is only added when it is not there.

None of these assumes anything of how long the sources keep a value. What takes the
place of such an assumption is the lapse: the theorems say nothing of the rules from
a pulse to the next destroy program, as the code promises nothing there.

In `FasterConfigProofs`, from the same assumption: `SupervisorTheorem`, that every
step of the daemon with its servers and a client is one of `Supervisor` or a
stutter. It carries over what is proved there (`MirrorAllTheorem`,
`SwitchAllTheorem`). `ServersTheorem` (`ServersOK`, inductive as it stands) says how
long the servers live, and `GuideTheorem` (`SampleGuides`) what the rules are for:
because they mirror the sample, no query and no connection takes the way that the
sample forbids until the next poll, unless a lapse has an effect.

The model's conversions are recursive functions, and what one of them computes
for every text needs induction. `Recursion` has it as lemmas in which the property
is a set and the step a function, because the provers cannot be given an operator:
`SetInduction` over an interval, from the least element of a set of numbers
(`LeastNatural`, from the library's `WFMin`), `SeqInduction` over sequences,
`RecursionExists` (there is a function that takes the steps) and `SameStepsAgree`
(there is only one). For each loop of the model a lemma then gives the sequence of
its states (`SlashRuns`, `DotRuns`, `UnescapeRuns`, `StoreRuns`, `EncodeSpells` ...), and
an invariant of the states, kept by a step, gives the result, much as a loop
invariant of the code would. `TextProofs` has done this for the operators that both
`HttpText` and `DnsCodec` use (`SplitAppend`, `ConcatAppend`, `WithoutAppend`: one
character or part more), and for the first place of a character (`UntilIs`, `Parted`,
`Rejoined`).

In `DnsServerProofs`, from `DnsAssumption`:

* `OnceReplyTheorem` (`AtMostOneReply`). The invariant is `OnceInv`: a query that lies
  in the buffer has not been answered, so the client whose address is kept has
  fewer replies than datagrams (`PendingInv`). It is kept because the reply is built
  over the request in the same buffer, so that what a `recvfrom` that fails leaves
  there is no query; the mutant `Sent_Apart`, a reply built elsewhere, breaks it.
* `TypeTheorem` (`TypeOK`), with `ServerInv`: that the counters stay in their range
  depends on the number of datagrams still to come (`BudgetInv`) and on `OnceInv`.
* `AnsweredTheorem` (`WellFormedAnswered`). A complete query covers all of the
  buffer that is read, so nothing earlier is left in it, and its name comes back:
  `RoundTrip` says that `encode_domain` takes apart what `dn_expand` has joined, for
  all labels of any number and length in which `dn_expand` has nothing to escape
  (`Plain`). Of other names nothing is claimed.
* `ParsesTheorem` (`ReplyParses`): the bytes of a reply are read to their last one for
  every name, not only for the two lengths of the run. It needs no induction over
  steps, only `TypeOK`, which says that the name in a reply is what `encode_domain`
  makes of some text (`ReadableSizes`). `LaidShows`: writes that do not overlap are all
  found where they were put, so each record has its lengths and pointers at its
  offsets (`AddressLaid`, `MailLaid`, `ServiceLaid`, `AuthorityLaid`). `NameMarks`: each
  length in the encoded name leads to the next and the last to the zero, so that
  `NameEnd` ends there (`EndName`). `Assembled` puts header, question and records
  together, and `AddressReads` and its fellows walk over the records.

In `HttpServerProofs`, from `HttpAssumption` (`None` is no member of the sets):
`TypeTheorem`, and `OwnDescriptorTheorem`, that is `OwnDescriptor`. The latter is not
inductive: that a newly accepted client is served by nobody else depends on the
queue and the connections. `DescriptorInv` adds that a client who waits is queued
once (`QueueInv`), that a descriptor is open for a client whose connection is, and
no other descriptor for the same (`LinkInv`), and that a free request has none
(`FreeInv`).

There too, from the same assumption: `LeakTheorem` (`NoDescriptorLeaks`),
`AnswerTheorem` (`AnswerFits`), `InFullTheorem` (`AnsweredInFull`) and `SessionTheorem`
(`ImplementsSessions`), for any number of clients, workers and descriptors. What a
client has received depends on where its worker is, so the invariant, `AnswerInv`,
ties the two together: `Written` is what has been written when a worker is at a
label, `Leading` the first lines that can have led it there, and `WorkInv` says that
the client of a request which holds a descriptor has received exactly that,
unless it has gone. `FreshInv` starts it: a client who waits has received nothing,
and the memory of a request is cleared before it is used again. `OwnDescriptor` is
what carries it over the steps of other workers: no other request writes to this
client. The refinement is then one lemma per action: a step that another client
or the descriptors alone can see is a stutter, a write is the next part of the
answer, and the ten seconds after which a read ends decline a session only
before its first part.

In `HttpRequestProofs`, from `RequestAssumption` (the constants are texts; credentials
may have a NUL), for targets, headers and credentials of any length:

* `PathTheorem` (`PathClean`). Each pass leaves none of its own sequence: what has
  been written never ends in the beginning of one that the rest of the text can
  complete (`SlashInv` and its two successors). And each pass keeps what the earlier
  ones have achieved, which is what a reader of the code has to believe: that
  dropping `/.` never brings two slashes together, and that going back to the
  last slash, which writes the next character over it, spells neither `//` nor `/./`.
* `CredentialsTheorem` (`CredentialsArrive`): four sextets of the encoder give back
  its three bytes, and the correction behind the loop cuts exactly what a last group
  that is not full has too many.
* `RedirectTheorem` (`RedirectReturns`): what `_httpd_escape` writes has no separator in
  it, so that `_httpd_storeData` finds one field, and reading it back, `_httpd_unescape`
  meets each escape whole (`EscapedComesBack`).
* `RequestTypeTheorem` (`TypeOK`): no NUL gets into a text, neither by `%00` nor by the
  buffers of the names, and every variable has a value.
* `ResolvedTheorem` (`PathResolved`). Its definition goes from element to element and
  looks at nothing else; the three passes go from character to character and look
  ahead. For each pass an invariant (`SlashReads`, `DotReads`, `ClimbReads`) says what has
  been written after every character, in terms of the elements that have ended and
  the name that has begun (`PassStep`), the characters that are jumped over next
  included. The third goes back as soon as a climb is ahead, and to the right place
  unless the element before was a climb too (`Twice`); this is the one place where the
  hypothesis is needed, and `request_climbs` shows that it is. That the query, which is
  still attached, changes nothing is an induction over the query (`Carries`): every
  slash in it ends a name that is an element of its own (`TailNotOdd`), or else the
  query would have one of the sequences. `ResolvedInv` carries it over the headers.
* `StoredTheorem` (`StoredAsWritten`). `StoreInv` relates the state of the loop to the
  fields that have ended and the one that is read. The buffer of the names is never
  cleared between fields, so it says where the buffer is still clean: behind the
  longest name so far (`Longest`), which is why `Ended` is needed. `ListOf` is what the
  list of variables says of the fields, and `WrittenGrows` that one more `AddVariable`
  says one more field.
* `PageTheorem` (`PageSays`), from the same invariant (`StoredInv`): the page's own
  variables are added behind those of the query (`PageShown`).

In `DnsClientProofs`, for all names, records and numbers of look-ups, losses and
duplicates:

* `OwnAnswer` (`AnswersOwnRequest`), from no assumption. The invariant is `OwnTraffic`:
  without a duplicate at most one datagram is on its way, it belongs to the look-up
  that waits, and none is left when it returns. That is all that keeps replies
  apart, since the bytes do not: what the servers encode and the client accepts stays
  unexpanded in the proof.
* `CodecTheorem` (`CodecReplies`), from `ClientAssumption` and `CodecAssumption`. The
  client's encoder ends a label at each dot and at the end of the text (`RequestIs`). The
  codec's decoder reads the labels of such a request and a dot behind each (an invariant of `LabelRead`), so
  that its encoder finds one label more than there is, the empty one, and writes
  the end of the name twice. The words behind it are written one byte short, and
  both together are what RFC 1035 asks for. That is, the errors of a byte cancel out
  for every name.
* `FindsTheorem` (`FindsWhatIsSaid`), from these too. `Lies` says where a text lies in a
  message, `Fields` and `Says` where the parts of a reply do. Then the parser's loops
  and the definition's are followed turn by turn, with labels, names, records: each
  stands behind what it has read and has found what is said so far, in either way of
  writing an owner and also where a name continues behind a pointer. A name that the
  client has no room for ends both. The invariant `Understood` says that every
  datagram on its way is passed over by the client (`Refused`, the daemon's flags) or
  `Readable`, and that what an earlier and longer datagram has left in the buffer,
  behind a reply, changes nothing.
* `TypeTheorem` (`TypeOK`), from these too, with `Counters`.

None of them needs `SizeAssumption`, which only says for which names and records the
model, whose buffers have no end, is that of the code.

Only model-checked: liveness, that is `Follows`, `ClientFollows`, `EveryConnectionEnds` and
`LookupEnds`. It is out of the prover's reach, as is everything that needs `ENABLED`.
All other properties of the passing runs are theorems.

## Not modelled

* Functions of `Httpd` that nothing calls: access lists, static files and
  directories, 304, 403. The text of the page around its variables.
* `getConfig` and the configuration reader, which run once before everything else.
* `CDNSLookup`: the overload that returns texts, which reads a vector that has been
  destroyed, and the time spent, which is measured and only reported. A name
  without a label (its encoded text is not initialised), labels of 64 characters
  and more, pointers that lead to themselves.
* `put32bits`, which nothing calls, and the hosts list of Resolver (`init`, `store`,
  `add`, `find`): it is filled and printed, but `process` never consults it.
* Hazards that are plain from the code and that no property is about: the copy of the
  labels into `binaryName` behind the end of its heap block (`query.cpp:129`); a label
  length with one of its two highest bits, on which `decode_qname` never ends
  (`query.cpp:137`; a server of the codec that meets one answers nobody in the
  model); a request line without a target (`httpd.cpp:809`); the count of the output
  buffer (`httpd.cpp:477`); the eight bytes of `ULONG` in a 64-bit build
  (`DNSLookup.cpp:232`; four are modelled, as on the 32-bit target of the Makefile).
* A record of a reply to WINS queries is missing in the reply's counts
  (`dnsserver.cpp:299`), and the name of a reply to a query for the root ends twice
  (`dnsserver.cpp:437`): both are modelled, and `ReplyParses` leaves them out.
* A child that runs iptables and outlives the daemon: it is assumed to end before
  the next process's first command. Connections that are open when rules change.
* Logger, Exception and the test programs keep no state that anything reads.
* Memory (the interface list and command strings leak), and writes outside a
  buffer (long credentials, the name of the root in the client).

## Plan

Done: `NatTable`, `Iptable`, `Supervisor`, `PortalSwitch`, `FasterConfig`; `DnsName`,
`DnsReply`, `DnsServer`; `HttpServer`, `Sessions`; `HttpText`, `HttpRequest`; `DnsCodec`, `DnsClient`;
and the proofs named above. What could follow is the configuration reader, as a
function from lines to settings: it runs once, before anything else, and nothing
that is modelled here depends on it.
