---------------------------- MODULE Iptable -----------------------------
(***************************************************************************)
(* class Iptable (src/src/iptable.cpp): the programs of iptables commands  *)
(* that set the portal up, tear it down and switch it on.  Each method is  *)
(* a fixed sequence of commands, run one after the other by                *)
(* iptables_do_command (fork, exec, waitpid); no method looks at a return  *)
(* code, so a command that fails is skipped.                               *)
(***************************************************************************)
EXTENDS Sequences, Naturals

CONSTANT MaxCopies   \* bound: that many copies of a rule, or more

ASSUME CopiesAssumption == MaxCopies \in Nat /\ MaxCopies >= 2

\* CHAIN_OUTGOING ... CHAIN_POSTROUTING of iptable.h.
Chain == {"Outgoing", "Prerouting", "Incoming", "Postrouting"}

\* DNS over UDP and TCP into the DNS server's port, the way back out of it,
\* and HTTP to the portal's address into the HTTP server's port.
Rule == {"dnsUdp", "dnsTcp", "dnsUdpOut", "dnsTcpOut", "http"}

Home == [r \in Rule |-> IF r \in {"dnsUdpOut", "dnsTcpOut"}
                        THEN "Outgoing" ELSE "Prerouting"]

INSTANCE NatTable

Do(op, on) == [op |-> op, on |-> on]

\* Mutant: one jump appended twice, another never.
iptabel_set_NewChain_SameJump ==
    << Do("N", "Outgoing"), Do("N", "Prerouting"),
       Do("N", "Incoming"), Do("N", "Postrouting"),
       Do("J", "Outgoing"), Do("J", "Outgoing"),
       Do("J", "Incoming"), Do("J", "Postrouting") >>

iptabel_set_NewChain ==
    << Do("N", "Outgoing"), Do("N", "Prerouting"),
       Do("N", "Incoming"), Do("N", "Postrouting"),
       Do("J", "Outgoing"), Do("J", "Prerouting"),
       Do("J", "Incoming"), Do("J", "Postrouting") >>

\* Mutant: the chain of the outgoing rules is not flushed.
iptable_destroy_rule_NoFlush ==
    << Do("F", "Prerouting"), Do("F", "Prerouting"),
       Do("F", "Incoming"), Do("F", "Postrouting"),
       Do("X", "Outgoing"), Do("X", "Prerouting"),
       Do("X", "Incoming"), Do("X", "Postrouting") >>

iptable_destroy_rule ==
    << Do("F", "Outgoing"), Do("F", "Prerouting"),
       Do("F", "Incoming"), Do("F", "Postrouting"),
       Do("X", "Outgoing"), Do("X", "Prerouting"),
       Do("X", "Incoming"), Do("X", "Postrouting") >>

\* Mutant: one rule is installed twice, another never.
iptable_redirect_dns_SameRule ==
    << Do("A", "dnsUdp"), Do("A", "dnsTcp"),
       Do("A", "dnsUdpOut"), Do("A", "dnsUdpOut") >>

iptable_redirect_dns ==
    << Do("A", "dnsUdp"), Do("A", "dnsTcp"),
       Do("A", "dnsUdpOut"), Do("A", "dnsTcpOut") >>

iptable_redirect_http == << Do("A", "http") >>
=========================================================================
