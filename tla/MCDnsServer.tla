-------------------------- MODULE MCDnsServer ---------------------------
(* Model-checking module of DnsServer.  The names: the root, a plain one of *)
(* two labels, and one whose only label contains a dot and a blank.         *)
EXTENDS DnsServer, TLC

CONSTANTS c1, c2

MCDecimal == " " :> <<"0", "3", "2">>
MCName    == { <<>>, << <<"a">>, <<"b">> >>, << <<"a", Dot, " ">> >> }
EachType  == {"A", "MX", "WINS", "SRV", "other"}
Senders   == Permutations(Client)
=========================================================================
