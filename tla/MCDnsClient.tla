--------------------------- MODULE MCDnsClient --------------------------
(* Model-checking module of DnsClient. *)
EXTENDS DnsClient

MCId == <<18, 255>>

\* One label, two, dots that say nothing, and a name that is too long.
MCDomain == {<<97>>, <<97, Dot, 98>>, <<Dot, 97, Dot, Dot, 98, 98>>, <<97, 97, Dot, 98, 98, 98>>}

\* Addresses; an alias that is spelled out, one that the name asked for ends,
\* and one that is too long; a record that is skipped.
First   == [type |-> "A", ip |-> <<10, 0, 0, 1>>]
Second  == [type |-> "A", ip |-> <<192, 168, 0, 255>>]
Spelled == [type |-> "CNAME", labels |-> <<<<99>>, <<100>>>>, pointed |-> FALSE]
Pointed == [type |-> "CNAME", labels |-> <<<<102>>>>, pointed |-> TRUE]
Long    == [type |-> "CNAME", labels |-> <<<<99, 99, 99>>, <<99, 99>>>>, pointed |-> FALSE]
Skipped == [type |-> "other"]

MCFound == {<<>>, <<First, Second>>, <<Spelled, Skipped, Pointed>>, <<Pointed, First>>,
            <<Second, Long, First>>}

\* A pointer to the name asked for, and the root.
MCOwner == {<<192, 12>>, <<0>>}
=========================================================================
