---------------------------- MODULE MCDNSQueryWork ----------------------------
(* Instances of DNSQueryWork for TLC.                                      *)
EXTENDS DNSQueryWork

CONSTANTS n1, none, addr1, addr2

A1   == [name |-> n1, qtype |-> "A"]
Six1 == [name |-> n1, qtype |-> "AAAA"]

(* One address of each family; the question says which one is judged.      *)
Body(count) ==
  [form |-> "whole", walk |-> TRUE, qtype |-> "A", nx |-> FALSE, v4 |-> count, v6 |-> count]

Inside  == Body([judged |-> 1, matched |-> 1])
Outside == Body([judged |-> 1, matched |-> 0])

OneQuestion    == {A1}
MixedQuestions == {A1, Six1}

YesNo == {Inside, Outside}

AllUp == {Zones}
SomeDown == {Zones, Zones \ {0}, Zones \ {NumZones - 1}}

Two == 0 .. 1
Three == 0 .. 2
===============================================================================
