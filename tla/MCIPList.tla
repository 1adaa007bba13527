------------------------------- MODULE MCIPList -------------------------------
(* Instances of IPList for TLC.                                            *)
EXTENDS IPList

PlainKind == [family : {4}, inverse : {FALSE}, deny : {FALSE}]

(* A list that admits, one that denies, one turned round, and one of the   *)
(* other family                                                            *)
SomeKinds ==
  PlainKind
    \cup [family : {4}, inverse : {FALSE}, deny : {TRUE}]
    \cup [family : {4}, inverse : {TRUE}, deny : {FALSE}]
    \cup [family : {6}, inverse : {FALSE}, deny : {FALSE}]
===============================================================================
