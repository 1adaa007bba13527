------------------------------- MODULE MCStartup -------------------------------
(* Instances of Startup for TLC.                                           *)
EXTENDS Startup

CONSTANTS p1, p2, f1, f2, o1, o2, s1, s2

Good(family)  == [typed |-> TRUE, enable |-> TRUE, family |-> family, loads |-> TRUE]
NotAsked      == [typed |-> TRUE, enable |-> FALSE, family |-> 6, loads |-> FALSE]
Unreadable    == [typed |-> TRUE, enable |-> TRUE, family |-> 4, loads |-> FALSE]
NoFamily      == [typed |-> TRUE, enable |-> FALSE, family |-> 5, loads |-> TRUE]

Zone(priority, path, server, lists) ==
  [typed |-> TRUE, enable |-> TRUE, priority |-> priority, path |-> path, server |-> server, lists |-> lists]

First   == Zone(1, p1, NoServer, <<Good(4), NotAsked>>)
Second  == Zone(2, p2, NoServer, <<Good(6)>>)
Fixed   == Zone(2, NoPath, s1, <<>>)
Other   == Zone(2, NoPath, s2, <<>>)
Nowhere == Zone(3, NoPath, NoServer, <<>>)

File(zs) == [parses |-> TRUE, binds |-> TRUE, zones |-> zs]

(* Two zones with files, out of order, and one more that is not enabled    *)
Plain == File(<<Second, [Fixed EXCEPT !.enable = FALSE], First>>)

(* Files that are refused, each for one reason, and some that are not      *)
Variants ==
  {[Plain EXCEPT !.parses = FALSE], [Plain EXCEPT !.binds = FALSE]}
    \cup {File(<<Fixed, z>>) : z \in {
            Other, [Other EXCEPT !.priority = -1], Nowhere, [Nowhere EXCEPT !.enable = FALSE],
            [First EXCEPT !.typed = FALSE], [First EXCEPT !.typed = FALSE, !.enable = FALSE],
            [Fixed EXCEPT !.lists = <<Good(6), Unreadable>>],
            [Fixed EXCEPT !.lists = <<NoFamily>>],
            [Fixed EXCEPT !.lists = <<NotAsked, Good(4)>>]}}
    \cup {File(<<>>), File(<<First, First>>)}

PlainAndVariants == {Plain} \cup Variants

One        == <<s1>>
AfterJunk  == <<Junk, s2>>

Leads   == p1 :> f1 @@ p2 :> f2
OneLink == p1 :> 1 @@ p2 :> 0
===============================================================================
