------------------------------ MODULE ZonePolicy ------------------------------
(***************************************************************************)
(* The routing policy of dnsmultizone: which zones a query is sent to and  *)
(* what one zone's answer says about that zone.  Zones are numbered in     *)
(* priority order, the index of gConfig.m_vsZoneInfos; zone 0 is the one   *)
(* the others fall back to.                                                *)
(*                                                                         *)
(* An answer is abstracted to what the policy looks at.  Its addresses are *)
(* two tallies: how many of a family it carries, and how many of those lie *)
(* inside the address lists of the zone that answered.                     *)
(***************************************************************************)
EXTENDS Integers

CONSTANTS
  NumZones,       \* number of configured zones
  HasV4, HasV6,   \* zones with an IPv4 (IPv6) address list
  DenyNX,         \* zones configured with denyNXDomain
  DropV4, DropV6  \* zones configured with dropIPv4 (dropIPv6)

Zones == 0 .. NumZones - 1

ASSUME PolicyAssumption ==
  /\ NumZones \in Nat \ {0}
  /\ HasV4 \subseteq Zones /\ HasV6 \subseteq Zones
  /\ DenyNX \subseteq Zones
  /\ DropV4 \subseteq Zones /\ DropV6 \subseteq Zones

(* Question types. "SVCB" stands for SVCB and HTTPS, which are treated     *)
(* alike; "OTHER" is every type that carries no address.                   *)
QTypes == {"A", "AAAA", "SVCB", "OTHER"}

(* DNSQueryResultItem::EnumState                                           *)
States == {"WAIT", "ERROR", "MATCH", "NOT_MATCH"}

(* How much of the answer parses: everything; the question but not all     *)
(* records; not even the question.                                         *)
Forms == {"whole", "badRecords", "badQuestion"}

Tally(max) == {t \in [judged : 0 .. max, matched : 0 .. max] : t.matched <= t.judged}

NoAddresses == [judged |-> 0, matched |-> 0]

(* Every answer with at most max addresses of a family.  "walk" says       *)
(* whether the record walk of DropAddress gets through an SVCB answer.     *)
Answers(max) ==
  [form : Forms, walk : BOOLEAN, qtype : QTypes, nx : BOOLEAN,
   v4 : Tally(max), v6 : Tally(max)]

-------------------------------------------------------------------------------
(* Which zones are asked                                                   *)

ZoneTakesPart(z, q) ==
  /\ q = "A"    => z \in HasV4
  /\ q = "AAAA" => z \in HasV6

(* Slip: the first zone is asked only if it takes part.                    *)
AskedTakersOnly(q) == {z \in Zones : ZoneTakesPart(z, q)}

(* Zone 0 is asked in any case, for the fallback.                          *)
Asked(q) == {z \in Zones : z = 0 \/ ZoneTakesPart(z, q)}

-------------------------------------------------------------------------------
(* What a zone's answer says                                               *)

IsIPBearingType(q) == q # "OTHER"

(* Slip: hints are judged whatever lists the zone has.                     *)
UseV4Always(z, q) == q \in {"A", "SVCB"}

UseV4(z, q) == q = "A"    \/ (q = "SVCB" /\ z \in HasV4)
UseV6(z, q) == q = "AAAA" \/ (q = "SVCB" /\ z \in HasV6)

(* nJudgedCount and nMatchCount after the two counting loops               *)
JudgedCount(z, q, b) ==
  (IF UseV4(z, q) THEN b.v4.judged ELSE 0) + (IF UseV6(z, q) THEN b.v6.judged ELSE 0)

(* Slip: the second loop counts its matches from zero.                     *)
MatchCountRestarted(z, q, b) == IF UseV6(z, q) THEN b.v6.matched ELSE b.v4.matched

MatchCount(z, q, b) ==
  (IF UseV4(z, q) THEN b.v4.matched ELSE 0) + (IF UseV6(z, q) THEN b.v6.matched ELSE 0)

(* Slip: half the addresses are not enough.                                *)
IsMatchOverHalf(z, q, b) ==
  /\ ZoneTakesPart(z, q)
  /\ IsIPBearingType(q) =>
       /\ b.form = "whole"
       /\ IsIPBearingType(b.qtype)
       /\ IF JudgedCount(z, q, b) = 0
          THEN ~(z \in DenyNX /\ b.nx)
          ELSE MatchCount(z, q, b) # 0 /\ JudgedCount(z, q, b) \div MatchCount(z, q, b) < 2

(* Slip: the comparison is turned round.                                   *)
IsMatchTurnedRound(z, q, b) ==
  /\ ZoneTakesPart(z, q)
  /\ IsIPBearingType(q) =>
       /\ b.form = "whole"
       /\ IsIPBearingType(b.qtype)
       /\ IF JudgedCount(z, q, b) = 0
          THEN ~(z \in DenyNX /\ b.nx)
          ELSE MatchCount(z, q, b) # 0 /\ JudgedCount(z, q, b) \div MatchCount(z, q, b) >= 2

(* The conditions under which the state of a zone becomes MATCH.           *)
IsMatch(z, q, b) ==
  /\ ZoneTakesPart(z, q)
  /\ IsIPBearingType(q) =>
       /\ b.form = "whole"
       /\ IsIPBearingType(b.qtype)
       /\ IF JudgedCount(z, q, b) = 0
          THEN ~(z \in DenyNX /\ b.nx)
          ELSE /\ MatchCount(z, q, b) # 0
               /\ JudgedCount(z, q, b) \div MatchCount(z, q, b) <= 2

Verdict(z, q, b) == IF IsMatch(z, q, b) THEN "MATCH" ELSE "NOT_MATCH"

-------------------------------------------------------------------------------
(* What the client gets of the winning answer                              *)

(* DropAddress can rewrite the answer, or has nothing to rewrite.          *)
Rewritable(z, q, b) ==
  /\ (q = "A" /\ z \in DropV4) \/ (q = "AAAA" /\ z \in DropV6) => b.form # "badQuestion"
  /\ q = "SVCB" /\ z \in DropV4 \cup DropV6 => b.form # "badQuestion" /\ b.walk
===============================================================================
