---------------------------- MODULE Judging_proofs ----------------------------
(***************************************************************************)
(* What the judgement of an answer guarantees for any number of addresses, *)
(* any zones and any policy.                                               *)
(***************************************************************************)
EXTENDS Judging, TLAPS

(* The quotient of DNSQueryResult is at most 2 exactly when more than a    *)
(* third match.                                                            *)
LEMMA Quotient ==
  ASSUME NEW j \in Nat, NEW m \in Nat, j > 0
  PROVE  m # 0 /\ j \div m <= 2 <=> 3 * m > j
<1>1. CASE m = 0
  BY <1>1, SMT
<1>2. CASE m # 0
  <2>1. m \in Int /\ m > 0 /\ j \in Int
    BY <1>2, SMT
  <2>2. j \div m \in Int
    BY <2>1, Z3
  <2>3. (j \div m) * m <= j /\ j < (j \div m + 1) * m
    BY <2>1, Z3
  <2> QED
    BY <1>2, <2>1, <2>2, <2>3, Z3
<1> QED
  BY <1>1, <1>2

(* Answers with any number of addresses                                    *)
Tallies == {t \in [judged : Nat, matched : Nat] : t.matched <= t.judged}

AnyAnswer ==
  [form : Forms, walk : BOOLEAN, qtype : QTypes, nx : BOOLEAN, v4 : Tallies, v6 : Tallies]

JInv == zone \in Zones /\ question \in QTypes /\ answer \in AnyAnswer

(* No more addresses match than are judged.                                *)
LEMMA Counts ==
  ASSUME NEW z, NEW q, NEW b \in AnyAnswer
  PROVE  /\ JudgedCount(z, q, b) \in Nat /\ MatchCount(z, q, b) \in Nat
         /\ MatchCount(z, q, b) <= JudgedCount(z, q, b)
<1>1. /\ b.v4.judged \in Nat /\ b.v4.matched \in Nat /\ b.v6.judged \in Nat /\ b.v6.matched \in Nat
      /\ b.v4.matched <= b.v4.judged /\ b.v6.matched <= b.v6.judged
  BY DEF AnyAnswer, Tallies
<1> QED
  BY <1>1, SMT DEF JudgedCount, MatchCount

(* An answer with addresses matches exactly when more than a third do.     *)
LEMMA Threshold ==
  ASSUME NEW z, NEW q, NEW b \in AnyAnswer, ZoneTakesPart(z, q), IsIPBearingType(q),
         IsIPBearingType(b.qtype), b.form = "whole", JudgedCount(z, q, b) > 0
  PROVE  IsMatch(z, q, b) <=> 3 * MatchCount(z, q, b) > JudgedCount(z, q, b)
<1> DEFINE j == JudgedCount(z, q, b)
<1> DEFINE m == MatchCount(z, q, b)
<1>1. j \in Nat /\ m \in Nat /\ j > 0
  BY Counts
<1>2. IsMatch(z, q, b) <=> IF j = 0 THEN ~(z \in DenyNX /\ b.nx) ELSE m # 0 /\ j \div m <= 2
  BY DEF IsMatch
<1> HIDE DEF j, m
<1>3. j # 0
  BY <1>1, SMT
<1>4. IsMatch(z, q, b) <=> 3 * m > j
  BY <1>1, <1>2, <1>3, Quotient
<1> QED
  BY <1>4 DEF j, m
-------------------------------------------------------------------------------
(* One more address                                                        *)

(* What counting an address changes: one family's tally, by one.           *)
LEMMA Grows ==
  ASSUME JInv, NEW inside \in BOOLEAN, CountV4(inside) \/ CountV6(inside)
  PROVE  /\ zone' = zone /\ question' = question /\ answer' \in AnyAnswer
         /\ answer'.form = answer.form /\ answer'.qtype = answer.qtype /\ answer'.nx = answer.nx
         /\ LET j == JudgedCount(zone, question, answer)
                m == MatchCount(zone, question, answer)
                j2 == JudgedCount(zone, question, answer')
                m2 == MatchCount(zone, question, answer')
            IN  \/ j2 = j /\ m2 = m
                \/ j2 = j + 1 /\ m2 = m + IF inside THEN 1 ELSE 0
<1>1. answer \in AnyAnswer /\ zone' = zone /\ question' = question
  BY DEF JInv, CountV4, CountV6
<1>2. answer.v4 \in Tallies /\ answer.v6 \in Tallies
  BY <1>1 DEF AnyAnswer
<1>3. /\ \A t \in Tallies : Counted(t, inside) \in Tallies
      /\ \A t \in Tallies : /\ Counted(t, inside).judged = t.judged + 1
                            /\ Counted(t, inside).matched = t.matched + IF inside THEN 1 ELSE 0
  BY SMT DEF Tallies, Counted
<1>4. CASE CountV4(inside)
  <2>1. answer' = [answer EXCEPT !.v4 = Counted(@, inside)]
    BY <1>4 DEF CountV4
  <2>2. /\ answer' \in AnyAnswer /\ answer'.v4 = Counted(answer.v4, inside) /\ answer'.v6 = answer.v6
        /\ answer'.form = answer.form /\ answer'.qtype = answer.qtype /\ answer'.nx = answer.nx
    BY <1>1, <1>2, <1>3, <2>1 DEF AnyAnswer
  <2> QED
    BY <1>1, <1>2, <1>3, <2>2, SMT DEF JudgedCount, MatchCount, Tallies
<1>5. CASE CountV6(inside)
  <2>1. answer' = [answer EXCEPT !.v6 = Counted(@, inside)]
    BY <1>5 DEF CountV6
  <2>2. /\ answer' \in AnyAnswer /\ answer'.v6 = Counted(answer.v6, inside) /\ answer'.v4 = answer.v4
        /\ answer'.form = answer.form /\ answer'.qtype = answer.qtype /\ answer'.nx = answer.nx
    BY <1>1, <1>2, <1>3, <2>1 DEF AnyAnswer
  <2> QED
    BY <1>1, <1>2, <1>3, <2>2, SMT DEF JudgedCount, MatchCount, Tallies
<1> QED
  BY <1>4, <1>5
(* Whether an answer matches is a matter of its counts.                    *)
LEMMA ByCounts ==
  ASSUME NEW z, NEW q, NEW b \in AnyAnswer
  PROVE  IsMatch(z, q, b) <=>
           /\ ZoneTakesPart(z, q)
           /\ IsIPBearingType(q) =>
                /\ b.form = "whole" /\ IsIPBearingType(b.qtype)
                /\ IF JudgedCount(z, q, b) = 0
                   THEN ~(z \in DenyNX /\ b.nx)
                   ELSE 3 * MatchCount(z, q, b) > JudgedCount(z, q, b)
<1>1. JudgedCount(z, q, b) # 0 => JudgedCount(z, q, b) > 0
  BY Counts, SMT
<1>2. CASE /\ ZoneTakesPart(z, q) /\ IsIPBearingType(q) /\ b.form = "whole" /\ IsIPBearingType(b.qtype)
           /\ JudgedCount(z, q, b) # 0
  BY <1>1, <1>2, Threshold
<1>3. CASE ~(/\ ZoneTakesPart(z, q) /\ IsIPBearingType(q) /\ b.form = "whole" /\ IsIPBearingType(b.qtype)
             /\ JudgedCount(z, q, b) # 0)
  BY <1>3 DEF IsMatch
<1> QED
  BY <1>2, <1>3

LEMMA OneMore ==
  ASSUME JInv, NEW inside \in BOOLEAN, CountV4(inside) \/ CountV6(inside)
  PROVE  /\ inside  => (Judgement = "MATCH" => Judgement' = "MATCH")
         /\ ~inside => (Judgement' = "MATCH" => Judgement = "MATCH")
<1> DEFINE j == JudgedCount(zone, question, answer)
<1> DEFINE m == MatchCount(zone, question, answer)
<1> DEFINE j2 == JudgedCount(zone, question, answer')
<1> DEFINE m2 == MatchCount(zone, question, answer')
<1>1. /\ zone' = zone /\ question' = question /\ answer \in AnyAnswer /\ answer' \in AnyAnswer
      /\ answer'.form = answer.form /\ answer'.qtype = answer.qtype /\ answer'.nx = answer.nx
  BY Grows DEF JInv
<1>2. \/ j2 = j /\ m2 = m
      \/ j2 = j + 1 /\ m2 = m + IF inside THEN 1 ELSE 0
  BY Grows
<1>3. j \in Nat /\ m \in Nat /\ m <= j
  BY <1>1, Counts
<1>4. (Judgement = "MATCH" <=> IsMatch(zone, question, answer))
      /\ (Judgement' = "MATCH" <=> IsMatch(zone, question, answer'))
  BY <1>1 DEF Judgement, Verdict
<1>5. IsMatch(zone, question, answer) <=>
        /\ ZoneTakesPart(zone, question)
        /\ IsIPBearingType(question) =>
             /\ answer.form = "whole" /\ IsIPBearingType(answer.qtype)
             /\ IF j = 0 THEN ~(zone \in DenyNX /\ answer.nx) ELSE 3 * m > j
  BY <1>1, ByCounts
<1>6. IsMatch(zone, question, answer') <=>
        /\ ZoneTakesPart(zone, question)
        /\ IsIPBearingType(question) =>
             /\ answer'.form = "whole" /\ IsIPBearingType(answer'.qtype)
             /\ IF j2 = 0 THEN ~(zone \in DenyNX /\ answer'.nx) ELSE 3 * m2 > j2
  BY <1>1, ByCounts
<1> HIDE DEF j, m, j2, m2
<1>7. inside /\ (IF j = 0 THEN ~(zone \in DenyNX /\ answer.nx) ELSE 3 * m > j)
        => IF j2 = 0 THEN ~(zone \in DenyNX /\ answer.nx) ELSE 3 * m2 > j2
  <2>1. inside /\ j2 = j + 1 => m2 = m + 1
    BY <1>2, <1>3, SMT
  <2>2. j = 0 => m = 0
    BY <1>3, SMT
  <2>3. inside /\ j2 = j + 1 /\ (j = 0 \/ 3 * m > j) => j2 # 0 /\ 3 * m2 > j2
    BY <1>3, <2>1, <2>2, SMT
  <2> QED
    BY <1>2, <2>3
<1>8. ~inside /\ (IF j2 = 0 THEN ~(zone \in DenyNX /\ answer.nx) ELSE 3 * m2 > j2)
        => IF j = 0 THEN ~(zone \in DenyNX /\ answer.nx) ELSE 3 * m > j
  <2>1. ~inside /\ j2 = j + 1 => j2 # 0 /\ (3 * m2 > j2 => j # 0 /\ 3 * m > j)
    BY <1>2, <1>3, SMT
  <2> QED
    BY <1>2, <2>1
<1> QED
  BY <1>1, <1>4, <1>5, <1>6, <1>7, <1>8

(* A family the zone has no list for is not counted when it takes part.    *)
LEMMA OtherFamily ==
  ASSUME JInv, [Next]_vars
  PROVE  /\ zone \notin HasV6 /\ answer'.v4 = answer.v4 => Judgement' = Judgement
         /\ zone \notin HasV4 /\ answer'.v6 = answer.v6 => Judgement' = Judgement
<1>1. /\ zone' = zone /\ question' = question
      /\ answer'.form = answer.form /\ answer'.qtype = answer.qtype /\ answer'.nx = answer.nx
  BY Grows DEF Next, vars
<1>2. question \in {"A", "AAAA", "SVCB", "OTHER"}
  BY DEF JInv, QTypes
<1>3. ASSUME \/ zone \notin HasV6 /\ answer'.v4 = answer.v4
             \/ zone \notin HasV4 /\ answer'.v6 = answer.v6
      PROVE  Judgement' = Judgement
  <2>1. CASE ~ZoneTakesPart(zone, question)
    BY <1>1, <2>1 DEF Judgement, Verdict, IsMatch
  <2>2. CASE ZoneTakesPart(zone, question)
    <3>1. \/ ~UseV6(zone, question) /\ answer'.v4 = answer.v4
          \/ ~UseV4(zone, question) /\ answer'.v6 = answer.v6
      BY <1>3, <2>2 DEF ZoneTakesPart, UseV4, UseV6
    <3>2. /\ JudgedCount(zone, question, answer') = JudgedCount(zone, question, answer)
          /\ MatchCount(zone, question, answer') = MatchCount(zone, question, answer)
      BY <3>1 DEF JudgedCount, MatchCount
    <3> QED
      BY <1>1, <3>2 DEF Judgement, Verdict, IsMatch
  <2> QED
    BY <2>1, <2>2
<1> QED
  BY <1>3

LEMMA JInvAlways == Spec => []JInv
<1>1. Init => JInv
  <2> SUFFICES ASSUME Init PROVE JInv
    OBVIOUS
  <2>1. \A t \in Tally(0) : t \in Tallies
    BY SMT DEF Tally, Tallies
  <2>2. zone \in Zones /\ question \in QTypes /\ answer \in Answers(0)
    BY DEF Init
  <2> QED
    BY <2>1, <2>2 DEF JInv, Answers, AnyAnswer
<1>2. JInv /\ [Next]_vars => JInv'
  BY Grows DEF JInv, Next, vars
<1> QED
  BY <1>1, <1>2, PTL DEF Spec
-------------------------------------------------------------------------------
(* Theorems                                                                *)

(* The integer quotient DNSQueryResult compares with 2 lets an answer with *)
(* any number of addresses through exactly when more than a third match.   *)
THEOREM AThirdDecides == Spec => []MoreThanAThird
<1>1. JInv => MoreThanAThird
  BY Threshold DEF JInv, MoreThanAThird, Judgement, Verdict
<1> QED
  BY <1>1, JInvAlways, PTL

(* The truncating division keeps the judgement monotone, and so does the   *)
(* step from no address, which denyNXDomain judges, to the first.          *)
THEOREM MonotoneAlways == Spec => Monotone
<1>1. JInv /\ [Next]_vars =>
        [/\ CountV4(TRUE) \/ CountV6(TRUE)   => (Judgement = "MATCH" => Judgement' = "MATCH")
         /\ CountV4(FALSE) \/ CountV6(FALSE) => (Judgement' = "MATCH" => Judgement = "MATCH")]_vars
  BY OneMore
<1> QED
  BY <1>1, JInvAlways, PTL DEF Spec, Monotone

(* A hint of a family the zone has no list for is worth nothing, for or    *)
(* against the zone.                                                       *)
THEOREM OtherFamilyNever == Spec => OtherFamilyIgnored
<1>1. JInv /\ [Next]_vars =>
        [/\ zone \notin HasV6 /\ answer'.v4 = answer.v4 => Judgement' = Judgement
         /\ zone \notin HasV4 /\ answer'.v6 = answer.v6 => Judgement' = Judgement]_vars
  BY OtherFamily
<1> QED
  BY <1>1, JInvAlways, PTL DEF Spec, OtherFamilyIgnored
===============================================================================
