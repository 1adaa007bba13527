-------------------------------- MODULE Judging --------------------------------
(***************************************************************************)
(* The judgement of one answer, address by address: an answer a zone gives *)
(* to a question grows by the addresses the counting loops of              *)
(* DNSQueryResult meet, inside or outside the zone's lists.  Bound: Most   *)
(* addresses of a family.                                                  *)
(***************************************************************************)
EXTENDS ZonePolicy

CONSTANT Most

VARIABLES zone, question, answer

vars == <<zone, question, answer>>

Init ==
  /\ zone \in Zones
  /\ question \in QTypes
  /\ answer \in {b \in Answers(0) : b.walk}

(* One more address in a tally                                             *)
Counted(t, inside) ==
  [judged |-> t.judged + 1, matched |-> t.matched + IF inside THEN 1 ELSE 0]

CountV4(inside) ==
  /\ answer.v4.judged < Most
  /\ answer' = [answer EXCEPT !.v4 = Counted(@, inside)]
  /\ UNCHANGED <<zone, question>>

CountV6(inside) ==
  /\ answer.v6.judged < Most
  /\ answer' = [answer EXCEPT !.v6 = Counted(@, inside)]
  /\ UNCHANGED <<zone, question>>

Next == \E inside \in BOOLEAN : CountV4(inside) \/ CountV6(inside)

Spec == Init /\ [][Next]_vars

Judgement == Verdict(zone, question, answer)

(* The integer division of DNSQueryResult accepts an answer with addresses *)
(* exactly when more than a third of those judged match, whatever          *)
(* denyNXDomain says; the nominal "half" (quotient 2) lets 2 of 5 through. *)
MoreThanAThird ==
  LET judged == JudgedCount(zone, question, answer)
      matched == MatchCount(zone, question, answer)
  IN  /\ ZoneTakesPart(zone, question)
      /\ IsIPBearingType(question) /\ IsIPBearingType(answer.qtype)
      /\ answer.form = "whole" /\ judged > 0
      => (Judgement = "MATCH" <=> 3 * matched > judged)

(* One more address inside the zone's lists never costs it the match, and  *)
(* one more outside never earns it the match.                              *)
Monotone ==
  [][/\ CountV4(TRUE) \/ CountV6(TRUE)   => (Judgement = "MATCH" => Judgement' = "MATCH")
     /\ CountV4(FALSE) \/ CountV6(FALSE) => (Judgement' = "MATCH" => Judgement = "MATCH")]_vars

(* README: a zone judges the hints of the families it has a list for; the  *)
(* other family's addresses change nothing.                                *)
OtherFamilyIgnored ==
  [][/\ zone \notin HasV6 /\ answer'.v4 = answer.v4 => Judgement' = Judgement
     /\ zone \notin HasV4 /\ answer'.v6 = answer.v6 => Judgement' = Judgement]_vars
===============================================================================
