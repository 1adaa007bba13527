------------------------------ MODULE Resolution ------------------------------
(***************************************************************************)
(* What a transaction promises, without sockets, queues, stored verdicts   *)
(* or a scan.  A query is sent to its zones; each of them answers once or  *)
(* fails.  When an answer decides the query it is finished with the answer *)
(* of the first zone that matches, judged anew from all that was told, or  *)
(* with the first zone's.  A failure decides nothing: the query waits for  *)
(* the next answer or is forgotten.                                        *)
(***************************************************************************)
EXTENDS ZonePolicy

CONSTANTS IDs, Questions, Bodies, NoQuery, NoData, NoOutcome

VARIABLES
  query,   \* by ID: the question, how each zone stands and what it told
  outcome  \* the query the last step finished, if it did

rvars == <<query, outcome>>

Statuses == {"unasked", "awaited", "failed", "answered"}

Matches(d, z) == d.status[z] = "answered" /\ IsMatch(z, d.q.qtype, d.told[z].b)

Settled(d, z) == d.status[z] # "awaited"

(* Zone w is the first that matches, whatever the zones still awaited tell.*)
Wins(d, w) ==
  /\ Matches(d, w)
  /\ \A v \in 0 .. w - 1 : Settled(d, v) /\ ~Matches(d, v)

Decided(d) == (\E w \in Zones : Wins(d, w)) \/ \A z \in Zones : Settled(d, z)

(* The zone whose answer is given, if any                                  *)
Chosen(d, w) ==
  \/ w \in Zones /\ Wins(d, w)
  \/ /\ \A z \in Zones : ~Matches(d, z)
     /\ w = IF d.status[0] = "answered" THEN 0 ELSE NumZones

Given(id, d, w) ==
  [id   |-> id,
   data |-> IF w = NumZones THEN NoData ELSE d.told[w],
   sent |-> w # NumZones /\ Rewritable(w, d.q.qtype, d.told[w].b)]

RInit == query = [id \in IDs |-> NoQuery] /\ outcome = NoOutcome

Ask(id, q, failed) ==
  /\ query[id] = NoQuery
  /\ failed \subseteq Asked(q.qtype)
  /\ query' = [query EXCEPT ![id] =
       [q      |-> q,
        status |-> [z \in Zones |-> IF z \notin Asked(q.qtype) THEN "unasked"
                                    ELSE IF z \in failed THEN "failed" ELSE "awaited"],
        told   |-> [z \in Zones |-> NoData]]]
  /\ outcome' = NoOutcome

Tell(id, z, b) ==
  /\ query[id] # NoQuery
  /\ query[id].status[z] = "awaited"
  /\ LET d == [query[id] EXCEPT !.status[z] = "answered",
                                !.told[z] = [q |-> query[id].q, b |-> b]]
     IN  IF Decided(d)
         THEN /\ query' = [query EXCEPT ![id] = NoQuery]
              /\ \E w \in 0 .. NumZones : Chosen(d, w) /\ outcome' = Given(id, d, w)
         ELSE /\ query' = [query EXCEPT ![id] = d]
              /\ outcome' = NoOutcome

Lose(z) ==
  /\ query' = [id \in IDs |->
       IF query[id] # NoQuery /\ query[id].status[z] = "awaited"
       THEN [query[id] EXCEPT !.status[z] = "failed"] ELSE query[id]]
  /\ outcome' = NoOutcome

Forget == query' = [id \in IDs |-> NoQuery] /\ outcome' = NoOutcome

(* The answer has been given.                                              *)
Rest == UNCHANGED query /\ outcome' = NoOutcome

RNext ==
  \/ Rest
  \/ Forget
  \/ \E z \in Zones : Lose(z)
  \/ \E id \in IDs, z \in Zones, b \in Bodies : Tell(id, z, b)
  \/ \E id \in IDs, q \in Questions, failed \in SUBSET Zones : Ask(id, q, failed)

RSpec == RInit /\ [][RNext]_rvars
===============================================================================
