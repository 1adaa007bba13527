----------------------------- MODULE DNSQueryWork -----------------------------
(***************************************************************************)
(* One client's transaction (class DNSQureyWork): the queries the client   *)
(* has outstanding, one connected UDP socket per zone, and the choice of   *)
(* the answer the client gets.  The environment is the client, which sends *)
(* queries, the kernel, which takes or refuses packets, and the upstreams, *)
(* which answer in any order.  Env names the behaviours of the environment *)
(* an instance admits:                                                     *)
(*   "retransmit"  the client repeats a query, answered meanwhile or not   *)
(*   "reuse"       the client asks anything under any ID; without it, a    *)
(*                 new question only under an ID that is not in use and    *)
(*                 that no zone owes an answer any more                    *)
(*   "short"       the client sends a packet without an ID                 *)
(*   "duplicate"   a query reaches its upstream, or an answer the server,  *)
(*                 more than once                                          *)
(*   "again"       a socket is not ready to send                           *)
(*   "fail"        a socket refuses to send                                *)
(*   "disconnect"  a socket reports an error (ICMP unreachable)            *)
(*   "timeout"     the transaction is left untouched for ten seconds       *)
(* The bound is MaxPackets, the queries the client sends before the        *)
(* transaction closes.                                                     *)
(***************************************************************************)
EXTENDS ZonePolicy, DNSConnect, FiniteSets

CONSTANTS
  IDs,         \* query IDs the client uses
  Questions,   \* records [name, qtype]
  Bodies,      \* what upstreams answer, records as in Answers
  Locals,      \* addresses of this host a query can be sent to
  Upstreams,   \* sets of zones whose upstream a socket can be connected to
  MaxPackets,  \* bound on the packets of one transaction
  Env,         \* the behaviours of the environment
  NoItem, NoData, NoQuery, NoOutcome

Packets == [id : IDs, q : Questions]

Replies == [q : Questions, b : Bodies]

NoZone == NumZones

Behaviours ==
  {"retransmit", "reuse", "short", "duplicate", "again", "fail", "disconnect", "timeout"}

ASSUME EnvironmentAssumption ==
  /\ \A q \in Questions : q.qtype \in QTypes
  /\ \A b \in Bodies : b \in Answers(b.v4.judged + b.v6.judged)
  /\ \A up \in Upstreams : up \subseteq Zones
  /\ MaxPackets \in Nat
  /\ Env \subseteq Behaviours

(* What is remembered of the packet that made an item                      *)
Origins == [q : Questions, local : Locals, owed : [Zones -> SUBSET Questions]]

(* The other values are not mistaken for items, data or queries.           *)
ASSUME NoValueAssumption ==
  /\ NoItem \notin [qtype : QTypes, maxDone : Zones, state : [Zones -> States],
                    data : [Zones -> Replies \cup {NoData}]]
  /\ NoData \notin Replies
  /\ NoQuery \notin Origins
  /\ NoOutcome \notin
       [id : IDs, origin : Origins, state : [Zones -> States],
        winner : 0 .. NumZones, data : Replies \cup {NoData}, sent : BOOLEAN, local : Locals]

(* DNSQureyWorkItem with its vector of DNSQueryResultItem                  *)
Items == [qtype   : QTypes,                          \* m_uQType
          maxDone : Zones,                           \* m_nMaxDoneIndex
          state   : [Zones -> States],               \* m_eState of every zone
          data    : [Zones -> Replies \cup {NoData}] \* m_sDNSData of every zone
         ]

VARIABLES
  open,      \* the transaction is in the WorkManager
  items,     \* m_mwDNSQureyWorkItems
  conns,     \* m_vsDNSConnects
  idle,      \* the client's key is in m_ssIdle
  local,     \* m_raReply.piLocal
  flight,    \* queries on their way to an upstream or back, by zone
  packets,   \* how many packets the client has sent
  origin,    \* by ID, the packet that made the latest item, and what else
             \* each zone was or is asked under that ID (history)
  finished   \* the query the last step finished, if it did (history)

vars == <<open, items, conns, idle, local, flight, packets, origin, finished>>

Outcomes ==
  [id : IDs, origin : Origins, state : [Zones -> States],
   winner : 0 .. NumZones, data : Replies \cup {NoData}, sent : BOOLEAN, local : Locals]

TypeOK ==
  /\ open \in BOOLEAN
  /\ items \in [IDs -> Items \cup {NoItem}]
  /\ conns \in [Zones -> Conn(Packets)]
  /\ idle \in BOOLEAN
  /\ local \in Locals
  /\ flight \in [Zones -> SUBSET Packets]
  /\ packets \in 0 .. MaxPackets
  /\ origin \in [IDs -> Origins \cup {NoQuery}]
  /\ finished \in Outcomes \cup {NoOutcome}

Live == {id \in IDs : items[id] # NoItem}

(* What the upstream of a zone may still answer: the queries queued in     *)
(* front of its socket and those on their way.                             *)
Pending(z) == flight[z] \cup Waiting(conns[z])

(* The questions a zone owes an answer under an ID                         *)
Owed(z, id) == {p.q : p \in {r \in Pending(z) : r.id = id}}

-------------------------------------------------------------------------------
(* Opening and closing                                                     *)

Nothing == [id \in IDs |-> NoItem]
NoSockets == [z \in Zones |-> Connected(FALSE)]
NothingSent == [z \in Zones |-> {}]
NothingAsked == [id \in IDs |-> NoQuery]

Init ==
  /\ open = FALSE
  /\ items = Nothing
  /\ conns = NoSockets
  /\ idle = FALSE
  /\ local \in Locals
  /\ flight = NothingSent
  /\ packets = 0
  /\ origin = NothingAsked
  /\ finished = NoOutcome

(* Slip: the next transaction hears the answers to the last one.           *)
CloseKeepsSockets ==
  /\ open' = FALSE
  /\ items' = Nothing
  /\ conns' = NoSockets
  /\ idle' = FALSE
  /\ packets' = 0
  /\ origin' = NothingAsked
  /\ finished' = NoOutcome
  /\ UNCHANGED <<local, flight>>

(* Exit closes the sockets: what is still in flight to them is lost.       *)
Close ==
  /\ open' = FALSE
  /\ items' = Nothing
  /\ conns' = NoSockets
  /\ idle' = FALSE
  /\ flight' = NothingSent
  /\ packets' = 0
  /\ origin' = NothingAsked
  /\ finished' = NoOutcome
  /\ UNCHANGED local

(* The sockets of the transaction, made now if there is none (Init).       *)
FoundOrMade(c) ==
  IF open THEN c = conns
          ELSE \E up \in Upstreams : c = [z \in Zones |-> Connected(z \in up)]

-------------------------------------------------------------------------------
(* A packet from the client                                                *)

ClientMaySend(p) ==
  \/ "reuse" \in Env
  \/ "retransmit" \in Env /\ origin[p.id] # NoQuery /\ origin[p.id].q = p.q
  \/ p.id \notin Live /\ \A z \in Zones : Owed(z, p.id) = {}

(* The item of a new query: zones not asked do not match.                  *)
NewItem(p) ==
  [qtype   |-> p.q.qtype,
   maxDone |-> 0,
   state   |-> [z \in Zones |-> IF z \in Asked(p.q.qtype) THEN "WAIT" ELSE "NOT_MATCH"],
   data    |-> [z \in Zones |-> NoData]]

(* Slip: a repeated query asks every zone again.                           *)
ItemForAsksAgain(p) ==
  IF items[p.id] # NoItem THEN [items[p.id] EXCEPT !.state = NewItem(p).state] ELSE NewItem(p)

(* The item of the packet's ID, or a new one                               *)
ItemFor(p) == IF items[p.id] # NoItem THEN items[p.id] ELSE NewItem(p)

(* New or repeated, the packet goes to the zones that are awaited.         *)
Targets(item) == {z \in Zones : item.state[z] = "WAIT"}

Refused(item, c, k) == {z \in Targets(item) : ~Accepts(c[z], k[z])}

AfterRefusals(item, c, k) ==
  [item EXCEPT !.state = [z \in Zones |-> IF z \in Refused(item, c, k) THEN "ERROR" ELSE @[z]]]

(* A new item may hear the answers still owed under its ID in this         *)
(* transaction; a live one those to what is asked under its ID since.      *)
Remembered(p, l, item) ==
  IF items[p.id] = NoItem
  THEN [q     |-> p.q,
        local |-> l,
        owed  |-> [z \in Zones |-> IF open THEN Owed(z, p.id) ELSE {}]]
  ELSE [origin[p.id] EXCEPT !.owed =
          [z \in Zones |-> IF z \in Targets(item) THEN @[z] \cup {p.q} ELSE @[z]]]

(* OnListenRead for one packet: SetLocalAddr, OnRecvData, ServerNewWork.   *)
ServerNewWork(p, l, c, k) ==
  LET item == ItemFor(p)
  IN  /\ packets < MaxPackets
      /\ ClientMaySend(p)
      /\ FoundOrMade(c)
      /\ open' = TRUE
      /\ local' = l
      /\ packets' = packets + 1
      /\ items' = [items EXCEPT ![p.id] = AfterRefusals(item, c, k)]
      /\ conns' = [z \in Zones |->
                     IF z \in Targets(item) THEN AfterSend(c[z], p, k[z]) ELSE c[z]]
      /\ flight' = [z \in Zones |->
                     IF z \in Targets(item) /\ Transmits(c[z], k[z])
                     THEN flight[z] \cup {p} ELSE flight[z]]
      /\ origin' = [origin EXCEPT ![p.id] = Remembered(p, l, item)]
      /\ finished' = NoOutcome
      /\ UNCHANGED idle

(* A packet of one byte: the transaction is made, nothing is asked.        *)
ShortPacket(l, c) ==
  /\ "short" \in Env
  /\ packets < MaxPackets
  /\ FoundOrMade(c)
  /\ open' = TRUE
  /\ local' = l
  /\ packets' = packets + 1
  /\ conns' = c
  /\ finished' = NoOutcome
  /\ UNCHANGED <<items, idle, flight, origin>>

-------------------------------------------------------------------------------
(* An answer from an upstream                                              *)

(* The item once zone z has answered r.                                    *)
Judged(item, z, r) ==
  [item EXCEPT !.state[z] = Verdict(z, item.qtype, r.b), !.data[z] = r]

(* Slip: the first match wins, even before a zone that is awaited.         *)
ScanStopsAtMatch(item, i) ==
  /\ i \in item.maxDone .. NumZones
  /\ \A v \in Zones : item.maxDone <= v /\ v < i => item.state[v] # "MATCH"
  /\ i # NumZones => item.state[i] = "MATCH"

(* The scan from m_nMaxDoneIndex ends at zone i, the first that is awaited *)
(* or matches, or behind the last zone.                                    *)
ScanStopsAt(item, i) ==
  /\ i \in item.maxDone .. NumZones
  /\ \A v \in Zones : item.maxDone <= v /\ v < i => item.state[v] \notin {"WAIT", "MATCH"}
  /\ i # NumZones => item.state[i] \in {"WAIT", "MATCH"}

(* Slip: there is no fallback.                                             *)
WinnerMatchOnly(item, i) == i

(* The zone whose answer is given when the scan has ended at i: the one    *)
(* that matches, else the first unless it failed.                          *)
Winner(item, i) ==
  IF i # NumZones THEN i ELSE IF item.state[0] = "NOT_MATCH" THEN 0 ELSE NoZone

(* SendResult and the query it finishes                                    *)
Outcome(id, item, w) ==
  [id     |-> id,
   origin |-> origin[id],
   state  |-> item.state,
   winner |-> w,
   data   |-> IF w = NoZone THEN NoData ELSE item.data[w],
   sent   |-> w # NoZone /\ Rewritable(w, item.qtype, item.data[w].b),
   local  |-> local]

(* Finish: the item goes, and the last one takes the transaction with it.  *)
Finish(id, item, w) ==
  /\ items' = [items EXCEPT ![id] = NoItem]
  /\ idle' = (idle \/ Live = {id})
  /\ finished' = Outcome(id, item, w)

(* Keep: the item waits for zone i.                                       *)
Keep(id, item, i) ==
  /\ items' = [items EXCEPT ![id] = [item EXCEPT !.maxDone = i]]
  /\ finished' = NoOutcome
  /\ UNCHANGED idle

(* Slip: a query no zone's answer matches is not finished.                 *)
DNSQueryResultMayStay(z, id, r) ==
  IF items[id] = NoItem
  THEN finished' = NoOutcome /\ UNCHANGED <<items, idle>>
  ELSE LET item == Judged(items[id], z, r)
       IN \E i \in 0 .. NumZones :
            /\ ScanStopsAt(item, i)
            /\ IF i # NumZones /\ item.state[i] # "WAIT"
               THEN Finish(id, item, Winner(item, i))
               ELSE Keep(id, item, IF i # NumZones THEN i ELSE item.maxDone)

DNSQueryResult(z, id, r) ==
  IF items[id] = NoItem
  THEN finished' = NoOutcome /\ UNCHANGED <<items, idle>>
  ELSE LET item == Judged(items[id], z, r)
       IN \E i \in 0 .. NumZones :
            /\ ScanStopsAt(item, i)
            /\ IF i # NumZones /\ item.state[i] = "WAIT"
               THEN Keep(id, item, i)
               ELSE Finish(id, item, Winner(item, i))

(* Read: one answer, to a query that has reached the upstream.             *)
Read(z, p, b) ==
  /\ conns[z].watched
  /\ p \in flight[z]
  /\ \/ flight' = [flight EXCEPT ![z] = @ \ {p}]
     \/ "duplicate" \in Env /\ UNCHANGED flight
  /\ DNSQueryResult(z, p.id, [q |-> p.q, b |-> b])
  /\ UNCHANGED <<open, conns, local, packets, origin>>

(* Write: the first n queued queries are taken, those in lost with an error*)
Write(z, n, lost) ==
  LET queue == conns[z].queue
  IN  /\ conns[z].watched
      /\ n \in 1 .. Len(queue)
      /\ lost = {} \/ "fail" \in Env
      /\ conns' = [conns EXCEPT ![z] = AfterWrite(@, n)]
      /\ flight' = [flight EXCEPT ![z] = @ \cup {queue[j] : j \in (1 .. n) \ lost}]
      /\ finished' = NoOutcome
      /\ UNCHANGED <<open, items, idle, local, packets, origin>>

(* Slip: every query fails at the zone, awaiting it or not.                *)
DNSQueryDisconnectAll(z) ==
  /\ "disconnect" \in Env
  /\ conns[z].watched
  /\ conns' = [conns EXCEPT ![z] = AfterDisconnect(@)]
  /\ items' = [id \in IDs |->
                 IF id \in Live THEN [items[id] EXCEPT !.state[z] = "ERROR"] ELSE NoItem]
  /\ finished' = NoOutcome
  /\ UNCHANGED <<open, idle, local, flight, packets, origin>>

(* Disconnect: every query awaiting the zone has failed there.  No query   *)
(* is scanned.                                                             *)
DNSQueryDisconnect(z) ==
  /\ "disconnect" \in Env
  /\ conns[z].watched
  /\ conns' = [conns EXCEPT ![z] = AfterDisconnect(@)]
  /\ items' = [id \in IDs |->
                 IF id \in Live /\ items[id].state[z] = "WAIT"
                 THEN [items[id] EXCEPT !.state[z] = "ERROR"]
                 ELSE items[id]]
  /\ finished' = NoOutcome
  /\ UNCHANGED <<open, idle, local, flight, packets, origin>>

-------------------------------------------------------------------------------
(* The end of a round of events                                            *)

CloseIdle ==
  /\ idle
  /\ IF Live = {}
     THEN Close
     ELSE idle' = FALSE /\ finished' = NoOutcome
          /\ UNCHANGED <<open, items, conns, local, flight, packets, origin>>

(* ClearTimeout runs after CloseIdle.                                      *)
Timeout ==
  /\ "timeout" \in Env
  /\ open /\ ~idle
  /\ Close

KernelAnswers == {"sent"} \cup (Env \cap {"again", "fail"})

(* The sockets a packet can find or make                                   *)
Sockets == {conns} \cup {[z \in Zones |-> Connected(z \in up)] : up \in Upstreams}

Receive == \E p \in Packets, l \in Locals, c \in Sockets, k \in [Zones -> KernelAnswers] :
             ServerNewWork(p, l, c, k)

ReceiveShort == \E l \in Locals, c \in Sockets : ShortPacket(l, c)

ReadAnswerTo(z, id) == \E p \in flight[z], b \in Bodies : p.id = id /\ Read(z, p, b)

ReadSome(z) == \E id \in IDs : ReadAnswerTo(z, id)

WriteSome(z) == \E n \in 1 .. Len(conns[z].queue) : \E lost \in SUBSET (1 .. n) : Write(z, n, lost)

Next ==
  \/ Receive
  \/ ReceiveShort
  \/ \E z \in Zones : ReadSome(z) \/ WriteSome(z) \/ DNSQueryDisconnect(z)
  \/ CloseIdle
  \/ Timeout

Spec == Init /\ [][Next]_vars

(* The loop serves every socket that epoll keeps reporting, an upstream    *)
(* answers each query that has reached it, and a full socket buffer drains.*)
Fairness ==
  /\ \A z \in Zones : WF_vars(WriteSome(z)) /\ \A id \in IDs : WF_vars(ReadAnswerTo(z, id))
  /\ WF_vars(CloseIdle)
  /\ WF_vars(Timeout)

LiveSpec == Spec /\ Fairness
-------------------------------------------------------------------------------
(* Properties                                                              *)

(* The scan cursor: no zone before m_nMaxDoneIndex is awaited, and the     *)
(* zone at it is awaited or has failed since.  DNSQueryResult never looks  *)
(* before the cursor again, so a zone awaited there could never be taken.  *)
CursorHolds(item) ==
  /\ \A v \in Zones : v < item.maxDone => item.state[v] # "WAIT"
  /\ item.state[item.maxDone] \in {"WAIT", "ERROR"}

ScanCursor == \A id \in Live : CursorHolds(items[id])

(* A query that stays unanswered although no zone is awaited any more has  *)
(* lost a zone to an error: a query whose zones have all answered is       *)
(* always finished by the last of them (DNSQueryResult's scan).            *)
StrandedOnlyByFailure ==
  \A id \in Live :
    (\A z \in Zones : items[id].state[z] # "WAIT")
      => \E z \in Zones : items[id].state[z] = "ERROR"

(* A zone that matches, and zone 0 when it does not, has an answer stored: *)
(* the two states in which SendResult is given it.                         *)
DataHolds(item) ==
  /\ \A z \in Zones : item.state[z] = "MATCH" => item.data[z] # NoData
  /\ item.state[0] = "NOT_MATCH" => item.data[0] # NoData

(* What SendResult is given is an answer a zone has sent, never the empty  *)
(* m_sDNSData of a zone that was not asked or has not answered.            *)
NeverSendsEmpty ==
  finished # NoOutcome /\ finished.winner # NoZone => finished.data # NoData

(* The client gets the answer of the first zone, in priority order, that   *)
(* matches; every zone before the winner has settled without a match.      *)
FirstMatchWins ==
  finished # NoOutcome =>
    LET s == finished.state
        w == finished.winner
    IN  \/ w # NoZone /\ s[w] = "MATCH" /\ \A v \in 0 .. w - 1 : s[v] \in {"ERROR", "NOT_MATCH"}
        \/ w \in {0, NoZone} /\ \A v \in Zones : s[v] \in {"ERROR", "NOT_MATCH"}

(* README: when no zone's answer matches, the first zone's answer is       *)
(* returned; if the first zone failed, nothing is returned.                *)
SilentOnlyIfFirstFailed ==
  finished # NoOutcome /\ finished.winner = NoZone => finished.state[0] = "ERROR"

(* Answers are told apart by their ID alone, so the answer given to a      *)
(* query may be one to another question.  It is one only if the zone it    *)
(* came from was asked that question too, by the same client, under the    *)
(* same ID: before the query, and owed the answer still when the query     *)
(* came, or while the query was live.  What other zones were asked, what   *)
(* was answered before and what an earlier transaction asked has no part.  *)
WrongAnswerOnlyIfOwed ==
  finished # NoOutcome /\ finished.winner # NoZone =>
    \/ finished.data.q = finished.origin.q
    \/ finished.data.q \in finished.origin.owed[finished.winner]

(* README: an IPv6 answer leaves from the address the query was sent to.   *)
LeavesFromAskedAddress ==
  finished # NoOutcome /\ finished.sent => finished.local = finished.origin.local

(* A zone a query waits for still has something to answer: its query is    *)
(* queued or in flight, on a socket.  (No send fails, no socket is lost.)  *)
AwaitedIsPending ==
  \A id \in Live : \A z \in Zones : items[id].state[z] = "WAIT" =>
    conns[z].up /\ \E p \in Pending(z) : p.id = id

(* Every query of the client is finished in the end, by the answers of its *)
(* zones: closing a transaction that was idle does not drop it.            *)
EveryQueryFinishes ==
  \A id \in IDs : (items[id] # NoItem) ~> (finished # NoOutcome /\ finished.id = id)

(* README: when no zone's answer matches, the first zone's answer is       *)
(* returned (the first zone did not fail).                                 *)
FallbackReturned ==
  \A id \in IDs :
    (/\ items[id] # NoItem
     /\ items[id].state[0] = "NOT_MATCH"
     /\ \A z \in Zones : items[id].state[z] \in {"ERROR", "NOT_MATCH"})
      ~> (finished # NoOutcome /\ finished.id = id /\ finished.winner = 0)

(* Without repeated queries and answers the transaction does what          *)
(* Resolution promises: the scan from the cursor over stored verdicts, and *)
(* the queues in front of the sockets, change nothing.  A zone that was    *)
(* not asked does not match, and has no answer stored.                     *)
Standing(item, z) ==
  IF item.state[z] \in {"MATCH", "NOT_MATCH"}
  THEN IF item.data[z] = NoData THEN "unasked" ELSE "answered"
  ELSE IF item.state[z] = "WAIT" THEN "awaited" ELSE "failed"

(* What of a query, and of the query just finished, Resolution keeps       *)
AsQuery(id) ==
  IF items[id] = NoItem THEN NoQuery
  ELSE [q      |-> origin[id].q,
        status |-> [z \in Zones |-> Standing(items[id], z)],
        told   |-> items[id].data]

AsOutcome ==
  IF finished = NoOutcome THEN NoOutcome
  ELSE [id |-> finished.id, data |-> finished.data, sent |-> finished.sent]

Promised == INSTANCE Resolution WITH
  query <- [id \in IDs |-> AsQuery(id)], outcome <- AsOutcome

ASSUME NoPromiseAssumption ==
  NoQuery \notin [q : Questions, status : [Zones -> Promised!Statuses],
                  told : [Zones -> Replies \cup {NoData}]]

ImplementsResolution == Promised!RSpec
===============================================================================
