--------------------------- MODULE Resolution_proofs ---------------------------
(***************************************************************************)
(* What DNSQueryWork guarantees for any zones, policies, packets and       *)
(* sockets when the environment spares it some of its behaviours: which    *)
(* ones, each theorem says.  The last theorem is that it then implements   *)
(* Resolution.                                                             *)
(***************************************************************************)
EXTENDS DNSQueryWork_proofs

-------------------------------------------------------------------------------
(* Queues                                                                  *)

(* A new connection has nothing queued.                                    *)
LEMMA ConnectedWaiting ==
  ASSUME NEW up
  PROVE  Waiting(Connected(up)) = {}
  BY SMT DEF Waiting, Connected

(* A query that is queued joins those that wait; others change nothing.    *)
LEMMA AfterSendWaiting ==
  ASSUME NEW P, NEW c \in Conn(P), NEW p \in P, NEW k
  PROVE  Waiting(AfterSend(c, p, k)) = IF Queues(c, k) THEN Waiting(c) \cup {p} ELSE Waiting(c)
<1>1. CASE ~Queues(c, k)
  BY <1>1 DEF AfterSend
<1>2. CASE Queues(c, k)
  <2> DEFINE q == c.queue
  <2> DEFINE new == Append(q, p)
  <2>1. q \in Seq(P)
    BY DEF Conn
  <2>2. AfterSend(c, p, k).queue = new
    BY <1>2 DEF AfterSend, Conn
  <2> HIDE DEF q
  <2>3. Len(new) = Len(q) + 1 /\ new[Len(q) + 1] = p /\ \A j \in 1 .. Len(q) : new[j] = q[j]
    BY <2>1, SMT
  <2>4. Len(q) \in Nat
    BY <2>1, SMT
  <2> HIDE DEF new
  <2>5. {new[j] : j \in 1 .. Len(new)} = {q[j] : j \in 1 .. Len(q)} \cup {p}
    BY <2>3, <2>4, SMT
  <2> QED
    BY <1>2, <2>2, <2>5 DEF Waiting, q
<1> QED
  BY <1>1, <1>2

(* Those that wait are those Write takes and those it leaves.              *)
LEMMA AfterWriteWaiting ==
  ASSUME NEW P, NEW c \in Conn(P), NEW n \in 1 .. Len(c.queue)
  PROVE  Waiting(c) = {c.queue[j] : j \in 1 .. n} \cup Waiting(AfterWrite(c, n))
<1> DEFINE q == c.queue
<1> DEFINE new == SubSeq(q, n + 1, Len(q))
<1>1. q \in Seq(P) /\ n \in 1 .. Len(q)
  BY DEF Conn
<1>2. AfterWrite(c, n).queue = new
  BY DEF AfterWrite, Conn
<1> HIDE DEF q
<1>3. Len(q) \in Nat /\ Len(new) = Len(q) - n /\ \A j \in 1 .. Len(q) - n : new[j] = q[n + j]
  BY <1>1, SMT
<1> HIDE DEF new
<1>4. ASSUME NEW j \in 1 .. Len(q), ~(j \in 1 .. n)
      PROVE  j - n \in 1 .. Len(new) /\ q[j] = new[j - n]
  BY <1>1, <1>3, <1>4, SMT
<1>5. ASSUME NEW j \in 1 .. Len(new)
      PROVE  n + j \in 1 .. Len(q) /\ new[j] = q[n + j]
  <2>1. n \in Nat /\ j \in 1 .. Len(q) - n
    BY <1>1, <1>3, SMT
  <2>2. n + j \in 1 .. Len(q)
    BY <1>3, <2>1, SMT
  <2> QED
    BY <1>3, <2>1, <2>2
<1>6. 1 .. n \subseteq 1 .. Len(q)
  BY <1>1, <1>3, SMT
<1>7. {q[j] : j \in 1 .. Len(q)} = {q[j] : j \in 1 .. n} \cup {new[j] : j \in 1 .. Len(new)}
  BY <1>4, <1>5, <1>6
<1> QED
  BY <1>2, <1>7 DEF Waiting, q

-------------------------------------------------------------------------------
(* What may still be answered                                              *)

(* The sockets a packet finds have what was queued on them, new ones have  *)
(* nothing.                                                                *)
LEMMA FoundWaiting ==
  ASSUME NEW c, FoundOrMade(c), NEW z \in Zones
  PROVE  \/ open /\ c[z] = conns[z]
         \/ ~open /\ Waiting(c[z]) = {} /\ c[z].queue = <<>> /\ c[z].watched = c[z].up
<1>1. CASE open
  BY <1>1 DEF FoundOrMade
<1>2. CASE ~open
  <2>1. PICK up \in Upstreams : c = [v \in Zones |-> Connected(v \in up)]
    BY <1>2 DEF FoundOrMade
  <2>2. c[z] = Connected(z \in up)
    BY <2>1
  <2> QED
    BY <1>2, <2>2, ConnectedWaiting DEF Connected
<1> QED
  BY <1>1, <1>2

(* A packet adds itself, and only itself, to what the zones it goes to may *)
(* answer.                                                                 *)
LEMMA ReceivePending ==
  ASSUME IInv, NEW p \in Packets, NEW l \in Locals, NEW c, NEW k, ServerNewWork(p, l, c, k),
         NEW z \in Zones
  PROVE  Pending(z)' \subseteq Pending(z) \cup (IF z \in Targets(ItemFor(p)) THEN {p} ELSE {})
<1> DEFINE added == IF z \in Targets(ItemFor(p)) THEN {p} ELSE {}
<1>1. c[z] \in Conn(Packets) /\ (Waiting(c[z]) \subseteq Waiting(conns[z]))
  BY SocketsType, FoundWaiting DEF ServerNewWork, IInv
<1>2. Waiting(conns'[z]) \subseteq Waiting(c[z]) \cup added
  BY <1>1, AfterSendWaiting DEF ServerNewWork
<1>3. flight'[z] \subseteq flight[z] \cup added
  BY DEF ServerNewWork
<1>4. Pending(z)' = flight'[z] \cup Waiting(conns'[z])
  BY DEF Pending, Waiting
<1> QED
  BY <1>1, <1>2, <1>3, <1>4 DEF Pending

(* A step that is not the receipt of a query                               *)
Otherwise ==
  \/ ReceiveShort
  \/ \E z \in Zones : ReadSome(z) \/ WriteSome(z) \/ DNSQueryDisconnect(z)
  \/ CloseIdle
  \/ Timeout
  \/ UNCHANGED vars

(* Nothing else adds to it.                                                *)
LEMMA OtherwisePending ==
  ASSUME IInv, Otherwise, NEW z \in Zones
  PROVE  Pending(z)' \subseteq Pending(z)
<1> DEFINE now == Waiting(conns'[z])
<1>1. Pending(z)' = flight'[z] \cup now
  BY DEF Pending, Waiting
<1>2. TypeOK /\ conns[z] \in Conn(Packets)
  BY DEF IInv, TypeOK
<1>3. CASE ReceiveShort
  <2>1. PICK l \in Locals, c \in Sockets : ShortPacket(l, c)
    BY <1>3 DEF ReceiveShort
  <2>2. flight' = flight /\ now \subseteq Waiting(conns[z])
    BY <2>1, FoundWaiting DEF ShortPacket
  <2> QED
    BY <1>1, <2>2 DEF Pending
<1>4. ASSUME NEW v \in Zones, ReadSome(v)
      PROVE  Pending(z)' \subseteq Pending(z)
  <2>1. conns' = conns /\ \E p \in flight[v] : flight' = [flight EXCEPT ![v] = @ \ {p}] \/ flight' = flight
    BY <1>4 DEF ReadSome, ReadAnswerTo, Read
  <2>2. flight'[z] \subseteq flight[z]
    BY <1>2, <2>1 DEF TypeOK
  <2> QED
    BY <1>1, <2>1, <2>2 DEF Pending
<1>5. ASSUME NEW v \in Zones, WriteSome(v)
      PROVE  Pending(z)' \subseteq Pending(z)
  <2>1. PICK n \in 1 .. Len(conns[v].queue) : \E lost \in SUBSET (1 .. n) : Write(v, n, lost)
    BY <1>5 DEF WriteSome
  <2>2. PICK lost \in SUBSET (1 .. n) : Write(v, n, lost)
    BY <2>1
  <2>3. CASE v # z
    <3>1. flight'[z] = flight[z] /\ conns'[z] = conns[z]
      BY <1>2, <2>2, <2>3 DEF Write, TypeOK
    <3> QED
      BY <1>1, <3>1 DEF Pending
  <2>4. CASE v = z
    <3>1. conns'[z] = AfterWrite(conns[z], n)
      BY <1>2, <2>2, <2>4 DEF Write, TypeOK
    <3>2. flight'[z] \subseteq flight[z] \cup {conns[z].queue[j] : j \in 1 .. n}
      BY <1>2, <2>2, <2>4 DEF Write, TypeOK
    <3>3. Waiting(conns[z]) = {conns[z].queue[j] : j \in 1 .. n} \cup now
      BY <1>2, <2>4, <3>1, AfterWriteWaiting
    <3> QED
      BY <1>1, <3>2, <3>3 DEF Pending
  <2> QED
    BY <2>3, <2>4
<1>6. ASSUME NEW v \in Zones, DNSQueryDisconnect(v)
      PROVE  Pending(z)' \subseteq Pending(z)
  <2>1. flight' = flight /\ conns' = [conns EXCEPT ![v] = AfterDisconnect(@)]
    BY <1>6 DEF DNSQueryDisconnect
  <2>2. conns'[z].queue = conns[z].queue
    BY <1>2, <2>1 DEF AfterDisconnect, TypeOK, Conn
  <2> QED
    BY <1>1, <2>1, <2>2 DEF Pending, Waiting
<1>7. ASSUME Close
      PROVE  Pending(z)' \subseteq Pending(z)
  <2>1. flight'[z] = {} /\ conns'[z] = Connected(FALSE)
    BY <1>7 DEF Close, NothingSent, NoSockets
  <2> QED
    BY <1>1, <2>1, ConnectedWaiting
<1>8. ASSUME UNCHANGED <<conns, flight>>
      PROVE  Pending(z)' \subseteq Pending(z)
  BY <1>1, <1>8 DEF Pending
<1> QED
  BY <1>3, <1>4, <1>5, <1>6, <1>7, <1>8 DEF Otherwise, CloseIdle, Timeout, vars
-------------------------------------------------------------------------------
(* Questions                                                               *)

(* The questions a query may hear an answer to from a zone                 *)
Answerable(id, z) == {origin[id].q} \cup origin[id].owed[z]

(* The item of a query is about its question, what is stored is answerable *)
(* there, and so is what is pending under its ID; no transaction starts    *)
(* with anything pending: this makes WrongAnswerOnlyIfOwed inductive.      *)
TracedItem(id) ==
  /\ items[id].qtype = origin[id].q.qtype
  /\ \A z \in Zones : items[id].data[z] # NoData => items[id].data[z].q \in Answerable(id, z)

Traced ==
  /\ ~open => \A z \in Zones : Pending(z) = {}
  /\ \A z \in Zones : \A p \in Pending(z) : p.id \in Live => p.q \in Answerable(p.id, z)
  /\ \A id \in Live : TracedItem(id)
  /\ WrongAnswerOnlyIfOwed

(* A step that leaves the items and the origins, and adds nothing pending, *)
(* leaves the invariant.                                                   *)
LEMMA TracedUntouched ==
  ASSUME Traced, \A z \in Zones : Pending(z)' \subseteq Pending(z),
         UNCHANGED <<items, origin>>, finished' = NoOutcome, ~open' => ~open
  PROVE  Traced'
<1>1. Live' = Live /\ \A id, z : Answerable(id, z)' = Answerable(id, z)
  BY DEF Live, Answerable
<1>2. \A id \in Live' : TracedItem(id)'
  BY <1>1 DEF Traced, TracedItem
<1>3. WrongAnswerOnlyIfOwed'
  BY DEF WrongAnswerOnlyIfOwed
<1> QED
  BY <1>1, <1>2, <1>3 DEF Traced

LEMMA ClosePending ==
  ASSUME Close, NEW z \in Zones
  PROVE  Pending(z)' = {}
<1>1. flight'[z] = {} /\ conns'[z] = Connected(FALSE)
  BY DEF Close, NothingSent, NoSockets
<1> QED
  BY <1>1, ConnectedWaiting DEF Pending, Waiting

LEMMA CloseTraced ==
  ASSUME Close
  PROVE  Traced'
<1>1. Live' = {}
  BY DEF Close, Live, Nothing
<1>2. WrongAnswerOnlyIfOwed'
  BY DEF Close, WrongAnswerOnlyIfOwed
<1> QED
  BY <1>1, <1>2, ClosePending DEF Traced

(* A new item remembers what is pending under its ID; a live one what is   *)
(* sent on under its ID to the zones it still waits for.                   *)
LEMMA ReceiveTraced ==
  ASSUME IInv, Traced, NEW p \in Packets, NEW l \in Locals, NEW c, NEW k,
         ServerNewWork(p, l, c, k)
  PROVE  Traced'
<1> DEFINE item == ItemFor(p)
<1> DEFINE new == AfterRefusals(item, c, k)
<1> DEFINE made == Remembered(p, l, item)
<1>1. TypeOK /\ p.id \in IDs /\ open' = TRUE
  BY DEF IInv, Packets, ServerNewWork
<1>2. /\ made \in Origins
      /\ items[p.id] = NoItem =>
           made.q = p.q /\ \A z \in Zones : made.owed[z] = IF open THEN Owed(z, p.id) ELSE {}
      /\ items[p.id] # NoItem =>
           /\ made.q = origin[p.id].q
           /\ \A z \in Zones : made.owed[z] = origin[p.id].owed[z] \cup
                                            (IF z \in Targets(item) THEN {p.q} ELSE {})
  BY RememberedSound
<1>3. /\ origin' = [origin EXCEPT ![p.id] = made] /\ items' = [items EXCEPT ![p.id] = new]
      /\ finished' = NoOutcome
  BY DEF ServerNewWork
<1>4. item \in Items
  BY ItemForSound
<1>5. new.qtype = item.qtype /\ new.data = item.data
  BY <1>4 DEF AfterRefusals, Items
<1>6. \A z \in Zones : Pending(z)' \subseteq Pending(z) \cup (IF z \in Targets(item) THEN {p} ELSE {})
  BY ReceivePending
<1>7. /\ items[p.id] = NoItem => item.qtype = p.q.qtype /\ \A z \in Zones : item.data[z] = NoData
      /\ items[p.id] # NoItem => item = items[p.id] /\ p.id \in Live
  BY <1>1 DEF ItemFor, NewItem, Live
<1> HIDE DEF item, new, made
<1>8. /\ origin'[p.id] = made /\ items'[p.id] = new
      /\ \A id \in IDs \ {p.id} : origin'[id] = origin[id] /\ items'[id] = items[id]
  BY <1>1, <1>3 DEF TypeOK
<1>9. \A id \in Live' : id = p.id \/ (id \in Live /\ id # p.id)
  BY <1>8 DEF Live
<1>10. \A z \in Zones : Answerable(p.id, z)' = {made.q} \cup made.owed[z]
  BY <1>8 DEF Answerable
<1>11. ASSUME NEW z \in Zones, items[p.id] # NoItem
       PROVE  Answerable(p.id, z) \subseteq Answerable(p.id, z)'
  BY <1>2, <1>10, <1>11 DEF Answerable
<1>12. ASSUME NEW z \in Zones, NEW r \in Pending(z)', r.id \in Live'
       PROVE  r.q \in Answerable(r.id, z)'
  <2>1. CASE r.id # p.id
    <3>1. r \in Pending(z) /\ r.id \in Live /\ r.id \in IDs
      BY <1>6, <1>9, <1>12, <2>1 DEF Live
    <3> QED
      BY <1>8, <2>1, <3>1 DEF Traced, Answerable
  <2>2. CASE r \notin Pending(z)
    <3>1. r = p /\ z \in Targets(item)
      BY <1>6, <1>12, <2>2
    <3> QED
      BY <1>2, <1>10, <3>1
  <2>3. CASE r \in Pending(z) /\ r.id = p.id /\ items[p.id] = NoItem
    <3>1. open
      BY <2>3 DEF Traced
    <3>2. r.q \in Owed(z, p.id)
      BY <2>3 DEF Owed
    <3> QED
      BY <1>2, <1>10, <2>3, <3>1, <3>2
  <2>4. CASE r \in Pending(z) /\ r.id = p.id /\ items[p.id] # NoItem
    <3>1. r.q \in Answerable(p.id, z)
      BY <1>7, <2>4 DEF Traced
    <3> QED
      BY <1>11, <2>4, <3>1
  <2> QED
    BY <2>1, <2>2, <2>3, <2>4
<1>13. ASSUME NEW id \in Live'
       PROVE  TracedItem(id)'
  <2>1. CASE id = p.id /\ items[p.id] = NoItem
    BY <1>2, <1>5, <1>7, <1>8, <2>1 DEF TracedItem
  <2>2. CASE id = p.id /\ items[p.id] # NoItem
    <3>1. /\ item.qtype = origin[p.id].q.qtype
          /\ \A z \in Zones : item.data[z] # NoData => item.data[z].q \in Answerable(p.id, z)
      BY <1>7, <2>2 DEF Traced, TracedItem
    <3>2. \A z \in Zones : item.data[z] # NoData => item.data[z].q \in Answerable(p.id, z)'
      BY <1>11, <2>2, <3>1
    <3> QED
      BY <1>2, <1>5, <1>8, <2>2, <3>1, <3>2 DEF TracedItem
  <2>3. CASE id # p.id
    <3>1. id \in Live /\ id \in IDs
      BY <1>9, <2>3 DEF Live
    <3> QED
      BY <1>8, <2>3, <3>1 DEF Traced, TracedItem, Answerable
  <2> QED
    BY <2>1, <2>2, <2>3
<1>14. WrongAnswerOnlyIfOwed'
  BY <1>3 DEF WrongAnswerOnlyIfOwed
<1> QED
  BY <1>1, <1>12, <1>13, <1>14 DEF Traced

(* What an answer stores, and what a finished query gives, answers a       *)
(* packet that was pending.                                                *)
LEMMA ReadTraced ==
  ASSUME IInv, Traced, NEW z \in Zones, NEW p \in flight[z], NEW b \in Bodies, Read(z, p, b),
         \A v \in Zones : Pending(v)' \subseteq Pending(v)
  PROVE  Traced'
<1> DEFINE r == [q |-> p.q, b |-> b]
<1>1. TypeOK /\ p \in Packets
  BY DEF IInv, TypeOK
<1>2. p.id \in IDs /\ r \in Replies /\ r.q = p.q
  BY <1>1 DEF Packets, Replies
<1>3. p.id \in Live => p.q \in Answerable(p.id, z)
  BY DEF Traced, Pending
<1>4. DNSQueryResult(z, p.id, r) /\ origin' = origin /\ open' = open
  BY DEF Read
<1> HIDE DEF r
<1>5. \A id, v : Answerable(id, v)' = Answerable(id, v)
  BY <1>4 DEF Answerable
<1>6. CASE items[p.id] = NoItem
  <2>1. items' = items /\ finished' = NoOutcome
    BY <1>4, <1>6 DEF DNSQueryResult
  <2> QED
    BY <1>4, <2>1, TracedUntouched
<1>7. CASE items[p.id] # NoItem
  <2> DEFINE old == items[p.id]
  <2> DEFINE item == Judged(old, z, r)
  <2>1. p.id \in Live /\ old \in Items
    BY <1>1, <1>2, <1>7 DEF TypeOK, Live
  <2>2. item \in Items /\ item.data[z] = r /\ \A v \in Zones \ {z} : item.data[v] = old.data[v]
    BY <1>2, <2>1, JudgedItem
  <2>3. item.qtype = old.qtype
    BY <2>1 DEF Judged, Items
  <2>4. item.qtype = origin[p.id].q.qtype
    BY <2>1, <2>3 DEF Traced, TracedItem
  <2>5. \A v \in Zones : item.data[v] # NoData => item.data[v].q \in Answerable(p.id, v)
    BY <1>2, <1>3, <2>1, <2>2 DEF Traced, TracedItem
  <2>6. PICK i \in 0 .. NumZones :
          /\ ScanStopsAt(item, i)
          /\ IF i # NumZones /\ item.state[i] = "WAIT"
             THEN Keep(p.id, item, i)
             ELSE Finish(p.id, item, Winner(item, i))
    BY <1>4, <1>7 DEF DNSQueryResult
  <2>7. CASE i # NumZones /\ item.state[i] = "WAIT"
    <3> HIDE DEF item
    <3> DEFINE new == [item EXCEPT !.maxDone = i]
    <3>1. new.qtype = item.qtype /\ new.data = item.data
      BY <2>2 DEF Items
    <3>2. items' = [items EXCEPT ![p.id] = new] /\ finished' = NoOutcome
      BY <2>6, <2>7 DEF Keep
    <3> HIDE DEF new
    <3>3. ASSUME NEW id \in Live'
          PROVE  id \in Live /\ items'[id] = IF id = p.id THEN new ELSE items[id]
      BY <1>1, <1>2, <2>1, <3>2 DEF Live, TypeOK
    <3>4. ASSUME NEW id \in Live'
          PROVE  TracedItem(id)'
      BY <1>4, <1>5, <2>4, <2>5, <3>1, <3>3 DEF Traced, TracedItem
    <3>5. WrongAnswerOnlyIfOwed'
      BY <3>2 DEF WrongAnswerOnlyIfOwed
    <3> QED
      BY <1>4, <1>5, <3>3, <3>4, <3>5 DEF Traced
  <2>8. CASE ~(i # NumZones /\ item.state[i] = "WAIT")
    <3> HIDE DEF item
    <3> DEFINE w == Winner(item, i)
    <3>1. DataHolds(item)
      BY <1>2, <2>1, JudgedData DEF item, IInv
    <3>2. w # NoZone => w \in Zones /\ item.data[w] # NoData
      BY <2>2, <2>6, <2>8, <3>1, WinnerHasData
    <3>3. Finish(p.id, item, w)
      BY <2>6, <2>8
    <3> HIDE DEF w
    <3>4. items' = [items EXCEPT ![p.id] = NoItem] /\ finished' = Outcome(p.id, item, w)
      BY <3>3 DEF Finish
    <3>5. /\ finished'.winner = w /\ finished'.origin = origin[p.id]
          /\ finished'.data = IF w = NoZone THEN NoData ELSE item.data[w]
      BY <3>4 DEF Outcome
    <3>6. WrongAnswerOnlyIfOwed'
      BY <2>5, <3>2, <3>5 DEF WrongAnswerOnlyIfOwed, Answerable
    <3>7. ASSUME NEW id \in Live'
          PROVE  id \in Live /\ items'[id] = items[id]
      BY <1>1, <3>4 DEF Live, TypeOK
    <3>8. ASSUME NEW id \in Live'
          PROVE  TracedItem(id)'
      BY <1>4, <1>5, <3>7 DEF Traced, TracedItem
    <3> QED
      BY <1>4, <1>5, <3>6, <3>7, <3>8 DEF Traced
  <2> QED
    BY <2>7, <2>8
<1> QED
  BY <1>6, <1>7

LEMMA DisconnectTraced ==
  ASSUME IInv, Traced, NEW z \in Zones, DNSQueryDisconnect(z),
         \A v \in Zones : Pending(v)' \subseteq Pending(v)
  PROVE  Traced'
<1>1. TypeOK /\ origin' = origin /\ open' = open /\ finished' = NoOutcome
  BY DEF IInv, DNSQueryDisconnect
<1>2. ASSUME NEW id \in Live'
      PROVE  id \in Live /\ items'[id].qtype = items[id].qtype /\ items'[id].data = items[id].data
  <2>1. CASE id \in Live /\ items[id].state[z] = "WAIT"
    <3>1. items'[id] = [items[id] EXCEPT !.state[z] = "ERROR"] /\ items[id] \in Items
      BY <1>1, <2>1 DEF DNSQueryDisconnect, TypeOK, Live
    <3> QED
      BY <2>1, <3>1 DEF Items
  <2>2. CASE ~(id \in Live /\ items[id].state[z] = "WAIT")
    <3>1. items'[id] = items[id] /\ id \in IDs /\ items'[id] # NoItem
      BY <1>2, <2>2 DEF DNSQueryDisconnect, Live
    <3> QED
      BY <3>1 DEF Live
  <2> QED
    BY <2>1, <2>2
<1>3. \A id, v : Answerable(id, v)' = Answerable(id, v)
  BY <1>1 DEF Answerable
<1>4. \A id \in Live' : TracedItem(id)'
  BY <1>1, <1>2, <1>3 DEF Traced, TracedItem
<1>5. WrongAnswerOnlyIfOwed'
  BY <1>1 DEF WrongAnswerOnlyIfOwed
<1> QED
  BY <1>1, <1>2, <1>3, <1>4, <1>5 DEF Traced

LEMMA TracedStep ==
  ASSUME IInv, Traced, [Next]_vars
  PROVE  Traced'
<1>1. CASE Receive
  BY <1>1, ReceiveTraced DEF Receive
<1>2. CASE Otherwise
  <2>1. \A z \in Zones : Pending(z)' \subseteq Pending(z)
    BY <1>2, OtherwisePending
  <2>2. CASE ReceiveShort
    BY <2>1, <2>2, TracedUntouched DEF ReceiveShort, ShortPacket
  <2>3. ASSUME NEW z \in Zones, ReadSome(z) PROVE Traced'
    BY <2>1, <2>3, ReadTraced DEF ReadSome, ReadAnswerTo
  <2>4. ASSUME NEW z \in Zones, WriteSome(z) PROVE Traced'
    BY <2>1, <2>4, TracedUntouched DEF WriteSome, Write
  <2>5. ASSUME NEW z \in Zones, DNSQueryDisconnect(z) PROVE Traced'
    BY <2>1, <2>5, DisconnectTraced
  <2>6. CASE CloseIdle
    BY <2>1, <2>6, CloseTraced, TracedUntouched DEF CloseIdle
  <2>7. CASE Timeout
    BY <2>7, CloseTraced DEF Timeout
  <2>8. CASE UNCHANGED vars
    <3>1. UNCHANGED <<open, items, origin, finished>>
      BY <2>8 DEF vars
    <3> QED
      BY <2>1, <3>1 DEF Traced, TracedItem, Answerable, Live, WrongAnswerOnlyIfOwed
  <2> QED
    BY <1>2, <2>2, <2>3, <2>4, <2>5, <2>6, <2>7, <2>8 DEF Otherwise
<1> QED
  BY <1>1, <1>2 DEF Next, Otherwise

LEMMA InitTraced == Init => Traced
<1> SUFFICES ASSUME Init PROVE Traced
  OBVIOUS
<1>1. \A z \in Zones : Pending(z) = {}
  BY ConnectedWaiting DEF Init, Pending, NothingSent, NoSockets
<1>2. Live = {} /\ WrongAnswerOnlyIfOwed
  BY DEF Init, Live, Nothing, WrongAnswerOnlyIfOwed
<1> QED
  BY <1>1, <1>2 DEF Traced

(* Whatever the client asks under whatever ID, and however often packets   *)
(* arrive: the answer it gets is one to its question, or to one the zone   *)
(* it came from owed this client an answer to under this ID.  Zones, IDs   *)
(* and the transactions of one client are never mixed up.                  *)
THEOREM QuestionsAnswered == Spec => []WrongAnswerOnlyIfOwed
<1>1. IInv /\ Traced /\ [Next]_vars => Traced'
  BY TracedStep
<1>2. Traced => WrongAnswerOnlyIfOwed
  BY DEF Traced
<1> QED
  BY <1>1, <1>2, InitTraced, Invariance, PTL DEF Spec
-------------------------------------------------------------------------------
(* Questions, when nothing is asked under an ID that is owed an answer     *)

Asks(p) == origin[p.id] # NoQuery /\ origin[p.id].q = p.q

(* Nothing is pending, and nothing owed, under an ID but its own question. *)
NothingElse ==
  /\ \A z \in Zones : \A p \in Pending(z) : Asks(p)
  /\ \A id \in IDs : origin[id] # NoQuery =>
       \A z \in Zones : origin[id].owed[z] \subseteq {origin[id].q}
  /\ finished # NoOutcome =>
       \A z \in Zones : finished.origin.owed[z] \subseteq {finished.origin.q}

OwnQuestions == Traced /\ NothingElse

(* The item of a query is about its question, and what is stored answers it*)
OwnItem(id) ==
  /\ items[id].qtype = origin[id].q.qtype
  /\ \A z \in Zones : items[id].data[z] # NoData => items[id].data[z].q = origin[id].q

LEMMA OwnItems ==
  ASSUME IInv, OwnQuestions, NEW id \in Live
  PROVE  OwnItem(id)
<1>1. TracedItem(id) /\ id \in IDs /\ origin[id] # NoQuery
  BY DEF OwnQuestions, Traced, Live, IInv
<1>2. \A z \in Zones : Answerable(id, z) \subseteq {origin[id].q}
  BY <1>1 DEF OwnQuestions, NothingElse, Answerable
<1> QED
  BY <1>1, <1>2 DEF OwnItem, TracedItem

LEMMA ElseUntouched ==
  ASSUME IInv, NothingElse, \A z \in Zones : Pending(z)' \subseteq Pending(z), origin' = origin,
         \/ finished' \in {finished, NoOutcome}
         \/ \E id \in Live : finished'.origin = origin[id]
  PROVE  NothingElse'
<1>1. \A id \in Live : id \in IDs /\ origin[id] # NoQuery
  BY DEF IInv, Live
<1>2. finished' # NoOutcome =>
        \A z \in Zones : finished'.origin.owed[z] \subseteq {finished'.origin.q}
  BY <1>1 DEF NothingElse
<1> QED
  BY <1>2 DEF NothingElse, Asks

LEMMA PendingType ==
  ASSUME TypeOK, NEW z \in Zones
  PROVE  Pending(z) \subseteq Packets
<1>1. flight[z] \subseteq Packets /\ conns[z].queue \in Seq(Packets)
  BY DEF TypeOK, Conn
<1>2. Waiting(conns[z]) \subseteq Packets
  BY <1>1, SMT DEF Waiting
<1> QED
  BY <1>1, <1>2 DEF Pending

LEMMA CloseElse ==
  ASSUME Close
  PROVE  NothingElse'
  BY ClosePending DEF Close, NothingElse, NothingAsked

(* A packet's ID asks the packet's question from now on, as it did before  *)
(* unless nothing was pending under it.                                    *)
LEMMA ReceiveElse ==
  ASSUME IInv, NothingElse, "reuse" \notin Env, NEW p \in Packets, NEW l \in Locals, NEW c, NEW k,
         ServerNewWork(p, l, c, k)
  PROVE  NothingElse'
<1> DEFINE item == ItemFor(p)
<1> DEFINE made == Remembered(p, l, item)
<1>1. TypeOK /\ p.id \in IDs
  BY DEF IInv, Packets
<1>2. /\ made # NoQuery
      /\ items[p.id] = NoItem =>
           made.q = p.q /\ \A z \in Zones : made.owed[z] = IF open THEN Owed(z, p.id) ELSE {}
      /\ items[p.id] # NoItem =>
           /\ made.q = origin[p.id].q
           /\ \A z \in Zones : made.owed[z] = origin[p.id].owed[z] \cup
                                            (IF z \in Targets(item) THEN {p.q} ELSE {})
  BY RememberedSound
<1>3. origin' = [origin EXCEPT ![p.id] = made] /\ finished' = NoOutcome
  BY DEF ServerNewWork
<1>4. \A z \in Zones : Pending(z)' \subseteq Pending(z) \cup {p}
  BY ReceivePending
<1> HIDE DEF item, made
<1>5. origin'[p.id] = made /\ \A id \in IDs \ {p.id} : origin'[id] = origin[id]
  BY <1>1, <1>3 DEF TypeOK
<1>6. items[p.id] # NoItem => origin[p.id] # NoQuery /\ origin[p.id].q = p.q
  <2>1. items[p.id] # NoItem => p.id \in Live
    BY <1>1 DEF Live
  <2> QED
    BY <2>1 DEF ServerNewWork, ClientMaySend
<1>7. made.q = p.q
  BY <1>2, <1>6
<1>8. \A z \in Zones : \A r \in Pending(z) : r.id = p.id => r.q = p.q
  <2>1. CASE origin[p.id].q = p.q
    BY <2>1 DEF NothingElse, Asks
  <2>2. CASE \A z \in Zones : Owed(z, p.id) = {}
    BY <2>2 DEF Owed
  <2> QED
    BY <2>1, <2>2 DEF ServerNewWork, ClientMaySend
<1>9. ASSUME NEW z \in Zones
      PROVE  made.owed[z] \subseteq {p.q}
  <2>1. Owed(z, p.id) \subseteq {p.q}
    BY <1>8 DEF Owed
  <2>2. items[p.id] # NoItem => origin[p.id].owed[z] \subseteq {p.q}
    BY <1>1, <1>6 DEF NothingElse
  <2> QED
    BY <1>2, <2>1, <2>2
<1>10. ASSUME NEW z \in Zones, NEW r \in Pending(z)'
       PROVE  Asks(r)'
  <2>1. CASE r.id = p.id
    BY <1>2, <1>4, <1>5, <1>7, <1>8, <1>10, <2>1 DEF Asks
  <2>2. CASE r.id # p.id
    <3>1. r \in Pending(z) /\ Asks(r)
      BY <1>4, <1>10, <2>2 DEF NothingElse
    <3>2. r \in Packets
      BY <1>1, <3>1, PendingType
    <3> QED
      BY <1>5, <2>2, <3>1, <3>2 DEF Asks, Packets
  <2> QED
    BY <2>1, <2>2
<1> QED
  BY <1>3, <1>5, <1>7, <1>9, <1>10 DEF NothingElse

LEMMA OwnQuestionsStep ==
  ASSUME IInv, OwnQuestions, "reuse" \notin Env, [Next]_vars
  PROVE  OwnQuestions'
<1>1. Traced'
  BY TracedStep DEF OwnQuestions
<1>2. CASE Receive
  BY <1>1, <1>2, ReceiveElse DEF Receive, OwnQuestions
<1>3. CASE Close
  BY <1>1, <1>3, CloseElse DEF OwnQuestions
<1>4. CASE Otherwise /\ ~Close
  <2>1. \A z \in Zones : Pending(z)' \subseteq Pending(z)
    BY <1>4, OtherwisePending
  <2>2. CASE \E z \in Zones : ReadSome(z)
    <3>1. PICK z \in Zones : \E p \in flight[z], b \in Bodies : Read(z, p, b)
      BY <2>2 DEF ReadSome, ReadAnswerTo
    <3> PICK p \in flight[z], b \in Bodies : Read(z, p, b)
      BY <3>1
    <3>2. origin' = origin /\ DNSQueryResult(z, p.id, [q |-> p.q, b |-> b])
      BY DEF Read
    <3>3. p.id \in IDs
      BY DEF IInv, TypeOK, Packets
    <3>4. finished' = NoOutcome \/ (p.id \in Live /\ \E item, w : finished' = Outcome(p.id, item, w))
      BY <3>2, <3>3 DEF DNSQueryResult, Keep, Finish, Live
    <3>5. finished' = NoOutcome \/ (p.id \in Live /\ finished'.origin = origin[p.id])
      BY <3>4 DEF Outcome
    <3> QED
      BY <1>1, <2>1, <3>2, <3>5, ElseUntouched DEF OwnQuestions
  <2>3. CASE ~\E z \in Zones : ReadSome(z)
    <3>1. origin' = origin /\ finished' \in {finished, NoOutcome}
      BY <1>4, <2>3 DEF Otherwise, ReceiveShort, ShortPacket, WriteSome, Write, DNSQueryDisconnect,
                        CloseIdle, Timeout, vars
    <3> QED
      BY <1>1, <2>1, <3>1, ElseUntouched DEF OwnQuestions
  <2> QED
    BY <2>2, <2>3
<1> QED
  BY <1>2, <1>3, <1>4 DEF Next, Otherwise

LEMMA InitOwn == Init => OwnQuestions
<1> SUFFICES ASSUME Init PROVE OwnQuestions
  OBVIOUS
<1>1. \A z \in Zones : Pending(z) = {}
  BY ConnectedWaiting DEF Init, Pending, NothingSent, NoSockets
<1>2. NothingElse
  BY <1>1 DEF Init, NothingElse, NothingAsked
<1> QED
  BY <1>2, InitTraced DEF OwnQuestions

(* The answer given to a query is one to its question.                     *)
RightAnswer ==
  finished # NoOutcome /\ finished.winner # NoZone => finished.data.q = finished.origin.q

LEMMA OwnIsRight ==
  ASSUME IInv, OwnQuestions
  PROVE  RightAnswer
<1> SUFFICES ASSUME finished # NoOutcome, finished.winner # NoZone
             PROVE  finished.data.q = finished.origin.q
  BY DEF RightAnswer
<1>1. finished.winner \in 0 .. NumZones
  BY DEF IInv, TypeOK, Outcomes
<1>2. finished.winner \in Zones
  BY <1>1, PolicyAssumption, SMT DEF NoZone, Zones
<1> QED
  BY <1>2 DEF OwnQuestions, Traced, WrongAnswerOnlyIfOwed, NothingElse

(* As long as a new question is asked only under an ID that is not in use  *)
(* and that no zone owes an answer any more (a query may be repeated, its  *)
(* packets duplicated), the answer to a query is one to its question.      *)
THEOREM RightAnswers == "reuse" \notin Env => (Spec => []RightAnswer)
<1> SUFFICES ASSUME "reuse" \notin Env
             PROVE  Spec => []RightAnswer
  OBVIOUS
<1>1. IInv /\ OwnQuestions /\ [Next]_vars => OwnQuestions'
  BY OwnQuestionsStep
<1>2. IInv /\ OwnQuestions => RightAnswer
  BY OwnIsRight
<1> QED
  BY <1>1, <1>2, InitOwn, Invariance, PTL DEF Spec
-------------------------------------------------------------------------------
(* Answers to come, when no send fails                                     *)

(* A zone a query waits for has a socket and a packet of the query's ID    *)
(* pending; a transaction that is not open has no queries.                 *)
Expected(id, z) == conns[z].up /\ \E p \in Pending(z) : p.id = id

AllExpected ==
  /\ ~open => Live = {}
  /\ \A id \in Live : \A z \in Zones : items[id].state[z] = "WAIT" => Expected(id, z)

(* What is expected stays so if its socket and its packets do.             *)
LEMMA ExpectedStays ==
  ASSUME NEW id, NEW z, Expected(id, z), conns'[z].up = conns[z].up,
         \A p \in Pending(z) : p.id = id => p \in Pending(z)'
  PROVE  Expected(id, z)'
  BY DEF Expected

(* A socket that is there takes the query, sends it or queues it.          *)
LEMMA ReceiveExpected ==
  ASSUME IInv, AllExpected, "fail" \notin Env, NEW p \in Packets, NEW l \in Locals, NEW c,
         NEW k \in [Zones -> KernelAnswers], ServerNewWork(p, l, c, k)
  PROVE  AllExpected'
<1> DEFINE item == ItemFor(p)
<1> DEFINE new == AfterRefusals(item, c, k)
<1>1. TypeOK /\ p.id \in IDs /\ c \in [Zones -> Conn(Packets)] /\ FoundOrMade(c)
  BY SocketsType DEF IInv, Packets, ServerNewWork
<1>2. item \in Items /\ items' = [items EXCEPT ![p.id] = new] /\ open' = TRUE
  BY ItemForSound DEF ServerNewWork
<1>3. ASSUME NEW z \in Zones
      PROVE  /\ conns'[z].up = c[z].up
             /\ flight[z] \subseteq flight'[z] /\ Waiting(c[z]) \subseteq Waiting(conns'[z])
             /\ Pending(z)' = flight'[z] \cup Waiting(conns'[z])
  <2>1. conns'[z] = AfterSend(c[z], p, k[z]) \/ conns'[z] = c[z]
    BY DEF ServerNewWork
  <2>2. c[z] \in Conn(Packets) /\ AfterSend(c[z], p, k[z]).up = c[z].up
    BY <1>1 DEF AfterSend, Conn
  <2>3. Waiting(c[z]) \subseteq Waiting(AfterSend(c[z], p, k[z]))
    BY <2>2, AfterSendWaiting
  <2>4. flight[z] \subseteq flight'[z]
    BY DEF ServerNewWork
  <2> QED
    BY <2>1, <2>2, <2>3, <2>4 DEF Pending, Waiting
<1>4. ASSUME NEW z \in Zones, new.state[z] = "WAIT"
      PROVE  Expected(p.id, z)'
  <2>1. z \in Targets(item) /\ Accepts(c[z], k[z])
    BY <1>2, <1>4 DEF AfterRefusals, Items, Refused, Targets
  <2>2. c[z].up
    BY <2>1 DEF Accepts, Queues, Transmits
  <2>3. CASE Queues(c[z], k[z])
    <3>1. conns'[z] = AfterSend(c[z], p, k[z])
      BY <2>1 DEF ServerNewWork
    <3>2. p \in Waiting(conns'[z])
      BY <1>1, <2>3, <3>1, AfterSendWaiting
    <3> QED
      BY <1>3, <2>2, <3>2 DEF Expected
  <2>4. CASE Transmits(c[z], k[z])
    <3>1. p \in flight'[z]
      BY <2>1, <2>4 DEF ServerNewWork
    <3> QED
      BY <1>3, <2>2, <3>1 DEF Expected
  <2> QED
    BY <2>1, <2>3, <2>4 DEF Accepts
<1>5. ASSUME NEW id \in Live, NEW z \in Zones, items[id].state[z] = "WAIT"
      PROVE  Expected(id, z)'
  <2>1. c[z] = conns[z]
    BY <1>1, <1>5, FoundWaiting DEF AllExpected
  <2>2. Expected(id, z)
    BY <1>5 DEF AllExpected
  <2>3. Pending(z) \subseteq Pending(z)'
    BY <1>3, <2>1 DEF Pending
  <2> QED
    BY <1>3, <2>1, <2>2, <2>3, ExpectedStays
<1> HIDE DEF item, new
<1>6. ASSUME NEW id \in Live', NEW z \in Zones, items'[id].state[z] = "WAIT"
      PROVE  Expected(id, z)'
  <2>1. CASE id = p.id
    BY <1>1, <1>2, <1>4, <1>6, <2>1 DEF TypeOK
  <2>2. CASE id # p.id
    <3>1. id \in Live /\ items'[id] = items[id]
      BY <1>1, <1>2, <2>2 DEF TypeOK, Live
    <3> QED
      BY <1>5, <1>6, <3>1
  <2> QED
    BY <2>1, <2>2
<1> QED
  BY <1>2, <1>6 DEF AllExpected

(* The answer that is taken is no longer expected: its zone has settled.   *)
LEMMA ReadExpected ==
  ASSUME IInv, AllExpected, NEW z \in Zones, NEW p \in flight[z], NEW b \in Bodies, Read(z, p, b)
  PROVE  AllExpected'
<1> DEFINE r == [q |-> p.q, b |-> b]
<1>1. TypeOK /\ p \in Packets
  BY DEF IInv, TypeOK
<1>2. p.id \in IDs /\ r \in Replies
  BY <1>1 DEF Packets, Replies
<1>3. DNSQueryResult(z, p.id, r) /\ UNCHANGED <<open, conns>>
  BY DEF Read
<1>4. flight' = [flight EXCEPT ![z] = @ \ {p}] \/ flight' = flight
  BY DEF Read
<1>5. ASSUME NEW id \in Live, NEW v \in Zones, items[id].state[v] = "WAIT", id # p.id \/ v # z
      PROVE  Expected(id, v)'
  <2>1. \A s \in Pending(v) : s.id = id => s \in Pending(v)'
    BY <1>1, <1>3, <1>4, <1>5 DEF Pending, Waiting, TypeOK
  <2>2. Expected(id, v)
    BY <1>5 DEF AllExpected
  <2> QED
    BY <1>3, <2>1, <2>2, ExpectedStays
<1> HIDE DEF r
<1>6. CASE items[p.id] = NoItem
  <2>1. items' = items /\ p.id \notin Live
    BY <1>3, <1>6 DEF DNSQueryResult, Live
  <2> QED
    BY <1>3, <1>5, <2>1 DEF AllExpected, Live
<1>7. CASE items[p.id] # NoItem
  <2> DEFINE item == Judged(items[p.id], z, r)
  <2>1. p.id \in Live /\ items[p.id] \in Items
    BY <1>1, <1>2, <1>7 DEF TypeOK, Live
  <2>2. /\ item \in Items /\ item.state[z] # "WAIT"
        /\ \A v \in Zones \ {z} : item.state[v] = items[p.id].state[v]
    BY <1>2, <2>1, JudgedItem
  <2>3. PICK i \in 0 .. NumZones :
          items' = [items EXCEPT ![p.id] = NoItem] \/ items' = [items EXCEPT ![p.id] = [item EXCEPT !.maxDone = i]]
    BY <1>3, <1>7 DEF DNSQueryResult, Keep, Finish
  <2> DEFINE new == [item EXCEPT !.maxDone = i]
  <2> HIDE DEF item
  <2>4. new.state = item.state
    BY <2>2 DEF Items
  <2> HIDE DEF new
  <2>5. ASSUME NEW id \in Live'
        PROVE  id \in Live /\ (id # p.id => items'[id] = items[id]) /\ (id = p.id => items'[id] = new)
    BY <1>1, <1>2, <2>1, <2>3 DEF TypeOK, Live, new
  <2>6. ASSUME NEW id \in Live', NEW v \in Zones, items'[id].state[v] = "WAIT"
        PROVE  Expected(id, v)'
    BY <1>5, <2>2, <2>4, <2>5, <2>6
  <2>7. ~open' => Live' = {}
    BY <1>3, <2>5 DEF AllExpected
  <2> QED
    BY <2>6, <2>7 DEF AllExpected
<1> QED
  BY <1>6, <1>7

(* Without errors, what Write takes is on its way.                         *)
LEMMA WriteExpected ==
  ASSUME IInv, AllExpected, "fail" \notin Env, NEW z \in Zones, NEW n, NEW lost, Write(z, n, lost)
  PROVE  AllExpected'
<1>1. TypeOK /\ conns[z] \in Conn(Packets) /\ n \in 1 .. Len(conns[z].queue) /\ lost = {}
  BY DEF IInv, TypeOK, Write
<1>2. UNCHANGED <<open, items>>
  BY DEF Write
<1>3. ASSUME NEW v \in Zones
      PROVE  conns'[v].up = conns[v].up /\ Pending(v) \subseteq Pending(v)'
  <2>1. CASE v # z
    BY <1>1, <2>1 DEF Write, TypeOK, Pending, Waiting
  <2>2. CASE v = z
    <3>1. conns'[z] = AfterWrite(conns[z], n)
      BY <1>1 DEF Write, TypeOK
    <3>2. flight'[z] = flight[z] \cup {conns[z].queue[j] : j \in 1 .. n}
      BY <1>1 DEF Write, TypeOK
    <3>3. Waiting(conns[z]) = {conns[z].queue[j] : j \in 1 .. n} \cup Waiting(conns'[z])
      BY <1>1, <3>1, AfterWriteWaiting
    <3>4. Pending(z)' = flight'[z] \cup Waiting(conns'[z])
      BY DEF Pending, Waiting
    <3>5. conns'[z].up = conns[z].up
      BY <1>1, <3>1 DEF AfterWrite, Conn
    <3> QED
      BY <2>2, <3>2, <3>3, <3>4, <3>5 DEF Pending
  <2> QED
    BY <2>1, <2>2
<1> QED
  BY <1>2, <1>3, ExpectedStays DEF AllExpected, Live

(* A socket that is lost stays, with its queue; no query awaits its zone.  *)
LEMMA DisconnectExpected ==
  ASSUME IInv, AllExpected, NEW z \in Zones, DNSQueryDisconnect(z)
  PROVE  AllExpected'
<1>1. TypeOK /\ UNCHANGED <<open, flight>>
  BY DEF IInv, DNSQueryDisconnect
<1>2. ASSUME NEW v \in Zones
      PROVE  conns'[v].up = conns[v].up /\ Pending(v) \subseteq Pending(v)'
  <2>1. conns' = [conns EXCEPT ![z] = AfterDisconnect(@)]
    BY DEF DNSQueryDisconnect
  <2>2. conns'[v].up = conns[v].up /\ conns'[v].queue = conns[v].queue
    BY <1>1, <2>1 DEF AfterDisconnect, TypeOK, Conn
  <2> QED
    BY <1>1, <2>2 DEF Pending, Waiting
<1>3. ASSUME NEW id \in Live'
      PROVE  /\ id \in Live
             /\ \A v \in Zones : items'[id].state[v] = "WAIT" => items[id].state[v] = "WAIT"
  <2>1. CASE id \in Live /\ items[id].state[z] = "WAIT"
    <3>1. items'[id] = [items[id] EXCEPT !.state[z] = "ERROR"] /\ items[id] \in Items
      BY <1>1, <2>1 DEF DNSQueryDisconnect, TypeOK, Live
    <3> QED
      BY <2>1, <3>1 DEF Items
  <2>2. CASE ~(id \in Live /\ items[id].state[z] = "WAIT")
    <3>1. items'[id] = items[id] /\ id \in IDs /\ items'[id] # NoItem
      BY <1>3, <2>2 DEF DNSQueryDisconnect, Live
    <3> QED
      BY <3>1 DEF Live
  <2> QED
    BY <2>1, <2>2
<1>4. ~open' => Live' = {}
  BY <1>1, <1>3 DEF AllExpected
<1> QED
  BY <1>2, <1>3, <1>4, ExpectedStays DEF AllExpected

LEMMA AllExpectedStep ==
  ASSUME IInv, AllExpected, "fail" \notin Env, [Next]_vars
  PROVE  AllExpected'
<1>1. CASE Receive
  BY <1>1, ReceiveExpected DEF Receive
<1>2. CASE ReceiveShort
  <2>1. PICK l \in Locals, c \in Sockets : ShortPacket(l, c)
    BY <1>2 DEF ReceiveShort
  <2>2. UNCHANGED <<items, flight>> /\ open' = TRUE /\ conns' = c
    BY <2>1 DEF ShortPacket
  <2>3. ASSUME NEW id \in Live, NEW z \in Zones
        PROVE  conns'[z] = conns[z]
    BY <2>1, <2>2, FoundWaiting DEF ShortPacket, AllExpected
  <2> QED
    BY <2>2, <2>3 DEF AllExpected, Expected, Live, Pending, Waiting
<1>3. ASSUME NEW z \in Zones, ReadSome(z) PROVE AllExpected'
  BY <1>3, ReadExpected DEF ReadSome, ReadAnswerTo
<1>4. ASSUME NEW z \in Zones, WriteSome(z) PROVE AllExpected'
  BY <1>4, WriteExpected DEF WriteSome
<1>5. ASSUME NEW z \in Zones, DNSQueryDisconnect(z) PROVE AllExpected'
  BY <1>5, DisconnectExpected
<1>6. CASE Close
  BY <1>6 DEF Close, AllExpected, Live, Nothing
<1>7. CASE UNCHANGED <<open, items, conns, flight>>
  BY <1>7 DEF AllExpected, Expected, Live, Pending, Waiting
<1> QED
  BY <1>1, <1>2, <1>3, <1>4, <1>5, <1>6, <1>7 DEF Next, CloseIdle, Timeout, vars

(* As long as no send fails, a zone is awaited only while its answer may   *)
(* still come: repeated queries, full sockets, lost sockets and any reuse  *)
(* of IDs do not leave a query waiting for nothing.                        *)
THEOREM AwaitedArePending == "fail" \notin Env => (Spec => []AwaitedIsPending)
<1> SUFFICES ASSUME "fail" \notin Env
             PROVE  Spec => []AwaitedIsPending
  OBVIOUS
<1>1. Init => AllExpected
  BY DEF Init, AllExpected, Live, Nothing
<1>2. IInv /\ AllExpected /\ [Next]_vars => AllExpected'
  BY AllExpectedStep
<1>3. AllExpected => AwaitedIsPending
  BY DEF AllExpected, Expected, AwaitedIsPending, Pending, Waiting
<1> QED
  BY <1>1, <1>2, <1>3, Invariance, PTL DEF Spec
-------------------------------------------------------------------------------
(* One answer of a zone to each query                                      *)

(* Nothing is sent twice: the client repeats no query and reuses no ID, no *)
(* query reaches its upstream and no answer the server more than once.     *)
Orderly == Env \cap {"retransmit", "reuse", "duplicate"} = {}

(* A query is pending once, at a zone whose socket is watched only as long *)
(* as it is awaited there.                                                 *)
PendingOnce(z) ==
  LET q == conns[z].queue
  IN  /\ \A j \in 1 .. Len(q) : \A p \in flight[z] : p.id # q[j].id
      /\ \A j, k \in 1 .. Len(q) : j # k => q[j].id # q[k].id

PendingAwaited(z) ==
  conns[z].watched =>
    \A p \in Pending(z) : p.id \in Live => items[p.id].state[z] = "WAIT"

(* What an item has stored is what its verdicts are about, and no zone a   *)
(* scan has passed matches: verdicts are final.                            *)
ToldHolds(item) ==
  /\ \A z \in Zones : item.state[z] \in {"WAIT", "ERROR"} => item.data[z] = NoData
  /\ \A z \in Zones : item.data[z] # NoData => item.state[z] = Verdict(z, item.qtype, item.data[z].b)
  /\ \A v \in Zones : v < item.maxDone => item.state[v] # "MATCH"

InTurn ==
  /\ OwnQuestions
  /\ ~open => Live = {}
  /\ \A z \in Zones : PendingOnce(z) /\ PendingAwaited(z)
  /\ \A id \in Live : ToldHolds(items[id])
  /\ FirstMatchWins /\ SilentOnlyIfFirstFailed

(* Two queries on their way to one zone have two IDs.                      *)
LEMMA FlightDistinct ==
  ASSUME TypeOK, OwnQuestions, NEW z \in Zones, NEW p \in flight[z], NEW r \in flight[z], p.id = r.id
  PROVE  p = r
<1>1. p \in Packets /\ r \in Packets
  BY DEF TypeOK
<1>2. p.q = r.q
  BY DEF OwnQuestions, NothingElse, Asks, Pending
<1> QED
  BY <1>1, <1>2 DEF Packets

(* Settling a zone that is awaited by its answer.                          *)
LEMMA JudgedTold ==
  ASSUME NEW item \in Items, Sound(item), ToldHolds(item), NEW z \in Zones, NEW r \in Replies,
         item.state[z] = "WAIT"
  PROVE  ToldHolds(Judged(item, z, r))
<1> DEFINE j == Judged(item, z, r)
<1>1. /\ j.maxDone = item.maxDone /\ j.data[z] = r /\ j.state[z] \in {"MATCH", "NOT_MATCH"}
      /\ \A v \in Zones \ {z} : j.state[v] = item.state[v] /\ j.data[v] = item.data[v]
  BY JudgedItem
<1>2. j.state[z] = Verdict(z, item.qtype, r.b) /\ j.qtype = item.qtype
  BY DEF Judged, Items
<1>3. ~(z < item.maxDone)
  BY DEF Sound, CursorHolds
<1> HIDE DEF j
<1>5. ASSUME NEW v \in Zones
      PROVE  /\ j.state[v] \in {"WAIT", "ERROR"} => j.data[v] = NoData
             /\ j.data[v] # NoData => j.state[v] = Verdict(v, j.qtype, j.data[v].b)
             /\ v < j.maxDone => j.state[v] # "MATCH"
  <2>1. CASE v = z
    BY <1>1, <1>2, <1>3, <2>1
  <2>2. CASE v # z
    BY <1>1, <1>2, <2>2 DEF ToldHolds
  <2> QED
    BY <2>1, <2>2
<1>6. ToldHolds(j)
  BY <1>5 DEF ToldHolds
<1> QED
  BY <1>6 DEF j

(* The scan after it has seen every zone before the one it stops at, those *)
(* that earlier scans have passed too.                                     *)
LEMMA ScanSees ==
  ASSUME NEW item \in Items, Sound(item), ToldHolds(item), NEW z \in Zones, NEW r \in Replies,
         item.state[z] = "WAIT", NEW i \in 0 .. NumZones, ScanStopsAt(Judged(item, z, r), i),
         NEW v \in Zones, v < i
  PROVE  Judged(item, z, r).state[v] \in {"ERROR", "NOT_MATCH"}
<1> DEFINE j == Judged(item, z, r)
<1>1. j \in Items /\ j.maxDone = item.maxDone /\ item.maxDone \in Zones
  BY JudgedItem DEF Items
<1>2. j.state[v] \in States
  BY <1>1 DEF Items
<1>3. CASE v < item.maxDone
  <2>1. item.state[v] # "WAIT"
    BY <1>3 DEF Sound, CursorHolds
  <2>2. ToldHolds(j)
    BY JudgedTold
  <2>3. j.state[v] # "MATCH"
    BY <1>1, <1>3, <2>2 DEF ToldHolds
  <2>4. j.state[v] # "WAIT"
    BY <2>1, JudgedItem
  <2> QED
    BY <1>2, <2>3, <2>4 DEF States
<1>4. CASE ~(v < item.maxDone)
  <2>1. j.maxDone <= v
    BY <1>1, <1>4, PolicyAssumption, SMT DEF Zones
  <2>2. j.state[v] \notin {"WAIT", "MATCH"}
    BY <2>1 DEF ScanStopsAt
  <2> QED
    BY <1>2, <2>2 DEF States
<1> QED
  BY <1>3, <1>4

(* The choice after the scan: the first match, or the first zone's answer, *)
(* or nothing if the first zone failed.                                    *)
LEMMA WinnerIsFirst ==
  ASSUME NEW item \in Items, Sound(item), ToldHolds(item), NEW z \in Zones, NEW r \in Replies,
         item.state[z] = "WAIT", NEW i \in 0 .. NumZones, ScanStopsAt(Judged(item, z, r), i),
         ~(i # NumZones /\ Judged(item, z, r).state[i] = "WAIT")
  PROVE  LET s == Judged(item, z, r).state
             w == Winner(Judged(item, z, r), i)
         IN  /\ \/ w # NoZone /\ w \in Zones /\ s[w] = "MATCH" /\ \A v \in 0 .. w - 1 : s[v] \in {"ERROR", "NOT_MATCH"}
                \/ w \in {0, NoZone} /\ \A v \in Zones : s[v] \in {"ERROR", "NOT_MATCH"}
             /\ w = NoZone => s[0] = "ERROR"
             /\ w = 0 => s[0] # "ERROR"
<1> DEFINE j == Judged(item, z, r)
<1> DEFINE w == Winner(j, i)
<1>1. \A v \in Zones : v < i => j.state[v] \in {"ERROR", "NOT_MATCH"}
  BY ScanSees
<1>2. ScanStopsAt(j, i) /\ ~(i # NumZones /\ j.state[i] = "WAIT")
  OBVIOUS
<1> HIDE DEF j
<1>3. NumZones \in Nat \ {0} /\ 0 \in Zones
  BY PolicyAssumption, ZoneZero
<1>4. CASE i # NumZones
  <2>1. i \in Zones /\ w = i
    BY <1>3, <1>4, SMT DEF Zones, Winner
  <2>2. j.state[i] = "MATCH"
    BY <1>2, <1>4 DEF ScanStopsAt
  <2>3. \A v \in 0 .. i - 1 : v \in Zones /\ v < i
    BY <1>3, <2>1, SMT DEF Zones
  <2> HIDE DEF w
  <2> QED
    BY <1>1, <1>4, <2>1, <2>2, <2>3 DEF NoZone, j, w
<1>5. CASE i = NumZones
  <2>1. \A v \in Zones : j.state[v] \in {"ERROR", "NOT_MATCH"}
    <3>1. \A v \in Zones : v < NumZones
      BY <1>3, SMT DEF Zones
    <3> QED
      BY <1>1, <1>5, <3>1
  <2>2. w = IF j.state[0] = "NOT_MATCH" THEN 0 ELSE NoZone
    BY <1>5 DEF Winner
  <2>3. NoZone # 0
    BY <1>3 DEF NoZone
  <2> HIDE DEF w
  <2> QED
    BY <1>3, <2>1, <2>2, <2>3 DEF j, w
<1> QED
  BY <1>4, <1>5
-------------------------------------------------------------------------------
(* One lemma per action: the action preserves InTurn.                      *)

(* A packet makes a new item, and nothing is pending of it.                *)
LEMMA ReceiveIsNew ==
  ASSUME IInv, Orderly, NEW p \in Packets, NEW l \in Locals, NEW c, NEW k,
         ServerNewWork(p, l, c, k)
  PROVE  /\ items[p.id] = NoItem
         /\ \A z \in Zones : \A r \in Pending(z) : r.id # p.id
<1>1. p.id \notin Live /\ \A z \in Zones : Owed(z, p.id) = {}
  BY DEF ServerNewWork, ClientMaySend, Orderly
<1>2. p.id \in IDs
  BY DEF Packets
<1> QED
  BY <1>1, <1>2 DEF Live, Owed

(* The query is on its way, or queued behind others, never both.           *)
LEMMA ReceiveOnce ==
  ASSUME IInv, InTurn, Orderly, NEW p \in Packets, NEW l \in Locals, NEW c, NEW k,
         ServerNewWork(p, l, c, k), NEW z \in Zones
  PROVE  PendingOnce(z)'
<1> DEFINE q == c[z].queue
<1> DEFINE new == conns'[z].queue
<1>1. c[z] \in Conn(Packets) /\ q \in Seq(Packets)
  BY SocketsType DEF ServerNewWork, IInv, Conn
<1>2. \A r \in Pending(z) : r.id # p.id
  BY ReceiveIsNew DEF InTurn
<1>3. c[z] = conns[z] \/ q = <<>>
  BY FoundWaiting DEF ServerNewWork
<1>4. /\ \A j \in 1 .. Len(q) : q[j].id # p.id
      /\ \A j \in 1 .. Len(q) : \A r \in flight[z] : r.id # q[j].id
      /\ \A j, m \in 1 .. Len(q) : j # m => q[j].id # q[m].id
  <2>1. CASE c[z] = conns[z]
    BY <1>2, <2>1 DEF InTurn, PendingOnce, Pending, Waiting
  <2>2. CASE q = <<>>
    <3>1. 1 .. Len(q) = {}
      BY <2>2, SMT
    <3> QED
      BY <3>1
  <2> QED
    BY <1>3, <2>1, <2>2
<1>5. \A r \in flight[z] : r.id # p.id
  BY <1>2 DEF Pending
<1>6. CASE z \in Targets(ItemFor(p)) /\ Queues(c[z], k[z])
  <2>1. flight'[z] = flight[z]
    BY <1>1, <1>6 DEF ServerNewWork, Queues, Transmits
  <2>2. new = Append(q, p)
    BY <1>1, <1>6 DEF ServerNewWork, AfterSend, Conn
  <2> HIDE DEF q, new
  <2>3. Len(q) \in Nat /\ Len(new) = Len(q) + 1 /\ new[Len(q) + 1] = p /\ \A j \in 1 .. Len(q) : new[j] = q[j]
    BY <1>1, <2>2, SMT
  <2>4. \A j \in 1 .. Len(new) : j \in 1 .. Len(q) \/ j = Len(q) + 1
    BY <2>3, SMT
  <2>5. Len(q) + 1 \notin 1 .. Len(q)
    BY <2>3, SMT
  <2>6. \A j \in 1 .. Len(new) : \A r \in flight[z] : r.id # new[j].id
    BY <1>4, <1>5, <2>3, <2>4
  <2>7. \A j, m \in 1 .. Len(new) : j # m => new[j].id # new[m].id
    BY <1>4, <2>3, <2>4
  <2> QED
    BY <2>1, <2>6, <2>7 DEF PendingOnce, new
<1>7. CASE ~(z \in Targets(ItemFor(p)) /\ Queues(c[z], k[z]))
  <2>1. new = q
    BY <1>7 DEF ServerNewWork, AfterSend
  <2>2. flight'[z] \subseteq flight[z] \cup {p} /\ (flight'[z] = flight[z] \/ q = <<>>)
    BY DEF ServerNewWork, Transmits
  <2>3. \A j \in 1 .. Len(q) : \A r \in flight'[z] : r.id # q[j].id
    BY <1>4, <2>2
  <2> HIDE DEF q
  <2> QED
    BY <1>4, <2>1, <2>3 DEF PendingOnce
<1> QED
  BY <1>6, <1>7

(* The item a packet makes has no answer; zones that refuse have failed.   *)
LEMMA ReceiveTold ==
  ASSUME IInv, InTurn, Orderly, NEW p \in Packets, NEW l \in Locals, NEW c, NEW k,
         ServerNewWork(p, l, c, k)
  PROVE  LET new == AfterRefusals(NewItem(p), c, k)
         IN  /\ items' = [items EXCEPT ![p.id] = new] /\ new \in Items /\ new # NoItem
             /\ new.qtype = p.q.qtype /\ new.data = [z \in Zones |-> NoData]
             /\ new.state = [z \in Zones |-> IF z \notin Asked(p.q.qtype) THEN "NOT_MATCH"
                               ELSE IF Accepts(c[z], k[z]) THEN "WAIT" ELSE "ERROR"]
             /\ ToldHolds(new)
<1> DEFINE item == NewItem(p)
<1> DEFINE new == AfterRefusals(item, c, k)
<1>1. items[p.id] = NoItem
  BY ReceiveIsNew DEF InTurn
<1>2. item = ItemFor(p)
  BY <1>1 DEF ItemFor
<1>3. item \in Items /\ Sound(item) /\ new \in Items
  BY <1>2, ItemForSound, RefusalsKeepSound
<1>4. items' = [items EXCEPT ![p.id] = new] /\ new # NoItem
  BY <1>2, <1>3, NoValueAssumption DEF ServerNewWork, Items
<1>5. /\ item.qtype = p.q.qtype /\ item.maxDone = 0 /\ item.data = [z \in Zones |-> NoData]
      /\ item.state = [z \in Zones |-> IF z \in Asked(p.q.qtype) THEN "WAIT" ELSE "NOT_MATCH"]
  BY DEF NewItem
<1> HIDE DEF item
<1>6. /\ new.qtype = item.qtype /\ new.maxDone = item.maxDone /\ new.data = item.data
      /\ new.state = [z \in Zones |-> IF z \in Refused(item, c, k) THEN "ERROR" ELSE item.state[z]]
  BY <1>3 DEF AfterRefusals, Items
<1> HIDE DEF new
<1>7. \A z \in Zones : z \in Refused(item, c, k) <=> z \in Asked(p.q.qtype) /\ ~Accepts(c[z], k[z])
  BY <1>5 DEF Refused, Targets
<1>8. new.state = [z \in Zones |-> IF z \notin Asked(p.q.qtype) THEN "NOT_MATCH"
                               ELSE IF Accepts(c[z], k[z]) THEN "WAIT" ELSE "ERROR"]
  BY <1>5, <1>6, <1>7
<1>9. ToldHolds(new)
  BY <1>5, <1>6, <1>8 DEF ToldHolds
<1> QED
  BY <1>3, <1>4, <1>5, <1>6, <1>8, <1>9 DEF item, new

LEMMA ReceiveInTurn ==
  ASSUME IInv, InTurn, Orderly, OwnQuestions', NEW p \in Packets, NEW l \in Locals, NEW c, NEW k,
         ServerNewWork(p, l, c, k)
  PROVE  InTurn'
<1> DEFINE new == AfterRefusals(NewItem(p), c, k)
<1>1. TypeOK /\ p.id \in IDs /\ open' = TRUE /\ finished' = NoOutcome
  BY DEF IInv, Packets, ServerNewWork
<1>2. OwnQuestions'
  OBVIOUS
<1>3. /\ items' = [items EXCEPT ![p.id] = new] /\ ToldHolds(new)
      /\ \A z \in Zones : z \in Asked(p.q.qtype) /\ Accepts(c[z], k[z]) => new.state[z] = "WAIT"
  <2>1. /\ items' = [items EXCEPT ![p.id] = new] /\ ToldHolds(new)
        /\ new.state = [z \in Zones |-> IF z \notin Asked(p.q.qtype) THEN "NOT_MATCH"
                           ELSE IF Accepts(c[z], k[z]) THEN "WAIT" ELSE "ERROR"]
    BY ReceiveTold
  <2> HIDE DEF new
  <2> QED
    BY <2>1
<1>4. ItemFor(p) = NewItem(p)
  BY ReceiveIsNew DEF InTurn, ItemFor
<1>5. Targets(NewItem(p)) = {z \in Zones : z \in Asked(p.q.qtype)}
  BY DEF Targets, NewItem
<1> HIDE DEF new
<1>6. ASSUME NEW z \in Zones, conns'[z].watched, NEW r \in Pending(z)', r.id \in Live'
      PROVE  items'[r.id].state[z] = "WAIT"
  <2>1. c[z] \in Conn(Packets) /\ conns'[z].watched = c[z].watched
    <3>1. c[z] \in Conn(Packets)
      BY SocketsType, <1>1 DEF ServerNewWork
    <3> QED
      BY <3>1 DEF ServerNewWork, AfterSend, Conn
  <2>2. \A s \in Pending(z) : s.id # p.id
    BY ReceiveIsNew DEF InTurn
  <2>3. CASE r \in Pending(z)
    <3>1. r.id # p.id /\ r.id \in Live /\ items'[r.id] = items[r.id]
      BY <1>1, <1>3, <1>6, <2>2, <2>3 DEF Live, TypeOK
    <3>2. c[z] = conns[z]
      BY <3>1, FoundWaiting DEF InTurn, ServerNewWork
    <3> QED
      BY <1>6, <2>1, <2>3, <3>1, <3>2 DEF InTurn, PendingAwaited
  <2>4. CASE r \notin Pending(z)
    <3>1. r = p
      BY <1>6, <2>4, ReceivePending
    <3>2. r \notin flight[z] /\ r \notin Waiting(conns[z]) /\ r \in flight'[z] \cup Waiting(conns'[z])
      BY <1>6, <2>4 DEF Pending, Waiting
    <3>3. r \notin Waiting(c[z])
      BY <3>2, FoundWaiting DEF ServerNewWork
    <3>4. CASE r \in flight'[z]
      BY <1>1, <1>3, <1>4, <1>5, <3>1, <3>2, <3>4 DEF ServerNewWork, Accepts, TypeOK
    <3>5. CASE r \in Waiting(conns'[z])
      <4>1. z \in Targets(NewItem(p)) /\ Queues(c[z], k[z])
        BY <1>4, <3>3, <3>5 DEF ServerNewWork, AfterSend
      <4> QED
        BY <1>1, <1>3, <1>5, <3>1, <4>1 DEF Accepts, TypeOK
    <3> QED
      BY <3>2, <3>4, <3>5
  <2> QED
    BY <2>3, <2>4
<1>7. \A z \in Zones : PendingOnce(z)' /\ PendingAwaited(z)'
  BY <1>6, ReceiveOnce DEF PendingAwaited
<1>8. \A id \in Live' : ToldHolds(items'[id])
  BY <1>1, <1>3 DEF InTurn, Live, TypeOK
<1>9. FirstMatchWins' /\ SilentOnlyIfFirstFailed'
  BY <1>1 DEF FirstMatchWins, SilentOnlyIfFirstFailed
<1> QED
  BY <1>1, <1>2, <1>7, <1>8, <1>9 DEF InTurn

(* An answer that comes is awaited, and no other one to the same query is  *)
(* on its way.                                                             *)
LEMMA AnswerAwaited ==
  ASSUME IInv, InTurn, Orderly, NEW z \in Zones, NEW p \in flight[z], NEW b \in Bodies, Read(z, p, b)
  PROVE  /\ p.id \in IDs /\ origin[p.id].q = p.q
         /\ p.id \in Live => items[p.id].state[z] = "WAIT"
         /\ \A r \in Pending(z)' : r.id # p.id
<1>1. TypeOK /\ p \in Packets /\ p \in Pending(z)
  BY DEF IInv, TypeOK, Pending
<1>2. p.id \in IDs /\ origin[p.id].q = p.q
  BY <1>1 DEF Packets, InTurn, OwnQuestions, NothingElse, Asks
<1>3. p.id \in Live => items[p.id].state[z] = "WAIT"
  BY <1>1 DEF InTurn, PendingAwaited, Read
<1>4. flight'[z] = flight[z] \ {p} /\ conns' = conns
  BY <1>1 DEF Read, Orderly, TypeOK
<1>5. \A r \in flight'[z] : r.id # p.id
  BY <1>1, <1>4, FlightDistinct DEF InTurn
<1>6. \A r \in Waiting(conns[z]) : r.id # p.id
  BY DEF InTurn, PendingOnce, Waiting
<1> QED
  BY <1>2, <1>3, <1>4, <1>5, <1>6 DEF Pending, Waiting

LEMMA ReadInTurn ==
  ASSUME IInv, InTurn, Orderly, OwnQuestions', NEW z \in Zones, NEW p \in flight[z], NEW b \in Bodies, Read(z, p, b),
         \A v \in Zones : Pending(v)' \subseteq Pending(v)
  PROVE  InTurn'
<1> DEFINE r == [q |-> p.q, b |-> b]
<1>1. TypeOK /\ p \in Packets /\ p.id \in IDs /\ r \in Replies
  <2>1. TypeOK /\ p \in Packets
    BY DEF IInv, TypeOK
  <2> QED
    BY <2>1 DEF Packets, Replies
<1>2. /\ p.id \in Live => items[p.id].state[z] = "WAIT"
      /\ \A s \in Pending(z)' : s.id # p.id
  BY AnswerAwaited
<1>3. OwnQuestions'
  OBVIOUS
<1>4. DNSQueryResult(z, p.id, r) /\ UNCHANGED <<open, conns>>
  BY DEF Read
<1>5. \A v \in Zones : PendingOnce(v)'
  <2>1. \A v \in Zones : flight'[v] \subseteq flight[v]
    BY <1>1 DEF Read, TypeOK
  <2> QED
    BY <1>4, <2>1 DEF InTurn, PendingOnce
<1> HIDE DEF r
<1>6. CASE items[p.id] = NoItem
  <2>1. items' = items /\ finished' = NoOutcome
    BY <1>4, <1>6 DEF DNSQueryResult
  <2>2. \A v \in Zones : PendingAwaited(v)'
    BY <1>4, <2>1 DEF InTurn, PendingAwaited, Live
  <2> QED
    BY <1>3, <1>4, <1>5, <2>1, <2>2 DEF InTurn, Live, FirstMatchWins, SilentOnlyIfFirstFailed
<1>7. CASE items[p.id] # NoItem
  <2> DEFINE old == items[p.id]
  <2> DEFINE item == Judged(old, z, r)
  <2>1. p.id \in Live /\ old \in Items /\ Sound(old) /\ ToldHolds(old) /\ old.state[z] = "WAIT"
    BY <1>1, <1>2, <1>7 DEF TypeOK, Live, IInv, InTurn
  <2>2. /\ item \in Items /\ ToldHolds(item)
        /\ \A v \in Zones \ {z} : item.state[v] = old.state[v]
    BY <1>1, <2>1, JudgedItem, JudgedTold
  <2>3. PICK i \in 0 .. NumZones :
          /\ ScanStopsAt(item, i)
          /\ IF i # NumZones /\ item.state[i] = "WAIT"
             THEN Keep(p.id, item, i)
             ELSE Finish(p.id, item, Winner(item, i))
    BY <1>4, <1>7 DEF DNSQueryResult
  <2>4. CASE i # NumZones /\ item.state[i] = "WAIT"
    <3> DEFINE new == [item EXCEPT !.maxDone = i]
    <3>1. \A v \in Zones : v < i => item.state[v] # "MATCH"
      BY <1>1, <2>1, <2>3, ScanSees
    <3> HIDE DEF item
    <3>2. new.state = item.state /\ new.data = item.data /\ new.qtype = item.qtype /\ new.maxDone = i
      BY <2>2, <2>3 DEF Items
    <3>3. items' = [items EXCEPT ![p.id] = new] /\ finished' = NoOutcome
      BY <2>3, <2>4 DEF Keep
    <3> HIDE DEF new
    <3>4. ToldHolds(new)
      BY <2>2, <3>1, <3>2 DEF ToldHolds
    <3>5. \A id \in Live' : id \in Live /\ items'[id] = IF id = p.id THEN new ELSE items[id]
      BY <1>1, <2>1, <3>3 DEF Live, TypeOK
    <3>6. \A v \in Zones : PendingAwaited(v)'
      <4> SUFFICES ASSUME NEW v \in Zones, conns[v].watched, NEW s \in Pending(v)', s.id \in Live'
                   PROVE  items'[s.id].state[v] = "WAIT"
        BY <1>4 DEF PendingAwaited
      <4>1. s \in Pending(v) /\ s.id \in Live /\ items[s.id].state[v] = "WAIT"
        BY <3>5 DEF InTurn, PendingAwaited
      <4>2. CASE s.id # p.id
        BY <3>5, <4>1, <4>2
      <4>3. CASE s.id = p.id
        <5>1. v # z
          BY <1>2, <4>3
        <5> QED
          BY <2>2, <3>2, <3>5, <4>1, <4>3, <5>1
      <4> QED
        BY <4>2, <4>3
    <3>7. \A id \in Live' : ToldHolds(items'[id])
      BY <3>4, <3>5 DEF InTurn
    <3>8. (~open => Live = {})'
      BY <1>4, <3>5 DEF InTurn
    <3> QED
      BY <1>3, <1>5, <3>3, <3>6, <3>7, <3>8 DEF InTurn, FirstMatchWins, SilentOnlyIfFirstFailed
  <2>5. CASE ~(i # NumZones /\ item.state[i] = "WAIT")
    <3> DEFINE w == Winner(item, i)
    <3>1. /\ \/ w # NoZone /\ w \in Zones /\ item.state[w] = "MATCH"
                /\ \A v \in 0 .. w - 1 : item.state[v] \in {"ERROR", "NOT_MATCH"}
             \/ w \in {0, NoZone} /\ \A v \in Zones : item.state[v] \in {"ERROR", "NOT_MATCH"}
          /\ w = NoZone => item.state[0] = "ERROR"
      BY <1>1, <2>1, <2>3, <2>5, WinnerIsFirst
    <3> HIDE DEF item
    <3>2. Finish(p.id, item, w)
      BY <2>3, <2>5
    <3> HIDE DEF w
    <3>3. items' = [items EXCEPT ![p.id] = NoItem] /\ finished' = Outcome(p.id, item, w)
      BY <3>2 DEF Finish
    <3>4. finished'.state = item.state /\ finished'.winner = w
      BY <3>3 DEF Outcome
    <3>5. FirstMatchWins' /\ SilentOnlyIfFirstFailed'
      BY <3>1, <3>4 DEF FirstMatchWins, SilentOnlyIfFirstFailed
    <3>6. \A id \in Live' : id \in Live /\ items'[id] = items[id]
      BY <1>1, <3>3 DEF Live, TypeOK
    <3>7. \A v \in Zones : PendingAwaited(v)'
      BY <1>4, <3>6 DEF InTurn, PendingAwaited
    <3> QED
      BY <1>3, <1>4, <1>5, <3>5, <3>6, <3>7 DEF InTurn
  <2> QED
    BY <2>4, <2>5
<1> QED
  BY <1>6, <1>7
(* What Write takes is no longer queued.                                   *)
LEMMA WriteOnce ==
  ASSUME IInv, NEW z \in Zones, PendingOnce(z), NEW n, NEW lost, Write(z, n, lost)
  PROVE  PendingOnce(z)'
<1> DEFINE q == conns[z].queue
<1> DEFINE new == conns'[z].queue
<1>1. TypeOK /\ conns[z] \in Conn(Packets) /\ q \in Seq(Packets) /\ n \in 1 .. Len(q)
  BY DEF IInv, TypeOK, Write, Conn
<1>2. new = SubSeq(q, n + 1, Len(q))
  BY <1>1 DEF Write, TypeOK, AfterWrite, Conn
<1>3. flight'[z] \subseteq flight[z] \cup {q[j] : j \in 1 .. n}
  BY <1>1 DEF Write, TypeOK
<1>4. /\ \A j \in 1 .. Len(q) : \A p \in flight[z] : p.id # q[j].id
      /\ \A j, k \in 1 .. Len(q) : j # k => q[j].id # q[k].id
  BY DEF PendingOnce
<1> HIDE DEF q, new
<1>5. Len(q) \in Nat /\ Len(new) = Len(q) - n /\ \A j \in 1 .. Len(q) - n : new[j] = q[n + j]
  BY <1>1, <1>2, SMT
<1>6. ASSUME NEW j \in 1 .. Len(new)
      PROVE  n + j \in 1 .. Len(q) /\ n + j \notin 1 .. n /\ new[j] = q[n + j]
  <2>1. n \in Nat /\ j \in 1 .. Len(q) - n
    BY <1>1, <1>5, SMT
  <2>2. n + j \in 1 .. Len(q) /\ n + j \notin 1 .. n
    BY <1>5, <2>1, SMT
  <2> QED
    BY <1>5, <2>1, <2>2
<1>7. 1 .. n \subseteq 1 .. Len(q)
  BY <1>1, <1>5, SMT
<1>8. \A j \in 1 .. Len(new) : \A p \in flight'[z] : p.id # new[j].id
  BY <1>3, <1>4, <1>6, <1>7
<1>9. \A j, k \in 1 .. Len(new) : j # k => n + j # n + k
  BY <1>1, <1>5, SMT
<1>10. \A j, k \in 1 .. Len(new) : j # k => new[j].id # new[k].id
  BY <1>4, <1>6, <1>9
<1> QED
  BY <1>8, <1>10 DEF PendingOnce, new

LEMMA WriteInTurn ==
  ASSUME IInv, InTurn, OwnQuestions', NEW z \in Zones, NEW n, NEW lost, Write(z, n, lost),
         \A v \in Zones : Pending(v)' \subseteq Pending(v)
  PROVE  InTurn'
<1>1. TypeOK /\ UNCHANGED <<open, items, origin>> /\ finished' = NoOutcome
  BY DEF IInv, Write
<1>2. OwnQuestions'
  OBVIOUS
<1>3. ASSUME NEW v \in Zones
      PROVE  conns'[v].watched = conns[v].watched /\ PendingOnce(v)'
  <2>1. CASE v = z
    <3>1. conns'[z].watched = conns[z].watched
      BY <1>1 DEF Write, TypeOK, AfterWrite, Conn
    <3> QED
      BY <2>1, <3>1, WriteOnce DEF InTurn
  <2>2. CASE v # z
    BY <1>1, <2>2 DEF Write, TypeOK, InTurn, PendingOnce
  <2> QED
    BY <2>1, <2>2
<1>4. \A v \in Zones : PendingAwaited(v)'
  BY <1>1, <1>3 DEF InTurn, PendingAwaited, Live
<1> QED
  BY <1>1, <1>2, <1>3, <1>4 DEF InTurn, Live, FirstMatchWins, SilentOnlyIfFirstFailed

(* A lost socket is not watched any more; what it still had to answer will *)
(* not be read.                                                            *)
LEMMA DisconnectInTurn ==
  ASSUME IInv, InTurn, OwnQuestions', NEW z \in Zones, DNSQueryDisconnect(z),
         \A v \in Zones : Pending(v)' \subseteq Pending(v)
  PROVE  InTurn'
<1>1. TypeOK /\ UNCHANGED <<open, flight>> /\ finished' = NoOutcome
  BY DEF IInv, DNSQueryDisconnect
<1>2. OwnQuestions'
  OBVIOUS
<1>3. conns' = [conns EXCEPT ![z] = AfterDisconnect(@)]
  BY DEF DNSQueryDisconnect
<1>4. ASSUME NEW v \in Zones
      PROVE  conns'[v].queue = conns[v].queue /\ (conns'[v].watched => v # z /\ conns[v].watched)
  BY <1>1, <1>3 DEF AfterDisconnect, TypeOK, Conn
<1>5. \A v \in Zones : PendingOnce(v)'
  BY <1>1, <1>4 DEF InTurn, PendingOnce
<1>6. ASSUME NEW id \in Live'
      PROVE  /\ id \in Live /\ items[id] \in Items
             /\ \/ items'[id] = items[id]
                \/ items[id].state[z] = "WAIT" /\ items'[id] = [items[id] EXCEPT !.state[z] = "ERROR"]
    BY <1>1, <1>6 DEF DNSQueryDisconnect, Live, TypeOK
<1>7. ASSUME NEW id \in Live'
      PROVE  /\ ToldHolds(items'[id])
             /\ \A v \in Zones \ {z} : items'[id].state[v] = items[id].state[v]
  <2>1. CASE items'[id] = items[id]
    BY <1>6, <2>1 DEF InTurn
  <2>2. CASE items[id].state[z] = "WAIT" /\ items'[id] = [items[id] EXCEPT !.state[z] = "ERROR"]
    <3> DEFINE old == items[id]
    <3> DEFINE new == items'[id]
    <3>1. /\ old.state[z] = "WAIT" /\ new.state[z] = "ERROR"
          /\ \A v \in Zones \ {z} : new.state[v] = old.state[v]
          /\ new.data = old.data /\ new.maxDone = old.maxDone /\ new.qtype = old.qtype
      BY <1>6, <2>2 DEF Items
    <3>2. ToldHolds(old)
      BY <1>6 DEF InTurn
    <3> HIDE DEF old, new
    <3>3. ToldHolds(new)
      BY <3>1, <3>2 DEF ToldHolds
    <3> QED
      BY <3>1, <3>3 DEF old, new
  <2> QED
    BY <1>6, <2>1, <2>2
<1>8. ASSUME NEW v \in Zones, conns'[v].watched, NEW p \in Pending(v)', p.id \in Live'
      PROVE  items'[p.id].state[v] = "WAIT"
  <2>1. v # z /\ conns[v].watched /\ p \in Pending(v) /\ p.id \in Live
    BY <1>4, <1>6, <1>8
  <2>2. items[p.id].state[v] = "WAIT"
    BY <2>1 DEF InTurn, PendingAwaited
  <2> QED
    BY <1>7, <1>8, <2>1, <2>2
<1>9. \A v \in Zones : PendingAwaited(v)'
  BY <1>8 DEF PendingAwaited
<1>10. (~open => Live = {})'
  BY <1>1, <1>6 DEF InTurn
<1> QED
  BY <1>1, <1>2, <1>5, <1>7, <1>9, <1>10 DEF InTurn, FirstMatchWins, SilentOnlyIfFirstFailed

LEMMA ShortInTurn ==
  ASSUME IInv, InTurn, OwnQuestions', NEW l \in Locals, NEW c, ShortPacket(l, c),
         \A v \in Zones : Pending(v)' \subseteq Pending(v)
  PROVE  InTurn'
<1>1. UNCHANGED <<items, flight, origin>> /\ open' = TRUE /\ conns' = c /\ finished' = NoOutcome
  BY DEF ShortPacket
<1>2. OwnQuestions'
  OBVIOUS
<1>3. ASSUME NEW z \in Zones
      PROVE  PendingOnce(z)' /\ PendingAwaited(z)'
  <2>1. CASE open /\ c[z] = conns[z]
    BY <1>1, <2>1 DEF InTurn, PendingOnce, PendingAwaited, Pending, Waiting, Live
  <2>2. CASE ~open /\ c[z].queue = <<>>
    <3>1. 1 .. Len(conns'[z].queue) = {}
      BY <1>1, <2>2, SMT
    <3>2. Live' = {}
      BY <1>1, <2>2 DEF InTurn, Live
    <3> QED
      BY <3>1, <3>2 DEF PendingOnce, PendingAwaited
  <2> QED
    BY <2>1, <2>2, FoundWaiting DEF ShortPacket
<1> QED
  BY <1>1, <1>2, <1>3 DEF InTurn, Live, FirstMatchWins, SilentOnlyIfFirstFailed

LEMMA CloseInTurn ==
  ASSUME Close, OwnQuestions'
  PROVE  InTurn'
<1>1. finished' = NoOutcome
  BY DEF Close
<1>2. Live' = {}
  BY DEF Close, Live, Nothing
<1>3. ASSUME NEW z \in Zones
      PROVE  PendingOnce(z)' /\ PendingAwaited(z)'
  <2>1. conns'[z].queue = <<>>
    BY DEF Close, NoSockets, Connected
  <2>2. 1 .. Len(conns'[z].queue) = {}
    BY <2>1, SMT
  <2> QED
    BY <1>2, <2>2 DEF PendingOnce, PendingAwaited
<1> QED
  BY <1>1, <1>2, <1>3 DEF InTurn, FirstMatchWins, SilentOnlyIfFirstFailed

LEMMA StayInTurn ==
  ASSUME InTurn, OwnQuestions', UNCHANGED <<open, items, conns, flight, origin>>,
         finished' = finished \/ finished' = NoOutcome
  PROVE  InTurn'
<1>1. Live' = Live /\ \A z \in Zones : Pending(z)' = Pending(z)
  BY DEF Live, Pending, Waiting
<1>2. OwnQuestions'
  OBVIOUS
<1>3. FirstMatchWins' /\ SilentOnlyIfFirstFailed'
  BY DEF InTurn, FirstMatchWins, SilentOnlyIfFirstFailed
<1> QED
  BY <1>1, <1>2, <1>3 DEF InTurn, PendingOnce, PendingAwaited

LEMMA InTurnStep ==
  ASSUME IInv, InTurn, Orderly, [Next]_vars
  PROVE  InTurn'
<1> OwnQuestions'
  BY OwnQuestionsStep DEF InTurn, Orderly
<1>1. CASE Receive
  BY <1>1, ReceiveInTurn DEF Receive
<1>2. CASE Otherwise
  <2>1. \A z \in Zones : Pending(z)' \subseteq Pending(z)
    BY <1>2, OtherwisePending
  <2>2. CASE ReceiveShort
    BY <2>1, <2>2, ShortInTurn DEF ReceiveShort
  <2>3. ASSUME NEW z \in Zones, ReadSome(z) PROVE InTurn'
    BY <2>1, <2>3, ReadInTurn DEF ReadSome, ReadAnswerTo
  <2>4. ASSUME NEW z \in Zones, WriteSome(z) PROVE InTurn'
    BY <2>1, <2>4, WriteInTurn DEF WriteSome
  <2>5. ASSUME NEW z \in Zones, DNSQueryDisconnect(z) PROVE InTurn'
    BY <2>1, <2>5, DisconnectInTurn
  <2>6. CASE CloseIdle
    BY <2>6, CloseInTurn, StayInTurn DEF CloseIdle
  <2>7. CASE Timeout
    BY <2>7, CloseInTurn DEF Timeout
  <2>8. CASE UNCHANGED vars
    BY <2>8, StayInTurn DEF vars
  <2> QED
    BY <1>2, <2>2, <2>3, <2>4, <2>5, <2>6, <2>7, <2>8 DEF Otherwise
<1> QED
  BY <1>1, <1>2 DEF Next, Otherwise

LEMMA InitInTurn == Init => InTurn
<1> SUFFICES ASSUME Init PROVE InTurn
  OBVIOUS
<1>1. \A z \in Zones : Pending(z) = {} /\ conns[z].queue = <<>>
  BY ConnectedWaiting DEF Init, Pending, NothingSent, NoSockets, Connected
<1>2. Live = {} /\ finished = NoOutcome
  BY DEF Init, Live, Nothing
<1>3. OwnQuestions
  BY InitOwn
<1>4. ASSUME NEW z \in Zones
      PROVE  PendingOnce(z) /\ PendingAwaited(z)
  <2>1. 1 .. Len(conns[z].queue) = {}
    BY <1>1, SMT
  <2> QED
    BY <1>1, <2>1 DEF PendingOnce, PendingAwaited
<1> QED
  BY <1>2, <1>3, <1>4 DEF InTurn, FirstMatchWins, SilentOnlyIfFirstFailed

LEMMA InTurnAlways ==
  ASSUME Orderly
  PROVE  Spec => []InTurn
<1>1. IInv /\ InTurn /\ [Next]_vars => InTurn'
  BY InTurnStep
<1> QED
  BY <1>1, InitInTurn, Invariance, PTL DEF Spec

(* When nothing is sent twice, the client gets the answer of the first     *)
(* zone that matches, all zones before it having answered otherwise or     *)
(* failed, however the scans were cut up by late answers and errors.       *)
THEOREM FirstMatch == Orderly => (Spec => []FirstMatchWins)
<1> SUFFICES ASSUME Orderly
             PROVE  Spec => []FirstMatchWins
  OBVIOUS
<1>1. Spec => []InTurn
  BY InTurnAlways
<1>2. InTurn => FirstMatchWins
  BY DEF InTurn
<1> QED
  BY <1>1, <1>2, PTL

(* ... and gets nothing, of a query that is finished, only if the first    *)
(* zone has failed.                                                        *)
THEOREM SilentIfFirstFailed == Orderly => (Spec => []SilentOnlyIfFirstFailed)
<1> SUFFICES ASSUME Orderly
             PROVE  Spec => []SilentOnlyIfFirstFailed
  OBVIOUS
<1>1. Spec => []InTurn
  BY InTurnAlways
<1>2. InTurn => SilentOnlyIfFirstFailed
  BY DEF InTurn
<1> QED
  BY <1>1, <1>2, PTL
-------------------------------------------------------------------------------
(* DNSQueryWork implements Resolution: each step is a step of Resolution,  *)
(* of the query as ImplementsResolution shows it, or changes nothing of it.*)

(* The policy Resolution judges by is the same.                            *)
LEMMA PromisedPolicy ==
  ASSUME NEW z, NEW q, NEW b
  PROVE  /\ Promised!Zones = Zones
         /\ Promised!Asked(q) = Asked(q)
         /\ Promised!IsMatch(z, q, b) <=> IsMatch(z, q, b)
         /\ Promised!Rewritable(z, q, b) = Rewritable(z, q, b)
<1>1. Promised!Zones = Zones
  BY DEF Promised!Zones, Zones
<1>2. Promised!Asked(q) = Asked(q)
  BY <1>1 DEF Promised!Asked, Asked, Promised!ZoneTakesPart, ZoneTakesPart
<1>3. Promised!IsMatch(z, q, b) <=> IsMatch(z, q, b)
  <2>1. Promised!JudgedCount(z, q, b) = JudgedCount(z, q, b)
    BY DEF Promised!JudgedCount, JudgedCount, Promised!UseV4, UseV4, Promised!UseV6, UseV6
  <2>2. Promised!MatchCount(z, q, b) = MatchCount(z, q, b)
    BY DEF Promised!MatchCount, MatchCount, Promised!UseV4, UseV4, Promised!UseV6, UseV6
  <2> QED
    BY <2>1, <2>2 DEF Promised!IsMatch, IsMatch, Promised!ZoneTakesPart, ZoneTakesPart,
                      Promised!IsIPBearingType, IsIPBearingType
<1>4. Promised!Rewritable(z, q, b) = Rewritable(z, q, b)
  BY DEF Promised!Rewritable, Rewritable
<1> QED
  BY <1>1, <1>2, <1>3, <1>4

(* The query an item with the question q stands for.                       *)
Shown(q, item) ==
  [q |-> q, status |-> [z \in Zones |-> Standing(item, z)], told |-> item.data]

LEMMA StandingSays ==
  ASSUME NEW item \in Items, ToldHolds(item), DataHolds(item), NEW z \in Zones
  PROVE  /\ Standing(item, z) \in {"unasked", "awaited", "failed", "answered"}
         /\ Standing(item, z) = "awaited" <=> item.state[z] = "WAIT"
         /\ Standing(item, z) = "failed" <=> item.state[z] = "ERROR"
         /\ Standing(item, z) = "answered" <=> item.data[z] # NoData
<1>1. item.state[z] \in {"WAIT", "ERROR"} => item.data[z] = NoData
  BY DEF ToldHolds
<1>2. CASE item.state[z] = "WAIT"
  BY <1>1, <1>2 DEF Standing
<1>3. CASE item.state[z] = "ERROR"
  BY <1>1, <1>3 DEF Standing
<1>4. CASE item.state[z] \in {"MATCH", "NOT_MATCH"}
  BY <1>4 DEF Standing
<1>5. item.state[z] \in {"WAIT", "ERROR", "MATCH", "NOT_MATCH"}
  BY DEF Items, States
<1> QED
  BY <1>2, <1>3, <1>4, <1>5

(* Judging what was told anew comes to the verdicts that are stored.       *)
LEMMA ShownMatches ==
  ASSUME NEW item \in Items, ToldHolds(item), DataHolds(item), NEW q, q.qtype = item.qtype,
         NEW z \in Zones
  PROVE  /\ Promised!Matches(Shown(q, item), z) <=> item.state[z] = "MATCH"
         /\ Promised!Settled(Shown(q, item), z) <=> item.state[z] # "WAIT"
<1>1. /\ Standing(item, z) = "awaited" <=> item.state[z] = "WAIT"
      /\ Standing(item, z) = "answered" <=> item.data[z] # NoData
  BY StandingSays
<1>2. /\ item.data[z] # NoData => item.state[z] = Verdict(z, item.qtype, item.data[z].b)
      /\ item.state[z] = "MATCH" => item.data[z] # NoData
  BY DEF ToldHolds, DataHolds
<1>3. Promised!Matches(Shown(q, item), z)
        <=> Standing(item, z) = "answered" /\ IsMatch(z, item.qtype, item.data[z].b)
  BY PromisedPolicy DEF Promised!Matches, Shown
<1>4. Promised!Settled(Shown(q, item), z) <=> Standing(item, z) # "awaited"
  BY DEF Promised!Settled, Shown
<1> QED
  BY <1>1, <1>2, <1>3, <1>4 DEF Verdict
(* The scan keeps the query as long as its outcome is open, and finishes   *)
(* it with the zone Resolution chooses.                                    *)
LEMMA ScanDecides ==
  ASSUME NEW item \in Items, Sound(item), ToldHolds(item), NEW z \in Zones, NEW r \in Replies,
         item.state[z] = "WAIT", NEW i \in 0 .. NumZones, ScanStopsAt(Judged(item, z, r), i),
         NEW q, q.qtype = item.qtype
  PROVE  LET j == Judged(item, z, r)
         IN  IF i # NumZones /\ j.state[i] = "WAIT"
             THEN ~Promised!Decided(Shown(q, j))
             ELSE Promised!Decided(Shown(q, j)) /\ Promised!Chosen(Shown(q, j), Winner(j, i))
<1> DEFINE j == Judged(item, z, r)
<1> DEFINE d == Shown(q, j)
<1>1. j \in Items /\ ToldHolds(j) /\ DataHolds(j) /\ q.qtype = j.qtype
  <2>1. j.qtype = item.qtype
    BY DEF Judged, Items
  <2> QED
    BY <2>1, JudgedItem, JudgedTold, JudgedData
<1>2. \A v \in Zones : v < i => j.state[v] \in {"ERROR", "NOT_MATCH"}
  BY ScanSees
<1>3. i # NumZones => i \in Zones
  BY PolicyAssumption, SMT DEF Zones
<1>4. Promised!Zones = Zones
  BY DEF Promised!Zones, Zones
<1>5. ~(i # NumZones /\ j.state[i] = "WAIT") =>
        LET s == j.state
            w == Winner(j, i)
        IN  /\ \/ w # NoZone /\ w \in Zones /\ s[w] = "MATCH" /\ \A v \in 0 .. w - 1 : s[v] \in {"ERROR", "NOT_MATCH"}
               \/ w \in {0, NoZone} /\ \A v \in Zones : s[v] \in {"ERROR", "NOT_MATCH"}
            /\ w = NoZone => s[0] = "ERROR"
            /\ w = 0 => s[0] # "ERROR"
  BY WinnerIsFirst
<1> HIDE DEF j
<1>6. \A v \in Zones : /\ Promised!Matches(d, v) <=> j.state[v] = "MATCH"
                       /\ Promised!Settled(d, v) <=> j.state[v] # "WAIT"
  BY <1>1, ShownMatches
<1>7. d.status[0] = "answered" <=> j.data[0] # NoData
  BY <1>1, StandingSays, ZoneZero DEF Shown
<1>8. \A w \in Zones : \A v \in 0 .. w - 1 : v \in Zones /\ v < w
  BY PolicyAssumption, SMT DEF Zones
<1> HIDE DEF d
<1>9. CASE i # NumZones /\ j.state[i] = "WAIT"
  <2>1. i \in Zones /\ ~Promised!Settled(d, i)
    BY <1>3, <1>6, <1>9
  <2>2. ASSUME NEW w \in Zones, Promised!Wins(d, w) PROVE FALSE
    <3>1. j.state[w] = "MATCH" /\ \A v \in 0 .. w - 1 : j.state[v] # "WAIT"
      BY <1>4, <1>6, <1>8, <2>2 DEF Promised!Wins
    <3>2. ~(w < i) /\ w # i
      BY <1>2, <1>9, <3>1
    <3>3. i \in 0 .. w - 1
      BY <2>1, <3>2, PolicyAssumption, SMT DEF Zones
    <3> QED
      BY <1>9, <3>1, <3>3
  <2>3. ~Promised!Decided(d)
    BY <1>4, <2>1, <2>2 DEF Promised!Decided
  <2> QED
    BY <1>9, <2>3 DEF d, j
<1>10. CASE ~(i # NumZones /\ j.state[i] = "WAIT")
  <2> DEFINE w == Winner(j, i)
  <2>1. /\ \/ w # NoZone /\ w \in Zones /\ j.state[w] = "MATCH"
              /\ \A v \in 0 .. w - 1 : j.state[v] \in {"ERROR", "NOT_MATCH"}
           \/ w \in {0, NoZone} /\ \A v \in Zones : j.state[v] \in {"ERROR", "NOT_MATCH"}
        /\ w = NoZone => j.state[0] = "ERROR"
        /\ w = 0 => j.state[0] # "ERROR"
    BY <1>5, <1>10
  <2> HIDE DEF w
  <2>2. CASE /\ w \in Zones /\ j.state[w] = "MATCH"
             /\ \A v \in 0 .. w - 1 : j.state[v] \in {"ERROR", "NOT_MATCH"}
    <3>1. Promised!Wins(d, w)
      BY <1>6, <1>8, <2>2 DEF Promised!Wins
    <3>2. Promised!Decided(d) /\ Promised!Chosen(d, w)
      BY <1>4, <2>2, <3>1 DEF Promised!Decided, Promised!Chosen
    <3> QED
      BY <1>10, <3>2 DEF d, j, w
  <2>3. CASE w \in {0, NoZone} /\ \A v \in Zones : j.state[v] \in {"ERROR", "NOT_MATCH"}
    <3>1. \A v \in Zones : Promised!Settled(d, v) /\ ~Promised!Matches(d, v)
      BY <1>6, <2>3
    <3>2. w = IF d.status[0] = "answered" THEN 0 ELSE NumZones
      <4>1. j.state[0] = "ERROR" => j.data[0] = NoData
        BY <1>1, ZoneZero DEF ToldHolds
      <4>2. j.state[0] = "NOT_MATCH" => j.data[0] # NoData
        BY <1>1 DEF DataHolds
      <4> QED
        BY <1>7, <2>1, <2>3, <4>1, <4>2, ZoneZero DEF NoZone
    <3>3. Promised!Decided(d) /\ Promised!Chosen(d, w)
      BY <1>4, <3>1, <3>2 DEF Promised!Decided, Promised!Chosen
    <3> QED
      BY <1>10, <3>3 DEF d, j, w
  <2> QED
    BY <2>1, <2>2, <2>3
<1> QED
  BY <1>9, <1>10

(* An answer changes what is shown of the query as Tell does.              *)
WithAnswer(d, z, r) == [d EXCEPT !.status[z] = "answered", !.told[z] = r]

LEMMA JudgedShown ==
  ASSUME NEW item \in Items, NEW z \in Zones, NEW r \in Replies, NEW q
  PROVE  Shown(q, Judged(item, z, r)) = WithAnswer(Shown(q, item), z, r)
<1> DEFINE j == Judged(item, z, r)
<1>1. /\ j \in Items /\ j.state[z] \in {"MATCH", "NOT_MATCH"} /\ j.data[z] = r
      /\ \A v \in Zones \ {z} : j.state[v] = item.state[v] /\ j.data[v] = item.data[v]
  BY JudgedItem
<1> HIDE DEF j
<1>2. r # NoData
  BY NoValueAssumption
<1>3. \A v \in Zones : Standing(j, v) = IF v = z THEN "answered" ELSE Standing(item, v)
  BY <1>1, <1>2 DEF Standing
<1>4. j.data = [item.data EXCEPT ![z] = r]
  BY <1>1 DEF Items
<1> DEFINE stand == [v \in Zones |-> Standing(item, v)]
<1>5. [v \in Zones |-> Standing(j, v)] = [stand EXCEPT ![z] = "answered"]
  BY <1>3
<1>6. Shown(q, item) = [q |-> q, status |-> stand, told |-> item.data]
  BY DEF Shown
<1>7. Shown(q, j) = [q |-> q, status |-> [stand EXCEPT ![z] = "answered"],
                     told |-> [item.data EXCEPT ![z] = r]]
  BY <1>4, <1>5 DEF Shown
<1> DEFINE told == item.data
<1> DEFINE old == Shown(q, item)
<1> HIDE DEF stand, told, old
<1>8. old = [q |-> q, status |-> stand, told |-> told]
  BY <1>6 DEF old, told
<1> DEFINE mid == [old EXCEPT !.status[z] = "answered"]
<1>9. mid = [q |-> q, status |-> [stand EXCEPT ![z] = "answered"], told |-> told]
  BY <1>8
<1>10. [old EXCEPT !.status[z] = "answered", !.told[z] = r] = [mid EXCEPT !.told[z] = r]
  OBVIOUS
<1> HIDE DEF mid
<1>11. [mid EXCEPT !.told[z] = r] =
         [q |-> q, status |-> [stand EXCEPT ![z] = "answered"], told |-> [told EXCEPT ![z] = r]]
  BY <1>9
<1> QED
  BY <1>7, <1>10, <1>11 DEF j, old, told, WithAnswer

(* A query shown is a query.                                               *)
LEMMA ShownIsQuery ==
  ASSUME NEW item \in Items, NEW q \in Questions
  PROVE  Shown(q, item) # NoQuery
<1>1. \A z \in Zones : Standing(item, z) \in Promised!Statuses
  BY DEF Standing, Promised!Statuses
<1>2. item.data \in [Zones -> Replies \cup {NoData}]
  BY DEF Items
<1>3. Shown(q, item) \in [q : Questions, status : [Zones -> Promised!Statuses],
                          told : [Zones -> Replies \cup {NoData}]]
  BY <1>1, <1>2 DEF Shown
<1> QED
  BY <1>3, NoPromiseAssumption
(* What changes of one query, when one item changes ...                    *)
LEMMA OneQueryChanges ==
  ASSUME IInv, NEW id \in IDs, NEW new, items' = [items EXCEPT ![id] = new], UNCHANGED origin
  PROVE  [i \in IDs |-> AsQuery(i)]' =
           [[i \in IDs |-> AsQuery(i)] EXCEPT ![id] =
              IF new = NoItem THEN NoQuery ELSE Shown(origin[id].q, new)]
<1>1. \A i \in IDs : items'[i] = IF i = id THEN new ELSE items[i]
  BY DEF IInv, TypeOK
<1>2. \A i \in IDs : AsQuery(i)' = IF i = id
                                   THEN IF new = NoItem THEN NoQuery ELSE Shown(origin[id].q, new)
                                   ELSE AsQuery(i)
  BY <1>1 DEF AsQuery, Shown, Standing
<1> QED
  BY <1>2

(* ... and when none does.                                                 *)
LEMMA NothingPromised ==
  ASSUME UNCHANGED <<items, origin>>, finished' = NoOutcome
  PROVE  Promised!Rest
<1>1. \A id \in IDs : AsQuery(id)' = AsQuery(id)
  BY DEF AsQuery, Standing
<1>2. [id \in IDs |-> AsQuery(id)]' = [id \in IDs |-> AsQuery(id)]
  BY <1>1
<1>3. AsOutcome' = NoOutcome
  BY DEF AsOutcome
<1> QED
  BY <1>2, <1>3 DEF Promised!Rest

LEMMA ReadTells ==
  ASSUME IInv, InTurn, Orderly, NEW z \in Zones, NEW p \in flight[z], NEW b \in Bodies, Read(z, p, b),
         items[p.id] # NoItem
  PROVE  Promised!Tell(p.id, z, b)
<1> DEFINE r == [q |-> p.q, b |-> b]
<1> DEFINE id == p.id
<1> DEFINE old == items[id]
<1> DEFINE item == Judged(old, z, r)
<1> DEFINE q == origin[id].q
<1> DEFINE d == WithAnswer(Shown(q, old), z, r)
<1>1. TypeOK /\ p \in Packets
  BY DEF IInv, TypeOK
<1>2. id \in IDs /\ r \in Replies /\ r = [q |-> q, b |-> b] /\ q \in Questions
  BY <1>1, AnswerAwaited DEF Packets, Replies
<1>3. id \in Live /\ old \in Items /\ old.state[z] = "WAIT"
  BY <1>1, <1>2, AnswerAwaited DEF Live, TypeOK
<1>4. Sound(old) /\ ToldHolds(old) /\ q.qtype = old.qtype
  BY <1>3, OwnItems DEF IInv, InTurn, OwnItem
<1>5. DNSQueryResult(z, id, r) /\ UNCHANGED origin
  BY DEF Read
<1>6. AsQuery(id) = Shown(q, old)
  BY DEF AsQuery, Shown
<1>7. Shown(q, old) # NoQuery /\ Shown(q, old).status[z] = "awaited"
  <2>1. Shown(q, old) # NoQuery
    BY <1>2, <1>3, ShownIsQuery
  <2>2. Standing(old, z) = "awaited"
    BY <1>3 DEF Standing
  <2> QED
    BY <2>1, <2>2 DEF Shown
<1>8. PICK i \in 0 .. NumZones :
         /\ ScanStopsAt(item, i)
         /\ IF i # NumZones /\ item.state[i] = "WAIT"
            THEN Keep(id, item, i)
            ELSE Finish(id, item, Winner(item, i))
  BY <1>5 DEF DNSQueryResult
<1> DEFINE query == [j \in IDs |-> AsQuery(j)]
<1>9. query[id] = Shown(q, old) /\ Shown(q, old).q = q
  BY <1>2, <1>6 DEF Shown
<1> HIDE DEF r, old, q
<1>10. IF i # NumZones /\ item.state[i] = "WAIT"
       THEN ~Promised!Decided(Shown(q, item))
       ELSE Promised!Decided(Shown(q, item)) /\ Promised!Chosen(Shown(q, item), Winner(item, i))
  BY <1>2, <1>3, <1>4, <1>8, ScanDecides
<1>11. item \in Items /\ Shown(q, item) = d
  BY <1>2, <1>3, JudgedItem, JudgedShown
<1>12. d = [query[id] EXCEPT !.status[z] = "answered", !.told[z] = [q |-> query[id].q, b |-> b]]
  BY <1>2, <1>9 DEF WithAnswer
<1>13. query[id] # NoQuery /\ query[id].status[z] = "awaited"
  BY <1>7, <1>9 DEF q, old
<1> HIDE DEF item, d
<1>14. CASE i # NumZones /\ item.state[i] = "WAIT"
  <2> DEFINE new == [item EXCEPT !.maxDone = i]
  <2>1. items' = [items EXCEPT ![id] = new] /\ finished' = NoOutcome
    BY <1>8, <1>14 DEF Keep
  <2>2. new # NoItem /\ Shown(q, new) = d
    <3>1. new \in Items /\ new.state = item.state /\ new.data = item.data
      BY <1>8, <1>11, <1>14, PolicyAssumption, SMT DEF Items, Zones
    <3> HIDE DEF new
    <3>2. Shown(q, new) = Shown(q, item)
      BY <3>1 DEF Shown, Standing
    <3> QED
      BY <1>11, <3>1, <3>2, NoValueAssumption DEF Items
  <2> HIDE DEF new
  <2>3. query' = [query EXCEPT ![id] = d]
    BY <1>2, <1>5, <2>1, <2>2, OneQueryChanges DEF q
  <2>4. ~Promised!Decided(d)
    BY <1>10, <1>11, <1>14
  <2>5. AsOutcome' = NoOutcome
    BY <2>1 DEF AsOutcome
  <2> QED
    BY <1>12, <1>13, <2>3, <2>4, <2>5 DEF Promised!Tell
<1>15. CASE ~(i # NumZones /\ item.state[i] = "WAIT")
  <2> DEFINE w == Winner(item, i)
  <2>1. items' = [items EXCEPT ![id] = NoItem] /\ finished' = Outcome(id, item, w)
    BY <1>8, <1>15 DEF Finish
  <2>2. query' = [query EXCEPT ![id] = NoQuery]
    BY <1>2, <1>5, <2>1, OneQueryChanges
  <2>3. Promised!Decided(d) /\ Promised!Chosen(d, w)
    BY <1>10, <1>11, <1>15
  <2>4. w \in 0 .. NumZones
    BY <1>8, PolicyAssumption, SMT DEF Winner, NoZone
  <2> HIDE DEF w
  <2>5. /\ finished'.id = id
        /\ finished'.data = IF w = NoZone THEN NoData ELSE item.data[w]
        /\ finished'.sent = (w # NoZone /\ Rewritable(w, item.qtype, item.data[w].b))
    BY <2>1 DEF Outcome
  <2>6. item.qtype = q.qtype /\ d.told = item.data /\ d.q = q
    <3>1. item.qtype = old.qtype
      BY <1>3 DEF item, Judged, Items
    <3> QED
      BY <1>4, <1>11, <3>1 DEF Shown
  <2>7. finished' # NoOutcome
    <3>1. w # NoZone => item.data[w] \in Replies
      <4>1. DataHolds(item)
        BY <1>2, <1>3, <1>4, JudgedData DEF item
      <4> QED
        BY <1>8, <1>11, <1>15, <4>1, WinnerHasData DEF w
    <3>2. origin[id] \in Origins
      BY <1>1, <1>2, <1>3 DEF IInv, TypeOK
    <3>3. local \in Locals /\ item.state \in [Zones -> States]
      BY <1>1, <1>11 DEF TypeOK, Items
    <3>4. (w # NoZone /\ Rewritable(w, item.qtype, item.data[w].b)) \in BOOLEAN
      OBVIOUS
    <3>5. Outcome(id, item, w) \in Outcomes
      BY <1>2, <2>4, <3>1, <3>2, <3>3, <3>4 DEF Outcome, Outcomes
    <3> QED
      BY <2>1, <3>5, NoValueAssumption DEF Outcomes
  <2>8. AsOutcome' = Promised!Given(id, d, w)
    BY <2>5, <2>6, <2>7, PromisedPolicy DEF AsOutcome, Promised!Given, NoZone
  <2> QED
    BY <1>12, <1>13, <2>2, <2>3, <2>4, <2>8 DEF Promised!Tell
<1> QED
  BY <1>14, <1>15

LEMMA ReadPromised ==
  ASSUME IInv, InTurn, Orderly, NEW z \in Zones, NEW p \in flight[z], NEW b \in Bodies, Read(z, p, b)
  PROVE  Promised!RNext
<1>1. CASE items[p.id] = NoItem
  <2>1. UNCHANGED <<items, origin>> /\ finished' = NoOutcome
    BY <1>1 DEF Read, DNSQueryResult
  <2> QED
    BY <2>1, NothingPromised DEF Promised!RNext
<1>2. CASE items[p.id] # NoItem
  <2>1. p.id \in IDs
    BY AnswerAwaited
  <2>2. Promised!Tell(p.id, z, b) /\ z \in Promised!Zones
    BY <1>2, ReadTells, PromisedPolicy
  <2> QED
    BY <2>1, <2>2 DEF Promised!RNext
<1> QED
  BY <1>1, <1>2

(* A packet asks a new query; the zones whose socket refuses it fail.      *)
LEMMA ReceivePromised ==
  ASSUME IInv, InTurn, Orderly, NEW p \in Packets, NEW l \in Locals, NEW c, NEW k,
         ServerNewWork(p, l, c, k)
  PROVE  Promised!RNext
<1> DEFINE new == AfterRefusals(NewItem(p), c, k)
<1> DEFINE failed == {z \in Asked(p.q.qtype) : ~Accepts(c[z], k[z])}
<1> DEFINE query == [j \in IDs |-> AsQuery(j)]
<1>1. p.id \in IDs /\ p.q \in Questions /\ TypeOK
  BY DEF Packets, IInv
<1>2. items[p.id] = NoItem
  BY ReceiveIsNew
<1>3. /\ items' = [items EXCEPT ![p.id] = new] /\ new # NoItem
      /\ new.data = [z \in Zones |-> NoData]
      /\ new.state = [z \in Zones |-> IF z \notin Asked(p.q.qtype) THEN "NOT_MATCH"
                        ELSE IF Accepts(c[z], k[z]) THEN "WAIT" ELSE "ERROR"]
  BY ReceiveTold
<1> HIDE DEF new
<1> DEFINE made == Remembered(p, l, ItemFor(p))
<1>4. origin' = [origin EXCEPT ![p.id] = made] /\ made.q = p.q /\ finished' = NoOutcome
  BY <1>2, RememberedSound DEF ServerNewWork
<1> HIDE DEF made
<1>5. \A z \in Zones : Standing(new, z) = IF z \notin Asked(p.q.qtype) THEN "unasked"
                                          ELSE IF z \in failed THEN "failed" ELSE "awaited"
  BY <1>3 DEF Standing
<1>6. \A id \in IDs : AsQuery(id)' = IF id = p.id THEN Shown(p.q, new) ELSE AsQuery(id)
  <2>1. items'[p.id] = new /\ origin'[p.id].q = p.q
    BY <1>1, <1>3, <1>4 DEF TypeOK
  <2>2. \A id \in IDs \ {p.id} : items'[id] = items[id] /\ origin'[id] = origin[id]
    BY <1>1, <1>3, <1>4 DEF TypeOK
  <2> QED
    BY <1>3, <2>1, <2>2 DEF AsQuery, Shown, Standing
<1>7. Shown(p.q, new) =
        [q      |-> p.q,
         status |-> [z \in Zones |-> IF z \notin Asked(p.q.qtype) THEN "unasked"
                                     ELSE IF z \in failed THEN "failed" ELSE "awaited"],
         told   |-> [z \in Zones |-> NoData]]
  BY <1>3, <1>5 DEF Shown
<1>8. query' = [query EXCEPT ![p.id] = Shown(p.q, new)] /\ query[p.id] = NoQuery
  BY <1>1, <1>2, <1>6 DEF AsQuery
<1>9. failed \subseteq Asked(p.q.qtype) /\ failed \subseteq Zones
  BY DEF Asked
<1>10. AsOutcome' = NoOutcome
  BY <1>4 DEF AsOutcome
<1> HIDE DEF failed
<1>11. Promised!Ask(p.id, p.q, failed)
  BY <1>7, <1>8, <1>9, <1>10, PromisedPolicy DEF Promised!Ask
<1> QED
  BY <1>1, <1>9, <1>11, PromisedPolicy DEF Promised!RNext
(* A lost socket is a zone lost to every query that awaits it.             *)
LEMMA DisconnectPromised ==
  ASSUME IInv, InTurn, NEW z \in Zones, DNSQueryDisconnect(z)
  PROVE  Promised!RNext
<1> DEFINE query == [j \in IDs |-> AsQuery(j)]
<1>1. TypeOK /\ origin' = origin /\ finished' = NoOutcome
  BY DEF IInv, DNSQueryDisconnect
<1>2. ASSUME NEW id \in IDs
      PROVE  query'[id] = IF query[id] # NoQuery /\ query[id].status[z] = "awaited"
                          THEN [query[id] EXCEPT !.status[z] = "failed"] ELSE query[id]
  <2> DEFINE old == items[id]
  <2> DEFINE q == origin[id].q
  <2>1. items'[id] = IF old # NoItem /\ old.state[z] = "WAIT"
                     THEN [old EXCEPT !.state[z] = "ERROR"] ELSE old
    BY <1>2 DEF DNSQueryDisconnect, Live
  <2>2. CASE old = NoItem
    <3>1. AsQuery(id)' = NoQuery /\ AsQuery(id) = NoQuery
      BY <2>1, <2>2 DEF AsQuery
    <3> QED
      BY <3>1
  <2>3. CASE old # NoItem
    <3>1. old \in Items /\ q \in Questions /\ AsQuery(id) = Shown(q, old)
      BY <1>1, <1>2, <2>3 DEF TypeOK, IInv, Live, AsQuery, Shown, Origins
    <3>2. Shown(q, old) # NoQuery
      BY <3>1, ShownIsQuery
    <3>3. Shown(q, old).status[z] = "awaited" <=> old.state[z] = "WAIT"
      BY <3>1 DEF Shown, Standing
    <3>4. query[id] = Shown(q, old) /\ query'[id] = AsQuery(id)'
      BY <3>1
    <3>5. CASE old.state[z] # "WAIT"
      <4>1. items'[id] = items[id]
        BY <2>1, <3>5
      <4>2. AsQuery(id)' = AsQuery(id)
        BY <1>1, <4>1 DEF AsQuery, Standing
      <4> QED
        BY <3>1, <3>3, <3>4, <3>5, <4>2
    <3>6. CASE old.state[z] = "WAIT"
      <4> DEFINE new == [old EXCEPT !.state[z] = "ERROR"]
      <4> DEFINE stand == [v \in Zones |-> Standing(old, v)]
      <4>1. /\ new \in Items /\ new.data = old.data /\ new.state[z] = "ERROR"
            /\ \A v \in Zones \ {z} : new.state[v] = old.state[v]
        BY <3>1 DEF Items, States
      <4>2. items'[id] = new
        BY <2>1, <2>3, <3>6
      <4> HIDE DEF new
      <4>3. AsQuery(id)' = Shown(q, new)
        BY <1>1, <4>1, <4>2, NoValueAssumption DEF AsQuery, Shown, Standing, Items
      <4>4. \A v \in Zones : Standing(new, v) = IF v = z THEN "failed" ELSE Standing(old, v)
        BY <4>1 DEF Standing
      <4>5. [v \in Zones |-> Standing(new, v)] = [stand EXCEPT ![z] = "failed"]
        BY <4>4
      <4>6. Shown(q, old) = [q |-> q, status |-> stand, told |-> old.data]
        BY DEF Shown
      <4>7. Shown(q, new) = [q |-> q, status |-> [stand EXCEPT ![z] = "failed"], told |-> old.data]
        BY <4>1, <4>5 DEF Shown
      <4> HIDE DEF stand, old, q
      <4>8. Shown(q, new) = [Shown(q, old) EXCEPT !.status[z] = "failed"]
        BY <4>6, <4>7
      <4> QED
        BY <3>2, <3>3, <3>4, <3>6, <4>3, <4>8
    <3> QED
      BY <3>5, <3>6
  <2> QED
    BY <2>2, <2>3
<1>3. query' = [id \in IDs |-> IF query[id] # NoQuery /\ query[id].status[z] = "awaited"
                               THEN [query[id] EXCEPT !.status[z] = "failed"] ELSE query[id]]
  BY <1>2
<1>4. AsOutcome' = NoOutcome
  BY <1>1 DEF AsOutcome
<1>5. Promised!Lose(z)
  BY <1>3, <1>4 DEF Promised!Lose
<1> QED
  BY <1>5, PromisedPolicy DEF Promised!RNext

(* A closed transaction has forgotten its queries.                         *)
LEMMA ClosePromised ==
  ASSUME Close
  PROVE  Promised!RNext
<1>1. \A id \in IDs : AsQuery(id)' = NoQuery
  BY DEF Close, Nothing, AsQuery
<1>2. AsOutcome' = NoOutcome
  BY DEF Close, AsOutcome
<1>3. Promised!Forget
  BY <1>1, <1>2 DEF Promised!Forget
<1> QED
  BY <1>3 DEF Promised!RNext

LEMMA PromisedStep ==
  ASSUME IInv, InTurn, Orderly, [Next]_vars
  PROVE  [Promised!RNext]_(Promised!rvars)
<1>1. CASE Receive
  BY <1>1, ReceivePromised DEF Receive
<1>2. CASE ReceiveShort
  <2>1. UNCHANGED <<items, origin>> /\ finished' = NoOutcome
    BY <1>2 DEF ReceiveShort, ShortPacket
  <2> QED
    BY <2>1, NothingPromised DEF Promised!RNext
<1>3. ASSUME NEW z \in Zones, ReadSome(z) PROVE Promised!RNext
  BY <1>3, ReadPromised DEF ReadSome, ReadAnswerTo
<1>4. ASSUME NEW z \in Zones, WriteSome(z) PROVE Promised!RNext
  <2>1. UNCHANGED <<items, origin>> /\ finished' = NoOutcome
    BY <1>4 DEF WriteSome, Write
  <2> QED
    BY <2>1, NothingPromised DEF Promised!RNext
<1>5. ASSUME NEW z \in Zones, DNSQueryDisconnect(z) PROVE Promised!RNext
  BY <1>5, DisconnectPromised
<1>6. CASE CloseIdle
  <2>1. Close \/ (UNCHANGED <<items, origin>> /\ finished' = NoOutcome)
    BY <1>6 DEF CloseIdle
  <2> QED
    BY <2>1, ClosePromised, NothingPromised DEF Promised!RNext
<1>7. CASE Timeout
  BY <1>7, ClosePromised DEF Timeout
<1>8. CASE UNCHANGED vars
  <2>1. \A id \in IDs : AsQuery(id)' = AsQuery(id)
    BY <1>8 DEF vars, AsQuery, Standing
  <2>2. [id \in IDs |-> AsQuery(id)]' = [id \in IDs |-> AsQuery(id)]
    BY <2>1
  <2>3. AsOutcome' = AsOutcome
    BY <1>8 DEF vars, AsOutcome
  <2> QED
    BY <2>2, <2>3 DEF Promised!rvars
<1> QED
  BY <1>1, <1>2, <1>3, <1>4, <1>5, <1>6, <1>7, <1>8 DEF Next

(* When nothing is sent twice, the scan from the cursor over stored        *)
(* verdicts, the queues in front of the sockets and the order in which     *)
(* answers and errors arrive change nothing: a query is finished when its  *)
(* answers decide it, with the answer Resolution gives.                    *)
THEOREM Refinement == Orderly => (Spec => ImplementsResolution)
<1> SUFFICES ASSUME Orderly
             PROVE  Spec => ImplementsResolution
  OBVIOUS
<1>1. Spec => []InTurn
  BY InTurnAlways
<1>2. Init => Promised!RInit
  <2> SUFFICES ASSUME Init PROVE Promised!RInit
    OBVIOUS
  <2>1. \A id \in IDs : AsQuery(id) = NoQuery
    BY DEF Init, Nothing, AsQuery
  <2>2. AsOutcome = NoOutcome
    BY DEF Init, AsOutcome
  <2> QED
    BY <2>1, <2>2 DEF Promised!RInit
<1>3. IInv /\ InTurn /\ [Next]_vars => [Promised!RNext]_(Promised!rvars)
  BY PromisedStep
<1> QED
  BY <1>1, <1>2, <1>3, Invariance, PTL DEF Spec, ImplementsResolution, Promised!RSpec
===============================================================================
