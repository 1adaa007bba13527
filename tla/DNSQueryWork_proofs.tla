-------------------------- MODULE DNSQueryWork_proofs --------------------------
(***************************************************************************)
(* What DNSQueryWork guarantees for every number of zones, every policy    *)
(* and every environment: proofs by the inductive invariant IInv.          *)
(***************************************************************************)
EXTENDS DNSQueryWork, TLAPS

(* The inductive invariant: the types, and for every live query the scan   *)
(* cursor, the stored answers and the packet that asked it.                *)
Sound(item) == CursorHolds(item) /\ DataHolds(item)

IInv ==
  /\ TypeOK
  /\ \A id \in Live : Sound(items[id]) /\ origin[id] # NoQuery
  /\ NeverSendsEmpty

-------------------------------------------------------------------------------
(* Connections                                                             *)

(* Zone 0 exists.                                                          *)
LEMMA ZoneZero == 0 \in Zones
  BY PolicyAssumption, SMT DEF Zones

(* A new connection is a connection, with an empty queue.                  *)
LEMMA ConnectedType ==
  ASSUME NEW P, NEW up \in BOOLEAN
  PROVE  Connected(up) \in Conn(P)
  BY SMT DEF Connected, Conn

(* Sending, draining and losing a connection leave a connection.           *)
LEMMA AfterSendType ==
  ASSUME NEW P, NEW c \in Conn(P), NEW p \in P, NEW k
  PROVE  AfterSend(c, p, k) \in Conn(P)
  BY SMT DEF AfterSend, Queues, Conn

LEMMA AfterWriteType ==
  ASSUME NEW P, NEW c \in Conn(P), NEW n \in 1 .. Len(c.queue)
  PROVE  AfterWrite(c, n) \in Conn(P)
<1>1. SubSeq(c.queue, n + 1, Len(c.queue)) \in Seq(P)
  BY SMT DEF Conn
<1> QED
  BY <1>1 DEF AfterWrite, Conn

LEMMA AfterDisconnectType ==
  ASSUME NEW P, NEW c \in Conn(P)
  PROVE  AfterDisconnect(c) \in Conn(P)
  BY DEF AfterDisconnect, Conn

-------------------------------------------------------------------------------
(* Items                                                                   *)

(* A verdict settles a zone.                                               *)
LEMMA VerdictSettles ==
  ASSUME NEW z, NEW q, NEW b
  PROVE  Verdict(z, q, b) \in {"MATCH", "NOT_MATCH"}
  BY DEF Verdict

(* The item a packet finds or makes is sound; the cursor of a new one is   *)
(* at zone 0, which is always asked.                                       *)
LEMMA ItemForSound ==
  ASSUME IInv, NEW p \in Packets
  PROVE  ItemFor(p) \in Items /\ Sound(ItemFor(p))
<1> USE DEF Packets
<1>1. CASE items[p.id] # NoItem
  <2>1. ItemFor(p) = items[p.id] /\ p.id \in Live
    BY <1>1 DEF ItemFor, Live
  <2> QED
    BY <2>1, <1>1 DEF IInv, TypeOK
<1>2. CASE items[p.id] = NoItem
  <2> DEFINE item == NewItem(p)
  <2>1. ItemFor(p) = item
    BY <1>2 DEF ItemFor
  <2>2. p.q.qtype \in QTypes
    BY EnvironmentAssumption
  <2>3. item \in Items
    BY <2>2, ZoneZero DEF Items, States, NewItem
  <2>4. item.state[0] = "WAIT" /\ item.maxDone = 0
    BY ZoneZero DEF Asked, NewItem
  <2>5. \A v \in Zones : item.state[v] # "MATCH"
    BY DEF NewItem
  <2> HIDE DEF item
  <2>6. \A v \in Zones : ~(v < item.maxDone)
    BY <2>4, SMT DEF Zones
  <2>7. CursorHolds(item)
    BY <2>4, <2>6 DEF CursorHolds
  <2>8. DataHolds(item)
    BY <2>4, <2>5 DEF DataHolds
  <2> QED
    BY <2>1, <2>3, <2>7, <2>8 DEF Sound
<1> QED
  BY <1>1, <1>2

(* Turning awaited zones into failed ones keeps an item sound: the step of *)
(* a refused query and of a lost socket.                                   *)
LEMMA FailingKeepsSound ==
  ASSUME NEW item \in Items, Sound(item), NEW new \in Items,
         new.maxDone = item.maxDone, new.data = item.data,
         \A z \in Zones : \/ new.state[z] = item.state[z]
                          \/ item.state[z] = "WAIT" /\ new.state[z] = "ERROR"
  PROVE  Sound(new)
<1>1. item.maxDone \in Zones /\ 0 \in Zones
  BY ZoneZero DEF Items
<1>2. CursorHolds(new)
  BY <1>1 DEF Sound, CursorHolds
<1>3. DataHolds(new)
  BY <1>1 DEF Sound, DataHolds
<1> QED
  BY <1>2, <1>3 DEF Sound

LEMMA RefusalsKeepSound ==
  ASSUME NEW item \in Items, Sound(item), NEW c, NEW k
  PROVE  AfterRefusals(item, c, k) \in Items /\ Sound(AfterRefusals(item, c, k))
<1> DEFINE new == AfterRefusals(item, c, k)
<1>1. new \in Items
  BY DEF AfterRefusals, Items, States
<1>2. new.maxDone = item.maxDone /\ new.data = item.data
  BY DEF AfterRefusals, Items
<1>3. \A z \in Zones : \/ new.state[z] = item.state[z]
                       \/ item.state[z] = "WAIT" /\ new.state[z] = "ERROR"
  BY DEF AfterRefusals, Items, Refused, Targets
<1> QED
  BY <1>1, <1>2, <1>3, FailingKeepsSound

(* An answer leaves the item well typed and settles its zone.              *)
LEMMA JudgedItem ==
  ASSUME NEW item \in Items, NEW z \in Zones, NEW r \in Replies
  PROVE  /\ Judged(item, z, r) \in Items
         /\ Judged(item, z, r).maxDone = item.maxDone
         /\ Judged(item, z, r).state[z] \in {"MATCH", "NOT_MATCH"}
         /\ Judged(item, z, r).data[z] = r
         /\ \A v \in Zones \ {z} : /\ Judged(item, z, r).state[v] = item.state[v]
                                   /\ Judged(item, z, r).data[v] = item.data[v]
<1> DEFINE verdict == Verdict(z, item.qtype, r.b)
<1>1. verdict \in {"MATCH", "NOT_MATCH"}
  BY VerdictSettles
<1> HIDE DEF verdict
<1> DEFINE states == [item.state EXCEPT ![z] = verdict]
<1> DEFINE answers == [item.data EXCEPT ![z] = r]
<1>2. /\ states \in [Zones -> States]
      /\ states[z] = verdict
      /\ \A v \in Zones \ {z} : states[v] = item.state[v]
  BY <1>1 DEF Items, States
<1>3. /\ answers \in [Zones -> Replies \cup {NoData}]
      /\ answers[z] = r
      /\ \A v \in Zones \ {z} : answers[v] = item.data[v]
  BY DEF Items
<1>4. Judged(item, z, r) = [item EXCEPT !.state = states, !.data = answers]
  BY DEF Judged, verdict, Items
<1> HIDE DEF states, answers
<1>5. /\ Judged(item, z, r) \in Items
      /\ Judged(item, z, r).maxDone = item.maxDone
      /\ Judged(item, z, r).state = states
      /\ Judged(item, z, r).data = answers
  BY <1>2, <1>3, <1>4 DEF Items
<1> QED
  BY <1>1, <1>2, <1>3, <1>5

(* What is stored for a matching zone, and for zone 0, stays an answer.    *)
LEMMA JudgedData ==
  ASSUME NEW item \in Items, Sound(item), NEW z \in Zones, NEW r \in Replies
  PROVE  DataHolds(Judged(item, z, r))
<1>1. r # NoData
  BY NoValueAssumption
<1>2. 0 \in Zones
  BY ZoneZero
<1> QED
  BY <1>1, <1>2, JudgedItem DEF Sound, DataHolds

(* A scan that ends at an awaited zone leaves a sound item, cursor there.  *)
LEMMA ScanKeepsSound ==
  ASSUME NEW item \in Items, Sound(item), NEW z \in Zones, NEW r \in Replies,
         NEW i \in 0 .. NumZones, ScanStopsAt(Judged(item, z, r), i),
         i # NumZones, Judged(item, z, r).state[i] = "WAIT"
  PROVE  /\ [Judged(item, z, r) EXCEPT !.maxDone = i] \in Items
         /\ Sound([Judged(item, z, r) EXCEPT !.maxDone = i])
<1> DEFINE j == Judged(item, z, r)
<1> DEFINE new == [j EXCEPT !.maxDone = i]
<1>1. j \in Items /\ j.maxDone = item.maxDone /\ item.maxDone \in Zones
  BY JudgedItem DEF Items
<1>2. i \in Zones
  BY PolicyAssumption, SMT DEF Zones
<1>3. new \in Items /\ new.maxDone = i /\ new.state = j.state /\ new.data = j.data
  BY <1>1, <1>2 DEF Items
<1>4. ASSUME NEW v \in Zones, v < i
      PROVE  j.state[v] # "WAIT"
  <2>1. CASE v < item.maxDone
    <3>1. item.state[v] # "WAIT"
      BY <2>1 DEF Sound, CursorHolds
    <3>2. j.state[v] \in {"MATCH", "NOT_MATCH"} \/ j.state[v] = item.state[v]
      BY JudgedItem
    <3> QED
      BY <3>1, <3>2
  <2>2. CASE ~(v < item.maxDone)
    <3>1. j.maxDone <= v
      BY <1>1, <2>2, PolicyAssumption, SMT DEF Zones
    <3> QED
      BY <3>1, <1>4 DEF ScanStopsAt
  <2> QED
    BY <2>1, <2>2
<1>5. CursorHolds(new)
  BY <1>3, <1>4 DEF CursorHolds
<1>6. DataHolds(new)
  BY <1>3, JudgedData DEF DataHolds
<1> QED
  BY <1>3, <1>5, <1>6 DEF Sound

(* The zone a finishing scan chooses has an answer stored.                 *)
LEMMA WinnerHasData ==
  ASSUME NEW item \in Items, DataHolds(item), NEW i \in 0 .. NumZones,
         ScanStopsAt(item, i), ~(i # NumZones /\ item.state[i] = "WAIT")
  PROVE  /\ Winner(item, i) \in 0 .. NumZones
         /\ Winner(item, i) # NoZone =>
              /\ Winner(item, i) \in Zones
              /\ item.data[Winner(item, i)] \in Replies
              /\ item.data[Winner(item, i)] # NoData
<1>1. NumZones \in 0 .. NumZones /\ 0 \in 0 .. NumZones /\ 0 \in Zones
  BY PolicyAssumption, ZoneZero, SMT
<1>2. CASE i # NumZones
  <2>1. i \in Zones
    BY <1>2, PolicyAssumption, SMT DEF Zones
  <2>2. item.state[i] = "MATCH"
    BY <1>2 DEF ScanStopsAt
  <2>3. Winner(item, i) = i
    BY <1>2 DEF Winner
  <2>4. item.data[i] # NoData /\ item.data[i] \in Replies \cup {NoData}
    BY <2>1, <2>2 DEF DataHolds, Items
  <2> QED
    BY <2>1, <2>3, <2>4
<1>3. CASE i = NumZones /\ item.state[0] = "NOT_MATCH"
  <2>1. Winner(item, i) = 0
    BY <1>3 DEF Winner
  <2>2. item.data[0] # NoData /\ item.data[0] \in Replies \cup {NoData}
    BY <1>1, <1>3 DEF DataHolds, Items
  <2> QED
    BY <1>1, <2>1, <2>2
<1>4. CASE i = NumZones /\ item.state[0] # "NOT_MATCH"
  BY <1>1, <1>4 DEF Winner, NoZone
<1> QED
  BY <1>2, <1>3, <1>4
-------------------------------------------------------------------------------
(* One lemma per action: the action preserves IInv.                        *)

(* Every zone of a set of sockets a packet finds or makes has a connection.*)
LEMMA SocketsType ==
  ASSUME TypeOK, NEW c, FoundOrMade(c)
  PROVE  c \in [Zones -> Conn(Packets)]
<1>1. CASE open
  BY <1>1 DEF FoundOrMade, TypeOK
<1>2. CASE ~open
  <2>1. PICK up \in Upstreams : c = [z \in Zones |-> Connected(z \in up)]
    BY <1>2 DEF FoundOrMade
  <2>2. ASSUME NEW z \in Zones PROVE Connected(z \in up) \in Conn(Packets)
    <3>1. (z \in up) \in BOOLEAN
      OBVIOUS
    <3> QED
      BY <3>1, ConnectedType
  <2> QED
    BY <2>1, <2>2
<1> QED
  BY <1>1, <1>2

(* What a zone owes an answer are questions packets asked.                 *)
LEMMA OwedType ==
  ASSUME TypeOK, NEW z \in Zones, NEW id
  PROVE  Owed(z, id) \subseteq Questions
<1>1. flight[z] \subseteq Packets /\ conns[z].queue \in Seq(Packets)
  BY DEF TypeOK, Conn
<1>2. Waiting(conns[z]) \subseteq Packets
  BY <1>1, SMT DEF Waiting
<1>3. \A p \in Pending(z) : p.q \in Questions
  BY <1>1, <1>2 DEF Pending, Packets
<1> QED
  BY <1>3 DEF Owed

(* What is remembered of a packet: of a new item its question and what is  *)
(* owed already, of a live one its question is added for the zones asked.  *)
LEMMA RememberedSound ==
  ASSUME IInv, NEW p \in Packets, NEW l \in Locals, NEW item
  PROVE  LET r == Remembered(p, l, item)
         IN  /\ r \in Origins /\ r # NoQuery
             /\ items[p.id] = NoItem =>
                  /\ r.q = p.q
                  /\ \A z \in Zones : r.owed[z] = IF open THEN Owed(z, p.id) ELSE {}
             /\ items[p.id] # NoItem =>
                  /\ r.q = origin[p.id].q
                  /\ \A z \in Zones : r.owed[z] = origin[p.id].owed[z] \cup
                                                  (IF z \in Targets(item) THEN {p.q} ELSE {})
<1> DEFINE r == Remembered(p, l, item)
<1>1. TypeOK /\ p.id \in IDs /\ p.q \in Questions
  BY DEF IInv, Packets
<1>2. r \in Origins => r # NoQuery
  BY NoValueAssumption
<1>3. CASE items[p.id] = NoItem
  <2> DEFINE now == [z \in Zones |-> IF open THEN Owed(z, p.id) ELSE {}]
  <2>1. r = [q |-> p.q, local |-> l, owed |-> now]
    BY <1>3 DEF Remembered
  <2>2. now \in [Zones -> SUBSET Questions]
    BY <1>1, OwedType
  <2>3. \A z \in Zones : now[z] = IF open THEN Owed(z, p.id) ELSE {}
    OBVIOUS
  <2> HIDE DEF now
  <2>4. r \in Origins /\ r.q = p.q /\ r.owed = now
    BY <1>1, <2>1, <2>2 DEF Origins
  <2> QED
    BY <1>2, <1>3, <2>3, <2>4
<1>4. CASE items[p.id] # NoItem
  <2> DEFINE now == [z \in Zones |-> IF z \in Targets(item) THEN origin[p.id].owed[z] \cup {p.q}
                                                           ELSE origin[p.id].owed[z]]
  <2>1. origin[p.id] \in Origins
    BY <1>1, <1>4 DEF IInv, TypeOK, Live
  <2>2. r = [origin[p.id] EXCEPT !.owed = now]
    BY <1>4, <2>1 DEF Remembered, Origins
  <2>3. now \in [Zones -> SUBSET Questions]
    BY <1>1, <2>1 DEF Origins
  <2>4. \A z \in Zones : now[z] = origin[p.id].owed[z] \cup (IF z \in Targets(item) THEN {p.q} ELSE {})
    OBVIOUS
  <2> HIDE DEF now
  <2>5. r \in Origins /\ r.q = origin[p.id].q /\ r.owed = now
    BY <2>1, <2>2, <2>3 DEF Origins
  <2> QED
    BY <1>2, <1>4, <2>4, <2>5
<1> HIDE DEF r
<1> QED
  BY <1>3, <1>4 DEF r

(* The packet count stays within its bound.                                *)
LEMMA PacketCount ==
  ASSUME packets \in 0 .. MaxPackets, packets < MaxPackets
  PROVE  packets + 1 \in 0 .. MaxPackets
  BY EnvironmentAssumption, SMT

LEMMA InitIInv == Init => IInv
<1> SUFFICES ASSUME Init PROVE IInv
  OBVIOUS
<1>1. NoSockets \in [Zones -> Conn(Packets)]
  BY ConnectedType DEF NoSockets
<1>2. 0 \in 0 .. MaxPackets
  BY EnvironmentAssumption, SMT
<1>3. TypeOK
  BY <1>1, <1>2 DEF Init, TypeOK, Nothing, NothingSent, NothingAsked
<1>4. Live = {}
  BY DEF Init, Live, Nothing
<1>5. NeverSendsEmpty
  BY DEF Init, NeverSendsEmpty
<1> QED
  BY <1>3, <1>4, <1>5 DEF IInv

LEMMA CloseIInv ==
  ASSUME IInv, Close
  PROVE  IInv'
<1>1. NoSockets \in [Zones -> Conn(Packets)]
  BY ConnectedType DEF NoSockets
<1>2. 0 \in 0 .. MaxPackets
  BY EnvironmentAssumption, SMT
<1>3. TypeOK'
  BY <1>1, <1>2 DEF Close, IInv, TypeOK, Nothing, NothingSent, NothingAsked
<1>4. Live' = {}
  BY DEF Close, Live, Nothing
<1>5. NeverSendsEmpty'
  BY DEF Close, NeverSendsEmpty
<1> QED
  BY <1>3, <1>4, <1>5 DEF IInv

LEMMA ServerNewWorkIInv ==
  ASSUME IInv, NEW p \in Packets, NEW l \in Locals, NEW c, NEW k,
         ServerNewWork(p, l, c, k)
  PROVE  IInv'
<1> DEFINE item == ItemFor(p)
<1> DEFINE new == AfterRefusals(item, c, k)
<1> DEFINE asked == Remembered(p, l, item)
<1>1. TypeOK /\ c \in [Zones -> Conn(Packets)]
  BY SocketsType DEF IInv, ServerNewWork
<1>2. new \in Items /\ Sound(new)
  BY ItemForSound, RefusalsKeepSound
<1>3. p.id \in IDs /\ p.q \in Questions
  BY DEF Packets
<1>4. asked \in Origins /\ asked # NoQuery
  BY RememberedSound
<1> HIDE DEF item, new, asked
<1>5. items' = [items EXCEPT ![p.id] = new] /\ finished' = NoOutcome
  BY DEF ServerNewWork, item, new
<1>6. origin' = [origin EXCEPT ![p.id] = asked]
  BY DEF ServerNewWork, asked, item
<1>7. conns' \in [Zones -> Conn(Packets)]
  BY <1>1, AfterSendType DEF ServerNewWork, item
<1>8. flight' \in [Zones -> SUBSET Packets]
  BY <1>1 DEF ServerNewWork, TypeOK
<1>9. packets' \in 0 .. MaxPackets
  BY <1>1, PacketCount DEF ServerNewWork, TypeOK
<1>10. items' \in [IDs -> Items \cup {NoItem}]
  BY <1>1, <1>2, <1>5 DEF TypeOK
<1>11. origin' \in [IDs -> Origins \cup {NoQuery}]
  BY <1>1, <1>4, <1>6 DEF TypeOK
<1>12. TypeOK'
  BY <1>1, <1>5, <1>7, <1>8, <1>9, <1>10, <1>11 DEF ServerNewWork, TypeOK
<1>13. ASSUME NEW id \in Live'
       PROVE  Sound(items'[id]) /\ origin'[id] # NoQuery
  <2>1. CASE id = p.id
    <3>1. items'[id] = new
      BY <1>1, <1>3, <1>5, <2>1 DEF TypeOK
    <3>2. origin'[id] # NoQuery
      BY <1>1, <1>3, <1>4, <1>6, <2>1 DEF TypeOK, IInv, Live
    <3> QED
      BY <1>2, <3>1, <3>2
  <2>2. CASE id # p.id
    <3>1. id \in Live /\ items'[id] = items[id]
      BY <1>1, <1>5, <2>2 DEF TypeOK, Live
    <3>2. origin'[id] = origin[id]
      BY <1>1, <1>6, <2>2, <3>1 DEF TypeOK, Live
    <3> QED
      BY <3>1, <3>2 DEF IInv
  <2> QED
    BY <2>1, <2>2
<1>14. NeverSendsEmpty'
  BY <1>5 DEF NeverSendsEmpty
<1> QED
  BY <1>12, <1>13, <1>14 DEF IInv

LEMMA ShortPacketIInv ==
  ASSUME IInv, NEW l \in Locals, NEW c, ShortPacket(l, c)
  PROVE  IInv'
<1>1. TypeOK /\ c \in [Zones -> Conn(Packets)]
  BY SocketsType DEF IInv, ShortPacket
<1>2. packets' \in 0 .. MaxPackets
  BY <1>1, PacketCount DEF ShortPacket, TypeOK
<1>3. TypeOK'
  BY <1>1, <1>2 DEF ShortPacket, TypeOK
<1>4. UNCHANGED <<items, origin>> /\ finished' = NoOutcome
  BY DEF ShortPacket
<1> QED
  BY <1>3, <1>4 DEF IInv, Live, NeverSendsEmpty
LEMMA ReadIInv ==
  ASSUME IInv, NEW z \in Zones, NEW p \in flight[z], NEW b \in Bodies, Read(z, p, b)
  PROVE  IInv'
<1> DEFINE r == [q |-> p.q, b |-> b]
<1>1. TypeOK /\ p \in Packets
  BY DEF IInv, TypeOK
<1>2. p.id \in IDs /\ r \in Replies
  BY <1>1 DEF Packets, Replies
<1>3. flight' \in [Zones -> SUBSET Packets]
  <2>1. flight' = [flight EXCEPT ![z] = @ \ {p}] \/ flight' = flight
    BY DEF Read
  <2> QED
    BY <1>1, <2>1 DEF TypeOK
<1>4. DNSQueryResult(z, p.id, r) /\ UNCHANGED <<open, conns, local, packets, origin>>
  BY DEF Read
<1> HIDE DEF r
<1>5. CASE items[p.id] = NoItem
  <2>1. UNCHANGED <<items, idle>> /\ finished' = NoOutcome
    BY <1>4, <1>5 DEF DNSQueryResult
  <2>2. TypeOK'
    BY <1>1, <1>3, <1>4, <2>1 DEF TypeOK
  <2> QED
    BY <1>4, <2>1, <2>2 DEF IInv, Live, NeverSendsEmpty
<1>6. CASE items[p.id] # NoItem
  <2> DEFINE old == items[p.id]
  <2> DEFINE item == Judged(old, z, r)
  <2>1. p.id \in Live /\ old \in Items /\ Sound(old)
    BY <1>1, <1>2, <1>6 DEF IInv, TypeOK, Live
  <2>2. item \in Items /\ DataHolds(item)
    BY <1>2, <2>1, JudgedItem, JudgedData
  <2>3. PICK i \in 0 .. NumZones :
          /\ ScanStopsAt(item, i)
          /\ IF i # NumZones /\ item.state[i] = "WAIT"
             THEN Keep(p.id, item, i)
             ELSE Finish(p.id, item, Winner(item, i))
    BY <1>4, <1>6 DEF DNSQueryResult
  <2>4. CASE i # NumZones /\ item.state[i] = "WAIT"
    <3> DEFINE new == [item EXCEPT !.maxDone = i]
    <3>1. new \in Items /\ Sound(new)
      BY <1>2, <2>1, <2>3, <2>4, ScanKeepsSound
    <3> HIDE DEF item
    <3>2. Keep(p.id, item, i)
      BY <2>3, <2>4
    <3> HIDE DEF new
    <3>3. items' = [items EXCEPT ![p.id] = new] /\ finished' = NoOutcome /\ idle' = idle
      BY <3>2 DEF Keep, new
    <3>4. TypeOK'
      BY <1>1, <1>3, <1>4, <3>1, <3>3 DEF TypeOK
    <3>5. ASSUME NEW id \in Live' PROVE Sound(items'[id]) /\ origin'[id] # NoQuery
      <4>1. id \in Live /\ (items'[id] = new \/ items'[id] = items[id])
        BY <1>1, <2>1, <3>3 DEF TypeOK, Live
      <4> QED
        BY <1>4, <3>1, <4>1 DEF IInv
    <3> QED
      BY <3>3, <3>4, <3>5 DEF IInv, NeverSendsEmpty
  <2>5. CASE ~(i # NumZones /\ item.state[i] = "WAIT")
    <3> DEFINE w == Winner(item, i)
    <3> HIDE DEF item
    <3>1. /\ w \in 0 .. NumZones
          /\ w # NoZone => /\ w \in Zones
                           /\ item.data[w] \in Replies
                           /\ item.data[w] # NoData
      BY <2>2, <2>3, <2>5, WinnerHasData
    <3>2. Finish(p.id, item, w)
      BY <2>3, <2>5
    <3> HIDE DEF w
    <3>3. items' = [items EXCEPT ![p.id] = NoItem] /\ idle' \in BOOLEAN
      BY <3>2 DEF Finish
    <3>4. finished' = Outcome(p.id, item, w)
      BY <3>2 DEF Finish
    <3>5. origin[p.id] \in Origins
      BY <1>1, <1>2, <2>1 DEF IInv, TypeOK
    <3>6. (w # NoZone /\ Rewritable(w, item.qtype, item.data[w].b)) \in BOOLEAN
      OBVIOUS
    <3>7. finished' \in Outcomes
      BY <1>1, <1>2, <2>2, <3>1, <3>4, <3>5, <3>6 DEF Outcome, Outcomes, Items, TypeOK
    <3>8. TypeOK'
      BY <1>1, <1>3, <1>4, <3>3, <3>7 DEF TypeOK
    <3>9. ASSUME NEW id \in Live' PROVE Sound(items'[id]) /\ origin'[id] # NoQuery
      <4>1. id \in Live /\ items'[id] = items[id]
        BY <1>1, <3>3 DEF TypeOK, Live
      <4> QED
        BY <1>4, <4>1 DEF IInv
    <3>10. finished'.winner = w /\ finished'.data = IF w = NoZone THEN NoData ELSE item.data[w]
      BY <3>4 DEF Outcome
    <3>11. NeverSendsEmpty'
      BY <3>1, <3>10 DEF NeverSendsEmpty
    <3> QED
      BY <3>8, <3>9, <3>11 DEF IInv
  <2> QED
    BY <2>4, <2>5
<1> QED
  BY <1>5, <1>6

LEMMA WriteIInv ==
  ASSUME IInv, NEW z \in Zones, NEW n, NEW lost, Write(z, n, lost)
  PROVE  IInv'
<1>1. TypeOK /\ conns[z] \in Conn(Packets) /\ n \in 1 .. Len(conns[z].queue)
  BY DEF IInv, TypeOK, Write
<1>2. conns' \in [Zones -> Conn(Packets)]
  BY <1>1, AfterWriteType DEF Write, TypeOK
<1>3. \A j \in (1 .. n) \ lost : conns[z].queue[j] \in Packets
  BY <1>1, SMT DEF Conn
<1>4. flight' \in [Zones -> SUBSET Packets]
  BY <1>1, <1>3 DEF Write, TypeOK
<1>5. UNCHANGED <<open, items, idle, local, packets, origin>> /\ finished' = NoOutcome
  BY DEF Write
<1>6. TypeOK'
  BY <1>1, <1>2, <1>4, <1>5 DEF TypeOK
<1> QED
  BY <1>5, <1>6 DEF IInv, Live, NeverSendsEmpty

LEMMA DNSQueryDisconnectIInv ==
  ASSUME IInv, NEW z \in Zones, DNSQueryDisconnect(z)
  PROVE  IInv'
<1>1. TypeOK
  BY DEF IInv
<1>2. /\ finished' = NoOutcome
      /\ UNCHANGED <<open, idle, local, flight, packets, origin>>
  BY DEF DNSQueryDisconnect
<1>3. conns' \in [Zones -> Conn(Packets)]
  BY <1>1, AfterDisconnectType DEF DNSQueryDisconnect, TypeOK
<1>4. ASSUME NEW id \in IDs
      PROVE  /\ items'[id] \in Items \cup {NoItem}
             /\ id \in Live' => id \in Live /\ Sound(items'[id])
  <2>1. CASE id \in Live /\ items[id].state[z] = "WAIT"
    <3> DEFINE new == [items[id] EXCEPT !.state[z] = "ERROR"]
    <3>1. items'[id] = new
      BY <2>1 DEF DNSQueryDisconnect
    <3>2. items[id] \in Items /\ Sound(items[id])
      BY <1>1, <2>1 DEF IInv, TypeOK, Live
    <3>3. /\ new \in Items
          /\ new.maxDone = items[id].maxDone /\ new.data = items[id].data
          /\ \A v \in Zones : \/ new.state[v] = items[id].state[v]
                              \/ items[id].state[v] = "WAIT" /\ new.state[v] = "ERROR"
      BY <2>1, <3>2 DEF Items, States
    <3> HIDE DEF new
    <3>4. Sound(new)
      BY <3>2, <3>3, FailingKeepsSound
    <3> QED
      BY <2>1, <3>1, <3>3, <3>4
  <2>2. CASE ~(id \in Live /\ items[id].state[z] = "WAIT")
    <3>1. items'[id] = items[id]
      BY <2>2 DEF DNSQueryDisconnect
    <3> QED
      BY <1>1, <3>1 DEF IInv, TypeOK, Live
  <2> QED
    BY <2>1, <2>2
<1>5. items' \in [IDs -> Items \cup {NoItem}]
  BY <1>4 DEF DNSQueryDisconnect
<1>6. TypeOK'
  BY <1>1, <1>2, <1>3, <1>5 DEF TypeOK
<1>7. \A id \in Live' : Sound(items'[id]) /\ origin'[id] # NoQuery
  BY <1>2, <1>4 DEF IInv, Live
<1> QED
  BY <1>2, <1>6, <1>7 DEF IInv, NeverSendsEmpty

LEMMA CloseIdleIInv ==
  ASSUME IInv, CloseIdle
  PROVE  IInv'
<1>1. CASE Close
  BY <1>1, CloseIInv
<1>2. CASE /\ idle' = FALSE /\ finished' = NoOutcome
           /\ UNCHANGED <<open, items, conns, local, flight, packets, origin>>
  <2>1. TypeOK'
    BY <1>2 DEF IInv, TypeOK
  <2> QED
    BY <1>2, <2>1 DEF IInv, Live, NeverSendsEmpty
<1> QED
  BY <1>1, <1>2 DEF CloseIdle

-------------------------------------------------------------------------------
(* The theorems                                                            *)

(* IInv is an invariant of every behaviour of the transaction.             *)
THEOREM Invariance == Spec => []IInv
<1>1. Init => IInv
  BY InitIInv
<1>2. IInv /\ [Next]_vars => IInv'
  <2> SUFFICES ASSUME IInv, [Next]_vars PROVE IInv'
    OBVIOUS
  <2>1. CASE Receive
    BY <2>1, ServerNewWorkIInv DEF Receive
  <2>2. CASE ReceiveShort
    BY <2>2, ShortPacketIInv DEF ReceiveShort
  <2>3. ASSUME NEW z \in Zones, ReadSome(z) PROVE IInv'
    BY <2>3, ReadIInv DEF ReadSome, ReadAnswerTo
  <2>4. ASSUME NEW z \in Zones, WriteSome(z) PROVE IInv'
    BY <2>4, WriteIInv DEF WriteSome
  <2>5. ASSUME NEW z \in Zones, DNSQueryDisconnect(z) PROVE IInv'
    BY <2>5, DNSQueryDisconnectIInv
  <2>6. CASE CloseIdle
    BY <2>6, CloseIdleIInv
  <2>7. CASE Timeout
    BY <2>7, CloseIInv DEF Timeout
  <2>8. CASE UNCHANGED vars
    <3>1. TypeOK'
      BY <2>8 DEF vars, IInv, TypeOK
    <3> QED
      BY <2>8, <3>1 DEF vars, IInv, Live, NeverSendsEmpty
  <2> QED
    BY <2>1, <2>2, <2>3, <2>4, <2>5, <2>6, <2>7, <2>8 DEF Next
<1> QED
  BY <1>1, <1>2, PTL DEF Spec

(* The state of a transaction is always well typed.                        *)
THEOREM TypeCorrect == Spec => []TypeOK
<1>1. IInv => TypeOK
  BY DEF IInv
<1> QED
  BY <1>1, Invariance, PTL

(* No zone before m_nMaxDoneIndex is awaited, and the zone at it is awaited*)
(* or has failed: no answer a scan has passed over can still be missing.   *)
THEOREM ScanCursorHolds == Spec => []ScanCursor
<1>1. IInv => ScanCursor
  BY DEF IInv, Sound, ScanCursor
<1> QED
  BY <1>1, Invariance, PTL

(* A query left unanswered with no zone awaited has lost a zone to an      *)
(* error; one whose zones have all answered is always finished.            *)
THEOREM StrandedByFailure == Spec => []StrandedOnlyByFailure
<1>1. IInv => StrandedOnlyByFailure
  <2> SUFFICES ASSUME IInv, NEW id \in Live, \A z \in Zones : items[id].state[z] # "WAIT"
               PROVE  \E z \in Zones : items[id].state[z] = "ERROR"
    BY DEF StrandedOnlyByFailure
  <2>1. items[id].maxDone \in Zones
    BY DEF IInv, TypeOK, Live, Items
  <2>2. items[id].state[items[id].maxDone] = "ERROR"
    BY <2>1 DEF IInv, Sound, CursorHolds
  <2> QED
    BY <2>1, <2>2
<1> QED
  BY <1>1, Invariance, PTL

(* The client is never given the empty answer of a zone that has none.     *)
THEOREM NothingEmptySent == Spec => []NeverSendsEmpty
<1>1. IInv => NeverSendsEmpty
  BY DEF IInv
<1> QED
  BY <1>1, Invariance, PTL
===============================================================================
