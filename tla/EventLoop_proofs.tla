--------------------------- MODULE EventLoop_proofs ---------------------------
(***************************************************************************)
(* The event loop, for every number of clients, zones and descriptors and  *)
(* every choice of the intervals: who owns a descriptor, that the events   *)
(* of a batch stay valid, and how long a transaction can live.             *)
(***************************************************************************)
EXTENDS EventLoop, TLAPS

(* While a batch is handled nothing has been closed, so its descriptors    *)
(* are those that were registered when epoll_wait returned.                *)
BatchOpen ==
  pc = "serve" => /\ closed = {}
                  /\ \A e \in batch : e.fd \in Fds => e.fd \in sockets

(* A transaction whose last query has finished is marked until CloseIdle.  *)
AnsweredAreMarked ==
  \A c \in Open : works[c].asked /\ works[c].pending = {} =>
    pc \in {"serve", "closeIdle"} /\ c \in idle

(* The last cleaning: ages since then, and how long ago it can be.  Before *)
(* the first one there are only transactions of the first batch.           *)
CleaningIsRecent ==
  /\ \A c \in Open : works[c].age <= TimeOut + sinceClean
  /\ pc = "poll" => Open = {} \/ sinceClean <= Interval - 1 + waited
  /\ \/ sinceClean <= 2 * Interval - 1
     \/ \A c \in Open : works[c].age = 0

(* The inductive invariant.                                                *)
IInv == TypeOK /\ ManagerExact /\ BatchOpen /\ AnsweredAreMarked
-------------------------------------------------------------------------------
(* Ownership of descriptors                                                *)

(* The descriptors of closed transactions are managed; nobody else holds   *)
(* one of them.                                                            *)
LEMMA FdsOfOwned ==
  ASSUME TypeOK, ManagerExact, NEW cs, NEW fd \in FdsOf(cs)
  PROVE  \E c \in cs \cap Open, z \in Zones :
           fd \in Fds /\ works[c].fds[z] = fd /\ manager[fd] = [client |-> c, zone |-> z]
<1>1. PICK c \in cs \cap Open : fd \in InUse(works[c].fds)
  BY DEF FdsOf
<1>2. PICK z \in Zones : fd = works[c].fds[z] /\ fd # NoFd
  BY <1>1 DEF InUse
<1>3. c \in Clients /\ works[c] \in Works /\ works[c] # NoWork
  BY DEF Open, TypeOK
<1>4. fd \in Fds
  BY <1>2, <1>3 DEF Works
<1>5. [client |-> c, zone |-> z] \in Owners
  BY <1>3 DEF Owners
<1>6. manager[fd] = [client |-> c, zone |-> z]
  BY <1>2, <1>3, <1>4, <1>5 DEF ManagerExact
<1> QED
  BY <1>2, <1>4, <1>6

(* Closing transactions keeps the ConnectionManager exact.                 *)
LEMMA CloseExact ==
  ASSUME TypeOK, ManagerExact, NEW cs, Close(cs)
  PROVE  ManagerExact' /\ works' \in [Clients -> Works \cup {NoWork}]
         /\ manager' \in [Fds -> Owners \cup {NoOwner}]
         /\ sockets' \subseteq Fds /\ watched' \subseteq Fds /\ closed' \subseteq Fds
<1>1. FdsOf(cs) \subseteq Fds
  BY FdsOfOwned
<1>2. /\ works' \in [Clients -> Works \cup {NoWork}]
      /\ manager' \in [Fds -> Owners \cup {NoOwner}]
      /\ sockets' \subseteq Fds /\ watched' \subseteq Fds /\ closed' \subseteq Fds
  BY <1>1 DEF Close, TypeOK
<1>3. ASSUME NEW fd \in Fds, NEW o \in Owners
      PROVE  manager'[fd] = o <=> works'[o.client] # NoWork /\ works'[o.client].fds[o.zone] = fd
  <2>1. o.client \in Clients /\ o.zone \in Zones /\ o = [client |-> o.client, zone |-> o.zone]
    BY DEF Owners
  <2>2. manager[fd] = o <=> works[o.client] # NoWork /\ works[o.client].fds[o.zone] = fd
    BY DEF ManagerExact
  <2>3. manager'[fd] = IF fd \in FdsOf(cs) THEN NoOwner ELSE manager[fd]
    BY DEF Close
  <2>4. works'[o.client] = IF o.client \in cs THEN NoWork ELSE works[o.client]
    BY <2>1 DEF Close
  <2>5. o # NoOwner
    BY LoopAssumption
  <2>6. CASE fd \in FdsOf(cs)
    <3>1. PICK c \in cs \cap Open, z \in Zones :
            fd \in Fds /\ works[c].fds[z] = fd /\ manager[fd] = [client |-> c, zone |-> z]
      BY <2>6, FdsOfOwned
    <3>2. [client |-> c, zone |-> z].client \in cs
      OBVIOUS
    <3>3. o.client \notin cs => manager[fd] # o
      BY <3>1, <3>2
    <3> QED
      BY <2>2, <2>3, <2>4, <2>5, <2>6, <3>3
  <2>7. CASE fd \notin FdsOf(cs)
    <3>1. o.client \in cs => manager[fd] # o
      <4> SUFFICES ASSUME o.client \in cs, manager[fd] = o PROVE FALSE
        OBVIOUS
      <4>1. o.client \in cs \cap Open
        BY <2>1, <2>2 DEF Open
      <4>2. fd \in InUse(works[o.client].fds)
        BY <2>1, <2>2, LoopAssumption DEF InUse
      <4> QED
        BY <2>7, <4>1, <4>2 DEF FdsOf
    <3> QED
      BY <2>2, <2>3, <2>4, <2>7, <3>1
  <2> QED
    BY <2>6, <2>7
<1>4. ASSUME NEW fd \in Fds
      PROVE  fd \in sockets' <=> manager'[fd] # NoOwner
  BY DEF Close, ManagerExact
<1>5. watched' \subseteq sockets'
  BY DEF Close, ManagerExact
<1> QED
  BY <1>2, <1>3, <1>4, <1>5 DEF ManagerExact

(* So does making a transaction: its descriptors were not in use, and each *)
(* belongs to one zone.                                                    *)
LEMMA FindOrMakeExact ==
  ASSUME TypeOK, ManagerExact, NEW c \in Clients, NEW f, FindOrMake(c, f),
         works' \in [Clients -> Works \cup {NoWork}],
         works'[c] # NoWork, works'[c].fds = f,
         \A d \in Clients \ {c} : works'[d] = works[d]
  PROVE  ManagerExact' /\ manager' \in [Fds -> Owners \cup {NoOwner}]
         /\ sockets' \subseteq Fds /\ watched' \subseteq Fds
<1> DEFINE made == IF works[c] # NoWork THEN {} ELSE InUse(f)
<1>1. /\ f \in SocketsFor(c)
      /\ sockets' = sockets \cup made
      /\ watched' = watched \cup made
      /\ manager' = [fd \in Fds |->
                       IF fd \in made
                       THEN [client |-> c, zone |-> CHOOSE z \in Zones : f[z] = fd]
                       ELSE manager[fd]]
  BY DEF FindOrMake
<1>2. ASSUME NEW fd \in made
      PROVE  /\ works[c] = NoWork /\ fd \in Fds \ sockets /\ fd # NoFd
             /\ \E z \in Zones : f[z] = fd
             /\ \A y, z \in Zones : f[y] = fd /\ f[z] = fd => y = z
  <2>1. works[c] = NoWork /\ fd \in InUse(f)
    OBVIOUS
  <2>2. /\ f \in [Zones -> (Fds \ sockets) \cup {NoFd}]
        /\ \A y, z \in Zones : f[y] = f[z] /\ f[y] # NoFd => y = z
    BY <1>1, <2>1 DEF SocketsFor
  <2> QED
    BY <2>1, <2>2 DEF InUse
<1> HIDE DEF made
<1>3. ASSUME NEW fd \in made
      PROVE  (CHOOSE z \in Zones : f[z] = fd) \in Zones
             /\ f[CHOOSE z \in Zones : f[z] = fd] = fd
  BY <1>2
<1>4. manager' \in [Fds -> Owners \cup {NoOwner}]
  BY <1>1, <1>3 DEF Owners, TypeOK
<1>5. sockets' \subseteq Fds /\ watched' \subseteq Fds
  BY <1>1, <1>2 DEF TypeOK
<1>6. ASSUME NEW fd \in Fds, NEW o \in Owners
      PROVE  manager'[fd] = o <=> works'[o.client] # NoWork /\ works'[o.client].fds[o.zone] = fd
  <2>1. o.client \in Clients /\ o.zone \in Zones /\ o = [client |-> o.client, zone |-> o.zone]
    BY DEF Owners
  <2>2. manager[fd] = o <=> works[o.client] # NoWork /\ works[o.client].fds[o.zone] = fd
    BY DEF ManagerExact
  <2>3. CASE fd \in made
    <3> DEFINE zone == CHOOSE z \in Zones : f[z] = fd
    <3>1. zone \in Zones /\ f[zone] = fd
      BY <1>3, <2>3
    <3> HIDE DEF zone
    <3>2. manager'[fd] = [client |-> c, zone |-> zone]
      BY <1>1, <2>3 DEF zone
    <3>3. manager[fd] # o
      <4>1. fd \notin sockets
        BY <1>2, <2>3
      <4>2. manager[fd] = NoOwner
        BY <4>1 DEF ManagerExact
      <4> QED
        BY <4>2, LoopAssumption
    <3>4. CASE o.client = c
      <4>1. f[o.zone] = fd <=> o.zone = zone
        BY <1>2, <2>1, <2>3, <3>1
      <4> QED
        BY <2>1, <3>2, <3>4, <4>1
    <3>5. CASE o.client # c
      <4>1. works'[o.client] = works[o.client]
        BY <2>1, <3>5
      <4> QED
        BY <2>1, <2>2, <3>2, <3>3, <3>5, <4>1
    <3> QED
      BY <3>4, <3>5
  <2>4. CASE fd \notin made
    <3>1. manager'[fd] = manager[fd]
      BY <1>1, <2>4
    <3>2. CASE o.client # c
      <4>1. works'[o.client] = works[o.client]
        BY <2>1, <3>2
      <4> QED
        BY <2>2, <3>1, <4>1
    <3>3. CASE o.client = c /\ works[c] # NoWork
      <4>1. f = works[c].fds
        BY <1>1, <3>3 DEF SocketsFor
      <4> QED
        BY <2>2, <3>1, <3>3, <4>1
    <3>4. CASE o.client = c /\ works[c] = NoWork
      <4>1. f[o.zone] # fd
        BY <2>1, <2>4, <3>4, LoopAssumption DEF made, InUse
      <4> QED
        BY <2>2, <3>1, <3>4, <4>1
    <3> QED
      BY <3>2, <3>3, <3>4
  <2> QED
    BY <2>3, <2>4
<1>7. ASSUME NEW fd \in Fds
      PROVE  fd \in sockets' <=> manager'[fd] # NoOwner
  <2>1. CASE fd \in made
    <3>1. manager'[fd] \in Owners
      BY <1>1, <1>3, <2>1 DEF Owners
    <3> QED
      BY <1>1, <2>1, <3>1, LoopAssumption
  <2>2. CASE fd \notin made
    BY <1>1, <2>2 DEF ManagerExact
  <2> QED
    BY <2>1, <2>2
<1>8. watched' \subseteq sockets'
  BY <1>1 DEF ManagerExact
<1> QED
  BY <1>4, <1>5, <1>6, <1>7, <1>8 DEF ManagerExact
-------------------------------------------------------------------------------
(* One lemma per action that moves transactions or events                  *)

LEMMA TickIInv ==
  ASSUME IInv, Tick
  PROVE  IInv'
<1>1. /\ works' = [c \in Clients |->
                     IF c \in Open THEN [works[c] EXCEPT !.age = @ + 1] ELSE NoWork]
      /\ waited < Interval /\ waited' = waited + 1 /\ sinceClean' = sinceClean + 1
      /\ UNCHANGED <<pc, manager, sockets, watched, idle, batch, reads, closed>>
      /\ pc = "poll"
  BY DEF Tick
<1>2. TypeOK
  BY DEF IInv
<1>3. ASSUME NEW c \in Clients
      PROVE  /\ works'[c] \in Works \cup {NoWork}
             /\ c \in Open => /\ works'[c].fds = works[c].fds
                              /\ works'[c].pending = works[c].pending
                              /\ works'[c].asked = works[c].asked
             /\ c \notin Open => works'[c] = NoWork
  BY <1>1, <1>2 DEF TypeOK, Works, Open
<1>4. ASSUME NEW c \in Open
      PROVE  works'[c] # NoWork
  <2>1. works'[c] = [works[c] EXCEPT !.age = @ + 1]
    BY <1>1 DEF Open
  <2>2. works[c] \in Works
    BY <1>2 DEF TypeOK, Open
  <2>3. works'[c] \in Works
    BY <2>1, <2>2 DEF Works
  <2> QED
    BY <2>3, LoopAssumption
<1>5. waited' \in 0 .. Interval /\ sinceClean' \in Nat
  BY <1>1, <1>2, LoopAssumption, SMT DEF TypeOK
<1>6. TypeOK'
  BY <1>1, <1>2, <1>3, <1>5 DEF TypeOK
<1>7. ASSUME NEW o \in Owners
      PROVE  /\ works'[o.client] # NoWork <=> works[o.client] # NoWork
             /\ works[o.client] # NoWork => works'[o.client].fds = works[o.client].fds
  BY <1>3, <1>4 DEF Owners, Open
<1>8. ManagerExact'
  BY <1>1, <1>7 DEF IInv, ManagerExact
<1>9. BatchOpen'
  BY <1>1 DEF BatchOpen
<1>10. AnsweredAreMarked'
  BY <1>1, <1>3 DEF IInv, AnsweredAreMarked, Open
<1> QED
  BY <1>6, <1>8, <1>9, <1>10 DEF IInv

LEMMA PollIInv ==
  ASSUME IInv, NEW ready, NEW hung, NEW listen \in SUBSET {ListenFd},
         NEW exit \in SUBSET {ExitFd}, Poll(ready, hung, listen, exit)
  PROVE  IInv'
<1>1. /\ pc = "poll" /\ pc' = "serve"
      /\ ready \cup hung \subseteq watched
      /\ batch' = [fd : ready \cup listen \cup exit, kind : {"in"}] \cup [fd : hung, kind : {"hup"}]
      /\ reads' = 0 /\ waited' = 0 /\ closed' = {}
      /\ UNCHANGED <<works, manager, sockets, watched, idle, sinceClean>>
  BY DEF Poll
<1>2. TypeOK /\ watched \subseteq sockets
  BY DEF IInv, ManagerExact
<1>3. batch' \subseteq Events
  BY <1>1, <1>2 DEF TypeOK, Events
<1>4. 0 \in 0 .. Interval /\ 0 \in 0 .. ReadPerEvent
  BY LoopAssumption, SMT
<1>5. TypeOK'
  BY <1>1, <1>2, <1>3, <1>4 DEF TypeOK, Places
<1>6. ManagerExact'
  BY <1>1 DEF IInv, ManagerExact
<1>7. BatchOpen'
  BY <1>1, <1>2, LoopAssumption DEF BatchOpen
<1>8. AnsweredAreMarked'
  BY <1>1 DEF IInv, AnsweredAreMarked, Open
<1> QED
  BY <1>5, <1>6, <1>7, <1>8 DEF IInv

LEMMA OnListenReadIInv ==
  ASSUME IInv, NEW c \in Clients, NEW new \in SUBSET IDs, NEW f, OnListenRead(c, new, f)
  PROVE  IInv'
<1> DEFINE queries == IF works[c] # NoWork THEN works[c].pending ELSE {}
<1> DEFINE before == works[c] # NoWork /\ works[c].asked
<1> DEFINE made == [fds |-> f, pending |-> queries \cup new, age |-> 0,
                    asked |-> before \/ new # {}]
<1>1. /\ pc = "serve"
      /\ reads < ReadPerEvent /\ reads' = reads + 1
      /\ FindOrMake(c, f)
      /\ works' = [works EXCEPT ![c] = made]
      /\ UNCHANGED <<pc, idle, batch, sinceClean, waited, closed>>
  BY DEF OnListenRead
<1>2. TypeOK /\ ManagerExact
  BY DEF IInv
<1>3. f \in [Zones -> Fds \cup {NoFd}]
  <2>1. CASE works[c] # NoWork
    BY <1>1, <1>2, <2>1 DEF FindOrMake, SocketsFor, TypeOK, Works
  <2>2. CASE works[c] = NoWork
    BY <1>1, <2>2 DEF FindOrMake, SocketsFor
  <2> QED
    BY <2>1, <2>2
<1>4. queries \subseteq IDs /\ before \in BOOLEAN
  BY <1>2 DEF TypeOK, Works
<1>5. before => works[c] # NoWork /\ works[c].asked /\ queries = works[c].pending
  OBVIOUS
<1> HIDE DEF queries, before
<1>6. (before \/ new # {}) \in BOOLEAN
  OBVIOUS
<1>7. made \in Works
  BY <1>3, <1>4, <1>6 DEF Works
<1>8. made.fds = f /\ made.pending = queries \cup new /\ made.asked = (before \/ new # {})
  OBVIOUS
<1> HIDE DEF made
<1>9. /\ works' \in [Clients -> Works \cup {NoWork}]
      /\ works'[c] = made
      /\ \A d \in Clients \ {c} : works'[d] = works[d]
  BY <1>1, <1>2, <1>7 DEF TypeOK
<1>10. works'[c] # NoWork
  BY <1>7, <1>9, LoopAssumption
<1>11. /\ ManagerExact' /\ manager' \in [Fds -> Owners \cup {NoOwner}]
       /\ sockets' \subseteq Fds /\ watched' \subseteq Fds
  BY <1>1, <1>2, <1>8, <1>9, <1>10, FindOrMakeExact
<1>12. reads' \in 0 .. ReadPerEvent
  BY <1>1, <1>2, LoopAssumption, SMT DEF TypeOK
<1>13. TypeOK'
  BY <1>1, <1>2, <1>9, <1>11, <1>12 DEF TypeOK
<1>14. BatchOpen'
  <2>1. sockets \subseteq sockets'
    BY <1>1 DEF FindOrMake
  <2> QED
    BY <1>1, <2>1 DEF IInv, BatchOpen
<1>15. AnsweredAreMarked'
  <2> SUFFICES ASSUME NEW d \in Clients, works'[d] # NoWork,
                      works'[d].asked, works'[d].pending = {}
               PROVE  d \in idle
    BY <1>1 DEF AnsweredAreMarked, Open
  <2>1. CASE d = c
    <3>1. before /\ queries = {}
      BY <1>8, <1>9, <2>1
    <3>2. c \in Open /\ works[c].asked /\ works[c].pending = {}
      BY <1>5, <3>1 DEF Open
    <3> QED
      BY <2>1, <3>2 DEF IInv, AnsweredAreMarked
  <2>2. CASE d # c
    BY <1>9, <2>2 DEF IInv, AnsweredAreMarked, Open
  <2> QED
    BY <2>1, <2>2
<1> QED
  BY <1>11, <1>13, <1>14, <1>15 DEF IInv

LEMMA ReadIInv ==
  ASSUME IInv, NEW e, NEW finished, Read(e, finished)
  PROVE  IInv'
<1> DEFINE c == manager[e.fd].client
<1> DEFINE left == works[c].pending \ finished
<1>1. /\ pc = "serve" /\ e \in batch /\ e.fd \in Fds
      /\ batch' = batch \ {e}
      /\ works' = [works EXCEPT ![c].pending = left]
      /\ idle' = IF finished # {} /\ left = {} THEN idle \cup {c} ELSE idle
      /\ finished \subseteq works[c].pending
      /\ UNCHANGED <<pc, manager, sockets, watched, reads, sinceClean, waited, closed>>
  BY DEF Read
<1>2. TypeOK /\ ManagerExact /\ BatchOpen
  BY DEF IInv
<1>3. manager[e.fd] \in Owners
  <2>1. e.fd \in sockets
    BY <1>1, <1>2 DEF BatchOpen
  <2>2. manager[e.fd] # NoOwner
    BY <1>1, <1>2, <2>1 DEF ManagerExact
  <2> QED
    BY <1>1, <1>2, <2>2 DEF TypeOK
<1>4. c \in Clients /\ works[c] # NoWork
  BY <1>1, <1>2, <1>3 DEF ManagerExact, Owners
<1> HIDE DEF c
<1>5. works[c] \in Works /\ left \subseteq IDs
  BY <1>2, <1>4 DEF TypeOK, Works
<1>6. finished = {} => left = works[c].pending
  OBVIOUS
<1> HIDE DEF left
<1> DEFINE new == [works[c] EXCEPT !.pending = left]
<1>7. /\ new \in Works /\ new.pending = left
      /\ new.fds = works[c].fds /\ new.asked = works[c].asked
  BY <1>5 DEF Works
<1>8. works' = [works EXCEPT ![c] = new]
  BY <1>1
<1> HIDE DEF new
<1>9. /\ works'[c] = new
      /\ \A d \in Clients \ {c} : works'[d] = works[d]
      /\ works' \in [Clients -> Works \cup {NoWork}]
  BY <1>2, <1>4, <1>7, <1>8 DEF TypeOK
<1>10. new # NoWork
  BY <1>7, LoopAssumption
<1>11. TypeOK'
  BY <1>1, <1>2, <1>4, <1>9 DEF TypeOK
<1>12. ASSUME NEW o \in Owners
       PROVE  /\ works'[o.client] # NoWork <=> works[o.client] # NoWork
              /\ works'[o.client].fds = works[o.client].fds
  <2>1. o.client \in Clients
    BY DEF Owners
  <2> QED
    BY <1>4, <1>7, <1>9, <1>10, <2>1
<1>13. ManagerExact'
  BY <1>1, <1>2, <1>12 DEF ManagerExact
<1>14. BatchOpen'
  BY <1>1, <1>2 DEF BatchOpen
<1>15. AnsweredAreMarked'
  <2> SUFFICES ASSUME NEW d \in Clients, works'[d] # NoWork,
                      works'[d].asked, works'[d].pending = {}
               PROVE  d \in idle'
    BY <1>1 DEF AnsweredAreMarked, Open
  <2>1. CASE d = c /\ finished = {}
    <3>1. c \in Open /\ works[c].asked /\ works[c].pending = {}
      BY <1>4, <1>6, <1>7, <1>9, <2>1 DEF Open
    <3> QED
      BY <1>1, <2>1, <3>1 DEF IInv, AnsweredAreMarked
  <2>2. CASE d = c /\ finished # {}
    BY <1>1, <1>7, <1>9, <2>2
  <2>3. CASE d # c
    <3>1. d \in Open /\ works'[d] = works[d]
      BY <1>9, <2>3 DEF Open
    <3> QED
      BY <1>1, <3>1 DEF IInv, AnsweredAreMarked
  <2> QED
    BY <2>1, <2>2, <2>3
<1> QED
  BY <1>11, <1>13, <1>14, <1>15 DEF IInv
LEMMA DisconnectIInv ==
  ASSUME IInv, NEW e, Disconnect(e)
  PROVE  IInv'
<1>1. /\ pc = "serve"
      /\ batch' = batch \ {e} /\ watched' = watched \ {e.fd}
      /\ UNCHANGED <<pc, works, manager, sockets, idle, reads, sinceClean, waited, closed>>
  BY DEF Disconnect
<1>2. TypeOK'
  BY <1>1 DEF IInv, TypeOK
<1>3. ManagerExact'
  BY <1>1 DEF IInv, ManagerExact
<1>4. BatchOpen'
  BY <1>1 DEF IInv, BatchOpen
<1>5. AnsweredAreMarked'
  BY <1>1 DEF IInv, AnsweredAreMarked, Open
<1> QED
  BY <1>2, <1>3, <1>4, <1>5 DEF IInv

LEMMA CloseIdleIInv ==
  ASSUME IInv, CloseIdle
  PROVE  IInv'
<1> DEFINE cs == {c \in idle \cap Open : works[c].pending = {}}
<1>1. /\ pc = "closeIdle" /\ pc' = "clearTimeout" /\ Close(cs) /\ idle' = {}
      /\ UNCHANGED <<batch, reads, sinceClean, waited>>
  BY DEF CloseIdle
<1>2. TypeOK /\ ManagerExact
  BY DEF IInv
<1>3. /\ ManagerExact' /\ works' \in [Clients -> Works \cup {NoWork}]
      /\ manager' \in [Fds -> Owners \cup {NoOwner}]
      /\ sockets' \subseteq Fds /\ watched' \subseteq Fds /\ closed' \subseteq Fds
  BY <1>1, <1>2, CloseExact
<1>4. TypeOK'
  BY <1>1, <1>2, <1>3 DEF TypeOK, Places
<1>5. AnsweredAreMarked'
  <2> SUFFICES ASSUME NEW c \in Clients, works'[c] # NoWork,
                      works'[c].asked, works'[c].pending = {}
               PROVE  FALSE
    BY DEF AnsweredAreMarked, Open
  <2>1. c \notin cs /\ works'[c] = works[c]
    BY <1>1 DEF Close
  <2>2. c \in Open /\ c \in idle
    BY <2>1 DEF Open, IInv, AnsweredAreMarked
  <2> QED
    BY <2>1, <2>2
<1>6. BatchOpen'
  BY <1>1 DEF BatchOpen
<1> QED
  BY <1>3, <1>4, <1>5, <1>6 DEF IInv

LEMMA ClearTimeoutIInv ==
  ASSUME IInv, ClearTimeout
  PROVE  IInv'
<1> DEFINE cs == {c \in Open : works[c].age > TimeOut}
<1>1. /\ pc = "clearTimeout" /\ pc' = "poll"
      /\ \/ Close(cs) /\ sinceClean' = 0
         \/ UNCHANGED <<works, manager, sockets, watched, closed, sinceClean>>
      /\ UNCHANGED <<idle, batch, reads, waited>>
  BY DEF ClearTimeout
<1> HIDE DEF cs
<1>2. TypeOK /\ ManagerExact
  BY DEF IInv
<1>3. CASE Close(cs) /\ sinceClean' = 0
  <2>1. /\ ManagerExact' /\ works' \in [Clients -> Works \cup {NoWork}]
        /\ manager' \in [Fds -> Owners \cup {NoOwner}]
        /\ sockets' \subseteq Fds /\ watched' \subseteq Fds /\ closed' \subseteq Fds
    BY <1>2, <1>3, CloseExact
  <2>2. TypeOK'
    BY <1>1, <1>2, <1>3, <2>1 DEF TypeOK, Places
  <2>3. \A c \in Open' : c \in Open /\ works'[c] = works[c]
    BY <1>3 DEF Close, Open
  <2>4. AnsweredAreMarked'
    BY <1>1, <2>3 DEF IInv, AnsweredAreMarked
  <2>5. BatchOpen'
    BY <1>1 DEF BatchOpen
  <2> QED
    BY <2>1, <2>2, <2>4, <2>5 DEF IInv
<1>4. CASE UNCHANGED <<works, manager, sockets, watched, closed, sinceClean>>
  <2>1. TypeOK'
    BY <1>1, <1>2, <1>4 DEF TypeOK, Places
  <2>2. ManagerExact'
    BY <1>2, <1>4 DEF ManagerExact
  <2>3. AnsweredAreMarked'
    BY <1>1, <1>4 DEF IInv, AnsweredAreMarked, Open
  <2>4. BatchOpen'
    BY <1>1 DEF BatchOpen
  <2> QED
    BY <2>1, <2>2, <2>3, <2>4 DEF IInv
<1> QED
  BY <1>1, <1>3, <1>4

LEMMA ExitIInv ==
  ASSUME IInv, Exit
  PROVE  IInv' /\ Open' = {}
<1>1. pc' = "done" /\ Close(Clients) /\ UNCHANGED <<idle, batch, reads, sinceClean, waited>>
  BY DEF Exit
<1>2. TypeOK /\ ManagerExact
  BY DEF IInv
<1>3. /\ ManagerExact' /\ works' \in [Clients -> Works \cup {NoWork}]
      /\ manager' \in [Fds -> Owners \cup {NoOwner}]
      /\ sockets' \subseteq Fds /\ watched' \subseteq Fds /\ closed' \subseteq Fds
  BY <1>1, <1>2, CloseExact
<1>4. TypeOK'
  BY <1>1, <1>2, <1>3 DEF TypeOK, Places
<1>5. Open' = {}
  BY <1>1 DEF Close, Open
<1>6. BatchOpen' /\ AnsweredAreMarked'
  BY <1>1, <1>5 DEF BatchOpen, AnsweredAreMarked
<1> QED
  BY <1>3, <1>4, <1>5, <1>6 DEF IInv

LEMMA InitIInv == Init => IInv
<1> SUFFICES ASSUME Init PROVE IInv
  OBVIOUS
<1>1. Open = {}
  BY DEF Init, Open
<1>2. Interval \in Nat /\ 0 \in 0 .. Interval /\ 0 \in 0 .. ReadPerEvent
  BY LoopAssumption, SMT
<1>3. TypeOK
  BY <1>2 DEF Init, TypeOK, Places
<1>4. ManagerExact
  BY LoopAssumption DEF Init, ManagerExact, Owners
<1>5. BatchOpen /\ AnsweredAreMarked
  BY <1>1 DEF Init, BatchOpen, AnsweredAreMarked
<1> QED
  BY <1>3, <1>4, <1>5 DEF IInv

(* Steps that neither open nor close nor answer anything.                  *)
LEMMA QuietIInv ==
  ASSUME IInv, UNCHANGED <<works, manager, sockets, watched, idle, reads, sinceClean, waited, closed>>,
         \/ pc = "serve" /\ pc' \in {"serve", "closeIdle"} /\ batch' \subseteq batch
         \/ pc' = pc /\ batch' = batch
  PROVE  IInv'
<1>1. TypeOK'
  BY DEF IInv, TypeOK, Places
<1>2. ManagerExact'
  BY DEF IInv, ManagerExact
<1>3. BatchOpen'
  BY DEF IInv, BatchOpen
<1>4. AnsweredAreMarked'
  BY DEF IInv, AnsweredAreMarked, Open
<1> QED
  BY <1>1, <1>2, <1>3, <1>4 DEF IInv

-------------------------------------------------------------------------------
(* The theorems                                                            *)

(* IInv is an invariant of the loop.                                       *)
THEOREM Invariance == Spec => []IInv
<1>1. Init => IInv
  BY InitIInv
<1>2. IInv /\ [Next]_vars => IInv'
  <2> SUFFICES ASSUME IInv, [Next]_vars PROVE IInv'
    OBVIOUS
  <2>1. CASE Tick
    BY <2>1, TickIInv
  <2>2. CASE Wait
    BY <2>2, PollIInv DEF Wait
  <2>3. CASE Listen
    <3>1. PICK c \in Clients, new \in {{}} \cup {{id} : id \in IDs} :
            \E f \in SocketsFor(c) : OnListenRead(c, new, f)
      BY <2>3 DEF Listen
    <3>2. new \in SUBSET IDs
      OBVIOUS
    <3> QED
      BY <3>1, <3>2, OnListenReadIInv
  <2>4. CASE ListenReadEnds
    BY <2>4, QuietIInv DEF ListenReadEnds
  <2>5. CASE Upstream
    BY <2>5, DisconnectIInv, ReadIInv DEF Upstream
  <2>6. CASE ServeEnds
    BY <2>6, QuietIInv DEF ServeEnds
  <2>7. CASE CloseIdle
    BY <2>7, CloseIdleIInv
  <2>8. CASE ClearTimeout
    BY <2>8, ClearTimeoutIInv
  <2>9. CASE Exit
    BY <2>9, ExitIInv
  <2>10. CASE UNCHANGED vars
    BY <2>10, QuietIInv DEF vars
  <2> QED
    BY <2>1, <2>2, <2>3, <2>4, <2>5, <2>6, <2>7, <2>8, <2>9, <2>10 DEF Next, Run
<1> QED
  BY <1>1, <1>2, PTL DEF Spec

(* Every open socket belongs to exactly one zone of one transaction, and   *)
(* the ConnectionManager knows it under its descriptor.                    *)
THEOREM ManagerIsExact == Spec => []ManagerExact
<1>1. IInv => ManagerExact
  BY DEF IInv
<1> QED
  BY <1>1, Invariance, PTL

(* No event of a batch outlives the socket it is about.                    *)
THEOREM EventsStayValid == Spec => []BatchEventsValid
<1>1. IInv => BatchEventsValid
  BY DEF IInv, BatchOpen, BatchEventsValid, ManagerExact
<1> QED
  BY <1>1, Invariance, PTL

(* A transaction whose queries have all been answered is gone before the   *)
(* thread sleeps again.                                                    *)
THEOREM AnsweredTransactionsClose == Spec => []AnsweredAreClosed
<1>1. IInv => AnsweredAreClosed
  BY DEF IInv, AnsweredAreMarked, AnsweredAreClosed
<1> QED
  BY <1>1, Invariance, PTL
(* Once the exit event has been handled no transaction is left.            *)
DoneIsEmpty == pc = "done" => Open = {}

(* After ExitAndClear the ConnectionManager is empty and no upstream       *)
(* socket is open, whatever batch the exit event has interrupted.          *)
THEOREM ExitIsClean == Spec => []ExitLeavesNothing
<1>1. Init => DoneIsEmpty
  BY DEF Init, DoneIsEmpty
<1>2. IInv /\ DoneIsEmpty /\ [Next]_vars => DoneIsEmpty'
  <2> SUFFICES ASSUME IInv, DoneIsEmpty, [Next]_vars PROVE DoneIsEmpty'
    OBVIOUS
  <2>1. CASE Exit
    BY <2>1, ExitIInv DEF DoneIsEmpty
  <2>2. CASE Tick \/ Wait \/ Listen \/ ListenReadEnds \/ Upstream \/ ServeEnds \/ CloseIdle \/ ClearTimeout
    <3>1. pc' # "done"
      BY <2>2 DEF Tick, Wait, Poll, Listen, OnListenRead, ListenReadEnds, Upstream, Disconnect,
                  Read, ServeEnds, CloseIdle, ClearTimeout
    <3> QED
      BY <3>1 DEF DoneIsEmpty
  <2>3. CASE UNCHANGED vars
    BY <2>3 DEF vars, DoneIsEmpty, Open
  <2> QED
    BY <2>1, <2>2, <2>3 DEF Next, Run
<1>3. IInv /\ DoneIsEmpty => ExitLeavesNothing
  <2> SUFFICES ASSUME IInv, Open = {} PROVE sockets = {} /\ \A fd \in Fds : manager[fd] = NoOwner
    BY DEF DoneIsEmpty, ExitLeavesNothing
  <2>1. ASSUME NEW fd \in Fds, manager[fd] # NoOwner
        PROVE  FALSE
    <3>1. manager[fd] \in Owners
      BY <2>1 DEF IInv, TypeOK
    <3>2. works[manager[fd].client] # NoWork /\ manager[fd].client \in Clients
      BY <3>1 DEF IInv, ManagerExact, Owners
    <3> QED
      BY <3>2 DEF Open
  <2>2. \A fd \in Fds : fd \notin sockets
    BY <2>1 DEF IInv, ManagerExact
  <2> QED
    BY <2>1, <2>2 DEF IInv, TypeOK
<1> QED
  BY <1>1, <1>2, <1>3, Invariance, PTL DEF Spec

(* No transaction outlives its last packet by more than the timeout and    *)
(* two cleaning intervals.                                                 *)
THEOREM TransactionsTimeOut == Spec => []TimeoutBound
<1>1. Init => CleaningIsRecent
  <2> SUFFICES ASSUME Init PROVE CleaningIsRecent
    OBVIOUS
  <2>1. Open = {}
    BY DEF Init, Open
  <2> QED
    BY <2>1 DEF CleaningIsRecent
<1>2. IInv /\ CleaningIsRecent /\ [Next]_vars => CleaningIsRecent'
  <2> SUFFICES ASSUME IInv, CleaningIsRecent, [Next]_vars PROVE CleaningIsRecent'
    OBVIOUS
  <2> USE LoopAssumption
  <2>0. /\ sinceClean \in Nat /\ waited \in 0 .. Interval
        /\ \A c \in Open : works[c] \in Works /\ works[c].age \in Nat
    BY DEF IInv, TypeOK, Open, Works
  <2>1. CASE Tick
    <3>1. /\ pc = "poll" /\ waited < Interval /\ waited' = waited + 1
          /\ sinceClean' = sinceClean + 1 /\ pc' = pc
          /\ \A c \in Clients : works'[c] = IF c \in Open THEN [works[c] EXCEPT !.age = @ + 1] ELSE NoWork
      BY <2>1 DEF Tick
    <3>2. \A c \in Open' : c \in Open /\ works'[c].age = works[c].age + 1
      BY <2>0, <3>1 DEF Open, Works
    <3>3. \A c \in Open' : works'[c].age <= TimeOut + sinceClean'
      BY <2>0, <3>1, <3>2 DEF CleaningIsRecent
    <3>4. CASE Open = {}
      <4>1. Open' = {}
        BY <3>2, <3>4
      <4> QED
        BY <4>1 DEF CleaningIsRecent
    <3>5. CASE sinceClean <= Interval - 1 + waited
      <4>1. sinceClean' <= Interval - 1 + waited' /\ sinceClean' <= 2 * Interval - 1
        BY <2>0, <3>1, <3>5
      <4> QED
        BY <3>3, <4>1 DEF CleaningIsRecent
    <3> QED
      BY <3>1, <3>4, <3>5 DEF CleaningIsRecent
  <2>2. CASE Listen
    <3>1. PICK c \in Clients, new \in {{}} \cup {{id} : id \in IDs} :
            \E f \in SocketsFor(c) : OnListenRead(c, new, f)
      BY <2>2 DEF Listen
    <3>2. /\ pc = "serve" /\ pc' = pc /\ sinceClean' = sinceClean
          /\ \A d \in Clients \ {c} : works'[d] = works[d]
          /\ works'[c].age = 0
      BY <3>1 DEF OnListenRead, IInv, TypeOK
    <3>3. \A d \in Open' : \/ works'[d].age = 0
                           \/ d \in Open /\ works'[d].age = works[d].age
      BY <3>2 DEF Open
    <3> QED
      BY <2>0, <3>2, <3>3 DEF CleaningIsRecent
  <2>3. CASE \E e \in batch, finished \in SUBSET IDs : Read(e, finished)
    <3>1. PICK e \in batch, finished \in SUBSET IDs : Read(e, finished)
      BY <2>3
    <3> DEFINE c == manager[e.fd].client
    <3>2. /\ pc = "serve" /\ pc' = pc /\ sinceClean' = sinceClean
          /\ works' = [works EXCEPT ![c].pending = @ \ finished]
      BY <3>1 DEF Read
    <3>3. manager[e.fd] \in Owners
      <4>1. e.fd \in Fds /\ e.fd \in sockets
        BY <3>1 DEF Read, IInv, BatchOpen
      <4> QED
        BY <4>1 DEF IInv, TypeOK, ManagerExact
    <3>4. c \in Open
      BY <3>1, <3>3 DEF Read, IInv, ManagerExact, Owners, Open
    <3> HIDE DEF c
    <3>5. \A d \in Open' : d \in Open /\ works'[d].age = works[d].age
      BY <2>0, <3>2, <3>4 DEF IInv, TypeOK, Open, Works
    <3> QED
      BY <3>2, <3>5 DEF CleaningIsRecent
  <2>4. ASSUME NEW cs, Close(cs), sinceClean' = sinceClean, pc' # "poll"
        PROVE  CleaningIsRecent'
    <3>1. \A c \in Open' : c \in Open /\ works'[c] = works[c]
      BY <2>4 DEF Close, Open
    <3> QED
      BY <2>4, <3>1 DEF CleaningIsRecent
  <2>5. CASE CloseIdle
    BY <2>4, <2>5 DEF CloseIdle
  <2>6. CASE Exit
    BY <2>4, <2>6 DEF Exit
  <2>7. CASE ClearTimeout
    <3>1. waited = 0 => Interval - 1 + waited = Interval - 1
      BY <2>0
    <3>2. pc' = "poll" /\ waited' = waited
      BY <2>7 DEF ClearTimeout
    <3>3. CASE sinceClean >= Interval
      <4>1. /\ Close({c \in Open : works[c].age > TimeOut}) /\ sinceClean' = 0
        BY <2>7, <3>3 DEF ClearTimeout
      <4>2. \A c \in Open' : c \in Open /\ works'[c] = works[c] /\ ~(works[c].age > TimeOut)
        BY <4>1 DEF Close, Open
      <4>3. \A c \in Open' : works'[c].age <= TimeOut + sinceClean'
        BY <2>0, <4>1, <4>2
      <4>4. sinceClean' <= Interval - 1 + waited' /\ sinceClean' <= 2 * Interval - 1
        BY <2>0, <3>2, <4>1
      <4> QED
        BY <4>3, <4>4 DEF CleaningIsRecent
    <3>4. CASE ~(sinceClean >= Interval)
      <4>1. UNCHANGED <<works, sinceClean>>
        BY <2>7, <3>4 DEF ClearTimeout
      <4>2. sinceClean' <= Interval - 1 + waited'
        BY <2>0, <3>2, <3>4, <4>1
      <4> QED
        BY <4>1, <4>2 DEF CleaningIsRecent, Open
    <3> QED
      BY <3>3, <3>4
  <2>8. ASSUME UNCHANGED <<works, sinceClean>>, pc' # "poll"
        PROVE  CleaningIsRecent'
    BY <2>8 DEF CleaningIsRecent, Open
  <2>9. CASE Wait
    BY <2>8, <2>9 DEF Wait, Poll
  <2>10. CASE ListenReadEnds \/ ServeEnds
    BY <2>8, <2>10 DEF ListenReadEnds, ServeEnds
  <2>11. CASE Upstream
    <3>1. PICK e \in batch : Disconnect(e) \/ \E finished \in {{}} \cup {{id} : id \in IDs} : Read(e, finished)
      BY <2>11 DEF Upstream
    <3>2. CASE Disconnect(e)
      BY <2>8, <3>2 DEF Disconnect
    <3>3. CASE \E finished \in {{}} \cup {{id} : id \in IDs} : Read(e, finished)
      <4>1. \A finished \in {{}} \cup {{id} : id \in IDs} : finished \in SUBSET IDs
        OBVIOUS
      <4> QED
        BY <2>3, <3>3, <4>1
    <3> QED
      BY <3>1, <3>2, <3>3
  <2>12. CASE UNCHANGED vars
    BY <2>12 DEF vars, CleaningIsRecent, Open
  <2> QED
    BY <2>1, <2>2, <2>5, <2>6, <2>7, <2>9, <2>10, <2>11, <2>12 DEF Next, Run
<1>3. IInv /\ CleaningIsRecent => TimeoutBound
  <2> SUFFICES ASSUME IInv, CleaningIsRecent, NEW c \in Open
               PROVE  works[c].age <= TimeOut + 2 * Interval - 1
    BY DEF TimeoutBound
  <2>1. sinceClean \in Nat /\ works[c].age \in Nat
    BY DEF IInv, TypeOK, Open, Works
  <2> QED
    BY <2>1, LoopAssumption, SMT DEF CleaningIsRecent
<1> QED
  BY <1>1, <1>2, <1>3, Invariance, PTL DEF Spec
===============================================================================
