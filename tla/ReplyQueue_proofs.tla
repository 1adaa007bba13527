--------------------------- MODULE ReplyQueue_proofs ---------------------------
(***************************************************************************)
(* What ReplyQueue guarantees for any number of answers, any size of the   *)
(* socket buffer and any answers the kernel refuses.                       *)
(***************************************************************************)
EXTENDS ReplyQueue, SequenceTheorems, TLAPS

Answers == 1 .. MaxReplies

(* What is on its way after h answers: those answers, in their order, but  *)
(* for some the kernel has refused.                                        *)
Delivers(way, h) ==
  /\ \A i, j \in 1 .. Len(way) : i < j => way[i] < way[j]
  /\ \A i \in 1 .. Len(way) : way[i] <= h
  /\ \A r \in (1 .. h) \ Unsendable : \E i \in 1 .. Len(way) : way[i] = r

(* The inductive invariant                                                 *)
QInv == TypeOK /\ Delivers(Way, handed) /\ ArmedWhileQueued

-------------------------------------------------------------------------------
(* Sequences                                                               *)

(* A new answer goes to the end ...                                        *)
LEMMA DeliversNext ==
  ASSUME NEW way \in Seq(Answers), NEW h \in 0 .. MaxReplies, h < MaxReplies, Delivers(way, h)
  PROVE  Delivers(Append(way, h + 1), h + 1)
<1> DEFINE new == Append(way, h + 1)
<1>1. MaxReplies \in Nat /\ h \in Nat /\ h + 1 \in Answers
  BY QueueAssumption, SMT DEF Answers
<1>2. /\ Len(way) \in Nat /\ Len(new) = Len(way) + 1 /\ new[Len(way) + 1] = h + 1
      /\ \A i \in 1 .. Len(way) : new[i] = way[i]
  BY <1>1, AppendProperties, LenProperties
<1>3. \A i \in 1 .. Len(way) : way[i] \in Int
  BY <1>1, ElementOfSeq, SMT DEF Answers
<1> HIDE DEF new
<1>4. \A i \in 1 .. Len(new) : i = Len(way) + 1 \/ i \in 1 .. Len(way)
  BY <1>2, SMT
<1>5. ASSUME NEW i \in 1 .. Len(new), NEW j \in 1 .. Len(new), i < j
      PROVE  new[i] < new[j]
  <2>1. i \in 1 .. Len(way)
    BY <1>2, <1>5, SMT
  <2>2. CASE j \in 1 .. Len(way)
    BY <1>2, <1>5, <2>1, <2>2 DEF Delivers
  <2>3. CASE j = Len(way) + 1
    <3>1. new[i] \in Int /\ new[i] <= h /\ new[j] = h + 1
      BY <1>2, <1>3, <2>1, <2>3 DEF Delivers
    <3> QED
      BY <1>1, <3>1, SMT
  <2> QED
    BY <1>4, <2>2, <2>3
<1>6. ASSUME NEW i \in 1 .. Len(new)
      PROVE  new[i] <= h + 1
  <2>1. CASE i \in 1 .. Len(way)
    <3>1. new[i] \in Int /\ new[i] <= h
      BY <1>2, <1>3, <2>1 DEF Delivers
    <3> QED
      BY <1>1, <3>1, SMT
  <2>2. CASE i = Len(way) + 1
    BY <1>1, <1>2, <2>2, SMT
  <2> QED
    BY <1>4, <2>1, <2>2
<1>7. ASSUME NEW r \in (1 .. h + 1) \ Unsendable
      PROVE  \E i \in 1 .. Len(new) : new[i] = r
  <2>1. 1 .. Len(way) \subseteq 1 .. Len(new) /\ Len(way) + 1 \in 1 .. Len(new)
    BY <1>2, SMT
  <2>2. r \in 1 .. h \/ r = h + 1
    BY <1>1, SMT
  <2> QED
    BY <1>2, <2>1, <2>2 DEF Delivers
<1> QED
  BY <1>5, <1>6, <1>7 DEF Delivers, new

(* ... or is refused.                                                      *)
LEMMA DeliversRefused ==
  ASSUME NEW way \in Seq(Answers), NEW h \in 0 .. MaxReplies, Delivers(way, h), h + 1 \in Unsendable
  PROVE  Delivers(way, h + 1)
<1>1. h \in Nat
  BY QueueAssumption, SMT
<1>2. \A i \in 1 .. Len(way) : way[i] \in Int
  BY QueueAssumption, ElementOfSeq, SMT DEF Answers
<1>3. \A i \in 1 .. Len(way) : way[i] <= h + 1
  <2> SUFFICES ASSUME NEW i \in 1 .. Len(way) PROVE way[i] <= h + 1
    OBVIOUS
  <2>1. way[i] <= h /\ way[i] \in Int
    BY <1>2 DEF Delivers
  <2> QED
    BY <1>1, <2>1, SMT
<1>4. \A r \in (1 .. h + 1) \ Unsendable : r \in 1 .. h
  BY <1>1, SMT
<1> QED
  BY <1>3, <1>4 DEF Delivers

(* Taking the first of t to the end of s is no move in s \o t.             *)
LEMMA MoveFirst ==
  ASSUME NEW T, NEW s \in Seq(T), NEW t \in Seq(T), t # <<>>
  PROVE  Append(s, Head(t)) \o Tail(t) = s \o t
<1>1. Head(t) \in T /\ Tail(t) \in Seq(T) /\ <<Head(t)>> \in Seq(T) /\ t = <<Head(t)>> \o Tail(t)
  BY HeadTailProperties, SMT
<1>2. Append(s, Head(t)) = s \o <<Head(t)>>
  BY <1>1, AppendIsConcat
<1>3. (s \o <<Head(t)>>) \o Tail(t) = s \o (<<Head(t)>> \o Tail(t))
  BY <1>1, ConcatAssociative
<1> QED
  BY <1>1, <1>2, <1>3

(* An answer the kernel refuses leaves the queue behind what is sent.      *)
LEMMA DeliversDropped ==
  ASSUME NEW s \in Seq(Answers), NEW t \in Seq(Answers), t # <<>>, Head(t) \in Unsendable,
         NEW h, Delivers(s \o t, h)
  PROVE  Delivers(s \o Tail(t), h)
<1> DEFINE old == s \o t
<1> DEFINE new == s \o Tail(t)
<1> DEFINE Place(i) == IF i <= Len(s) THEN i ELSE i + 1
<1>1. /\ Tail(t) \in Seq(Answers) /\ Len(Tail(t)) = Len(t) - 1
      /\ \A i \in 1 .. Len(t) - 1 : Tail(t)[i] = t[i + 1]
      /\ Len(s) \in Nat /\ Len(t) \in Nat /\ Len(t) # 0 /\ Head(t) = t[1]
  BY HeadTailProperties, LenProperties, EmptySeq, SMT
<1>2. /\ Len(old) = Len(s) + Len(t)
      /\ \A i \in 1 .. Len(s) + Len(t) : old[i] = IF i <= Len(s) THEN s[i] ELSE t[i - Len(s)]
  BY ConcatProperties
<1>3. /\ Len(new) = Len(s) + (Len(t) - 1)
      /\ \A i \in 1 .. Len(s) + (Len(t) - 1) : new[i] = IF i <= Len(s) THEN s[i] ELSE Tail(t)[i - Len(s)]
  BY <1>1, ConcatProperties
<1> HIDE DEF old, new
<1>4. ASSUME NEW i \in 1 .. Len(new)
      PROVE  Place(i) \in 1 .. Len(old) /\ new[i] = old[Place(i)]
  <2>1. i \in Int /\ Place(i) \in 1 .. Len(s) + Len(t) /\ i \in 1 .. Len(s) + (Len(t) - 1)
    BY <1>1, <1>3, SMT
  <2>2. CASE i <= Len(s)
    BY <1>2, <1>3, <2>1, <2>2
  <2>3. CASE ~(i <= Len(s))
    <3>1. new[i] = Tail(t)[i - Len(s)] /\ i - Len(s) \in 1 .. Len(t) - 1
      BY <1>1, <1>3, <2>1, <2>3, SMT
    <3>2. ~(i + 1 <= Len(s)) /\ (i + 1) - Len(s) = (i - Len(s)) + 1
      BY <1>1, <2>1, <2>3, SMT
    <3>3. old[i + 1] = t[(i + 1) - Len(s)]
      BY <1>2, <2>1, <2>3, <3>2
    <3>4. new[i] = t[(i - Len(s)) + 1]
      BY <1>1, <3>1
    <3> QED
      BY <1>2, <2>1, <2>3, <3>2, <3>3, <3>4
  <2> QED
    BY <2>2, <2>3
<1>5. \A i, j \in 1 .. Len(new) : i < j => Place(i) < Place(j)
  BY <1>1, <1>3, SMT
<1>6. ASSUME NEW r \in (1 .. h) \ Unsendable
      PROVE  \E i \in 1 .. Len(new) : new[i] = r
  <2>1. PICK k \in 1 .. Len(old) : old[k] = r
    BY DEF Delivers, old
  <2>2. k # Len(s) + 1
    <3> SUFFICES ASSUME k = Len(s) + 1 PROVE FALSE
      OBVIOUS
    <3>1. k \in 1 .. Len(s) + Len(t) /\ ~(k <= Len(s)) /\ k - Len(s) = 1
      BY <1>1, <1>2, SMT
    <3>2. r = t[1]
      BY <1>2, <2>1, <3>1
    <3> QED
      BY <1>1, <3>2
  <2>3. CASE k <= Len(s)
    <3>1. k \in 1 .. Len(new) /\ Place(k) = k
      BY <1>1, <1>3, <2>3, SMT
    <3> QED
      BY <1>4, <2>1, <3>1
  <2>4. CASE ~(k <= Len(s))
    <3>1. k - 1 \in 1 .. Len(new) /\ Place(k - 1) = k
      BY <1>1, <1>2, <1>3, <2>2, <2>4, SMT
    <3> QED
      BY <1>4, <2>1, <3>1
  <2> QED
    BY <2>3, <2>4
<1> HIDE DEF Place
<1>7. /\ \A i, j \in 1 .. Len(new) : i < j => new[i] < new[j]
      /\ \A i \in 1 .. Len(new) : new[i] <= h
  BY <1>4, <1>5 DEF Delivers, old
<1> QED
  BY <1>6, <1>7 DEF Delivers, new
-------------------------------------------------------------------------------
(* One lemma per action: the action preserves QInv.                        *)

LEMMA WayType == TypeOK => /\ wire \o buffer \in Seq(Answers) /\ Way \in Seq(Answers)
                           /\ Way = (wire \o buffer) \o queue
                           /\ Way = wire \o (buffer \o queue)
<1> SUFFICES ASSUME TypeOK PROVE /\ wire \o buffer \in Seq(Answers) /\ Way \in Seq(Answers)
                                 /\ Way = (wire \o buffer) \o queue
                                 /\ Way = wire \o (buffer \o queue)
  OBVIOUS
<1>1. queue \in Seq(Answers) /\ buffer \in Seq(Answers) /\ wire \in Seq(Answers)
  BY DEF TypeOK, Answers
<1>2. wire \o buffer \in Seq(Answers)
  BY <1>1, ConcatProperties
<1>3. (wire \o buffer) \o queue \in Seq(Answers)
  BY <1>1, <1>2, ConcatProperties
<1>4. (wire \o buffer) \o queue = wire \o (buffer \o queue)
  BY <1>1, ConcatAssociative
<1> QED
  BY <1>2, <1>3, <1>4 DEF Way

LEMMA SendToQInv == QInv /\ SendTo => QInv'
<1> SUFFICES ASSUME QInv, SendTo PROVE QInv'
  OBVIOUS
<1> DEFINE r == handed + 1
<1> DEFINE k == Outcome(r, Len(buffer) = Room)
<1>1. /\ TypeOK /\ Delivers(Way, handed) /\ handed' = r /\ handed < MaxReplies
      /\ handed \in 0 .. MaxReplies
  BY DEF QInv, SendTo, TypeOK
<1>2. r \in Answers /\ r \in 0 .. MaxReplies
  BY <1>1, QueueAssumption, SMT DEF Answers
<1>3. queue \in Seq(Answers) /\ buffer \in Seq(Answers) /\ wire \in Seq(Answers)
  BY <1>1 DEF TypeOK, Answers
<1>4. wire' = wire /\ writing' = writing /\ writing = FALSE
  BY <1>1 DEF SendTo, TypeOK
<1>5. Way = (wire \o buffer) \o queue /\ Way \in Seq(Answers) /\ wire \o buffer \in Seq(Answers)
  BY <1>1, WayType
<1>6. Delivers(Append(Way, r), r)
  BY <1>1, <1>5, DeliversNext
<1> HIDE DEF r
<1>7. CASE queue # <<>> \/ k = "again"
  <2>1. queue' = Append(queue, r) /\ armed' = Interest(queue') /\ buffer' = buffer
    BY <1>7 DEF SendTo, r
  <2>2. queue' \in Seq(Answers) /\ queue' # <<>>
    BY <1>2, <1>3, <2>1, AppendProperties
  <2>3. (wire \o buffer) \o Append(queue, r) = Append((wire \o buffer) \o queue, r)
    <3>1. Append(queue, r) = queue \o <<r>> /\ <<r>> \in Seq(Answers)
      BY <1>2, <1>3, AppendIsConcat, SMT
    <3>2. Append((wire \o buffer) \o queue, r) = ((wire \o buffer) \o queue) \o <<r>>
      BY <1>2, <1>5, AppendIsConcat
    <3> QED
      BY <1>3, <1>5, <3>1, <3>2, ConcatAssociative
  <2>4. Way' = Append(Way, r)
    BY <1>4, <1>5, <2>1, <2>3 DEF Way
  <2>5. armed' = TRUE
    BY <2>1, <2>2 DEF Interest
  <2>6. TypeOK'
    BY <1>1, <1>2, <1>4, <2>1, <2>2, <2>5 DEF TypeOK, Answers
  <2> QED
    BY <1>1, <1>6, <2>2, <2>4, <2>5, <2>6 DEF QInv, ArmedWhileQueued
<1>8. CASE ~(queue # <<>> \/ k = "again")
  <2>1. queue' = queue /\ armed' = armed /\ buffer' = IF k = "sent" THEN Append(buffer, r) ELSE buffer
    BY <1>8 DEF SendTo, r
  <2>2. CASE k = "sent"
    <3>1. buffer' = Append(buffer, r) /\ Len(buffer) # Room
      BY <2>1, <2>2 DEF Outcome
    <3>2. buffer' \in Seq(Answers) /\ Len(buffer') = Len(buffer) + 1
      BY <1>2, <1>3, <3>1, AppendProperties
    <3>3. Len(buffer') <= Room
      BY <1>1, <1>3, <3>1, <3>2, QueueAssumption, LenProperties, SMT DEF TypeOK
    <3>4. wire \o Append(buffer, r) = Append(wire \o buffer, r)
      <4>1. Append(buffer, r) = buffer \o <<r>> /\ <<r>> \in Seq(Answers)
        BY <1>2, <1>3, AppendIsConcat, SMT
      <4>2. Append(wire \o buffer, r) = (wire \o buffer) \o <<r>>
        BY <1>2, <1>5, AppendIsConcat
      <4> QED
        BY <1>3, <4>1, <4>2, ConcatAssociative
    <3>5. Append(wire \o buffer, r) \in Seq(Answers)
      BY <1>2, <1>5, AppendProperties
    <3>6. Way' = Append(wire \o buffer, r) \o <<>> /\ Way = (wire \o buffer) \o <<>>
      BY <1>4, <1>8, <2>1, <3>1, <3>4 DEF Way
    <3>7. Way' = Append(Way, r)
      BY <1>5, <3>5, <3>6, ConcatEmptySeq
    <3>8. TypeOK'
      BY <1>1, <1>2, <1>4, <2>1, <3>2, <3>3 DEF TypeOK, Answers
    <3> QED
      BY <1>1, <1>4, <1>6, <2>1, <3>7, <3>8 DEF QInv, ArmedWhileQueued
  <2>3. CASE k # "sent"
    <3>1. r \in Unsendable
      BY <1>8, <2>3 DEF Outcome
    <3>2. Delivers(Way, r)
      BY <1>1, <1>5, <3>1, DeliversRefused DEF r
    <3>3. buffer' = buffer /\ Way' = Way
      BY <1>4, <2>1, <2>3 DEF Way
    <3>4. TypeOK'
      BY <1>1, <1>2, <1>4, <2>1, <3>3 DEF TypeOK
    <3> QED
      BY <1>1, <1>4, <2>1, <3>2, <3>3, <3>4 DEF QInv, ArmedWhileQueued
  <2> QED
    BY <2>2, <2>3
<1> QED
  BY <1>7, <1>8

LEMMA SendFrontQInv == QInv /\ SendFront => QInv'
<1> SUFFICES ASSUME QInv, SendFront PROVE QInv'
  OBVIOUS
<1> DEFINE k == Outcome(Head(queue), Len(buffer) = Room)
<1>1. TypeOK /\ Delivers(Way, handed) /\ queue # <<>> /\ UNCHANGED <<armed, writing, handed, wire>>
      /\ writing
  BY DEF QInv, SendFront
<1>2. queue \in Seq(Answers) /\ buffer \in Seq(Answers) /\ wire \in Seq(Answers)
  BY <1>1 DEF TypeOK, Answers
<1>3. Head(queue) \in Answers /\ queue' = Tail(queue) /\ queue' \in Seq(Answers)
  BY <1>1, <1>2, HeadTailProperties DEF SendFront
<1>4. Way = (wire \o buffer) \o queue /\ wire \o buffer \in Seq(Answers)
  BY <1>1, WayType
<1>5. k # "again" /\ buffer' = IF k = "sent" THEN Append(buffer, Head(queue)) ELSE buffer
  BY DEF SendFront
<1>6. CASE k = "sent"
  <2>1. buffer' = Append(buffer, Head(queue)) /\ Len(buffer) # Room
    BY <1>5, <1>6 DEF Outcome
  <2>2. buffer' \in Seq(Answers) /\ Len(buffer') = Len(buffer) + 1
    BY <1>2, <1>3, <2>1, AppendProperties
  <2>3. Len(buffer') <= Room
    BY <1>1, <1>2, <2>1, <2>2, QueueAssumption, LenProperties, SMT DEF TypeOK
  <2>4. buffer' \o queue' = buffer \o queue
    BY <1>1, <1>2, <1>3, <2>1, MoveFirst
  <2>5. TypeOK'
    BY <1>1, <1>3, <2>2, <2>3 DEF TypeOK, Answers
  <2>6. Way' = wire \o (buffer' \o queue') /\ Way = wire \o (buffer \o queue)
    <3> DEFINE b == buffer'
    <3> DEFINE q == queue'
    <3>1. (wire \o b) \o q = wire \o (b \o q)
      <4>1. b \in Seq(Answers) /\ q \in Seq(Answers)
        BY <1>3, <2>2
      <4> HIDE DEF b, q
      <4> QED
        BY <1>2, <4>1, ConcatAssociative
    <3>2. Way' = (wire \o buffer') \o queue'
      BY <1>1 DEF Way
    <3> QED
      BY <1>1, <3>1, <3>2, WayType
  <2> QED
    BY <1>1, <2>4, <2>5, <2>6 DEF QInv, ArmedWhileQueued
<1>7. CASE k # "sent"
  <2>1. Head(queue) \in Unsendable /\ buffer' = buffer
    BY <1>5, <1>7 DEF Outcome
  <2>2. Delivers((wire \o buffer) \o Tail(queue), handed)
    BY <1>1, <1>2, <1>4, <2>1, DeliversDropped
  <2>3. Way' = (wire \o buffer) \o Tail(queue)
    BY <1>1, <1>3, <2>1 DEF Way
  <2>4. TypeOK'
    BY <1>1, <1>3, <2>1 DEF TypeOK, Answers
  <2> QED
    BY <1>1, <2>2, <2>3, <2>4 DEF QInv, ArmedWhileQueued
<1> QED
  BY <1>6, <1>7

LEMMA DrainQInv == QInv /\ Drain => QInv'
<1> SUFFICES ASSUME QInv, Drain PROVE QInv'
  OBVIOUS
<1>1. /\ TypeOK /\ Delivers(Way, handed) /\ buffer # <<>> /\ UNCHANGED <<queue, armed, writing, handed>>
      /\ wire' = Append(wire, Head(buffer)) /\ buffer' = Tail(buffer)
  BY DEF QInv, Drain
<1>2. queue \in Seq(Answers) /\ buffer \in Seq(Answers) /\ wire \in Seq(Answers)
  BY <1>1 DEF TypeOK, Answers
<1>3. /\ Head(buffer) \in Answers /\ buffer' \in Seq(Answers) /\ Len(buffer') = Len(buffer) - 1
      /\ wire' \in Seq(Answers)
  BY <1>1, <1>2, HeadTailProperties, AppendProperties
<1>4. Len(buffer') <= Room
  BY <1>1, <1>2, <1>3, QueueAssumption, LenProperties, SMT DEF TypeOK
<1>5. wire' \o buffer' = wire \o buffer
  BY <1>1, <1>2, MoveFirst
<1>6. Way' = Way
  BY <1>1, <1>2, <1>5, WayType DEF Way
<1>7. TypeOK'
  BY <1>1, <1>3, <1>4 DEF TypeOK, Answers
<1> QED
  BY <1>1, <1>6, <1>7 DEF QInv, ArmedWhileQueued

LEMMA InitQInv == Init => QInv
<1> SUFFICES ASSUME Init PROVE QInv
  OBVIOUS
<1>1. queue = <<>> /\ buffer = <<>> /\ wire = <<>> /\ handed = 0 /\ armed = FALSE /\ writing = FALSE
  BY DEF Init
<1>2. TypeOK
  <2>1. <<>> \in Seq(1 .. MaxReplies) /\ Len(<<>>) = 0 /\ 0 <= Room /\ 0 \in 0 .. MaxReplies
    BY QueueAssumption, EmptySeq, SMT
  <2> QED
    BY <1>1, <2>1 DEF TypeOK
<1>3. Way = <<>>
  <2>1. <<>> \in Seq(Answers) /\ <<>> \o <<>> = <<>>
    BY EmptySeq, ConcatEmptySeq
  <2> QED
    BY <1>1, <2>1 DEF Way
<1>4. 1 .. Len(Way) = {} /\ 1 .. handed = {}
  BY <1>1, <1>3, SMT
<1> QED
  BY <1>1, <1>2, <1>4 DEF QInv, Delivers, ArmedWhileQueued

LEMMA QInvStep == QInv /\ [Next]_vars => QInv'
<1> SUFFICES ASSUME QInv, [Next]_vars PROVE QInv'
  OBVIOUS
<1>1. CASE OnListenWrite
  <2>1. UNCHANGED <<queue, armed, handed, buffer, wire>> /\ writing' = TRUE
    BY <1>1 DEF OnListenWrite
  <2> QED
    BY <2>1 DEF QInv, TypeOK, Way, ArmedWhileQueued
<1>2. CASE StopWriting
  <2>1. UNCHANGED <<queue, handed, buffer, wire>> /\ armed' = Interest(queue) /\ writing' = FALSE
    BY <1>2 DEF StopWriting
  <2>2. Interest(queue) \in BOOLEAN /\ (Interest(queue) <=> queue # <<>>)
    BY DEF Interest
  <2> QED
    BY <2>1, <2>2 DEF QInv, TypeOK, Way, ArmedWhileQueued
<1>3. CASE UNCHANGED vars
  BY <1>3 DEF QInv, TypeOK, Way, ArmedWhileQueued, vars
<1> QED
  BY <1>1, <1>2, <1>3, SendToQInv, SendFrontQInv, DrainQInv DEF Next

LEMMA QInvAlways == Spec => []QInv
  BY InitQInv, QInvStep, PTL DEF Spec

-------------------------------------------------------------------------------
(* Theorems                                                                *)

(* The queue, the buffer and the wire hold answers; the buffer never more  *)
(* than it has room for.                                                   *)
THEOREM QueueTypes == Spec => []TypeOK
<1>1. QInv => TypeOK
  BY DEF QInv
<1> QED
  BY <1>1, QInvAlways, PTL

(* SendTo and OnListenWrite let no answer overtake another, and send none  *)
(* twice.                                                                  *)
THEOREM NoOvertaking == Spec => []InOrder
<1>1. QInv => InOrder
  BY DEF QInv, Delivers, InOrder
<1> QED
  BY <1>1, QInvAlways, PTL

(* Nothing SendTo was given is lost, on the way through the queue, but     *)
(* what the kernel refuses.                                                *)
THEOREM NoneForgotten == Spec => []NothingForgotten
<1>1. QInv => NothingForgotten
  BY DEF QInv, Delivers, NothingForgotten
<1> QED
  BY <1>1, QInvAlways, PTL

(* UpdateListenEvents is called wherever the queue may have become empty   *)
(* or not empty: the thread does not sleep over a queued answer, nor spin  *)
(* without one.                                                            *)
THEOREM ArmedAsNeeded == Spec => []ArmedWhileQueued
<1>1. QInv => ArmedWhileQueued
  BY DEF QInv
<1> QED
  BY <1>1, QInvAlways, PTL
===============================================================================
