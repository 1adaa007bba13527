------------------------------ MODULE ReplyQueue ------------------------------
(***************************************************************************)
(* Answers leaving by the listening socket: Server::SendTo, the queue of   *)
(* answers the kernel had no room for, and OnListenWrite, one send a step: *)
(* the network takes packets from the buffer meanwhile.  Answers are       *)
(* numbered in the order SendTo gets them.  Bounds: MaxReplies answers,    *)
(* Room packets in the socket buffer.                                      *)
(***************************************************************************)
EXTENDS Integers, Sequences

CONSTANTS
  MaxReplies,
  Room,       \* packets the socket buffer holds
  Unsendable  \* answers the kernel refuses for good

ASSUME QueueAssumption ==
  MaxReplies \in Nat /\ Room \in Nat \ {0} /\ Unsendable \subseteq 1 .. MaxReplies

VARIABLES
  queue,   \* m_lsSendQueue
  armed,   \* epoll is asked for EPOLLOUT on the listening socket
  writing, \* the thread is in OnListenWrite
  handed,  \* answers SendTo has been given
  buffer,  \* packets in the socket buffer (the kernel's)
  wire     \* answers that have left, in order (the network's)

vars == <<queue, armed, writing, handed, buffer, wire>>

TypeOK ==
  /\ queue \in Seq(1 .. MaxReplies)
  /\ armed \in BOOLEAN
  /\ writing \in BOOLEAN
  /\ handed \in 0 .. MaxReplies
  /\ buffer \in Seq(1 .. MaxReplies) /\ Len(buffer) <= Room
  /\ wire \in Seq(1 .. MaxReplies)

Init ==
  /\ queue = <<>> /\ armed = FALSE /\ writing = FALSE
  /\ handed = 0 /\ buffer = <<>> /\ wire = <<>>

(* What SendReply does with answer r: take it, refuse it, or ask to wait.  *)
Outcome(r, full) == IF r \in Unsendable THEN "fail" ELSE IF full THEN "again" ELSE "sent"

(* Slip: off by one.                                                       *)
InterestInTwo(q) == Len(q) > 1

(* UpdateListenEvents                                                      *)
Interest(q) == q # <<>>

(* Slip: a new answer is tried although others wait.                       *)
SendToAtOnce ==
  LET r == handed + 1
      k == Outcome(r, Len(buffer) = Room)
  IN  /\ ~writing /\ handed < MaxReplies
      /\ handed' = r
      /\ queue' = IF k = "again" THEN Append(queue, r) ELSE queue
      /\ armed' = Interest(queue')
      /\ buffer' = IF k = "sent" THEN Append(buffer, r) ELSE buffer
      /\ UNCHANGED <<writing, wire>>

(* Slip: UpdateListenEvents is left out.                                   *)
SendToUnarmed ==
  LET r == handed + 1
      k == Outcome(r, Len(buffer) = Room)
  IN  /\ ~writing /\ handed < MaxReplies
      /\ handed' = r
      /\ IF queue # <<>> \/ k = "again"
         THEN queue' = Append(queue, r) /\ UNCHANGED buffer
         ELSE /\ buffer' = IF k = "sent" THEN Append(buffer, r) ELSE buffer
              /\ UNCHANGED queue
      /\ UNCHANGED <<armed, writing, wire>>

SendTo ==
  LET r == handed + 1
      k == Outcome(r, Len(buffer) = Room)
  IN  /\ ~writing /\ handed < MaxReplies
      /\ handed' = r
      /\ IF queue # <<>> \/ k = "again"
         THEN /\ queue' = Append(queue, r)
              /\ armed' = Interest(queue')
              /\ UNCHANGED buffer
         ELSE /\ buffer' = IF k = "sent" THEN Append(buffer, r) ELSE buffer
              /\ UNCHANGED <<queue, armed>>
      /\ UNCHANGED <<writing, wire>>

(* EPOLLOUT is reported while the buffer has room; OnListenWrite begins.   *)
OnListenWrite ==
  /\ ~writing
  /\ armed /\ Len(buffer) < Room
  /\ writing' = TRUE
  /\ UNCHANGED <<queue, armed, handed, buffer, wire>>

(* Slip: an answer leaves the queue before SendReply has taken it.         *)
SendFrontPopsFirst ==
  /\ writing /\ queue # <<>>
  /\ LET k == Outcome(Head(queue), Len(buffer) = Room)
     IN  buffer' = IF k = "sent" THEN Append(buffer, Head(queue)) ELSE buffer
  /\ queue' = Tail(queue)
  /\ UNCHANGED <<armed, writing, handed, wire>>

(* One round of its loop: the first answer is sent or refused for good.    *)
SendFront ==
  /\ writing /\ queue # <<>>
  /\ LET k == Outcome(Head(queue), Len(buffer) = Room)
     IN  /\ k # "again"
         /\ buffer' = IF k = "sent" THEN Append(buffer, Head(queue)) ELSE buffer
  /\ queue' = Tail(queue)
  /\ UNCHANGED <<armed, writing, handed, wire>>

(* The loop ends: the buffer is full or the queue empty.                   *)
StopWriting ==
  /\ writing
  /\ queue # <<>> => Outcome(Head(queue), Len(buffer) = Room) = "again"
  /\ armed' = Interest(queue)
  /\ writing' = FALSE
  /\ UNCHANGED <<queue, handed, buffer, wire>>

(* The network takes a packet from the buffer.                             *)
Drain ==
  /\ buffer # <<>>
  /\ wire' = Append(wire, Head(buffer))
  /\ buffer' = Tail(buffer)
  /\ UNCHANGED <<queue, armed, writing, handed>>

Next == SendTo \/ OnListenWrite \/ SendFront \/ StopWriting \/ Drain

Spec == Init /\ [][Next]_vars

(* The loop serves EPOLLOUT, OnListenWrite comes to its end, the network   *)
(* moves.                                                                  *)
LiveSpec ==
  Spec /\ WF_vars(OnListenWrite) /\ WF_vars(SendFront) /\ WF_vars(StopWriting) /\ WF_vars(Drain)

-------------------------------------------------------------------------------
(* Everything on its way, oldest first                                     *)
Way == wire \o buffer \o queue

(* No answer overtakes another, on the wire or in the queue, and none is   *)
(* sent twice: SendTo queues behind a queue even when the buffer has room. *)
InOrder == \A i, j \in 1 .. Len(Way) : i < j => Way[i] < Way[j]

(* Every answer SendTo has been given is on its way, unless the kernel     *)
(* refuses it.                                                             *)
NothingForgotten ==
  \A r \in (1 .. handed) \ Unsendable : \E i \in 1 .. Len(Way) : Way[i] = r

(* A queued answer cannot be overlooked: whenever the thread is back in    *)
(* epoll_wait it hears of room exactly if an answer waits for it.          *)
ArmedWhileQueued == ~writing => (armed <=> queue # <<>>)

(* Every answer the kernel does not refuse leaves in the end.              *)
EveryReplyLeaves ==
  \A r \in (1 .. MaxReplies) \ Unsendable :
    (handed >= r) ~> (\E i \in 1 .. Len(wire) : wire[i] = r)
===============================================================================
