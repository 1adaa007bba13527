------------------------------ MODULE DNSConnect ------------------------------
(***************************************************************************)
(* One UDP socket to an upstream and the queue of queries the kernel was   *)
(* not ready to take.  A connection is a record                            *)
(*   up      - the socket exists (m_fdSock # -1)                           *)
(*   watched - epoll reports the socket; EPOLLOUT is asked for exactly     *)
(*             while the queue is not empty (UpdateEvents)                 *)
(*   queue   - m_lsWriteQueue                                              *)
(* The kernel's answer to one send() is "sent", "again" (EAGAIN,           *)
(* EWOULDBLOCK, EINTR) or "fail" (any other error).                        *)
(***************************************************************************)
EXTENDS Integers, Sequences

Kernel == {"sent", "again", "fail"}

Conn(Packet) == [up : BOOLEAN, watched : BOOLEAN, queue : Seq(Packet)]

(* Init: a zone whose socket could not be made keeps descriptor -1.        *)
Connected(up) == [up |-> up, watched |-> up, queue |-> <<>>]

(* The queries queued in front of the socket                               *)
Waiting(c) == {c.queue[j] : j \in 1 .. Len(c.queue)}

(* SendDNSQueryBuffer: true, and the query reaches the wire, is queued, or *)
(* is refused.                                                             *)
Queues(c, k) == c.up /\ (c.queue # <<>> \/ k = "again")

Transmits(c, k) == c.up /\ c.queue = <<>> /\ k = "sent"

Accepts(c, k) == Queues(c, k) \/ Transmits(c, k)

(* Slip: what the kernel has no room for is given up.                      *)
AfterSendUnqueued(c, p, k) == c

AfterSend(c, p, k) == IF Queues(c, k) THEN [c EXCEPT !.queue = Append(@, p)] ELSE c

(* Slip: the queue is cleared, whatever has been sent of it.               *)
AfterWriteCleared(c, n) == [c EXCEPT !.queue = <<>>]

(* Write has taken the first n queries off the queue.                      *)
AfterWrite(c, n) == [c EXCEPT !.queue = SubSeq(@, n + 1, Len(@))]

(* Disconnect: the socket leaves epoll and stays open.                     *)
AfterDisconnect(c) == [c EXCEPT !.watched = FALSE]
===============================================================================
