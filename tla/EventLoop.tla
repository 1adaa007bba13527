------------------------------- MODULE EventLoop -------------------------------
(***************************************************************************)
(* The single thread of the server: epoll_wait, the handlers of one batch  *)
(* of events, and what is closed between two batches.  The module is about *)
(* the life of the clients' transactions and their sockets.  Of the        *)
(* queries of a transaction it keeps the IDs, so an answer may finish any  *)
(* of them or none; DNSQueryWork has the rest.  The kernel may reuse a     *)
(* descriptor as soon as it is closed.                                     *)
(*                                                                         *)
(* Time is counted in ticks and passes while the thread sleeps; the age of *)
(* a transaction is the time since its m_llLastTouch.                      *)
(***************************************************************************)
EXTENDS Integers, FiniteSets

CONSTANTS
  Clients,           \* client addresses, the keys of the WorkManager
  Zones,             \* the configured zones
  Fds, NoFd,         \* descriptors for upstream sockets; -1
  ListenFd, ExitFd,  \* the listening socket, the one SIGINT makes ready
  IDs,               \* query IDs
  ReadPerEvent,      \* DEF_READ_PER_EVENT
  Interval,          \* DEF_CLEAN_INTERVAL, also the longest epoll_wait
  TimeOut,           \* DEF_TIME_OUT
  NoWork, NoOwner

Owners == [client : Clients, zone : Zones]

(* A transaction; "asked" (history) tells whether it ever had a query.     *)
Works == [fds : [Zones -> Fds \cup {NoFd}], pending : SUBSET IDs, age : Nat, asked : BOOLEAN]

ASSUME LoopAssumption ==
  /\ NoFd \notin Fds /\ ListenFd \notin Fds /\ ExitFd \notin Fds /\ ListenFd # ExitFd
  /\ ReadPerEvent \in Nat \ {0}
  /\ Interval \in Nat \ {0}
  /\ TimeOut \in Nat
  /\ NoOwner \notin Owners /\ NoWork \notin Works

VARIABLES
  pc,         \* where the thread is
  works,      \* the WorkManager: transactions, by client
  manager,    \* the ConnectionManager: the owner, by descriptor
  sockets,    \* descriptors of the upstream sockets the process has open
  watched,    \* those registered with epoll
  idle,       \* m_ssIdle
  batch,      \* the events of this round not handled yet
  reads,      \* packets the listening event has read so far
  sinceClean, \* llNow - llLastClean
  waited,     \* how long this epoll_wait has lasted
  closed      \* descriptors closed since epoll_wait returned (history)

vars == <<pc, works, manager, sockets, watched, idle, batch, reads, sinceClean, waited, closed>>

Places == {"poll", "serve", "closeIdle", "clearTimeout", "done"}

Events == [fd : Fds \cup {ListenFd, ExitFd}, kind : {"in", "hup"}]

TypeOK ==
  /\ pc \in Places
  /\ works \in [Clients -> Works \cup {NoWork}]
  /\ manager \in [Fds -> Owners \cup {NoOwner}]
  /\ sockets \subseteq Fds
  /\ watched \subseteq Fds
  /\ idle \subseteq Clients
  /\ batch \subseteq Events
  /\ reads \in 0 .. ReadPerEvent
  /\ sinceClean \in Nat
  /\ waited \in 0 .. Interval
  /\ closed \subseteq Fds

Init ==
  /\ pc = "poll"
  /\ works = [c \in Clients |-> NoWork]
  /\ manager = [fd \in Fds |-> NoOwner]
  /\ sockets = {}
  /\ watched = {}
  /\ idle = {}
  /\ batch = {}
  /\ reads = 0
  /\ sinceClean = Interval
  /\ waited = 0
  /\ closed = {}

Open == {c \in Clients : works[c] # NoWork}

-------------------------------------------------------------------------------
(* epoll_wait                                                              *)

(* Time passes; m_llLastTouch and llLastClean stay behind.                 *)
Tick ==
  /\ pc = "poll"
  /\ waited < Interval
  /\ waited' = waited + 1
  /\ sinceClean' = sinceClean + 1
  /\ works' = [c \in Clients |->
                 IF c \in Open THEN [works[c] EXCEPT !.age = @ + 1] ELSE NoWork]
  /\ UNCHANGED <<pc, manager, sockets, watched, idle, batch, reads, closed>>

(* It returns with at most one event per descriptor, or with none after    *)
(* Interval or a signal.                                                   *)
Poll(ready, hung, listen, exit) ==
  /\ pc = "poll"
  /\ pc' = "serve"
  /\ ready \cup hung \subseteq watched /\ ready \cap hung = {}
  /\ batch' = [fd : ready \cup listen \cup exit, kind : {"in"}] \cup [fd : hung, kind : {"hup"}]
  /\ reads' = 0
  /\ waited' = 0
  /\ closed' = {}
  /\ UNCHANGED <<works, manager, sockets, watched, idle, sinceClean>>

-------------------------------------------------------------------------------
(* The listening socket                                                    *)

(* The sockets of a client's transaction: those it has, or new ones, each  *)
(* zone its own; -1 for a zone whose upstream is not available.            *)
SocketsFor(c) ==
  IF works[c] # NoWork
  THEN {works[c].fds}
  ELSE {f \in [Zones -> (Fds \ sockets) \cup {NoFd}] :
          \A y, z \in Zones : f[y] = f[z] /\ f[y] # NoFd => y = z}

InUse(f) == {f[z] : z \in Zones} \ {NoFd}

(* GetItem, or AllocWork, Init and SaveWork.  SaveItem refuses a key that  *)
(* is there already: ManagerExact says that none is.                       *)
FindOrMake(c, f) ==
  LET made == IF works[c] # NoWork THEN {} ELSE InUse(f)
  IN  /\ f \in SocketsFor(c)
      /\ sockets' = sockets \cup made
      /\ watched' = watched \cup made
      /\ manager' = [fd \in Fds |->
                       IF fd \in made
                       THEN [client |-> c, zone |-> CHOOSE z \in Zones : f[z] = fd]
                       ELSE manager[fd]]

(* One packet: new is the ID it carries, or nothing if it is too short.    *)
OnListenRead(c, new, f) ==
  LET queries == IF works[c] # NoWork THEN works[c].pending ELSE {}
      before  == works[c] # NoWork /\ works[c].asked
  IN  /\ pc = "serve"
      /\ [fd |-> ListenFd, kind |-> "in"] \in batch
      /\ reads < ReadPerEvent
      /\ reads' = reads + 1
      /\ FindOrMake(c, f)
      /\ works' = [works EXCEPT ![c] =
           [fds |-> f, pending |-> queries \cup new, age |-> 0, asked |-> before \/ new # {}]]
      /\ UNCHANGED <<pc, idle, batch, sinceClean, waited, closed>>

(* Slip: only an empty socket ends the reading, and clients fill it.       *)
ListenReadGoesOn ==
  /\ pc = "serve"
  /\ [fd |-> ListenFd, kind |-> "in"] \in batch
  /\ reads' = 0
  /\ UNCHANGED <<pc, works, manager, sockets, watched, idle, batch, sinceClean, waited, closed>>

(* The socket is empty, or enough has been read for one event.             *)
ListenReadEnds ==
  /\ pc = "serve"
  /\ [fd |-> ListenFd, kind |-> "in"] \in batch
  /\ batch' = batch \ {[fd |-> ListenFd, kind |-> "in"]}
  /\ UNCHANGED <<pc, works, manager, sockets, watched, idle, reads, sinceClean, waited, closed>>

-------------------------------------------------------------------------------
(* Closing transactions                                                    *)

FdsOf(cs) == UNION {InUse(works[c].fds) : c \in cs \cap Open}

(* Slip: the ConnectionManager is not told.                                *)
CloseUndeleted(cs) ==
  /\ works' = [c \in Clients |-> IF c \in cs THEN NoWork ELSE works[c]]
  /\ sockets' = sockets \ FdsOf(cs)
  /\ watched' = watched \ FdsOf(cs)
  /\ closed' = closed \cup FdsOf(cs)
  /\ UNCHANGED manager

(* Exit of the transactions of cs, which leave the WorkManager.            *)
Close(cs) ==
  /\ works' = [c \in Clients |-> IF c \in cs THEN NoWork ELSE works[c]]
  /\ manager' = [fd \in Fds |-> IF fd \in FdsOf(cs) THEN NoOwner ELSE manager[fd]]
  /\ sockets' = sockets \ FdsOf(cs)
  /\ watched' = watched \ FdsOf(cs)
  /\ closed' = closed \cup FdsOf(cs)

-------------------------------------------------------------------------------
(* An upstream socket                                                      *)

(* Slip: an answered transaction is closed at once.                        *)
ReadThenClose(e, finished) ==
  LET c == manager[e.fd].client
      left == works[c].pending \ finished
  IN  /\ pc = "serve"
      /\ e \in batch /\ e.fd \in Fds /\ e.kind = "in"
      /\ finished \subseteq works[c].pending
      /\ batch' = batch \ {e}
      /\ IF finished # {} /\ left = {}
         THEN Close({c})
         ELSE /\ works' = [works EXCEPT ![c].pending = left]
              /\ UNCHANGED <<manager, sockets, watched, closed>>
      /\ UNCHANGED <<pc, idle, reads, sinceClean, waited>>

(* Slip: only an answer to another query marks the transaction.            *)
ReadMarksLate(e, finished) ==
  LET c == manager[e.fd].client
  IN  /\ pc = "serve"
      /\ e \in batch /\ e.fd \in Fds /\ e.kind = "in"
      /\ finished \subseteq works[c].pending
      /\ batch' = batch \ {e}
      /\ works' = [works EXCEPT ![c].pending = @ \ finished]
      /\ idle' = IF works[c].pending = {} THEN idle \cup {c} ELSE idle
      /\ UNCHANGED <<pc, manager, sockets, watched, reads, sinceClean, waited, closed>>

(* Read: the answer finishes one query of the owner's transaction, or none.*)
Read(e, finished) ==
  LET c == manager[e.fd].client
      left == works[c].pending \ finished
  IN  /\ pc = "serve"
      /\ e \in batch /\ e.fd \in Fds /\ e.kind = "in"
      /\ finished \subseteq works[c].pending
      /\ batch' = batch \ {e}
      /\ works' = [works EXCEPT ![c].pending = left]
      /\ idle' = IF finished # {} /\ left = {} THEN idle \cup {c} ELSE idle
      /\ UNCHANGED <<pc, manager, sockets, watched, reads, sinceClean, waited, closed>>

(* Disconnect: epoll forgets the socket, which stays open and managed.     *)
Disconnect(e) ==
  /\ pc = "serve"
  /\ e \in batch /\ e.kind = "hup"
  /\ batch' = batch \ {e}
  /\ watched' = watched \ {e.fd}
  /\ UNCHANGED <<pc, works, manager, sockets, idle, reads, sinceClean, waited, closed>>

ServeEnds ==
  /\ pc = "serve"
  /\ batch = {}
  /\ pc' = "closeIdle"
  /\ UNCHANGED <<works, manager, sockets, watched, idle, batch, reads, sinceClean, waited, closed>>

-------------------------------------------------------------------------------
(* Between two batches                                                     *)

CloseIdle ==
  /\ pc = "closeIdle"
  /\ pc' = "clearTimeout"
  /\ Close({c \in idle \cap Open : works[c].pending = {}})
  /\ idle' = {}
  /\ UNCHANGED <<batch, reads, sinceClean, waited>>

(* Slip: llLastClean follows every round, cleaning or not.                 *)
ClearTimeoutPutOff ==
  /\ pc = "clearTimeout"
  /\ pc' = "poll"
  /\ sinceClean' = 0
  /\ IF sinceClean >= Interval
     THEN Close({c \in Open : works[c].age > TimeOut})
     ELSE UNCHANGED <<works, manager, sockets, watched, closed>>
  /\ UNCHANGED <<idle, batch, reads, waited>>

ClearTimeout ==
  /\ pc = "clearTimeout"
  /\ pc' = "poll"
  /\ IF sinceClean >= Interval
     THEN Close({c \in Open : works[c].age > TimeOut}) /\ sinceClean' = 0
     ELSE UNCHANGED <<works, manager, sockets, watched, closed, sinceClean>>
  /\ UNCHANGED <<idle, batch, reads, waited>>

(* Slip: the transactions that are still waiting are left alone.           *)
ExitAnswered ==
  /\ pc = "serve"
  /\ \E e \in batch : e.fd = ExitFd
  /\ pc' = "done"
  /\ Close(idle)
  /\ UNCHANGED <<idle, batch, reads, sinceClean, waited>>

(* The exit event, in the middle of the batch: ExitAndClear.               *)
Exit ==
  /\ pc = "serve"
  /\ \E e \in batch : e.fd = ExitFd
  /\ pc' = "done"
  /\ Close(Clients)
  /\ UNCHANGED <<idle, batch, reads, sinceClean, waited>>

-------------------------------------------------------------------------------
Wait == \E ready \in SUBSET watched, hung \in SUBSET watched, listen \in SUBSET {ListenFd}, exit \in SUBSET {ExitFd} :
          Poll(ready, hung, listen, exit)

Listen == \E c \in Clients, new \in {{}} \cup {{id} : id \in IDs} :
            \E f \in SocketsFor(c) : OnListenRead(c, new, f)

Upstream == \E e \in batch :
              \/ Disconnect(e)
              \/ e.fd \in Fds /\ \E finished \in {{}} \cup {{id} : id \in IDs} : Read(e, finished)

(* What the thread does without waiting for anything                       *)
Run == Listen \/ ListenReadEnds \/ Upstream \/ ServeEnds \/ CloseIdle \/ ClearTimeout \/ Exit

Next == Tick \/ Wait \/ Run

Spec == Init /\ [][Next]_vars

(* The thread runs, and epoll_wait returns.                                *)
LiveSpec == Spec /\ WF_vars(Run) /\ WF_vars(Wait)

-------------------------------------------------------------------------------
(* Properties                                                              *)

(* Server.cpp:280: no socket is closed while a batch is handled, so every  *)
(* event still to be handled names a descriptor that has not been closed   *)
(* since epoll_wait returned, of a connection the server knows.            *)
BatchEventsValid ==
  pc = "serve" => \A e \in batch : e.fd \in Fds =>
    e.fd \notin closed /\ manager[e.fd] # NoOwner

(* A descriptor is managed exactly when a transaction holds it for the     *)
(* zone the manager says, and open exactly when it is managed: no socket   *)
(* leaks, none is shared, SaveItem is never refused.                       *)
ManagerExact ==
  /\ \A fd \in Fds : \A o \in Owners :
       manager[fd] = o <=> works[o.client] # NoWork /\ works[o.client].fds[o.zone] = fd
  /\ \A fd \in Fds : fd \in sockets <=> manager[fd] # NoOwner
  /\ watched \subseteq sockets

(* When the thread sleeps, every transaction that ever had a query still   *)
(* has one: those that were answered have been closed (CloseIdle).         *)
AnsweredAreClosed ==
  pc = "poll" => \A c \in Open : works[c].asked => works[c].pending # {}

(* No transaction outlives its last packet by more than the timeout and    *)
(* two cleaning intervals, though the cleaning runs only when the loop     *)
(* comes round and epoll_wait may sleep a whole interval.                  *)
TimeoutBound ==
  \A c \in Open : works[c].age <= TimeOut + 2 * Interval - 1

(* WorkManager.cpp:72: after ExitAndClear the ConnectionManager is empty,  *)
(* whatever the batch was interrupted in; so no socket is left open.       *)
ExitLeavesNothing ==
  pc = "done" => sockets = {} /\ \A fd \in Fds : manager[fd] = NoOwner

(* Every batch is handled to its end, however many packets clients send.   *)
BatchEnds == (pc = "serve") ~> (pc \in {"poll", "done"})
===============================================================================
