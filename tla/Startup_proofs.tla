---------------------------- MODULE Startup_proofs ----------------------------
(***************************************************************************)
(* What Startup guarantees for any configuration, any files and any        *)
(* writers, paths, clock and queue of events.                              *)
(***************************************************************************)
EXTENDS Startup, FiniteSetTheorems, FunctionTheorems, TLAPS

-------------------------------------------------------------------------------
(* What the actions leave alone                                            *)

(* Writers act beside the thread: they touch neither its place nor what it *)
(* holds.                                                                  *)
LEMMA WritersBeside ==
  ASSUME Writers
  PROVE  UNCHANGED process
  BY DEF Writers, OpenForWriting, WriteLine, CloseWritten, MoveTo, Unlink, Retarget, WriteOther, Tick

(* The thread reads, and changes, nothing once the process is gone.        *)
LEMMA ExitedStays ==
  ASSUME [Next]_vars, pc = "exited"
  PROVE  pc' = "exited" /\ UNCHANGED open
<1>1. CASE Run
  BY <1>1 DEF Run, Options, LoadConfig, LoadConfigJson, ReadConfig, ReadZone, SortZones, InstallHandler,
     CreateDescriptors, Create, CreateSockServer, Background, Refresh, RefreshResolvConf, NoFileToRead, Stat,
     Load, RefreshEnds, Watch, InitNotify, OpenNotify, NoFileToWatch, WatchFile, WatchFails, AllWatched, Arm,
     ServeNotify, INotify, INotifyFails, ServeExit, End
<1>2. CASE Environment
  BY <1>2 DEF Environment, SigEventInt
<1>3. CASE UNCHANGED vars
  BY <1>3 DEF vars, watchVars, process, lifeVars
<1> QED
  BY <1>1, <1>2, <1>3 DEF Next

-------------------------------------------------------------------------------
(* Descriptors                                                             *)

(* A step of the thread before the end, or of the environment, opens what  *)
(* it takes the number of, and closes what it forgets.                     *)
LEMMA HeldStaysOpen ==
  ASSUME ReleasedOnce, Next, pc # "exited"
  PROVE  ReleasedOnce'
<1>1. held = open
  BY DEF ReleasedOnce
<1>2. CASE End
  BY <1>1, <1>2 DEF End, ReleasedOnce
<1>3. ASSUME pc' # "exited", held' = open'
      PROVE  ReleasedOnce'
  BY <1>3 DEF ReleasedOnce
<1>4. CASE Options \/ LoadConfig \/ Background \/ Refresh \/ Arm \/ InstallHandler \/ ServeNotify \/ ServeExit
  <2>1. UNCHANGED <<held, open>>
    BY <1>4 DEF Options, LoadConfig, Background, Refresh, Arm, InstallHandler, ServeNotify, ServeExit, lifeVars
  <2>2. pc' # "exited"
    BY <1>4 DEF Options, LoadConfig, LoadConfigJson, ReadConfig, ReadZone, SortZones, Background, Refresh,
       RefreshResolvConf, NoFileToRead, Stat, Load, RefreshEnds, Arm, InstallHandler, ServeNotify, INotify, Take,
       INotifyFails, ServeExit
  <2> QED
    BY <1>1, <1>3, <2>1, <2>2
<1>5. CASE CreateDescriptors
  BY <1>1, <1>3, <1>5 DEF CreateDescriptors, Create, CreateSockServer
<1>6. CASE Watch
  <2>1. held' = open'
    BY <1>1, <1>6 DEF Watch
  <2>2. pc' # "exited"
    BY <1>6 DEF Watch, InitNotify, OpenNotify, NoFileToWatch, WatchFile, WatchFails, AllWatched
  <2> QED
    BY <1>3, <2>1, <2>2
<1>7. CASE Environment
  BY <1>1, <1>3, <1>7, WritersBeside DEF Environment, SigEventInt, process, lifeVars
<1> QED
  BY <1>2, <1>4, <1>5, <1>6, <1>7 DEF Next, Run

(* Every way through main releases what was made, once: no failing step of *)
(* the start leaves a descriptor open or closes one that is not.           *)
THEOREM DescriptorsReleased == Spec => []ReleasedOnce
<1>1. Init => ReleasedOnce
  BY DEF Init, LoadInit, ReleasedOnce
<1>2. ReleasedOnce /\ [Next]_vars => ReleasedOnce'
  <2> SUFFICES ASSUME ReleasedOnce, [Next]_vars
               PROVE  ReleasedOnce'
    OBVIOUS
  <2>1. CASE pc = "exited"
    BY <2>1, ExitedStays DEF ReleasedOnce
  <2>2. CASE pc # "exited" /\ Next
    BY <2>2, HeldStaysOpen
  <2>3. CASE UNCHANGED vars
    BY <2>3 DEF ReleasedOnce, vars, watchVars, process, lifeVars
  <2> QED
    BY <2>1, <2>2, <2>3
<1> QED
  BY <1>1, <1>2, PTL DEF Spec

-------------------------------------------------------------------------------
(* Serving                                                                 *)

Starting == {"options", "config", "zones", "loaded", "epoll", "listen", "exitSocket", "background"}

(* The places of the thread tell whether the files are watched and whether *)
(* SIGINT is heard; reading the files is done once before both, and later  *)
(* on with both.                                                           *)
Places ==
  /\ pc \in Starting => ~armed /\ ~notify
  /\ pc = "notify" => ~armed
  /\ pc \in {"stat", "load"} => (armed <=> notify)
  /\ pc \in {"watch", "arm"} => ~armed /\ notify
  /\ pc = "wait" => armed /\ notify

(* Until the exit event is registered, each step of the start leads to the *)
(* place main has it lead to.                                              *)
LEMMA StartKeepsPlaces ==
  ASSUME Places,
         Options \/ LoadConfig \/ InstallHandler \/ CreateDescriptors \/ Background \/ Watch \/ Arm
  PROVE  Places' /\ (pc' = "end" => ~armed')
<1>1. CASE Options \/ InstallHandler \/ CreateDescriptors \/ Background \/ Arm
  BY <1>1 DEF Places, Starting, Options, InstallHandler, CreateDescriptors, Create, CreateSockServer, Background,
     Arm, quiet, signals, lifeVars
<1>2. CASE LoadConfig
  <2>1. ~armed /\ ~notify /\ UNCHANGED <<armed, notify>>
    BY <1>2 DEF LoadConfig, LoadConfigJson, ReadConfig, ReadZone, SortZones, Places, Starting, lifeVars
  <2>2. pc' \in {"config", "zones", "loaded", "end"}
    BY <1>2 DEF LoadConfig, LoadConfigJson, ReadConfig, ReadZone, SortZones
  <2> QED
    BY <2>1, <2>2 DEF Places, Starting
<1>3. CASE Watch
  <2>1. ~armed /\ UNCHANGED armed
    BY <1>3 DEF Watch, InitNotify, OpenNotify, NoFileToWatch, WatchFile, WatchFails, AllWatched, Places, signals
  <2>2. \/ pc' \in {"watch", "arm"} /\ notify'
        \/ pc' = "end"
    BY <1>3 DEF Watch, InitNotify, OpenNotify, NoFileToWatch, WatchFile, WatchFails, AllWatched, Places
  <2> QED
    BY <2>1, <2>2 DEF Places, Starting
<1> QED
  BY <1>1, <1>2, <1>3

(* Reading the files ends where it was called from.                        *)
LEMMA RefreshKeepsPlaces ==
  ASSUME Places, Refresh
  PROVE  Places' /\ pc' # "end"
<1>1. (armed <=> notify) /\ UNCHANGED <<armed, notify>>
  BY DEF Refresh, RefreshResolvConf, NoFileToRead, Stat, Load, RefreshEnds, Places, lifeVars
<1>2. \/ pc' \in {"stat", "load"}
      \/ pc' = IF notify THEN "wait" ELSE "notify"
  BY DEF Refresh, RefreshResolvConf, NoFileToRead, Stat, Load, RefreshEnds
<1> QED
  BY <1>1, <1>2 DEF Places, Starting

(* Reading the events ends the loop only at one that does not fit.         *)
LEMMA ServeKeepsPlaces ==
  ASSUME Places, ServeNotify
  PROVE  /\ Places'
         /\ pc' = "end" => queue' # <<>> /\ Head(queue') \in LongNames
<1>1. armed /\ notify /\ UNCHANGED <<armed, notify>>
  BY DEF ServeNotify, INotify, INotifyFails, Places, lifeVars
<1>2. CASE INotify
  BY <1>1, <1>2 DEF INotify, Take, Places, Starting
<1>3. CASE INotifyFails
  BY <1>1, <1>3 DEF INotifyFails, machine, Places, Starting
<1> QED
  BY <1>2, <1>3 DEF ServeNotify

(* Writers and SIGINT leave the thread where it is.                        *)
LEMMA EnvironmentKeepsPlaces ==
  ASSUME Places, OutlivesShortNames, Environment
  PROVE  Places' /\ OutlivesShortNames'
<1>1. CASE SigEventInt
  <2>1. UNCHANGED <<pc, notify, armed, queue>> /\ (armed => exitReady')
    BY <1>1 DEF SigEventInt, quiet, machine
  <2> QED
    BY <2>1 DEF Places, OutlivesShortNames
<1>2. CASE pc # "end" /\ Writers /\ UNCHANGED lifeVars
  <2>1. UNCHANGED <<pc, notify, armed>> /\ pc # "end"
    BY <1>2, WritersBeside DEF process, lifeVars
  <2> QED
    BY <2>1 DEF Places, OutlivesShortNames
<1> QED
  BY <1>1, <1>2 DEF Environment

(* Once it serves, the process ends at SIGINT or at an event that the      *)
(* buffer of INotify cannot hold, and at nothing else a file may do.       *)
THEOREM FilesDoNotStop == Spec => []OutlivesShortNames
<1>1. Init => Places /\ OutlivesShortNames
  BY DEF Init, LoadInit, WatchInit, Places, Starting, OutlivesShortNames
<1>2. Places /\ OutlivesShortNames /\ [Next]_vars => Places' /\ OutlivesShortNames'
  <2> SUFFICES ASSUME Places, OutlivesShortNames, [Next]_vars
               PROVE  Places' /\ OutlivesShortNames'
    OBVIOUS
  <2>1. CASE Options \/ LoadConfig \/ InstallHandler \/ CreateDescriptors \/ Background \/ Watch \/ Arm
    BY <2>1, StartKeepsPlaces DEF OutlivesShortNames
  <2>2. CASE Refresh
    BY <2>2, RefreshKeepsPlaces DEF OutlivesShortNames
  <2>3. CASE ServeNotify
    BY <2>3, ServeKeepsPlaces DEF OutlivesShortNames
  <2>4. CASE ServeExit
    BY <2>4 DEF ServeExit, Places, Starting, OutlivesShortNames, quiet, lifeVars
  <2>5. CASE End
    BY <2>5 DEF End, Places, Starting, OutlivesShortNames
  <2>6. CASE Environment
    BY <2>6, EnvironmentKeepsPlaces
  <2>7. CASE UNCHANGED vars
    <3>1. UNCHANGED <<pc, notify, armed, exitReady, queue>>
      BY <2>7 DEF vars, watchVars, process, machine, lifeVars
    <3> QED
      BY <3>1 DEF Places, OutlivesShortNames
  <2> QED
    BY <2>1, <2>2, <2>3, <2>4, <2>5, <2>6, <2>7 DEF Next, Run
<1> QED
  BY <1>1, <1>2, PTL DEF Spec
-------------------------------------------------------------------------------
(* The addresses of the zones                                              *)

Serving == {"stat", "load", "notify", "watch", "arm", "wait"}

(* Types of what the zones and the files are made of                       *)
Typed ==
  /\ pc \in Starting \cup Serving \cup {"end", "exited"}
  /\ pc \in {"options", "config", "zones"} => config \in Configs
  /\ zones \in Seq(ZoneInfos) /\ at \in Nat \ {0}
  /\ notify \in BOOLEAN /\ watching \subseteq Files
  /\ disk \in [Files -> Content] /\ target \in [Paths -> Files] /\ now \in Nat \ {0}
  /\ queue \in Seq(Names \cup {Overflow})

(* Where the thread stands, and what it has watched by then.               *)
Standing ==
  /\ pc \in Starting \cup {"notify"} => ~notify
  /\ pc \in {"watch", "arm", "wait"} => notify
  /\ pc \in (Starting \cup {"arm", "wait"}) \ {"options", "config", "zones"} => at = 1
  /\ pc \in Starting \cup Serving /\ ~Started => target = LinksTo
  /\ pc = "load" => HasFile(at)

Watched(i) == HasFile(i) => LinksTo[zones[i].path] \in watching

AllFollowed ==
  pc \in Serving => \A i \in DOMAIN zones :
    Started \/ (pc = "watch" /\ i < at) => Watched(i)

(* A zone whose file has not changed since it was read has its nameserver; *)
(* between stat and the reading it has not.                                *)
Serves(i) ==
  /\ zones[i].addr = FirstServer(disk[FileOf(i)].lines)
  /\ zones[i].ok \/ zones[i].addr = NoServer

FreshHolds ==
  /\ pc \in Starting => fresh = {}
  /\ \A i \in fresh : /\ HasFile(i) /\ disk[FileOf(i)].there
                      /\ Serves(i) \/ (pc = "load" /\ at = i)

(* The zone will be read: by the reading that is under way, or for an      *)
(* event that has not been read yet.                                       *)
Due(i) ==
  \/ pc = "stat" /\ at <= i
  \/ pc = "load" /\ at < i
  \/ FileOf(i) \in watching /\ \E j \in 1 .. Len(queue) : queue[j] = FileOf(i)

(* A change nobody has seen yet is one that will be.                       *)
Noticed(i) ==
  Followed(i) /\ i \notin missed /\ disk[FileOf(i)].there /\ ~disk[FileOf(i)].writing
    => zones[i].time = disk[FileOf(i)].mtime \/ Due(i)

SInv ==
  /\ Typed /\ Standing /\ AllFollowed /\ FreshHolds
  /\ pc \in Serving => \A i \in DOMAIN zones : Noticed(i)

(* The nameserver read from a file is one, or none.                        *)
LEMMA FirstServerTyped ==
  ASSUME NEW lines
  PROVE  FirstServer(lines) \in Servers \cup {NoServer}
  BY DEF FirstServer

(* What holds of a zone that is in SInv.                                   *)
LEMMA ZoneTyped ==
  ASSUME Typed, NEW i \in DOMAIN zones
  PROVE  /\ zones[i] \in ZoneInfos /\ i \in Nat /\ i >= 1 /\ i <= Len(zones)
         /\ HasFile(i) => zones[i].path \in Paths /\ FileOf(i) \in Files
<1>1. zones[i] \in ZoneInfos /\ i \in 1 .. Len(zones) /\ Len(zones) \in Nat
  BY DEF Typed
<1> QED
  BY <1>1, SMT DEF HasFile, FileOf, ZoneInfos, Typed
-------------------------------------------------------------------------------
(* Writers                                                                 *)

(* The queue is only added to.                                             *)
LEMMA QueueGrows ==
  ASSUME Typed, NEW event, NEW name \in Names, queue' \in Queued(event, name)
  PROVE  /\ queue' \in Seq(Names \cup {Overflow}) /\ Len(queue) <= Len(queue')
         /\ \A j \in 1 .. Len(queue) : queue'[j] = queue[j]
<1>1. queue \in Seq(Names \cup {Overflow})
  BY DEF Typed
<1>2. queue' = queue \/ queue' = Append(queue, name) \/ queue' = Append(queue, Overflow)
  BY DEF Queued
<1> QED
  BY <1>1, <1>2

(* An event of a watched directory is in the queue, unless that is full.   *)
LEMMA EventQueued ==
  ASSUME Typed, NEW event \in Mask, NEW name \in Names, queue' \in Queued(event, name),
         watching # {}, Len(queue) < MaxQueue
  PROVE  \E j \in 1 .. Len(queue') : queue'[j] = name
<1>1. queue \in Seq(Names \cup {Overflow})
  BY DEF Typed
<1>2. CASE queue' = Append(queue, name)
  <2>1. Len(queue') = Len(queue) + 1 /\ queue'[Len(queue) + 1] = name
    BY <1>1, <1>2
  <2> QED
    BY <1>1, <2>1
<1>3. CASE queue' = queue /\ queue # <<>> /\ Last(queue) = name
  BY <1>1, <1>3 DEF Last
<1> QED
  BY <1>2, <1>3 DEF Queued

(* A zone whose file is not the one written to is as well off as before.   *)
LEMMA OthersNoticed ==
  ASSUME Typed, UNCHANGED process, NEW i \in DOMAIN zones, Noticed(i),
         HasFile(i) => FileOf(i)' = FileOf(i) /\ disk'[FileOf(i)] = disk[FileOf(i)], missed \subseteq missed',
         Len(queue') \in Nat, Len(queue) <= Len(queue'), \A j \in 1 .. Len(queue) : queue'[j] = queue[j]
  PROVE  Noticed(i)'
<1>1. /\ pc' = pc /\ zones' = zones /\ at' = at /\ watching' = watching
      /\ queue \in Seq(Names \cup {Overflow})
  BY DEF process, Typed
<1>2. HasFile(i)' <=> HasFile(i)
  BY <1>1 DEF HasFile
<1>3. Followed(i)' => Followed(i) /\ HasFile(i) /\ FileOf(i)' = FileOf(i)
  BY <1>1, <1>2 DEF Followed
<1>4. HasFile(i) /\ Due(i) => Due(i)'
  <2>1. Len(queue) \in Nat
    BY <1>1
  <2> QED
    BY <1>1, <2>1 DEF Due
<1> QED
  BY <1>1, <1>3, <1>4 DEF Noticed

(* What a step of a writer has to leave so that all goes on holding.       *)
LEMMA BesideKeeps ==
  ASSUME SInv, pc \in Serving, UNCHANGED process,
         disk' \in [Files -> Content], target' \in [Paths -> Files], now' \in Nat \ {0},
         queue' \in Seq(Names \cup {Overflow}),
         Started \/ UNCHANGED target,
         \A i \in fresh' : /\ i \in fresh /\ FileOf(i)' = FileOf(i)
                           /\ disk'[FileOf(i)].there = disk[FileOf(i)].there
                           /\ disk'[FileOf(i)].lines = disk[FileOf(i)].lines,
         \A i \in DOMAIN zones : Noticed(i)'
  PROVE  SInv'
<1>1. /\ pc' = pc /\ config' = config /\ zones' = zones /\ at' = at
      /\ notify' = notify /\ watching' = watching
  BY DEF process
<1>2. Typed'
  BY <1>1 DEF SInv, Typed
<1>3. Standing' /\ AllFollowed'
  BY <1>1 DEF SInv, Standing, AllFollowed, Watched, HasFile, Started
<1>4. FreshHolds'
  <2>1. pc \notin Starting
    BY DEF Serving, Starting
  <2>2. ASSUME NEW i \in fresh'
        PROVE  /\ HasFile(i)' /\ disk'[FileOf(i)'].there
               /\ Serves(i)' \/ (pc' = "load" /\ at' = i)
    BY <1>1, <2>2 DEF SInv, FreshHolds, HasFile, Serves
  <2> QED
    BY <1>1, <2>1, <2>2 DEF FreshHolds
<1> QED
  BY <1>1, <1>2, <1>3, <1>4 DEF SInv
(* A completed file is noticed by the zones that read it, or missed.       *)
LEMMA CompletedNoticed ==
  ASSUME SInv, pc \in Serving, NEW f \in Files, NEW event \in Mask, Completed(f, event),
         UNCHANGED process, UNCHANGED target,
         \A g \in Files \ {f} : disk'[g] = disk[g]
  PROVE  /\ queue' \in Seq(Names \cup {Overflow})
         /\ \A i \in DOMAIN zones : Noticed(i)'
<1>1. queue' \in Queued(event, f) /\ f \in Names /\ Typed
  BY DEF Completed, Names, SInv
<1>2. /\ queue' \in Seq(Names \cup {Overflow}) /\ Len(queue) <= Len(queue')
      /\ \A j \in 1 .. Len(queue) : queue'[j] = queue[j]
  BY <1>1, QueueGrows
<1>3. /\ pc' = pc /\ zones' = zones /\ watching' = watching /\ target' = target
  BY DEF process
<1>4. ASSUME NEW i \in DOMAIN zones
      PROVE  Noticed(i)'
  <2>1. FileOf(i)' = FileOf(i) /\ (HasFile(i)' <=> HasFile(i)) /\ (HasFile(i) => FileOf(i) \in Files)
    BY <1>1, <1>3, <1>4, ZoneTyped DEF FileOf, HasFile
  <2>2. CASE HasFile(i) /\ FileOf(i) = f
    <3> SUFFICES ASSUME Followed(i)', i \notin missed'
                 PROVE  Due(i)'
      BY DEF Noticed
    <3>1. i \in Readers(f)
      BY <2>2 DEF Readers
    <3>2. Len(queue) < MaxQueue /\ (Started \/ f \in watching)
      <4>1. ~(Len(queue) >= MaxQueue \/ (~Started /\ f \notin watching))
        BY <3>1 DEF Completed
      <4>2. Len(queue) \in Nat /\ MaxQueue \in Nat
        BY <1>1, WatchAssumption DEF Typed
      <4> QED
        BY <4>1, <4>2
    <3>3. f \in watching
      <4>1. Started => Watched(i)
        BY <1>4 DEF SInv, AllFollowed
      <4>2. LinksTo[zones[i].path] = f
        BY <1>3, <2>1, <2>2 DEF Followed
      <4> QED
        BY <2>2, <3>2, <4>1, <4>2 DEF Watched
    <3>4. \E j \in 1 .. Len(queue') : queue'[j] = f
      BY <1>1, <3>2, <3>3, EventQueued
    <3> QED
      BY <1>3, <2>1, <2>2, <3>3, <3>4 DEF Due
  <2>3. CASE ~(HasFile(i) /\ FileOf(i) = f)
    <3>1. HasFile(i) => disk'[FileOf(i)] = disk[FileOf(i)]
      BY <2>1, <2>3
    <3>2. Noticed(i) /\ missed \subseteq missed'
      BY <1>4 DEF SInv, Completed
    <3>3. Len(queue') \in Nat
      BY <1>2
    <3> QED
      BY <1>1, <1>2, <1>4, <2>1, <3>1, <3>2, <3>3, OthersNoticed
  <2> QED
    BY <2>2, <2>3
<1> QED
  BY <1>2, <1>4

(* A file that is being written, or gone, need not be noticed.             *)
LEMMA UnfinishedNoticed ==
  ASSUME SInv, pc \in Serving, NEW f \in Files, UNCHANGED <<process, target, queue, missed>>,
         disk'[f].writing \/ ~disk'[f].there,
         \A g \in Files \ {f} : disk'[g] = disk[g]
  PROVE  \A i \in DOMAIN zones : Noticed(i)'
<1>1. /\ zones' = zones /\ target' = target /\ queue' = queue /\ Typed
  BY DEF process, SInv
<1>2. Len(queue') \in Nat /\ Len(queue) <= Len(queue') /\ \A j \in 1 .. Len(queue) : queue'[j] = queue[j]
  BY <1>1 DEF Typed
<1>3. ASSUME NEW i \in DOMAIN zones
      PROVE  Noticed(i)'
  <2>1. FileOf(i)' = FileOf(i) /\ (HasFile(i)' <=> HasFile(i)) /\ (HasFile(i) => FileOf(i) \in Files)
    BY <1>1, <1>3, ZoneTyped DEF FileOf, HasFile
  <2>2. CASE FileOf(i) = f
    BY <2>1, <2>2 DEF Noticed
  <2>3. CASE FileOf(i) # f
    <3>1. Noticed(i) /\ missed \subseteq missed' /\ (HasFile(i) => disk'[FileOf(i)] = disk[FileOf(i)])
      BY <1>3, <2>1, <2>3 DEF SInv
    <3> QED
      BY <1>1, <1>2, <1>3, <2>1, <3>1, OthersNoticed
  <2> QED
    BY <2>2, <2>3
<1> QED
  BY <1>3

(* What is fresh does not read a file whose readers are fresh no longer.   *)
LEMMA FreshAreOthers ==
  ASSUME SInv, NEW f \in Files, fresh' = fresh \ Readers(f), UNCHANGED <<process, target>>,
         \A g \in Files \ {f} : disk'[g] = disk[g]
  PROVE  \A i \in fresh' : /\ i \in fresh /\ FileOf(i)' = FileOf(i)
                           /\ disk'[FileOf(i)].there = disk[FileOf(i)].there
                           /\ disk'[FileOf(i)].lines = disk[FileOf(i)].lines
<1>1. zones' = zones /\ target' = target /\ Typed
  BY DEF process, SInv
<1>2. ASSUME NEW i \in fresh'
      PROVE  i \in fresh /\ FileOf(i) \in Files \ {f}
  <2>1. i \in fresh /\ HasFile(i) /\ i \in DOMAIN zones /\ i \notin Readers(f)
    BY <1>2 DEF SInv, FreshHolds, HasFile
  <2> QED
    BY <1>1, <2>1, ZoneTyped DEF Readers
<1> QED
  BY <1>1, <1>2 DEF FileOf
(* Whatever a writer does, no change of a file goes unnoticed, and no zone *)
(* keeps its place among the fresh wrongly.                                *)
LEMMA WritersKeep ==
  ASSUME SInv, pc \in Serving, Writers
  PROVE  SInv'
<1> USE DEF SInv
<1>1. Typed /\ UNCHANGED process /\ now \in Nat /\ now - 1 \in Nat
  BY WritersBeside DEF Typed
<1>2. /\ disk \in [Files -> Content] /\ target \in [Paths -> Files] /\ now \in Nat \ {0}
      /\ queue \in Seq(Names \cup {Overflow})
  BY DEF Typed
<1>3. ASSUME NEW f \in Files, OpenForWriting(f)
      PROVE  SInv'
  <2>1. disk' = [disk EXCEPT ![f] = [there |-> TRUE, lines |-> <<>>, mtime |-> now, writing |-> TRUE]]
    BY <1>3 DEF OpenForWriting
  <2>2. [there |-> TRUE, lines |-> <<>>, mtime |-> now, writing |-> TRUE] \in Content
    BY <1>1 DEF Content
  <2>3. disk' \in [Files -> Content] /\ disk'[f].writing /\ \A g \in Files \ {f} : disk'[g] = disk[g]
    BY <1>2, <2>1, <2>2
  <2>4. /\ UNCHANGED <<target, now, queue, missed>> /\ fresh' = fresh \ Readers(f)
    BY <1>3 DEF OpenForWriting
  <2>5. \A i \in DOMAIN zones : Noticed(i)'
    BY <1>1, <2>3, <2>4, UnfinishedNoticed
  <2> HIDE DEF SInv
  <2> QED
    BY <1>1, <1>2, <2>3, <2>4, <2>5, FreshAreOthers, BesideKeeps
<1>4. ASSUME NEW f \in Files, NEW line \in Lines, WriteLine(f, line)
      PROVE  SInv'
  <2>1. disk' = [disk EXCEPT ![f].lines = Append(@, line), ![f].mtime = now] /\ disk[f].writing
    BY <1>4 DEF WriteLine
  <2>2. disk' \in [Files -> Content] /\ disk'[f].writing /\ \A g \in Files \ {f} : disk'[g] = disk[g]
    <3>1. disk[f] \in Content
      BY <1>2
    <3>2. Append(disk[f].lines, line) \in Seq(Lines)
      BY <3>1 DEF Content
    <3> DEFINE longer == [disk[f] EXCEPT !.lines = Append(disk[f].lines, line)]
               written == [longer EXCEPT !.mtime = now]
    <3>3. longer \in Content /\ longer.writing
      BY <2>1, <3>1, <3>2 DEF Content
    <3> HIDE DEF longer
    <3>4. written \in Content /\ written.writing
      BY <1>1, <3>3 DEF Content
    <3>5. disk' = [disk EXCEPT ![f] = written]
      BY <1>2, <2>1 DEF longer
    <3> HIDE DEF written
    <3> QED
      BY <1>2, <3>4, <3>5
  <2>4. /\ UNCHANGED <<target, now, queue, missed>> /\ fresh' = fresh \ Readers(f)
    BY <1>4 DEF WriteLine
  <2>5. \A i \in DOMAIN zones : Noticed(i)'
    BY <1>1, <2>2, <2>4, UnfinishedNoticed
  <2> HIDE DEF SInv
  <2> QED
    BY <1>1, <1>2, <2>2, <2>4, <2>5, FreshAreOthers, BesideKeeps
<1>5. ASSUME NEW f \in Files, CloseWritten(f)
      PROVE  SInv'
  <2>1. disk' = [disk EXCEPT ![f].writing = FALSE] /\ Completed(f, "IN_CLOSE_WRITE")
    BY <1>5 DEF CloseWritten
  <2>2. /\ disk' \in [Files -> Content]
        /\ \A g \in Files : /\ disk'[g].there = disk[g].there
                            /\ disk'[g].lines = disk[g].lines
                            /\ g # f => disk'[g] = disk[g]
    BY <1>2, <2>1 DEF Content
  <2>3. UNCHANGED <<target, now, fresh>> /\ "IN_CLOSE_WRITE" \in Mask
    BY <1>5 DEF CloseWritten, Mask
  <2>4. queue' \in Seq(Names \cup {Overflow}) /\ \A i \in DOMAIN zones : Noticed(i)'
    BY <1>1, <2>1, <2>2, <2>3, CompletedNoticed
  <2>5. \A i \in fresh' : /\ i \in fresh /\ FileOf(i)' = FileOf(i)
                          /\ disk'[FileOf(i)].there = disk[FileOf(i)].there
                          /\ disk'[FileOf(i)].lines = disk[FileOf(i)].lines
    <3>1. \A i \in fresh : i \in DOMAIN zones /\ HasFile(i)
      BY DEF FreshHolds, HasFile
    <3>2. zones' = zones
      BY <1>1 DEF process
    <3> QED
      BY <1>1, <2>2, <2>3, <3>1, <3>2, ZoneTyped DEF FileOf
  <2> HIDE DEF SInv
  <2> QED
    BY <1>1, <1>2, <2>2, <2>3, <2>4, <2>5, BesideKeeps
<1>6. ASSUME NEW f \in Files, NEW mtime \in {now - 1, now}, MoveTo(f, mtime)
      PROVE  SInv'
  <2>1. disk' = [disk EXCEPT ![f] = Complete(MovedLines, mtime)] /\ Completed(f, "IN_MOVED_TO")
    BY <1>6 DEF MoveTo
  <2>2. Complete(MovedLines, mtime) \in Content
    BY <1>1, WatchAssumption DEF Complete, Content
  <2>3. disk' \in [Files -> Content] /\ \A g \in Files \ {f} : disk'[g] = disk[g]
    BY <1>2, <2>1, <2>2
  <2>4. UNCHANGED <<target, now>> /\ fresh' = fresh \ Readers(f) /\ "IN_MOVED_TO" \in Mask
    BY <1>6 DEF MoveTo, Mask
  <2>5. queue' \in Seq(Names \cup {Overflow}) /\ \A i \in DOMAIN zones : Noticed(i)'
    BY <1>1, <2>1, <2>3, <2>4, CompletedNoticed
  <2> HIDE DEF SInv
  <2> QED
    BY <1>1, <1>2, <2>3, <2>4, <2>5, FreshAreOthers, BesideKeeps
<1>7. ASSUME NEW f \in Files, Unlink(f)
      PROVE  SInv'
  <2>1. disk' = [disk EXCEPT ![f] = Missing]
    BY <1>7 DEF Unlink
  <2>2. Missing \in Content /\ ~Missing.there
    BY DEF Missing, Content
  <2>3. disk' \in [Files -> Content] /\ ~disk'[f].there /\ \A g \in Files \ {f} : disk'[g] = disk[g]
    BY <1>2, <2>1, <2>2
  <2>4. UNCHANGED <<target, now, queue, missed>> /\ fresh' = fresh \ Readers(f)
    BY <1>7 DEF Unlink
  <2>5. \A i \in DOMAIN zones : Noticed(i)'
    BY <1>1, <2>3, <2>4, UnfinishedNoticed
  <2> HIDE DEF SInv
  <2> QED
    BY <1>1, <1>2, <2>3, <2>4, <2>5, FreshAreOthers, BesideKeeps
<1>8. ASSUME NEW path \in Paths, NEW f \in Files, Retarget(path, f)
      PROVE  SInv'
  <2> DEFINE followers == {i \in DOMAIN zones : zones[i].path = path}
  <2>1. /\ Started /\ target' = [target EXCEPT ![path] = f] /\ UNCHANGED <<disk, now, queue>>
        /\ fresh' = fresh \ followers /\ missed' = missed \cup followers
    BY <1>8 DEF Retarget
  <2>2. target' \in [Paths -> Files] /\ zones' = zones
    BY <1>1, <1>2, <2>1 DEF process
  <2>3. \A i \in DOMAIN zones \ followers : HasFile(i) => FileOf(i)' = FileOf(i)
    <3>1. \A i \in DOMAIN zones \ followers : HasFile(i) => zones[i].path \in Paths \ {path}
      BY <1>1, ZoneTyped
    <3> QED
      BY <1>2, <2>1, <2>2, <3>1 DEF FileOf
  <2>4. ASSUME NEW i \in DOMAIN zones
        PROVE  Noticed(i)'
    <3>1. CASE i \in followers
      BY <2>1, <3>1 DEF Noticed
    <3>2. CASE i \notin followers
      <4>1. (HasFile(i) => FileOf(i)' = FileOf(i)) /\ Noticed(i) /\ missed \subseteq missed'
        BY <2>1, <2>3, <2>4, <3>2
      <4>2. Len(queue') \in Nat /\ Len(queue) <= Len(queue') /\ \A j \in 1 .. Len(queue) : queue'[j] = queue[j]
        BY <1>2, <2>1
      <4> QED
        BY <1>1, <2>1, <2>4, <4>1, <4>2, OthersNoticed
    <3> QED
      BY <3>1, <3>2
  <2>5. \A i \in fresh' : i \in fresh /\ FileOf(i)' = FileOf(i)
    BY <2>1, <2>3 DEF FreshHolds, HasFile
  <2> HIDE DEF SInv
  <2> QED
    BY <1>1, <1>2, <2>1, <2>2, <2>4, <2>5, BesideKeeps
<1>9. ASSUME UNCHANGED <<disk, target, fresh, missed>>,
             now' \in Nat \ {0},
             queue' \in Seq(Names \cup {Overflow}), Len(queue) <= Len(queue'),
             \A j \in 1 .. Len(queue) : queue'[j] = queue[j]
      PROVE  SInv'
  <2>1. \A i : FileOf(i)' = FileOf(i)
    BY <1>1, <1>9 DEF FileOf, process
  <2>2. Len(queue') \in Nat
    BY <1>9
  <2>3. \A i \in DOMAIN zones : Noticed(i)'
    BY <1>1, <1>9, <2>1, <2>2, OthersNoticed
  <2> HIDE DEF SInv
  <2> QED
    BY <1>1, <1>2, <1>9, <2>1, <2>3, BesideKeeps
<1>10. ASSUME NEW name \in Others, WriteOther(name)
       PROVE  SInv'
  <2>1. queue' \in Queued("IN_CLOSE_WRITE", name) /\ name \in Names
    BY <1>10 DEF WriteOther, Names
  <2>2. UNCHANGED <<disk, target, now, fresh, missed>>
    BY <1>10 DEF WriteOther, history
  <2> HIDE DEF SInv
  <2> QED
    BY <1>1, <1>2, <1>9, <2>1, <2>2, QueueGrows
<1>11. CASE Tick
  <2>1. UNCHANGED <<disk, target, queue, fresh, missed>> /\ now' = now + 1
    BY <1>11 DEF Tick, history
  <2>2. Len(queue) <= Len(queue') /\ now' \in Nat \ {0}
    BY <1>2, <2>1
  <2> HIDE DEF SInv
  <2> QED
    BY <1>2, <1>9, <2>1, <2>2
<1> QED
  BY <1>3, <1>4, <1>5, <1>6, <1>7, <1>8, <1>10, <1>11 DEF Writers
-------------------------------------------------------------------------------
(* The start                                                               *)

(* Until the first reading there is nothing to be noticed.                 *)
LEMMA StartKeeps ==
  ASSUME SInv, pc \in Starting,
         pc' \in Starting \cup {"stat", "end"},
         pc' \in {"options", "config", "zones"} => config' \in Configs,
         pc' \in (Starting \cup {"stat"}) \ {"options", "config", "zones"} => at' = 1,
         zones' \in Seq(ZoneInfos), at' \in Nat \ {0},
         UNCHANGED <<notify, watching, links, machine, history>>
  PROVE  SInv'
<1>1. /\ UNCHANGED <<notify, watching, disk, target, now, queue, fresh, missed>>
      /\ Typed /\ ~notify /\ target = LinksTo /\ fresh = {}
  BY DEF machine, history, SInv, Standing, FreshHolds, Started
<1>2. Typed'
  BY <1>1 DEF Typed, Serving
<1>3. Standing'
  BY <1>1 DEF Standing, Serving, Starting, Started
<1>4. AllFollowed' /\ FreshHolds'
  BY <1>1 DEF AllFollowed, FreshHolds, Starting, Serving, Started
<1>5. pc' \in Serving => \A i \in DOMAIN zones' : Noticed(i)'
  <2> SUFFICES ASSUME pc' \in Serving, NEW i \in DOMAIN zones'
               PROVE  Noticed(i)'
    OBVIOUS
  <2>1. pc' = "stat" /\ at' = 1 /\ i >= 1
    BY DEF Serving, Starting
  <2> QED
    BY <2>1 DEF Noticed, Due
<1> QED
  BY <1>2, <1>3, <1>4, <1>5 DEF SInv

(* What becomes of an element of the file                                  *)
LEMMA ZoneOfTyped ==
  ASSUME NEW e \in Entries
  PROVE  ZoneOf(e) \in ZoneInfos
<1>1. e.priority \in Int /\ e.path \in Paths \cup {NoPath} /\ e.server \in Servers \cup {NoServer}
  BY DEF Entries
<1>2. Unsigned(e.priority) \in Nat
  BY <1>1, ConfigAssumption, Z3 DEF Unsigned
<1>3. HasEnabledList(e.lists, 4) \in BOOLEAN /\ HasEnabledList(e.lists, 6) \in BOOLEAN
  BY DEF HasEnabledList
<1> QED
  BY <1>1, <1>2, <1>3 DEF ZoneOf, ZoneInfos

(* The zones remain zones, however they are sorted.                        *)
LEMMA SortedTyped ==
  ASSUME NEW zs \in Seq(ZoneInfos), NEW s \in Sorted(zs)
  PROVE  s \in Seq(ZoneInfos)
<1>1. PICK p \in Bijection(DOMAIN zs, DOMAIN zs) : s = [i \in DOMAIN zs |-> zs[p[i]]]
  BY DEF Sorted
<1>2. p \in [DOMAIN zs -> DOMAIN zs]
  BY DEF Bijection, Injection
<1>3. DOMAIN zs = 1 .. Len(zs) /\ Len(zs) \in Nat /\ \A i \in DOMAIN zs : zs[i] \in ZoneInfos
  OBVIOUS
<1>4. s = [i \in 1 .. Len(zs) |-> zs[p[i]]] /\ \A i \in 1 .. Len(zs) : zs[p[i]] \in ZoneInfos
  BY <1>1, <1>2, <1>3
<1> QED
  BY <1>3, <1>4

(* Each step before the files are read                                     *)
LEMMA BeforeTheFiles ==
  ASSUME SInv, Options \/ LoadConfig \/ InstallHandler \/ CreateDescriptors \/ Background
  PROVE  SInv'
<1>1. Typed /\ (pc \in Starting \ {"options", "config", "zones"} => at = 1)
  BY DEF SInv, Standing
<1>2. CASE Options
  BY <1>1, <1>2, StartKeeps DEF Options, quiet, Starting, Typed
<1>3. CASE LoadConfig
  <2>1. /\ UNCHANGED <<notify, watching, links, machine, history>> /\ LoadConfigJson /\ UNCHANGED config
        /\ pc \in {"config", "zones"} /\ config \in Configs
    BY <1>1, <1>3 DEF LoadConfig, LoadConfigJson, ReadConfig, ReadZone, SortZones, Typed
  <2>2. zones \in Seq(ZoneInfos) /\ at \in Nat \ {0}
    BY <1>1 DEF Typed
  <2>3. CASE ReadConfig
    BY <2>1, <2>2, <2>3, StartKeeps DEF ReadConfig, Starting
  <2>4. CASE ReadZone
    <3>1. config.zones[at] \in Entries
      BY <2>1, <2>4, ConfigAssumption DEF ReadZone
    <3>2. /\ pc' \in {"zones", "end"} /\ at' \in Nat \ {0}
          /\ zones' \in {zones, Append(zones, ZoneOf(config.zones[at]))}
      BY <2>2, <2>4 DEF ReadZone
    <3>3. zones' \in Seq(ZoneInfos)
      BY <2>2, <3>1, <3>2, ZoneOfTyped
    <3> QED
      BY <2>1, <3>2, <3>3, StartKeeps DEF Starting
  <2>5. CASE SortZones
    <3>1. zones' \in Seq(ZoneInfos) /\ pc' = "loaded" /\ at' = 1
      BY <2>2, <2>5, SortedTyped DEF SortZones
    <3> QED
      BY <2>1, <3>1, StartKeeps DEF Starting
  <2> QED
    BY <2>1, <2>3, <2>4, <2>5 DEF LoadConfigJson
<1>4. CASE InstallHandler
  BY <1>1, <1>4, StartKeeps DEF InstallHandler, Starting, Typed
<1>5. CASE CreateDescriptors \/ Background
  <2>1. /\ pc \in Starting \ {"options", "config", "zones", "loaded"}
        /\ pc' \in {"listen", "exitSocket", "background", "stat", "end"}
        /\ UNCHANGED <<config, zones, at, notify, watching, links, machine, history>>
    BY <1>5 DEF CreateDescriptors, Create, CreateSockServer, Background, quiet, Starting
  <2> QED
    BY <1>1, <2>1, StartKeeps DEF Starting, Typed
<1> QED
  BY <1>2, <1>3, <1>4, <1>5
-------------------------------------------------------------------------------
(* Reading the files                                                       *)

(* The place in the loop moves on to the next zone.                        *)
LEMMA FreshOrEarlier ==
  ASSUME Typed, NEW i \in DOMAIN zones
  PROVE  /\ at <= i => i = at \/ at + 1 <= i
         /\ at < i => at + 1 <= i
  BY ZoneTyped DEF Typed

(* A reading takes note of the change it finds, and of the nameserver.     *)
LEMMA RefreshKeeps ==
  ASSUME SInv, Refresh
  PROVE  SInv'
<1>1. Typed /\ Standing /\ AllFollowed /\ FreshHolds /\ RefreshResolvConf
  BY DEF SInv, Refresh
<1>2. /\ UNCHANGED <<config, notify, watching, links, disk, target, now, queue>>
      /\ pc \in {"stat", "load"} /\ at' \in Nat \ {0}
  BY <1>1 DEF RefreshResolvConf, NoFileToRead, Stat, Load, RefreshEnds, machine, Typed
<1>3. \A i \in DOMAIN zones : Noticed(i)
  BY <1>2 DEF SInv, Serving
<1>4. ASSUME pc' \in {"stat", "load"}, zones' \in Seq(ZoneInfos), DOMAIN zones' = DOMAIN zones,
             pc' = "load" => HasFile(at)',
             \A i \in DOMAIN zones : zones'[i].path = zones[i].path
      PROVE  Typed' /\ Standing' /\ AllFollowed'
  <2>1. Typed'
    BY <1>1, <1>2, <1>4 DEF Typed, Serving, Starting
  <2>2. Standing'
    BY <1>1, <1>2, <1>4 DEF Standing, Serving, Starting, Started
  <2>3. AllFollowed'
    BY <1>1, <1>2, <1>4 DEF AllFollowed, Serving, Started, Watched, HasFile
  <2> QED
    BY <2>1, <2>2, <2>3
<1>5. CASE NoFileToRead
  <2>1. /\ pc' = "stat" /\ pc = "stat" /\ at' = at + 1 /\ zones' = zones /\ ~HasFile(at)
        /\ UNCHANGED <<fresh, missed>>
    BY <1>5 DEF NoFileToRead, history
  <2>2. FreshHolds'
    BY <1>1, <1>2, <2>1 DEF FreshHolds, HasFile, FileOf, Serves, Starting
  <2>3. ASSUME NEW i \in DOMAIN zones
        PROVE  Noticed(i)'
    <3>1. CASE i = at
      BY <2>1, <3>1 DEF Noticed, Followed, HasFile
    <3>2. CASE i # at
      BY <1>1, <1>2, <1>3, <2>1, <3>2, FreshOrEarlier DEF Noticed, Followed, HasFile, FileOf, Due
    <3> QED
      BY <3>1, <3>2
  <2>4. zones' \in Seq(ZoneInfos)
    BY <1>1, <2>1 DEF Typed
  <2>5. pc' # "load"
    BY <2>1
  <2> QED
    BY <1>4, <2>1, <2>2, <2>3, <2>4, <2>5 DEF SInv
<1>6. CASE Stat
  <2> DEFINE file == disk[FileOf(at)]
  <2>1. /\ pc = "stat" /\ HasFile(at) /\ at \in DOMAIN zones /\ fresh' = fresh /\ missed' = missed \ {at}
        /\ file \in Content /\ FileOf(at) \in Files /\ zones[at] \in ZoneInfos
    BY <1>1, <1>6, ZoneTyped DEF Stat, HasFile, Typed
  <2>2. CASE file.there /\ file.mtime # zones[at].time
    <3>1. /\ zones' = [zones EXCEPT ![at].ok = FALSE, ![at].addr = NoServer, ![at].time = file.mtime]
          /\ pc' = "load" /\ at' = at
      BY <1>6, <2>2 DEF Stat
    <3> DEFINE off == [zones[at] EXCEPT !.ok = FALSE]
               empty == [off EXCEPT !.addr = NoServer]
               noted == [empty EXCEPT !.time = file.mtime]
    <3>2. off \in ZoneInfos /\ off.path = zones[at].path
      BY <2>1 DEF ZoneInfos
    <3> HIDE DEF off
    <3>3. empty \in ZoneInfos /\ empty.path = zones[at].path
      BY <3>2 DEF ZoneInfos
    <3> HIDE DEF empty
    <3>4. noted \in ZoneInfos /\ noted.path = zones[at].path /\ noted.time = file.mtime
      BY <2>1, <3>3 DEF ZoneInfos, Content
    <3> HIDE DEF noted
    <3>5. zones' = [zones EXCEPT ![at] = noted]
      BY <1>1, <2>1, <3>1 DEF off, empty, noted, Typed
    <3> HIDE DEF file
    <3>6. /\ zones' \in Seq(ZoneInfos) /\ DOMAIN zones' = DOMAIN zones
          /\ zones'[at] = noted /\ \A i \in DOMAIN zones \ {at} : zones'[i] = zones[i]
      BY <1>1, <2>1, <3>4, <3>5 DEF Typed
    <3>7. \A i \in DOMAIN zones : zones'[i].path = zones[i].path
      BY <3>4, <3>6
    <3>8. \A i \in DOMAIN zones : FileOf(i)' = FileOf(i) /\ (HasFile(i)' <=> HasFile(i))
      BY <1>2, <3>6, <3>7 DEF FileOf, HasFile
    <3>9. FreshHolds'
      <4>1. ASSUME NEW i \in fresh
            PROVE  /\ HasFile(i)' /\ disk'[FileOf(i)'].there
                   /\ Serves(i)' \/ (pc' = "load" /\ at' = i)
        <5>1. HasFile(i) /\ disk[FileOf(i)].there /\ i \in DOMAIN zones /\ (i # at => Serves(i))
          BY <1>1, <2>1, <4>1 DEF FreshHolds, HasFile
        <5> QED
          BY <1>2, <3>1, <3>6, <3>8, <5>1 DEF Serves
      <4> QED
        BY <2>1, <3>1, <4>1 DEF FreshHolds, Starting
    <3>10. ASSUME NEW i \in DOMAIN zones
           PROVE  Noticed(i)'
      <4>1. CASE i = at
        BY <1>2, <3>4, <3>6, <3>8, <4>1 DEF Noticed, file
      <4>2. CASE i # at
        <5>1. at \in Nat /\ i \in Nat /\ (at <= i => at < i)
          BY <1>1, <4>2, ZoneTyped DEF Typed
        <5>2. Due(i) => Due(i)'
          BY <1>2, <2>1, <3>1, <3>8, <5>1 DEF Due
        <5>3. Followed(i)' => Followed(i)
          BY <1>2, <3>7, <3>8 DEF Followed
        <5> QED
          BY <1>2, <1>3, <2>1, <3>6, <3>8, <4>2, <5>2, <5>3 DEF Noticed
      <4> QED
        BY <4>1, <4>2
    <3>11. HasFile(at)'
      BY <2>1, <3>1, <3>8
    <3> QED
      BY <1>4, <3>1, <3>6, <3>7, <3>9, <3>10, <3>11 DEF SInv
  <2>3. CASE ~(file.there /\ file.mtime # zones[at].time)
    <3>1. /\ zones' = [zones EXCEPT ![at].ok = file.there]
          /\ at' = at + 1 /\ pc' = "stat"
      BY <1>6, <2>3 DEF Stat
    <3> DEFINE noted == [zones[at] EXCEPT !.ok = file.there]
    <3>2. /\ noted \in ZoneInfos /\ noted.path = zones[at].path /\ noted.time = zones[at].time
          /\ noted.addr = zones[at].addr /\ noted.ok = file.there
      BY <2>1 DEF ZoneInfos, Content
    <3>3. zones' = [zones EXCEPT ![at] = noted]
      BY <1>1, <2>1, <3>1 DEF Typed
    <3> HIDE DEF noted
    <3>4. /\ zones' \in Seq(ZoneInfos) /\ DOMAIN zones' = DOMAIN zones
          /\ zones'[at] = noted /\ \A i \in DOMAIN zones \ {at} : zones'[i] = zones[i]
      BY <1>1, <2>1, <3>2, <3>3 DEF Typed
    <3>5. \A i \in DOMAIN zones : /\ zones'[i].path = zones[i].path /\ zones'[i].time = zones[i].time
                                  /\ zones'[i].addr = zones[i].addr
      BY <3>2, <3>4
    <3>6. \A i \in DOMAIN zones : FileOf(i)' = FileOf(i) /\ (HasFile(i)' <=> HasFile(i))
      BY <1>2, <3>4, <3>5 DEF FileOf, HasFile
    <3>7. FreshHolds'
      <4>1. ASSUME NEW i \in fresh
            PROVE  HasFile(i)' /\ disk'[FileOf(i)'].there /\ Serves(i)'
        <5>1. HasFile(i) /\ disk[FileOf(i)].there /\ i \in DOMAIN zones /\ Serves(i)
          BY <1>1, <2>1, <4>1 DEF FreshHolds, HasFile
        <5>2. zones'[i].ok \/ zones'[i].addr = NoServer
          <6>1. CASE i = at
            BY <3>2, <3>4, <5>1, <6>1
          <6>2. CASE i # at
            BY <3>4, <5>1, <6>2 DEF Serves
          <6> QED
            BY <6>1, <6>2
        <5> QED
          BY <1>2, <3>5, <3>6, <5>1, <5>2 DEF Serves
      <4> QED
        BY <2>1, <3>1, <4>1 DEF FreshHolds, Starting
    <3>8. ASSUME NEW i \in DOMAIN zones
          PROVE  Noticed(i)'
      <4>1. CASE i = at
        BY <1>2, <2>3, <3>5, <3>6, <4>1 DEF Noticed
      <4>2. CASE i # at
        <5>1. Due(i) => Due(i)'
          BY <1>1, <1>2, <2>1, <3>1, <3>6, <4>2, FreshOrEarlier DEF Due
        <5>2. Followed(i)' => Followed(i)
          BY <1>2, <3>5, <3>6 DEF Followed
        <5> QED
          BY <1>2, <1>3, <2>1, <3>5, <3>6, <4>2, <5>1, <5>2 DEF Noticed
      <4> QED
        BY <4>1, <4>2
    <3> QED
      BY <1>4, <3>1, <3>4, <3>5, <3>7, <3>8 DEF SInv
  <2> QED
    BY <2>2, <2>3
<1>7. CASE Load
  <2> DEFINE file == disk[FileOf(at)]
             server == FirstServer(file.lines)
  <2>1. /\ pc = "load" /\ pc' = "stat" /\ at' = at + 1 /\ missed' = missed
        /\ zones' = [zones EXCEPT ![at].addr = server, ![at].ok = (server # NoServer)]
        /\ fresh' = IF file.there THEN fresh \cup {at} ELSE fresh
    BY <1>7 DEF Load
  <2>2. HasFile(at) /\ at \in DOMAIN zones /\ zones[at] \in ZoneInfos /\ FileOf(at) \in Files
    BY <1>1, <2>1, ZoneTyped DEF Standing, HasFile
  <2>3. server \in Servers \cup {NoServer} /\ file \in Content
    <3>1. disk[FileOf(at)] \in Content
      BY <1>1, <2>2 DEF Typed
    <3> QED
      BY <3>1, FirstServerTyped
  <2> HIDE DEF server
  <2> DEFINE moved == [zones[at] EXCEPT !.addr = server]
             read  == [moved EXCEPT !.ok = (server # NoServer)]
  <2>4. moved \in ZoneInfos /\ moved.path = zones[at].path /\ moved.time = zones[at].time /\ moved.addr = server
    BY <2>2, <2>3 DEF ZoneInfos
  <2> HIDE DEF moved
  <2>5. /\ read \in ZoneInfos /\ read.path = zones[at].path /\ read.time = zones[at].time
        /\ read.addr = server /\ read.ok = (server # NoServer)
    BY <2>4 DEF ZoneInfos
  <2> HIDE DEF read
  <2>6. zones' = [zones EXCEPT ![at] = read]
    BY <1>1, <2>1, <2>2 DEF moved, read, Typed
  <2>7. /\ zones' \in Seq(ZoneInfos) /\ DOMAIN zones' = DOMAIN zones
        /\ zones'[at] = read /\ \A i \in DOMAIN zones \ {at} : zones'[i] = zones[i]
    BY <1>1, <2>2, <2>5, <2>6 DEF Typed
  <2>8. \A i \in DOMAIN zones : zones'[i].path = zones[i].path /\ zones'[i].time = zones[i].time
    BY <2>5, <2>7
  <2>9. \A i \in DOMAIN zones : FileOf(i)' = FileOf(i) /\ (HasFile(i)' <=> HasFile(i))
    BY <1>2, <2>7, <2>8 DEF FileOf, HasFile
  <2>10. FreshHolds'
    <3>1. \A k \in DOMAIN zones : k = at => Serves(k)'
      <4>1. server = FirstServer(disk[FileOf(at)].lines)
        BY DEF server
      <4> QED
        BY <1>2, <2>2, <2>5, <2>7, <2>9, <4>1 DEF Serves
    <3>2. \A k \in DOMAIN zones : k = at => HasFile(k)' /\ (disk[FileOf(k)].there => disk'[FileOf(k)'].there)
      BY <1>2, <2>2, <2>9
    <3>3. ASSUME NEW k \in fresh, k # at
          PROVE  HasFile(k)' /\ disk'[FileOf(k)'].there /\ Serves(k)'
      <4>1. HasFile(k) /\ disk[FileOf(k)].there /\ k \in DOMAIN zones /\ Serves(k)
        BY <1>1, <2>1, <3>3 DEF FreshHolds, HasFile
      <4> QED
        BY <1>2, <2>7, <2>9, <3>3, <4>1 DEF Serves
    <3>4. ASSUME NEW k \in fresh'
          PROVE  HasFile(k)' /\ disk'[FileOf(k)'].there /\ Serves(k)'
      <4>1. CASE k # at
        BY <2>1, <3>3, <3>4, <4>1
      <4>2. CASE k = at
        <5>1. disk[FileOf(k)].there
          BY <1>1, <2>1, <3>4, <4>2 DEF FreshHolds
        <5> QED
          BY <2>2, <3>1, <3>2, <4>2, <5>1
      <4> QED
        BY <4>1, <4>2
    <3> QED
      BY <2>1, <3>4 DEF FreshHolds, Starting
  <2>11. ASSUME NEW i \in DOMAIN zones
         PROVE  Noticed(i)'
    <3>1. Followed(i)' => Followed(i)
      BY <1>2, <2>8, <2>9 DEF Followed
    <3>2. Due(i) => Due(i)'
      BY <1>1, <1>2, <2>1, <2>9, FreshOrEarlier DEF Due
    <3> QED
      BY <1>2, <1>3, <2>1, <2>8, <2>9, <3>1, <3>2 DEF Noticed
  <2> QED
    BY <1>4, <2>1, <2>7, <2>8, <2>10, <2>11 DEF SInv
<1>8. CASE RefreshEnds
  <2>1. /\ pc = "stat" /\ at > Len(zones) /\ pc' = (IF notify THEN "wait" ELSE "notify") /\ at' = 1
        /\ UNCHANGED <<zones, fresh, missed>>
    BY <1>8 DEF RefreshEnds, history
  <2>2. Typed'
    BY <1>1, <1>2, <2>1 DEF Typed, Serving, Starting
  <2>3. Standing' /\ AllFollowed'
    BY <1>1, <1>2, <2>1 DEF Standing, AllFollowed, Serving, Starting, Started, Watched, HasFile, Typed
  <2>4. FreshHolds'
    BY <1>1, <1>2, <2>1 DEF FreshHolds, HasFile, FileOf, Serves, Starting
  <2>5. ASSUME NEW i \in DOMAIN zones
        PROVE  Noticed(i)'
    <3>1. ~(at <= i)
      BY <1>1, <2>1, ZoneTyped DEF Typed
    <3>2. Due(i) => Due(i)'
      BY <1>2, <2>1, <3>1 DEF Due, FileOf
    <3> QED
      BY <1>2, <1>3, <2>1, <3>2 DEF Noticed, Followed, HasFile, FileOf
  <2> QED
    BY <2>1, <2>2, <2>3, <2>4, <2>5 DEF SInv
<1> QED
  BY <1>1, <1>5, <1>6, <1>7, <1>8 DEF RefreshResolvConf
-------------------------------------------------------------------------------
(* Watching and serving                                                    *)

(* What a step that leaves zones and machine alone has to show             *)
LEMMA SteadyKeeps ==
  ASSUME SInv, UNCHANGED <<config, zones, disk, target, now, fresh, missed>>,
         Typed', Standing', AllFollowed',
         pc \in Serving, pc # "load", pc' \notin Starting,
         pc' \in Serving => \A i \in DOMAIN zones : Followed(i) /\ Due(i) => Due(i)'
  PROVE  SInv'
<1>1. \A i : Serves(i)' = Serves(i) /\ HasFile(i)' = HasFile(i) /\ FileOf(i)' = FileOf(i) /\ Followed(i)' = Followed(i)
  BY DEF Serves, HasFile, FileOf, Followed
<1>2. FreshHolds'
  BY <1>1 DEF SInv, FreshHolds
<1>3. pc' \in Serving => \A i \in DOMAIN zones : Noticed(i)'
  BY <1>1 DEF SInv, Noticed
<1> QED
  BY <1>2, <1>3 DEF SInv

(* No names, no events                                                     *)
LEMMA NothingThere ==
  /\ <<>> \in Seq(Names \cup {Overflow}) /\ <<>> \in Seq(ZoneInfos)
  /\ {} \subseteq Files /\ FALSE \in BOOLEAN
  OBVIOUS

(* Once the thread is done with the files, only what it holds counts.      *)
LEMMA EndKeeps ==
  ASSUME SInv, pc' \in {"end", "exited"},
         UNCHANGED <<config, zones, at, disk, target, now, fresh, missed>>,
         notify' \in BOOLEAN, watching' \subseteq Files, queue' \in Seq(Names \cup {Overflow}),
         pc \in {"notify", "watch", "wait", "end"}
  PROVE  SInv'
<1>1. Typed' /\ Standing' /\ AllFollowed'
  BY DEF SInv, Typed, Standing, AllFollowed, Serving, Starting
<1>2. \A i : Serves(i)' = Serves(i) /\ HasFile(i)' = HasFile(i) /\ FileOf(i)' = FileOf(i)
  BY DEF Serves, HasFile, FileOf
<1>3. FreshHolds'
  BY <1>2 DEF SInv, FreshHolds, Starting
<1> QED
  BY <1>1, <1>3 DEF SInv, Serving

(* FileINotify::Init: when it is through, the file of every zone is        *)
(* watched, and it was the right one: no link has been led away since.     *)
LEMMA WatchKeeps ==
  ASSUME SInv, Watch
  PROVE  SInv'
<1>1. Typed /\ Standing /\ AllFollowed /\ InitNotify
  BY DEF SInv, Watch
<1>2. /\ UNCHANGED <<config, zones, disk, target, now, fresh, missed>>
      /\ pc \in {"notify", "watch"} /\ zones \in Seq(ZoneInfos) /\ at \in Nat \ {0}
    BY <1>1 DEF InitNotify, OpenNotify, NoFileToWatch, WatchFile, WatchFails, AllWatched, StopWatching, machine,
       history, Typed
<1>3. CASE OpenNotify
  <2>1. UNCHANGED <<watching, queue>> /\ notify' \in BOOLEAN /\ at' = 1 /\ pc = "notify" /\ ~notify
    BY <1>1, <1>3 DEF OpenNotify, machine, Standing
  <2>2. CASE pc' = "end"
    <3>1. Typed' /\ Standing' /\ AllFollowed'
      BY <1>1, <1>2, <2>1, <2>2 DEF Typed, Standing, AllFollowed, Serving, Starting
    <3> QED
      BY <1>2, <2>1, <2>2, <3>1, SteadyKeeps DEF Serving, Starting
  <2>3. CASE pc' = "watch" /\ notify'
    <3>1. Typed'
      BY <1>1, <1>2, <2>1, <2>3 DEF Typed, Serving, Starting
    <3>2. Standing' /\ AllFollowed'
      <4>1. target = LinksTo
        BY <1>1, <2>1 DEF Standing, Started, Serving
      <4>2. \A i \in DOMAIN zones : ~(i < 1)
        BY <1>1, ZoneTyped
      <4> QED
        BY <1>2, <2>1, <2>3, <4>1, <4>2 DEF Standing, AllFollowed, Starting, Started
    <3>3. \A i \in DOMAIN zones : Due(i) => Due(i)'
      BY <1>2, <2>1 DEF Due, FileOf
    <3> QED
      BY <1>2, <2>1, <2>3, <3>1, <3>2, <3>3, SteadyKeeps DEF Serving, Starting
  <2> QED
    BY <1>3, <2>2, <2>3 DEF OpenNotify
<1>4. ASSUME pc = "watch", pc' \in {"watch", "arm"}, UNCHANGED <<notify, queue>>,
             at' \in Nat \ {0}, pc' = "arm" => at' = 1,
             watching \subseteq watching', watching' \subseteq Files,
             \A i \in DOMAIN zones : pc' = "arm" \/ i < at' => i < at \/ Watched(i)'
      PROVE  SInv'
  <2>1. notify /\ target = LinksTo
    BY <1>1, <1>4 DEF Standing, Started, Serving
  <2>2. Typed'
    BY <1>1, <1>2, <1>4 DEF Typed, Serving, Starting
  <2>3. Standing'
    BY <1>2, <1>4, <2>1 DEF Standing, Starting
  <2>4. AllFollowed'
    <3>1. \A i \in DOMAIN zones : i < at => Watched(i)
      BY <1>1, <1>4 DEF AllFollowed, Serving
    <3>2. \A i \in DOMAIN zones : i < at => Watched(i)'
      BY <1>2, <1>4, <3>1 DEF Watched, HasFile
    <3> QED
      BY <1>2, <1>4, <3>2 DEF AllFollowed, Started
  <2>5. \A i \in DOMAIN zones : Due(i) => Due(i)'
    BY <1>2, <1>4 DEF Due, FileOf
  <2> QED
    BY <1>2, <1>4, <2>2, <2>3, <2>4, <2>5, SteadyKeeps DEF Serving, Starting
<1>5. CASE NoFileToWatch
  <2>1. /\ pc = "watch" /\ pc' = "watch" /\ at' = at + 1 /\ ~HasFile(at)
        /\ UNCHANGED <<notify, watching, queue>>
    BY <1>5 DEF NoFileToWatch, machine
  <2>2. ASSUME NEW i \in DOMAIN zones, i < at'
        PROVE  i < at \/ Watched(i)'
    <3>1. i < at \/ i = at
      BY <1>1, <1>2, <2>1, <2>2, ZoneTyped
    <3>2. i = at => ~HasFile(i)'
      BY <1>2, <2>1 DEF HasFile
    <3> QED
      BY <3>1, <3>2 DEF Watched
  <2> QED
    BY <1>1, <1>2, <1>4, <2>1, <2>2 DEF Typed
<1>6. CASE WatchFile
  <2>1. /\ pc = "watch" /\ pc' = "watch" /\ at' = at + 1 /\ HasFile(at)
        /\ watching' = watching \cup {target[zones[at].path]}
        /\ UNCHANGED <<notify, queue>>
    BY <1>6 DEF WatchFile, machine
  <2>2. FileOf(at) \in Files /\ target = LinksTo
    BY <1>1, <2>1, ZoneTyped DEF HasFile, Standing, Started, Serving
  <2>3. ASSUME NEW i \in DOMAIN zones, i < at'
        PROVE  i < at \/ Watched(i)'
    <3>1. i < at \/ i = at
      BY <1>1, <1>2, <2>1, <2>3, ZoneTyped
    <3>2. i = at => LinksTo[zones'[i].path] \in watching'
      BY <1>2, <2>1, <2>2
    <3> QED
      BY <3>1, <3>2 DEF Watched
  <2>4. watching' \subseteq Files
    BY <1>1, <2>1, <2>2 DEF Typed, FileOf
  <2> QED
    BY <1>2, <1>4, <2>1, <2>3, <2>4
<1>7. CASE WatchFails
  <2>1. pc' = "end" /\ StopWatching /\ at' = at
    BY <1>7 DEF WatchFails
  <2>2. notify' = FALSE /\ watching' = {} /\ queue' = <<>>
    BY <2>1 DEF StopWatching
  <2> QED
    BY <1>2, <2>1, <2>2, NothingThere, EndKeeps
<1>8. CASE AllWatched
  <2>1. /\ pc = "watch" /\ pc' = "arm" /\ at > Len(zones) /\ at' = 1
        /\ UNCHANGED <<notify, watching, queue>>
    BY <1>8 DEF AllWatched, machine
  <2>2. \A i \in DOMAIN zones : i < at
    BY <1>1, <1>2, <2>1, ZoneTyped
  <2> QED
    BY <1>1, <1>4, <2>1, <2>2 DEF Typed
<1> QED
  BY <1>1, <1>3, <1>5, <1>6, <1>7, <1>8 DEF InitNotify

(* An event that names the file of a zone is either still there to be read *)
(* or has led to another reading of all files.                             *)
LEMMA ServeKeeps ==
  ASSUME SInv, INotify
  PROVE  SInv'
<1>1. Typed /\ Standing /\ AllFollowed
  BY DEF SInv
<1>2. PICK k \in 1 .. Len(queue) : Take(k)
  BY DEF INotify
<1>3. /\ pc = "wait" /\ pc' \in {"stat", "wait"} /\ at = 1 /\ notify
      /\ UNCHANGED <<config, zones, at, notify, watching, disk, target, now, fresh, missed>>
      /\ queue \in Seq(Names \cup {Overflow})
  BY <1>1, <1>2 DEF INotify, Take, Standing, Typed, history
<1>4. /\ queue' \in Seq(Names \cup {Overflow})
      /\ Len(queue') = Len(queue) - k
      /\ \A j \in 1 .. Len(queue) - k : queue'[j] = queue[j + k]
  BY <1>2, <1>3 DEF Take
<1>5. Typed' /\ Standing' /\ AllFollowed'
  BY <1>1, <1>3, <1>4 DEF Typed, Standing, AllFollowed, Serving, Starting, Started, Watched, HasFile
<1>6. ASSUME NEW i \in DOMAIN zones, Followed(i), Due(i)
      PROVE  Due(i)'
  <2>1. FileOf(i) \in watching \ Ignored /\ FileOf(i)' = FileOf(i)
    BY <1>3, <1>6 DEF Due, Followed, FileOf
  <2>2. PICK j \in 1 .. Len(queue) : queue[j] = FileOf(i)
    BY <1>3, <1>6 DEF Due
  <2>3. CASE j <= k
    <3>1. Hit(queue[j]) /\ j \in 1 .. k
      BY <1>2, <1>3, <2>1, <2>2, <2>3 DEF Hit
    <3>2. pc' = "stat"
      BY <1>2, <3>1 DEF Take
    <3> QED
      BY <1>1, <1>3, <3>2, ZoneTyped DEF Due
  <2>4. CASE j > k
    <3>1. j - k \in 1 .. Len(queue') /\ queue'[j - k] = queue[j]
      BY <1>2, <1>3, <1>4, <2>4
    <3> QED
      BY <1>3, <2>1, <2>2, <3>1 DEF Due
  <2> QED
    BY <1>2, <1>3, <2>3, <2>4
<1> QED
  BY <1>3, <1>5, <1>6, SteadyKeeps DEF Serving, Starting

(* The inductive step                                                      *)
LEMMA FilesStep ==
  ASSUME SInv, [Next]_vars
  PROVE  SInv'
<1>1. Typed /\ Standing /\ AllFollowed
  BY DEF SInv
<1>2. CASE Options \/ LoadConfig \/ InstallHandler \/ CreateDescriptors \/ Background
  BY <1>2, BeforeTheFiles
<1>3. CASE Refresh
  BY <1>3, RefreshKeeps
<1>4. CASE Watch
  BY <1>4, WatchKeeps
<1>5. CASE Arm
  <2>1. /\ pc = "arm" /\ pc' = "wait"
        /\ UNCHANGED <<config, zones, at, notify, watching, disk, target, now, queue, fresh, missed>>
    BY <1>5 DEF Arm, quiet, machine, history
  <2>2. Typed' /\ Standing' /\ AllFollowed'
    BY <1>1, <2>1 DEF Typed, Standing, AllFollowed, Serving, Starting, Started, Watched, HasFile
  <2>3. \A i \in DOMAIN zones : Due(i) => Due(i)'
    BY <2>1 DEF Due, FileOf
  <2> QED
    BY <2>1, <2>2, <2>3, SteadyKeeps DEF Serving, Starting
<1>6. CASE ServeNotify
  <2>1. CASE INotify
    BY <2>1, ServeKeeps
  <2>2. CASE INotifyFails
    BY <1>1, <2>2, EndKeeps DEF INotifyFails, machine, history, Typed
  <2> QED
    BY <1>6, <2>1, <2>2 DEF ServeNotify
<1>7. CASE ServeExit
  BY <1>1, <1>7, EndKeeps DEF ServeExit, quiet, machine, history, Typed
<1>8. CASE End
  <2>1. StopWatching /\ pc = "end" /\ pc' = "exited"
        /\ UNCHANGED <<config, zones, at, disk, target, now, fresh, missed>>
    BY <1>8 DEF End, history
  <2>2. notify' = FALSE /\ watching' = {} /\ queue' = <<>>
    BY <2>1 DEF StopWatching
  <2> QED
    BY <2>1, <2>2, NothingThere, EndKeeps
<1>9. CASE Environment /\ ~SigEventInt
  BY <1>9, WritersKeep DEF Environment, Serving
<1>10. CASE SigEventInt \/ UNCHANGED vars
  <2>1. UNCHANGED <<pc, config, zones, at, notify, watching, disk, target, now, queue, fresh, missed>>
    BY <1>10 DEF SigEventInt, quiet, machine, history, vars, watchVars, process
  <2>2. Typed' /\ Standing' /\ AllFollowed'
    BY <1>1, <2>1 DEF Typed, Standing, AllFollowed, Started, Watched, HasFile
  <2>3. \A i : /\ Serves(i)' = Serves(i) /\ HasFile(i)' = HasFile(i) /\ FileOf(i)' = FileOf(i)
               /\ Noticed(i)' = Noticed(i)
    BY <2>1 DEF Serves, HasFile, FileOf, Noticed, Followed, Due
  <2> QED
    BY <2>1, <2>2, <2>3 DEF SInv, FreshHolds
<1> QED
  BY <1>2, <1>3, <1>4, <1>5, <1>6, <1>7, <1>8, <1>9, <1>10 DEF Next, Run, Environment

(* At the start nothing has been read.                                     *)
LEMMA FilesInit ==
  ASSUME Init
  PROVE  SInv
<1>1. disk \in [Files -> Content]
  <2>1. Missing \in Content
    BY DEF Missing, Content
  <2>2. Complete(FirstLines, 1) \in Content
    BY WatchAssumption DEF Complete, Content
  <2> QED
    BY <2>1, <2>2 DEF Init, WatchInit
<1>2. Typed
  <2>1. /\ pc = "options" /\ config \in Configs /\ zones = <<>> /\ at = 1 /\ notify = FALSE /\ watching = {}
        /\ target = LinksTo /\ now = 1 /\ queue = <<>>
    BY DEF Init, LoadInit, WatchInit
  <2>2. LinksTo \in [Paths -> Files]
    BY WatchAssumption
  <2>3. zones \in Seq(ZoneInfos) /\ queue \in Seq(Names \cup {Overflow}) /\ notify \in BOOLEAN
    BY <2>1, NothingThere
  <2>4. watching \subseteq Files /\ at \in Nat \ {0} /\ now \in Nat \ {0}
    BY <2>1
  <2>5. pc \in Starting
    BY <2>1 DEF Starting
  <2> QED
    BY <1>1, <2>1, <2>2, <2>3, <2>4, <2>5 DEF Typed
<1>3. Standing /\ AllFollowed /\ FreshHolds /\ pc \notin Serving
  BY DEF Init, LoadInit, WatchInit, Standing, AllFollowed, FreshHolds, Starting, Serving
<1> QED
  BY <1>2, <1>3 DEF SInv

(* README, "resolvFile" is watched: a zone whose file has not changed      *)
(* since it was read keeps the nameserver read from it.                    *)
THEOREM FreshServed == Spec => []FreshServes
<1>1. Init => SInv
  BY FilesInit
<1>2. SInv /\ [Next]_vars => SInv'
  BY FilesStep
<1>3. SInv => FreshServes
  BY DEF SInv, FreshHolds, FreshServes, Serves, Upstream
<1> QED
  BY <1>1, <1>2, <1>3, PTL DEF Spec

(* When all is quiet, a zone serves what its file says, but for a change   *)
(* that it has missed or that bears the second remembered.                 *)
THEOREM OnlyTheSecondMisleads == Spec => []StaleOnlyBySecond
<1>1. Init => SInv
  BY FilesInit
<1>2. SInv /\ [Next]_vars => SInv'
  BY FilesStep
<1>3. SInv => StaleOnlyBySecond
  <2> SUFFICES ASSUME SInv, Quiet, NEW i \in DOMAIN zones,
                      Followed(i), i \notin missed, disk[FileOf(i)].there
               PROVE  \/ Upstream(i) = FirstServer(disk[FileOf(i)].lines)
                      \/ i \notin fresh /\ zones[i].time = disk[FileOf(i)].mtime
    BY DEF StaleOnlyBySecond
  <2>1. CASE i \in fresh
    BY <2>1 DEF SInv, FreshHolds, Serves, Upstream, Quiet
  <2>2. CASE i \notin fresh
    <3>1. HasFile(i) /\ FileOf(i) \in Files
      BY ZoneTyped DEF Followed, SInv
    <3>2. ~Due(i)
      BY DEF Due, Quiet
    <3> QED
      BY <2>2, <3>1, <3>2 DEF SInv, Noticed, Serving, Quiet
  <2> QED
    BY <2>1, <2>2
<1> QED
  BY <1>1, <1>2, <1>3, PTL DEF Spec
-------------------------------------------------------------------------------
(* The configuration                                                       *)

EnabledBefore(n) == {k \in Enabled : k < n}

(* The zones stored are those of the enabled elements before the nth, one  *)
(* for one.                                                                *)
Stored(n) ==
  \E from \in Bijection(DOMAIN zones, EnabledBefore(n)) :
    \A i \in DOMAIN zones : zones[i] = ZoneOf(config.zones[from[i]])

(* No element before the nth makes the loading fail.                       *)
Passed(n) ==
  \A k \in DOMAIN config.zones :
    k < n => config.zones[k].typed /\ (config.zones[k].enable => Loads(config.zones[k]))

Ascending == \A i, j \in DOMAIN zones : i < j => zones[i].priority <= zones[j].priority

Loading == {"options", "config", "zones", "loaded"}

LInv ==
  /\ pc \in Loading => config \in Configs
  /\ pc \in {"options", "config"} => zones = <<>> /\ at = 1
  /\ pc = "zones" => at <= Len(config.zones) + 1 /\ Stored(at) /\ Passed(at)
  /\ pc = "loaded" => Stored(Len(config.zones) + 1) /\ Passed(Len(config.zones) + 1) /\ Ascending

(* A disabled element adds nothing to what is to be loaded, an enabled one *)
(* itself.                                                                 *)
LEMMA OneElement ==
  ASSUME config \in Configs, at \in DOMAIN config.zones
  PROVE  /\ at \in Enabled => EnabledBefore(at + 1) = EnabledBefore(at) \cup {at}
         /\ at \notin Enabled => EnabledBefore(at + 1) = EnabledBefore(at)
         /\ at \notin EnabledBefore(at)
<1>1. config.zones \in Seq(Entries)
  BY ConfigAssumption
<1>2. at \in Nat /\ \A k \in Enabled : k \in Nat
  BY <1>1 DEF Enabled
<1>3. \A k \in Enabled : k < at + 1 <=> k < at \/ k = at
  BY <1>2
<1> QED
  BY <1>2, <1>3 DEF EnabledBefore

(* Storing one more zone keeps the correspondence.                         *)
LEMMA OneStored ==
  ASSUME zones \in Seq(ZoneInfos), config \in Configs, at \in DOMAIN config.zones, at \in Enabled,
         Stored(at), zones' = Append(zones, ZoneOf(config.zones[at])), UNCHANGED config
  PROVE  \E from \in Bijection(DOMAIN zones', EnabledBefore(at + 1)) :
           \A i \in DOMAIN zones' : zones'[i] = ZoneOf(config.zones[from[i]])
<1>1. PICK from \in Bijection(DOMAIN zones, EnabledBefore(at)) :
        \A i \in DOMAIN zones : zones[i] = ZoneOf(config.zones[from[i]])
  BY DEF Stored
<1> DEFINE n == Len(zones) + 1
           more == [i \in 1 .. n |-> IF i = n THEN at ELSE from[i]]
<1>2. /\ Len(zones) \in Nat /\ DOMAIN zones = 1 .. Len(zones) /\ DOMAIN zones' = 1 .. n
      /\ zones'[n] = ZoneOf(config.zones[at])
      /\ \A i \in 1 .. Len(zones) : zones'[i] = zones[i]
  OBVIOUS
<1>3. /\ EnabledBefore(at + 1) = EnabledBefore(at) \cup {at}
      /\ at \notin EnabledBefore(at)
  BY OneElement
<1>4. /\ from \in [1 .. Len(zones) -> EnabledBefore(at)]
      /\ \A i, j \in 1 .. Len(zones) : from[i] = from[j] => i = j
      /\ \A k \in EnabledBefore(at) : \E i \in 1 .. Len(zones) : from[i] = k
  BY <1>1, <1>2, Fun_BijectionProperties
<1>5. \A i \in 1 .. n : i = n \/ i \in 1 .. Len(zones)
  BY <1>2
<1>6. more \in [1 .. n -> EnabledBefore(at + 1)]
  BY <1>3, <1>4, <1>5
<1>7. \A i, j \in 1 .. n : more[i] = more[j] => i = j
  BY <1>3, <1>4, <1>5
<1>8. \A k \in EnabledBefore(at + 1) : \E i \in 1 .. n : more[i] = k
  <2>1. n \in 1 .. n /\ more[n] = at
    BY <1>2
  <2>2. \A i \in 1 .. Len(zones) : i \in 1 .. n /\ more[i] = from[i]
    BY <1>2
  <2> QED
    BY <1>3, <1>4, <2>1, <2>2
<1>9. more \in Bijection(DOMAIN zones', EnabledBefore(at + 1))
  BY <1>2, <1>6, <1>7, <1>8 DEF Bijection, Injection, Surjection, IsInjective
<1>10. \A i \in DOMAIN zones' : zones'[i] = ZoneOf(config.zones[more[i]])
  BY <1>1, <1>2, <1>5
<1> HIDE DEF more
<1> QED
  BY <1>9, <1>10

(* So does sorting.                                                        *)
LEMMA SortedStored ==
  ASSUME NEW n, zones \in Seq(ZoneInfos), Stored(n), zones' \in Sorted(zones), UNCHANGED config
  PROVE  Stored(n)' /\ Ascending'
<1>1. PICK p \in Bijection(DOMAIN zones, DOMAIN zones) : zones' = [i \in DOMAIN zones |-> zones[p[i]]]
  BY DEF Sorted
<1>2. PICK from \in Bijection(DOMAIN zones, EnabledBefore(n)) :
        \A i \in DOMAIN zones : zones[i] = ZoneOf(config.zones[from[i]])
  BY DEF Stored
<1> DEFINE sorted == [i \in DOMAIN zones |-> from[p[i]]]
<1>3. sorted \in Bijection(DOMAIN zones, EnabledBefore(n))
  BY <1>1, <1>2, Fun_BijTransitive
<1>4. DOMAIN zones' = DOMAIN zones /\ EnabledBefore(n)' = EnabledBefore(n)
  BY <1>1 DEF EnabledBefore, Enabled
<1>5. p \in [DOMAIN zones -> DOMAIN zones]
  BY <1>1, Fun_BijectionProperties
<1>6. \A i \in DOMAIN zones : zones'[i] = ZoneOf(config.zones[sorted[i]])
  BY <1>1, <1>2, <1>5
<1> HIDE DEF sorted
<1>7. Stored(n)'
  BY <1>3, <1>4, <1>6 DEF Stored
<1>8. Ascending'
  BY DEF Sorted, Ascending
<1> QED
  BY <1>7, <1>8

(* The loading, step by step                                               *)
LEMMA LoadingStep ==
  ASSUME Typed, LInv, LoadConfig \/ Options
  PROVE  LInv'
<1>1. zones \in Seq(ZoneInfos) /\ at \in Nat \ {0} /\ pc \in Loading /\ config \in Configs /\ UNCHANGED config
  BY DEF Typed, LInv, LoadConfig, LoadConfigJson, ReadConfig, ReadZone, SortZones, Options, Loading, quiet
<1>2. config.zones \in Seq(Entries)
  BY <1>1, ConfigAssumption
<1>3. Enabled' = Enabled /\ \A n : EnabledBefore(n)' = EnabledBefore(n) /\ Passed(n)' = Passed(n)
  BY <1>1 DEF Enabled, EnabledBefore, Passed
<1>4. CASE Options
  BY <1>1, <1>4 DEF Options, quiet, LInv, Loading
<1>5. CASE ReadConfig
  <2>1. /\ zones = <<>> /\ at = 1 /\ UNCHANGED <<zones, at>> /\ pc' \in {"zones", "end"}
    BY <1>5 DEF ReadConfig, LInv
  <2>2. EnabledBefore(1) = {}
    BY <1>2 DEF EnabledBefore, Enabled
  <2>3. <<>> \in Bijection(DOMAIN <<>>, {})
    BY DEF Bijection, Injection, Surjection, IsInjective
  <2>4. (Stored(at))'
    BY <1>3, <2>1, <2>2, <2>3 DEF Stored
  <2>5. Passed(1) /\ 1 <= Len(config.zones) + 1
    BY <1>2 DEF Passed
  <2>6. (Passed(at))' /\ (at <= Len(config.zones) + 1)'
    BY <1>1, <2>1, <2>5 DEF Passed
  <2> QED
    BY <1>1, <2>1, <2>4, <2>6 DEF LInv, Loading
<1>6. CASE ReadZone
  <2> DEFINE e == config.zones[at]
  <2>1. /\ pc = "zones" /\ at \in DOMAIN config.zones /\ Stored(at) /\ Passed(at)
    BY <1>6 DEF ReadZone, LInv
  <2>2. CASE pc' = "end"
    BY <1>1, <2>2 DEF LInv, Loading
  <2> PICK next \in Nat : next = at + 1
    BY <1>1
  <2>3. ASSUME pc' = "zones", at' = next, e.typed, e.enable => Loads(e), Stored(next)'
        PROVE  LInv'
    <3>1. Passed(next)
      <4>1. \A k \in DOMAIN config.zones : k < next <=> k < at \/ k = at
        BY <1>1, <1>2
      <4> QED
        BY <2>1, <2>3, <4>1 DEF Passed
    <3>2. next <= Len(config.zones) + 1
      BY <1>2, <2>1
    <3>3. (Stored(at))' /\ (Passed(at))' /\ (at <= Len(config.zones) + 1)'
      BY <1>1, <1>3, <2>3, <3>1, <3>2 DEF Stored, Passed, EnabledBefore
    <3> QED
      BY <1>1, <2>3, <3>3 DEF LInv
  <2>4. CASE e.typed /\ ~e.enable /\ at' = at + 1 /\ UNCHANGED <<pc, zones>>
    <3>1. at \notin Enabled
      BY <2>4 DEF Enabled
    <3>2. EnabledBefore(next) = EnabledBefore(at)
      BY <1>1, <2>1, <3>1, OneElement
    <3>3. Stored(next)'
      BY <1>1, <1>3, <2>1, <2>4, <3>2 DEF Stored
    <3> QED
      BY <2>1, <2>3, <2>4, <3>3
  <2>5. CASE e.typed /\ e.enable /\ Loads(e) /\ zones' = Append(zones, ZoneOf(e)) /\ at' = at + 1 /\ pc' = pc
    <3>1. at \in Enabled
      BY <2>1, <2>5 DEF Enabled
    <3>2. \E from \in Bijection(DOMAIN zones', EnabledBefore(next)) :
             \A i \in DOMAIN zones' : zones'[i] = ZoneOf(config.zones[from[i]])
      BY <1>1, <2>1, <2>5, <3>1, OneStored
    <3>3. Stored(next)'
      BY <1>1, <1>3, <3>2 DEF Stored
    <3> QED
      BY <2>1, <2>3, <2>5, <3>3
  <2> QED
    BY <1>6, <2>2, <2>4, <2>5 DEF ReadZone
<1>7. CASE SortZones
  <2>1. /\ pc = "zones" /\ pc' = "loaded" /\ at > Len(config.zones) /\ zones' \in Sorted(zones)
        /\ at <= Len(config.zones) + 1 /\ Stored(at) /\ Passed(at)
    BY <1>7 DEF SortZones, LInv
  <2> PICK all \in Nat : all = Len(config.zones) + 1
    BY <1>2
  <2>2. at = all
    BY <1>1, <1>2, <2>1
  <2>3. Stored(all) /\ Passed(all)
    BY <2>1, <2>2
  <2>4. Stored(all)' /\ Ascending'
    BY <1>1, <2>1, <2>3, SortedStored
  <2>5. Passed(all)'
    BY <1>3, <2>3
  <2>6. (Len(config.zones) + 1)' = all
    BY <1>1
  <2>7. (Stored(Len(config.zones) + 1))' /\ (Passed(Len(config.zones) + 1))'
    BY <2>4, <2>5, <2>6 DEF Stored, Passed, EnabledBefore
  <2> QED
    BY <1>1, <2>1, <2>4, <2>7 DEF LInv
<1> QED
  BY <1>4, <1>5, <1>6, <1>7 DEF LoadConfig, LoadConfigJson
(* No other step comes back to the loading.                                *)
LEMMA LoadingOver ==
  ASSUME LInv, [Next]_vars, ~(LoadConfig \/ Options)
  PROVE  LInv'
<1>1. CASE UNCHANGED <<pc, config, zones, at>>
  BY <1>1 DEF LInv, Stored, Passed, Ascending, EnabledBefore, Enabled
<1>2. CASE pc' \notin Loading
  BY <1>2 DEF LInv, Loading
<1>3. CASE SigEventInt \/ UNCHANGED vars
  BY <1>1, <1>3 DEF SigEventInt, quiet, vars, watchVars, process
<1>4. CASE Environment /\ ~SigEventInt
  BY <1>1, <1>4, WritersBeside DEF Environment, process
<1>5. CASE InstallHandler \/ CreateDescriptors \/ Background \/ Arm \/ ServeExit \/ End
  BY <1>2, <1>5 DEF InstallHandler, CreateDescriptors, Create, CreateSockServer, Background, Arm, ServeExit, End,
     Loading
<1>6. CASE Refresh \/ Watch \/ ServeNotify
  <2>1. pc' \in {"stat", "load", "wait", "notify", "watch", "arm", "end"}
    BY <1>1, <1>6 DEF Refresh, RefreshResolvConf, NoFileToRead, Stat, Load, RefreshEnds, Watch, InitNotify, OpenNotify,
       NoFileToWatch, WatchFile, WatchFails, AllWatched, ServeNotify, INotify, Take, INotifyFails
  <2> QED
    BY <1>2, <2>1 DEF Loading
<1> QED
  BY <1>3, <1>4, <1>5, <1>6 DEF Next, Run, Environment

(* A priority that fits is kept.                                           *)
LEMMA SmallPriority ==
  ASSUME NEW n \in 0 .. PriorityRange - 1
  PROVE  Unsigned(n) = n
<1>1. PriorityRange \in Nat /\ n \in Int /\ 0 <= n /\ n < PriorityRange
  BY ConfigAssumption
<1> QED
  BY <1>1, Z3 DEF Unsigned

(* What a zone has of its element                                          *)
LEMMA ZoneOfHas ==
  ASSUME NEW e
  PROVE  /\ ZoneOf(e).path = e.path
         /\ e.path = NoPath => ZoneOf(e).ok /\ ZoneOf(e).addr = e.server
         /\ ZoneOf(e).hasV4 = HasEnabledList(e.lists, 4)
         /\ ZoneOf(e).hasV6 = HasEnabledList(e.lists, 6)
  BY Zenon DEF ZoneOf

(* The numbers up to m are m.                                              *)
LEMMA UpTo ==
  ASSUME NEW m \in Nat
  PROVE  IsFiniteSet(1 .. m) /\ Cardinality(1 .. m) = m
<1>1. m \in Int /\ 1 \in Int /\ (IF 1 > m THEN 0 ELSE m - 1 + 1) = m
  OBVIOUS
<1>2. IsFiniteSet(1 .. m) /\ Cardinality(1 .. m) = IF 1 > m THEN 0 ELSE m - 1 + 1
  BY <1>1, FS_Interval, Zenon
<1> QED
  BY <1>1, <1>2

(* Of the enabled elements, fewer than n have a smaller priority than the  *)
(* nth zone: they are those of zones before it.                            *)
LEMMA FewBefore ==
  ASSUME zones \in Seq(ZoneInfos), config.zones \in Seq(Entries), Ascending,
         NEW from \in Bijection(DOMAIN zones, Enabled),
         \A i \in DOMAIN zones : zones[i] = ZoneOf(config.zones[from[i]]),
         \A k \in Enabled : config.zones[k].priority \in 0 .. PriorityRange - 1,
         NEW n \in DOMAIN zones
  PROVE  Cardinality({k \in Enabled : config.zones[k].priority < zones[n].priority}) < n
<1> DEFINE smaller == {k \in Enabled : config.zones[k].priority < zones[n].priority}
           before  == {i \in DOMAIN zones : zones[i].priority < zones[n].priority}
           source  == [i \in before |-> from[i]]
<1>1. /\ from \in [DOMAIN zones -> Enabled]
      /\ \A k \in Enabled : \E i \in DOMAIN zones : from[i] = k
  BY Fun_BijectionProperties
<1>2. \A i \in DOMAIN zones : zones[i].priority = config.zones[from[i]].priority
  <2> SUFFICES ASSUME NEW i \in DOMAIN zones
               PROVE  zones[i].priority = config.zones[from[i]].priority
    OBVIOUS
  <2> DEFINE priority == config.zones[from[i]].priority
  <2>1. priority \in 0 .. PriorityRange - 1 /\ PriorityRange \in Nat
    BY <1>1, ConfigAssumption
  <2>2. zones[i].priority = Unsigned(priority)
    BY DEF ZoneOf
  <2> HIDE DEF priority
  <2>3. Unsigned(priority) = priority
    BY <2>1, SmallPriority
  <2> QED
    BY <2>2, <2>3 DEF priority
<1>3. source \in Surjection(before, smaller)
  BY <1>1, <1>2 DEF Surjection
<1>4. before \subseteq 1 .. n - 1
  <2>1. /\ DOMAIN zones = 1 .. Len(zones) /\ Len(zones) \in Nat
        /\ \A i \in DOMAIN zones : zones[i].priority \in Nat
    <3>1. \A i \in DOMAIN zones : zones[i] \in ZoneInfos
      OBVIOUS
    <3>2. \A z \in ZoneInfos : z.priority \in Nat
      BY DEF ZoneInfos
    <3> QED
      BY <3>1, <3>2
  <2>2. ASSUME NEW i \in before
        PROVE  i \in 1 .. n - 1
    <3>1. ~(n < i)
      BY <2>1, <2>2 DEF Ascending
    <3>2. i # n
      BY <2>1, <2>2
    <3> QED
      BY <2>1, <3>1, <3>2
  <2> QED
    BY <2>2
<1>5. n \in Nat /\ n >= 1
  OBVIOUS
<1>6. IsFiniteSet(1 .. n - 1) /\ Cardinality(1 .. n - 1) = n - 1
  BY <1>5, UpTo
<1>7. IsFiniteSet(before) /\ Cardinality(before) <= n - 1
  BY <1>4, <1>6, FS_Subset
<1> HIDE DEF smaller, before, source
<1>8. IsFiniteSet(smaller) /\ Cardinality(smaller) <= Cardinality(before)
  BY <1>3, <1>7, FS_Surjection
<1>9. Cardinality(smaller) \in Nat /\ Cardinality(before) \in Nat
  BY <1>7, <1>8, FS_CardinalityType
<1> QED
  BY <1>5, <1>7, <1>8, <1>9 DEF smaller

(* LoadConfigJson takes the file as a whole or not at all: every enabled   *)
(* element becomes a zone, with what its fields and lists say, and none is *)
(* before one of a smaller priority.                                       *)
THEOREM AllOrNothing == Spec => []LoadedAsWritten
<1>1. Init => SInv /\ LInv
  BY FilesInit DEF Init, LoadInit, LInv, Loading
<1>2. SInv /\ LInv /\ [Next]_vars => SInv' /\ LInv'
  BY FilesStep, LoadingStep, LoadingOver DEF SInv
<1>3. SInv /\ LInv => LoadedAsWritten
  <2> SUFFICES ASSUME SInv, LInv, pc = "loaded"
               PROVE  LoadedAsWritten
    BY DEF LoadedAsWritten
  <2> DEFINE all == Len(config.zones) + 1
  <2>1. /\ zones \in Seq(ZoneInfos) /\ config \in Configs /\ Stored(all) /\ Passed(all) /\ Ascending
    BY DEF SInv, Typed, LInv, Loading
  <2>2. config.zones \in Seq(Entries)
    BY <2>1, ConfigAssumption
  <2>3. \A k \in DOMAIN config.zones : k < all
    BY <2>2
  <2>4. EnabledBefore(all) = Enabled
    BY <2>3 DEF EnabledBefore, Enabled
  <2>5. PICK from \in Bijection(DOMAIN zones, Enabled) :
          \A i \in DOMAIN zones : zones[i] = ZoneOf(config.zones[from[i]])
    BY <2>1, <2>4 DEF Stored
  <2>6. \A k \in DOMAIN config.zones : config.zones[k].typed /\ (config.zones[k].enable => Loads(config.zones[k]))
    BY <2>1, <2>3 DEF Passed
  <2>7. Len(zones) = Cardinality(Enabled)
    <3>1. DOMAIN zones = 1 .. Len(zones) /\ Len(zones) \in Nat
      BY <2>1
    <3>2. IsFiniteSet(DOMAIN zones) /\ Cardinality(DOMAIN zones) = Len(zones)
      BY <3>1, UpTo
    <3>3. ExistsBijection(DOMAIN zones, Enabled)
      BY <2>5 DEF ExistsBijection
    <3> QED
      BY <3>2, <3>3, FS_Bijection
  <2>8. InPriorityOrder
    BY <2>1, <2>2, <2>5, FewBefore DEF InPriorityOrder
  <2>9. ASSUME NEW i \in DOMAIN zones
        PROVE  \E k \in Enabled :
                 LET e == config.zones[k] IN
                   /\ zones[i].path = e.path
                   /\ e.path = NoPath => zones[i].ok /\ zones[i].addr = e.server /\ e.server # NoServer
                   /\ \A l \in ToSet(e.lists) : l.typed /\ (l.enable => l.loads)
                   /\ zones[i].hasV4 <=> \E l \in ToSet(e.lists) : l.enable /\ l.family = 4
                   /\ zones[i].hasV6 <=> \E l \in ToSet(e.lists) : l.enable /\ l.family = 6
    <3>1. from[i] \in Enabled
      BY <2>5, <2>9, Fun_BijectionProperties
    <3> DEFINE e == config.zones[from[i]]
    <3>2. zones[i] = ZoneOf(e)
      BY <2>5, <2>9
    <3>3. (e.path = NoPath => e.server # NoServer) /\ ListsLoad(e.lists)
      BY <2>6, <3>1 DEF Enabled, Loads
    <3> HIDE DEF e
    <3>4. \A l \in ToSet(e.lists) : l.typed /\ (l.enable => l.loads)
      BY <3>3 DEF ListsLoad, ToSet
    <3>5. \A family : HasEnabledList(e.lists, family) <=> \E l \in ToSet(e.lists) : l.enable /\ l.family = family
      BY DEF HasEnabledList, ToSet
    <3>6. /\ zones[i].path = e.path
          /\ e.path = NoPath => zones[i].ok /\ zones[i].addr = e.server /\ e.server # NoServer
          /\ zones[i].hasV4 = HasEnabledList(e.lists, 4) /\ zones[i].hasV6 = HasEnabledList(e.lists, 6)
      BY <3>2, <3>3, ZoneOfHas, Zenon
    <3>7. /\ zones[i].hasV4 <=> \E l \in ToSet(e.lists) : l.enable /\ l.family = 4
          /\ zones[i].hasV6 <=> \E l \in ToSet(e.lists) : l.enable /\ l.family = 6
      BY <3>5, <3>6, Zenon
    <3> QED
      BY <3>1, <3>4, <3>6, <3>7 DEF e
  <2> QED
    BY <2>6, <2>7, <2>8, <2>9 DEF LoadedAsWritten
<1> QED
  BY <1>1, <1>2, <1>3, PTL DEF Spec
-------------------------------------------------------------------------------
(* The types of all that SInv does not look at                             *)

Bounded ==
  /\ config \in Configs \cup {NoConfig}
  /\ links \in 0 .. MaxLink /\ now \in 0 .. MaxTime /\ changes \in 0 .. MaxChanges
  /\ missed \subseteq DOMAIN zones
  /\ held \subseteq Descriptors /\ open \subseteq Descriptors
  /\ handler \in BOOLEAN /\ armed \in BOOLEAN /\ exitReady \in BOOLEAN

(* A zone that has missed a change remains one of the zones.               *)
LEMMA MissedKept ==
  ASSUME SInv, Bounded, [Next]_vars
  PROVE  missed' \subseteq DOMAIN zones'
<1>1. zones \in Seq(ZoneInfos) /\ missed \subseteq DOMAIN zones
  BY DEF SInv, Typed, Bounded
<1>2. ASSUME UNCHANGED zones, missed' \subseteq missed
      PROVE  missed' \subseteq DOMAIN zones'
  BY <1>1, <1>2
<1>3. CASE LoadConfig
  <2>1. missed' = missed
    BY <1>3 DEF LoadConfig, history
  <2>2. CASE UNCHANGED zones
    BY <1>2, <2>1, <2>2
  <2>3. ASSUME NEW z, zones' = Append(zones, z)
        PROVE  missed' \subseteq DOMAIN zones'
    <3>1. DOMAIN zones = 1 .. Len(zones) /\ Len(zones) \in Nat /\ DOMAIN zones' = 1 .. Len(zones) + 1
      BY <1>1, <2>3
    <3> QED
      BY <1>1, <2>1, <3>1
  <2>4. CASE zones' \in Sorted(zones)
    <3>1. DOMAIN zones' = DOMAIN zones
      BY <2>4 DEF Sorted
    <3> QED
      BY <1>1, <2>1, <3>1
  <2> QED
    BY <1>3, <2>2, <2>3, <2>4 DEF LoadConfig, LoadConfigJson, ReadConfig, ReadZone, SortZones
<1>4. CASE Refresh
  <2>1. missed' \subseteq missed
    BY <1>4 DEF Refresh, RefreshResolvConf, NoFileToRead, Stat, Load, RefreshEnds, history
  <2>2. CASE UNCHANGED zones
    BY <1>2, <2>1, <2>2
  <2>3. CASE Stat \/ Load
    <3>1. DOMAIN zones' = DOMAIN zones
      BY <2>3 DEF Stat, Load
    <3> QED
      BY <1>1, <2>1, <3>1
  <2> QED
    BY <1>4, <2>2, <2>3 DEF Refresh, RefreshResolvConf, NoFileToRead, RefreshEnds
<1>5. CASE Writers
  <2>1. zones' = zones
    BY <1>5, WritersBeside DEF process
  <2>2. \A f \in Files : Readers(f) \subseteq DOMAIN zones
    BY DEF Readers
  <2>3. ASSUME NEW f \in Files, NEW event, Completed(f, event)
        PROVE  missed' \subseteq DOMAIN zones
    BY <1>1, <2>2, <2>3 DEF Completed
  <2>4. ASSUME NEW f \in Files, OpenForWriting(f) \/ (\E line \in Lines : WriteLine(f, line)) \/ Unlink(f)
        PROVE  missed' \subseteq DOMAIN zones
    BY <1>1, <2>4 DEF OpenForWriting, WriteLine, Unlink
  <2>5. ASSUME NEW f \in Files, CloseWritten(f) \/ \E mtime \in {now - 1, now} : MoveTo(f, mtime)
        PROVE  missed' \subseteq DOMAIN zones
    BY <2>3, <2>5 DEF CloseWritten, MoveTo
  <2>6. CASE \E path \in Paths, f \in Files : Retarget(path, f)
    BY <1>1, <2>1, <2>6 DEF Retarget
  <2>7. CASE (\E name \in Others : WriteOther(name)) \/ Tick
    BY <1>1, <2>1, <2>7 DEF WriteOther, Tick, history
  <2> QED
    BY <1>5, <2>1, <2>4, <2>5, <2>6, <2>7 DEF Writers
<1>6. CASE Options \/ InstallHandler \/ CreateDescriptors \/ Background \/ Watch \/ Arm \/ ServeNotify \/ ServeExit \/ End
  <2>1. UNCHANGED <<zones, missed>>
    BY <1>6 DEF Options, InstallHandler, CreateDescriptors, Create, CreateSockServer, Background, Watch, InitNotify,
       OpenNotify, NoFileToWatch, WatchFile, WatchFails, AllWatched, Arm, ServeNotify, INotify, INotifyFails,
       ServeExit, End, quiet, history
  <2> QED
    BY <1>2, <2>1
<1>7. CASE SigEventInt \/ UNCHANGED vars
  BY <1>2, <1>7 DEF SigEventInt, quiet, history, vars, watchVars, process
<1> QED
  BY <1>3, <1>4, <1>5, <1>6, <1>7 DEF Next, Run, Environment

(* The counters and the clock stay within their bounds.                    *)
LEMMA CountersKept ==
  ASSUME SInv, Bounded, [Next]_vars
  PROVE  links' \in 0 .. MaxLink /\ now' \in 0 .. MaxTime /\ changes' \in 0 .. MaxChanges
<1>1. /\ links \in 0 .. MaxLink /\ now \in 0 .. MaxTime /\ changes \in 0 .. MaxChanges
      /\ MaxLink \in Nat /\ MaxTime \in Nat /\ MaxChanges \in Nat
  BY WatchAssumption DEF Bounded
<1>2. CASE Writers
  <2>1. links' = links
    BY <1>2, WritersBeside DEF process
  <2>2. now' = now \/ (now < MaxTime /\ now' = now + 1)
    BY <1>2 DEF Writers, OpenForWriting, WriteLine, CloseWritten, MoveTo, Unlink, Retarget, WriteOther, Tick
  <2>3. changes' = changes \/ (changes < MaxChanges /\ changes' = changes + 1)
    BY <1>2 DEF Writers, OpenForWriting, WriteLine, CloseWritten, MoveTo, Unlink, Retarget, WriteOther, Tick, Acts
  <2> QED
    BY <1>1, <2>1, <2>2, <2>3
<1>3. CASE Watch
  <2>1. now' = now /\ changes' = changes
    BY <1>3 DEF Watch, InitNotify, OpenNotify, NoFileToWatch, WatchFile, WatchFails, AllWatched, machine
  <2>2. CASE WatchFile
    <3>1. zones[at].path \in Paths /\ pc = "watch"
      BY <2>2, ZoneTyped DEF WatchFile, HasFile, SInv
    <3>2. LinkDepth[zones[at].path] \in Nat
      BY <3>1, WatchAssumption
    <3>3. links >= LinkDepth[zones[at].path] + 1 /\ links' = links - (LinkDepth[zones[at].path] + 1)
      BY <2>2 DEF WatchFile
    <3> QED
      BY <1>1, <2>1, <3>2, <3>3
  <2>3. CASE OpenNotify \/ NoFileToWatch \/ WatchFails \/ AllWatched
    BY <1>1, <2>1, <2>3 DEF OpenNotify, NoFileToWatch, WatchFails, AllWatched
  <2> QED
    BY <1>3, <2>2, <2>3 DEF Watch, InitNotify
<1>4. CASE Run /\ ~Watch
  <2>1. UNCHANGED <<links, now, changes>>
    BY <1>4 DEF Run, Options, LoadConfig, InstallHandler, CreateDescriptors, Create, CreateSockServer, Background,
       Refresh, RefreshResolvConf, NoFileToRead, Stat, Load, RefreshEnds, Arm, ServeNotify, INotify, INotifyFails,
       ServeExit, End, quiet, machine
  <2> QED
    BY <1>1, <2>1
<1>5. CASE SigEventInt \/ UNCHANGED vars
  BY <1>1, <1>5 DEF SigEventInt, quiet, machine, vars, watchVars, process
<1> QED
  BY <1>2, <1>3, <1>4, <1>5 DEF Next, Environment

(* The text of the configuration goes when it has been read; descriptors   *)
(* and signals come one at a time.                                         *)
LEMMA LifeKept ==
  ASSUME Bounded, [Next]_vars
  PROVE  /\ config' \in Configs \cup {NoConfig}
         /\ held' \subseteq Descriptors /\ open' \subseteq Descriptors
         /\ handler' \in BOOLEAN /\ armed' \in BOOLEAN /\ exitReady' \in BOOLEAN
<1>1. /\ config \in Configs \cup {NoConfig} /\ held \subseteq Descriptors /\ open \subseteq Descriptors
      /\ handler \in BOOLEAN /\ armed \in BOOLEAN /\ exitReady \in BOOLEAN
  BY DEF Bounded
<1>2. config' \in {config, NoConfig}
  <2>1. Writers => config' = config
    BY WritersBeside DEF process
  <2> QED
    BY <2>1 DEF Next, Run, Environment, Options, LoadConfig, LoadConfigJson, ReadConfig, ReadZone, SortZones,
       InstallHandler, CreateDescriptors, Create, CreateSockServer, Background, Refresh, RefreshResolvConf,
       NoFileToRead, Stat, Load, RefreshEnds, Watch, InitNotify, OpenNotify, NoFileToWatch, WatchFile, WatchFails,
       AllWatched, Arm, ServeNotify, INotify, INotifyFails, ServeExit, SigEventInt, End, quiet, vars, watchVars,
       process
<1>3. handler' \in {handler, TRUE} /\ armed' \in {armed, TRUE} /\ exitReady' \in {exitReady, armed}
  BY DEF Next, Run, Environment, Options, LoadConfig, InstallHandler, CreateDescriptors, Create, CreateSockServer,
     Background, Refresh, Watch, Arm, ServeNotify, ServeExit, SigEventInt, End, signals, lifeVars, vars
<1>4. held' \subseteq Descriptors /\ open' \subseteq Descriptors
  <2>1. CASE CreateDescriptors \/ Watch
    BY <1>1, <2>1 DEF CreateDescriptors, Create, CreateSockServer, Watch, Descriptors
  <2>2. CASE End
    BY <1>1, <2>2 DEF End
  <2>3. CASE UNCHANGED <<held, open>>
    BY <1>1, <2>3
  <2> QED
    BY <2>1, <2>2, <2>3 DEF Next, Run, Environment, Options, LoadConfig, InstallHandler, Background, Refresh, Arm,
       ServeNotify, ServeExit, SigEventInt, lifeVars, vars
<1> QED
  BY <1>1, <1>2, <1>3, <1>4

(* For any configuration, files and writers: the clock and the counters    *)
(* stay within their bounds, each place that a loop has come to and every  *)
(* zone that is fresh or has missed a change exists, and what a zone takes *)
(* from its file is a nameserver or none.                                  *)
THEOREM TypeCorrect == Spec => []TypeOK
<1>1. Init => SInv /\ Bounded
  <2> SUFFICES ASSUME Init
               PROVE  SInv /\ Bounded
    OBVIOUS
  <2>1. SInv
    BY FilesInit
  <2>2. /\ config \in Configs /\ links = MaxLink /\ now = 1 /\ changes = 0 /\ missed = {} /\ held = {} /\ open = {}
        /\ handler = FALSE /\ armed = FALSE /\ exitReady = FALSE
    BY DEF Init, LoadInit, WatchInit
  <2>3. MaxLink \in Nat /\ MaxTime \in Nat \ {0} /\ MaxChanges \in Nat
    BY WatchAssumption
  <2>4. links \in 0 .. MaxLink /\ now \in 0 .. MaxTime /\ changes \in 0 .. MaxChanges
    BY <2>2, <2>3
  <2> QED
    BY <2>1, <2>2, <2>4 DEF Bounded
<1>2. SInv /\ Bounded /\ [Next]_vars => (SInv /\ Bounded)'
  <2> SUFFICES ASSUME SInv, Bounded, [Next]_vars
               PROVE  SInv' /\ Bounded'
    OBVIOUS
  <2> QED
    BY FilesStep, MissedKept, CountersKept, LifeKept DEF Bounded
<1>3. SInv /\ Bounded => TypeOK
  <2> SUFFICES ASSUME SInv, Bounded
               PROVE  TypeOK
    OBVIOUS
  <2>1. Typed /\ Standing /\ FreshHolds
    BY DEF SInv
  <2>2. fresh \subseteq DOMAIN zones
    BY <2>1 DEF FreshHolds, HasFile
  <2>3. pc \in {"options", "config", "zones", "loaded", "epoll", "listen", "exitSocket", "background",
                "stat", "load", "notify", "watch", "arm", "wait", "end", "exited"}
    BY <2>1 DEF Typed, Starting, Serving
  <2>4. pc = "load" => HasFile(at)
    BY <2>1 DEF Standing
  <2> QED
    BY <2>1, <2>2, <2>3, <2>4 DEF Bounded, Typed, TypeOK
<1> QED
  BY <1>1, <1>2, <1>3, PTL DEF Spec
===============================================================================
