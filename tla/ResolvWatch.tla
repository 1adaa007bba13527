------------------------------ MODULE ResolvWatch ------------------------------
(***************************************************************************)
(* Upstream addresses that come from resolv.conf files: how they are read  *)
(* (Config::RefreshResolvConf), watched (FileINotify::Init) and read again *)
(* (FileINotify::INotify), against the processes that write the files and  *)
(* the events the kernel makes of it.                                      *)
(*                                                                         *)
(* A line of a file is the address of a parseable nameserver or Junk.      *)
(* Time is in seconds, as st_mtime is compared.  All files are in one      *)
(* directory: with a second one, more events that no name matches come.    *)
(* Others are names in that directory that no zone uses.                   *)
(***************************************************************************)
EXTENDS ConfigFile

CONSTANTS
  Files, Others,    \* names in the directory
  Junk,             \* a line that gives no address
  Overflow,         \* the event IN_Q_OVERFLOW, which has no name
  LinksTo,          \* the file a path leads to at first
  LinkDepth,        \* how many symbolic links are on the way
  Unwatchable,      \* paths without "/", or whose directory is missing
  MaxLink,          \* iMaxLink
  Ignored,          \* names like ".x", "x~" and "#x#"
  LongNames,        \* names whose event is larger than the buffer of read
  PerRead,          \* events that fit in that buffer
  MaxQueue,         \* max_queued_events of the kernel
  FirstLines,       \* what a file holds at first, if it is there
  MovedLines,       \* what a file holds that is moved into the place of another
  MaxLines, MaxTime, MaxChanges   \* bounds on the writers

Names == Files \cup Others
Lines == Servers \cup {Junk}

ASSUME WatchAssumption ==
  /\ Files \cap Others = {} /\ Overflow \notin Names /\ Junk \notin Servers
  /\ LinksTo \in [Paths -> Files] /\ LinkDepth \in [Paths -> Nat]
  /\ Unwatchable \subseteq Paths
  /\ Ignored \subseteq Names /\ LongNames \subseteq Names
  /\ FirstLines \in Seq(Lines) /\ MovedLines \in Seq(Lines)
  /\ MaxLink \in Nat /\ PerRead \in Nat \ {0} /\ MaxQueue \in Nat \ {0}
  /\ MaxTime \in Nat \ {0} /\ MaxChanges \in Nat

(* What stat and fopen can see of a file; "writing" while a process has it *)
(* open for writing.                                                       *)
Content == [there : BOOLEAN, lines : Seq(Lines), mtime : Nat, writing : BOOLEAN]

Missing == [there |-> FALSE, lines |-> <<>>, mtime |-> 0, writing |-> FALSE]
Complete(lines, mtime) == [there |-> TRUE, lines |-> lines, mtime |-> mtime, writing |-> FALSE]

VARIABLES
  \* the process
  notify,      \* m_fdINotify is open
  watching,    \* m_ssWatchFile
  links,       \* iMaxLink
  \* the machine
  disk,        \* the files
  target,      \* the file a path leads to
  now,         \* the clock
  queue,       \* the inotify events not yet read
  changes,     \* how often the environment has acted
  \* history
  fresh,       \* zones whose file has not changed since they read it
  missed       \* zones whose file has changed, unseen, without an event

process == <<pc, config, zones, at, notify, watching, links>>
machine == <<disk, target, now, queue, changes>>
history == <<fresh, missed>>
watchVars == <<process, machine, history>>

FileOf(i) == target[zones[i].path]
HasFile(i) == i \in DOMAIN zones /\ zones[i].path # NoPath
Readers(f) == {i \in DOMAIN zones : HasFile(i) /\ FileOf(i) = f}

WatchInit ==
  /\ notify = FALSE /\ watching = {} /\ links = MaxLink
  /\ disk \in [Files -> {Missing, Complete(FirstLines, 1)}]
  /\ target = LinksTo
  /\ now = 1
  /\ queue = <<>> /\ changes = 0
  /\ fresh = {} /\ missed = {}
-------------------------------------------------------------------------------
(* Reading the files                                                       *)

(* The loop of ReloadResolvConf: the first nameserver that can be parsed   *)
FirstServer(lines) ==
  LET first == {k \in DOMAIN lines : lines[k] \in Servers /\ \A j \in 1 .. k - 1 : lines[j] \notin Servers}
  IN  IF first = {} THEN NoServer ELSE lines[CHOOSE k \in first : TRUE]

(* Where RefreshResolvConf returns to                                      *)
RefreshEnds ==
  /\ pc = "stat" /\ at > Len(zones)
  /\ pc' = IF notify THEN "wait" ELSE "notify"
  /\ at' = 1
  /\ UNCHANGED <<config, zones, notify, watching, links, machine, history>>

NoFileToRead ==
  /\ pc = "stat" /\ at \in DOMAIN zones /\ ~HasFile(at)
  /\ at' = at + 1
  /\ UNCHANGED <<pc, config, zones, notify, watching, links, machine, history>>

(* Slip: a file that has not changed is left as it was found unavailable.  *)
StatForgetsOk ==
  /\ pc = "stat" /\ HasFile(at)
  /\ LET file == disk[FileOf(at)] IN
       IF file.there /\ file.mtime # zones[at].time
       THEN /\ zones' = [zones EXCEPT ![at].ok = FALSE, ![at].addr = NoServer, ![at].time = file.mtime]
            /\ pc' = "load"
            /\ UNCHANGED at
       ELSE /\ zones' = [zones EXCEPT ![at].ok = FALSE]
            /\ at' = at + 1
            /\ UNCHANGED pc
  /\ missed' = missed \ {at}
  /\ UNCHANGED <<config, notify, watching, links, machine, fresh>>

(* stat: the address stays good only if the second of the last change is   *)
(* the one remembered.                                                     *)
Stat ==
  /\ pc = "stat" /\ HasFile(at)
  /\ LET file == disk[FileOf(at)] IN
       IF file.there /\ file.mtime # zones[at].time
       THEN /\ zones' = [zones EXCEPT ![at].ok = FALSE, ![at].addr = NoServer, ![at].time = file.mtime]
            /\ pc' = "load"
            /\ UNCHANGED at
       ELSE /\ zones' = [zones EXCEPT ![at].ok = file.there]
            /\ at' = at + 1
            /\ UNCHANGED pc
  /\ missed' = missed \ {at}
  /\ UNCHANGED <<config, notify, watching, links, machine, fresh>>

(* ReloadResolvConf, some time after stat                                  *)
Load ==
  /\ pc = "load"
  /\ LET file   == disk[FileOf(at)]
         server == FirstServer(file.lines)
     IN  /\ zones' = [zones EXCEPT ![at].addr = server, ![at].ok = (server # NoServer)]
         /\ fresh' = IF file.there THEN fresh \cup {at} ELSE fresh
  /\ at' = at + 1
  /\ pc' = "stat"
  /\ UNCHANGED <<config, notify, watching, links, machine, missed>>

RefreshResolvConf == NoFileToRead \/ Stat \/ Load \/ RefreshEnds
-------------------------------------------------------------------------------
(* FileINotify::Init                                                       *)

(* Exit and Reset: rm_watch, removefd, close                               *)
StopWatching == notify' = FALSE /\ watching' = {} /\ queue' = <<>>

OpenNotify ==
  /\ pc = "notify"
  /\ \/ notify' = TRUE /\ pc' = "watch"
     \/ notify' = FALSE /\ pc' = "end"
  /\ at' = 1
  /\ UNCHANGED <<config, zones, watching, links, machine, history>>

NoFileToWatch ==
  /\ pc = "watch" /\ at \in DOMAIN zones /\ ~HasFile(at)
  /\ at' = at + 1
  /\ UNCHANGED <<pc, config, zones, notify, watching, links, machine, history>>

(* Slip: the name watched is that of the path, before its links are        *)
(* followed.                                                               *)
WatchFileOfLink ==
  /\ pc = "watch" /\ HasFile(at)
  /\ LET path == zones[at].path IN
       /\ links >= LinkDepth[path] + 1 /\ path \notin Unwatchable
       /\ links' = links - (LinkDepth[path] + 1)
       /\ watching' = IF LinkDepth[path] > 0 THEN watching ELSE watching \cup {target[path]}
  /\ at' = at + 1
  /\ UNCHANGED <<pc, config, zones, notify, machine, history>>

(* The links of a path are followed, each reading of one counted, the last *)
(* one, that finds no link, too; the file they lead to is watched.         *)
WatchFile ==
  /\ pc = "watch" /\ HasFile(at)
  /\ LET path == zones[at].path IN
       /\ links >= LinkDepth[path] + 1 /\ path \notin Unwatchable
       /\ links' = links - (LinkDepth[path] + 1)
       /\ watching' = watching \cup {target[path]}
  /\ at' = at + 1
  /\ UNCHANGED <<pc, config, zones, notify, machine, history>>

WatchFails ==
  /\ pc = "watch" /\ HasFile(at)
  /\ LET path == zones[at].path IN links < LinkDepth[path] + 1 \/ path \in Unwatchable
  /\ StopWatching
  /\ pc' = "end"
  /\ UNCHANGED <<config, zones, at, links, disk, target, now, changes, history>>

AllWatched ==
  /\ pc = "watch" /\ at > Len(zones)
  /\ pc' = "arm" /\ at' = 1
  /\ UNCHANGED <<config, zones, notify, watching, links, machine, history>>

InitNotify == OpenNotify \/ NoFileToWatch \/ WatchFile \/ WatchFails \/ AllWatched
-------------------------------------------------------------------------------
(* FileINotify::INotify                                                    *)

Hit(event) == event \in watching \ Ignored

(* The events read are the first k, as many as fit in the buffer; what is  *)
(* left makes the descriptor ready again.                                  *)
Take(k) ==
  /\ queue' = SubSeq(queue, k + 1, Len(queue))
  /\ pc' = IF \E j \in 1 .. k : Hit(queue[j]) THEN "stat" ELSE "wait"

(* Slip: only the last event of those read is looked at.                   *)
INotifyLastOnly ==
  /\ pc = "wait" /\ queue # <<>>
  /\ \E k \in 1 .. Len(queue) :
       /\ k <= PerRead
       /\ \A j \in 1 .. k : queue[j] \notin LongNames
       /\ queue' = SubSeq(queue, k + 1, Len(queue))
       /\ pc' = IF Hit(queue[k]) THEN "stat" ELSE "wait"
  /\ UNCHANGED <<config, zones, at, notify, watching, links, disk, target, now, changes, history>>

(* Slip: an event that hits nothing is an error.                           *)
INotifyStrict ==
  /\ pc = "wait" /\ queue # <<>>
  /\ \E k \in 1 .. Len(queue) :
       /\ k <= PerRead
       /\ \A j \in 1 .. k : queue[j] \notin LongNames
       /\ queue' = SubSeq(queue, k + 1, Len(queue))
       /\ pc' = IF \E j \in 1 .. k : Hit(queue[j]) THEN "stat" ELSE "end"
  /\ UNCHANGED <<config, zones, at, notify, watching, links, disk, target, now, changes, history>>

INotify ==
  /\ pc = "wait" /\ queue # <<>>
  /\ \E k \in 1 .. Len(queue) :
       /\ k <= PerRead
       /\ \A j \in 1 .. k : queue[j] \notin LongNames
       /\ Take(k)
  /\ UNCHANGED <<config, zones, at, notify, watching, links, disk, target, now, changes, history>>

(* read refuses a buffer that the first event does not fit in.             *)
INotifyFails ==
  /\ pc = "wait" /\ queue # <<>>
  /\ Head(queue) \in LongNames
  /\ pc' = "end"
  /\ UNCHANGED <<config, zones, at, notify, watching, links, machine, history>>
-------------------------------------------------------------------------------
(* The environment                                                         *)

Mask == {"IN_CLOSE_WRITE", "IN_MOVED_TO"}

(* The queue after an event: the directory is watched as soon as one file  *)
(* in it is; the same event twice in a row may be merged; a full queue     *)
(* gets one mark of its overflow.                                          *)
Queued(event, name) ==
  IF event \notin Mask \/ watching = {} THEN {queue}
  ELSE IF Len(queue) < MaxQueue
       THEN {Append(queue, name)} \cup (IF queue # <<>> /\ Last(queue) = name THEN {queue} ELSE {})
       ELSE {IF Last(queue) = Overflow THEN queue ELSE Append(queue, Overflow)}

(* The handlers run in the event loop, with every file watched.            *)
Started == notify /\ pc # "watch"

(* The file is complete again, and the kernel tells of it.                 *)
Completed(f, event) ==
  /\ queue' \in Queued(event, f)
  /\ missed' = IF Len(queue) >= MaxQueue \/ (~Started /\ f \notin watching)
               THEN missed \cup Readers(f) ELSE missed

Acts == changes < MaxChanges /\ changes' = changes + 1

(* open with O_TRUNC, write, close                                         *)
OpenForWriting(f) ==
  /\ Acts /\ ~disk[f].writing
  /\ disk' = [disk EXCEPT ![f] = [there |-> TRUE, lines |-> <<>>, mtime |-> now, writing |-> TRUE]]
  /\ fresh' = fresh \ Readers(f)
  /\ UNCHANGED <<process, target, now, queue, missed>>

(* Lines after the first nameserver would not be read.                     *)
WriteLine(f, line) ==
  /\ disk[f].writing /\ Len(disk[f].lines) < MaxLines /\ FirstServer(disk[f].lines) = NoServer
  /\ disk' = [disk EXCEPT ![f].lines = Append(@, line), ![f].mtime = now]
  /\ fresh' = fresh \ Readers(f)
  /\ UNCHANGED <<process, target, now, queue, changes, missed>>

CloseWritten(f) ==
  /\ disk[f].writing
  /\ disk' = [disk EXCEPT ![f].writing = FALSE]
  /\ Completed(f, "IN_CLOSE_WRITE")
  /\ UNCHANGED <<process, target, now, changes, fresh>>

(* rename of a file that was written before                                *)
MoveTo(f, mtime) ==
  /\ Acts /\ ~disk[f].writing
  /\ disk' = [disk EXCEPT ![f] = Complete(MovedLines, mtime)]
  /\ Completed(f, "IN_MOVED_TO")
  /\ fresh' = fresh \ Readers(f)
  /\ UNCHANGED <<process, target, now>>

(* Nothing watches for a file that goes.                                   *)
Unlink(f) ==
  /\ Acts /\ disk[f].there /\ ~disk[f].writing
  /\ disk' = [disk EXCEPT ![f] = Missing]
  /\ fresh' = fresh \ Readers(f)
  /\ UNCHANGED <<process, target, now, queue, missed>>

(* A link on the way to the file is replaced, after it was followed: the   *)
(* zones of that path have another file, and no event tells of it.         *)
Retarget(path, f) ==
  /\ Acts /\ Started /\ LinkDepth[path] > 0 /\ f # target[path]
  /\ target' = [target EXCEPT ![path] = f]
  /\ LET followers == {i \in DOMAIN zones : zones[i].path = path}
     IN  fresh' = fresh \ followers /\ missed' = missed \cup followers
  /\ UNCHANGED <<process, disk, now, queue>>

(* Another file of the directory is written.                               *)
WriteOther(name) ==
  /\ Acts
  /\ queue' \in Queued("IN_CLOSE_WRITE", name)
  /\ UNCHANGED <<process, disk, target, now, history>>

(* Only writers look at the clock.                                         *)
Tick ==
  /\ now < MaxTime
  /\ changes < MaxChanges \/ \E f \in Files : disk[f].writing
  /\ now' = now + 1
  /\ UNCHANGED <<process, disk, target, queue, changes, history>>

Writers ==
  \/ \E f \in Files :
       \/ OpenForWriting(f)
       \/ \E line \in Lines : WriteLine(f, line)
       \/ CloseWritten(f)
       \/ \E mtime \in {now - 1, now} : MoveTo(f, mtime)
       \/ Unlink(f)
  \/ \E path \in Paths, f \in Files : Retarget(path, f)
  \/ \E name \in Others : WriteOther(name)
  \/ Tick
-------------------------------------------------------------------------------
(* Properties                                                              *)

(* What DNSQureyWork::Init connects a new transaction's socket to          *)
Upstream(i) == IF zones[i].ok THEN zones[i].addr ELSE NoServer

(* The name is one that INotify looks at, and the path leads to the file   *)
(* that was watched.                                                       *)
Followed(i) == HasFile(i) /\ FileOf(i) = LinksTo[zones[i].path] /\ FileOf(i) \notin Ignored

(* The loop waits, every event has been read and no file is being written. *)
Quiet == pc = "wait" /\ queue = <<>> /\ \A f \in Files : ~disk[f].writing

(* When all is quiet, every zone uses the first nameserver of its file,    *)
(* through any order of writes, renames, readings and events, or has       *)
(* missed the change: it was made before the file was watched, or its      *)
(* event was lost to an overflow, or (Config.cpp:298) it bears the second  *)
(* remembered from an earlier reading.                                     *)
StaleOnlyBySecond ==
  Quiet => \A i \in DOMAIN zones :
    Followed(i) /\ i \notin missed /\ disk[FileOf(i)].there =>
      \/ Upstream(i) = FirstServer(disk[FileOf(i)].lines)
      \/ i \notin fresh /\ zones[i].time = disk[FileOf(i)].mtime

(* A zone whose file has not changed since it was read keeps its address,  *)
(* whatever the events of other files make the loop read.                  *)
FreshServes ==
  pc = "wait" => \A i \in fresh : Upstream(i) = FirstServer(disk[FileOf(i)].lines)

(* A zone with that path, whose file bears another second than the one     *)
(* remembered                                                              *)
Behind(path) ==
  /\ pc \notin {"end", "exited"}
  /\ \E i \in DOMAIN zones :
       /\ zones[i].path = path /\ Followed(i) /\ i \notin missed
       /\ disk[FileOf(i)].there /\ ~disk[FileOf(i)].writing
       /\ zones[i].time # disk[FileOf(i)].mtime

(* A change that bears another second is taken up, sooner or later.        *)
ChangeArrives == \A path \in Paths : Behind(path) ~> ~Behind(path)
===============================================================================
