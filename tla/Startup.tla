-------------------------------- MODULE Startup --------------------------------
(***************************************************************************)
(* The life of the process as main lays it out: options, configuration,    *)
(* the descriptors one after the other, the first reading of the resolv    *)
(* files and their watching, the loop, and the way out, to which every     *)
(* failure leads.  Of the loop it keeps the inotify event and the exit     *)
(* event; EventLoop has the rest.                                          *)
(***************************************************************************)
EXTENDS ResolvWatch

VARIABLES
  held,       \* descriptors the program has a number of, not -1
  open,       \* descriptors that are open
  handler,    \* SigEventInt is installed
  armed,      \* gFdExitEvent is registered with epoll
  exitReady   \* and ready

lifeVars == <<held, open, handler, armed, exitReady>>
vars == <<watchVars, lifeVars>>

Descriptors == {"epoll", "listen", "exit", "notify"}

Init ==
  /\ LoadInit /\ WatchInit
  /\ held = {} /\ open = {}
  /\ handler = FALSE /\ armed = FALSE /\ exitReady = FALSE

signals == <<handler, armed, exitReady>>
quiet == <<config, zones, at, notify, watching, links, machine, history>>
-------------------------------------------------------------------------------
(* Before the files                                                        *)

(* Config::Init: -p with no port in 1 .. 65535 is refused.                 *)
Options ==
  /\ pc = "options"
  /\ pc' \in {"config", "end"}
  /\ UNCHANGED <<quiet, lifeVars>>

LoadConfig == LoadConfigJson /\ UNCHANGED <<notify, watching, links, machine, history, lifeVars>>

(* The JSON text is gone; signal(SIGINT, ...)                              *)
InstallHandler ==
  /\ pc = "loaded"
  /\ config' = NoConfig
  /\ handler' = TRUE
  /\ pc' = "epoll"
  /\ UNCHANGED <<zones, at, notify, watching, links, machine, history>>
  /\ UNCHANGED <<held, open, armed, exitReady>>

(* epoll_create, or the socket of the exit event                           *)
Create(fd, before, after) ==
  /\ pc = before
  /\ \/ /\ held' = held \cup {fd} /\ open' = open \cup {fd} /\ pc' = after
     \/ /\ UNCHANGED <<held, open>> /\ pc' = "end"
  /\ UNCHANGED <<quiet, signals>>

(* CreateSockServer: a socket that cannot be set up or bound is kept.      *)
CreateSockServer ==
  /\ pc = "listen"
  /\ \/ /\ held' = held \cup {"listen"} /\ open' = open \cup {"listen"} /\ pc' \in {"exitSocket", "end"}
     \/ /\ UNCHANGED <<held, open>> /\ pc' = "end"
  /\ UNCHANGED <<quiet, signals>>

(* In background mode, daemon or the log file may fail.                    *)
Background ==
  /\ pc = "background"
  /\ pc' \in {"stat", "end"}
  /\ UNCHANGED <<quiet, lifeVars>>

CreateDescriptors ==
  \/ Create("epoll", "epoll", "listen")
  \/ CreateSockServer
  \/ Create("exit", "exitSocket", "background")
-------------------------------------------------------------------------------
(* The files                                                               *)

Refresh == RefreshResolvConf /\ UNCHANGED lifeVars

(* FileINotify::Init: if it fails, Exit closes the descriptor and Reset    *)
(* forgets it.                                                             *)
Watch ==
  /\ InitNotify
  /\ open' = IF notify' THEN open \cup {"notify"} ELSE open \ {"notify"}
  /\ held' = IF notify' THEN held \cup {"notify"} ELSE held \ {"notify"}
  /\ UNCHANGED signals

(* gFdExitEvent, gFdEPollExit and addfd: from now on SIGINT is heard.      *)
Arm ==
  /\ pc = "arm"
  /\ armed' = TRUE
  /\ pc' = "wait"
  /\ UNCHANGED <<quiet, held, open, handler, exitReady>>
-------------------------------------------------------------------------------
(* The loop                                                                *)

ServeNotify == (INotify \/ INotifyFails) /\ UNCHANGED lifeVars

(* Slip: a break leaves the batch of events, not the loop.                 *)
ServeExitBreaks ==
  /\ pc = "wait" /\ exitReady
  /\ pc' = "wait"
  /\ UNCHANGED <<quiet, lifeVars>>

(* fdExitEvent active                                                      *)
ServeExit ==
  /\ pc = "wait" /\ exitReady
  /\ pc' = "end"
  /\ UNCHANGED <<quiet, lifeVars>>

(* SIGINT: EPOLLOUT is asked of a socket that can be written at any time.  *)
(* One that comes before the exit event is registered has no effect.       *)
SigEventInt ==
  /\ handler /\ pc # "exited"
  /\ exitReady' = armed
  /\ UNCHANGED <<pc, quiet, held, open, handler, armed>>

(* Slip: what was set up last is left to the system.                       *)
EndEarly ==
  /\ pc = "end"
  /\ open' = open \ {"listen", "exit", "epoll"}
  /\ held' = held
  /\ StopWatching
  /\ pc' = "exited"
  /\ UNCHANGED <<config, zones, at, links, disk, target, now, changes, history, signals>>

(* end: close what is held.  The object that watches is made after epoll.  *)
End ==
  /\ pc = "end"
  /\ open' = open \ held
  /\ held' = held
  /\ StopWatching
  /\ pc' = "exited"
  /\ UNCHANGED <<config, zones, at, links, disk, target, now, changes, history, signals>>

(* What the thread does by itself                                          *)
Run ==
  \/ Options \/ LoadConfig \/ InstallHandler \/ CreateDescriptors \/ Background
  \/ Refresh \/ Watch \/ Arm
  \/ ServeNotify \/ ServeExit
  \/ End

(* What is done before the first reading is in the initial disk; without a *)
(* file to follow, the writers change nothing.                             *)
Environment ==
  \/ /\ pc \in {"stat", "load", "notify", "watch", "arm", "wait"}
     /\ \E i \in DOMAIN zones : HasFile(i)
     /\ Writers
     /\ UNCHANGED lifeVars
  \/ SigEventInt

Next == Run \/ Environment

Spec == Init /\ [][Next]_vars /\ WF_vars(Run)
-------------------------------------------------------------------------------
TypeOK ==
  /\ pc \in {"options", "config", "zones", "loaded", "epoll", "listen", "exitSocket", "background",
             "stat", "load", "notify", "watch", "arm", "wait", "end", "exited"}
  /\ config \in Configs \cup {NoConfig}
  /\ zones \in Seq(ZoneInfos) /\ at \in Nat \ {0}
  /\ pc = "load" => HasFile(at)
  /\ notify \in BOOLEAN /\ watching \subseteq Files /\ links \in 0 .. MaxLink
  /\ disk \in [Files -> Content] /\ target \in [Paths -> Files]
  /\ now \in 0 .. MaxTime /\ changes \in 0 .. MaxChanges
  /\ queue \in Seq(Names \cup {Overflow})
  /\ fresh \subseteq DOMAIN zones /\ missed \subseteq DOMAIN zones
  /\ held \subseteq Descriptors /\ open \subseteq Descriptors
  /\ \A b \in {handler, armed, exitReady} : b \in BOOLEAN

(* Until the end, the program knows the number of exactly the descriptors  *)
(* that are open, on every path through the start; so what the end closes  *)
(* is closed once, and nothing is left open.                               *)
ReleasedOnce ==
  IF pc = "exited" THEN open = {} ELSE held = open

(* Once it serves, no file and no event of one makes the process end,      *)
(* whatever is overwritten, moved, gone, lost or skipped, but for an event *)
(* that the buffer of INotify cannot hold.                                 *)
OutlivesShortNames ==
  armed /\ pc = "end" => exitReady \/ (queue # <<>> /\ Head(queue) \in LongNames)

(* Server.cpp:209, "Ctrl+C": once SIGINT finds the exit event registered,  *)
(* the process ends, whatever the files do.                                *)
InterruptStops == exitReady ~> (pc = "exited")
===============================================================================
