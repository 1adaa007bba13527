------------------------------ MODULE ConfigFile ------------------------------
(***************************************************************************)
(* The configuration file: what LoadConfigJson makes of it, one element of *)
(* zoneList at a time.  A file is abstracted to what it holds: whether it  *)
(* is JSON with a usable bindIP and serverPort, and its zones.  "typed"    *)
(* says that the required fields of an element are there with their types; *)
(* the optional ones only decide how answers are judged (ZonePolicy).      *)
(***************************************************************************)
EXTENDS Integers, SequencesExt

CONSTANTS
  Configs, NoConfig,   \* what the file may hold; after it has been read
  Paths, NoPath,       \* values of resolvFile; its absence
  Servers, NoServer,   \* upstream addresses; the zeroed one
  PriorityRange        \* 2^32, the width of m_nPriority

Lists == [typed : BOOLEAN, enable : BOOLEAN, family : Int, loads : BOOLEAN]

(* An element of zoneList; server is dnsIP, NoServer if it is no address.  *)
Entries ==
  [typed : BOOLEAN, enable : BOOLEAN, priority : Int, path : Paths \cup {NoPath},
   server : Servers \cup {NoServer}, lists : Seq(Lists)]

ASSUME ConfigAssumption ==
  /\ NoPath \notin Paths /\ NoServer \notin Servers /\ NoConfig \notin Configs
  /\ PriorityRange \in Nat \ {0}
  /\ \A c \in Configs :
       /\ c.parses \in BOOLEAN /\ c.binds \in BOOLEAN
       /\ c.zones \in Seq(Entries)

(* ZoneInfo: m_nPriority, m_sResolvConfFile and the modification time      *)
(* remembered for it, m_ssDNSAddr, m_bIsDNSAddrOK, m_bHasV4 and m_bHasV6   *)
ZoneInfos ==
  [priority : Nat, path : Paths \cup {NoPath}, time : Nat,
   addr : Servers \cup {NoServer}, ok : BOOLEAN, hasV4 : BOOLEAN, hasV6 : BOOLEAN]

VARIABLES
  pc,       \* where the thread is
  config,   \* what the file holds
  zones,    \* m_vsZoneInfos
  at        \* the zone a loop has come to

LoadInit ==
  /\ pc = "options"
  /\ config \in Configs
  /\ zones = <<>>
  /\ at = 1
-------------------------------------------------------------------------------
HasEnabledList(lists, family) ==
  \E i \in DOMAIN lists : lists[i].enable /\ lists[i].family = family

(* No ipList makes the loading fail; LoadFile is not asked about one that  *)
(* is not enabled.                                                         *)
ListsLoad(lists) ==
  \A i \in DOMAIN lists :
    /\ lists[i].typed /\ lists[i].family \in {4, 6}
    /\ lists[i].enable => lists[i].loads

(* The entry passes the checks that follow the one of "enable".            *)
Loads(e) == (e.path = NoPath => e.server # NoServer) /\ ListsLoad(e.lists)

(* valueint, an int, is stored in an unsigned int.                         *)
Unsigned(n) == n % PriorityRange

ZoneOf(e) ==
  [priority |-> Unsigned(e.priority),
   path     |-> e.path,
   time     |-> 0,
   addr     |-> IF e.path = NoPath THEN e.server ELSE NoServer,
   ok       |-> e.path = NoPath,
   hasV4    |-> HasEnabledList(e.lists, 4),
   hasV6    |-> HasEnabledList(e.lists, 6)]

(* GetBinByFile and cJSON_Parse, then bindIP and serverPort                *)
ReadConfig ==
  /\ pc = "config"
  /\ pc' = IF config.parses /\ config.binds THEN "zones" ELSE "end"
  /\ UNCHANGED <<config, zones, at>>

(* One element of zoneList                                                 *)
ReadZone ==
  /\ pc = "zones" /\ at \in DOMAIN config.zones
  /\ LET e == config.zones[at] IN
       \/ /\ ~e.typed \/ (e.enable /\ ~Loads(e))
          /\ pc' = "end"
          /\ UNCHANGED <<zones, at>>
       \/ /\ e.typed /\ ~e.enable
          /\ at' = at + 1
          /\ UNCHANGED <<pc, zones>>
       \/ /\ e.typed /\ e.enable /\ Loads(e)
          /\ zones' = Append(zones, ZoneOf(e))
          /\ at' = at + 1
          /\ UNCHANGED pc
  /\ UNCHANGED config

(* Slip: the zones stay in the order of the file.                          *)
Unsorted(zs) == {zs}

(* What sort may make of zs: ZoneInfoCompare leaves equal ones in any      *)
(* order.                                                                  *)
Sorted(zs) ==
  {s \in {[i \in DOMAIN zs |-> zs[p[i]]] : p \in Bijection(DOMAIN zs, DOMAIN zs)} :
     \A i, j \in DOMAIN s : i < j => s[i].priority <= s[j].priority}

SortZones ==
  /\ pc = "zones" /\ at > Len(config.zones)
  /\ zones' \in Sorted(zones)
  /\ at' = 1
  /\ pc' = "loaded"
  /\ UNCHANGED config

LoadConfigJson == ReadConfig \/ ReadZone \/ SortZones
-------------------------------------------------------------------------------
(* The places in zoneList of the zones to load                             *)
Enabled == {k \in DOMAIN config.zones : config.zones[k].enable}

(* README: zones are "matched in ascending priority order".  The order of  *)
(* the loaded zones, which numbers them and makes the first one the        *)
(* fallback, is that of the priorities in the file, if none is negative.   *)
InPriorityOrder ==
  (\A k \in Enabled : config.zones[k].priority \in 0 .. PriorityRange - 1) =>
    \A n \in DOMAIN zones :
      Cardinality({k \in Enabled : config.zones[k].priority < zones[n].priority}) < n

(* Loading is all or nothing: if it succeeds, every element of the file,   *)
(* the disabled ones too, has its fields, every enabled list could be read,*)
(* and the zones are the enabled ones, in order, each with the families of *)
(* its enabled lists: what ZoneTakesPart and the judgement go by.          *)
LoadedAsWritten ==
  pc = "loaded" =>
    /\ \A i \in DOMAIN config.zones : config.zones[i].typed
    /\ Len(zones) = Cardinality(Enabled) /\ InPriorityOrder
    /\ \A i \in DOMAIN zones :
         \E k \in Enabled :
           LET e == config.zones[k] IN
             /\ zones[i].path = e.path
             /\ e.path = NoPath => zones[i].ok /\ zones[i].addr = e.server /\ e.server # NoServer
             /\ \A l \in ToSet(e.lists) : l.typed /\ (l.enable => l.loads)
             /\ zones[i].hasV4 <=> \E l \in ToSet(e.lists) : l.enable /\ l.family = 4
             /\ zones[i].hasV6 <=> \E l \in ToSet(e.lists) : l.enable /\ l.family = 6
===============================================================================
