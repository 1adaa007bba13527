-------------------------------- MODULE IPList --------------------------------
(***************************************************************************)
(* The address lists of one zone: how they are loaded, and how an address  *)
(* of an answer is looked up in them.  A range is what one line of a file  *)
(* denotes, the first and the last address under its prefix; an item       *)
(* stands for an IPItemInfo or an IPItemInfo6, whose code is the same.  A  *)
(* table is an IPInfo.  A loading step is one line, a lookup step one      *)
(* iteration of a loop.  Positions are counted from 1, so the middle of    *)
(* the search is that of the code moved by one.                            *)
(***************************************************************************)
EXTENDS Integers, SequencesExt

CONSTANTS
  Addresses,        \* the addresses of either family
  Sizes,            \* how many addresses a prefix may cover
  Kinds,            \* the settings a list may have
  MaxTables,        \* bound on the lists of the zone
  MaxLines          \* bound on the lines of all its files

ASSUME ListAssumption ==
  /\ Addresses \subseteq Int /\ Addresses # {}
  /\ Sizes \subseteq Nat \ {0}
  /\ Kinds \subseteq [family : {4, 6}, inverse : BOOLEAN, deny : BOOLEAN]
  /\ MaxTables \in Nat /\ MaxLines \in Nat

(* SetFromString: the bits of the address below its prefix are cleared.    *)
RangeOf(address, size) ==
  LET first == address - (address % size)
  IN  [first |-> first, last |-> first + size - 1]

Ranges == {RangeOf(address, size) : address \in Addresses, size \in Sizes}

Families == {4, 6}

Tables == [kind : Kinds, items : Seq(Ranges)]

(* Slip: the address after a range is taken for its last one.              *)
MatchCompareTooFar(item, address) ==
  IF address < item.first THEN -1 ELSE IF address > item.last + 1 THEN 1 ELSE 0

MatchCompare(item, address) ==
  IF address < item.first THEN -1 ELSE IF address > item.last THEN 1 ELSE 0
-------------------------------------------------------------------------------
VARIABLES
  tables,           \* m_siIPInfos of the zone
  lines,            \* how many lines have been read
  pc,               \* where the thread is
  family, ip,       \* the address looked up
  at,               \* iterIPInfo of ZoneInfo::CheckIsMatch
  begin, end, ret,  \* nBegin, nEnd and ret of IPInfo::CheckIsMatch
  answer,           \* what ZoneInfo::CheckIsMatch returned last
  probes            \* history: iterations of the search of this list

vars == <<tables, lines, pc, family, ip, at, begin, end, ret, answer, probes>>
lookup == <<family, ip, at, begin, end, ret, answer, probes>>

Init ==
  /\ tables = <<>> /\ lines = 0
  /\ pc = "loading"
  /\ family = 4 /\ ip = CHOOSE a \in Addresses : TRUE   \* not read before Ask
  /\ at = 1 /\ begin = 1 /\ end = 1 /\ ret = FALSE
  /\ answer = "none" /\ probes = 0
-------------------------------------------------------------------------------
(* Loading: LoadConfig makes the tables in their order, LoadFile fills one *)

(* An enabled ipList begins.                                               *)
NewTable(kind) ==
  /\ pc = "loading" /\ Len(tables) < MaxTables
  /\ tables' = Append(tables, [kind |-> kind, items |-> <<>>])
  /\ UNCHANGED <<lines, pc, lookup>>

(* CompareIPItemInfo, CompareIPItemInfo6                                   *)
Sorted(items) ==
  \A i, j \in DOMAIN items : i < j => items[i].first <= items[j].first

(* One more line: push_back, and the place sort gives it.  sort leaves     *)
(* items with the same first address in any order, and sees them once all  *)
(* lines are there; since nothing is looked up before, the place is given  *)
(* at once.                                                                *)
Loaded(items, item) ==
  {s \in {InsertAt(items, i, item) : i \in 1 .. Len(items) + 1} : Sorted(s)}

ReadLine(item) ==
  /\ pc = "loading" /\ tables # <<>> /\ lines < MaxLines
  /\ \E items \in Loaded(Last(tables).items, item) :
       tables' = [tables EXCEPT ![Len(tables)].items = items]
  /\ lines' = lines + 1
  /\ UNCHANGED <<pc, lookup>>

(* A line that is no address, or one of the other family: LoadFile fails,  *)
(* and the program does not start.                                         *)
BadLine ==
  /\ pc = "loading" /\ tables # <<>>
  /\ pc' = "refused"
  /\ UNCHANGED <<tables, lines, lookup>>

Start ==
  /\ pc = "loading"
  /\ pc' = "ready"
  /\ UNCHANGED <<tables, lines, lookup>>
-------------------------------------------------------------------------------
(* Lookup                                                                  *)

(* m_bHasV4, m_bHasV6                                                      *)
HasList(f) == \E t \in DOMAIN tables : tables[t].kind.family = f

(* DNSQueryResult asks about an address of a family the zone has a list    *)
(* for.                                                                    *)
Ask(f, address) ==
  /\ pc = "ready" /\ HasList(f)
  /\ family' = f /\ ip' = address
  /\ at' = 1
  /\ answer' = "none"
  /\ pc' = "table"
  /\ UNCHANGED <<tables, lines, begin, end, ret, probes>>

(* Slip: the end of the search is the size of the list.                    *)
EnterTablePastEnd ==
  /\ pc = "table" /\ at <= Len(tables) /\ tables[at].kind.family = family
  /\ begin' = 1 /\ end' = Len(tables[at].items) + 1 /\ ret' = FALSE /\ probes' = 0
  /\ pc' = IF tables[at].items = <<>> THEN "report" ELSE "probe"
  /\ UNCHANGED <<tables, lines, family, ip, at, answer>>

(* IPInfo::CheckIsMatch begins; an empty list matches nothing.             *)
EnterTable ==
  /\ pc = "table" /\ at <= Len(tables) /\ tables[at].kind.family = family
  /\ begin' = 1 /\ end' = Len(tables[at].items) /\ ret' = FALSE /\ probes' = 0
  /\ pc' = IF tables[at].items = <<>> THEN "report" ELSE "probe"
  /\ UNCHANGED <<tables, lines, family, ip, at, answer>>

SkipTable ==
  /\ pc = "table" /\ at <= Len(tables) /\ tables[at].kind.family # family
  /\ at' = at + 1
  /\ UNCHANGED <<tables, lines, pc, family, ip, begin, end, ret, answer, probes>>

NoTableLeft ==
  /\ pc = "table" /\ at > Len(tables)
  /\ answer' = "outside"
  /\ pc' = "ready"
  /\ at' = 1
  /\ UNCHANGED <<tables, lines, family, ip, begin, end, ret, probes>>

Mid == (begin + end) \div 2
Compared(i) == MatchCompare(tables[at].items[i], ip)

(* The comparison that ends the search                                     *)
Found(hit) ==
  /\ ret' = hit /\ pc' = "report"
  /\ UNCHANGED <<begin, end>>

(* One narrowing of the search; it goes on unless one item is left.        *)
Narrowed(b, e) ==
  /\ begin' = b /\ end' = e
  /\ pc' = IF b = e THEN "report" ELSE "probe"
  /\ UNCHANGED ret

(* Slip: with two items left, the second is not compared.                  *)
ProbeForgetsEnd ==
  /\ pc = "probe"
  /\ \/ /\ Compared(Mid) = 0
        /\ Found(TRUE)
     \/ /\ Compared(Mid) < 0
        /\ IF end # Mid THEN Narrowed(begin, Mid) ELSE Found(Compared(begin) = 0)
     \/ /\ Compared(Mid) > 0
        /\ IF begin # Mid THEN Narrowed(Mid, end) ELSE Found(FALSE)
  /\ probes' = probes + 1
  /\ UNCHANGED <<tables, lines, family, ip, at, answer>>

(* Slip: with two items left, the upper half is searched again and again.  *)
ProbeForEver ==
  /\ pc = "probe"
  /\ \/ /\ Compared(Mid) = 0
        /\ Found(TRUE)
     \/ /\ Compared(Mid) < 0
        /\ IF end # Mid THEN Narrowed(begin, Mid) ELSE Found(Compared(begin) = 0)
     \/ /\ Compared(Mid) > 0
        /\ Narrowed(Mid, end)
  /\ probes' = probes + 1
  /\ UNCHANGED <<tables, lines, family, ip, at, answer>>

(* One iteration of the do-while loop                                      *)
Probe ==
  /\ pc = "probe"
  /\ \/ /\ Compared(Mid) = 0
        /\ Found(TRUE)
     \/ /\ Compared(Mid) < 0
        /\ IF end # Mid THEN Narrowed(begin, Mid) ELSE Found(Compared(begin) = 0)
     \/ /\ Compared(Mid) > 0
        /\ IF begin # Mid THEN Narrowed(Mid, end) ELSE Found(Compared(end) = 0)
  /\ probes' = probes + 1
  /\ UNCHANGED <<tables, lines, family, ip, at, answer>>

(* IPInfo::CheckIsMatch returns, and its variables are gone.  The first    *)
(* list that matches decides.                                              *)
Report ==
  /\ pc = "report"
  /\ IF ret # tables[at].kind.inverse
       THEN /\ answer' = IF tables[at].kind.deny THEN "outside" ELSE "inside"
            /\ pc' = "ready"
            /\ at' = 1
       ELSE /\ at' = at + 1
            /\ pc' = "table"
            /\ UNCHANGED answer
  /\ begin' = 1 /\ end' = 1 /\ ret' = FALSE /\ probes' = 0
  /\ UNCHANGED <<tables, lines, family, ip>>

Load ==
  \/ \E kind \in Kinds : NewTable(kind)
  \/ \E item \in Ranges : ReadLine(item)
  \/ BadLine
  \/ Start

CheckIsMatch == EnterTable \/ SkipTable \/ NoTableLeft \/ Probe \/ Report

Next ==
  \/ Load
  \/ \E f \in Families, address \in Addresses : Ask(f, address)
  \/ CheckIsMatch

Spec == Init /\ [][Next]_vars
-------------------------------------------------------------------------------
(* While a table is searched, nBegin and nEnd are positions of its vector: *)
(* the code indexes it without a check.                                    *)
TypeOK ==
  /\ tables \in Seq(Tables) /\ lines \in 0 .. MaxLines
  /\ pc \in {"loading", "refused", "ready", "table", "probe", "report"}
  /\ family \in Families /\ ip \in Addresses
  /\ at \in 1 .. Len(tables) + 1
  /\ begin \in Nat /\ end \in Nat /\ ret \in BOOLEAN
  /\ answer \in {"none", "inside", "outside"} /\ probes \in Nat
  /\ pc \in {"probe", "report"} => at \in DOMAIN tables
  /\ pc = "probe" => {begin, end} \subseteq DOMAIN tables[at].items

Within(item) == item.first <= ip /\ ip <= item.last
Covered(t) == \E i \in DOMAIN tables[t].items : Within(tables[t].items[i])
Matches(t) ==
  tables[t].kind.family = family /\ Covered(t) # tables[t].kind.inverse

(* What the lists say of the address, by membership: the first list of its *)
(* family that matches is no deny list.                                    *)
Inside ==
  \E t \in DOMAIN tables :
    /\ Matches(t) /\ ~tables[t].kind.deny
    /\ \A u \in 1 .. t - 1 : ~Matches(u)

(* No range lies within an earlier one, short of its last address: true of *)
(* every list of disjoint ranges.                                          *)
Unnested(t) ==
  \A i, j \in DOMAIN tables[t].items :
    i < j => tables[t].items[i].last <= tables[t].items[j].last

AllUnnested == \A t \in DOMAIN tables : Unnested(t)

(* The lookup of ZoneInfo and IPInfo agrees with membership, for lists     *)
(* without nested ranges.                                                  *)
AgreesWithMembership ==
  AllUnnested /\ answer # "none" => (answer = "inside" <=> Inside)

(* The part of the list still searched holds every range of the address,   *)
(* if there is one.                                                        *)
NothingLeftBehind ==
  pc = "probe" /\ Unnested(at) =>
    \A i \in DOMAIN tables[at].items :
      Within(tables[at].items[i]) => i \in begin .. end

(* Whatever the list, a match is never invented.                           *)
NeverInvented == pc = "report" /\ ret => Covered(at)

(* No search takes more iterations than the list has items: the loop ends  *)
(* on any list and for any address.                                        *)
SearchEnds ==
  pc \in {"probe", "report"} => probes <= Len(tables[at].items)

(* README: the ipList are lists of IP-range rule files.  An address in a   *)
(* range of a list is matched by it, however the ranges of the file lie.   *)
EveryRangeMatches == pc = "report" /\ Covered(at) => ret
===============================================================================
