---------------------------- MODULE IPList_proofs -----------------------------
(***************************************************************************)
(* The lookup of an address, for every choice of addresses, prefixes and   *)
(* lists: it never leaves the list, never invents a match, and agrees with *)
(* membership when no range of a list lies within another.                 *)
(***************************************************************************)
EXTENDS IPList, TLAPS

(* LoadFile leaves the items of every table sorted.                        *)
AllSorted == \A t \in DOMAIN tables : Sorted(tables[t].items)

(* The search of a table, in its middle and at its end                     *)
SearchSound ==
  /\ pc \in {"probe", "report"} => tables[at].kind.family = family
  /\ pc = "probe" => /\ ret = FALSE /\ begin <= end
                     /\ probes + (end - begin) < Len(tables[at].items)
  /\ pc = "report" /\ Unnested(at) => (ret <=> Covered(at))

(* The tables behind the iterator do not match.                            *)
EarlierMiss ==
  AllUnnested /\ pc \in {"table", "probe", "report"} =>
    \A u \in 1 .. at - 1 : ~Matches(u)

(* There is an answer only when no lookup is under way.                    *)
AnswerIsLast == answer # "none" => pc = "ready"

(* The inductive invariant.                                                *)
IInv ==
  /\ TypeOK /\ AllSorted
  /\ NothingLeftBehind /\ NeverInvented /\ SearchSound /\ SearchEnds
  /\ EarlierMiss /\ AnswerIsLast /\ AgreesWithMembership
-------------------------------------------------------------------------------
(* Ranges and comparisons                                                  *)

(* The bounds of a range are numbers.                                      *)
LEMMA RangeType ==
  ASSUME NEW item \in Ranges
  PROVE  item.first \in Int /\ item.last \in Int
<1>1. PICK address \in Addresses, size \in Sizes : item = RangeOf(address, size)
  BY DEF Ranges
<1>2. address \in Int /\ size \in Nat \ {0}
  BY ListAssumption
<1>3. address % size \in Int
  BY <1>2
<1> QED
  BY <1>1, <1>2, <1>3 DEF RangeOf

(* A table's items are a sequence of ranges.                               *)
LEMMA ItemsType ==
  ASSUME TypeOK, NEW t \in DOMAIN tables
  PROVE  /\ t \in Nat /\ tables[t] \in Tables
         /\ tables[t].items \in Seq(Ranges) /\ Len(tables[t].items) \in Nat
         /\ DOMAIN tables[t].items = 1 .. Len(tables[t].items)
<1>1. tables \in Seq(Tables)
  BY DEF TypeOK
<1>2. t \in Nat /\ tables[t] \in Tables
  BY <1>1
<1>3. tables[t].items \in Seq(Ranges)
  BY <1>2 DEF Tables
<1> QED
  BY <1>2, <1>3

(* MatchCompare says on which side of a range the address lies.            *)
LEMMA CompareMeans ==
  ASSUME TypeOK, at \in DOMAIN tables, NEW i \in DOMAIN tables[at].items
  PROVE  LET item == tables[at].items[i]
         IN  /\ item.first \in Int /\ item.last \in Int /\ ip \in Int
             /\ Compared(i) = 0 <=> Within(item)
             /\ Compared(i) < 0 <=> ip < item.first
             /\ Compared(i) > 0 => ip > item.last
<1>1. tables[at].items \in Seq(Ranges)
  BY ItemsType
<1>2. tables[at].items[i] \in Ranges
  BY <1>1
<1>3. ip \in Int
  BY ListAssumption DEF TypeOK
<1> QED
  BY <1>2, <1>3, RangeType DEF Compared, MatchCompare, Within

(* An item above the address, or a range of the address before it, bounds  *)
(* the ranges that can hold it, because the items are sorted.              *)
LEMMA BelowOnly ==
  ASSUME TypeOK, AllSorted, at \in DOMAIN tables,
         NEW m \in DOMAIN tables[at].items, Compared(m) < 0,
         NEW i \in DOMAIN tables[at].items, Within(tables[at].items[i])
  PROVE  i < m
<1> DEFINE items == tables[at].items
<1>1. i \in Nat /\ m \in Nat
  BY ItemsType
<1>2. ip \in Int /\ items[i].first \in Int /\ items[m].first \in Int
  BY CompareMeans
<1>3. items[i].first <= ip /\ ip < items[m].first
  BY CompareMeans DEF Within
<1>4. m <= i => items[m].first <= items[i].first
  BY <1>1, <1>2 DEF AllSorted, Sorted
<1> QED
  BY <1>1, <1>2, <1>3, <1>4

(* The same above, where it takes that no range lies within an earlier one.*)
LEMMA AboveOnly ==
  ASSUME TypeOK, Unnested(at), at \in DOMAIN tables,
         NEW m \in DOMAIN tables[at].items, Compared(m) > 0,
         NEW i \in DOMAIN tables[at].items, Within(tables[at].items[i])
  PROVE  i > m
<1> DEFINE items == tables[at].items
<1>1. i \in Nat /\ m \in Nat
  BY ItemsType
<1>2. ip \in Int /\ items[i].last \in Int /\ items[m].last \in Int
  BY CompareMeans
<1>3. ip <= items[i].last /\ ip > items[m].last
  BY CompareMeans DEF Within
<1>4. i <= m => items[i].last <= items[m].last
  BY <1>1, <1>2 DEF Unnested
<1> QED
  BY <1>1, <1>2, <1>3, <1>4
-------------------------------------------------------------------------------
(* Types                                                                   *)

(* A line loaded leaves a sequence of ranges.                              *)
LEMMA LoadedType ==
  ASSUME NEW items \in Seq(Ranges), NEW item \in Ranges, NEW s \in Loaded(items, item)
  PROVE  s \in Seq(Ranges) /\ Sorted(s)
<1>1. PICK i \in 1 .. Len(items) + 1 : s = InsertAt(items, i, item)
  BY DEF Loaded
<1>2. SubSeq(items, 1, i - 1) \in Seq(Ranges) /\ SubSeq(items, i, Len(items)) \in Seq(Ranges)
  OBVIOUS
<1>3. <<item>> \in Seq(Ranges)
  OBVIOUS
<1>4. s \in Seq(Ranges)
  BY <1>1, <1>2, <1>3 DEF InsertAt
<1> QED
  BY <1>4 DEF Loaded

(* Loading keeps the tables well typed and sorted.                         *)
LEMMA LoadTyped ==
  ASSUME TypeOK, AllSorted, AnswerIsLast, Load
  PROVE  /\ TypeOK' /\ AllSorted'
         /\ answer' = "none" /\ pc' \in {"loading", "refused", "ready"}
<1>1. ASSUME NEW kind \in Kinds, NewTable(kind)
      PROVE  TypeOK' /\ AllSorted'
  <2> DEFINE table == [kind |-> kind, items |-> <<>>]
  <2>1. table \in Tables /\ Sorted(table.items)
    BY DEF Tables, Sorted
  <2>2. tables' \in Seq(Tables) /\ Len(tables') = Len(tables) + 1
    BY <1>1, <2>1 DEF NewTable, TypeOK
  <2>3. \A t \in DOMAIN tables' : tables'[t] = IF t = Len(tables) + 1 THEN table ELSE tables[t]
    BY <1>1, <2>1 DEF NewTable, TypeOK
  <2>4. AllSorted'
    BY <2>1, <2>2, <2>3, <1>1 DEF AllSorted, TypeOK, Sorted
  <2>5. TypeOK'
    BY <2>2, <1>1 DEF NewTable, TypeOK, lookup
  <2> QED
    BY <2>4, <2>5
<1>2. ASSUME NEW item \in Ranges, ReadLine(item)
      PROVE  TypeOK' /\ AllSorted'
  <2> DEFINE n == Len(tables)
  <2>1. n \in DOMAIN tables /\ Last(tables) = tables[n] /\ tables[n] \in Tables
    BY <1>2 DEF ReadLine, TypeOK, Last
  <2>2. PICK items \in Loaded(tables[n].items, item) :
          tables' = [tables EXCEPT ![n].items = items]
    BY <1>2, <2>1 DEF ReadLine
  <2>3. items \in Seq(Ranges) /\ Sorted(items)
    BY <2>1, LoadedType DEF Tables
  <2>4. [tables[n] EXCEPT !.items = items] \in Tables
    BY <2>1, <2>3 DEF Tables
  <2>5. tables' = [tables EXCEPT ![n] = [tables[n] EXCEPT !.items = items]]
    BY <2>1, <2>2
  <2>6. tables' \in Seq(Tables) /\ Len(tables') = Len(tables)
    BY <2>1, <2>4, <2>5 DEF TypeOK
  <2>7. \A t \in DOMAIN tables' :
          tables'[t].items = IF t = n THEN items ELSE tables[t].items
    BY <2>1, <2>5, <2>4 DEF TypeOK, Tables
  <2>8. AllSorted'
    BY <2>3, <2>6, <2>7 DEF AllSorted, TypeOK, Sorted
  <2>9. TypeOK'
    BY <2>6, <1>2, ListAssumption DEF ReadLine, TypeOK, lookup
  <2> QED
    BY <2>8, <2>9
<1>3. ASSUME BadLine \/ Start
      PROVE  TypeOK' /\ AllSorted'
  BY <1>3 DEF BadLine, Start, TypeOK, AllSorted, Sorted, lookup
<1>4. answer' = "none" /\ pc' \in {"loading", "refused", "ready"}
  BY DEF Load, NewTable, ReadLine, BadLine, Start, lookup, AnswerIsLast
<1> QED
  BY <1>1, <1>2, <1>3, <1>4 DEF Load

(* A probe stays inside the list it searches.                              *)
LEMMA MidInside ==
  ASSUME TypeOK, pc = "probe", begin <= end
  PROVE  /\ at \in DOMAIN tables
         /\ DOMAIN tables[at].items = 1 .. Len(tables[at].items)
         /\ begin \in DOMAIN tables[at].items /\ end \in DOMAIN tables[at].items
         /\ Mid \in DOMAIN tables[at].items
         /\ begin \in Nat /\ end \in Nat /\ Mid \in Nat
         /\ begin <= Mid /\ Mid <= end
         /\ begin # end => Mid < end
         /\ begin = Mid => end = begin \/ end = begin + 1
<1>1. at \in DOMAIN tables
  BY DEF TypeOK
<1>2. begin \in 1 .. Len(tables[at].items) /\ end \in 1 .. Len(tables[at].items)
  BY <1>1, ItemsType DEF TypeOK
<1> QED
  BY <1>1, <1>2, ItemsType DEF Mid
-------------------------------------------------------------------------------
(* One iteration of the search                                             *)

(* A search that goes on leaves no range of the address behind, and is     *)
(* shorter; one that ends has found the address or, if no range lies       *)
(* within another, knows that there is none.                               *)
LEMMA ProbeSound ==
  ASSUME TypeOK, AllSorted, NothingLeftBehind, SearchSound, Probe
  PROVE  /\ pc' \in {"probe", "report"} /\ ret' \in BOOLEAN
         /\ begin' \in DOMAIN tables[at].items /\ end' \in DOMAIN tables[at].items
         /\ pc' = "probe" => /\ ret' = FALSE /\ begin' <= end'
                             /\ end' - begin' < end - begin
         /\ pc' = "report" /\ ret' => Covered(at)
         /\ Unnested(at) =>
              \A i \in DOMAIN tables[at].items :
                Within(tables[at].items[i]) =>
                  \/ pc' = "probe" /\ i \in begin' .. end'
                  \/ pc' = "report" /\ ret'
<1> DEFINE items == tables[at].items
<1>1. pc = "probe" /\ begin <= end /\ ret = FALSE
  BY DEF Probe, SearchSound
<1>2. /\ at \in DOMAIN tables /\ DOMAIN items = 1 .. Len(items)
      /\ begin \in DOMAIN items /\ end \in DOMAIN items /\ Mid \in DOMAIN items
      /\ begin \in Nat /\ end \in Nat /\ Mid \in Nat
      /\ begin <= Mid /\ Mid <= end
      /\ begin # end => Mid < end
      /\ begin = Mid => end = begin \/ end = begin + 1
  BY <1>1, MidInside
<1>3. \A i \in DOMAIN items : i \in Nat /\ (Compared(i) = 0 <=> Within(items[i]))
  BY <1>2, ItemsType, CompareMeans
<1>4. ASSUME Unnested(at), NEW i \in DOMAIN items, Within(items[i])
      PROVE  i \in begin .. end
  BY <1>1, <1>4 DEF NothingLeftBehind
<1>5. CASE Compared(Mid) = 0 /\ Found(TRUE)
  <2>1. pc' = "report" /\ ret' = TRUE /\ begin' = begin /\ end' = end
    BY <1>5 DEF Found
  <2>2. Covered(at)
    BY <1>2, <1>3, <1>5 DEF Covered
  <2> QED
    BY <1>2, <2>1, <2>2
<1>6. CASE Compared(Mid) < 0 /\ end # Mid /\ Narrowed(begin, Mid)
  <2>1. begin' = begin /\ end' = Mid /\ ret' = FALSE
        /\ pc' = IF begin = Mid THEN "report" ELSE "probe"
    BY <1>1, <1>6 DEF Narrowed
  <2>2. ASSUME Unnested(at), NEW i \in DOMAIN items, Within(items[i])
        PROVE  pc' = "probe" /\ i \in begin' .. end'
    <3>1. i < Mid /\ i \in begin .. end
      BY <1>2, <1>4, <1>6, <2>2, BelowOnly
    <3> QED
      BY <1>2, <1>3, <2>1, <3>1
  <2>3. begin' \in DOMAIN items /\ end' \in DOMAIN items /\ begin' <= end'
        /\ end' - begin' < end - begin
    BY <1>2, <1>6, <2>1
  <2>4. pc' \in {"probe", "report"} /\ ret' = FALSE
    BY <2>1
  <2> QED
    BY <2>2, <2>3, <2>4
<1>7. CASE Compared(Mid) < 0 /\ end = Mid /\ Found(Compared(begin) = 0)
  <2>1. pc' = "report" /\ ret' = (Compared(begin) = 0) /\ begin' = begin /\ end' = end
    BY <1>7 DEF Found
  <2>2. begin = end
    BY <1>2, <1>7
  <2>3. Compared(begin) # 0
    BY <1>2, <1>7, <2>2, CompareMeans DEF Compared, MatchCompare
  <2>4. ASSUME Unnested(at), NEW i \in DOMAIN items, Within(items[i])
        PROVE  FALSE
    <3>1. i < Mid /\ i \in begin .. end
      BY <1>2, <1>4, <1>7, <2>4, BelowOnly
    <3> QED
      BY <1>2, <1>3, <2>2, <1>7, <3>1
  <2> QED
    BY <1>2, <2>1, <2>3, <2>4
<1>8. CASE Compared(Mid) > 0 /\ begin # Mid /\ Narrowed(Mid, end)
  <2>1. begin' = Mid /\ end' = end /\ ret' = FALSE /\ Mid < end /\ pc' = "probe"
    BY <1>1, <1>2, <1>8 DEF Narrowed
  <2>2. ASSUME Unnested(at), NEW i \in DOMAIN items, Within(items[i])
        PROVE  i \in begin' .. end'
    <3>1. i > Mid /\ i \in begin .. end
      BY <1>2, <1>4, <1>8, <2>2, AboveOnly
    <3> QED
      BY <1>2, <1>3, <2>1, <3>1
  <2>3. begin' \in DOMAIN items /\ end' \in DOMAIN items /\ begin' <= end'
        /\ end' - begin' < end - begin
    BY <1>2, <1>8, <2>1
  <2> QED
    BY <2>1, <2>2, <2>3
<1>9. CASE Compared(Mid) > 0 /\ begin = Mid /\ Found(Compared(end) = 0)
  <2>1. pc' = "report" /\ ret' = (Compared(end) = 0) /\ begin' = begin /\ end' = end
    BY <1>9 DEF Found
  <2>2. ret' => Covered(at)
    BY <1>2, <1>3, <2>1 DEF Covered
  <2>3. ASSUME Unnested(at), NEW i \in DOMAIN items, Within(items[i])
        PROVE  ret' = TRUE
    <3>1. i > Mid /\ i \in begin .. end
      BY <1>2, <1>4, <1>9, <2>3, AboveOnly
    <3>2. i = end
      BY <1>2, <1>3, <1>9, <3>1
    <3> QED
      BY <1>3, <2>1, <2>3, <3>2
  <2> QED
    BY <1>2, <2>1, <2>2, <2>3
<1> QED
  BY <1>5, <1>6, <1>7, <1>8, <1>9 DEF Probe

(* The lists and the address decide what matches.                          *)
LEMMA SameLists ==
  ASSUME tables' = tables, family' = family, ip' = ip
  PROVE  /\ AllSorted' <=> AllSorted
         /\ AllUnnested' <=> AllUnnested
         /\ Inside' <=> Inside
         /\ \A t : /\ Unnested(t)' <=> Unnested(t)
                   /\ Covered(t)' <=> Covered(t)
                   /\ Matches(t)' <=> Matches(t)
<1>1. \A t : Unnested(t)' <=> Unnested(t)
  BY DEF Unnested
<1>2. \A t : Covered(t)' <=> Covered(t)
  BY DEF Covered, Within
<1>3. \A t : Matches(t)' <=> Matches(t)
  BY <1>2, Zenon DEF Matches, Covered, Within
<1>4. AllSorted' <=> AllSorted
  BY DEF AllSorted, Sorted
<1>5. AllUnnested' <=> AllUnnested
  BY <1>1 DEF AllUnnested
<1>6. Inside' <=> Inside
  BY <1>3, Zenon DEF Inside
<1> QED
  BY <1>1, <1>2, <1>3, <1>4, <1>5, <1>6

(* What Report finds of the table it leaves                                *)
LEMMA ReportMeans ==
  ASSUME TypeOK, SearchSound, AllUnnested, pc = "report"
  PROVE  (ret # tables[at].kind.inverse) <=> Matches(at)
<1>1. at \in DOMAIN tables /\ tables[at].kind.family = family
  BY DEF TypeOK, SearchSound
<1>2. tables[at].kind \in Kinds
  BY <1>1, ItemsType DEF Tables
<1>2a. tables[at].kind.inverse \in BOOLEAN
  BY <1>2, ListAssumption
<1>2b. ret \in BOOLEAN
  BY DEF TypeOK
<1>3. ret <=> Covered(at)
  BY <1>1 DEF SearchSound, AllUnnested
<1>4. Covered(at) \in BOOLEAN
  BY DEF Covered
<1> QED
  BY <1>1, <1>2a, <1>2b, <1>3, <1>4, Zenon DEF Matches
-------------------------------------------------------------------------------
(* The invariant                                                           *)

LEMMA InitInvariant == Init => IInv
<1> SUFFICES ASSUME Init PROVE IInv
  OBVIOUS
<1>1. ip \in Addresses
  BY ListAssumption DEF Init
<1>2. tables \in Seq(Tables) /\ at \in 1 .. Len(tables) + 1 /\ lines \in 0 .. MaxLines
  BY ListAssumption DEF Init
<1>2a. TypeOK
  BY <1>1, <1>2 DEF Init, TypeOK, Families
<1>3. AllSorted
  BY DEF Init, AllSorted
<1> QED
  BY <1>2a, <1>3 DEF Init, IInv, NothingLeftBehind, NeverInvented, SearchSound, EarlierMiss,
                    AnswerIsLast, AgreesWithMembership, SearchEnds

(* A lookup begins: nothing lies behind the first table.                   *)
LEMMA AskKeeps ==
  ASSUME IInv, NEW f \in Families, NEW address \in Addresses, Ask(f, address)
  PROVE  IInv'
<1>1. TypeOK'
  BY DEF IInv, TypeOK, Ask
<1>2. AllSorted'
  BY DEF IInv, AllSorted, Sorted, Ask
<1>3. EarlierMiss'
  BY DEF Ask, EarlierMiss
<1> QED
  BY <1>1, <1>2, <1>3
  DEF Ask, IInv, NothingLeftBehind, NeverInvented, SearchSound, AnswerIsLast, AgreesWithMembership,
      SearchEnds

(* The search of a table begins with all of it.                            *)
LEMMA EnterTableKeeps ==
  ASSUME IInv, EnterTable
  PROVE  IInv'
<1> USE DEF IInv
<1>1. /\ tables' = tables /\ family' = family /\ ip' = ip /\ at' = at
      /\ lines' = lines /\ answer' = answer
      /\ pc = "table" /\ at <= Len(tables) /\ tables[at].kind.family = family
      /\ begin' = 1 /\ end' = Len(tables[at].items) /\ ret' = FALSE
      /\ probes' = 0
      /\ pc' = IF tables[at].items = <<>> THEN "report" ELSE "probe"
  BY DEF EnterTable
<1>2. at \in DOMAIN tables
  BY <1>1 DEF TypeOK
<1>3. /\ tables[at].items \in Seq(Ranges) /\ Len(tables[at].items) \in Nat
      /\ DOMAIN tables[at].items = 1 .. Len(tables[at].items)
  BY <1>2, ItemsType
<1>4. pc' = "probe" => 1 <= Len(tables[at].items)
  BY <1>1, <1>3
<1>5. pc' = "report" => DOMAIN tables[at].items = {}
  BY <1>1, <1>3
<1>6. answer = "none"
  BY <1>1 DEF AnswerIsLast, TypeOK
<1>7. TypeOK'
  <2>1. begin' \in Nat /\ end' \in Nat
    BY <1>1, <1>3
  <2>2. pc' = "probe" => {begin', end'} \subseteq DOMAIN tables[at].items
    BY <1>1, <1>3, <1>4
  <2>3. pc' \in {"probe", "report"} /\ ret' \in BOOLEAN
    BY <1>1
  <2> QED
    BY <1>1, <1>2, <2>1, <2>2, <2>3 DEF TypeOK
<1>8. AllSorted'
  BY <1>1, SameLists
<1>9. NothingLeftBehind' /\ NeverInvented'
  BY <1>1, <1>3 DEF NothingLeftBehind, NeverInvented
<1>10. SearchSound'
  <2>1. pc' = "report" => ~Covered(at)
    BY <1>5 DEF Covered
  <2> QED
    BY <1>1, <1>3, <1>4, <2>1, SameLists DEF SearchSound
<1>10a. SearchEnds'
  BY <1>1, <1>3 DEF SearchEnds
<1>11. EarlierMiss'
  BY <1>1, SameLists DEF EarlierMiss
<1> QED
  BY <1>1, <1>6, <1>7, <1>8, <1>9, <1>10, <1>10a, <1>11 DEF AnswerIsLast, AgreesWithMembership

(* A table of the other family does not match.                             *)
LEMMA SkipTableKeeps ==
  ASSUME IInv, SkipTable
  PROVE  IInv'
<1> USE DEF IInv
<1>1. /\ tables' = tables /\ family' = family /\ ip' = ip /\ at' = at + 1
      /\ pc = "table" /\ pc' = "table" /\ answer' = answer
      /\ at <= Len(tables) /\ tables[at].kind.family # family
  BY DEF SkipTable
<1>2. TypeOK'
  BY DEF TypeOK, SkipTable
<1>3. AllSorted'
  BY <1>1, SameLists
<1>4. answer = "none"
  BY <1>1 DEF AnswerIsLast, TypeOK
<1>5. ~Matches(at)
  BY <1>1 DEF Matches
<1>6. EarlierMiss'
  <2>1. AllUnnested => \A u \in 1 .. at : ~Matches(u)
    BY <1>1, <1>5 DEF EarlierMiss, TypeOK
  <2>2. at' - 1 = at
    BY <1>1 DEF TypeOK
  <2> QED
    BY <1>1, <2>1, <2>2, SameLists DEF EarlierMiss
<1> QED
  BY <1>1, <1>2, <1>3, <1>4, <1>6
  DEF NothingLeftBehind, NeverInvented, SearchSound, SearchEnds, AnswerIsLast, AgreesWithMembership

(* Behind the last table, no table matches.                                *)
LEMMA NoTableLeftKeeps ==
  ASSUME IInv, NoTableLeft
  PROVE  IInv'
<1> USE DEF IInv
<1>1. /\ tables' = tables /\ family' = family /\ ip' = ip /\ at > Len(tables)
      /\ pc = "table" /\ pc' = "ready" /\ answer' = "outside"
  BY DEF NoTableLeft
<1>2. TypeOK'
  BY DEF TypeOK, NoTableLeft
<1>3. AllSorted'
  BY <1>1, SameLists
<1>4. AgreesWithMembership'
  <2>1. DOMAIN tables = 1 .. at - 1
    BY <1>1 DEF TypeOK
  <2>2. AllUnnested => ~Inside
    BY <1>1, <2>1 DEF EarlierMiss, Inside
  <2> QED
    BY <1>1, <2>2, SameLists DEF AgreesWithMembership
<1> QED
  BY <1>1, <1>2, <1>3, <1>4
  DEF NothingLeftBehind, NeverInvented, SearchSound, SearchEnds, EarlierMiss, AnswerIsLast

(* The search goes on, or ends.                                            *)
LEMMA ProbeKeeps ==
  ASSUME IInv, Probe
  PROVE  IInv'
<1> USE DEF IInv
<1>1. /\ tables' = tables /\ family' = family /\ ip' = ip /\ at' = at
      /\ lines' = lines /\ answer' = answer /\ pc = "probe"
      /\ probes' = probes + 1
  BY DEF Probe
<1>2. /\ pc' \in {"probe", "report"} /\ ret' \in BOOLEAN
      /\ begin' \in DOMAIN tables[at].items /\ end' \in DOMAIN tables[at].items
      /\ pc' = "probe" => ret' = FALSE /\ begin' <= end' /\ end' - begin' < end - begin
      /\ pc' = "report" /\ ret' => Covered(at)
      /\ Unnested(at) =>
           \A i \in DOMAIN tables[at].items :
             Within(tables[at].items[i]) =>
               \/ pc' = "probe" /\ i \in begin' .. end'
               \/ pc' = "report" /\ ret'
  BY ProbeSound
<1>3. at \in DOMAIN tables /\ answer = "none" /\ tables[at].kind.family = family
  BY <1>1 DEF TypeOK, AnswerIsLast, SearchSound
<1>4. begin' \in Nat /\ end' \in Nat /\ probes \in Nat
  BY <1>2, <1>3, ItemsType DEF TypeOK
<1>4a. /\ Len(tables[at].items) \in Nat /\ begin \in Nat /\ end \in Nat /\ begin <= end
       /\ probes + (end - begin) < Len(tables[at].items)
  BY <1>1, <1>3, ItemsType DEF TypeOK, SearchSound
<1>4b. pc' = "probe" => probes' + (end' - begin') < Len(tables[at].items)
  BY <1>1, <1>2, <1>4, <1>4a
<1>5. TypeOK'
  BY <1>1, <1>2, <1>3, <1>4 DEF TypeOK
<1>6. AllSorted'
  BY <1>1, SameLists
<1>7. NothingLeftBehind'
  BY <1>1, <1>2, SameLists DEF NothingLeftBehind, Within
<1>8. NeverInvented'
  BY <1>1, <1>2, SameLists DEF NeverInvented
<1>9. SearchSound'
  <2>1. pc' = "report" /\ Unnested(at) => (ret' <=> Covered(at))
    BY <1>2 DEF Covered
  <2> QED
    BY <1>1, <1>2, <1>3, <1>4b, <2>1, SameLists DEF SearchSound
<1>9a. SearchEnds'
  BY <1>1, <1>4, <1>4a DEF SearchEnds
<1>10. EarlierMiss'
  BY <1>1, <1>2, SameLists DEF EarlierMiss
<1> QED
  BY <1>1, <1>3, <1>5, <1>6, <1>7, <1>8, <1>9, <1>9a, <1>10 DEF AnswerIsLast, AgreesWithMembership

(* The first table that matches decides; one that does not is left behind. *)
LEMMA ReportKeeps ==
  ASSUME IInv, Report
  PROVE  IInv'
<1> USE DEF IInv
<1>1. /\ tables' = tables /\ family' = family /\ ip' = ip /\ pc = "report"
  BY DEF Report
<1>2. at \in DOMAIN tables /\ answer = "none" /\ at \in Nat
  BY <1>1 DEF TypeOK, AnswerIsLast
<1>3. TypeOK'
  <2>1. /\ begin' = 1 /\ end' = 1 /\ ret' = FALSE /\ probes' = 0 /\ lines' = lines
        /\ at' \in {1, at + 1} /\ pc' \in {"ready", "table"}
        /\ answer' \in {"none", "inside", "outside"}
    BY <1>2 DEF Report
  <2>2. at' \in 1 .. Len(tables) + 1
    BY <1>2, <2>1 DEF TypeOK
  <2> QED
    BY <1>1, <2>1, <2>2 DEF TypeOK
<1>4. AllSorted'
  BY <1>1, SameLists
<1>5. pc' \in {"ready", "table"}
  BY DEF Report
<1>6. CASE ret # tables[at].kind.inverse
  <2>1. pc' = "ready" /\ answer' = IF tables[at].kind.deny THEN "outside" ELSE "inside"
    BY <1>6 DEF Report
  <2>2. ASSUME AllUnnested PROVE Inside <=> ~tables[at].kind.deny
    <3>1. Matches(at)
      BY <1>1, <1>6, <2>2, ReportMeans
    <3>2. \A u \in 1 .. at - 1 : ~Matches(u)
      BY <1>1, <2>2 DEF EarlierMiss
    <3>3. ASSUME NEW t \in DOMAIN tables, Matches(t), \A u \in 1 .. t - 1 : ~Matches(u)
          PROVE  t = at
      <4>1. t \in Nat /\ t >= 1 /\ at >= 1
        BY <1>2 DEF TypeOK
      <4>2. ~(t < at) /\ ~(at < t)
        BY <1>2, <3>1, <3>2, <3>3, <4>1
      <4> QED
        BY <1>2, <4>1, <4>2
    <3> QED
      BY <1>2, <3>1, <3>2, <3>3 DEF Inside
  <2>3. AgreesWithMembership'
    BY <1>1, <2>1, <2>2, SameLists DEF AgreesWithMembership
  <2> QED
    BY <1>3, <1>4, <2>1, <2>3
    DEF NothingLeftBehind, NeverInvented, SearchSound, SearchEnds, EarlierMiss, AnswerIsLast
<1>7. CASE ~(ret # tables[at].kind.inverse)
  <2>1. pc' = "table" /\ at' = at + 1 /\ answer' = answer
    BY <1>7 DEF Report
  <2>2. EarlierMiss'
    <3>1. AllUnnested => ~Matches(at)
      BY <1>1, <1>7, ReportMeans
    <3>2. AllUnnested => \A u \in 1 .. at : ~Matches(u)
      BY <1>1, <1>2, <3>1 DEF EarlierMiss
    <3>3. at' - 1 = at
      BY <1>2, <2>1
    <3> QED
      BY <1>1, <3>2, <3>3, SameLists DEF EarlierMiss
  <2> QED
    BY <1>2, <1>3, <1>4, <2>1, <2>2
    DEF NothingLeftBehind, NeverInvented, SearchSound, SearchEnds, AnswerIsLast,
        AgreesWithMembership
<1> QED
  BY <1>6, <1>7

(* Every step keeps the invariant.                                         *)
LEMMA StepInvariant == IInv /\ [Next]_vars => IInv'
<1> SUFFICES ASSUME IInv, [Next]_vars PROVE IInv'
  OBVIOUS
<1>1. CASE Load
  <2>1. TypeOK' /\ AllSorted' /\ answer' = "none" /\ pc' \in {"loading", "refused", "ready"}
    BY <1>1, LoadTyped DEF IInv
  <2> QED
    BY <2>1 DEF IInv, NothingLeftBehind, NeverInvented, SearchSound, SearchEnds, EarlierMiss,
                AnswerIsLast, AgreesWithMembership
<1>2. CASE \E f \in Families, address \in Addresses : Ask(f, address)
  BY <1>2, AskKeeps
<1>3. CASE CheckIsMatch
  BY <1>3, EnterTableKeeps, SkipTableKeeps, NoTableLeftKeeps, ProbeKeeps, ReportKeeps
  DEF CheckIsMatch
<1>4. CASE UNCHANGED vars
  <2>1. /\ tables' = tables /\ family' = family /\ ip' = ip /\ lines' = lines
        /\ pc' = pc /\ at' = at /\ begin' = begin /\ end' = end /\ ret' = ret
        /\ answer' = answer /\ probes' = probes
    BY <1>4 DEF vars
  <2>2. TypeOK'
    BY <2>1 DEF IInv, TypeOK
  <2>3. NothingLeftBehind' /\ NeverInvented' /\ SearchSound' /\ SearchEnds'
    BY <2>1, SameLists DEF IInv, NothingLeftBehind, NeverInvented, SearchSound, SearchEnds, Within
  <2> QED
    BY <2>1, <2>2, <2>3, SameLists DEF IInv, EarlierMiss, AnswerIsLast, AgreesWithMembership
<1> QED
  BY <1>1, <1>2, <1>3, <1>4 DEF Next

(* Type correctness, the sorted tables and the sound search are invariant, *)
(* for every choice of the constants.                                      *)
THEOREM Invariance == Spec => []IInv
<1> QED
  BY InitInvariant, StepInvariant, PTL DEF Spec

(* The search never indexes the items outside their list.                  *)
THEOREM TypeCorrect == Spec => []TypeOK
<1>1. IInv => TypeOK
  BY DEF IInv
<1> QED
  BY <1>1, Invariance, PTL

(* The lookup of ZoneInfo and IPInfo agrees with membership, for all lists *)
(* in which no range lies within an earlier one.                           *)
THEOREM LookupIsMembership == Spec => []AgreesWithMembership
<1>1. IInv => AgreesWithMembership
  BY DEF IInv
<1> QED
  BY <1>1, Invariance, PTL

(* The halves that the search drops hold no range of the address.          *)
THEOREM SearchLeavesNothing == Spec => []NothingLeftBehind
<1>1. IInv => NothingLeftBehind
  BY DEF IInv
<1> QED
  BY <1>1, Invariance, PTL

(* A match comes from a range that holds the address, whatever the list.   *)
THEOREM MatchIsCovered == Spec => []NeverInvented
<1>1. IInv => NeverInvented
  BY DEF IInv
<1> QED
  BY <1>1, Invariance, PTL

(* The do-while loop takes at most one iteration for each item, so it ends *)
(* on every list.                                                          *)
THEOREM SearchTerminates == Spec => []SearchEnds
<1>1. IInv => SearchEnds
  BY DEF IInv
<1> QED
  BY <1>1, Invariance, PTL
===============================================================================
