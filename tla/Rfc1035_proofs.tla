---------------------------- MODULE Rfc1035_proofs ----------------------------
(***************************************************************************)
(* What the parsing and the rewriting of an answer guarantee for any       *)
(* answer an upstream can build: any number of records and parameters, any *)
(* pointers back, and any damage of the kinds Wire knows.                  *)
(***************************************************************************)
EXTENDS Rfc1035, FiniteSetTheorems, SequenceTheorems, TLAPS

-------------------------------------------------------------------------------
(* What a built answer looks like                                          *)

(* The last cell of the n-th record                                        *)
EndOf(n) == heads[n] + built[heads[n]].len

Service(n) == built[heads[n]].type \in {"SVCB", "HTTPS"}

(* The name that begins at k ends at e.                                    *)
NameAt(k, e) ==
  /\ k <= e /\ built[e].kind \in {"root", "pointer"}
  /\ \A j \in k .. e - 1 : built[j].kind = "label"

(* Records follow each other without a gap.                                *)
Chained ==
  /\ \A n \in DOMAIN heads :
       /\ heads[n] = IF n = 1 THEN 6 ELSE EndOf(n - 1) + 2
       /\ heads[n] \in 6 .. Len(built) /\ EndOf(n) \in heads[n] + 1 .. Len(built)
  /\ \A m, n \in DOMAIN heads : m < n => EndOf(m) < heads[n] - 1
  /\ Len(built) = IF heads = <<>> THEN 4 ELSE EndOf(Len(heads))

Opened == Len(built) >= 4 /\ \A k \in 1 .. 4 : built[k] = Question[k]

(* Each cell behind the question is an owner, the fields or data.          *)
Placed ==
  /\ \A n \in DOMAIN heads : built[heads[n] - 1].kind = "pointer" /\ built[heads[n]].kind = "fields"
  /\ \A k \in DOMAIN built : k > 4 =>
       \E n \in DOMAIN heads :
         \/ k = heads[n] - 1 \/ k = heads[n]
         \/ heads[n] < k /\ k <= EndOf(n) /\ built[k].kind \notin {"fields", "stub"}

PointsBack ==
  \A k \in DOMAIN built :
    /\ built[k].to \in 0 .. k - 1
    /\ built[k].kind = "pointer" => built[k].to > 0 /\ built[built[k].to].kind = "label"

PlainPointers == \A k \in DOMAIN built : built[k].kind = "pointer" => built[k] = Pointer(built[k].to)

(* A parameter lies within a record that may have some, and another one or *)
(* the next record follows.                                                *)
ParamsPlaced ==
  \A j \in DOMAIN built : built[j].kind = "param" =>
    \E n \in DOMAIN heads :
      /\ Service(n)
      /\ heads[n] < j /\ j + built[j].len <= EndOf(n)
      /\ \A k \in j + 1 .. j + built[j].len : built[k].kind = "value"
      /\ j + built[j].len < EndOf(n) => built[j + built[j].len + 1].kind = "param"

DataPlaced ==
  \A n \in DOMAIN heads :
    /\ built[heads[n]].type \in Types[qtype]
    /\ built[heads[n]].type \in {"A", "AAAA", "TXT"} => EndOf(n) = heads[n] + 1
    /\ Service(n) =>
         \E e \in heads[n] + 2 .. EndOf(n) :
           /\ NameAt(heads[n] + 2, e)
           /\ \A k \in heads[n] + 1 .. e : built[k].kind \notin {"param", "value"}
           /\ e < EndOf(n) => built[e + 1].kind = "param"

PriorityFirst == \A n \in DOMAIN heads : Service(n) => built[heads[n] + 1].kind # "pointer"

WellBuilt ==
  Opened /\ Chained /\ Placed /\ PointsBack /\ PlainPointers /\ ParamsPlaced /\ DataPlaced /\ PriorityFirst

BInv ==
  /\ qtype \in QTypes /\ built \in Seq(Cells) /\ heads \in Seq(Nat)
  /\ WellBuilt

LEMMA QuestionShape ==
  /\ Question \in Seq(Cells) /\ Len(Question) = 4 /\ DOMAIN Question = 1 .. 4
  /\ \A k \in 1 .. 4 : Question[k].kind \in {"header", "label", "root", "question"} /\ Question[k].to = 0
<1>1. \A kind \in Kinds : Cell(kind) \in Cells /\ Cell(kind).kind = kind /\ Cell(kind).to = 0
  BY DEF Cell, Cells, Marks
<1>2. {"header", "label", "root", "question"} \subseteq Kinds
  BY DEF Kinds
<1>3. /\ Cell("header") \in Cells /\ Cell("label") \in Cells /\ Cell("root") \in Cells /\ Cell("question") \in Cells
  BY <1>1, <1>2
<1> QED
  BY <1>1, <1>2, <1>3 DEF Question

LEMMA InitBuilt == Init => BInv
<1> SUFFICES ASSUME Init PROVE BInv
  OBVIOUS
<1>1. qtype \in QTypes /\ built = Question /\ heads = <<>>
  BY DEF Init, WireInit
<1>2. DOMAIN heads = {} /\ heads \in Seq(Nat)
  BY <1>1
<1>3. Chained
  BY <1>1, <1>2, QuestionShape DEF Chained
<1>4. Opened /\ Placed
  BY <1>1, <1>2, QuestionShape DEF Opened, Placed
<1>5. PointsBack /\ PlainPointers
  BY <1>1, QuestionShape DEF PointsBack, PlainPointers
<1>6. ParamsPlaced /\ DataPlaced
  BY <1>1, <1>2, QuestionShape DEF ParamsPlaced, DataPlaced
<1>7. PriorityFirst
  BY <1>2 DEF PriorityFirst
<1> QED
  BY <1>1, <1>2, <1>3, <1>4, <1>5, <1>6, <1>7, QuestionShape DEF BInv, WellBuilt
(* e is a followed by b.                                                   *)
Joins(e, a, b) ==
  /\ Len(e) = Len(a) + Len(b)
  /\ \A k \in 1 .. Len(a) : e[k] = a[k]
  /\ \A k \in 1 .. Len(b) : e[Len(a) + k] = b[k]

LEMMA Joined ==
  ASSUME NEW S, NEW a \in Seq(S), NEW b \in Seq(S)
  PROVE  a \o b \in Seq(S) /\ Joins(a \o b, a, b)
<1>1. Len(a) \in Nat /\ Len(b) \in Nat
  OBVIOUS
<1>2. a \o b \in Seq(S) /\ Len(a \o b) = Len(a) + Len(b)
  BY ConcatProperties, Zenon
<1>3. \A k \in 1 .. Len(a) + Len(b) : (a \o b)[k] = IF k <= Len(a) THEN a[k] ELSE b[k - Len(a)]
  BY ConcatProperties, Zenon
<1> QED
  BY <1>1, <1>2, <1>3, SMT DEF Joins

LEMMA CellFacts ==
  /\ \A kind \in Kinds : Cell(kind) \in Cells /\ Cell(kind).kind = kind /\ Cell(kind).to = 0
  /\ \A t \in Nat : Pointer(t) \in Cells /\ Pointer(t).kind = "pointer" /\ Pointer(t).to = t
BY DEF Cell, Pointer, Cells, Marks, Kinds

LEMMA CellOf ==
  ASSUME NEW s \in Seq(Cells), NEW k \in DOMAIN s
  PROVE  s[k] \in Cells /\ s[k].kind \in Kinds /\ s[k].type \in Marks /\ s[k].to \in Nat /\ s[k].len \in Nat
<1>1. s[k] \in Cells
  OBVIOUS
<1> QED
  BY <1>1 DEF Cells

LEMMA Resizing ==
  ASSUME NEW c \in Cells, NEW n \in Nat
  PROVE  /\ [c EXCEPT !.len = n] \in Cells /\ [c EXCEPT !.len = n].len = n
         /\ [c EXCEPT !.len = n].kind = c.kind /\ [c EXCEPT !.len = n].type = c.type /\ [c EXCEPT !.len = n].to = c.to
BY DEF Cells

(* What stands behind the fields of a new record                           *)
LEMMA RDataShape ==
  ASSUME BInv, NEW type, NEW rdata \in RData(type)
  PROVE  /\ rdata \in Seq(Cells) /\ Len(rdata) >= 1
         /\ \A k \in 1 .. Len(rdata) :
              /\ rdata[k].kind \notin {"fields", "stub", "param"}
              /\ rdata[k].to \in Labels \cup {0}
              /\ rdata[k].kind = "pointer" => rdata[k].to \in Labels /\ rdata[k] = Pointer(rdata[k].to)
         /\ type \in {"A", "AAAA", "TXT"} => Len(rdata) = 1
         /\ type \in {"SVCB", "HTTPS"} =>
              /\ Len(rdata) >= 2 /\ rdata[1].kind # "pointer" /\ rdata[Len(rdata)].kind \in {"root", "pointer"}
              /\ \A k \in 1 .. Len(rdata) : rdata[k].kind # "value"
              /\ \A k \in 2 .. Len(rdata) - 1 : rdata[k].kind = "label"
<1> USE CellFacts
<1>0. Labels \subseteq Nat /\ {"label", "root", "priority", "value", "pointer"} \subseteq Kinds
  BY DEF BInv, Labels, Kinds
<1>1. CASE type = "CNAME"
  <2>1. PICK t \in Labels : rdata = <<Pointer(t)>> \/ rdata = <<Cell("label"), Pointer(t)>>
    BY <1>1 DEF RData
  <2>2. t \in Nat
    BY <1>0
  <2>3. CASE rdata = <<Pointer(t)>>
    BY <1>0, <1>1, <2>2, <2>3
  <2>4. CASE rdata = <<Cell("label"), Pointer(t)>>
    BY <1>0, <1>1, <2>2, <2>4
  <2> QED
    BY <2>1, <2>3, <2>4
<1>2. CASE type \in {"SVCB", "HTTPS"}
  <2>1. rdata \in Services
    BY <1>2 DEF RData, Services
  <2>2. CASE rdata = <<Cell("priority"), Cell("root")>>
    BY <1>0, <1>2, <2>2
  <2>3. CASE rdata = <<Cell("priority"), Cell("label"), Cell("root")>>
    BY <1>0, <1>2, <2>3
  <2>4. CASE \E t \in Labels : rdata = <<Cell("priority"), Cell("label"), Pointer(t)>>
    BY <1>0, <1>2, <2>4
  <2> QED
    BY <2>1, <2>2, <2>3, <2>4 DEF Services
<1>3. CASE type \notin {"CNAME", "SVCB", "HTTPS"}
  <2>1. rdata = <<Cell("value")>>
    BY <1>3 DEF RData
  <2> QED
    BY <1>0, <1>3, <2>1
<1> QED
  BY <1>1, <1>2, <1>3

LEMMA AddRecordKeeps ==
  ASSUME BInv, AddRecord
  PROVE  BInv' /\ Len(built) <= Len(built')
<1> DEFINE L == Len(built)
<1>1. PICK type \in Types[qtype], t \in Labels : \E rdata \in RData(type) :
        built' = built \o <<Pointer(t), Fields(type, Len(rdata))>> \o rdata
  BY DEF AddRecord
<1>2. PICK rdata \in RData(type) : built' = built \o <<Pointer(t), Fields(type, Len(rdata))>> \o rdata
  BY <1>1
<1> DEFINE D == Len(rdata)
<1>3. /\ built \in Seq(Cells) /\ heads \in Seq(Nat) /\ qtype \in QTypes
      /\ Opened /\ Chained /\ Placed /\ PointsBack /\ PlainPointers /\ ParamsPlaced /\ DataPlaced /\ PriorityFirst
  BY DEF BInv, WellBuilt
<1>4. /\ rdata \in Seq(Cells) /\ D \in Nat /\ D >= 1
      /\ type \in {"A", "AAAA", "CNAME", "SVCB", "HTTPS", "TXT"}
      /\ t \in 1 .. L /\ built[t].kind = "label"
  BY <1>3, RDataShape, WireAssumption, SMTT(60) DEF Labels
<1>5. /\ Pointer(t) \in Cells /\ Pointer(t).kind = "pointer" /\ Pointer(t).to = t
      /\ Fields(type, D) \in Cells /\ Fields(type, D).kind = "fields" /\ Fields(type, D).to = 0
      /\ Fields(type, D).type = type /\ Fields(type, D).len = D
  BY <1>3, <1>4 DEF Pointer, Fields, Cells, Marks, Kinds
<1>6. /\ built' \in Seq(Cells) /\ Len(built') = L + 2 + D
      /\ \A k \in 1 .. L : built'[k] = built[k]
      /\ built'[L + 1] = Pointer(t) /\ built'[L + 2] = Fields(type, D)
      /\ \A k \in 1 .. D : built'[L + 2 + k] = rdata[k]
  <2> DEFINE fixed == <<Pointer(t), Fields(type, D)>>
  <2>1. fixed \in Seq(Cells) /\ Len(fixed) = 2 /\ fixed[1] = Pointer(t) /\ fixed[2] = Fields(type, D)
    BY <1>5
  <2>2. built' = (built \o fixed) \o rdata
    BY <1>2
  <2> HIDE DEF fixed
  <2> DEFINE front == built \o fixed
  <2>3. front \in Seq(Cells) /\ Joins(front, built, fixed)
    BY <1>3, <2>1, Joined
  <2> HIDE DEF front
  <2>4. front \o rdata \in Seq(Cells) /\ Joins(front \o rdata, front, rdata)
    BY <1>4, <2>3, Joined
  <2>5. built' = front \o rdata
    BY <2>2 DEF front
  <2>6. Len(built) \in Nat /\ Len(rdata) \in Nat
    BY <1>3, <1>4
  <2>7. built' \in Seq(Cells) /\ Joins(built', front, rdata)
    BY <2>4, <2>5
  <2> QED
    BY <2>1, <2>3, <2>6, <2>7 DEF Joins
<1>7. PICK R \in Nat : R = Len(heads) + 1
  BY <1>3
<1>8. /\ heads' \in Seq(Nat) /\ Len(heads') = R /\ heads'[R] = L + 2 /\ qtype' = qtype
      /\ DOMAIN heads = 1 .. R - 1 /\ DOMAIN heads' = 1 .. R /\ R \in DOMAIN heads'
      /\ \A n \in DOMAIN heads : heads'[n] = heads[n]
  BY <1>3, <1>7 DEF AddRecord
<1>9. L \in Nat /\ \A n \in DOMAIN heads : heads[n] \in 6 .. L /\ EndOf(n) \in heads[n] + 1 .. L
  BY <1>3 DEF Chained
<1>10. \A n \in DOMAIN heads : built'[heads'[n]] = built[heads[n]] /\ EndOf(n)' = EndOf(n)
  BY <1>6, <1>8, <1>9, SMTT(60) DEF EndOf
<1>11. built'[heads'[R]] = Fields(type, D) /\ EndOf(R)' = L + 2 + D
  BY <1>5, <1>6, <1>8 DEF EndOf
<1>12. DOMAIN built = 1 .. L /\ DOMAIN built' = 1 .. L + 2 + D /\ L >= 4
  BY <1>3, <1>6 DEF Opened
<1> HIDE DEF L, D
<1>13. Chained'
  <2>1. L = IF R = 1 THEN 4 ELSE EndOf(R - 1)
    BY <1>3, <1>7, <1>8 DEF Chained, L
  <2>2. ASSUME NEW n \in DOMAIN heads'
        PROVE  /\ heads'[n] = IF n = 1 THEN 6 ELSE EndOf(n - 1)' + 2
               /\ heads'[n] \in 6 .. L + 2 + D /\ EndOf(n)' \in heads'[n] + 1 .. L + 2 + D
    <3>1. CASE n = R
      <4>1. n # 1 => n - 1 \in DOMAIN heads
        BY <1>8, <3>1
      <4>2. EndOf(n)' = L + 2 + D
        BY <1>11, <3>1
      <4>3. n # 1 => EndOf(n - 1)' = L
        BY <1>10, <2>1, <3>1, <4>1
      <4>4. n = 1 => L = 4
        BY <2>1, <3>1
      <4> QED
        BY <1>4, <1>8, <1>9, <1>12, <3>1, <4>2, <4>3, <4>4
    <3>2. CASE n # R
      <4>1. n \in DOMAIN heads /\ (n # 1 => n - 1 \in DOMAIN heads)
        BY <1>8, <3>2
      <4>2. heads[n] = IF n = 1 THEN 6 ELSE EndOf(n - 1) + 2
        BY <1>3, <4>1 DEF Chained
      <4>3. heads'[n] = heads[n] /\ EndOf(n)' = EndOf(n) /\ heads[n] \in 6 .. L /\ EndOf(n) \in heads[n] + 1 .. L
        BY <1>8, <1>9, <1>10, <4>1
      <4>4. n # 1 => EndOf(n - 1)' = EndOf(n - 1)
        BY <1>10, <4>1
      <4>5. D \in Nat /\ L \in Nat
        BY <1>4, <1>9
      <4> QED
        BY <4>2, <4>3, <4>4, <4>5
    <3> QED
      BY <3>1, <3>2
  <2>3. ASSUME NEW m \in DOMAIN heads', NEW n \in DOMAIN heads', m < n
        PROVE  EndOf(m)' < heads'[n] - 1
    <3>1. m \in DOMAIN heads
      BY <1>7, <1>8, <2>3
    <3>2. CASE n = R
      BY <1>8, <1>9, <1>10, <3>1, <3>2
    <3>3. CASE n # R
      <4>1. n \in DOMAIN heads
        BY <1>8, <3>3
      <4> QED
        BY <1>3, <1>8, <1>10, <2>3, <3>1, <4>1 DEF Chained
    <3> QED
      BY <3>2, <3>3
  <2>4. heads' # <<>> /\ Len(built') = EndOf(Len(heads))'
    <3>1. EndOf(Len(heads))' = EndOf(R)'
      BY <1>8 DEF EndOf
    <3> QED
      BY <1>6, <1>8, <1>11, <3>1
  <2> QED
    BY <1>6, <2>2, <2>3, <2>4 DEF Chained
<1>14. Placed'
  <2>2. ASSUME NEW n \in DOMAIN heads'
        PROVE  built'[heads'[n] - 1].kind = "pointer" /\ built'[heads'[n]].kind = "fields"
    <3>1. CASE n = R
      <4>1. heads'[n] - 1 = L + 1
        BY <1>8, <1>9, <3>1
      <4> QED
        BY <1>5, <1>6, <1>11, <3>1, <4>1
    <3>2. CASE n # R
      <4>1. n \in DOMAIN heads
        BY <1>8, <3>2
      <4>2. heads'[n] - 1 \in 1 .. L /\ built'[heads'[n] - 1] = built[heads[n] - 1]
        BY <1>6, <1>8, <1>9, <4>1, SMTT(60)
      <4> QED
        BY <1>3, <1>10, <4>1, <4>2 DEF Placed
    <3> QED
      BY <3>1, <3>2
  <2>3. ASSUME NEW k \in DOMAIN built', k > 4
        PROVE  \E n \in DOMAIN heads' :
                 \/ k = heads'[n] - 1 \/ k = heads'[n]
                 \/ heads'[n] < k /\ k <= EndOf(n)' /\ built'[k].kind \notin {"fields", "stub"}
    <3>1. CASE k <= L
      <4>1. PICK n \in DOMAIN heads :
              \/ k = heads[n] - 1 \/ k = heads[n]
              \/ heads[n] < k /\ k <= EndOf(n) /\ built[k].kind \notin {"fields", "stub"}
        BY <1>3, <1>12, <2>3, <3>1 DEF Placed
      <4>2. n \in DOMAIN heads' /\ heads'[n] = heads[n] /\ EndOf(n)' = EndOf(n)
        BY <1>8, <1>10
      <4>3. built'[k] = built[k]
        BY <1>6, <1>12, <2>3, <3>1
      <4> QED
        BY <4>1, <4>2, <4>3
    <3>2. CASE k > L + 2
      <4>1. k - (L + 2) \in 1 .. D /\ k = L + 2 + (k - (L + 2))
        BY <1>4, <1>9, <1>12, <3>2
      <4>2. built'[k] = rdata[k - (L + 2)]
        BY <1>6, <4>1
      <4>3. built'[k].kind \notin {"fields", "stub"}
        BY <4>1, <4>2, RDataShape DEF D
      <4>4. heads'[R] < k /\ k <= EndOf(R)'
        BY <1>8, <1>11, <1>12, <3>2
      <4> QED
        BY <1>8, <4>3, <4>4
    <3>3. CASE k \in {L + 1, L + 2}
      BY <1>8, <1>9, <3>3
    <3> QED
      BY <1>9, <1>12, <3>1, <3>2, <3>3
  <2> QED
    BY <2>2, <2>3 DEF Placed
<1>15. PointsBack'
  <2> SUFFICES ASSUME NEW k \in DOMAIN built'
               PROVE  /\ built'[k].to \in 0 .. k - 1
                      /\ built'[k].kind = "pointer" => built'[k].to > 0 /\ built'[built'[k].to].kind = "label"
    BY DEF PointsBack
  <2>1. \A l \in Labels : l \in 1 .. L /\ built'[l].kind = "label"
    BY <1>6, <1>12 DEF Labels
  <2>2. CASE k \in 1 .. L
    <3>1. built'[k] = built[k] /\ k \in DOMAIN built
      BY <1>6, <1>12, <2>2
    <3>2. built[k].to \in 0 .. k - 1 /\ (built[k].kind = "pointer" => built[k].to > 0 /\ built[built[k].to].kind = "label")
      BY <1>3, <3>1 DEF PointsBack
    <3>3. built[k].to > 0 => built'[built[k].to] = built[built[k].to]
      BY <1>6, <1>9, <2>2, <3>2
    <3> QED
      BY <3>1, <3>2, <3>3
  <2>3. CASE k = L + 1
    BY <1>5, <1>6, <1>9, <2>1, <2>3
  <2>4. CASE k = L + 2
    BY <1>5, <1>6, <1>9, <2>4
  <2>5. CASE k > L + 2
    <3>1. k - (L + 2) \in 1 .. D /\ k = L + 2 + (k - (L + 2))
      BY <1>4, <1>9, <1>12, <2>5
    <3>2. built'[k] = rdata[k - (L + 2)]
      BY <1>6, <3>1
    <3>3. built'[k].to \in Labels \cup {0} /\ (built'[k].kind = "pointer" => built'[k].to \in Labels)
      BY <3>1, <3>2, RDataShape DEF D
    <3> QED
      BY <1>9, <1>12, <2>1, <2>5, <3>3
  <2> QED
    BY <1>9, <1>12, <2>2, <2>3, <2>4, <2>5
<1>16. ParamsPlaced'
  <2> SUFFICES ASSUME NEW j \in DOMAIN built', built'[j].kind = "param"
               PROVE  \E n \in DOMAIN heads' :
                        /\ Service(n)'
                        /\ heads'[n] < j /\ j + built'[j].len <= EndOf(n)'
                        /\ \A k \in j + 1 .. j + built'[j].len : built'[k].kind = "value"
                        /\ j + built'[j].len < EndOf(n)' => built'[j + built'[j].len + 1].kind = "param"
    BY DEF ParamsPlaced
  <2>1. j \in 1 .. L
    <3>1. j # L + 1 /\ j # L + 2
      BY <1>5, <1>6
    <3>2. ASSUME j > L + 2 PROVE FALSE
      <4>1. j - (L + 2) \in 1 .. D /\ j = L + 2 + (j - (L + 2))
        BY <1>4, <1>9, <1>12, <3>2
      <4>2. built'[j] = rdata[j - (L + 2)]
        BY <1>6, <4>1
      <4> QED
        BY <4>1, <4>2, RDataShape DEF D
    <3> QED
      BY <1>9, <1>12, <3>1, <3>2
  <2>2. built'[j] = built[j] /\ j \in DOMAIN built /\ built[j].len \in Nat
    <3>1. built'[j] = built[j] /\ j \in DOMAIN built
      BY <1>6, <1>12, <2>1
    <3>2. built[j] \in Cells
      BY <1>3, <3>1
    <3> QED
      BY <3>1, <3>2 DEF Cells
  <2>3. PICK n \in DOMAIN heads :
          /\ Service(n)
          /\ heads[n] < j /\ j + built[j].len <= EndOf(n)
          /\ \A k \in j + 1 .. j + built[j].len : built[k].kind = "value"
          /\ j + built[j].len < EndOf(n) => built[j + built[j].len + 1].kind = "param"
    BY <1>3, <2>2 DEF ParamsPlaced
  <2>4. n \in DOMAIN heads' /\ heads'[n] = heads[n] /\ EndOf(n)' = EndOf(n) /\ Service(n)' /\ EndOf(n) \in Nat /\ EndOf(n) <= L
    BY <1>8, <1>9, <1>10, <2>3 DEF Service
  <2>5. \A k \in j + 1 .. j + built[j].len : built'[k] = built[k]
    BY <1>6, <1>9, <2>1, <2>2, <2>3, <2>4, SMTT(60)
  <2>6. j + built[j].len < EndOf(n) => built'[j + built[j].len + 1] = built[j + built[j].len + 1]
    BY <1>6, <1>9, <2>1, <2>2, <2>4, SMTT(60)
  <2> QED
    BY <2>2, <2>3, <2>4, <2>5, <2>6
<1>17. DataPlaced'
  <2> SUFFICES ASSUME NEW n \in DOMAIN heads'
               PROVE  /\ built'[heads'[n]].type \in Types[qtype']
                      /\ built'[heads'[n]].type \in {"A", "AAAA", "TXT"} => EndOf(n)' = heads'[n] + 1
                      /\ Service(n)' =>
                           \E e \in heads'[n] + 2 .. EndOf(n)' :
                             /\ NameAt(heads[n] + 2, e)'
                             /\ \A k \in heads'[n] + 1 .. e : built'[k].kind \notin {"param", "value"}
                             /\ e < EndOf(n)' => built'[e + 1].kind = "param"
    BY DEF DataPlaced
  <2>1. CASE n = R
    <3>1. heads'[n] = L + 2 /\ EndOf(n)' = L + 2 + D /\ built'[heads'[n]].type = type
      BY <1>5, <1>8, <1>11, <2>1
    <3>2. type \in {"A", "AAAA", "TXT"} => D = 1
      BY RDataShape DEF D
    <3>3. ASSUME Service(n)'
          PROVE  /\ EndOf(n)' \in heads'[n] + 2 .. EndOf(n)'
                 /\ NameAt(heads[n] + 2, EndOf(n))'
                 /\ \A k \in heads'[n] + 1 .. EndOf(n)' : built'[k].kind \notin {"param", "value"}
      <4>1. type \in {"SVCB", "HTTPS"}
        BY <3>1, <3>3 DEF Service
      <4>2. /\ D >= 2 /\ rdata[D].kind \in {"root", "pointer"}
            /\ \A k \in 1 .. D : rdata[k].kind \notin {"param", "value"}
            /\ \A k \in 2 .. D - 1 : rdata[k].kind = "label"
        BY <4>1, RDataShape DEF D
      <4>3. \A k \in L + 3 .. L + 2 + D : k - (L + 2) \in 1 .. D /\ built'[k] = rdata[k - (L + 2)]
        <5> SUFFICES ASSUME NEW k \in L + 3 .. L + 2 + D PROVE k - (L + 2) \in 1 .. D /\ built'[k] = rdata[k - (L + 2)]
          OBVIOUS
        <5>1. k - (L + 2) \in 1 .. D /\ k = L + 2 + (k - (L + 2))
          BY <1>4, <1>9
        <5> QED
          BY <1>6, <5>1
      <4>4. built'[L + 2 + D].kind \in {"root", "pointer"}
        BY <1>4, <1>6, <4>2
      <4>5. \A k \in L + 4 .. L + 2 + D - 1 : built'[k].kind = "label"
        <5> SUFFICES ASSUME NEW k \in L + 4 .. L + 2 + D - 1 PROVE built'[k].kind = "label"
          OBVIOUS
        <5>1. k - (L + 2) \in 2 .. D - 1 /\ k \in L + 3 .. L + 2 + D
          BY <1>4, <1>9, SMTT(60)
        <5> QED
          BY <4>2, <4>3, <5>1
      <4>6. NameAt(heads[n] + 2, EndOf(n))'
        <5>1. heads'[n] + 2 <= EndOf(n)' /\ built'[EndOf(n)'].kind \in {"root", "pointer"}
          BY <1>4, <1>9, <3>1, <4>2, <4>4
        <5>2. \A j \in heads'[n] + 2 .. EndOf(n)' - 1 : built'[j].kind = "label"
          BY <1>4, <1>9, <3>1, <4>5
        <5> QED
          BY <5>1, <5>2 DEF NameAt
      <4>7. \A k \in heads'[n] + 1 .. EndOf(n)' : built'[k].kind \notin {"param", "value"}
        BY <1>4, <1>9, <3>1, <4>2, <4>3
      <4> QED
        BY <1>4, <1>9, <3>1, <4>2, <4>6, <4>7
    <3> QED
      BY <1>4, <1>8, <1>9, <3>1, <3>2, <3>3
  <2>2. CASE n # R
    <3>1. /\ n \in DOMAIN heads /\ heads'[n] = heads[n] /\ EndOf(n)' = EndOf(n) /\ built'[heads'[n]] = built[heads[n]]
          /\ heads[n] \in 6 .. L /\ EndOf(n) \in heads[n] + 1 .. L
      BY <1>8, <1>9, <1>10, <2>2
    <3>2. /\ built[heads[n]].type \in Types[qtype]
          /\ built[heads[n]].type \in {"A", "AAAA", "TXT"} => EndOf(n) = heads[n] + 1
      BY <1>3, <3>1 DEF DataPlaced
    <3>3. ASSUME Service(n)'
          PROVE  \E e \in heads'[n] + 2 .. EndOf(n)' :
                   /\ NameAt(heads[n] + 2, e)'
                   /\ \A k \in heads'[n] + 1 .. e : built'[k].kind \notin {"param", "value"}
                   /\ e < EndOf(n)' => built'[e + 1].kind = "param"
      <4>1. Service(n)
        BY <3>1, <3>3 DEF Service
      <4>2. PICK e \in heads[n] + 2 .. EndOf(n) :
              /\ NameAt(heads[n] + 2, e)
              /\ \A k \in heads[n] + 1 .. e : built[k].kind \notin {"param", "value"}
              /\ e < EndOf(n) => built[e + 1].kind = "param"
        BY <1>3, <3>1, <4>1 DEF DataPlaced
      <4>3. \A k \in heads[n] + 1 .. EndOf(n) : built'[k] = built[k]
        BY <1>6, <1>9, <3>1
      <4>4. NameAt(heads[n] + 2, e)'
        BY <1>9, <3>1, <4>2, <4>3 DEF NameAt
      <4> QED
        BY <1>9, <3>1, <4>2, <4>3, <4>4
    <3> QED
      BY <1>8, <3>1, <3>2, <3>3
  <2> QED
    BY <2>1, <2>2
<1>18. Opened'
  <2>1. \A k \in 1 .. 4 : built[k] = Question[k]
    BY <1>3 DEF Opened
  <2>2. \A k \in 1 .. 4 : built'[k] = built[k]
    BY <1>6, <1>9, <1>12
  <2>3. Len(built') >= 4
    BY <1>4, <1>6, <1>9, <1>12
  <2> QED
    BY <2>1, <2>2, <2>3 DEF Opened
<1>19. PlainPointers'
  <2> SUFFICES ASSUME NEW k \in DOMAIN built', built'[k].kind = "pointer"
               PROVE  built'[k] = Pointer(built'[k].to)
    BY DEF PlainPointers
  <2>1. CASE k \in 1 .. L
    BY <1>3, <1>6, <1>12, <2>1 DEF PlainPointers
  <2>2. CASE k \in {L + 1, L + 2}
    BY <1>5, <1>6, <2>2
  <2>3. CASE k > L + 2
    <3>1. k - (L + 2) \in 1 .. D /\ k = L + 2 + (k - (L + 2))
      BY <1>4, <1>9, <1>12, <2>3
    <3>2. built'[k] = rdata[k - (L + 2)]
      BY <1>6, <3>1
    <3> QED
      BY <3>1, <3>2, RDataShape DEF D
  <2> QED
    BY <1>9, <1>12, <2>1, <2>2, <2>3
<1>20. PriorityFirst'
  <2> SUFFICES ASSUME NEW n \in DOMAIN heads', Service(n)'
               PROVE  built'[heads'[n] + 1].kind # "pointer"
    BY DEF PriorityFirst
  <2>1. CASE n = R
    <3>1. built'[heads'[n]].type = type
      BY <1>5, <1>11, <2>1
    <3>2. type \in {"SVCB", "HTTPS"}
      BY <3>1 DEF Service
    <3>3. rdata[1].kind # "pointer" /\ 1 \in 1 .. D
      BY <1>4, <3>2, RDataShape
    <3>4. heads'[n] + 1 = L + 2 + 1
      BY <1>8, <1>9, <2>1
    <3> QED
      BY <1>6, <3>3, <3>4
  <2>2. CASE n # R
    <3>1. n \in DOMAIN heads
      BY <1>8, <2>2
    <3>2. heads'[n] = heads[n] /\ heads[n] + 1 \in 1 .. L /\ built'[heads[n]] = built[heads[n]]
      BY <1>8, <1>9, <1>10, <3>1
    <3>3. Service(n)
      BY <3>2 DEF Service
    <3> QED
      BY <1>3, <1>6, <3>1, <3>2, <3>3 DEF PriorityFirst
  <2> QED
    BY <2>1, <2>2
<1>21. BInv'
  BY <1>20, <1>18, <1>19, <1>3, <1>6, <1>8, <1>13, <1>14, <1>15, <1>16, <1>17 DEF BInv, WellBuilt
<1>22. Len(built) <= Len(built')
  BY <1>4, <1>6, <1>9 DEF L, D
<1> QED
  BY <1>21, <1>22

LEMMA AddParamKeeps ==
  ASSUME BInv, AddParam
  PROVE  BInv' /\ Len(built) <= Len(built')
<1>1. /\ built \in Seq(Cells) /\ heads \in Seq(Nat) /\ qtype \in QTypes
      /\ Opened /\ Chained /\ Placed /\ PointsBack /\ PlainPointers /\ ParamsPlaced /\ DataPlaced /\ PriorityFirst
  BY DEF BInv, WellBuilt
<1>2. PICK R \in Nat : R = Len(heads)
  BY <1>1
<1>3. PICK L \in Nat : L = Len(built)
  BY <1>1
<1>4. PICK H \in Nat : H = LastHead /\ H \in 6 .. L
  <2>1. R \in DOMAIN heads /\ LastHead = heads[R]
    BY <1>1, <1>2 DEF AddParam, LastHead
  <2> QED
    BY <1>1, <1>3, <2>1 DEF Chained
<1>5. PICK param \in Params :
        built' = [built EXCEPT ![LastHead].len = @ + 1 + param.len]
                   \o <<Param(param.key, param.len)>> \o Values(param.len)
  BY DEF AddParam
<1>6. PICK N \in Nat : N = param.len
  BY <1>5, WireAssumption
<1>7. /\ Param(param.key, N) \in Cells /\ Param(param.key, N).kind = "param"
      /\ Param(param.key, N).to = 0 /\ Param(param.key, N).len = N
  BY <1>6, WireAssumption DEF Param, Cells, Kinds, Marks
<1>8. /\ DOMAIN built = 1 .. L /\ \A k \in 1 .. L : built[k] \in Cells /\ built[k].len \in Nat
      /\ DOMAIN heads = 1 .. R /\ R \in DOMAIN heads /\ heads[R] = H
  <2>1. \A k \in 1 .. L : built[k] \in Cells
    BY <1>1, <1>3
  <2>2. \A k \in 1 .. L : built[k].len \in Nat
    BY <2>1 DEF Cells
  <2>3. R # 0
    BY <1>1, <1>2 DEF AddParam
  <2> QED
    BY <1>1, <1>2, <1>3, <1>4, <2>1, <2>2, <2>3 DEF LastHead
<1>9. /\ built' \in Seq(Cells) /\ Len(built') = L + 1 + N
      /\ \A k \in 1 .. L : k # H => built'[k] = built[k]
      /\ built'[H] = [built[H] EXCEPT !.len = @ + 1 + N]
      /\ built'[L + 1] = Param(param.key, N)
      /\ \A k \in 1 .. N : built'[L + 1 + k] = Cell("value")
  <2> DEFINE a == [built EXCEPT ![LastHead].len = @ + 1 + param.len]
  <2> DEFINE b == <<Param(param.key, param.len)>>
  <2> DEFINE c == Values(param.len)
  <2>1. a = [built EXCEPT ![H] = [built[H] EXCEPT !.len = @ + 1 + N]]
    BY <1>4, <1>6
  <2>2. PICK x \in Cells : x = [built[H] EXCEPT !.len = @ + 1 + N]
    <3>1. built[H] \in Cells /\ built[H].len + 1 + N \in Nat
      BY <1>4, <1>6, <1>8
    <3> QED
      BY <3>1, Resizing
  <2>3. /\ a \in Seq(Cells) /\ Len(a) = L
        /\ a[H] = [built[H] EXCEPT !.len = @ + 1 + N]
        /\ \A k \in 1 .. L : k # H => a[k] = built[k]
    <3>1. a = [built EXCEPT ![H] = x]
      BY <2>1, <2>2
    <3> HIDE DEF a
    <3>2. a \in Seq(Cells) /\ Len(a) = L /\ a[H] = x /\ \A k \in 1 .. L : k # H => a[k] = built[k]
      BY <1>1, <1>3, <1>4, <3>1
    <3> QED
      BY <2>2, <3>2
  <2>4. b \in Seq(Cells) /\ Len(b) = 1 /\ b[1] = Param(param.key, N)
    BY <1>6, <1>7
  <2>5. c \in Seq(Cells) /\ Len(c) = N /\ \A k \in 1 .. N : c[k] = Cell("value")
    <3>1. Cell("value") \in Cells
      BY CellFacts DEF Kinds
    <3> QED
      BY <1>6, <3>1 DEF Values
  <2>6. built' = a \o b \o c
    BY <1>5
  <2> HIDE DEF a, b, c
  <2> DEFINE d == a \o b
  <2>7. d \in Seq(Cells) /\ Joins(d, a, b)
    BY <2>3, <2>4, Joined
  <2> HIDE DEF d
  <2>8. d \o c \in Seq(Cells) /\ Joins(d \o c, d, c)
    BY <2>5, <2>7, Joined
  <2>9. built' \in Seq(Cells) /\ Joins(built', d, c)
    BY <2>6, <2>8 DEF d
  <2> QED
    BY <1>4, <2>3, <2>4, <2>5, <2>7, <2>9, SMTT(60) DEF Joins
<1>10. /\ DOMAIN built' = 1 .. L + 1 + N
       /\ \A k \in 1 .. L : built'[k].kind = built[k].kind /\ built'[k].type = built[k].type /\ built'[k].to = built[k].to
       /\ \A k \in 1 .. L : k # H => built'[k].len = built[k].len
       /\ built'[H].len = built[H].len + 1 + N
  <2>1. /\ built'[H].kind = built[H].kind /\ built'[H].type = built[H].type /\ built'[H].to = built[H].to
        /\ built'[H].len = built[H].len + 1 + N
    BY <1>4, <1>8, <1>9 DEF Cells
  <2>2. \A k \in 1 .. L : k # H => built'[k] = built[k]
    BY <1>9
  <2>3. DOMAIN built' = 1 .. L + 1 + N
    BY <1>9
  <2> QED
    BY <2>1, <2>2, <2>3
<1>11. heads' = heads /\ qtype' = qtype
  BY DEF AddParam
<1>12. \A k \in L + 2 .. L + 1 + N : built'[k].kind = "value" /\ built'[k].to = 0
  <2> SUFFICES ASSUME NEW k \in L + 2 .. L + 1 + N PROVE built'[k].kind = "value" /\ built'[k].to = 0
    OBVIOUS
  <2>1. k - (L + 1) \in 1 .. N /\ k = L + 1 + (k - (L + 1))
    OBVIOUS
  <2>2. built'[k] = Cell("value")
    BY <1>9, <2>1
  <2> QED
    BY <2>2, CellFacts DEF Kinds
<1>13. /\ \A n \in DOMAIN heads : heads[n] \in 6 .. L /\ EndOf(n) \in heads[n] + 1 .. L
       /\ \A m, n \in DOMAIN heads : m < n => EndOf(m) < heads[n] - 1
       /\ EndOf(R) = L
  <2>1. heads # <<>>
    BY DEF AddParam
  <2> QED
    BY <1>1, <1>2, <1>3, <2>1 DEF Chained
<1>14. \A n \in DOMAIN heads : n # R => heads[n] # H /\ EndOf(n)' = EndOf(n)
  <2> SUFFICES ASSUME NEW n \in DOMAIN heads, n # R PROVE heads[n] # H /\ EndOf(n)' = EndOf(n)
    OBVIOUS
  <2>1. n < R
    BY <1>8
  <2>2. heads[n] # H /\ heads[n] \in 1 .. L
    BY <1>8, <1>13, <2>1
  <2> QED
    BY <1>10, <1>11, <2>2 DEF EndOf
<1>15. EndOf(R)' = L + 1 + N
  <2>1. H + built[H].len = L
    BY <1>8, <1>13 DEF EndOf
  <2>2. built[H].len \in Nat
    BY <1>4, <1>8
  <2>3. H + built'[H].len = L + 1 + N
    <3>1. built'[H].len = built[H].len + 1 + N
      BY <1>10
    <3> QED
      BY <2>1, <2>2, <3>1
  <2> QED
    BY <1>8, <1>11, <2>3 DEF EndOf
<1>16. Service(R) /\ Service(R)'
  BY <1>4, <1>8, <1>10, <1>11 DEF AddParam, Service
<1>17. Opened'
  <2>1. \A k \in 1 .. 4 : built'[k] = built[k]
    BY <1>4, <1>9, SMTT(60)
  <2> QED
    BY <1>1, <1>3, <1>9, <2>1 DEF Opened
<1>18. Chained'
  <2>1. ASSUME NEW n \in DOMAIN heads
        PROVE  /\ heads[n] = IF n = 1 THEN 6 ELSE EndOf(n - 1)' + 2
               /\ heads[n] \in 6 .. L + 1 + N /\ EndOf(n)' \in heads[n] + 1 .. L + 1 + N
    <3>1. heads[n] = IF n = 1 THEN 6 ELSE EndOf(n - 1) + 2
      BY <1>1 DEF Chained
    <3>2. n # 1 => EndOf(n - 1)' = EndOf(n - 1)
      BY <1>8, <1>14
    <3>3. EndOf(n)' \in heads[n] + 1 .. L + 1 + N
      <4>1. CASE n = R
        BY <1>13, <1>15, <4>1
      <4>2. CASE n # R
        BY <1>13, <1>14, <4>2
      <4> QED
        BY <4>1, <4>2
    <3> QED
      BY <1>13, <3>1, <3>2, <3>3
  <2>2. ASSUME NEW m \in DOMAIN heads, NEW n \in DOMAIN heads, m < n
        PROVE  EndOf(m)' < heads[n] - 1
    <3>1. m # R
      BY <1>8, <2>2
    <3> QED
      BY <1>13, <1>14, <2>2, <3>1
  <2>3. EndOf(Len(heads))' = L + 1 + N /\ heads # <<>>
    BY <1>2, <1>8, <1>11, <1>15 DEF EndOf
  <2> QED
    BY <1>9, <1>11, <2>1, <2>2, <2>3 DEF Chained
<1>19. Placed'
  <2>1. ASSUME NEW n \in DOMAIN heads
        PROVE  built'[heads[n] - 1].kind = "pointer" /\ built'[heads[n]].kind = "fields"
    <3>1. heads[n] \in 1 .. L /\ heads[n] - 1 \in 1 .. L
      BY <1>13
    <3> QED
      BY <1>1, <1>10, <3>1 DEF Placed
  <2>2. ASSUME NEW k \in DOMAIN built', k > 4
        PROVE  \E n \in DOMAIN heads :
                 \/ k = heads[n] - 1 \/ k = heads[n]
                 \/ heads[n] < k /\ k <= EndOf(n)' /\ built'[k].kind \notin {"fields", "stub"}
    <3>1. CASE k <= L
      <4>1. PICK n \in DOMAIN heads :
              \/ k = heads[n] - 1 \/ k = heads[n]
              \/ heads[n] < k /\ k <= EndOf(n) /\ built[k].kind \notin {"fields", "stub"}
        BY <1>1, <1>8, <1>10, <2>2, <3>1 DEF Placed
      <4>2. EndOf(n) <= EndOf(n)' /\ EndOf(n)' \in Nat /\ EndOf(n) \in Nat
        BY <1>13, <1>14, <1>15
      <4> QED
        BY <1>10, <2>2, <3>1, <4>1, <4>2
    <3>2. CASE k > L
      <4>1. built'[k].kind \notin {"fields", "stub"}
        <5>1. CASE k = L + 1
          BY <1>7, <1>9, <5>1
        <5>2. CASE k # L + 1
          BY <1>10, <1>12, <3>2, <5>2
        <5> QED
          BY <5>1, <5>2
      <4> QED
        BY <1>4, <1>8, <1>10, <1>15, <3>2, <4>1
    <3> QED
      BY <1>10, <3>1, <3>2
  <2> QED
    BY <1>11, <2>1, <2>2 DEF Placed
<1>20. PointsBack'
  <2> SUFFICES ASSUME NEW k \in DOMAIN built'
               PROVE  /\ built'[k].to \in 0 .. k - 1
                      /\ built'[k].kind = "pointer" => built'[k].to > 0 /\ built'[built'[k].to].kind = "label"
    BY DEF PointsBack
  <2>1. CASE k \in 1 .. L
    <3>1. built[k].to \in 0 .. k - 1 /\ (built[k].kind = "pointer" => built[k].to > 0 /\ built[built[k].to].kind = "label")
      BY <1>1, <1>8, <2>1 DEF PointsBack
    <3>2. built[k].to > 0 => built'[built[k].to].kind = built[built[k].to].kind
      BY <1>10, <2>1, <3>1
    <3> QED
      BY <1>10, <2>1, <3>1, <3>2
  <2>2. CASE k = L + 1
    BY <1>7, <1>9, <2>2
  <2>3. CASE k > L + 1
    BY <1>10, <1>12, <2>3
  <2> QED
    BY <1>10, <2>1, <2>2, <2>3
<1>21. ParamsPlaced'
  <2> SUFFICES ASSUME NEW j \in DOMAIN built', built'[j].kind = "param"
               PROVE  \E n \in DOMAIN heads' :
                        /\ Service(n)'
                        /\ heads'[n] < j /\ j + built'[j].len <= EndOf(n)'
                        /\ \A k \in j + 1 .. j + built'[j].len : built'[k].kind = "value"
                        /\ j + built'[j].len < EndOf(n)' => built'[j + built'[j].len + 1].kind = "param"
    BY DEF ParamsPlaced
  <2>1. CASE j \in 1 .. L
    <3>1. built[H].kind = "fields"
      BY <1>1, <1>8 DEF Placed
    <3>2. built[j].kind = "param" /\ j # H /\ built'[j].len = built[j].len /\ built[j].len \in Nat
      BY <1>4, <1>8, <1>10, <2>1, <3>1
    <3>3. PICK n \in DOMAIN heads :
            /\ Service(n)
            /\ heads[n] < j /\ j + built[j].len <= EndOf(n)
            /\ \A k \in j + 1 .. j + built[j].len : built[k].kind = "value"
            /\ j + built[j].len < EndOf(n) => built[j + built[j].len + 1].kind = "param"
      BY <1>1, <1>8, <2>1, <3>2 DEF ParamsPlaced
    <3>4. Service(n)' /\ EndOf(n) \in Nat /\ EndOf(n) <= L
      <4>1. heads[n] \in 1 .. L
        BY <1>13
      <4> QED
        BY <1>10, <1>11, <1>13, <3>3, <4>1 DEF Service
    <3>5. \A k \in j + 1 .. j + built[j].len : built'[k].kind = "value"
      BY <1>10, <2>1, <3>2, <3>3, <3>4, SMTT(60)
    <3>6. j + built[j].len < EndOf(n) => built'[j + built[j].len + 1].kind = "param"
      BY <1>10, <2>1, <3>2, <3>3, <3>4
    <3>7. CASE n = R
      <4>1. j + built[j].len = L => built'[j + built[j].len + 1].kind = "param"
        BY <1>7, <1>9
      <4> QED
        BY <1>11, <1>13, <1>15, <2>1, <3>2, <3>3, <3>4, <3>5, <3>6, <3>7, <4>1
    <3>8. CASE n # R
      BY <1>11, <1>14, <3>2, <3>3, <3>4, <3>5, <3>6, <3>8
    <3> QED
      BY <3>7, <3>8
  <2>2. CASE j = L + 1
    <3>1. built'[j].len = N /\ H < j
      BY <1>4, <1>7, <1>9, <2>2
    <3> QED
      BY <1>8, <1>11, <1>12, <1>15, <1>16, <2>2, <3>1
  <2>3. CASE j > L + 1
    BY <1>10, <1>12, <2>3
  <2> QED
    BY <1>10, <2>1, <2>2, <2>3
<1>22. DataPlaced'
  <2> SUFFICES ASSUME NEW n \in DOMAIN heads
               PROVE  /\ built'[heads[n]].type \in Types[qtype]
                      /\ built'[heads[n]].type \in {"A", "AAAA", "TXT"} => EndOf(n)' = heads[n] + 1
                      /\ Service(n)' =>
                           \E e \in heads[n] + 2 .. EndOf(n)' :
                             /\ NameAt(heads[n] + 2, e)'
                             /\ \A k \in heads[n] + 1 .. e : built'[k].kind \notin {"param", "value"}
                             /\ e < EndOf(n)' => built'[e + 1].kind = "param"
    BY <1>11 DEF DataPlaced
  <2>1. heads[n] \in 1 .. L /\ EndOf(n) \in heads[n] + 1 .. L /\ built'[heads[n]].type = built[heads[n]].type
    BY <1>10, <1>13
  <2>2. built[heads[n]].type \in Types[qtype]
    BY <1>1 DEF DataPlaced
  <2>3. built[heads[n]].type \in {"A", "AAAA", "TXT"} => EndOf(n)' = heads[n] + 1
    <3>1. built[heads[n]].type \in {"A", "AAAA", "TXT"} => n # R
      BY <1>16 DEF Service
    <3> QED
      BY <1>1, <1>14, <3>1 DEF DataPlaced
  <2>4. ASSUME Service(n)'
        PROVE  \E e \in heads[n] + 2 .. EndOf(n)' :
                 /\ NameAt(heads[n] + 2, e)'
                 /\ \A k \in heads[n] + 1 .. e : built'[k].kind \notin {"param", "value"}
                 /\ e < EndOf(n)' => built'[e + 1].kind = "param"
    <3>1. Service(n)
      BY <1>11, <2>1, <2>4 DEF Service
    <3>2. PICK e \in heads[n] + 2 .. EndOf(n) :
            /\ NameAt(heads[n] + 2, e)
            /\ \A k \in heads[n] + 1 .. e : built[k].kind \notin {"param", "value"}
            /\ e < EndOf(n) => built[e + 1].kind = "param"
      BY <1>1, <3>1 DEF DataPlaced
    <3>3. NameAt(heads[n] + 2, e)'
      <4>1. built'[e].kind \in {"root", "pointer"} /\ heads[n] + 2 <= e
        BY <1>10, <2>1, <3>2 DEF NameAt
      <4>2. \A j \in heads[n] + 2 .. e - 1 : built'[j].kind = "label"
        BY <1>10, <2>1, <3>2 DEF NameAt
      <4> QED
        BY <1>11, <4>1, <4>2 DEF NameAt
    <3>4. \A k \in heads[n] + 1 .. e : built'[k].kind \notin {"param", "value"}
      BY <1>10, <2>1, <3>2
    <3>5. e < EndOf(n) => built'[e + 1].kind = "param"
      BY <1>10, <2>1, <3>2
    <3>6. e \in heads[n] + 2 .. EndOf(n)' /\ (e < EndOf(n)' => built'[e + 1].kind = "param")
      <4>1. CASE n = R
        <5>1. e = L => built'[e + 1].kind = "param"
          BY <1>7, <1>9
        <5> QED
          BY <1>13, <1>15, <2>1, <3>2, <3>5, <4>1, <5>1
      <4>2. CASE n # R
        BY <1>14, <3>2, <3>5, <4>2
      <4> QED
        BY <4>1, <4>2
    <3> QED
      BY <3>3, <3>4, <3>6
  <2> QED
    BY <2>1, <2>2, <2>3, <2>4
<1>23. PlainPointers'
  <2> SUFFICES ASSUME NEW k \in DOMAIN built', built'[k].kind = "pointer"
               PROVE  built'[k] = Pointer(built'[k].to)
    BY DEF PlainPointers
  <2>1. CASE k \in 1 .. L
    <3>1. k # H
      <4>1. built[H].kind = "fields"
        BY <1>1, <1>8 DEF Placed
      <4> QED
        BY <1>10, <2>1, <4>1
    <3> QED
      BY <1>1, <1>8, <1>9, <2>1, <3>1 DEF PlainPointers
  <2>2. CASE k = L + 1
    BY <1>7, <1>9, <2>2
  <2>3. CASE k > L + 1
    BY <1>10, <1>12, <2>3
  <2> QED
    BY <1>10, <2>1, <2>2, <2>3
<1>24. PriorityFirst'
  <2> SUFFICES ASSUME NEW n \in DOMAIN heads, Service(n)'
               PROVE  built'[heads[n] + 1].kind # "pointer"
    BY <1>11 DEF PriorityFirst
  <2>1. heads[n] \in 1 .. L /\ EndOf(n) \in heads[n] + 1 .. L /\ built'[heads[n]].type = built[heads[n]].type
    BY <1>10, <1>13
  <2>2. Service(n)
    BY <1>11, <2>1 DEF Service
  <2>3. heads[n] + 1 \in 1 .. L
    BY <2>1
  <2> QED
    BY <1>1, <1>10, <2>2, <2>3 DEF PriorityFirst
<1>25. BInv'
  BY <1>1, <1>9, <1>11, <1>24, <1>23, <1>17, <1>18, <1>19, <1>20, <1>21, <1>22 DEF BInv, WellBuilt
<1>26. Len(built) <= Len(built')
  <2>1. Len(built') = L + 1 + N /\ Len(built) = L
    BY <1>3, <1>9
  <2>2. L <= L + 1 + N
    OBVIOUS
  <2> QED
    BY <2>1, <2>2, Zenon
<1> QED
  BY <1>25, <1>26

(* What stands behind the answer records leads back into them.             *)
Sections ==
  /\ behind \in Seq(Cells)
  /\ \A k \in DOMAIN behind :
       /\ behind[k].kind \in {"pointer", "fields", "value"}
       /\ behind[k].to \in 0 .. Len(built)
       /\ behind[k].kind = "pointer" => behind[k].to > 0 /\ behind[k] = Pointer(behind[k].to)

LEMMA AddExtraKeeps ==
  ASSUME BInv, Sections, AddExtra
  PROVE  Sections'
<1>1. PICK type \in Extras, t \in Labels : behind' = behind \o <<Pointer(t), Fields(type, 1), Cell("value")>>
  BY DEF AddExtra
<1>2. /\ t \in 1 .. Len(built) /\ type \in Marks /\ built' = built /\ Len(built) \in Nat
  <2>1. DOMAIN built = 1 .. Len(built) /\ Len(built) \in Nat
    BY DEF BInv
  <2>2. type \in Marks
    BY WireAssumption, Zenon DEF Marks
  <2>3. built' = built
    BY DEF AddExtra
  <2> QED
    BY <2>1, <2>2, <2>3 DEF Labels
<1> DEFINE extra == <<Pointer(t), Fields(type, 1), Cell("value")>>
<1>3. /\ extra \in Seq(Cells) /\ DOMAIN extra = 1 .. 3 /\ Len(extra) = 3
      /\ \A k \in 1 .. 3 :
           /\ extra[k].kind \in {"pointer", "fields", "value"}
           /\ extra[k].to \in {0, t}
           /\ extra[k].kind = "pointer" => extra[k] = Pointer(t) /\ extra[k].to = t
  <2>1. /\ Pointer(t) \in Cells /\ Pointer(t).kind = "pointer" /\ Pointer(t).to = t
        /\ Fields(type, 1) \in Cells /\ Fields(type, 1).kind = "fields" /\ Fields(type, 1).to = 0
        /\ Cell("value") \in Cells /\ Cell("value").kind = "value" /\ Cell("value").to = 0
    BY <1>2 DEF Pointer, Fields, Cell, Cells, Kinds, Marks
  <2> QED
    BY <2>1
<1> HIDE DEF extra
<1>4. behind \o extra \in Seq(Cells) /\ Joins(behind \o extra, behind, extra)
  BY <1>3, Joined DEF Sections
<1>5. behind' \in Seq(Cells) /\ Joins(behind', behind, extra)
  BY <1>1, <1>4 DEF extra
<1> SUFFICES ASSUME NEW k \in DOMAIN behind'
             PROVE  /\ behind'[k].kind \in {"pointer", "fields", "value"}
                    /\ behind'[k].to \in 0 .. Len(built)
                    /\ behind'[k].kind = "pointer" => behind'[k].to > 0 /\ behind'[k] = Pointer(behind'[k].to)
  BY <1>2, <1>5 DEF Sections
<1>6. k \in 1 .. Len(behind) + 3 /\ Len(behind) \in Nat
  BY <1>3, <1>5 DEF Joins, Sections
<1>7. CASE k <= Len(behind)
  <2>1. k \in DOMAIN behind /\ behind'[k] = behind[k]
    BY <1>5, <1>6, <1>7 DEF Joins, Sections
  <2> QED
    BY <2>1 DEF Sections
<1>8. CASE k > Len(behind)
  <2>1. k - Len(behind) \in 1 .. 3 /\ k = Len(behind) + (k - Len(behind))
    BY <1>6, <1>8
  <2>2. \A l \in 1 .. 3 : behind'[Len(behind) + l] = extra[l]
    BY <1>3, <1>5 DEF Joins
  <2>4. PICK m \in 1 .. 3 : k = Len(behind) + m
    BY <2>1
  <2>3. behind'[k] = extra[m]
    BY <2>2, <2>4
  <2>5. /\ extra[m].kind \in {"pointer", "fields", "value"} /\ extra[m].to \in {0, t}
        /\ extra[m].kind = "pointer" => extra[m] = Pointer(t) /\ extra[m].to = t
    BY <1>3, Zenon
  <2>6. t \in 0 .. Len(built) /\ 0 \in 0 .. Len(built) /\ t > 0
    BY <1>2
  <2>7. PICK x : x = extra[m]
    OBVIOUS
  <2>8. /\ x.kind \in {"pointer", "fields", "value"} /\ x.to \in 0 .. Len(built)
        /\ x.kind = "pointer" => x.to > 0 /\ x = Pointer(x.to)
    <3>1. x.to = 0 \/ x.to = t
      BY <2>5, <2>7
    <3>2. x.kind = "pointer" => x = Pointer(t) /\ x.to = t
      BY <2>5, <2>7
    <3> QED
      BY <2>5, <2>6, <2>7, <3>1, <3>2
  <2> QED
    BY <2>3, <2>7, <2>8
<1> QED
  BY <1>6, <1>7, <1>8

-------------------------------------------------------------------------------
(* What is received, and that nothing is read or written outside           *)

Keeps(k) == wire[k] = built[k]

Resized(k, n) == wire[k] = [built[k] EXCEPT !.len = n]

(* What stands behind the answer records follows cell n.                   *)
Followed(n) ==
  /\ Len(wire) = n + Len(behind)
  /\ \A k \in DOMAIN wire : k > n => k - n \in DOMAIN behind /\ wire[k] = behind[k - n]

(* The message comes as it was built.                                      *)
Intact == Followed(Len(built)) /\ \A k \in DOMAIN built : Keeps(k)

(* The message is cut off.                                                 *)
Cut ==
  \A k \in DOMAIN wire :
    IF k <= Len(built) THEN Keeps(k)
    ELSE k - Len(built) \in DOMAIN behind /\ wire[k] = behind[k - Len(built)]

(* Its last answer record is shorter than it says, or longer.              *)
Short ==
  /\ heads # <<>> /\ Followed(Len(built)) /\ Resized(LastHead, built[LastHead].len - 1)
  /\ \A k \in DOMAIN built : k # LastHead => Keeps(k)

Long ==
  /\ heads # <<>> /\ Followed(Len(built) + 1) /\ Resized(LastHead, built[LastHead].len + 1)
  /\ wire[Len(built) + 1] = Cell("stub")
  /\ \A k \in DOMAIN built : k # LastHead => Keeps(k)

(* The last parameter of that record, at j, is longer.                     *)
Over(j) ==
  /\ j \in DOMAIN built /\ built[j].kind = "param" /\ j + built[j].len = Len(built)
  /\ Followed(Len(built)) /\ Resized(j, built[j].len + 1)
  /\ \A k \in DOMAIN built : k # j => Keeps(k)

Received == Intact \/ Cut \/ Short \/ Long \/ \E j \in DOMAIN built : Over(j)

LEMMA LastHeadFacts ==
  ASSUME BInv, heads # <<>>
  PROVE  /\ Len(heads) \in DOMAIN heads /\ LastHead = heads[Len(heads)] /\ LastHead \in 6 .. Len(built)
         /\ built[LastHead] \in Cells /\ built[LastHead].len \in Nat /\ built[LastHead].len > 0
         /\ built[LastHead].kind = "fields" /\ EndOf(Len(heads)) = Len(built)
<1>1. Len(heads) \in DOMAIN heads /\ LastHead = heads[Len(heads)]
  BY DEF BInv, LastHead
<1>2. LastHead \in 6 .. Len(built) /\ EndOf(Len(heads)) > LastHead /\ EndOf(Len(heads)) = Len(built)
  BY <1>1 DEF BInv, WellBuilt, Chained
<1>3. built[LastHead] \in Cells
  BY <1>2 DEF BInv
<1>4. built[LastHead].len \in Nat
  BY <1>3 DEF Cells
<1>5. built[LastHead].kind = "fields"
  BY <1>1 DEF BInv, WellBuilt, Placed
<1>6. built[LastHead].len > 0
  BY <1>1, <1>2, <1>4 DEF EndOf
<1> QED
  BY <1>1, <1>2, <1>3, <1>4, <1>5, <1>6

LEMMA Resized1 ==
  ASSUME NEW s \in Seq(Cells), NEW k \in DOMAIN s, NEW c \in Cells, NEW t, t = [s EXCEPT ![k] = c]
  PROVE  t \in Seq(Cells) /\ Len(t) = Len(s) /\ t[k] = c /\ \A j \in DOMAIN s : j # k => t[j] = s[j]
OBVIOUS

(* A front with what stands behind it                                      *)
LEMMA Following ==
  ASSUME Sections, NEW a \in Seq(Cells), NEW w, w = a \o behind
  PROVE  /\ w \in Seq(Cells) /\ Len(w) = Len(a) + Len(behind)
         /\ \A k \in DOMAIN a : w[k] = a[k]
         /\ \A k \in DOMAIN w : k > Len(a) => k - Len(a) \in DOMAIN behind /\ w[k] = behind[k - Len(a)]
<1>1. behind \in Seq(Cells) /\ Len(a) \in Nat /\ Len(behind) \in Nat
  BY DEF Sections
<1>2. w \in Seq(Cells) /\ Joins(w, a, behind)
  BY <1>1, Joined
<1>3. DOMAIN w = 1 .. Len(a) + Len(behind) /\ DOMAIN a = 1 .. Len(a) /\ DOMAIN behind = 1 .. Len(behind)
  BY <1>1, <1>2 DEF Joins
<1>4. ASSUME NEW k \in DOMAIN w, k > Len(a)
      PROVE  k - Len(a) \in DOMAIN behind /\ w[k] = behind[k - Len(a)]
  <2>1. k - Len(a) \in 1 .. Len(behind) /\ k = Len(a) + (k - Len(a))
    BY <1>1, <1>3, <1>4
  <2> QED
    BY <1>2, <1>3, <2>1 DEF Joins
<1> QED
  BY <1>2, <1>3, <1>4 DEF Joins

LEMMA SentIsReceived ==
  ASSUME BInv, Sections, SendWhole \/ SendDamaged
  PROVE  wire' \in Seq(Cells) /\ Received' /\ pc' = "question" /\ UNCHANGED <<qtype, built, heads, behind>>
<1>1. built \in Seq(Cells) /\ Len(built) \in Nat /\ DOMAIN built = 1 .. Len(built)
  BY DEF BInv
<1>2. CASE SendWhole
  <2>1. wire' = built \o behind /\ UNCHANGED <<qtype, built, heads, behind>> /\ pc' = "question"
    BY <1>2 DEF SendWhole, Send
  <2>2. /\ wire' \in Seq(Cells) /\ Len(wire') = Len(built) + Len(behind)
        /\ \A k \in DOMAIN built : wire'[k] = built[k]
        /\ \A k \in DOMAIN wire' : k > Len(built) => k - Len(built) \in DOMAIN behind /\ wire'[k] = behind[k - Len(built)]
    BY <1>1, <2>1, Following
  <2>3. Intact'
    BY <2>1, <2>2 DEF Intact, Followed, Keeps
  <2> QED
    BY <2>1, <2>2, <2>3 DEF Received
<1>3. ASSUME NEW n \in 0 .. Len(built \o behind) - 1, Send(SubSeq(built \o behind, 1, n))
      PROVE  wire' \in Seq(Cells) /\ Received' /\ pc' = "question" /\ UNCHANGED <<qtype, built, heads, behind>>
  <2>1. PICK w : w = built \o behind
    OBVIOUS
  <2>2. /\ w \in Seq(Cells) /\ Len(w) = Len(built) + Len(behind)
        /\ \A k \in DOMAIN built : w[k] = built[k]
        /\ \A k \in DOMAIN w : k > Len(built) => k - Len(built) \in DOMAIN behind /\ w[k] = behind[k - Len(built)]
    BY <1>1, <2>1, Following
  <2>3. wire' = SubSeq(w, 1, n) /\ n \in 0 .. Len(w) - 1 /\ UNCHANGED <<qtype, built, heads, behind>> /\ pc' = "question"
    BY <1>3, <2>1 DEF Send
  <2>4. wire' \in Seq(Cells) /\ DOMAIN wire' = 1 .. n /\ \A k \in 1 .. n : k \in DOMAIN w /\ wire'[k] = w[k]
    BY <2>2, <2>3
  <2>5. ASSUME NEW k \in DOMAIN wire'
        PROVE  IF k <= Len(built) THEN wire'[k] = built[k]
               ELSE k - Len(built) \in DOMAIN behind /\ wire'[k] = behind[k - Len(built)]
    <3>1. k \in DOMAIN w /\ wire'[k] = w[k] /\ k \in Nat /\ k >= 1
      BY <2>3, <2>4, <2>5
    <3>2. k <= Len(built) => k \in DOMAIN built
      BY <1>1, <3>1
    <3> QED
      BY <1>1, <2>2, <3>1, <3>2
  <2>6. Cut'
    BY <2>3, <2>5 DEF Cut, Keeps
  <2> QED
    BY <2>3, <2>4, <2>6 DEF Received
<1>4. ASSUME heads # <<>>, Send([built EXCEPT ![LastHead].len = @ - 1] \o behind)
      PROVE  wire' \in Seq(Cells) /\ Received' /\ pc' = "question" /\ UNCHANGED <<qtype, built, heads, behind>>
  <2>1. /\ LastHead \in DOMAIN built /\ built[LastHead] \in Cells /\ built[LastHead].len - 1 \in Nat
    BY <1>1, <1>4, LastHeadFacts
  <2>2. PICK c \in Cells : c = [built[LastHead] EXCEPT !.len = built[LastHead].len - 1]
    BY <2>1, Resizing
  <2>3. PICK t : t = [built EXCEPT ![LastHead] = c]
    OBVIOUS
  <2>4. t \in Seq(Cells) /\ Len(t) = Len(built) /\ t[LastHead] = c
        /\ \A j \in DOMAIN built : j # LastHead => t[j] = built[j]
    BY <1>1, <2>1, <2>3, Resized1
  <2>5. wire' = t \o behind /\ UNCHANGED <<qtype, built, heads, behind>> /\ LastHead' = LastHead /\ pc' = "question"
    BY <1>4, <2>2, <2>3 DEF Send, LastHead
  <2>6. /\ wire' \in Seq(Cells) /\ Len(wire') = Len(t) + Len(behind)
        /\ \A k \in DOMAIN t : wire'[k] = t[k]
        /\ \A k \in DOMAIN wire' : k > Len(t) => k - Len(t) \in DOMAIN behind /\ wire'[k] = behind[k - Len(t)]
    BY <2>4, <2>5, Following
  <2>7. DOMAIN t = DOMAIN built
    BY <1>1, <2>4
  <2>8. Followed(Len(built))'
    BY <2>4, <2>5, <2>6 DEF Followed
  <2>9. Short'
    BY <1>4, <2>1, <2>2, <2>4, <2>5, <2>6, <2>7, <2>8 DEF Short, Keeps, Resized
  <2> QED
    BY <2>5, <2>6, <2>9 DEF Received
<1>5. ASSUME heads # <<>>, Send(Append([built EXCEPT ![LastHead].len = @ + 1], Cell("stub")) \o behind)
      PROVE  wire' \in Seq(Cells) /\ Received' /\ pc' = "question" /\ UNCHANGED <<qtype, built, heads, behind>>
  <2>1. /\ LastHead \in DOMAIN built /\ built[LastHead] \in Cells /\ built[LastHead].len + 1 \in Nat
    BY <1>1, <1>5, LastHeadFacts
  <2>2. PICK c \in Cells : c = [built[LastHead] EXCEPT !.len = built[LastHead].len + 1]
    BY <2>1, Resizing
  <2>3. PICK t : t = [built EXCEPT ![LastHead] = c]
    OBVIOUS
  <2>4. t \in Seq(Cells) /\ Len(t) = Len(built) /\ t[LastHead] = c
        /\ \A j \in DOMAIN built : j # LastHead => t[j] = built[j]
    BY <1>1, <2>1, <2>3, Resized1
  <2>5. PICK u : u = Append(t, Cell("stub"))
    OBVIOUS
  <2>6. Cell("stub") \in Cells
    BY CellFacts DEF Kinds
  <2>7. u \in Seq(Cells) /\ Len(u) = Len(built) + 1 /\ u[Len(built) + 1] = Cell("stub")
        /\ DOMAIN u = 1 .. Len(built) + 1 /\ \A j \in 1 .. Len(built) : u[j] = t[j]
    BY <1>1, <2>4, <2>5, <2>6
  <2>8. wire' = u \o behind /\ UNCHANGED <<qtype, built, heads, behind>> /\ LastHead' = LastHead /\ pc' = "question"
    BY <1>5, <2>2, <2>3, <2>5 DEF Send, LastHead
  <2>9. /\ wire' \in Seq(Cells) /\ Len(wire') = Len(u) + Len(behind)
        /\ \A k \in DOMAIN u : wire'[k] = u[k]
        /\ \A k \in DOMAIN wire' : k > Len(u) => k - Len(u) \in DOMAIN behind /\ wire'[k] = behind[k - Len(u)]
    BY <2>7, <2>8, Following
  <2>10. (Followed(Len(built) + 1))'
    BY <2>7, <2>8, <2>9 DEF Followed
  <2>11. \A j \in DOMAIN built : j \in DOMAIN u /\ wire'[j] = t[j]
    BY <1>1, <2>7, <2>9
  <2>12. wire'[Len(built) + 1] = Cell("stub")
    BY <1>1, <2>7, <2>9
  <2>13. Long'
    BY <1>5, <2>1, <2>2, <2>4, <2>8, <2>10, <2>11, <2>12 DEF Long, Keeps, Resized
  <2> QED
    BY <2>8, <2>9, <2>13 DEF Received
<1>6. ASSUME NEW j \in DOMAIN built, built[j].kind = "param", j + built[j].len = Len(built),
             Send([built EXCEPT ![j].len = @ + 1] \o behind)
      PROVE  wire' \in Seq(Cells) /\ Received' /\ pc' = "question" /\ UNCHANGED <<qtype, built, heads, behind>>
  <2>1. built[j] \in Cells
    BY <1>1
  <2>2. built[j].len + 1 \in Nat
    BY <2>1 DEF Cells
  <2>3. PICK c \in Cells : c = [built[j] EXCEPT !.len = built[j].len + 1]
    BY <2>1, <2>2, Resizing
  <2>4. PICK t : t = [built EXCEPT ![j] = c]
    OBVIOUS
  <2>5. t \in Seq(Cells) /\ Len(t) = Len(built) /\ t[j] = c
        /\ \A k \in DOMAIN built : k # j => t[k] = built[k]
    BY <1>1, <2>4, Resized1
  <2>6. wire' = t \o behind /\ UNCHANGED <<qtype, built, heads, behind>> /\ pc' = "question"
    BY <1>6, <2>3, <2>4 DEF Send
  <2>7. /\ wire' \in Seq(Cells) /\ Len(wire') = Len(t) + Len(behind)
        /\ \A k \in DOMAIN t : wire'[k] = t[k]
        /\ \A k \in DOMAIN wire' : k > Len(t) => k - Len(t) \in DOMAIN behind /\ wire'[k] = behind[k - Len(t)]
    BY <2>5, <2>6, Following
  <2>8. DOMAIN t = DOMAIN built
    BY <1>1, <2>5
  <2>9. Followed(Len(built))'
    BY <2>5, <2>6, <2>7 DEF Followed
  <2>10. Over(j)'
    BY <1>6, <2>3, <2>5, <2>6, <2>7, <2>8, <2>9 DEF Over, Keeps, Resized
  <2> QED
    BY <2>6, <2>7, <2>10 DEF Received
<1> QED
  BY <1>2, <1>3, <1>4, <1>5, <1>6 DEF SendDamaged

(* Damage changes neither the kinds of cells nor where they lead, and at   *)
(* most one length.                                                        *)
LEMMA DamageIsSmall ==
  ASSUME BInv, wire \in Seq(Cells), Received
  PROVE  /\ \A k \in DOMAIN wire : k \in DOMAIN built =>
              /\ wire[k].kind = built[k].kind /\ wire[k].type = built[k].type /\ wire[k].to = built[k].to
              /\ wire[k].len = built[k].len \/ Over(k) \/ (heads # <<>> /\ k = LastHead /\ (Short \/ Long))
         /\ \A k \in DOMAIN wire : k \notin DOMAIN built =>
              \/ Long /\ k = Len(built) + 1 /\ wire[k] = Cell("stub")
              \/ \E n \in DOMAIN behind : wire[k] = behind[n]
<1>1. built \in Seq(Cells) /\ \A k \in DOMAIN built : built[k] \in Cells /\ built[k].len \in Nat
  BY CellOf DEF BInv
<1>2. Len(built) \in Nat /\ DOMAIN built = 1 .. Len(built) /\ DOMAIN wire = 1 .. Len(wire) /\ Len(wire) \in Nat
  BY <1>1
<1>3. \A k \in DOMAIN wire : k \in DOMAIN built <=> k <= Len(built)
  BY <1>2
<1>4. CASE Intact
  BY <1>2, <1>3, <1>4 DEF Intact, Keeps, Followed
<1>5. CASE Cut
  BY <1>2, <1>3, <1>5 DEF Cut, Keeps
<1>6. CASE Short
  <2>1. LastHead \in DOMAIN built /\ built[LastHead] \in Cells /\ built[LastHead].len - 1 \in Nat
    BY <1>2, <1>6, LastHeadFacts DEF Short
  <2>2. wire[LastHead] = [built[LastHead] EXCEPT !.len = built[LastHead].len - 1]
    BY <1>6 DEF Short, Resized
  <2>3. /\ wire[LastHead].kind = built[LastHead].kind /\ wire[LastHead].type = built[LastHead].type
        /\ wire[LastHead].to = built[LastHead].to
    BY <2>1, <2>2, Resizing
  <2> QED
    BY <1>2, <1>3, <1>6, <2>3 DEF Short, Keeps, Followed
<1>7. CASE Long
  <2>1. LastHead \in DOMAIN built /\ built[LastHead] \in Cells /\ built[LastHead].len + 1 \in Nat
    BY <1>2, <1>7, LastHeadFacts DEF Long
  <2>2. wire[LastHead] = [built[LastHead] EXCEPT !.len = built[LastHead].len + 1]
    BY <1>7 DEF Long, Resized
  <2>3. /\ wire[LastHead].kind = built[LastHead].kind /\ wire[LastHead].type = built[LastHead].type
        /\ wire[LastHead].to = built[LastHead].to
    BY <2>1, <2>2, Resizing
  <2>4. ASSUME NEW k \in DOMAIN wire, k \notin DOMAIN built, k # Len(built) + 1
        PROVE  \E n \in DOMAIN behind : wire[k] = behind[n]
    <3>1. k > Len(built) + 1
      BY <1>2, <2>4
    <3> QED
      BY <1>7, <3>1 DEF Long, Followed
  <2> QED
    BY <1>7, <2>3, <2>4 DEF Long, Keeps
<1>8. CASE \E j \in DOMAIN built : Over(j)
  <2>1. PICK j \in DOMAIN built : Over(j)
    BY <1>8
  <2>2. built[j] \in Cells /\ built[j].len + 1 \in Nat
    BY <1>1
  <2>3. wire[j] = [built[j] EXCEPT !.len = built[j].len + 1]
    BY <2>1 DEF Over, Resized
  <2>4. wire[j].kind = built[j].kind /\ wire[j].type = built[j].type /\ wire[j].to = built[j].to
    BY <2>2, <2>3, Resizing
  <2> QED
    BY <1>2, <1>3, <2>1, <2>4 DEF Over, Keeps, Followed
<1> QED
  BY <1>4, <1>5, <1>6, <1>7, <1>8 DEF Received

LEMMA BackInWire ==
  ASSUME BInv, Sections, wire \in Seq(Cells), Received, NEW k \in DOMAIN wire
  PROVE  wire[k].to \in 0 .. k - 1 /\ (wire[k].kind = "pointer" => wire[k].to > 0)
<1>1. CASE k \in DOMAIN built
  <2>1. built[k].to \in 0 .. k - 1 /\ (built[k].kind = "pointer" => built[k].to > 0)
    BY <1>1 DEF BInv, WellBuilt, PointsBack
  <2>2. wire[k].to = built[k].to /\ wire[k].kind = built[k].kind
    BY <1>1, DamageIsSmall
  <2> QED
    BY <2>1, <2>2
<1>2. CASE k \notin DOMAIN built
  <2>1. k \in Nat /\ k > Len(built) /\ Len(built) \in Nat
    BY <1>2 DEF BInv
  <2>2. CASE wire[k] = Cell("stub")
    BY <2>1, <2>2, CellFacts DEF Kinds, Cell
  <2>3. CASE \E n \in DOMAIN behind : wire[k] = behind[n]
    <3>1. PICK n \in DOMAIN behind : wire[k] = behind[n]
      BY <2>3
    <3>2. behind[n].to \in 0 .. Len(built) /\ (behind[n].kind = "pointer" => behind[n].to > 0)
      BY DEF Sections
    <3> QED
      BY <2>1, <3>1, <3>2
  <2> QED
    BY <1>2, <2>2, <2>3, DamageIsSmall
<1> QED
  BY <1>1, <1>2

Copying == pc \in {"copy", "copyTarget", "copyParam"}

(* What is set when, and what has been found out by then                   *)
Phases ==
  /\ pc = "build" => wire = <<>> /\ found = {} /\ drop = {}
  /\ pc \in {"build", "question", "drop"} => p = 1 /\ end = 0 /\ i = 0
  /\ pc \in {"build", "question", "record", "target", "param", "drop"} =>
       removed = <<>> /\ out = <<>> /\ was = <<>> /\ at = 0
  /\ pc # "build" => Received
  /\ parsed = "none" <=> pc \in {"build", "question", "record", "target", "param"}
  /\ pc \in {"record", "target", "param"} \/ parsed \in {"whole", "badRecords"} => Len(wire) >= 4
  /\ pc \in {"target", "param", "copyTarget", "copyParam"} => i < answers
  /\ Copying => DOMAIN removed = 1 .. Len(wire) + 1 /\ parsed # "badQuestion" /\ qtype = "SVCB"
  /\ verdict # "none" <=> pc = "done"

TInv == BInv /\ Sections /\ TypeOK /\ Phases

LEMMA InitTypes == Init => TInv
<1> SUFFICES ASSUME Init PROVE TInv
  OBVIOUS
<1>1. BInv
  BY InitBuilt
<1>2. TypeOK
  <2>1. DOMAIN <<>> = {} /\ removed = <<>>
    BY DEF Init
  <2> QED
    BY <1>1, <2>1 DEF Init, WireInit, TypeOK, BInv, answers
<1>3. Phases
  BY DEF Init, WireInit, Phases, Copying
<1>4. Sections
  <2>1. behind = <<>> /\ DOMAIN behind = {}
    BY DEF Init, WireInit
  <2> QED
    BY <2>1 DEF Sections
<1> QED
  BY <1>1, <1>2, <1>3, <1>4 DEF TInv

LEMMA BuiltUnchanged ==
  ASSUME BInv, UNCHANGED <<qtype, built, heads>>
  PROVE  BInv'
<1>1. qtype' = qtype /\ built' = built /\ heads' = heads
  OBVIOUS
<1>2. \A n : EndOf(n)' = EndOf(n)
  BY <1>1 DEF EndOf
<1>3. Opened' /\ PointsBack' /\ PlainPointers'
  BY <1>1 DEF BInv, WellBuilt, Opened, PointsBack, PlainPointers
<1>4. Chained'
  <2>1. EndOf(Len(heads))' = EndOf(Len(heads))
    BY <1>1 DEF EndOf
  <2> QED
    BY <1>1, <1>2, <2>1 DEF BInv, WellBuilt, Chained
<1>5. Placed'
  BY <1>1, <1>2 DEF BInv, WellBuilt, Placed
<1>6. ParamsPlaced'
  BY <1>1, <1>2 DEF BInv, WellBuilt, ParamsPlaced, Service
<1>7. DataPlaced'
  <2>1. \A n : Service(n)' <=> Service(n)
    BY <1>1 DEF Service
  <2>2. \A k, e : NameAt(k, e)' <=> NameAt(k, e)
    BY <1>1 DEF NameAt
  <2> SUFFICES ASSUME NEW n \in DOMAIN heads
               PROVE  /\ built[heads[n]].type \in Types[qtype]
                      /\ built[heads[n]].type \in {"A", "AAAA", "TXT"} => EndOf(n) = heads[n] + 1
                      /\ Service(n) =>
                           \E e \in heads[n] + 2 .. EndOf(n) :
                             /\ NameAt(heads[n] + 2, e)
                             /\ \A k \in heads[n] + 1 .. e : built[k].kind \notin {"param", "value"}
                             /\ e < EndOf(n) => built[e + 1].kind = "param"
    BY <1>1, <1>2, <2>1, <2>2, Zenon DEF DataPlaced
  <2> QED
    BY Zenon DEF BInv, WellBuilt, DataPlaced
<1>8. PriorityFirst'
  BY <1>1 DEF BInv, WellBuilt, PriorityFirst, Service
<1> QED
  BY <1>1, <1>3, <1>4, <1>5, <1>6, <1>7, <1>8 DEF BInv, WellBuilt

LEMMA ReceiveTypes ==
  ASSUME TInv, Receive
  PROVE  TInv'
<1> USE DEF work
<1>1. pc = "build" /\ UNCHANGED <<drop, work>>
  BY DEF Receive, Build, AddRecord, AddParam, AddExtra, SendWhole, SendDamaged
<1>2. CASE AddRecord \/ AddParam
  <2>0. BInv' /\ Len(built) <= Len(built') /\ pc' = pc /\ wire' = wire /\ behind' = behind
    BY <1>2, AddRecordKeeps, AddParamKeeps DEF TInv, AddRecord, AddParam
  <2>1. BInv' /\ Sections' /\ pc' = pc /\ wire' = wire
    <3>1. Len(built) \in Nat /\ Len(built') \in Nat /\ \A n \in 0 .. Len(built) : n \in 0 .. Len(built')
      BY <2>0 DEF TInv, BInv
    <3> QED
      BY <2>0, <3>1 DEF TInv, Sections
  <2>2. Phases'
    BY <1>1, <2>1 DEF TInv, Phases, Copying
  <2>3. i' = 0 /\ heads' \in Seq(Nat) /\ i' \in 0 .. answers'
    BY <1>1, <2>1 DEF TInv, Phases, BInv, answers
  <2>4. TypeOK'
    BY <1>1, <2>1, <2>3 DEF TInv, TypeOK, BInv, Sections
  <2> QED
    BY <2>1, <2>2, <2>4 DEF TInv
<1>4. CASE AddExtra
  <2>1. Sections' /\ UNCHANGED <<pc, qtype, built, heads, wire>>
    BY <1>4, AddExtraKeeps DEF TInv, AddExtra
  <2>2. BInv'
    BY <2>1, BuiltUnchanged DEF TInv
  <2>3. Phases'
    BY <1>1, <2>1 DEF TInv, Phases, Copying, answers
  <2>4. TypeOK'
    BY <1>1, <2>1 DEF TInv, TypeOK, Sections, answers
  <2> QED
    BY <2>1, <2>2, <2>3, <2>4 DEF TInv
<1>3. CASE SendWhole \/ SendDamaged
  <2>1. wire' \in Seq(Cells) /\ Received' /\ pc' = "question" /\ UNCHANGED <<qtype, built, heads, behind>>
    BY <1>3, SentIsReceived DEF TInv
  <2>2. BInv' /\ Sections'
    BY <2>1, BuiltUnchanged DEF TInv, Sections
  <2>3. Phases'
    BY <1>1, <2>1 DEF TInv, Phases, Copying
  <2>4. TypeOK'
    <3>1. Len(wire') \in Nat
      BY <2>1
    <3>2. out' = <<>> /\ was' = <<>> /\ removed' = <<>> /\ p' = 1 /\ end' = 0 /\ i' = 0 /\ found' = {} /\ at' = 0
      BY <1>1 DEF TInv, Phases
    <3>3. answers' = answers
      BY <2>1 DEF answers
    <3>4. DOMAIN removed' = {}
      BY <3>2
    <3> QED
      BY <1>1, <2>1, <3>1, <3>2, <3>3, <3>4 DEF TInv, TypeOK, BInv, Sections
  <2> QED
    BY <2>2, <2>3, <2>4 DEF TInv
<1> QED
  BY <1>2, <1>3, <1>4 DEF Receive, Build

LEMMA MessageStays ==
  ASSUME TInv, UNCHANGED message
  PROVE  BInv' /\ Sections' /\ Received' = Received /\ answers' = answers
<1>1. qtype' = qtype /\ built' = built /\ heads' = heads /\ behind' = behind /\ wire' = wire
  BY DEF message
<1>2. BInv' /\ Sections'
  BY <1>1, BuiltUnchanged DEF TInv, Sections
<1>3. answers' = answers
  BY <1>1 DEF answers
<1>4. Received' = Received
  BY <1>1 DEF Received, Intact, Followed, Cut, Short, Long, Over, Keeps, Resized, LastHead
<1> QED
  BY <1>2, <1>3, <1>4

LEMMA NameEndsIn == \A k : NameEnds(k) \subseteq k .. Len(wire)
BY DEF NameEnds

(* A name has one end.                                                     *)
LEMMA OneEnd ==
  ASSUME NEW k \in Int, NEW e \in NameEnds(k), NEW f \in NameEnds(k)
  PROVE  e = f
BY DEF NameEnds

LEMMA ParseStep ==
  ASSUME TInv, UNCHANGED <<message, drop, removed, out, was, at, verdict>>,
         pc \in {"question", "record", "target", "param"}, pc' \in {"record", "target", "param", "drop"},
         p' \in 1 .. Len(wire) + 1, end' \in 0 .. Len(wire), i' \in 0 .. answers, found' \subseteq DOMAIN wire,
         parsed' \in {"none", "whole", "badRecords", "badQuestion"}, parsed' = "none" <=> pc' # "drop",
         pc' \in {"record", "target", "param"} \/ parsed' \in {"whole", "badRecords"} => Len(wire) >= 4,
         pc' \in {"target", "param"} => i' < answers,
         pc' = "drop" => p' = 1 /\ end' = 0 /\ i' = 0
  PROVE  TInv'
<1>1. BInv' /\ Sections' /\ Received' = Received /\ answers' = answers /\ wire' = wire /\ qtype' = qtype
  BY MessageStays DEF message
<1>2. TypeOK'
  BY <1>1 DEF TInv, TypeOK, BInv, Sections
<1>3. Phases'
  BY <1>1 DEF TInv, Phases, Copying
<1> QED
  BY <1>1, <1>2, <1>3 DEF TInv

LEMMA ParseTypes ==
  ASSUME TInv, ParseResponseA
  PROVE  TInv'
<1>1. UNCHANGED <<message, drop, removed, out, was, at, verdict>>
  BY DEF ParseResponseA, ParseQuestion, ParseRecord, ParseTarget, ParseParam, ParamsParsed, ParseDone
<1>2. /\ pc \in {"question", "record", "target", "param"} => parsed = "none"
      /\ pc \in {"record", "target", "param"} => Len(wire) >= 4
      /\ pc \in {"target", "param"} => i < answers
      /\ p \in 1 .. Len(wire) + 1 /\ end \in 0 .. Len(wire) /\ i \in 0 .. answers /\ found \subseteq DOMAIN wire
      /\ Len(wire) \in Nat /\ answers \in Nat
      /\ \A k \in DOMAIN wire : wire[k].len \in Nat
      /\ DOMAIN wire = 1 .. Len(wire)
  BY CellOf DEF TInv, TypeOK, Phases, BInv, answers
<1>3. CASE ParseQuestion
  BY <1>1, <1>2, <1>3, ParseStep, QuestionShape, SMTT(60) DEF ParseQuestion, ParseEnds
<1>4. CASE ParseRecord
  <2>1. CASE \E f \in DOMAIN wire : f - 1 \in NameEnds(p) /\ f + wire[f].len <= Len(wire)
    <3>1. PICK f \in DOMAIN wire : f - 1 \in NameEnds(p) /\ f + wire[f].len <= Len(wire)
      BY <2>1
    <3>2. f = CHOOSE g \in DOMAIN wire : g - 1 \in NameEnds(p)
      <4> DEFINE g == CHOOSE g \in DOMAIN wire : g - 1 \in NameEnds(p)
      <4>1. g \in DOMAIN wire /\ g - 1 \in NameEnds(p)
        BY <3>1
      <4>2. g - 1 = f - 1
        BY <1>2, <3>1, <4>1, OneEnd
      <4> QED
        BY <1>2, <4>1, <4>2
    <3> DEFINE last == f + wire[f].len
    <3>3. last \in 1 .. Len(wire) /\ f + 1 \in 1 .. Len(wire) + 1
      BY <1>2, <3>1
    <3>4. \/ NextRecord(last) /\ found' \subseteq found \cup {last} /\ UNCHANGED parsed
          \/ /\ p' = f + 1 /\ end' = last /\ pc' = "target"
             /\ UNCHANGED <<i, found, parsed>>
          \/ ParseEnds("badRecords") /\ UNCHANGED found
      BY <1>4, <2>1, <3>2 DEF ParseRecord
    <3>5. pc = "record" /\ i < answers
      BY <1>4 DEF ParseRecord
    <3> HIDE DEF last
    <3> QED
      BY <1>1, <1>2, <3>3, <3>4, <3>5, ParseStep, SMTT(60) DEF NextRecord, ParseEnds
  <2>2. CASE ~\E f \in DOMAIN wire : f - 1 \in NameEnds(p) /\ f + wire[f].len <= Len(wire)
    BY <1>1, <1>2, <1>4, <2>2, ParseStep DEF ParseRecord, ParseEnds
  <2> QED
    BY <2>1, <2>2
<1>5. CASE ParseTarget
  <2>1. CASE \E e \in NameEnds(p + 1) : e <= end
    <3>1. PICK e \in NameEnds(p + 1) : e <= end /\ p' = e + 1
      BY <1>2, <1>5, <2>1, OneEnd DEF ParseTarget
    <3>2. e \in p + 1 .. Len(wire)
      BY NameEndsIn
    <3> QED
      BY <1>1, <1>2, <1>5, <2>1, <3>1, <3>2, ParseStep DEF ParseTarget
  <2>2. CASE ~\E e \in NameEnds(p + 1) : e <= end
    BY <1>1, <1>2, <1>5, <2>2, ParseStep DEF ParseTarget, ParseEnds
  <2> QED
    BY <2>1, <2>2
<1>6. CASE ParseParam
  <2>1. p \in DOMAIN wire /\ p <= end /\ wire[p].len \in Nat
    BY <1>2, <1>6 DEF ParseParam, ParamAhead
  <2>2. CASE p + wire[p].len <= end
    <3>1. found' \subseteq DOMAIN wire
      BY <1>2, <1>6, <2>1, <2>2 DEF ParseParam
    <3> QED
      BY <1>1, <1>2, <1>6, <2>1, <2>2, <3>1, ParseStep DEF ParseParam
  <2>3. CASE ~(p + wire[p].len <= end)
    BY <1>1, <1>2, <1>6, <2>3, ParseStep DEF ParseParam, ParseEnds
  <2> QED
    BY <2>2, <2>3
<1>7. CASE ParamsParsed
  BY <1>1, <1>2, <1>7, ParseStep DEF ParamsParsed, NextRecord
<1>8. CASE ParseDone
  BY <1>1, <1>2, <1>8, ParseStep DEF ParseDone, ParseEnds
<1> QED
  BY <1>3, <1>4, <1>5, <1>6, <1>7, <1>8 DEF ParseResponseA
-------------------------------------------------------------------------------
(* What a step of the copying does                                         *)

(* Cells p to q have been copied.                                          *)
Appends(q) ==
  /\ q \in p .. Len(wire) /\ p' = q + 1
  /\ out' \in Seq(Copies) /\ was' \in Seq(DOMAIN wire)
  /\ Len(out') = Len(out) + (q - p + 1) /\ Len(was') = Len(out')
  /\ \A m \in 1 .. Len(out) : out'[m] = out[m] /\ was'[m] = was[m]
  /\ \A m \in 1 .. q - p + 1 :
       /\ was'[Len(out) + m] = p + m - 1
       /\ out'[Len(out) + m] =
            IF wire[p + m - 1].kind = "pointer" THEN Pointer(Moved(wire[p + m - 1].to)) ELSE wire[p + m - 1]

LEMMA CopyFacts ==
  ASSUME TInv
  PROVE  /\ wire \in Seq(Cells) /\ out \in Seq(Copies) /\ was \in Seq(DOMAIN wire) /\ Len(was) = Len(out)
         /\ Len(wire) \in Nat /\ Len(out) \in Nat /\ answers \in Nat /\ DOMAIN wire = 1 .. Len(wire)
         /\ DOMAIN out = 1 .. Len(out) /\ DOMAIN was = 1 .. Len(out)
         /\ p \in 1 .. Len(wire) + 1 /\ end \in 0 .. Len(wire) /\ i \in 0 .. answers /\ at \in 0 .. Len(out)
         /\ \A k \in DOMAIN wire : wire[k] \in Cells /\ wire[k].kind \in Kinds /\ wire[k].type \in Marks
                                   /\ wire[k].len \in Nat /\ wire[k].to \in Nat
         /\ Copying => DOMAIN removed = 1 .. Len(wire) + 1 /\ \A t \in 1 .. Len(wire) + 1 : removed[t] \in Nat
BY CellOf DEF TInv, TypeOK, Phases, BInv, answers

LEMMA CopiedCell ==
  ASSUME NEW c \in Cells
  PROVE  c \in Copies /\ \A t \in Int : Pointer(t) \in Copies /\ Pointer(t).kind = "pointer" /\ Pointer(t).to = t
BY DEF Cells, Copies, Pointer, Kinds, Marks

LEMMA MovedInt ==
  ASSUME TInv, Copying, NEW k \in DOMAIN wire, wire[k].kind = "pointer"
  PROVE  wire[k].to \in 1 .. k - 1 /\ Moved(wire[k].to) \in Int
<1>1. Received
  BY DEF TInv, Phases, Copying
<1>2. wire[k].to \in 1 .. k - 1
  BY <1>1, BackInWire, CopyFacts DEF TInv
<1> QED
  BY <1>2, CopyFacts, SMTT(60) DEF Moved

LEMMA NameCopyIs ==
  ASSUME TInv, Copying, NEW j \in 1 .. Len(wire) + 1, NEW k \in j - 1 .. Len(wire)
  PROVE  /\ NameCopy(j, k) \in Seq(Copies) /\ Len(NameCopy(j, k)) = k - j + 1
         /\ \A n \in 1 .. k - j + 1 :
              NameCopy(j, k)[n] = IF wire[j + n - 1].kind = "pointer" THEN Pointer(Moved(wire[j + n - 1].to))
                                  ELSE wire[j + n - 1]
<1>1. /\ \A n \in 1 .. k - j + 1 : j + n - 1 \in DOMAIN wire
      /\ k - j + 1 \in Nat
  BY CopyFacts
<1>2. ASSUME NEW n \in 1 .. k - j + 1
      PROVE  (IF wire[j + n - 1].kind = "pointer" THEN Pointer(Moved(wire[j + n - 1].to)) ELSE wire[j + n - 1]) \in Copies
  <2>1. wire[j + n - 1] \in Cells /\ wire[j + n - 1] \in Copies
    BY <1>1, CopyFacts, CopiedCell
  <2>2. wire[j + n - 1].kind = "pointer" => Moved(wire[j + n - 1].to) \in Int
    BY <1>1, MovedInt
  <2> QED
    BY <2>1, <2>2, CopiedCell
<1> QED
  BY <1>1, <1>2 DEF NameCopy

LEMMA PositionsAre ==
  ASSUME NEW j \in Nat, NEW k \in Nat, j <= k + 1
  PROVE  /\ Positions(j, k) \in Seq(j .. k) /\ Len(Positions(j, k)) = k - j + 1
         /\ \A n \in 1 .. k - j + 1 : Positions(j, k)[n] = j + n - 1
<1>1. k - j + 1 \in Nat /\ \A n \in 1 .. k - j + 1 : j + n - 1 \in j .. k
  OBVIOUS
<1> QED
  BY <1>1 DEF Positions

LEMMA PartOf ==
  ASSUME NEW S, NEW s \in Seq(S), NEW j \in 1 .. Len(s) + 1, NEW k \in j - 1 .. Len(s)
  PROVE  /\ SubSeq(s, j, k) \in Seq(S) /\ Len(SubSeq(s, j, k)) = k - j + 1
         /\ \A n \in 1 .. k - j + 1 : SubSeq(s, j, k)[n] = s[j + n - 1]
OBVIOUS

LEMMA Retyped ==
  ASSUME NEW S, NEW T, NEW s \in Seq(S), \A n \in 1 .. Len(s) : s[n] \in T
  PROVE  s \in Seq(T)
<1>1. Len(s) \in Nat /\ s \in [1 .. Len(s) -> T]
  OBVIOUS
<1> QED
  BY <1>1, SeqDef

(* The cells p to q: those before r as a name, the others as they are.     *)
LEMMA Appended ==
  ASSUME TInv, Copying, NEW r \in p .. Len(wire) + 1, NEW q \in p .. Len(wire), r <= q + 1,
         NEW name, name = NameCopy(p, r - 1), NEW rest, rest = SubSeq(wire, r, q),
         p' = q + 1, out' = (out \o name) \o rest, was' = was \o Positions(p, q),
         \A k \in r .. q : wire[k].kind = "pointer" => wire[k] = Pointer(Moved(wire[k].to))
  PROVE  Appends(q)
<1>0. /\ wire \in Seq(Cells) /\ out \in Seq(Copies) /\ was \in Seq(DOMAIN wire) /\ Len(was) = Len(out)
      /\ Len(wire) \in Nat /\ Len(out) \in Nat /\ DOMAIN wire = 1 .. Len(wire)
      /\ p \in 1 .. Len(wire) + 1 /\ r \in Nat /\ q \in Nat
  BY CopyFacts, SMTT(60)
<1>1. /\ name \in Seq(Copies) /\ Len(name) = r - p
      /\ \A n \in 1 .. r - p : name[n] = IF wire[p + n - 1].kind = "pointer" THEN Pointer(Moved(wire[p + n - 1].to))
                                         ELSE wire[p + n - 1]
  <2>1. p \in 1 .. Len(wire) + 1 /\ r - 1 \in p - 1 .. Len(wire) /\ (r - 1) - p + 1 = r - p
    BY <1>0
  <2> QED
    BY <2>1, NameCopyIs
<1>2. /\ rest \in Seq(Cells) /\ Len(rest) = q - r + 1
      /\ \A n \in 1 .. q - r + 1 : rest[n] = wire[r + n - 1]
  <2>1. r \in 1 .. Len(wire) + 1 /\ q \in r - 1 .. Len(wire) /\ wire \in Seq(Cells)
    BY <1>0
  <2> QED
    BY <2>1, PartOf
<1>3. rest \in Seq(Copies)
  <2>1. \A n \in 1 .. Len(rest) : rest[n] \in Copies
    BY <1>2, CopiedCell
  <2> QED
    BY <1>2, <2>1, Retyped, Zenon
<1>4. Positions(p, q) \in Seq(DOMAIN wire) /\ Len(Positions(p, q)) = q - p + 1
      /\ \A n \in 1 .. q - p + 1 : Positions(p, q)[n] = p + n - 1
  <2>1. p \in Nat /\ q \in Nat /\ p <= q + 1 /\ p .. q \subseteq DOMAIN wire
    BY <1>0
  <2>2. /\ Positions(p, q) \in Seq(p .. q) /\ Len(Positions(p, q)) = q - p + 1
        /\ \A n \in 1 .. q - p + 1 : Positions(p, q)[n] = p + n - 1
    BY <2>1, PositionsAre
  <2>3. \A n \in 1 .. Len(Positions(p, q)) : Positions(p, q)[n] \in DOMAIN wire
    BY <2>1, <2>2, ElementOfSeq, Zenon
  <2>4. Positions(p, q) \in Seq(DOMAIN wire)
    BY <2>2, <2>3, Retyped, Zenon
  <2> QED
    BY <2>2, <2>4, Zenon
<1>5. PICK front : front = out \o name
  OBVIOUS
<1>6. front \in Seq(Copies) /\ Joins(front, out, name)
  BY <1>0, <1>1, <1>5, Joined
<1>7. out' \in Seq(Copies) /\ Joins(out', front, rest)
  BY <1>3, <1>5, <1>6, Joined
<1>8. was' \in Seq(DOMAIN wire) /\ Joins(was', was, Positions(p, q))
  BY <1>0, <1>4, Joined
<1>9. Len(front) = Len(out) + (r - p) /\ Len(out') = Len(out) + (q - p + 1) /\ Len(was') = Len(out')
  <2>1. Len(front) = Len(out) + Len(name) /\ Len(out') = Len(front) + Len(rest) /\ Len(was') = Len(was) + Len(Positions(p, q))
    BY <1>6, <1>7, <1>8, Zenon DEF Joins
  <2>2. Len(name) = r - p /\ Len(rest) = q - r + 1 /\ Len(Positions(p, q)) = q - p + 1
    BY <1>1, <1>2, <1>4, Zenon
  <2>3. p \in Nat /\ q \in Nat /\ r \in Nat /\ Len(out) \in Nat /\ Len(was) = Len(out)
    BY <1>0
  <2>4. Len(front) = Len(out) + (r - p) /\ Len(out') = Len(front) + (q - r + 1) /\ Len(was') = Len(out) + (q - p + 1)
    BY <2>1, <2>2, <2>3, Zenon
  <2>5. \A l \in Nat : (l + (r - p)) + (q - r + 1) = l + (q - p + 1)
    BY <2>3
  <2> QED
    BY <2>3, <2>4, <2>5, Zenon
<1>10. \A m \in 1 .. Len(out) : out'[m] = out[m] /\ was'[m] = was[m]
  <2> SUFFICES ASSUME NEW m \in 1 .. Len(out) PROVE out'[m] = out[m] /\ was'[m] = was[m]
    OBVIOUS
  <2>1. m \in 1 .. Len(front) /\ m \in 1 .. Len(was)
    BY <1>0, <1>9, SMTT(60)
  <2>2. out'[m] = front[m] /\ front[m] = out[m] /\ was'[m] = was[m]
    BY <1>6, <1>7, <1>8, <2>1, Zenon DEF Joins
  <2> QED
    BY <2>2
<1>11. ASSUME NEW m \in 1 .. q - p + 1
       PROVE  /\ was'[Len(out) + m] = p + m - 1
              /\ out'[Len(out) + m] =
                   IF wire[p + m - 1].kind = "pointer" THEN Pointer(Moved(wire[p + m - 1].to)) ELSE wire[p + m - 1]
  <2>1. was'[Len(out) + m] = p + m - 1
    BY <1>0, <1>4, <1>8 DEF Joins
  <2>2. CASE m <= r - p
    <3>1. Len(out) + m \in 1 .. Len(front) /\ m \in 1 .. Len(name) /\ m \in 1 .. r - p
      <4>1. m \in 1 .. r - p
        BY <1>0, <2>2
      <4>2. Len(name) = r - p /\ Len(front) = Len(out) + (r - p)
        BY <1>1, <1>9, Zenon
      <4>3. Len(out) \in Nat /\ r \in Nat /\ p \in Nat
        BY <1>0
      <4>4. Len(out) + m \in 1 .. Len(out) + (r - p)
        BY <4>1, <4>3
      <4> QED
        BY <4>1, <4>2, <4>4, Zenon
    <3>2. out'[Len(out) + m] = front[Len(out) + m] /\ front[Len(out) + m] = name[m]
      BY <1>6, <1>7, <3>1 DEF Joins
    <3> QED
      BY <1>1, <2>1, <3>1, <3>2
  <2>3. CASE m > r - p
    <3>1. PICK n \in 1 .. q - r + 1 : m = (r - p) + n
      <4>1. m - (r - p) \in 1 .. q - r + 1 /\ m = (r - p) + (m - (r - p))
        BY <1>0, <2>3
      <4> QED
        BY <4>1
    <3>2. Len(out) + m = Len(front) + n /\ p + m - 1 = r + n - 1 /\ r + n - 1 \in r .. q
      BY <1>0, <1>9, <3>1
    <3>3. out'[Len(front) + n] = wire[r + n - 1]
      BY <1>2, <1>7, <3>1 DEF Joins
    <3> QED
      BY <2>1, <3>2, <3>3
  <2>4. m <= r - p \/ m > r - p
    BY <1>0, SMTT(60)
  <2> QED
    BY <2>2, <2>3, <2>4
<1> QED
  BY <1>7, <1>8, <1>9, <1>10, <1>11 DEF Appends

LEMMA OthersStay ==
  ASSUME BInv, wire \in Seq(Cells), Received,
         NEW k \in DOMAIN wire, k \in DOMAIN built, wire[k].kind \notin {"fields", "param", "stub"}
  PROVE  wire[k] = built[k]
<1>1. k <= Len(built)
  BY DEF BInv
<1>2. wire[k].kind = built[k].kind
  BY DamageIsSmall
<1>3. CASE Intact
  BY <1>3 DEF Intact, Keeps
<1>4. CASE Cut
  BY <1>1, <1>4 DEF Cut, Keeps
<1>5. CASE Short \/ Long
  <2>1. k # LastHead
    BY <1>2, <1>5, LastHeadFacts DEF Short, Long
  <2> QED
    BY <1>1, <1>5, <2>1 DEF Short, Long, Keeps
<1>6. CASE \E j \in DOMAIN built : Over(j)
  BY <1>1, <1>2, <1>6 DEF Over, Keeps
<1> QED
  BY <1>1, <1>3, <1>4, <1>5, <1>6 DEF Received

LEMMA PointersPlain ==
  ASSUME TInv, Copying, NEW k \in DOMAIN wire, wire[k].kind = "pointer"
  PROVE  wire[k] = Pointer(wire[k].to)
<1>1. Received /\ BInv /\ Sections /\ wire \in Seq(Cells)
  BY CopyFacts DEF TInv, Phases, Copying
<1>2. CASE k \in DOMAIN built
  <2>1. wire[k] = built[k]
    BY <1>1, <1>2, OthersStay
  <2> QED
    BY <1>1, <1>2, <2>1 DEF BInv, WellBuilt, PlainPointers
<1>3. CASE k \notin DOMAIN built
  <2>1. wire[k].kind # "stub" /\ Cell("stub").kind = "stub"
    BY CellFacts DEF Kinds
  <2>2. PICK n \in DOMAIN behind : wire[k] = behind[n]
    BY <1>1, <1>3, <2>1, DamageIsSmall
  <2> QED
    BY <1>1, <2>2 DEF Sections
<1> QED
  BY <1>2, <1>3

LEMMA RecordCopied ==
  ASSUME TInv, CopyRecord, NEW f \in DOMAIN wire, f - 1 \in NameEnds(p),
         ~Cuts(wire[f].type), f + wire[f].len <= Len(wire)
  PROVE  /\ Appends(IF wire[f].type = qtype THEN f ELSE f + wire[f].len)
         /\ at' = Len(out) + (f - p) + 1 /\ end' = f + wire[f].len /\ UNCHANGED <<removed, verdict>>
         /\ wire[f].type = qtype => pc' = "copyTarget" /\ UNCHANGED i
         /\ wire[f].type # qtype => i' = i + 1 /\ UNCHANGED pc
<1> DEFINE own == IF wire[f].type = qtype THEN f ELSE f + wire[f].len
<1>1. /\ wire[f].len \in Nat /\ p \in 1 .. Len(wire) + 1 /\ f - 1 \in p .. Len(wire)
      /\ DOMAIN wire = 1 .. Len(wire) /\ Len(wire) \in Nat
  BY CopyFacts, NameEndsIn
<1>2. \A g \in DOMAIN wire : g - 1 \in NameEnds(p) => g = f
  <2> SUFFICES ASSUME NEW g \in DOMAIN wire, g - 1 \in NameEnds(p) PROVE g = f
    OBVIOUS
  <2>1. g - 1 = f - 1
    BY <1>1, OneEnd
  <2> QED
    BY <1>1, <2>1
<1>3. /\ out' = out \o NameCopy(p, f - 1) \o SubSeq(wire, f, own)
      /\ was' = was \o Positions(p, own)
      /\ p' = own + 1
      /\ at' = Len(out) + (f - p) + 1 /\ end' = f + wire[f].len /\ UNCHANGED <<removed, verdict>>
      /\ wire[f].type = qtype => pc' = "copyTarget" /\ UNCHANGED i
      /\ wire[f].type # qtype => i' = i + 1 /\ UNCHANGED pc
  <2> DEFINE Step(g) ==
        LET type == wire[g].type
            last == g + wire[g].len
        IN  /\ g - 1 \in NameEnds(p)
            /\ IF Cuts(type)
               THEN Answer("copy") /\ UNCHANGED <<p, end, i, removed, out, was, at>>
               ELSE IF last > Len(wire)
               THEN Refuse
               ELSE LET to == IF type = qtype THEN g ELSE last
                    IN  /\ out' = out \o NameCopy(p, g - 1) \o SubSeq(wire, g, to)
                        /\ was' = was \o Positions(p, to)
                        /\ at' = Len(out) + (g - p) + 1
                        /\ end' = last
                        /\ IF type = qtype
                           THEN p' = g + 1 /\ pc' = "copyTarget" /\ UNCHANGED i
                           ELSE p' = last + 1 /\ i' = i + 1 /\ UNCHANGED pc
                        /\ UNCHANGED <<removed, verdict>>
  <2>1. (~\E g \in DOMAIN wire : g - 1 \in NameEnds(p)) \/ \E g \in DOMAIN wire : Step(g)
    BY Zenon DEF CopyRecord
  <2>2. PICK g \in DOMAIN wire : Step(g)
    BY <2>1
  <2>3. g = f
    BY <1>2, <2>2
  <2>4. Step(f)
    BY <2>2, <2>3
  <2>5. ~(f + wire[f].len > Len(wire))
    BY <1>1
  <2> QED
    BY <2>4, <2>5
<1>4. Copying /\ qtype \in {"A", "AAAA", "SVCB", "OTHER"}
  BY WireAssumption DEF CopyRecord, Copying, TInv, BInv
<1>5. own \in f .. Len(wire) /\ own \in p .. Len(wire) /\ f \in p .. Len(wire) + 1 /\ f <= own + 1
  BY <1>1
<1>6. ASSUME NEW k \in f .. own, wire[k].kind = "pointer"
      PROVE  wire[k] = Pointer(Moved(wire[k].to))
  <2>1. k \in DOMAIN wire /\ wire[k] = Pointer(wire[k].to) /\ wire[k].to \in 1 .. k - 1
    BY <1>1, <1>4, <1>5, <1>6, PointersPlain, MovedInt, SMTT(60)
  <2>2. wire[f].type # qtype
    <3> SUFFICES ASSUME wire[f].type = qtype PROVE FALSE
      OBVIOUS
    <3>1. k = f
      BY <1>1
    <3>2. wire[k].type = "none"
      BY <2>1 DEF Pointer
    <3> QED
      BY <1>4, <3>1, <3>2
  <2>3. wire[k].to \in DOMAIN removed /\ removed[wire[k].to] \in Nat
    BY <1>1, <1>4, <2>1, CopyFacts, SMTT(60)
  <2>4. removed[wire[k].to] = 0
    BY <2>2, <2>3 DEF Cuts
  <2> QED
    BY <2>1, <2>4 DEF Moved
<1> HIDE DEF own
<1>7. Appends(own)
  <2>1. PICK name : name = NameCopy(p, f - 1)
    OBVIOUS
  <2>2. PICK rest : rest = SubSeq(wire, f, own)
    OBVIOUS
  <2>3. out' = (out \o name) \o rest
    BY <1>3, <2>1, <2>2
  <2> QED
    BY <1>3, <1>4, <1>5, <1>6, <2>1, <2>2, <2>3, Appended
<1> QED
  BY <1>3, <1>7 DEF own

LEMMA TargetCopied ==
  ASSUME TInv, CopyTarget
  PROVE  \/ Refuse
         \/ \E e \in NameEnds(p + 1) :
              /\ e \in p + 1 .. Len(wire) /\ p' = e + 1
              /\ out' \in Seq(Copies) /\ was' \in Seq(DOMAIN wire) /\ Len(was') = Len(out') /\ Len(out') >= Len(out)
              /\ wire[p].kind # "pointer" => Appends(e)
              /\ pc' = "copyParam" /\ UNCHANGED <<end, i, removed, at, verdict>>
<1>1. /\ p \in 1 .. Len(wire) + 1 /\ DOMAIN wire = 1 .. Len(wire) /\ Len(wire) \in Nat /\ Copying
      /\ wire \in Seq(Cells) /\ out \in Seq(Copies) /\ Len(out) \in Nat /\ was \in Seq(DOMAIN wire)
      /\ Len(was) = Len(out) /\ \A k \in DOMAIN wire : wire[k] \in Copies
  BY CopyFacts, CopiedCell DEF CopyTarget, Copying
<1>2. SUFFICES ASSUME NEW e \in NameEnds(p + 1), NEW name, name = NameCopy(p + 1, e), NEW places, places = Positions(p, e),
                      out' = (out \o <<wire[p]>>) \o name, was' = was \o places, p' = e + 1
               PROVE  /\ out' \in Seq(Copies) /\ was' \in Seq(DOMAIN wire)
                      /\ Len(was') = Len(out') /\ Len(out') >= Len(out)
                      /\ wire[p].kind # "pointer" => Appends(e)
  BY <1>1, NameEndsIn DEF CopyTarget
<1>3. e \in p + 1 .. Len(wire)
  BY NameEndsIn
<1>4. /\ name \in Seq(Copies) /\ Len(name) = e - p
      /\ \A n \in 1 .. e - p : name[n] = IF wire[p + n].kind = "pointer" THEN Pointer(Moved(wire[p + n].to))
                                         ELSE wire[p + n]
  <2>1. p + 1 \in 1 .. Len(wire) + 1 /\ e \in (p + 1) - 1 .. Len(wire) /\ e - (p + 1) + 1 = e - p
        /\ \A n \in 1 .. e - p : p + 1 + n - 1 = p + n
    BY <1>1, <1>3
  <2>2. /\ NameCopy(p + 1, e) \in Seq(Copies) /\ Len(NameCopy(p + 1, e)) = e - (p + 1) + 1
        /\ \A n \in 1 .. e - (p + 1) + 1 :
              NameCopy(p + 1, e)[n] = IF wire[p + 1 + n - 1].kind = "pointer" THEN Pointer(Moved(wire[p + 1 + n - 1].to))
                                  ELSE wire[p + 1 + n - 1]
    BY <1>1, <2>1, NameCopyIs
  <2> QED
    BY <1>2, <2>1, <2>2
<1>5. /\ places \in Seq(DOMAIN wire) /\ Len(places) = e - p + 1
      /\ \A n \in 1 .. e - p + 1 : places[n] = p + n - 1
  <2>1. p \in Nat /\ e \in Nat /\ p <= e + 1 /\ p .. e \subseteq DOMAIN wire
    BY <1>1, <1>3
  <2>2. /\ Positions(p, e) \in Seq(p .. e) /\ Len(Positions(p, e)) = e - p + 1
        /\ \A n \in 1 .. e - p + 1 : Positions(p, e)[n] = p + n - 1
    BY <2>1, PositionsAre
  <2>3. \A n \in 1 .. Len(Positions(p, e)) : Positions(p, e)[n] \in DOMAIN wire
    BY <2>1, <2>2, ElementOfSeq, Zenon
  <2>4. Positions(p, e) \in Seq(DOMAIN wire)
    BY <2>2, <2>3, Retyped, Zenon
  <2> QED
    BY <1>2, <2>2, <2>4, Zenon
<1>6. PICK one : one = <<wire[p]>>
  OBVIOUS
<1>7. one \in Seq(Copies) /\ Len(one) = 1 /\ one[1] = wire[p] /\ wire[p] \in Copies
  BY <1>1, <1>3, <1>6
<1>8. PICK front : front = out \o one
  OBVIOUS
<1>9. front \in Seq(Copies) /\ Joins(front, out, one)
  BY <1>1, <1>7, <1>8, Joined
<1>10. out' \in Seq(Copies) /\ Joins(out', front, name)
  BY <1>2, <1>4, <1>6, <1>8, <1>9, Joined
<1>11. was' \in Seq(DOMAIN wire) /\ Joins(was', was, places)
  BY <1>1, <1>2, <1>5, Joined
<1>12. Len(front) = Len(out) + 1 /\ Len(out') = Len(out) + (e - p + 1) /\ Len(was') = Len(out')
  <2>1. Len(front) = Len(out) + Len(one) /\ Len(out') = Len(front) + Len(name) /\ Len(was') = Len(was) + Len(places)
    BY <1>9, <1>10, <1>11, Zenon DEF Joins
  <2>2. \A l \in Nat : (l + 1) + (e - p) = l + (e - p + 1)
    BY <1>1, <1>3
  <2> QED
    BY <1>1, <1>4, <1>5, <1>7, <2>1, <2>2, Zenon
<1>13. Len(out') >= Len(out)
  <2>1. \A l \in Nat : l + (e - p + 1) >= l
    BY <1>1, <1>3
  <2> QED
    BY <1>1, <1>12, <2>1, Zenon
<1>14. ASSUME wire[p].kind # "pointer"
       PROVE  Appends(e)
  <2>1. ASSUME NEW m \in 1 .. Len(out)
        PROVE  out'[m] = out[m] /\ was'[m] = was[m]
    <3>1. m \in 1 .. Len(front) /\ m \in 1 .. Len(was)
      BY <1>1, <1>12
    <3> QED
      BY <1>9, <1>10, <1>11, <3>1, Zenon DEF Joins
  <2>2. ASSUME NEW m \in 1 .. e - p + 1
        PROVE  /\ was'[Len(out) + m] = p + m - 1
               /\ out'[Len(out) + m] =
                    IF wire[p + m - 1].kind = "pointer" THEN Pointer(Moved(wire[p + m - 1].to)) ELSE wire[p + m - 1]
    <3>1. was'[Len(out) + m] = p + m - 1
      BY <1>1, <1>5, <1>11 DEF Joins
    <3>2. CASE m = 1
      <4>1. Len(out) + m \in 1 .. Len(front) /\ p + m - 1 = p /\ m \in 1 .. Len(one)
        BY <1>1, <1>7, <1>12, <3>2
      <4>2. out'[Len(out) + m] = front[Len(out) + m] /\ front[Len(out) + m] = one[m]
        BY <1>9, <1>10, <4>1, Zenon DEF Joins
      <4> QED
        BY <1>7, <1>14, <3>1, <3>2, <4>1, <4>2
    <3>3. CASE m # 1
      <4>1. PICK n \in 1 .. e - p : m = n + 1
        <5>1. m - 1 \in 1 .. e - p /\ m = (m - 1) + 1
          BY <1>1, <1>3, <3>3
        <5> QED
          BY <5>1
      <4>2. Len(out) + m = Len(front) + n /\ p + m - 1 = p + n /\ n \in 1 .. Len(name)
        <5>1. Len(front) = Len(out) + 1 /\ Len(name) = e - p
          BY <1>4, <1>12, Zenon
        <5> QED
          BY <1>1, <4>1, <5>1
      <4>3. out'[Len(front) + n] = name[n]
        BY <1>10, <4>2, Zenon DEF Joins
      <4> QED
        BY <1>4, <3>1, <4>1, <4>2, <4>3
    <3> QED
      BY <3>2, <3>3
  <2>3. e \in p .. Len(wire)
    BY <1>1, <1>3
  <2> QED
    BY <1>2, <1>10, <1>11, <1>12, <2>1, <2>2, <2>3 DEF Appends
<1> QED
  BY <1>10, <1>11, <1>12, <1>13, <1>14

LEMMA Attached ==
  ASSUME TInv, NEW q \in p .. Len(wire), NEW cells \in Seq(Copies), Len(cells) = q - p + 1,
         NEW places, places = Positions(p, q), p' = q + 1, out' = out \o cells, was' = was \o places
  PROVE  /\ out' \in Seq(Copies) /\ was' \in Seq(DOMAIN wire) /\ Len(was') = Len(out') /\ Len(out') >= Len(out)
         /\ (\A m \in 1 .. q - p + 1 :
               cells[m] = IF wire[p + m - 1].kind = "pointer" THEN Pointer(Moved(wire[p + m - 1].to))
                          ELSE wire[p + m - 1])
            => Appends(q)
<1>1. /\ p \in Nat /\ q \in Nat /\ p <= q + 1 /\ p .. q \subseteq DOMAIN wire /\ Len(out) \in Nat
      /\ out \in Seq(Copies) /\ was \in Seq(DOMAIN wire) /\ Len(was) = Len(out)
  BY CopyFacts, SMTT(60)
<1>2. /\ places \in Seq(DOMAIN wire) /\ Len(places) = q - p + 1
      /\ \A n \in 1 .. q - p + 1 : places[n] = p + n - 1
  <2>1. /\ Positions(p, q) \in Seq(p .. q) /\ Len(Positions(p, q)) = q - p + 1
        /\ \A n \in 1 .. q - p + 1 : Positions(p, q)[n] = p + n - 1
    BY <1>1, PositionsAre
  <2>2. \A n \in 1 .. Len(Positions(p, q)) : Positions(p, q)[n] \in DOMAIN wire
    BY <1>1, <2>1, ElementOfSeq, Zenon
  <2>3. Positions(p, q) \in Seq(DOMAIN wire)
    BY <2>1, <2>2, Retyped, Zenon
  <2> QED
    BY <2>1, <2>3, Zenon
<1>3. out' \in Seq(Copies) /\ Joins(out', out, cells)
  BY <1>1, Joined
<1>4. was' \in Seq(DOMAIN wire) /\ Joins(was', was, places)
  BY <1>1, <1>2, Joined
<1>5. Len(out') = Len(out) + (q - p + 1) /\ Len(was') = Len(out')
  BY <1>1, <1>2, <1>3, <1>4, Zenon DEF Joins
<1>6. Len(out') >= Len(out)
  <2>1. \A l \in Nat : l + (q - p + 1) >= l
    BY <1>1
  <2> QED
    BY <1>1, <1>5, <2>1, Zenon
<1>7. ASSUME \A m \in 1 .. q - p + 1 :
               cells[m] = IF wire[p + m - 1].kind = "pointer" THEN Pointer(Moved(wire[p + m - 1].to))
                          ELSE wire[p + m - 1]
      PROVE  Appends(q)
  <2>1. ASSUME NEW m \in 1 .. Len(out)
        PROVE  out'[m] = out[m] /\ was'[m] = was[m]
    BY <1>1, <1>3, <1>4, Zenon DEF Joins
  <2>2. ASSUME NEW m \in 1 .. q - p + 1
        PROVE  was'[Len(out) + m] = p + m - 1 /\ out'[Len(out) + m] = cells[m]
    BY <1>1, <1>2, <1>3, <1>4, Zenon DEF Joins
  <2> QED
    BY <1>3, <1>4, <1>5, <1>7, <2>1, <2>2, Zenon DEF Appends
<1> QED
  BY <1>3, <1>4, <1>5, <1>6, <1>7

LEMMA ParamCopied ==
  ASSUME TInv, CopyParam
  PROVE  /\ p <= end /\ pc = "copyParam"
         /\ \/ Refuse
            \/ /\ p + wire[p].len <= end /\ ~Drops(wire[p].type)
               /\ (\A k \in p .. p + wire[p].len : wire[k].kind # "pointer") => Appends(p + wire[p].len)
               /\ p' = p + wire[p].len + 1
               /\ out' \in Seq(Copies) /\ was' \in Seq(DOMAIN wire) /\ Len(was') = Len(out') /\ Len(out') >= Len(out)
               /\ UNCHANGED <<pc, end, i, removed, at, verdict>>
            \/ /\ p + wire[p].len <= end /\ Drops(wire[p].type)
               /\ removed' = [t \in DOMAIN removed |-> removed[t] + IF p < t THEN wire[p].len + 1 ELSE 0]
               /\ p' = p + wire[p].len + 1
               /\ UNCHANGED <<out, was, pc, end, i, at, verdict>>
<1>1. /\ p \in 1 .. Len(wire) /\ DOMAIN wire = 1 .. Len(wire) /\ Len(wire) \in Nat /\ end \in 0 .. Len(wire)
      /\ wire \in Seq(Cells) /\ wire[p].len \in Nat /\ p <= end /\ pc = "copyParam"
      /\ \A k \in DOMAIN wire : wire[k] \in Copies
  BY CopyFacts, CopiedCell DEF CopyParam
<1>2. CASE Refuse
  BY <1>1, <1>2
<1>3. CASE ~Refuse
  <2>1. PICK last : last = p + wire[p].len
    OBVIOUS
  <2>2. last <= end
    BY <1>3, <2>1 DEF CopyParam, Fits
  <2>3. last \in p .. Len(wire)
    BY <1>1, <2>1, <2>2
  <2>4. p' = last + 1 /\ UNCHANGED <<pc, end, i, at, verdict>>
    BY <1>3, <2>1 DEF CopyParam
  <2>5. CASE Drops(wire[p].type)
    BY <1>1, <1>3, <2>1, <2>2, <2>4, <2>5 DEF CopyParam
  <2>6. CASE ~Drops(wire[p].type)
    <3>1. PICK cells : cells = SubSeq(wire, p, last)
      OBVIOUS
    <3>2. PICK places : places = Positions(p, last)
      OBVIOUS
    <3>3. out' = out \o cells /\ was' = was \o places /\ UNCHANGED removed
      BY <1>3, <2>1, <2>6, <3>1, <3>2 DEF CopyParam
    <3>4. /\ cells \in Seq(Cells) /\ Len(cells) = last - p + 1
          /\ \A n \in 1 .. last - p + 1 : cells[n] = wire[p + n - 1]
      <4>1. p \in 1 .. Len(wire) + 1 /\ last \in p - 1 .. Len(wire)
        BY <1>1, <2>3
      <4> QED
        BY <1>1, <3>1, <4>1, PartOf
    <3>5. cells \in Seq(Copies)
      <4>1. \A n \in 1 .. Len(cells) : cells[n] \in Copies
        <5>1. \A n \in 1 .. last - p + 1 : p + n - 1 \in DOMAIN wire
          BY <1>1, <2>3
        <5> QED
          BY <1>1, <3>4, <5>1, Zenon
      <4> QED
        BY <3>4, <4>1, Retyped, Zenon
    <3>6. ASSUME \A k \in p .. last : wire[k].kind # "pointer"
          PROVE  \A m \in 1 .. last - p + 1 :
                   cells[m] = IF wire[p + m - 1].kind = "pointer" THEN Pointer(Moved(wire[p + m - 1].to))
                              ELSE wire[p + m - 1]
      <4>1. \A m \in 1 .. last - p + 1 : p + m - 1 \in p .. last
        BY <1>1, <2>3
      <4> QED
        BY <3>4, <3>6, <4>1, Zenon
    <3>7. /\ out' \in Seq(Copies) /\ was' \in Seq(DOMAIN wire) /\ Len(was') = Len(out') /\ Len(out') >= Len(out)
          /\ (\A k \in p .. last : wire[k].kind # "pointer") => Appends(last)
      BY <2>3, <2>4, <3>2, <3>3, <3>4, <3>5, <3>6, Attached
    <3> QED
      BY <1>1, <2>1, <2>2, <2>4, <2>6, <3>3, <3>7
  <2> QED
    BY <2>5, <2>6
<1> QED
  BY <1>2, <1>3

LEMMA CopyStep ==
  ASSUME TInv, UNCHANGED <<message, found, parsed>>, drop' \subseteq Hints, pc # "build",
         pc' \in {"copy", "copyTarget", "copyParam", "done"}, parsed # "none",
         p' \in 1 .. Len(wire) + 1, end' \in 0 .. Len(wire), i' \in 0 .. answers,
         out' \in Seq(Copies), was' \in Seq(DOMAIN wire), Len(was') = Len(out'), at' \in 0 .. Len(out'),
         removed' = removed \/ removed' \in [1 .. Len(wire) + 1 -> Nat],
         verdict' \in {"none", "nothing", "answer", "copy"}, verdict' # "none" <=> pc' = "done",
         pc' # "done" => DOMAIN removed' = 1 .. Len(wire) + 1 /\ parsed # "badQuestion" /\ qtype = "SVCB",
         pc' \in {"copyTarget", "copyParam"} => i' < answers
  PROVE  TInv'
<1>1. BInv' /\ Sections' /\ Received' = Received /\ answers' = answers /\ wire' = wire /\ qtype' = qtype
  BY MessageStays DEF message
<1>2. removed' \in [DOMAIN removed' -> Nat] /\ (DOMAIN removed' = {} \/ DOMAIN removed' = 1 .. Len(wire) + 1)
  <2>1. CASE removed' = removed
    BY <2>1 DEF TInv, TypeOK
  <2>2. CASE removed' \in [1 .. Len(wire) + 1 -> Nat]
    BY <2>2
  <2> QED
    BY <2>1, <2>2
<1>3. TypeOK'
  BY <1>1, <1>2 DEF TInv, TypeOK, BInv, Sections
<1>4. Phases'
  BY <1>1 DEF TInv, Phases, Copying
<1> QED
  BY <1>1, <1>3, <1>4 DEF TInv

LEMMA DropTypes ==
  ASSUME TInv, NEW d \in SUBSET Hints, SendAsIs(d) \/ EmptyResponse(d) \/ CopyQuestion(d)
  PROVE  TInv'
<1>1. /\ pc = "drop" /\ drop' = d /\ parsed \in {"whole", "badRecords", "badQuestion"}
      /\ p = 1 /\ end = 0 /\ i = 0 /\ out = <<>> /\ was = <<>> /\ at = 0 /\ Len(was) = Len(out) /\ verdict = "none"
      /\ p \in 1 .. Len(wire) + 1 /\ end \in 0 .. Len(wire) /\ i \in 0 .. answers /\ at \in 0 .. Len(out)
      /\ out \in Seq(Copies) /\ was \in Seq(DOMAIN wire) /\ Len(wire) \in Nat /\ DOMAIN wire = 1 .. Len(wire)
      /\ UNCHANGED <<message, found, parsed>>
      /\ parsed # "badQuestion" => Len(wire) >= 4
  BY DEF TInv, TypeOK, Phases, SendAsIs, EmptyResponse, CopyQuestion, SendResult
<1>2. /\ Question \in Seq(Copies) /\ Len(Question) = 4
      /\ Positions(1, Len(Question)) = Positions(1, 4) /\ Len(Positions(1, 4)) = 4
      /\ Positions(1, 4) \in Seq(1 .. 4)
  <2>1. \A n \in 1 .. Len(Question) : Question[n] \in Copies
    <3>1. \A n \in 1 .. Len(Question) : Question[n] \in Cells
      BY QuestionShape, ElementOfSeq, Zenon
    <3> QED
      BY <3>1, CopiedCell, Zenon
  <2>2. Question \in Seq(Copies)
    BY <2>1, QuestionShape, Retyped, Zenon
  <2>3. 1 \in Nat /\ 4 \in Nat /\ 1 <= 4 + 1 /\ 4 - 1 + 1 = 4
    OBVIOUS
  <2>4. Len(Positions(1, 4)) = 4 /\ Positions(1, 4) \in Seq(1 .. 4)
    BY <2>3, PositionsAre
  <2> QED
    BY <2>2, <2>4, QuestionShape, Zenon
<1>3. Len(wire) >= 4 => Positions(1, 4) \in Seq(DOMAIN wire)
  <2>1. Len(wire) >= 4 => 1 .. 4 \subseteq DOMAIN wire
    BY <1>1
  <2> QED
    BY <1>2, <2>1, SeqMonotonic, Zenon
<1>4. CASE SendAsIs(d)
  BY <1>1, <1>4, CopyStep DEF SendAsIs, Answer
<1>5. CASE EmptyResponse(d)
  <2>1. CASE parsed = "badQuestion"
    BY <1>1, <1>5, <2>1, CopyStep DEF EmptyResponse, Refuse, Answer
  <2>2. CASE parsed # "badQuestion"
    <3>1. out' = Question /\ was' = Positions(1, 4) /\ pc' = "done" /\ verdict' = "copy"
          /\ UNCHANGED <<p, end, i, removed, at>>
      BY <1>2, <1>5, <2>2 DEF EmptyResponse, Answer
    <3>2. out' \in Seq(Copies) /\ was' \in Seq(DOMAIN wire) /\ Len(was') = Len(out') /\ Len(out') = 4
      BY <1>1, <1>2, <1>3, <2>2, <3>1
    <3>3. at' \in 0 .. Len(out')
      BY <1>1, <3>1, <3>2
    <3> QED
      BY <1>1, <3>1, <3>2, <3>3, CopyStep
  <2> QED
    BY <2>1, <2>2
<1>6. CASE CopyQuestion(d)
  <2>1. CASE parsed = "badQuestion"
    BY <1>1, <1>6, <2>1, CopyStep DEF CopyQuestion, Refuse, Answer
  <2>2. CASE parsed # "badQuestion"
    <3>1. removed' \in [1 .. Len(wire) + 1 -> Nat] /\ DOMAIN removed' = 1 .. Len(wire) + 1
      BY <1>6, <2>2 DEF CopyQuestion
    <3>2. p' = 5 /\ out' = Question /\ was' = Positions(1, 4) /\ pc' = "copy" /\ UNCHANGED <<end, i, at, verdict>>
          /\ qtype = "SVCB"
      BY <1>2, <1>6, <2>2 DEF CopyQuestion
    <3>3. out' \in Seq(Copies) /\ was' \in Seq(DOMAIN wire) /\ Len(was') = Len(out') /\ Len(out') = 4
      BY <1>1, <1>2, <1>3, <2>2, <3>2
    <3>4. at' \in 0 .. Len(out') /\ p' \in 1 .. Len(wire) + 1
      BY <1>1, <2>2, <3>2, <3>3
    <3> QED
      BY <1>1, <2>2, <3>1, <3>2, <3>3, <3>4, CopyStep
  <2> QED
    BY <2>1, <2>2
<1> QED
  BY <1>4, <1>5, <1>6

LEMMA CopyTypes ==
  ASSUME TInv, DropAddress
  PROVE  TInv'
<1>1. Copying /\ UNCHANGED <<message, drop, found, parsed>>
  BY DEF DropAddress, CopyRecord, CopyTarget, CopyParam, EndRecord, CopyDone, Copying
<1>2. /\ pc # "build" /\ parsed # "none" /\ parsed # "badQuestion" /\ qtype = "SVCB" /\ drop' \subseteq Hints
      /\ removed \in [1 .. Len(wire) + 1 -> Nat] /\ verdict = "none"
      /\ verdict \in {"none", "nothing", "answer", "copy"}
  BY <1>1 DEF TInv, TypeOK, Phases, Copying
<1>3. /\ wire \in Seq(Cells) /\ out \in Seq(Copies) /\ was \in Seq(DOMAIN wire) /\ Len(was) = Len(out)
      /\ Len(wire) \in Nat /\ Len(out) \in Nat /\ answers \in Nat /\ DOMAIN wire = 1 .. Len(wire)
      /\ p \in 1 .. Len(wire) + 1 /\ end \in 0 .. Len(wire) /\ i \in 0 .. answers /\ at \in 0 .. Len(out)
      /\ \A k \in DOMAIN wire : wire[k].len \in Nat
  BY CopyFacts
<1>4. pc \in {"copyTarget", "copyParam"} => i < answers
  BY DEF TInv, Phases
<1>5. ASSUME NEW v \in {"nothing", "copy"}, Answer(v), UNCHANGED <<p, end, i, removed, out, was, at>>
      PROVE  TInv'
  BY <1>1, <1>2, <1>3, <1>5, CopyStep DEF Answer
<1>6. CASE CopyRecord
  <2>1. CASE Refuse \/ (Answer("copy") /\ UNCHANGED <<p, end, i, removed, out, was, at>>)
    BY <1>5, <2>1 DEF Refuse
  <2>2. CASE ~(Refuse \/ (Answer("copy") /\ UNCHANGED <<p, end, i, removed, out, was, at>>))
    <3>1. PICK f \in DOMAIN wire : f - 1 \in NameEnds(p) /\ ~Cuts(wire[f].type) /\ ~(f + wire[f].len > Len(wire))
      BY <1>6, <2>2 DEF CopyRecord
    <3> DEFINE own == IF wire[f].type = qtype THEN f ELSE f + wire[f].len
    <3>2. f + wire[f].len <= Len(wire) /\ own \in 1 .. Len(wire) /\ f - p \in Nat
      BY <1>3, <3>1, NameEndsIn, SMTT(60)
    <3>3. /\ Appends(own)
          /\ at' = Len(out) + (f - p) + 1 /\ end' = f + wire[f].len /\ UNCHANGED <<removed, verdict>>
          /\ wire[f].type = qtype => pc' = "copyTarget" /\ UNCHANGED i
          /\ wire[f].type # qtype => i' = i + 1 /\ UNCHANGED pc
      BY <1>6, <3>1, <3>2, RecordCopied
    <3>4. own >= f
      BY <1>3, <3>1
    <3> HIDE DEF own
    <3>5. p' \in 1 .. Len(wire) + 1 /\ at' \in 0 .. Len(out') /\ end' \in 0 .. Len(wire)
      <4>1. Len(out') = Len(out) + (own - p + 1) /\ p' = own + 1
        BY <3>3 DEF Appends
      <4>2. f + wire[f].len \in 0 .. Len(wire) /\ wire[f].len \in Nat
        BY <1>3, <3>1, <3>2, SMTT(60)
      <4>3. at' = Len(out) + (f - p) + 1 /\ end' = f + wire[f].len
        BY <3>3
      <4> QED
        <5>1. f \in Int /\ p \in Int /\ own \in 1 .. Len(wire) /\ f <= own /\ p <= f
          BY <1>3, <3>2, <3>4
        <5>2. \A l \in Nat : l + (f - p) + 1 \in 0 .. l + (own - p + 1)
          BY <5>1
        <5>3. at' \in 0 .. Len(out')
          BY <1>3, <4>1, <4>3, <5>2, Zenon
        <5> QED
          BY <1>3, <4>1, <4>2, <4>3, <5>1, <5>3
    <3>6. out' \in Seq(Copies) /\ was' \in Seq(DOMAIN wire) /\ Len(was') = Len(out')
      BY <3>3 DEF Appends
    <3>7. pc = "copy" /\ i < answers
      BY <1>6 DEF CopyRecord
    <3>8. /\ removed' = removed /\ verdict' = verdict /\ DOMAIN removed' = 1 .. Len(wire) + 1
          /\ pc' \in {"copyTarget", "copy"} /\ i' \in 0 .. answers /\ (pc' = "copyTarget" => i' < answers)
      <4>1. removed' = removed /\ verdict' = verdict /\ DOMAIN removed' = 1 .. Len(wire) + 1
        BY <1>2, <3>3
      <4>2. (pc' = "copyTarget" /\ i' = i) \/ (pc' = pc /\ i' = i + 1)
        BY <3>3, Zenon
      <4> QED
        BY <1>3, <3>7, <4>1, <4>2
    <3> QED
      BY <1>1, <1>2, <1>3, <3>5, <3>6, <3>7, <3>8, CopyStep
  <2> QED
    BY <2>1, <2>2
<1>7. CASE CopyTarget
  <2>1. CASE Refuse
    BY <1>5, <2>1 DEF Refuse
  <2>2. CASE ~Refuse
    <3>1. PICK e \in NameEnds(p + 1) :
              /\ e \in p + 1 .. Len(wire) /\ p' = e + 1
              /\ out' \in Seq(Copies) /\ was' \in Seq(DOMAIN wire) /\ Len(was') = Len(out') /\ Len(out') >= Len(out)
              /\ pc' = "copyParam" /\ UNCHANGED <<end, i, removed, at, verdict>>
      BY <1>7, <2>2, TargetCopied
    <3>2. p' \in 1 .. Len(wire) + 1 /\ at' \in 0 .. Len(out')
      <4>1. e \in 1 .. Len(wire) /\ p' = e + 1
        BY <1>3, <3>1
      <4>2. at' = at /\ Len(out') \in Nat /\ Len(out') >= Len(out)
        BY <3>1
      <4> QED
        BY <1>3, <4>1, <4>2
    <3>3. pc = "copyTarget"
      BY <1>7 DEF CopyTarget
    <3> QED
      BY <1>1, <1>2, <1>3, <1>4, <3>1, <3>2, <3>3, CopyStep
  <2> QED
    BY <2>1, <2>2
<1>8. CASE CopyParam
  <2>1. CASE Refuse
    BY <1>5, <2>1 DEF Refuse
  <2>2. CASE ~Refuse
    <3>1. /\ pc = "copyParam" /\ p <= end /\ p + wire[p].len <= end /\ p' = p + wire[p].len + 1
          /\ UNCHANGED <<pc, end, i, at, verdict>>
          /\ out' \in Seq(Copies) /\ was' \in Seq(DOMAIN wire) /\ Len(was') = Len(out') /\ Len(out') >= Len(out)
          /\ \/ removed' = removed
             \/ removed' = [t \in DOMAIN removed |-> removed[t] + IF p < t THEN wire[p].len + 1 ELSE 0]
      BY <1>3, <1>8, <2>2, ParamCopied
    <3>2. wire[p].len \in Nat
      BY <1>3, <3>1
    <3>3. p' \in 1 .. Len(wire) + 1 /\ at' \in 0 .. Len(out')
      BY <1>3, <3>1, <3>2, SMTT(60)
    <3>4. removed' \in [1 .. Len(wire) + 1 -> Nat]
      <4>1. CASE removed' = removed
        BY <1>2, <4>1
      <4>2. CASE removed' = [t \in DOMAIN removed |-> removed[t] + IF p < t THEN wire[p].len + 1 ELSE 0]
        <5>1. \A t \in 1 .. Len(wire) + 1 : removed[t] \in Nat /\ removed[t] + (IF p < t THEN wire[p].len + 1 ELSE 0) \in Nat
          BY <1>2, <3>2
        <5>2. DOMAIN removed = 1 .. Len(wire) + 1
          BY <1>2
        <5> QED
          BY <4>2, <5>1, <5>2
      <4> QED
        BY <3>1, <4>1, <4>2
    <3>5. DOMAIN removed' = 1 .. Len(wire) + 1
      BY <3>4
    <3> QED
      BY <1>1, <1>2, <1>3, <1>4, <3>1, <3>3, <3>4, <3>5, CopyStep
  <2> QED
    BY <2>1, <2>2
<1>9. CASE EndRecord
  <2>1. out' \in Seq(Copies) /\ Len(out') = Len(out)
    <3>1. CASE at \in DOMAIN out
      <4>1. out[at] \in Copies /\ Len(out) - at \in Nat
        BY <1>3, <3>1
      <4>2. [out[at] EXCEPT !.len = Len(out) - at] \in Copies
        BY <4>1 DEF Copies
      <4>3. out' = [out EXCEPT ![at] = [out[at] EXCEPT !.len = Len(out) - at]]
        BY <1>9 DEF EndRecord
      <4> QED
        BY <1>3, <3>1, <4>2, <4>3
    <3>2. CASE at \notin DOMAIN out
      <4>1. out' = out
        BY <1>3, <1>9, <3>2 DEF EndRecord
      <4> QED
        BY <1>3, <4>1
    <3> QED
      BY <3>1, <3>2
  <2>2. pc = "copyParam" /\ i' = i + 1 /\ pc' = "copy" /\ UNCHANGED <<p, end, removed, was, at, verdict>>
    BY <1>9 DEF EndRecord
  <2>3. i' \in 0 .. answers
    BY <1>3, <1>4, <2>2
  <2>4. DOMAIN removed' = 1 .. Len(wire) + 1
    BY <1>2, <2>2
  <2> QED
    BY <1>1, <1>2, <1>3, <2>1, <2>2, <2>3, <2>4, CopyStep
<1>10. CASE CopyDone
  BY <1>5, <1>10 DEF CopyDone
<1> QED
  BY <1>6, <1>7, <1>8, <1>9, <1>10 DEF DropAddress

(* Building, damaging, parsing and copying keep the offsets and the shape  *)
(* of what the upstream builds.                                            *)
THEOREM TypesKept == TInv /\ [Next]_vars => TInv'
<1> SUFFICES ASSUME TInv, [Next]_vars PROVE TInv'
  OBVIOUS
<1>1. CASE UNCHANGED vars
  <2>1. UNCHANGED message /\ UNCHANGED <<pc, drop>> /\ UNCHANGED work
    BY <1>1 DEF vars
  <2>2. BInv' /\ Sections' /\ Received' = Received /\ answers' = answers /\ wire' = wire /\ qtype' = qtype
    BY <2>1, MessageStays DEF message
  <2>3. TypeOK'
    BY <2>1, <2>2 DEF work, TInv, TypeOK, BInv, Sections
  <2>4. Phases'
    BY <2>1, <2>2 DEF work, TInv, Phases, Copying
  <2> QED
    BY <2>2, <2>3, <2>4 DEF TInv
<1>2. CASE Next
  BY <1>2, ReceiveTypes, ParseTypes, DropTypes, CopyTypes DEF Next
<1> QED
  BY <1>1, <1>2

(* Whatever is received, in whatever way it is damaged, parsing and        *)
(* copying read and write no cell outside the answer and the copy: all     *)
(* offsets, lengths and positions stay in range.                           *)
THEOREM TypeCorrect == Spec => []TypeOK
<1>1. Init => TInv
  BY InitTypes
<1>2. TInv /\ [Next]_vars => TInv'
  BY TypesKept
<1>3. TInv => TypeOK
  BY DEF TInv
<1> QED
  BY <1>1, <1>2, <1>3, PTL DEF Spec
-------------------------------------------------------------------------------
(* Where things stand in what is received                                  *)

Got == BInv /\ Sections /\ wire \in Seq(Cells) /\ Received

LEMMA GotFacts ==
  ASSUME Got
  PROVE  /\ built \in Seq(Cells) /\ heads \in Seq(Nat) /\ qtype \in QTypes /\ wire \in Seq(Cells)
         /\ Len(built) \in Nat /\ Len(wire) \in Nat /\ Len(heads) \in Nat
         /\ DOMAIN built = 1 .. Len(built) /\ DOMAIN wire = 1 .. Len(wire) /\ DOMAIN heads = 1 .. Len(heads)
         /\ \A k \in DOMAIN wire : wire[k].len \in Nat /\ wire[k].kind \in Kinds /\ wire[k].type \in Marks
         /\ \A k \in DOMAIN built : built[k].len \in Nat /\ built[k].kind \in Kinds /\ built[k].type \in Marks
         /\ \A n \in DOMAIN heads :
              /\ heads[n] \in 6 .. Len(built) /\ heads[n] \in DOMAIN built
              /\ EndOf(n) \in heads[n] + 1 .. Len(built) /\ EndOf(n) = heads[n] + built[heads[n]].len
              /\ built[heads[n]].kind = "fields" /\ built[heads[n] - 1].kind = "pointer"
         /\ Len(built) = IF heads = <<>> THEN 4 ELSE EndOf(Len(heads))
         /\ Len(built) >= 4
<1>1. /\ built \in Seq(Cells) /\ heads \in Seq(Nat) /\ qtype \in QTypes /\ wire \in Seq(Cells)
      /\ Opened /\ Chained /\ Placed
  BY DEF Got, BInv, WellBuilt
<1>2. /\ \A k \in DOMAIN wire : wire[k].len \in Nat /\ wire[k].kind \in Kinds /\ wire[k].type \in Marks
      /\ \A k \in DOMAIN built : built[k].len \in Nat /\ built[k].kind \in Kinds /\ built[k].type \in Marks
  BY <1>1, CellOf
<1>3. /\ Len(built) \in Nat /\ Len(wire) \in Nat /\ Len(heads) \in Nat
      /\ DOMAIN built = 1 .. Len(built) /\ DOMAIN wire = 1 .. Len(wire) /\ DOMAIN heads = 1 .. Len(heads)
  BY <1>1
<1>4. \A n \in DOMAIN heads :
        /\ heads[n] \in 6 .. Len(built) /\ heads[n] \in DOMAIN built
        /\ EndOf(n) \in heads[n] + 1 .. Len(built) /\ EndOf(n) = heads[n] + built[heads[n]].len
        /\ built[heads[n]].kind = "fields" /\ built[heads[n] - 1].kind = "pointer"
  <2> SUFFICES ASSUME NEW n \in DOMAIN heads
               PROVE  /\ heads[n] \in 6 .. Len(built) /\ heads[n] \in DOMAIN built
                      /\ EndOf(n) \in heads[n] + 1 .. Len(built) /\ EndOf(n) = heads[n] + built[heads[n]].len
                      /\ built[heads[n]].kind = "fields" /\ built[heads[n] - 1].kind = "pointer"
    OBVIOUS
  <2>1. heads[n] \in 6 .. Len(built) /\ EndOf(n) \in heads[n] + 1 .. Len(built)
    BY <1>1 DEF Chained
  <2>2. built[heads[n]].kind = "fields" /\ built[heads[n] - 1].kind = "pointer"
    BY <1>1 DEF Placed
  <2>3. heads[n] \in DOMAIN built
    BY <1>3, <2>1
  <2> QED
    BY <2>1, <2>2, <2>3 DEF EndOf
<1>5. Len(built) = (IF heads = <<>> THEN 4 ELSE EndOf(Len(heads))) /\ Len(built) >= 4
  BY <1>1 DEF Chained, Opened
<1> QED
  BY <1>1, <1>2, <1>3, <1>4, <1>5, Zenon

LEMMA HeadIs ==
  ASSUME Got, NEW n \in DOMAIN heads
  PROVE  /\ n \in Nat /\ heads[n] \in Nat /\ EndOf(n) \in Nat /\ built[heads[n]].len \in Nat
         /\ n <= Len(heads) /\ heads[n] >= 6 /\ heads[n] < EndOf(n) /\ EndOf(n) <= Len(built)
         /\ EndOf(n) = heads[n] + built[heads[n]].len
<1>1. heads[n] \in 6 .. Len(built) /\ EndOf(n) \in heads[n] + 1 .. Len(built)
  BY GotFacts, Zenon
<1>2. n \in 1 .. Len(heads) /\ Len(heads) \in Nat /\ Len(built) \in Nat /\ heads[n] \in DOMAIN built
      /\ EndOf(n) = heads[n] + built[heads[n]].len
  BY GotFacts, Zenon
<1>3. built[heads[n]].len \in Nat
  BY <1>2, GotFacts, Zenon
<1> QED
  BY <1>1, <1>2, <1>3

LEMMA Apart ==
  ASSUME Got, NEW m \in DOMAIN heads, NEW n \in DOMAIN heads
  PROVE  m < n => EndOf(m) < heads[n] - 1 /\ heads[m] < heads[n]
<1>1. m < n => EndOf(m) < heads[n] - 1
  BY DEF Got, BInv, WellBuilt, Chained
<1> QED
  BY <1>1, GotFacts

LEMMA Follows ==
  ASSUME Got, NEW n \in DOMAIN heads
  PROVE  heads[n] = IF n = 1 THEN 6 ELSE EndOf(n - 1) + 2
BY DEF Got, BInv, WellBuilt, Chained

(* A cell belongs to one record.                                           *)
LEMMA OneRecord ==
  ASSUME Got, NEW m \in DOMAIN heads, NEW n \in DOMAIN heads, NEW k \in Int,
         heads[m] - 1 <= k, k <= EndOf(m), heads[n] - 1 <= k, k <= EndOf(n)
  PROVE  m = n
<1>1. m \in Nat /\ n \in Nat /\ heads[m] \in Nat /\ heads[n] \in Nat /\ EndOf(m) \in Nat /\ EndOf(n) \in Nat
  BY HeadIs, Zenon
<1>2. (m < n => EndOf(m) < heads[n] - 1) /\ (n < m => EndOf(n) < heads[m] - 1)
  BY Apart
<1> QED
  BY <1>1, <1>2

LEMMA HeadInWire ==
  ASSUME Got, NEW n \in DOMAIN heads, heads[n] \in DOMAIN wire
  PROVE  /\ wire[heads[n]].kind = "fields" /\ wire[heads[n]].type = built[heads[n]].type
         /\ \/ wire[heads[n]].len = built[heads[n]].len
            \/ n = Len(heads) /\ Short /\ wire[heads[n]].len = built[heads[n]].len - 1
            \/ n = Len(heads) /\ Long /\ wire[heads[n]].len = built[heads[n]].len + 1
<1>1. heads[n] \in DOMAIN built /\ built[heads[n]].kind = "fields"
  BY GotFacts
<1>2. /\ wire[heads[n]].kind = built[heads[n]].kind /\ wire[heads[n]].type = built[heads[n]].type
      /\ wire[heads[n]].len = built[heads[n]].len \/ Over(heads[n]) \/ (heads # <<>> /\ heads[n] = LastHead /\ (Short \/ Long))
  BY <1>1, DamageIsSmall DEF Got
<1>3. ~Over(heads[n])
  BY <1>1 DEF Over
<1>4. ASSUME heads # <<>>, heads[n] = LastHead, Short \/ Long
      PROVE  /\ n = Len(heads)
             /\ \/ Short /\ wire[heads[n]].len = built[heads[n]].len - 1
                \/ Long /\ wire[heads[n]].len = built[heads[n]].len + 1
  <2>1. n = Len(heads)
    <3>1. Len(heads) \in DOMAIN heads /\ LastHead = heads[Len(heads)]
      BY <1>4, LastHeadFacts DEF Got
    <3>2. n <= Len(heads) /\ n \in Nat /\ Len(heads) \in Nat
      BY GotFacts
    <3>3. n < Len(heads) => heads[n] < heads[Len(heads)]
      BY <3>1, Apart
    <3>4. heads[n] \in Nat
      BY GotFacts
    <3> QED
      BY <1>4, <3>1, <3>2, <3>3, <3>4
  <2>2. built[LastHead] \in Cells /\ built[LastHead].len \in Nat /\ built[LastHead].len > 0
    BY <1>4, LastHeadFacts DEF Got
  <2>3. CASE Short
    <3>1. wire[LastHead] = [built[LastHead] EXCEPT !.len = built[LastHead].len - 1] /\ built[LastHead].len - 1 \in Nat
      BY <2>2, <2>3 DEF Short, Resized
    <3> QED
      BY <1>4, <2>1, <2>2, <2>3, <3>1, Resizing
  <2>4. CASE Long
    <3>1. wire[LastHead] = [built[LastHead] EXCEPT !.len = built[LastHead].len + 1] /\ built[LastHead].len + 1 \in Nat
      BY <2>2, <2>4 DEF Long, Resized
    <3> QED
      BY <1>4, <2>1, <2>2, <2>4, <3>1, Resizing
  <2> QED
    BY <1>4, <2>3, <2>4
<1> QED
  BY <1>1, <1>2, <1>3, <1>4

LEMMA ParamInWire ==
  ASSUME Got, NEW j \in DOMAIN wire, wire[j].kind = "param"
  PROVE  /\ j \in DOMAIN built /\ built[j].kind = "param" /\ built[j].type = wire[j].type
         /\ wire[j].len = built[j].len \/ (Over(j) /\ wire[j].len = built[j].len + 1)
<1>1. j \in DOMAIN built
  <2>1. \A n \in DOMAIN behind : behind[n].kind # "param"
    BY DEF Got, Sections
  <2> QED
    BY <2>1, DamageIsSmall, CellFacts DEF Kinds, Got
<1>2. /\ wire[j].kind = built[j].kind /\ wire[j].type = built[j].type
      /\ wire[j].len = built[j].len \/ Over(j) \/ (heads # <<>> /\ j = LastHead /\ (Short \/ Long))
  BY <1>1, DamageIsSmall DEF Got
<1>3. ~(heads # <<>> /\ j = LastHead)
  BY <1>2, LastHeadFacts DEF Got
<1>4. Over(j) => wire[j].len = built[j].len + 1
  <2>1. built[j] \in Cells /\ built[j].len + 1 \in Nat
    BY <1>1, CellOf DEF Got, BInv
  <2> QED
    BY <2>1, Resizing DEF Over, Resized
<1> QED
  BY <1>1, <1>2, <1>3, <1>4

(* The record that a parameter is in                                       *)
LEMMA ParamIn ==
  ASSUME Got, NEW j \in DOMAIN built, built[j].kind = "param"
  PROVE  \E n \in DOMAIN heads :
      /\ Service(n)
      /\ heads[n] < j /\ j + built[j].len <= EndOf(n)
      /\ \A k \in j + 1 .. j + built[j].len : built[k].kind = "value"
      /\ j + built[j].len < EndOf(n) => built[j + built[j].len + 1].kind = "param"
BY DEF Got, BInv, WellBuilt, ParamsPlaced

(* A parameter that is too long is the last of the last record, which has  *)
(* the length it should have.                                              *)
LEMMA OverLast ==
  ASSUME Got, NEW j \in DOMAIN built, Over(j), NEW n \in DOMAIN heads, heads[n] < j, j <= EndOf(n)
  PROVE  /\ n = Len(heads) /\ j + built[j].len = EndOf(n) /\ Len(wire) >= Len(built)
         /\ wire[heads[n]].len = built[heads[n]].len
         /\ \A k \in DOMAIN built : Over(k) => k = j
<1>1. built[j].kind = "param" /\ j + built[j].len = Len(built) /\ Len(wire) >= Len(built)
  <2>1. built[j].kind = "param" /\ j + built[j].len = Len(built) /\ Len(wire) = Len(built) + Len(behind)
    BY DEF Over, Followed
  <2>2. Len(behind) \in Nat /\ Len(built) \in Nat
    BY DEF Got, BInv, Sections
  <2> QED
    BY <2>1, <2>2
<1>2. PICK m \in DOMAIN heads : heads[m] < j /\ j + built[j].len <= EndOf(m)
  BY <1>1, ParamIn
<1>3. j \in Nat /\ built[j].len \in Nat /\ heads[m] \in Nat /\ heads[n] \in Nat /\ EndOf(m) \in Nat /\ EndOf(n) \in Nat
  <2>1. j \in 1 .. Len(built) /\ built[j].len \in Nat
    BY GotFacts, Zenon
  <2> QED
    BY <2>1, HeadIs
<1>4. m = n
  BY <1>2, <1>3, OneRecord
<1>5. heads # <<>> /\ Len(heads) \in DOMAIN heads /\ Len(built) = EndOf(Len(heads)) /\ EndOf(n) <= Len(built)
  BY GotFacts, SMTT(60)
<1>6. n = Len(heads)
  <2>1. Len(heads) \in DOMAIN heads /\ n <= Len(heads) /\ n \in Nat /\ Len(heads) \in Nat
    BY <1>5, HeadIs, GotFacts
  <2>2. n < Len(heads) => EndOf(n) < heads[Len(heads)] - 1
    BY <2>1, Apart
  <2>3. heads[Len(heads)] < EndOf(Len(heads)) /\ heads[Len(heads)] \in Nat
    BY <2>1, HeadIs
  <2> QED
    BY <1>1, <1>2, <1>3, <1>4, <1>5, <2>1, <2>2, <2>3
<1>7. heads[n] \in DOMAIN built /\ heads[n] # j
  BY <1>3, GotFacts
<1>8. wire[heads[n]] = built[heads[n]]
  BY <1>7 DEF Over, Keeps
<1>9. ASSUME NEW k \in DOMAIN built, Over(k)
      PROVE  k = j
  <2> SUFFICES ASSUME k # j PROVE FALSE
    OBVIOUS
  <2>1. wire[k] = built[k]
    BY DEF Over, Keeps
  <2>2. wire[k] = [built[k] EXCEPT !.len = built[k].len + 1] /\ built[k] \in Cells
    BY <1>9, CellOf DEF Over, Resized, Got, BInv
  <2>3. built[k].len + 1 \in Nat /\ built[k].len \in Nat
    <3>1. built[k].len \in Nat
      BY GotFacts, Zenon
    <3> QED
      BY <3>1
  <2>4. wire[k].len = built[k].len + 1
    BY <2>2, <2>3, Resizing
  <2> QED
    BY <2>1, <2>3, <2>4
<1> QED
  BY <1>1, <1>2, <1>4, <1>5, <1>6, <1>8, <1>9

(* The name at the owner of a record ends there.                           *)
LEMMA OwnerEnds ==
  ASSUME Got, NEW n \in DOMAIN heads
  PROVE  /\ \A f \in DOMAIN wire : f - 1 \in NameEnds(heads[n] - 1) => f = heads[n]
         /\ heads[n] \in DOMAIN wire => heads[n] - 1 \in NameEnds(heads[n] - 1)
<1>1. heads[n] - 1 \in DOMAIN built /\ built[heads[n] - 1].kind = "pointer" /\ heads[n] \in Nat /\ heads[n] >= 6
  BY GotFacts, HeadIs, SMTT(60)
<1>2. heads[n] - 1 \in DOMAIN wire => wire[heads[n] - 1].kind = "pointer"
  BY <1>1, DamageIsSmall DEF Got
<1>3. DOMAIN wire = 1 .. Len(wire) /\ Len(wire) \in Nat
  BY GotFacts
<1>4. ASSUME NEW f \in DOMAIN wire, f - 1 \in NameEnds(heads[n] - 1)
      PROVE  f = heads[n]
  <2>1. f - 1 \in heads[n] - 1 .. Len(wire)
    BY <1>4, NameEndsIn
  <2>2. heads[n] - 1 \in DOMAIN wire
    BY <1>1, <1>3, <2>1
  <2>3. heads[n] - 1 \in NameEnds(heads[n] - 1)
    BY <1>1, <1>2, <1>3, <2>2 DEF NameEnds
  <2>4. f - 1 = heads[n] - 1
    BY <1>1, <1>4, <2>3, OneEnd
  <2> QED
    BY <1>1, <1>3, <2>4
<1>5. ASSUME heads[n] \in DOMAIN wire
      PROVE  heads[n] - 1 \in NameEnds(heads[n] - 1)
  BY <1>1, <1>2, <1>3, <1>5 DEF NameEnds
<1> QED
  BY <1>4, <1>5

(* The target of a service ends where it was built to.                     *)
LEMMA TargetEnds ==
  ASSUME Got, NEW n \in DOMAIN heads, NEW e \in heads[n] + 2 .. EndOf(n), NameAt(heads[n] + 2, e)
  PROVE  /\ \A k \in NameEnds(heads[n] + 2) : k = e
         /\ e \in DOMAIN wire => e \in NameEnds(heads[n] + 2)
<1>1. /\ heads[n] \in Nat /\ EndOf(n) \in Nat /\ EndOf(n) <= Len(built) /\ Len(built) \in Nat /\ Len(wire) \in Nat
      /\ DOMAIN wire = 1 .. Len(wire) /\ DOMAIN built = 1 .. Len(built)
  BY GotFacts, HeadIs
<1>2. /\ built[e].kind \in {"root", "pointer"}
      /\ \A j \in heads[n] + 2 .. e - 1 : built[j].kind = "label"
  BY DEF NameAt
<1>3. \A j \in heads[n] + 2 .. e : j \in DOMAIN built /\ (j \in DOMAIN wire => wire[j].kind = built[j].kind)
  <2>1. \A j \in heads[n] + 2 .. e : j \in DOMAIN built
    BY <1>1
  <2> QED
    BY <2>1, DamageIsSmall DEF Got
<1>4. ASSUME NEW k \in NameEnds(heads[n] + 2)
      PROVE  k = e
  <2>1. /\ k \in heads[n] + 2 .. Len(wire) /\ wire[k].kind \in {"root", "pointer"}
        /\ \A j \in heads[n] + 2 .. k - 1 : wire[j].kind = "label"
    BY <1>4 DEF NameEnds
  <2>2. ~(k < e)
    <3> SUFFICES ASSUME k < e PROVE FALSE
      OBVIOUS
    <3>1. k \in heads[n] + 2 .. e - 1 /\ k \in DOMAIN wire /\ k \in heads[n] + 2 .. e
      BY <1>1, <2>1
    <3> QED
      BY <1>2, <1>3, <2>1, <3>1
  <2>3. ~(e < k)
    <3> SUFFICES ASSUME e < k PROVE FALSE
      OBVIOUS
    <3>1. e \in heads[n] + 2 .. k - 1 /\ e \in DOMAIN wire /\ e \in heads[n] + 2 .. e
      BY <1>1, <2>1
    <3> QED
      BY <1>2, <1>3, <2>1, <3>1
  <2> QED
    BY <1>1, <2>1, <2>2, <2>3
<1>5. ASSUME e \in DOMAIN wire
      PROVE  e \in NameEnds(heads[n] + 2)
  <2>1. \A j \in heads[n] + 2 .. e - 1 : j \in heads[n] + 2 .. e /\ j \in DOMAIN wire
    BY <1>1, <1>5
  <2>2. \A j \in heads[n] + 2 .. e - 1 : wire[j].kind = "label"
    BY <1>2, <1>3, <2>1
  <2>3. wire[e].kind \in {"root", "pointer"} /\ e \in heads[n] + 2 .. Len(wire)
    BY <1>1, <1>2, <1>3, <1>5
  <2> QED
    BY <2>2, <2>3 DEF NameEnds
<1> QED
  BY <1>4, <1>5

(* The address at k belongs to the n-th record, or to its parameter j.     *)
OfRecord(k, n) ==
  /\ heads[n] \in DOMAIN wire /\ built[heads[n]].type \in {"A", "AAAA"}
  /\ wire[heads[n]].len = 1 /\ k = heads[n] + 1

OfParam(k, n, j) ==
  /\ Service(n) /\ j \in DOMAIN wire /\ wire[j].kind = "param" /\ wire[j].type \in Hints
  /\ heads[n] < j /\ j < k /\ k <= j + wire[j].len
  /\ j + built[j].len <= EndOf(n)
  /\ \A l \in j + 1 .. j + built[j].len : built[l].kind = "value"
  /\ wire[j].len = built[j].len \/ (Over(j) /\ wire[j].len = built[j].len + 1)

(* The addresses of the answer records                                     *)
Answered == Addresses \cap DOMAIN built

LEMMA AddressPlace ==
  ASSUME Got, NEW k \in Answered
  PROVE  \E n \in DOMAIN heads : OfRecord(k, n) \/ \E j \in DOMAIN built : OfParam(k, n, j)
<1>1. PICK j \in 1 .. k - 1 :
        \/ wire[j].kind = "fields" /\ wire[j].type \in {"A", "AAAA"} /\ wire[j].len = 1 /\ k = j + 1
        \/ wire[j].kind = "param" /\ wire[j].type \in Hints /\ k <= j + wire[j].len
  BY DEF Answered, Addresses
<1>2. k \in DOMAIN wire /\ DOMAIN wire = 1 .. Len(wire) /\ DOMAIN built = 1 .. Len(built)
  BY GotFacts DEF Answered, Addresses
<1>3. j \in DOMAIN wire
  BY <1>2, GotFacts
<1>4. CASE wire[j].kind = "fields" /\ wire[j].type \in {"A", "AAAA"} /\ wire[j].len = 1 /\ k = j + 1
  <2>1. j \in DOMAIN built
    <3>1. k \in 1 .. Len(built) /\ Len(built) \in Nat /\ j \in Nat /\ j >= 1
      BY <1>1, <1>2, GotFacts DEF Answered
    <3> QED
      BY <1>2, <1>4, <3>1
  <2>2. built[j].kind = "fields" /\ built[j].type = wire[j].type
    BY <1>3, <1>4, <2>1, DamageIsSmall DEF Got
  <2>3. j > 4
    <3> SUFFICES ASSUME ~(j > 4) PROVE FALSE
      OBVIOUS
    <3>1. j \in 1 .. 4
      BY <1>1
    <3> QED
      BY <2>2, <3>1, QuestionShape DEF Got, BInv, WellBuilt, Opened
  <2>4. \E n \in DOMAIN heads :
         \/ j = heads[n] - 1 \/ j = heads[n]
         \/ heads[n] < j /\ j <= EndOf(n) /\ built[j].kind \notin {"fields", "stub"}
    BY <2>1, <2>3 DEF Got, BInv, WellBuilt, Placed
  <2>5. PICK n \in DOMAIN heads : j = heads[n]
    BY <2>2, <2>4, GotFacts
  <2> QED
    BY <1>3, <1>4, <2>2, <2>5 DEF OfRecord
<1>5. CASE wire[j].kind = "param" /\ wire[j].type \in Hints /\ k <= j + wire[j].len
  <2>1. /\ j \in DOMAIN built /\ built[j].kind = "param"
        /\ wire[j].len = built[j].len \/ (Over(j) /\ wire[j].len = built[j].len + 1)
    BY <1>3, <1>5, ParamInWire
  <2>2. PICK n \in DOMAIN heads :
           /\ Service(n) /\ heads[n] < j /\ j + built[j].len <= EndOf(n)
           /\ \A l \in j + 1 .. j + built[j].len : built[l].kind = "value"
    BY <2>1, ParamIn
  <2>3. j < k
    BY <1>1, <1>2, GotFacts
  <2> QED
    BY <1>3, <1>5, <2>1, <2>2, <2>3 DEF OfParam
<1> QED
  BY <1>1, <1>4, <1>5

(* It lies within the record, or one cell behind the last one.             *)
LEMMA AddressWithin ==
  ASSUME Got, NEW k \in Answered, NEW n \in DOMAIN heads,
         OfRecord(k, n) \/ \E j \in DOMAIN built : OfParam(k, n, j)
  PROVE  /\ k \in Nat /\ heads[n] < k
         /\ k <= EndOf(n) \/ (n = Len(heads) /\ k = EndOf(n) + 1 /\ \E j \in DOMAIN built : OfParam(k, n, j) /\ Over(j))
<1>1. /\ heads[n] \in Nat /\ EndOf(n) \in Nat /\ heads[n] < EndOf(n)
  BY HeadIs
<1>2. CASE OfRecord(k, n)
  BY <1>1, <1>2 DEF OfRecord
<1>3. CASE \E j \in DOMAIN built : OfParam(k, n, j)
  <2>1. PICK j \in DOMAIN built : OfParam(k, n, j)
    BY <1>3
  <2>2. /\ heads[n] < j /\ j < k /\ k <= j + wire[j].len /\ j + built[j].len <= EndOf(n)
        /\ wire[j].len = built[j].len \/ (Over(j) /\ wire[j].len = built[j].len + 1)
    BY <2>1 DEF OfParam
  <2>3. j \in Nat /\ built[j].len \in Nat /\ k \in Nat
    <3>1. j \in 1 .. Len(built) /\ built[j].len \in Nat /\ k \in 1 .. Len(wire) /\ Len(built) \in Nat /\ Len(wire) \in Nat
      BY GotFacts, Zenon DEF Answered, Addresses
    <3> QED
      BY <3>1
  <2>4. CASE wire[j].len = built[j].len
    BY <1>1, <2>2, <2>3, <2>4
  <2>5. CASE Over(j) /\ wire[j].len = built[j].len + 1
    <3>1. j <= EndOf(n)
      BY <1>1, <2>2, <2>3
    <3>2. n = Len(heads) /\ j + built[j].len = EndOf(n)
      BY <2>2, <2>5, <3>1, OverLast
    <3> QED
      BY <1>1, <2>1, <2>2, <2>3, <2>5, <3>2, SMTT(60)
  <2> QED
    BY <2>2, <2>4, <2>5
<1> QED
  BY <1>2, <1>3

LEMMA AddressOf ==
  ASSUME Got, NEW k \in Answered, NEW n \in DOMAIN heads,
         heads[n] - 1 <= k, k <= EndOf(n) + 1 \/ n = Len(heads)
  PROVE  /\ k \in Nat /\ heads[n] < k
         /\ OfRecord(k, n) \/ \E j \in DOMAIN built : OfParam(k, n, j)
         /\ k <= EndOf(n) \/ (n = Len(heads) /\ k = EndOf(n) + 1 /\ \E j \in DOMAIN built : OfParam(k, n, j) /\ Over(j))
<1>1. PICK m \in DOMAIN heads : OfRecord(k, m) \/ \E j \in DOMAIN built : OfParam(k, m, j)
  BY AddressPlace
<1>2. /\ k \in Nat /\ heads[m] < k
      /\ k <= EndOf(m) \/ (m = Len(heads) /\ k = EndOf(m) + 1 /\ \E j \in DOMAIN built : OfParam(k, m, j) /\ Over(j))
  BY <1>1, AddressWithin
<1>3. /\ m \in Nat /\ heads[m] \in Nat /\ EndOf(m) \in Nat /\ m <= Len(heads) /\ n <= Len(heads)
      /\ n \in Nat /\ heads[n] \in Nat /\ EndOf(n) \in Nat /\ Len(heads) \in Nat
  BY HeadIs, GotFacts
<1>4. (m < n => EndOf(m) < heads[n] - 1) /\ (n < m => EndOf(n) < heads[m] - 1)
  BY Apart
<1>5. m = n
  <2>1. ~(m < n)
    BY <1>2, <1>3, <1>4
  <2>2. ~(n < m)
    BY <1>2, <1>3, <1>4
  <2> QED
    BY <1>3, <2>1, <2>2
<1> QED
  BY <1>1, <1>2, <1>5

(* All addresses before p have been collected.                             *)
Gathered == \A k \in Answered : k < p => k \in found

(* The parsing follows the records that were built; one that damage has    *)
(* made shorter or longer is the last one it can pass.                     *)
Reads ==
  /\ pc = "record" =>
       /\ p = (IF i = 0 THEN 5 ELSE heads[i] + wire[heads[i]].len + 1) /\ (i # 0 => heads[i] \in DOMAIN wire)
       /\ Gathered
       /\ i = answers => Answered \subseteq found
  /\ pc \in {"target", "param"} =>
       /\ heads[i + 1] \in DOMAIN wire /\ Service(i + 1) /\ end = heads[i + 1] + wire[heads[i + 1]].len
       /\ Gathered
  /\ pc = "target" => p = heads[i + 1] + 1
  /\ pc = "param" =>
       /\ heads[i + 1] + 2 < p /\ p <= end + 1 /\ p <= EndOf(i + 1) + 1
       /\ p <= EndOf(i + 1) => built[p].kind = "param"
       /\ \A j \in DOMAIN built : Over(j) /\ i + 1 = answers => p <= j
  /\ parsed = "whole" => Answered \subseteq found

LEMMA ReadsStep ==
  ASSUME UNCHANGED message,
         pc' = "record" =>
           /\ p' = (IF i' = 0 THEN 5 ELSE heads[i'] + wire[heads[i']].len + 1) /\ (i' # 0 => heads[i'] \in DOMAIN wire)
           /\ \A k \in Answered : k < p' => k \in found'
           /\ i' = answers => Answered \subseteq found',
         pc' \in {"target", "param"} =>
           /\ heads[i' + 1] \in DOMAIN wire /\ Service(i' + 1) /\ end' = heads[i' + 1] + wire[heads[i' + 1]].len
           /\ \A k \in Answered : k < p' => k \in found',
         pc' = "target" => p' = heads[i' + 1] + 1,
         pc' = "param" =>
           /\ heads[i' + 1] + 2 < p' /\ p' <= end' + 1 /\ p' <= EndOf(i' + 1) + 1
           /\ p' <= EndOf(i' + 1) => built[p'].kind = "param"
           /\ \A j \in DOMAIN built : Over(j) /\ i' + 1 = answers => p' <= j,
         parsed' = "whole" => Answered \subseteq found'
  PROVE  Reads'
<1>1. built' = built /\ heads' = heads /\ behind' = behind /\ wire' = wire
  BY DEF message
<1>2. Answered' = Answered /\ answers' = answers
  BY <1>1 DEF Answered, Addresses, answers
<1>3. \A j : Over(j)' <=> Over(j)
  BY <1>1 DEF Over, Keeps, Resized, Followed
<1>4. Gathered' <=> \A k \in Answered : k < p' => k \in found'
  BY <1>2 DEF Gathered
<1>5. Service(i + 1)' <=> Service(i' + 1)
  BY <1>1 DEF Service
<1>6. EndOf(i + 1)' = EndOf(i' + 1)
  BY <1>1 DEF EndOf
<1>7. (\A j \in DOMAIN built : Over(j) /\ i + 1 = answers => p <= j)' <=> (\A j \in DOMAIN built : Over(j) /\ i' + 1 = answers => p' <= j)
  BY <1>1, <1>2, <1>3
<1> QED
  BY <1>1, <1>2, <1>4, <1>5, <1>6, <1>7 DEF Reads

(* The next record begins where it was built to.                           *)
LEMMA RecordAt ==
  ASSUME Got, NEW j \in Nat, j < answers,
         NEW q, q = (IF j = 0 THEN 5 ELSE heads[j] + wire[heads[j]].len + 1), j # 0 => heads[j] \in DOMAIN wire
  PROVE  j + 1 \in DOMAIN heads /\ q = heads[j + 1] - 1
<1>1. j + 1 \in DOMAIN heads /\ (j # 0 => j \in DOMAIN heads) /\ j # Len(heads)
  <2>1. DOMAIN heads = 1 .. Len(heads) /\ Len(heads) \in Nat /\ answers = Len(heads)
    BY GotFacts, Zenon DEF answers
  <2>2. \A l \in Nat : j < l => j + 1 \in 1 .. l /\ (j # 0 => j \in 1 .. l) /\ j # l
    OBVIOUS
  <2> QED
    BY <2>1, <2>2, Zenon
<1>2. CASE j = 0
  <2>1. heads[j + 1] = 6
    BY <1>1, <1>2, Follows
  <2> QED
    BY <1>1, <1>2, <2>1
<1>3. CASE j # 0
  <2>1. wire[heads[j]].len = built[heads[j]].len
    BY <1>1, <1>3, HeadInWire
  <2>2. heads[j + 1] = EndOf(j) + 2
    <3>1. j + 1 # 1 /\ (j + 1) - 1 = j
      BY <1>3
    <3> QED
      BY <1>1, <3>1, Follows
  <2>3. EndOf(j) = heads[j] + built[heads[j]].len /\ EndOf(j) \in Nat
    BY <1>1, <1>3, HeadIs
  <2> QED
    BY <1>1, <1>3, <2>1, <2>2, <2>3
<1> QED
  BY <1>2, <1>3

(* How long a record is, as received                                       *)
LEMMA WireEnd ==
  ASSUME Got, NEW n \in DOMAIN heads, heads[n] \in DOMAIN wire
  PROVE  /\ heads[n] + wire[heads[n]].len \in Nat /\ wire[heads[n]].len \in Nat
         /\ heads[n] + wire[heads[n]].len <= EndOf(n) + 1
         /\ heads[n] + wire[heads[n]].len >= EndOf(n) - 1
         /\ n # Len(heads) => heads[n] + wire[heads[n]].len = EndOf(n)
         /\ heads[n] + wire[heads[n]].len = EndOf(n) + 1 =>
              Long /\ EndOf(n) = Len(built) /\ wire[EndOf(n) + 1] = Cell("stub") /\ Len(wire) >= EndOf(n) + 1
         /\ heads[n] + wire[heads[n]].len = EndOf(n) - 1 => Short
<1>1. /\ EndOf(n) = heads[n] + built[heads[n]].len /\ heads[n] \in Nat /\ built[heads[n]].len \in Nat /\ EndOf(n) \in Nat
      /\ wire[heads[n]].len \in Nat
  BY HeadIs, GotFacts
<1>2. \/ wire[heads[n]].len = built[heads[n]].len
      \/ n = Len(heads) /\ Short /\ wire[heads[n]].len = built[heads[n]].len - 1
      \/ n = Len(heads) /\ Long /\ wire[heads[n]].len = built[heads[n]].len + 1
  BY HeadInWire
<1>3. n = Len(heads) => EndOf(n) = Len(built)
  BY GotFacts
<1>4. ASSUME n = Len(heads), Long
      PROVE  EndOf(n) = Len(built) /\ wire[EndOf(n) + 1] = Cell("stub") /\ Len(wire) >= EndOf(n) + 1
  <2>1. Len(wire) >= EndOf(n) + 1 /\ wire[EndOf(n) + 1] = Cell("stub")
    <3>1. Len(behind) \in Nat /\ Len(built) \in Nat
      BY DEF Got, BInv, Sections
    <3> QED
      BY <1>3, <1>4, <3>1 DEF Long, Followed
  <2> QED
    BY <1>3, <1>4, <2>1, Zenon
<1>5. CASE wire[heads[n]].len = built[heads[n]].len
  BY <1>1, <1>5
<1>6. CASE n = Len(heads) /\ Short /\ wire[heads[n]].len = built[heads[n]].len - 1
  <2>1. heads[n] + wire[heads[n]].len = EndOf(n) - 1
    BY <1>1, <1>6
  <2>2. EndOf(n) - 1 # EndOf(n) + 1 /\ EndOf(n) - 1 <= EndOf(n) + 1 /\ EndOf(n) - 1 >= EndOf(n) - 1
    BY <1>1
  <2>3. heads[n] + wire[heads[n]].len \in Nat
    BY <1>1
  <2> QED
    BY <1>1, <1>6, <2>1, <2>2, <2>3, Zenon
<1>7. CASE n = Len(heads) /\ Long /\ wire[heads[n]].len = built[heads[n]].len + 1
  <2>1. heads[n] + wire[heads[n]].len = EndOf(n) + 1
    BY <1>1, <1>7
  <2>2. EndOf(n) - 1 # EndOf(n) + 1 /\ EndOf(n) + 1 <= EndOf(n) + 1 /\ EndOf(n) + 1 >= EndOf(n) - 1
    BY <1>1
  <2>3. heads[n] + wire[heads[n]].len \in Nat
    BY <1>1
  <2> QED
    BY <1>1, <1>4, <1>7, <2>1, <2>2, <2>3, Zenon
<1> QED
  BY <1>2, <1>5, <1>6, <1>7

LEMMA ServiceData ==
  ASSUME Got, NEW n \in DOMAIN heads, Service(n)
  PROVE  \E e \in heads[n] + 2 .. EndOf(n) :
           /\ NameAt(heads[n] + 2, e)
           /\ \A k \in heads[n] + 1 .. e : built[k].kind \notin {"param", "value"}
           /\ e < EndOf(n) => built[e + 1].kind = "param"
BY DEF Got, BInv, WellBuilt, DataPlaced

LEMMA GotIt ==
  ASSUME TInv, pc # "build"
  PROVE  Got /\ DOMAIN heads = 1 .. answers /\ answers \in Nat /\ i \in 0 .. answers /\ Len(heads) = answers
<1>1. Got /\ i \in 0 .. answers
  BY DEF TInv, TypeOK, Phases, Got
<1> QED
  BY <1>1, GotFacts DEF answers

LEMMA QuestionReads ==
  ASSUME TInv, Reads, ParseQuestion
  PROVE  Reads'
<1>1. pc = "question" /\ UNCHANGED message /\ found' = found
  BY DEF ParseQuestion
<1>2. Got /\ DOMAIN heads = 1 .. answers /\ i = 0
  BY <1>1, GotIt DEF TInv, Phases
<1>3. ASSUME NEW k \in Answered
      PROVE  answers # 0 /\ ~(k < 5)
  <2>1. PICK n \in DOMAIN heads : OfRecord(k, n) \/ \E j \in DOMAIN built : OfParam(k, n, j)
    BY <1>2, AddressPlace
  <2>2. k \in Nat /\ heads[n] < k
    BY <1>2, <2>1, AddressWithin
  <2>3. heads[n] \in Nat /\ heads[n] >= 6
    BY <1>2, HeadIs
  <2> QED
    BY <1>2, <2>2, <2>3
<1>4. \/ pc' = "drop" /\ parsed' = "badQuestion"
      \/ pc' = "record" /\ p' = 5 /\ i' = i /\ parsed' = parsed
  BY QuestionShape DEF ParseQuestion, ParseEnds
<1>5. CASE pc' = "drop" /\ parsed' = "badQuestion"
  BY <1>1, <1>5, ReadsStep
<1>6. CASE pc' = "record" /\ p' = 5 /\ i' = i /\ parsed' = parsed
  <2>1. parsed = "none"
    BY <1>1 DEF TInv, Phases
  <2> QED
    BY <1>1, <1>2, <1>3, <1>6, <2>1, ReadsStep
<1> QED
  BY <1>4, <1>5, <1>6

LEMMA ReadRecordAt ==
  ASSUME TInv, Reads, pc = "record", i < answers
  PROVE  /\ Got /\ i \in Nat /\ parsed = "none" /\ Gathered
         /\ i + 1 \in DOMAIN heads /\ p = heads[i + 1] - 1
<1>1. Got /\ i \in Nat /\ parsed = "none" /\ Gathered
  BY GotIt DEF TInv, Phases, Reads
<1>2. p = (IF i = 0 THEN 5 ELSE heads[i] + wire[heads[i]].len + 1) /\ (i # 0 => heads[i] \in DOMAIN wire)
  BY DEF Reads
<1> QED
  BY <1>1, <1>2, RecordAt

(* What ParseRecord does, with the fields where they were built            *)
LEMMA RecordParsed ==
  ASSUME Got, ParseRecord, NEW n \in DOMAIN heads, p = heads[n] - 1
  PROVE  \/ ParseEnds("badRecords") /\ ~(heads[n] \in DOMAIN wire /\ heads[n] + wire[heads[n]].len <= Len(wire))
         \/ /\ heads[n] \in DOMAIN wire /\ heads[n] + wire[heads[n]].len <= Len(wire)
            /\ LET f    == heads[n]
                   last == f + wire[f].len
                   type == wire[f].type
               IN  CASE wire[f].len = 0 \/ type = "CNAME" ->
                     NextRecord(last) /\ UNCHANGED <<found, parsed>>
                [] wire[f].len > 0 /\ type \in {"A", "AAAA"} ->
                     /\ NextRecord(last)
                     /\ found' = IF wire[f].len = 1 THEN found \cup {last} ELSE found
                     /\ UNCHANGED parsed
                [] wire[f].len > 0 /\ type \in {"SVCB", "HTTPS"} ->
                     /\ p' = f + 1 /\ end' = last /\ pc' = "target"
                     /\ UNCHANGED <<i, found, parsed>>
                [] OTHER ->
                     ParseEnds("badRecords") /\ UNCHANGED found
<1>1. CASE \E f \in DOMAIN wire : f - 1 \in NameEnds(p) /\ f + wire[f].len <= Len(wire)
  <2>1. PICK f \in DOMAIN wire : f - 1 \in NameEnds(p) /\ f + wire[f].len <= Len(wire)
    BY <1>1
  <2>2. f = heads[n]
    BY <2>1, OwnerEnds
  <2>3. heads[n] = CHOOSE g \in DOMAIN wire : g - 1 \in NameEnds(p)
    <3>1. (CHOOSE g \in DOMAIN wire : g - 1 \in NameEnds(p)) \in DOMAIN wire
          /\ (CHOOSE g \in DOMAIN wire : g - 1 \in NameEnds(p)) - 1 \in NameEnds(p)
      BY <2>1
    <3> QED
      BY <3>1, OwnerEnds
  <2> QED
    BY <1>1, <2>1, <2>2, <2>3 DEF ParseRecord
<1>2. CASE ~\E f \in DOMAIN wire : f - 1 \in NameEnds(p) /\ f + wire[f].len <= Len(wire)
  <2>1. ~(heads[n] \in DOMAIN wire /\ heads[n] + wire[heads[n]].len <= Len(wire))
    BY <1>2, OwnerEnds
  <2> QED
    BY <1>2, <2>1, Zenon DEF ParseRecord
<1> QED
  BY <1>1, <1>2

LEMMA RecordReads ==
  ASSUME TInv, Reads, ParseRecord
  PROVE  Reads'
<1>1. pc = "record" /\ i < answers /\ UNCHANGED message
  BY DEF ParseRecord
<1>2. PICK n : n = i + 1
  OBVIOUS
<1>3. /\ Got /\ i \in Nat /\ parsed = "none" /\ (\A k \in Answered : k < p => k \in found)
      /\ n \in DOMAIN heads /\ p = heads[n] - 1 /\ DOMAIN heads = 1 .. answers /\ Len(heads) = answers
  BY <1>1, <1>2, ReadRecordAt, GotIt DEF Gathered
<1> DEFINE F == heads[n]
<1> DEFINE last == F + wire[F].len
<1>4. CASE ParseEnds("badRecords")
  BY <1>1, <1>4, ReadsStep DEF ParseEnds
<1>5. CASE ~ParseEnds("badRecords")
  <2>1. /\ F \in DOMAIN wire /\ last <= Len(wire)
        /\ \/ (wire[F].len = 0 \/ wire[F].type = "CNAME") /\ NextRecord(last) /\ UNCHANGED <<found, parsed>>
           \/ /\ wire[F].len > 0 /\ wire[F].type \in {"A", "AAAA"} /\ NextRecord(last)
              /\ found' = IF wire[F].len = 1 THEN found \cup {last} ELSE found
              /\ UNCHANGED parsed
           \/ /\ wire[F].len > 0 /\ wire[F].type \in {"SVCB", "HTTPS"}
              /\ p' = F + 1 /\ end' = last /\ pc' = "target" /\ UNCHANGED <<i, found, parsed>>
    BY <1>3, <1>5, RecordParsed
  <2>2. /\ F \in Nat /\ EndOf(n) \in Nat /\ wire[F].len \in Nat /\ last \in Nat
        /\ last <= EndOf(n) + 1 /\ last >= EndOf(n) - 1 /\ wire[F].type = built[F].type
    BY <1>3, <2>1, HeadIs, WireEnd, HeadInWire
  <2>3. ASSUME NEW k \in Answered, ~(k < p), k <= last \/ n = Len(heads)
        PROVE  /\ k \in Nat /\ F < k
               /\ (wire[F].type \in {"A", "AAAA"} /\ wire[F].len = 1 /\ k = last) \/ (Service(n) /\ wire[F].len > 0)
    <3>1. k \in Nat
      BY <1>3, GotFacts DEF Answered, Addresses
    <3>2. F - 1 <= k /\ (k <= EndOf(n) + 1 \/ n = Len(heads))
      BY <1>3, <2>2, <2>3, <3>1, SMTT(60)
    <3>3. F < k /\ (OfRecord(k, n) \/ \E j \in DOMAIN built : OfParam(k, n, j))
      BY <1>3, <3>2, AddressOf
    <3>4. OfRecord(k, n) => wire[F].type \in {"A", "AAAA"} /\ wire[F].len = 1 /\ k = last
      BY <2>2 DEF OfRecord
    <3>5. ASSUME NEW j \in DOMAIN built, OfParam(k, n, j)
          PROVE  Service(n) /\ wire[F].len > 0
      <4>1. Service(n)
        BY <3>5 DEF OfParam
      <4>2. F + 2 <= EndOf(n)
        BY <1>3, <2>2, <4>1, ServiceData
      <4> QED
        BY <2>2, <4>1, <4>2
    <3> QED
      BY <3>1, <3>3, <3>4, <3>5
  <2>4. Service(n) <=> wire[F].type \in {"SVCB", "HTTPS"}
    BY <2>2 DEF Service
  <2> HIDE DEF last
  <2>5. ASSUME NextRecord(last), UNCHANGED parsed, found \subseteq found',
               ~Service(n) \/ wire[F].len = 0,
               wire[F].type \in {"A", "AAAA"} /\ wire[F].len = 1 => last \in found'
        PROVE  Reads'
    <3>1. \A k \in Answered : k <= last \/ n = Len(heads) => k \in found'
      BY <1>3, <2>2, <2>3, <2>5
    <3>2. p' = last + 1 /\ i' = n /\ pc' = "record" /\ n # 0 /\ parsed' = "none"
      BY <1>2, <1>3, <2>5 DEF NextRecord
    <3>3. p' = (IF i' = 0 THEN 5 ELSE heads[i'] + wire[heads[i']].len + 1) /\ (i' # 0 => heads[i'] \in DOMAIN wire)
      BY <2>1, <3>2 DEF last
    <3>4. \A k \in Answered : k < p' => k \in found'
      <4>1. \A k \in Answered : k \in Nat
        BY <1>3, GotFacts DEF Answered, Addresses
      <4>2. \A k \in Answered : k < last + 1 => k <= last
        BY <2>2, <4>1
      <4> QED
        BY <3>1, <3>2, <4>2
    <3>5. i' = answers => Answered \subseteq found'
      BY <1>3, <3>1, <3>2
    <3> QED
      BY <1>1, <3>2, <3>3, <3>4, <3>5, ReadsStep
  <2>6. ASSUME wire[F].type \in {"SVCB", "HTTPS"},
               p' = F + 1, end' = last, pc' = "target", UNCHANGED <<i, found, parsed>>
        PROVE  Reads'
    <3>1. \A k \in Answered : k < p' => k \in found'
      <4> SUFFICES ASSUME NEW k \in Answered, k < F + 1, ~(k < p) PROVE FALSE
        BY <1>3, <2>6
      <4>1. k \in Nat
        BY <1>3, GotFacts DEF Answered, Addresses
      <4>2. k <= EndOf(n) + 1 /\ F - 1 <= k
        BY <1>3, <2>2, <4>1, HeadIs, SMTT(60)
      <4>3. F < k
        BY <1>3, <4>2, AddressOf
      <4> QED
        BY <2>2, <4>1, <4>3
    <3>2. i' + 1 = n /\ Service(n)
      BY <1>2, <2>4, <2>6
    <3>3. /\ heads[i' + 1] \in DOMAIN wire /\ Service(i' + 1) /\ end' = heads[i' + 1] + wire[heads[i' + 1]].len
          /\ p' = heads[i' + 1] + 1
      BY <2>1, <2>6, <3>2 DEF last
    <3> QED
      BY <1>1, <1>3, <2>6, <3>1, <3>3, ReadsStep
  <2> QED
    BY <1>3, <2>1, <2>2, <2>4, <2>5, <2>6, SMTT(60)
<1> QED
  BY <1>4, <1>5

(* The cells of a service before its parameters hold no address.           *)
LEMMA ReadServiceAt ==
  ASSUME TInv, Reads, pc \in {"target", "param"}
  PROVE  /\ Got /\ i \in Nat /\ i < answers /\ parsed = "none" /\ Gathered
         /\ i + 1 \in DOMAIN heads /\ heads[i + 1] \in DOMAIN wire /\ Service(i + 1)
         /\ end = heads[i + 1] + wire[heads[i + 1]].len /\ end \in Nat
         /\ end <= EndOf(i + 1) + 1 /\ EndOf(i + 1) - 1 <= end
         /\ end = EndOf(i + 1) + 1 =>
              Long /\ EndOf(i + 1) = Len(built) /\ wire[EndOf(i + 1) + 1] = Cell("stub") /\ Len(wire) >= EndOf(i + 1) + 1
<1>1. Got /\ i \in Nat /\ i < answers /\ parsed = "none" /\ DOMAIN heads = 1 .. answers /\ answers \in Nat
  BY GotIt DEF TInv, Phases
<1>2. heads[i + 1] \in DOMAIN wire /\ Service(i + 1) /\ end = heads[i + 1] + wire[heads[i + 1]].len /\ Gathered
  BY DEF Reads
<1>3. i + 1 \in DOMAIN heads
  BY <1>1
<1> QED
  BY <1>1, <1>2, <1>3, WireEnd

LEMMA TargetReads ==
  ASSUME TInv, Reads, ParseTarget
  PROVE  Reads'
<1>1. pc = "target" /\ UNCHANGED message /\ found' = found
  BY DEF ParseTarget
<1>2. PICK n : n = i + 1
  OBVIOUS
<1>3. /\ Got /\ i \in Nat /\ parsed = "none" /\ (\A k \in Answered : k < p => k \in found)
      /\ n \in DOMAIN heads /\ heads[n] \in DOMAIN wire /\ Service(n) /\ end = heads[n] + wire[heads[n]].len
      /\ end \in Nat /\ end <= EndOf(n) + 1 /\ EndOf(n) - 1 <= end
  BY <1>1, <1>2, ReadServiceAt DEF Gathered
<1>4. p = heads[n] + 1
  BY <1>1, <1>2 DEF Reads
<1>5. /\ heads[n] \in Nat /\ EndOf(n) \in Nat /\ Len(built) \in Nat /\ EndOf(n) <= Len(built)
      /\ Len(wire) \in Nat /\ DOMAIN wire = 1 .. Len(wire) /\ DOMAIN built = 1 .. Len(built)
  BY <1>3, HeadIs, GotFacts
<1>6. CASE ~\E e \in NameEnds(p + 1) : e <= end
  BY <1>1, <1>6, ReadsStep DEF ParseTarget, ParseEnds
<1>7. CASE \E e \in NameEnds(p + 1) : e <= end
  <2>1. PICK e \in heads[n] + 2 .. EndOf(n) :
           /\ NameAt(heads[n] + 2, e)
           /\ \A k \in heads[n] + 1 .. e : built[k].kind \notin {"param", "value"}
           /\ e < EndOf(n) => built[e + 1].kind = "param"
    BY <1>3, ServiceData
  <2>2. p + 1 = heads[n] + 2
    BY <1>4, <1>5
  <2>3. \A k \in NameEnds(p + 1) : k = e
    BY <1>3, <2>1, <2>2, TargetEnds
  <2>4. e <= end /\ p' = e + 1 /\ pc' = "param" /\ UNCHANGED <<end, i, parsed>>
    BY <1>7, <2>3 DEF ParseTarget
  <2>5. ASSUME NEW k \in Answered, k < p'
        PROVE  k \in found'
    <3> SUFFICES ASSUME ~(k < p) PROVE FALSE
      BY <1>1, <1>3
    <3>1. k \in Nat
      BY <1>3, GotFacts DEF Answered, Addresses
    <3>2. k <= EndOf(n) + 1 /\ heads[n] - 1 <= k /\ k <= e
      BY <1>4, <1>5, <2>1, <2>4, <2>5, <3>1, SMTT(60)
    <3>3. OfRecord(k, n) \/ \E j \in DOMAIN built : OfParam(k, n, j)
      BY <1>3, <3>2, AddressOf
    <3>4. ~OfRecord(k, n)
      BY <1>3 DEF OfRecord, Service
    <3>5. PICK j \in DOMAIN built : OfParam(k, n, j)
      BY <3>3, <3>4
    <3>6. heads[n] < j /\ j < k /\ built[j].kind = "param"
      BY <1>3, <3>5, ParamInWire DEF OfParam
    <3>7. j \in heads[n] + 1 .. e
      BY <1>5, <2>1, <3>1, <3>2, <3>6
    <3> QED
      BY <2>1, <3>6, <3>7
  <2>6. ASSUME NEW j \in DOMAIN built, Over(j), i + 1 = answers
        PROVE  p' <= j
    <3>1. built[j].kind = "param"
      BY <2>6 DEF Over
    <3>2. PICK m \in DOMAIN heads : heads[m] < j /\ j + built[j].len <= EndOf(m)
      BY <1>3, <3>1, ParamIn
    <3>3. j \in Nat /\ built[j].len \in Nat /\ EndOf(m) \in Nat
      <4>1. built[j].len \in Nat /\ j \in Nat
        BY <1>3, <1>5, GotFacts
      <4> QED
        BY <1>3, <4>1, HeadIs
    <3>4. m = n
      <4>1. m = Len(heads)
        BY <1>3, <2>6, <3>2, <3>3, OverLast
      <4> QED
        BY <1>2, <2>6, <4>1 DEF answers
    <3>5. ~(j <= e)
      <4> SUFFICES ASSUME j <= e PROVE FALSE
        OBVIOUS
      <4>1. j \in heads[n] + 1 .. e
        BY <1>5, <2>1, <3>2, <3>3, <3>4
      <4> QED
        BY <2>1, <3>1, <4>1
    <3> QED
      BY <2>1, <2>4, <3>3, <3>5, <1>5
  <2>7. i' + 1 = n /\ e \in Nat
    BY <1>2, <1>5, <2>1, <2>4
  <2>8. heads[n] + 2 < p' /\ p' <= end' + 1 /\ p' <= EndOf(n) + 1 /\ (p' <= EndOf(n) => built[p'].kind = "param")
    BY <1>3, <1>5, <2>1, <2>4, <2>7, SMTT(60)
  <2>9. heads[i' + 1] \in DOMAIN wire /\ Service(i' + 1) /\ end' = heads[i' + 1] + wire[heads[i' + 1]].len
    BY <1>3, <2>4, <2>7
  <2>10. heads[i' + 1] + 2 < p' /\ p' <= end' + 1 /\ p' <= EndOf(i' + 1) + 1 /\ (p' <= EndOf(i' + 1) => built[p'].kind = "param")
    BY <2>7, <2>8
  <2>11. \A j \in DOMAIN built : Over(j) /\ i' + 1 = answers => p' <= j
    BY <2>4, <2>6
  <2> QED
    BY <1>1, <1>3, <2>4, <2>5, <2>9, <2>10, <2>11, ReadsStep
<1> QED
  BY <1>6, <1>7

(* The parameter at p, when the parsing or the copying comes to it         *)
LEMMA ParamAt ==
  ASSUME Got, NEW n \in DOMAIN heads, NEW q \in Nat, heads[n] < q, q <= EndOf(n), built[q].kind = "param"
  PROVE  /\ q \in DOMAIN built /\ built[q].len \in Nat
         /\ q + built[q].len <= EndOf(n) /\ \A k \in q + 1 .. q + built[q].len : built[k].kind = "value"
         /\ q + built[q].len < EndOf(n) => built[q + built[q].len + 1].kind = "param"
<1>1. heads[n] \in Nat /\ EndOf(n) \in Nat /\ EndOf(n) <= Len(built) /\ Len(built) \in Nat /\ DOMAIN built = 1 .. Len(built)
  BY HeadIs, GotFacts
<1>2. q \in DOMAIN built
  BY <1>1
<1>3. built[q].len \in Nat
  BY <1>2, GotFacts
<1>4. PICK m \in DOMAIN heads :
      /\ heads[m] < q /\ q + built[q].len <= EndOf(m)
      /\ \A k \in q + 1 .. q + built[q].len : built[k].kind = "value"
      /\ q + built[q].len < EndOf(m) => built[q + built[q].len + 1].kind = "param"
  BY <1>2, ParamIn
<1>5. heads[m] \in Nat /\ EndOf(m) \in Nat
  BY HeadIs
<1>6. m = n
  <2>1. q \in Int /\ heads[m] - 1 <= q /\ q <= EndOf(m) /\ heads[n] - 1 <= q
    BY <1>1, <1>3, <1>4, <1>5
  <2> QED
    BY <2>1, OneRecord
<1> QED
  BY <1>2, <1>3, <1>4, <1>6

(* Parameters do not overlap.                                              *)
LEMMA ParamsApart ==
  ASSUME Got, NEW j \in DOMAIN built, built[j].kind = "param", NEW k \in DOMAIN built, built[k].kind = "param", j < k
  PROVE  j + built[j].len < k
<1>1. j \in Nat /\ k \in Nat /\ built[j].len \in Nat
  <2>1. j \in 1 .. Len(built) /\ k \in 1 .. Len(built) /\ Len(built) \in Nat /\ built[j].len \in Nat
    BY GotFacts, Zenon
  <2> QED
    BY <2>1
<1>2. \A l \in j + 1 .. j + built[j].len : built[l].kind = "value"
  BY ParamIn
<1>3. ~(k \in j + 1 .. j + built[j].len)
  BY <1>2
<1> QED
  BY <1>1, <1>3

LEMMA ParamReads ==
  ASSUME TInv, Reads, ParseParam
  PROVE  Reads'
<1>1. pc = "param" /\ UNCHANGED message /\ p <= end /\ wire[p].kind # "stub"
  BY DEF ParseParam, ParamAhead
<1>2. PICK n : n = i + 1
  OBVIOUS
<1>3. /\ Got /\ i \in Nat /\ parsed = "none" /\ (\A k \in Answered : k < p => k \in found)
      /\ n \in DOMAIN heads /\ heads[n] \in DOMAIN wire /\ Service(n) /\ end = heads[n] + wire[heads[n]].len
      /\ end \in Nat /\ end <= EndOf(n) + 1 /\ EndOf(n) - 1 <= end
      /\ end = EndOf(n) + 1 =>
           Long /\ EndOf(n) = Len(built) /\ wire[EndOf(n) + 1] = Cell("stub") /\ Len(wire) >= EndOf(n) + 1
  BY <1>1, <1>2, ReadServiceAt DEF Gathered
<1>4. /\ heads[n] + 2 < p /\ p <= end + 1 /\ p <= EndOf(n) + 1
      /\ p <= EndOf(n) => built[p].kind = "param"
      /\ \A j \in DOMAIN built : Over(j) /\ n = answers => p <= j
  BY <1>1, <1>2 DEF Reads
<1>5. /\ heads[n] \in Nat /\ EndOf(n) \in Nat /\ Len(built) \in Nat /\ EndOf(n) <= Len(built)
      /\ Len(wire) \in Nat /\ DOMAIN wire = 1 .. Len(wire) /\ DOMAIN built = 1 .. Len(built)
      /\ p \in 1 .. Len(wire) + 1 /\ end \in 0 .. Len(wire)
  BY <1>3, HeadIs, GotFacts DEF TInv, TypeOK
<1>10. p \in Nat /\ heads[n] < p
  BY <1>4, <1>5
<1>6. p <= EndOf(n) /\ built[p].kind = "param"
  <2>1. p <= EndOf(n)
    <3> SUFFICES ASSUME ~(p <= EndOf(n)) PROVE FALSE
      OBVIOUS
    <3>1. p = EndOf(n) + 1 /\ end = EndOf(n) + 1
      BY <1>1, <1>3, <1>4, <1>5, SMTT(60)
    <3>2. wire[p].kind = "stub"
      BY <1>3, <3>1, CellFacts DEF Kinds
    <3> QED
      BY <1>1, <3>2
  <2> QED
    BY <1>4, <2>1
<1>7. /\ p \in DOMAIN built /\ built[p].len \in Nat
      /\ p + built[p].len <= EndOf(n) /\ \A k \in p + 1 .. p + built[p].len : built[k].kind = "value"
      /\ p + built[p].len < EndOf(n) => built[p + built[p].len + 1].kind = "param"
  BY <1>3, <1>4, <1>5, <1>6, ParamAt, SMTT(60)
<1>8. CASE ~(p + wire[p].len <= end)
  BY <1>1, <1>8, ReadsStep DEF ParseParam, ParseEnds
<1>9. CASE p + wire[p].len <= end
  <2>1. p \in DOMAIN wire /\ wire[p].kind = "param"
    <3>1. p \in DOMAIN wire
      BY <1>1, <1>5
    <3> QED
      BY <1>3, <1>6, <1>7, <3>1, DamageIsSmall DEF Got
  <2>2. ~Over(p)
    <3> SUFFICES ASSUME Over(p) PROVE FALSE
      OBVIOUS
    <3>1. wire[p].len = built[p].len + 1
      <4>1. built[p] \in Cells /\ built[p].len + 1 \in Nat
        BY <1>3, <1>7, CellOf, SMTT(60) DEF Got, BInv
      <4> QED
        BY <4>1, Resizing DEF Over, Resized
    <3>2. p + built[p].len = EndOf(n) /\ wire[heads[n]].len = built[heads[n]].len
      BY <1>3, <1>6, <1>7, <1>10, OverLast
    <3>3. end = EndOf(n)
      BY <1>3, <3>2, HeadIs
    <3> QED
      BY <1>5, <1>7, <1>9, <3>1, <3>2, <3>3
  <2>3. wire[p].len = built[p].len
    BY <1>3, <2>1, <2>2, ParamInWire
  <2>4. PICK q \in Nat : q = p + built[p].len /\ q <= EndOf(n) /\ q <= end /\ p <= q
    BY <1>5, <1>7, <1>9, <2>3
  <2>5. /\ found' = IF wire[p].type \in Hints THEN found \cup (p + 1 .. q) ELSE found
        /\ p' = q + 1 /\ UNCHANGED <<pc, end, i, parsed>>
    <3>1. p + 1 + wire[p].len = q + 1
      <4>1. \A l \in Nat : p + 1 + l = p + l + 1
        BY <1>10
      <4> QED
        BY <1>7, <2>3, <2>4, <4>1, Zenon
    <3> QED
      BY <1>9, <2>3, <2>4, <3>1 DEF ParseParam
  <2>6. ASSUME NEW k \in Answered, k < p'
        PROVE  k \in found'
    <3>0. CASE k < p
      BY <1>3, <2>5, <3>0
    <3>1. CASE ~(k < p)
      <4>1. k \in Nat
        BY <1>3, GotFacts DEF Answered, Addresses
      <4>2. k <= EndOf(n) + 1 /\ heads[n] - 1 <= k /\ k <= q /\ p <= k
        <5>1. k < q + 1
          BY <2>5, <2>6
        <5> QED
          BY <1>5, <1>10, <2>4, <3>1, <4>1, <5>1, SMTT(60)
      <4>3. OfRecord(k, n) \/ \E j \in DOMAIN built : OfParam(k, n, j)
        BY <1>3, <4>2, AddressOf
      <4>4. ~OfRecord(k, n)
        BY <1>3 DEF OfRecord, Service
      <4>5. PICK j \in DOMAIN built : OfParam(k, n, j)
        BY <4>3, <4>4
      <4>6. /\ j < k /\ built[j].kind = "param" /\ wire[j].type \in Hints /\ k <= j + wire[j].len
            /\ wire[j].len = built[j].len \/ (Over(j) /\ wire[j].len = built[j].len + 1)
            /\ heads[n] < j /\ j + built[j].len <= EndOf(n)
        BY <1>3, <4>5, ParamInWire DEF OfParam
      <4>7. j \in Nat /\ built[j].len \in Nat
        <5>1. j \in 1 .. Len(built) /\ built[j].len \in Nat
          BY <1>3, GotFacts, Zenon
        <5> QED
          BY <5>1
      <4>8. ~(j < p)
        <5> SUFFICES ASSUME j < p PROVE FALSE
          OBVIOUS
        <5>1. j + built[j].len < p
          BY <1>3, <1>6, <1>7, <4>6, ParamsApart
        <5>2. ~Over(j)
          <6> SUFFICES ASSUME Over(j) PROVE FALSE
            OBVIOUS
          <6>1. n = Len(heads)
            <7>1. j <= EndOf(n)
              BY <1>5, <4>6, <4>7
            <7> QED
              BY <1>3, <4>6, <7>1, OverLast
          <6> QED
            BY <1>4, <1>5, <4>7, <6>1 DEF answers
        <5> QED
          BY <1>5, <4>1, <4>2, <4>6, <4>7, <5>1, <5>2
      <4>9. ~(p < j)
        <5> SUFFICES ASSUME p < j PROVE FALSE
          OBVIOUS
        <5>1. p + built[p].len < j
          BY <1>3, <1>6, <1>7, <4>6, ParamsApart
        <5> QED
          BY <2>4, <4>1, <4>2, <4>6, <4>7, <5>1
      <4>10. j = p
        BY <1>5, <4>7, <4>8, <4>9
      <4>11. k \in p + 1 .. q
        BY <1>5, <2>4, <4>1, <4>2, <4>6, <4>10
      <4> QED
        BY <2>5, <4>6, <4>10, <4>11
    <3> QED
      BY <3>0, <3>1
  <2>7. ASSUME NEW j \in DOMAIN built, Over(j), i' + 1 = answers
        PROVE  p' <= j
    <3>1. n = answers /\ built[j].kind = "param" /\ j # p
      BY <1>2, <2>2, <2>5, <2>7 DEF Over
    <3>2. p <= j
      BY <1>4, <2>7, <3>1
    <3>3. j \in Nat
      BY <1>5
    <3>4. p + built[p].len < j
      <4>1. p < j
        BY <1>5, <3>1, <3>2, <3>3
      <4> QED
        BY <1>3, <1>6, <1>7, <3>1, <4>1, ParamsApart
    <3> QED
      BY <2>4, <2>5, <3>3, <3>4
  <2>8. i' + 1 = n /\ pc' = "param" /\ parsed' = "none"
    BY <1>1, <1>2, <1>3, <2>5
  <2>9. heads[n] + 2 < p' /\ p' <= end' + 1 /\ p' <= EndOf(n) + 1 /\ (p' <= EndOf(n) => built[p'].kind = "param")
    <3>1. q < EndOf(n) => built[q + 1].kind = "param"
      BY <1>7, <2>4
    <3> QED
      <4>1. heads[n] + 2 < q + 1 /\ q + 1 <= end + 1 /\ q + 1 <= EndOf(n) + 1 /\ (q + 1 <= EndOf(n) => q < EndOf(n))
        BY <1>4, <1>5, <1>10, <2>4, SMTT(60)
      <4> QED
        BY <2>5, <3>1, <4>1, Zenon
  <2>10. heads[i' + 1] \in DOMAIN wire /\ Service(i' + 1) /\ end' = heads[i' + 1] + wire[heads[i' + 1]].len
    BY <1>3, <2>5, <2>8
  <2>11. heads[i' + 1] + 2 < p' /\ p' <= end' + 1 /\ p' <= EndOf(i' + 1) + 1 /\ (p' <= EndOf(i' + 1) => built[p'].kind = "param")
    BY <2>8, <2>9
  <2>12. \A j \in DOMAIN built : Over(j) /\ i' + 1 = answers => p' <= j
    BY <2>7
  <2> QED
    BY <1>1, <2>6, <2>8, <2>10, <2>11, <2>12, ReadsStep
<1> QED
  BY <1>8, <1>9

LEMMA ParamsParsedReads ==
  ASSUME TInv, Reads, ParamsParsed
  PROVE  Reads'
<1>1. pc = "param" /\ UNCHANGED <<message, found, parsed>> /\ (p <= end => wire[p].kind = "stub") /\ NextRecord(end)
  BY DEF ParamsParsed, ParamAhead
<1>2. PICK n : n = i + 1
  OBVIOUS
<1>3. /\ Got /\ i \in Nat /\ parsed = "none" /\ (\A k \in Answered : k < p => k \in found)
      /\ n \in DOMAIN heads /\ heads[n] \in DOMAIN wire /\ Service(n) /\ end = heads[n] + wire[heads[n]].len
      /\ end \in Nat /\ end <= EndOf(n) + 1 /\ EndOf(n) - 1 <= end
  BY <1>1, <1>2, ReadServiceAt DEF Gathered
<1>4. /\ heads[n] + 2 < p /\ p <= end + 1 /\ p <= EndOf(n) + 1
      /\ p <= EndOf(n) => built[p].kind = "param"
      /\ \A j \in DOMAIN built : Over(j) /\ n = answers => p <= j
  BY <1>1, <1>2 DEF Reads
<1>5. /\ heads[n] \in Nat /\ EndOf(n) \in Nat /\ Len(built) \in Nat /\ EndOf(n) <= Len(built)
      /\ Len(wire) \in Nat /\ DOMAIN wire = 1 .. Len(wire) /\ DOMAIN built = 1 .. Len(built)
      /\ p \in 1 .. Len(wire) + 1 /\ end \in 0 .. Len(wire) /\ p \in Nat
  BY <1>3, HeadIs, GotFacts DEF TInv, TypeOK
<1>6. ASSUME p <= end, p <= EndOf(n)
      PROVE  FALSE
  <2>1. p \in DOMAIN wire /\ p \in DOMAIN built
    BY <1>5, <1>6
  <2>2. wire[p].kind = built[p].kind
    BY <1>3, <2>1, DamageIsSmall DEF Got
  <2> QED
    BY <1>1, <1>4, <1>6, <2>2
<1>7. ASSUME NEW j \in DOMAIN built, Over(j), heads[n] < j, j <= EndOf(n)
      PROVE  FALSE
  <2>1. n = Len(heads) /\ wire[heads[n]].len = built[heads[n]].len
    BY <1>3, <1>7, OverLast
  <2>2. end = EndOf(n)
    BY <1>3, <2>1, HeadIs
  <2>3. p <= j /\ j \in Nat
    BY <1>4, <1>5, <1>7, <2>1 DEF answers
  <2> QED
    BY <1>5, <1>6, <1>7, <2>2, <2>3
<1>8. ASSUME NEW k \in Answered, k <= end \/ n = Len(heads)
      PROVE  k \in found
  <2> SUFFICES ASSUME ~(k < p) PROVE FALSE
    BY <1>3
  <2>1. k \in Nat
    BY <1>3, GotFacts DEF Answered, Addresses
  <2>2. heads[n] - 1 <= k /\ (k <= EndOf(n) + 1 \/ n = Len(heads)) /\ p <= k
    BY <1>3, <1>4, <1>5, <1>8, <2>1
  <2>3. /\ OfRecord(k, n) \/ \E j \in DOMAIN built : OfParam(k, n, j)
        /\ k <= EndOf(n) \/ \E j \in DOMAIN built : OfParam(k, n, j) /\ Over(j)
    BY <1>3, <2>2, AddressOf
  <2>4. ~OfRecord(k, n)
    BY <1>3 DEF OfRecord, Service
  <2>5. ASSUME NEW j \in DOMAIN built, OfParam(k, n, j)
        PROVE  /\ j \in Nat /\ built[j].len \in Nat /\ built[j].kind = "param" /\ j < k /\ ~Over(j)
               /\ k <= j + built[j].len /\ heads[n] < j
    <3>1. /\ j < k /\ built[j].kind = "param" /\ k <= j + wire[j].len
          /\ wire[j].len = built[j].len \/ (Over(j) /\ wire[j].len = built[j].len + 1)
          /\ heads[n] < j /\ j + built[j].len <= EndOf(n)
      BY <1>3, <2>5, ParamInWire DEF OfParam
    <3>2. j \in Nat /\ built[j].len \in Nat
      <4>1. j \in 1 .. Len(built) /\ built[j].len \in Nat
        BY <1>3, GotFacts, Zenon
      <4> QED
        BY <4>1
    <3>3. j <= EndOf(n)
      BY <1>5, <3>1, <3>2
    <3>4. ~Over(j)
      BY <1>7, <3>1, <3>3
    <3> QED
      BY <3>1, <3>2, <3>4
  <2>6. k <= EndOf(n)
    BY <2>3, <2>5
  <2>7. PICK j \in DOMAIN built : OfParam(k, n, j)
    BY <2>3, <2>4
  <2>8. p <= EndOf(n) /\ built[p].kind = "param" /\ p \in DOMAIN built
    BY <1>4, <1>5, <2>1, <2>2, <2>6
  <2>9. p = EndOf(n) /\ k = p
    <3>1. ~(p <= end)
      BY <1>6, <2>8
    <3> QED
      BY <1>3, <1>5, <2>1, <2>2, <2>6, <2>8, <3>1
  <2>10. j < p /\ k <= j + built[j].len /\ built[j].kind = "param" /\ j \in Nat /\ built[j].len \in Nat
    BY <2>5, <2>7, <2>9
  <2>11. j + built[j].len < p
    BY <1>3, <2>8, <2>10, ParamsApart
  <2> QED
    BY <1>5, <2>9, <2>10, <2>11
<1>9. p' = end + 1 /\ i' = n /\ pc' = "record" /\ parsed' = "none" /\ n # 0 /\ found' = found
  BY <1>1, <1>2, <1>3 DEF NextRecord
<1>10. p' = (IF i' = 0 THEN 5 ELSE heads[i'] + wire[heads[i']].len + 1) /\ (i' # 0 => heads[i'] \in DOMAIN wire)
  BY <1>3, <1>9
<1>11. \A k \in Answered : k < p' => k \in found'
  <2>1. \A k \in Answered : k \in Nat
    BY <1>3, GotFacts DEF Answered, Addresses
  <2>2. \A k \in Answered : k < end + 1 => k <= end
    BY <1>3, <2>1
  <2> QED
    BY <1>8, <1>9, <2>2
<1>12. i' = answers => Answered \subseteq found'
  BY <1>8, <1>9 DEF answers
<1> QED
  BY <1>1, <1>9, <1>10, <1>11, <1>12, ReadsStep

(* ParseResponseA goes from record to record as they were built, and has   *)
(* collected what lies behind it.                                          *)
THEOREM ReadsKept == TInv /\ Reads /\ [Next]_vars => Reads'
<1> SUFFICES ASSUME TInv, Reads, [Next]_vars PROVE Reads'
  OBVIOUS
<1>1. CASE UNCHANGED vars
  <2>1. UNCHANGED message /\ UNCHANGED pc /\ UNCHANGED work
    BY <1>1 DEF vars
  <2> QED
    BY <2>1, ReadsStep DEF work, Reads, Gathered
<1>2. CASE Receive
  <2>1. pc = "build" /\ pc' \in {"build", "question"} /\ parsed' = "none"
    <3>1. pc = "build" /\ parsed' = parsed
      BY <1>2 DEF Receive, Build, AddRecord, AddParam, AddExtra, SendWhole, SendDamaged, work
    <3>2. pc' \in {"build", "question"}
      BY <1>2, <3>1 DEF Receive, Build, AddRecord, AddParam, AddExtra, SendWhole, SendDamaged, Send
    <3> QED
      BY <3>1, <3>2 DEF TInv, Phases
  <2> QED
    BY <2>1 DEF Reads
<1>3. CASE ParseDone
  BY <1>3, ReadsStep DEF ParseDone, ParseEnds, Reads
<1>4. CASE ParseResponseA
  BY <1>3, <1>4, QuestionReads, RecordReads, TargetReads, ParamReads, ParamsParsedReads DEF ParseResponseA
<1>5. ASSUME UNCHANGED <<message, found, parsed>>, pc' \in {"copy", "copyTarget", "copyParam", "done"}
      PROVE  Reads'
  BY <1>5, ReadsStep DEF Reads
<1>6. ASSUME NEW d \in SUBSET Hints, SendAsIs(d) \/ EmptyResponse(d) \/ CopyQuestion(d)
      PROVE  Reads'
  <2>1. UNCHANGED <<message, found, parsed>>
    BY <1>6 DEF SendAsIs, EmptyResponse, CopyQuestion
  <2>2. pc' \in {"copy", "done"}
    BY <1>6 DEF SendAsIs, EmptyResponse, CopyQuestion, Refuse, Answer
  <2> QED
    BY <1>5, <2>1, <2>2
<1>7. CASE DropAddress
  <2>1. UNCHANGED <<message, found, parsed>>
    BY <1>7 DEF DropAddress, CopyRecord, CopyTarget, CopyParam, EndRecord, CopyDone
  <2>2. pc' \in {"copy", "copyTarget", "copyParam", "done"}
    <3>1. CASE CopyRecord
      BY <3>1 DEF CopyRecord, Refuse, Answer
    <3>2. CASE ~CopyRecord
      BY <1>7, <3>2 DEF DropAddress, CopyTarget, CopyParam, EndRecord, CopyDone, Refuse, Answer
    <3> QED
      BY <3>1, <3>2
  <2> QED
    BY <1>5, <2>1, <2>2
<1> QED
  BY <1>1, <1>2, <1>4, <1>6, <1>7 DEF Next

-------------------------------------------------------------------------------
(* What a copy is taken from                                               *)

(* A cell of the answer records, or the stub behind the last one           *)
Inside(k) == k \in DOMAIN built \/ (Long /\ k = Len(built) + 1)

(* A copy has cells of the answer records only: the copying follows them,  *)
(* in a damaged answer too, as the parsing does.                           *)
Confined ==
  /\ \A m \in DOMAIN was : Inside(was[m])
  /\ pc = "copy" =>
       p = (IF i = 0 THEN 5 ELSE heads[i] + wire[heads[i]].len + 1) /\ (i # 0 => heads[i] \in DOMAIN wire)
  /\ pc \in {"copyTarget", "copyParam"} =>
       /\ heads[i + 1] \in DOMAIN wire /\ end = heads[i + 1] + wire[heads[i + 1]].len
       /\ p <= end + 1

(* No address ends in that stub.                                           *)
LEMMA InsideAnswered ==
  ASSUME Got, NEW k \in Addresses, Inside(k)
  PROVE  k \in Answered
<1> SUFFICES ASSUME Long, k = Len(built) + 1 PROVE FALSE
  BY DEF Inside, Answered
<1>1. PICK j \in 1 .. k - 1 :
        \/ wire[j].kind = "fields" /\ wire[j].type \in {"A", "AAAA"} /\ wire[j].len = 1 /\ k = j + 1
        \/ wire[j].kind = "param" /\ wire[j].type \in Hints /\ k <= j + wire[j].len
  BY DEF Addresses
<1>2. /\ j \in DOMAIN built /\ DOMAIN built = 1 .. Len(built) /\ Len(built) \in Nat /\ j \in Nat
      /\ DOMAIN wire = 1 .. Len(wire) /\ k \in DOMAIN wire /\ j \in DOMAIN wire
  BY <1>1, GotFacts DEF Addresses
<1>3. CASE wire[j].kind = "fields" /\ k = j + 1
  <2>1. heads # <<>> /\ Len(heads) \in DOMAIN heads /\ Len(built) = EndOf(Len(heads)) /\ j = Len(built)
    BY <1>2, <1>3, LastHeadFacts, GotFacts DEF Long
  <2>2. built[j].kind = "fields"
    BY <1>2, <1>3, DamageIsSmall DEF Got
  <2>3. heads[Len(heads)] >= 6 /\ heads[Len(heads)] < j /\ heads[Len(heads)] \in Nat
    BY <2>1, HeadIs
  <2>4. PICK n \in DOMAIN heads :
         \/ j = heads[n] - 1 \/ j = heads[n]
         \/ heads[n] < j /\ j <= EndOf(n) /\ built[j].kind \notin {"fields", "stub"}
    <3>1. j > 4
      BY <1>2, <2>3
    <3> QED
      BY <1>2, <3>1 DEF Got, BInv, WellBuilt, Placed
  <2>5. heads[n] \in Nat /\ EndOf(n) \in Nat /\ heads[n] < EndOf(n) /\ EndOf(n) <= Len(built)
    BY HeadIs
  <2>6. built[heads[n] - 1].kind = "pointer"
    BY GotFacts
  <2> QED
    BY <2>1, <2>2, <2>4, <2>5, <2>6
<1>4. CASE wire[j].kind = "param" /\ k <= j + wire[j].len
  <2>1. ~Over(j)
    <3>1. Len(behind) \in Nat
      BY DEF Got, Sections
    <3> QED
      BY <1>2, <3>1 DEF Over, Long, Followed
  <2>2. built[j].kind = "param" /\ wire[j].len = built[j].len
    BY <1>2, <1>4, <2>1, ParamInWire
  <2>3. PICK n \in DOMAIN heads : j + built[j].len <= EndOf(n)
    BY <1>2, <2>2, ParamIn
  <2>4. EndOf(n) <= Len(built) /\ EndOf(n) \in Nat
    BY <2>3, HeadIs
  <2>5. built[j].len \in Nat
    BY <1>2, GotFacts
  <2> QED
    BY <1>2, <1>4, <2>2, <2>3, <2>4, <2>5
<1> QED
  BY <1>1, <1>3, <1>4

(* A cell of a record, as long as it says it is                            *)
LEMMA RecordInside ==
  ASSUME Got, NEW n \in DOMAIN heads, heads[n] \in DOMAIN wire, NEW k \in Nat, k >= 1, k <= heads[n] + wire[heads[n]].len
  PROVE  Inside(k)
<1>1. /\ heads[n] + wire[heads[n]].len \in Nat
      /\ heads[n] + wire[heads[n]].len <= EndOf(n) + 1
      /\ heads[n] + wire[heads[n]].len = EndOf(n) + 1 => Long /\ EndOf(n) = Len(built)
  BY WireEnd
<1>2. EndOf(n) \in Nat /\ EndOf(n) <= Len(built) /\ Len(built) \in Nat /\ DOMAIN built = 1 .. Len(built)
  BY HeadIs, GotFacts
<1>3. PICK l \in Nat : l = heads[n] + wire[heads[n]].len
  BY <1>1
<1> QED
  BY <1>1, <1>2, <1>3 DEF Inside

(* The copy takes cells of that record.                                    *)
LEMMA InsideGrows ==
  ASSUME TInv, UNCHANGED message, \A m \in DOMAIN was : Inside(was[m]), NEW k \in Nat, k + 1 >= p, NEW n \in DOMAIN heads,
         heads[n] \in DOMAIN wire, k <= heads[n] + wire[heads[n]].len, Got, was' = was \o Positions(p, k)
  PROVE  \A m \in DOMAIN was' : Inside(was'[m])
<1>1. /\ was \in Seq(DOMAIN wire) /\ p \in 1 .. Len(wire) + 1 /\ DOMAIN wire = 1 .. Len(wire) /\ Len(wire) \in Nat
      /\ p \in Nat
  BY CopyFacts
<1>2. heads[n] + wire[heads[n]].len \in Nat
  BY WireEnd
<1>3. \A q \in p .. k : Inside(q)
  <2> SUFFICES ASSUME NEW q \in p .. k PROVE Inside(q)
    OBVIOUS
  <2>1. q \in Nat /\ q >= 1 /\ q <= heads[n] + wire[heads[n]].len
    BY <1>1, <1>2
  <2> QED
    BY <2>1, RecordInside
<1>4. Positions(p, k) \in Seq(p .. k)
  BY <1>1, PositionsAre
<1>5. PICK b : b = Positions(p, k)
  OBVIOUS
<1>6. was \in Seq(Int) /\ b \in Seq(Int)
  BY <1>1, <1>4, <1>5, SeqMonotonic
<1>7. Joins(was', was, b)
  BY <1>5, <1>6, Joined
<1>8. \A m \in 1 .. Len(b) : b[m] \in p .. k
  BY <1>4, <1>5, ElementOfSeq
<1>9. DOMAIN was = 1 .. Len(was) /\ Len(was) \in Nat /\ Len(b) \in Nat
  BY <1>6
<1>10. DOMAIN was' = 1 .. Len(was) + Len(b)
  <2>1. was' \in Seq(Int)
    BY <1>5, <1>6, Joined
  <2> QED
    BY <1>7, <1>9, <2>1 DEF Joins
<1>11. ASSUME NEW m \in 1 .. Len(was) + Len(b)
      PROVE  m \in 1 .. Len(was) \/ (m - Len(was) \in 1 .. Len(b) /\ Len(was) + (m - Len(was)) = m)
  BY <1>9
<1> QED
  BY <1>3, <1>7, <1>8, <1>9, <1>10, <1>11 DEF Joins

(* What is inside depends on the message alone.                            *)
LEMMA SameInside ==
  ASSUME UNCHANGED message
  PROVE  /\ \A k : Inside(k)' <=> Inside(k)
         /\ (\A m \in DOMAIN was : Inside(was[m]))' <=> \A m \in DOMAIN was' : Inside(was'[m])
<1>1. built' = built /\ heads' = heads /\ behind' = behind /\ wire' = wire
  BY DEF message
<1> QED
  BY <1>1 DEF Inside, Long, Followed, Resized, Keeps, LastHead

THEOREM ConfinedKept == TInv /\ Confined /\ [Next]_vars => Confined'
<1> SUFFICES ASSUME TInv, Confined, [Next]_vars PROVE Confined'
  OBVIOUS
<1>1. ASSUME UNCHANGED <<message, was>>, pc' \notin {"copy", "copyTarget", "copyParam"}
      PROVE  Confined'
  BY <1>1, SameInside DEF Confined
<1>2. CASE UNCHANGED vars
  <2>1. UNCHANGED message /\ UNCHANGED <<was, pc, p, end, i>>
    BY <1>2 DEF vars, work
  <2>2. heads' = heads /\ wire' = wire
    BY <2>1 DEF message
  <2> QED
    BY <2>1, <2>2, SameInside DEF Confined
<1>3. CASE Receive
  <2>1. pc = "build" /\ was' = was
    BY <1>3 DEF Receive, Build, AddRecord, AddParam, AddExtra, SendWhole, SendDamaged, work
  <2>2. pc' \in {"build", "question"}
    BY <1>3, <2>1 DEF Receive, Build, AddRecord, AddParam, AddExtra, SendWhole, SendDamaged, Send
  <2>3. DOMAIN was' = {}
    BY <2>1 DEF TInv, Phases
  <2> QED
    BY <2>2, <2>3 DEF Confined
<1>4. CASE ParseResponseA
  <2>1. UNCHANGED <<message, was>>
    BY <1>4 DEF ParseResponseA, ParseQuestion, ParseRecord, ParseTarget, ParseParam, ParamsParsed, ParseDone
  <2>2. pc' \in {"record", "target", "param", "drop"}
    <3>1. CASE ParseRecord
      BY <3>1 DEF ParseRecord, ParseEnds, NextRecord
    <3>2. CASE ~ParseRecord
      BY <1>4, <3>2 DEF ParseResponseA, ParseQuestion, ParseTarget, ParseParam, ParamsParsed, ParseDone, ParseEnds, NextRecord
    <3> QED
      BY <3>1, <3>2
  <2> QED
    BY <1>1, <2>1, <2>2
<1>5. ASSUME NEW d \in SUBSET Hints, SendAsIs(d) \/ EmptyResponse(d) \/ CopyQuestion(d)
      PROVE  Confined'
  <2>1. UNCHANGED message /\ pc = "drop"
    BY <1>5 DEF SendAsIs, EmptyResponse, CopyQuestion, SendResult
  <2>2. i = 0 /\ Len(built) >= 4 /\ Len(built) \in Nat /\ DOMAIN built = 1 .. Len(built)
    BY <2>1 DEF TInv, Phases, BInv, WellBuilt, Opened
  <2>3. \/ was' = was /\ pc' = "done"
        \/ was' = Positions(1, Len(Question)) /\ pc' = "done"
        \/ was' = Positions(1, Len(Question)) /\ pc' = "copy" /\ p' = Len(Question) + 1 /\ i' = i
    BY <1>5 DEF SendAsIs, EmptyResponse, CopyQuestion, Refuse, Answer
  <2>4. CASE was' = was /\ pc' = "done"
    BY <1>1, <2>1, <2>4
  <2>5. CASE was' = Positions(1, Len(Question))
    <3>1. Len(Question) = 4
      BY QuestionShape
    <3>2. \A m \in 1 .. 4 : Positions(1, 4)[m] = m
      BY DEF Positions
    <3>3. DOMAIN was' = 1 .. 4 /\ \A m \in 1 .. 4 : was'[m] = m
      BY <2>5, <3>1, <3>2 DEF Positions
    <3>4. \A m \in DOMAIN was' : Inside(was'[m])
      BY <2>2, <3>3 DEF Inside
    <3> QED
      BY <2>1, <2>2, <2>3, <3>1, <3>4, SameInside DEF Confined
  <2> QED
    BY <2>3, <2>4, <2>5
<1>6. CASE DropAddress
  <2>1. Copying /\ UNCHANGED message /\ heads' = heads /\ wire' = wire
    BY <1>6 DEF DropAddress, CopyRecord, CopyTarget, CopyParam, EndRecord, CopyDone, Copying, message
  <2>2. Got /\ answers \in Nat /\ i \in 0 .. answers /\ DOMAIN heads = 1 .. answers
    BY <2>1, GotIt DEF TInv, Phases, Copying
  <2>3. /\ p \in 1 .. Len(wire) + 1 /\ end \in 0 .. Len(wire) /\ DOMAIN wire = 1 .. Len(wire) /\ Len(wire) \in Nat
        /\ \A k \in DOMAIN wire : wire[k].len \in Nat
    BY CopyFacts
  <2>4. \A m \in DOMAIN was : Inside(was[m])
    BY DEF Confined
  <2>5. CASE Refuse \/ (Answer("copy") /\ UNCHANGED <<p, end, i, removed, out, was, at>>)
    BY <1>1, <2>1, <2>5 DEF Refuse, Answer
  <2>6. CASE CopyRecord /\ ~(Refuse \/ (Answer("copy") /\ UNCHANGED <<p, end, i, removed, out, was, at>>))
    <3>1. PICK f \in DOMAIN wire :
            /\ f - 1 \in NameEnds(p) /\ ~Cuts(wire[f].type) /\ ~(f + wire[f].len > Len(wire))
            /\ was' = was \o Positions(p, IF wire[f].type = qtype THEN f ELSE f + wire[f].len)
      BY <2>6 DEF CopyRecord
    <3>2. pc = "copy" /\ i < answers
      BY <2>6 DEF CopyRecord
    <3>3. PICK n : n = i + 1
      OBVIOUS
    <3>4. n \in DOMAIN heads /\ p = heads[n] - 1
      BY <2>2, <3>2, <3>3, RecordAt DEF Confined
    <3>5. f = heads[n]
      BY <2>2, <3>1, <3>4, OwnerEnds
    <3>6. PICK g \in Nat : g = IF wire[f].type = qtype THEN f ELSE f + wire[f].len
      BY <2>3, <3>1
    <3>7. wire[f].len \in Nat /\ f \in Nat /\ f <= g /\ g <= f + wire[f].len /\ p = f - 1 /\ p \in Nat
      BY <2>3, <3>1, <3>4, <3>5, <3>6
    <3>8. f + wire[f].len <= Len(wire)
      BY <2>3, <3>1, <3>7
    <3>9. was' = was \o Positions(p, g)
      BY <3>1, <3>6
    <3>10. \A m \in DOMAIN was' : Inside(was'[m])
      <4>1. g \in Nat /\ g + 1 >= p /\ heads[n] \in DOMAIN wire /\ g <= heads[n] + wire[heads[n]].len
        BY <3>1, <3>5, <3>7
      <4> QED
        BY <2>1, <2>2, <2>4, <3>4, <3>9, <4>1, InsideGrows
    <3>11. /\ wire[f].type = qtype => pc' = "copyTarget" /\ UNCHANGED i /\ p' = f + 1
           /\ wire[f].type # qtype => i' = i + 1 /\ pc' = "copy" /\ p' = f + wire[f].len + 1
           /\ end' = f + wire[f].len
      <4>1. /\ Appends(IF wire[f].type = qtype THEN f ELSE f + wire[f].len)
            /\ at' = Len(out) + (f - p) + 1 /\ end' = f + wire[f].len /\ UNCHANGED <<removed, verdict>>
            /\ wire[f].type = qtype => pc' = "copyTarget" /\ UNCHANGED i
            /\ wire[f].type # qtype => i' = i + 1 /\ UNCHANGED pc
        BY <2>6, <3>1, <3>8, RecordCopied
      <4>2. p' = (IF wire[f].type = qtype THEN f ELSE f + wire[f].len) + 1
        BY <4>1 DEF Appends
      <4>3. CASE wire[f].type = qtype
        BY <4>1, <4>2, <4>3
      <4>4. CASE wire[f].type # qtype
        BY <3>2, <4>1, <4>2, <4>4
      <4> QED
        BY <4>3, <4>4
    <3>12. CASE wire[f].type = qtype
      <4>1. pc' = "copyTarget" /\ i' + 1 = n /\ p' = f + 1 /\ end' = f + wire[f].len
        BY <3>3, <3>11, <3>12
      <4>2. p' <= end' + 1
        BY <3>7, <4>1
      <4>3. heads'[i' + 1] \in DOMAIN wire' /\ end' = heads'[i' + 1] + wire'[heads'[i' + 1]].len
        BY <2>1, <3>1, <3>5, <4>1
      <4> QED
        BY <2>1, <3>10, <4>1, <4>2, <4>3, SameInside DEF Confined
    <3>13. CASE wire[f].type # qtype
      <4>1. i' = n /\ n # 0
        BY <2>2, <3>3, <3>11, <3>13
      <4> QED
        BY <2>1, <3>1, <3>5, <3>10, <3>11, <3>13, <4>1, SameInside DEF Confined
    <3> QED
      BY <3>12, <3>13
  <2>7. CASE pc \in {"copyTarget", "copyParam"}
    <3>1. PICK n : n = i + 1
      OBVIOUS
    <3>2. n \in DOMAIN heads /\ heads[n] \in DOMAIN wire /\ end = heads[n] + wire[heads[n]].len /\ p <= end + 1
      BY <2>2, <2>7, <3>1 DEF Confined, TInv, Phases
    <3>3. CASE CopyTarget /\ ~Refuse
      <4>1. PICK e \in NameEnds(p + 1) : /\ p <= end /\ e <= end /\ was' = was \o Positions(p, e)
                                         /\ p' = e + 1 /\ pc' = "copyParam" /\ UNCHANGED <<end, i>>
        <5>1. PICK a \in NameEnds(p + 1) : p <= end /\ a <= end
          BY <3>3 DEF CopyTarget
        <5>2. PICK e \in NameEnds(p + 1) : was' = was \o Positions(p, e) /\ p' = e + 1 /\ pc' = "copyParam"
                                           /\ UNCHANGED <<end, i>>
          BY <3>3, <5>1 DEF CopyTarget
        <5>3. a = e
          BY <2>3, <5>1, <5>2, OneEnd
        <5> QED
          BY <5>1, <5>2, <5>3
      <4>2. e \in Nat /\ e + 1 >= p
        BY <2>3, <4>1, NameEndsIn
      <4>3. \A m \in DOMAIN was' : Inside(was'[m])
        BY <2>1, <2>2, <2>4, <3>2, <4>1, <4>2, InsideGrows
      <4>4. p' <= end' + 1
        BY <2>3, <4>1, <4>2
      <4> QED
        BY <2>1, <3>1, <3>2, <4>1, <4>3, <4>4, SameInside DEF Confined
    <3>4. CASE CopyParam /\ ~Refuse
      <4>1. PICK l : l = p + wire[p].len
        OBVIOUS
      <4>2. l <= end /\ p' = l + 1 /\ (was' = was \/ was' = was \o Positions(p, l)) /\ pc = "copyParam"
            /\ UNCHANGED <<pc, end, i>> /\ p <= end
        BY <3>4, <4>1 DEF CopyParam, Fits
      <4>3. l \in Nat /\ l + 1 >= p
        BY <2>3, <4>1, <4>2
      <4>4. \A m \in DOMAIN was' : Inside(was'[m])
        BY <2>1, <2>2, <2>4, <3>2, <4>2, <4>3, InsideGrows
      <4>5. p' <= end' + 1
        BY <2>3, <4>2, <4>3
      <4> QED
        BY <2>1, <3>1, <3>2, <4>2, <4>4, <4>5, SameInside DEF Confined
    <3>5. CASE EndRecord
      <4>1. p > end /\ i' = i + 1 /\ pc' = "copy" /\ UNCHANGED <<p, end, was>>
        BY <3>5 DEF EndRecord
      <4>2. p = heads[n] + wire[heads[n]].len + 1
        BY <2>3, <3>2, <4>1
      <4>3. i' = n /\ n # 0
        BY <2>2, <3>1, <4>1
      <4> QED
        BY <2>1, <2>4, <3>2, <4>1, <4>2, <4>3, SameInside DEF Confined
    <3> QED
      BY <1>6, <2>5, <2>7, <3>3, <3>4, <3>5 DEF DropAddress, CopyRecord, CopyDone
  <2>8. CASE CopyDone
    BY <2>5, <2>8 DEF CopyDone
  <2>9. pc = "copy" => CopyRecord \/ CopyDone
    BY <1>6 DEF DropAddress, CopyTarget, CopyParam, EndRecord
  <2> QED
    BY <2>1, <2>5, <2>6, <2>7, <2>8, <2>9 DEF Copying
<1> QED
  BY <1>2, <1>3, <1>4, <1>5, <1>6 DEF Next

(* An answer that ParseResponseA got through, and that is passed on as it  *)
(* came, has had every address of its answer records collected, so that    *)
(* none of these comes to the client without having been judged; and a     *)
(* copy has no address but such a one.  This also where the last record or *)
(* its last parameter is longer or shorter than it says.  Of the addresses *)
(* behind the answer records it says that no copy has one: with the        *)
(* message itself they go unjudged.                                        *)
THEOREM NoneUnjudged == Spec => []NothingUnjudged
<1>1. Init => TInv /\ Reads /\ Confined
  <2>1. Init => TInv
    BY InitTypes
  <2>2. Init => Reads
    BY DEF Init, WireInit, Reads
  <2>3. Init => Confined
    BY DEF Init, WireInit, Confined
  <2> QED
    BY <2>1, <2>2, <2>3
<1>2. TInv /\ Reads /\ Confined /\ [Next]_vars => (TInv /\ Reads /\ Confined)'
  BY TypesKept, ReadsKept, ConfinedKept
<1>3. TInv /\ Reads /\ Confined => NothingUnjudged
  <2> SUFFICES ASSUME TInv, Reads, Confined, parsed = "whole"
               PROVE  /\ Addresses \cap DOMAIN built \subseteq found
                      /\ Addresses \cap ToSet(was) \subseteq found
    BY DEF NothingUnjudged
  <2>1. Answered \subseteq found
    BY DEF Reads
  <2>2. Got
    BY GotIt DEF TInv, Phases
  <2>3. ASSUME NEW k \in Addresses \cap ToSet(was)
        PROVE  k \in found
    <3>1. Inside(k)
      BY <2>3 DEF ToSet, Confined
    <3> QED
      BY <2>1, <2>2, <2>3, <3>1, InsideAnswered
  <2> QED
    BY <2>1, <2>3 DEF Answered
<1> QED
  BY <1>1, <1>2, <1>3, PTL DEF Spec
-------------------------------------------------------------------------------
(* An answer that comes as it was built                                    *)

(* The answer records are received as they were built.                     *)
AsBuilt == \A k \in DOMAIN built : k \in DOMAIN wire /\ wire[k] = built[k]

USE DEF AsBuilt

LEMMA WholeFacts ==
  ASSUME TInv, ~Damaged
  PROVE  /\ pc # "build" /\ Got /\ AsBuilt
         /\ DOMAIN heads = 1 .. answers /\ Len(heads) = answers /\ answers \in Nat /\ i \in 0 .. answers
<1>1. AsBuilt /\ Len(wire) >= Len(built)
  <2>1. wire = built \o behind /\ built \in Seq(Cells) /\ Sections
    BY DEF Damaged, TInv, BInv
  <2>2. Len(wire) = Len(built) + Len(behind) /\ \A k \in DOMAIN built : wire[k] = built[k]
    BY <2>1, Following
  <2>3. Len(built) \in Nat /\ Len(behind) \in Nat /\ wire \in Seq(Cells)
    BY <2>1 DEF Sections, TInv, TypeOK
  <2>4. DOMAIN wire = 1 .. Len(wire) /\ DOMAIN built = 1 .. Len(built)
    BY <2>1, <2>3
  <2> QED
    BY <2>2, <2>3, <2>4
<1>2. pc # "build"
  <2>1. Len(built) >= 4 /\ Len(built) \in Nat
    BY DEF TInv, BInv, WellBuilt, Opened
  <2>2. Len(<<>>) = 0
    OBVIOUS
  <2> QED
    BY <1>1, <2>1, <2>2 DEF TInv, Phases
<1> QED
  BY <1>1, <1>2, GotIt

LEMMA WholeRecordFits ==
  ASSUME Got, AsBuilt, NEW n \in DOMAIN heads
  PROVE  /\ heads[n] \in DOMAIN wire /\ heads[n] + wire[heads[n]].len = EndOf(n) /\ EndOf(n) <= Len(wire)
         /\ wire[heads[n]].len > 0 /\ wire[heads[n]].len \in Nat
         /\ wire[heads[n]].type \in {"A", "AAAA", "CNAME", "SVCB", "HTTPS", "TXT"}
<1>1. /\ heads[n] \in Nat /\ built[heads[n]].len \in Nat /\ heads[n] < EndOf(n) /\ EndOf(n) <= Len(built)
      /\ EndOf(n) = heads[n] + built[heads[n]].len
  BY HeadIs
<1>2. heads[n] \in DOMAIN built /\ EndOf(n) <= Len(wire)
  <2>1. DOMAIN built = 1 .. Len(built) /\ DOMAIN wire = 1 .. Len(wire) /\ Len(built) \in Nat /\ Len(wire) \in Nat
        /\ heads[n] \in DOMAIN built
    BY GotFacts
  <2>2. EndOf(n) \in DOMAIN built
    BY <1>1, <2>1
  <2>3. EndOf(n) \in DOMAIN wire
    BY <2>2
  <2> QED
    BY <2>1, <2>3
<1>3. built[heads[n]].type \in Types[qtype] /\ qtype \in QTypes
  BY DEF Got, BInv, WellBuilt, DataPlaced
<1>4. Types[qtype] \subseteq {"A", "AAAA", "CNAME", "SVCB", "HTTPS", "TXT"}
  BY <1>3, WireAssumption
<1> QED
  BY <1>1, <1>2, <1>3, <1>4

(* What ParseResponseA makes of it                                         *)
Understood ==
  ~Damaged => /\ parsed # "badQuestion"
              /\ parsed = "badRecords" => \E n \in DOMAIN heads : built[heads[n]].type = "TXT"

LEMMA ParseUnderstands ==
  ASSUME TInv, Reads, Understood, ParseResponseA
  PROVE  Understood'
<1>1. UNCHANGED message
  BY DEF ParseResponseA, ParseQuestion, ParseRecord, ParseTarget, ParseParam, ParamsParsed, ParseDone
<1>2. wire' = wire /\ Damaged' = Damaged /\ built' = built /\ heads' = heads
  BY <1>1 DEF message, Damaged
<1>3. SUFFICES ASSUME ~Damaged
               PROVE  parsed' # "badQuestion" /\ (parsed' = "badRecords" => \E n \in DOMAIN heads : built[heads[n]].type = "TXT")
  BY <1>2 DEF Understood
<1>4. Got /\ AsBuilt
  BY <1>3, WholeFacts
<1>5. parsed # "badQuestion" /\ (parsed = "badRecords" => \E n \in DOMAIN heads : built[heads[n]].type = "TXT")
  BY <1>3 DEF Understood
<1>6. CASE ParseQuestion
  <2>1. ~(Len(wire) < Len(Question))
    <3>1. Len(wire) >= 4 /\ Len(wire) \in Nat
      BY <1>4, GotFacts
    <3> QED
      BY <3>1, QuestionShape
  <2> QED
    BY <1>5, <1>6, <2>1 DEF ParseQuestion
<1>7. CASE ParseRecord
  <2>1. PICK n : n = i + 1
    OBVIOUS
  <2>2. n \in DOMAIN heads /\ p = heads[n] - 1
    BY <1>7, <2>1, ReadRecordAt DEF ParseRecord
  <2>3. /\ heads[n] \in DOMAIN wire /\ heads[n] + wire[heads[n]].len <= Len(wire) /\ wire[heads[n]].len > 0
        /\ wire[heads[n]].type \in {"A", "AAAA", "CNAME", "SVCB", "HTTPS", "TXT"}
    BY <1>4, <2>2, WholeRecordFits
  <2>4. CASE wire[heads[n]].type = "TXT"
    <3>1. parsed' \in {parsed, "badRecords"}
      BY <1>4, <1>7, <2>2, <2>3, RecordParsed DEF ParseEnds
    <3>2. built[heads[n]] = wire[heads[n]]
      BY <1>4, <2>2, GotFacts
    <3> QED
      BY <1>5, <2>2, <2>4, <3>1, <3>2
  <2>5. CASE wire[heads[n]].type # "TXT"
    <3>1. parsed' = parsed
      BY <1>4, <1>7, <2>2, <2>3, <2>5, RecordParsed
    <3> QED
      BY <1>5, <3>1
  <2> QED
    BY <2>4, <2>5
<1>8. CASE ParseTarget
  <2>1. PICK n : n = i + 1
    OBVIOUS
  <2>2. n \in DOMAIN heads /\ Service(n) /\ end = heads[n] + wire[heads[n]].len /\ p = heads[n] + 1
    BY <1>8, <2>1, ReadServiceAt DEF ParseTarget, Reads
  <2>3. PICK e \in heads[n] + 2 .. EndOf(n) : NameAt(heads[n] + 2, e)
    BY <1>4, <2>2, ServiceData
  <2>4. end = EndOf(n) /\ EndOf(n) <= Len(wire) /\ heads[n] \in Nat /\ EndOf(n) \in Nat /\ DOMAIN wire = 1 .. Len(wire)
        /\ Len(wire) \in Nat
    BY <1>4, <2>2, WholeRecordFits, HeadIs, GotFacts
  <2>5. e \in DOMAIN wire /\ e <= end /\ p + 1 = heads[n] + 2
    BY <2>2, <2>3, <2>4
  <2>6. e \in NameEnds(p + 1)
    BY <1>4, <2>2, <2>3, <2>5, TargetEnds
  <2> QED
    BY <1>5, <1>8, <2>5, <2>6 DEF ParseTarget
<1>9. CASE ParseParam
  <2>1. PICK n : n = i + 1
    OBVIOUS
  <2>2. n \in DOMAIN heads /\ Service(n) /\ end = heads[n] + wire[heads[n]].len
    BY <1>9, <2>1, ReadServiceAt DEF ParseParam
  <2>3. heads[n] + 2 < p /\ (p <= EndOf(n) => built[p].kind = "param") /\ p <= end
    BY <1>9, <2>1 DEF ParseParam, ParamAhead, Reads
  <2>4. end = EndOf(n) /\ heads[n] \in Nat /\ EndOf(n) \in Nat /\ p \in Nat
    BY <1>4, <2>2, WholeRecordFits, HeadIs, CopyFacts
  <2>5. p + built[p].len <= EndOf(n)
    BY <1>4, <2>2, <2>3, <2>4, ParamAt
  <2>6. p \in DOMAIN built
    <3>1. EndOf(n) <= Len(built) /\ Len(built) \in Nat /\ DOMAIN built = 1 .. Len(built)
      BY <1>4, <2>2, HeadIs, GotFacts
    <3> QED
      BY <2>3, <2>4, <3>1
  <2> QED
    BY <1>4, <1>5, <1>9, <2>4, <2>5, <2>6 DEF ParseParam
<1>10. CASE ParamsParsed \/ ParseDone
  BY <1>5, <1>10 DEF ParamsParsed, ParseDone, ParseEnds
<1> QED
  BY <1>6, <1>7, <1>8, <1>9, <1>10 DEF ParseResponseA

(* ParseResponseA gets through an answer that is as it was built, but for  *)
(* a record of a type that is not expected.                                *)
THEOREM UnderstoodKept == TInv /\ Reads /\ Understood /\ [Next]_vars => Understood'
<1> SUFFICES ASSUME TInv, Reads, Understood, [Next]_vars PROVE Understood'
  OBVIOUS
<1>1. ASSUME UNCHANGED message, UNCHANGED parsed
      PROVE  Understood'
  BY <1>1 DEF message, Understood, Damaged
<1>2. CASE UNCHANGED vars
  BY <1>1, <1>2 DEF vars, work
<1>3. CASE Receive
  <2>1. pc = "build" /\ parsed' = parsed
    BY <1>3 DEF Receive, Build, AddRecord, AddParam, AddExtra, SendWhole, SendDamaged, work
  <2> QED
    BY <2>1 DEF Understood, TInv, Phases
<1>4. CASE ParseResponseA
  BY <1>4, ParseUnderstands
<1>5. ASSUME NEW d \in SUBSET Hints, SendAsIs(d) \/ EmptyResponse(d) \/ CopyQuestion(d)
      PROVE  Understood'
  BY <1>1, <1>5 DEF SendAsIs, EmptyResponse, CopyQuestion
<1>6. CASE DropAddress
  BY <1>1, <1>6 DEF DropAddress, CopyRecord, CopyTarget, CopyParam, EndRecord, CopyDone
<1> QED
  BY <1>2, <1>3, <1>4, <1>5, <1>6 DEF Next

(* Between two records of the copying, or behind its end                   *)
AtCopy == pc = "copy" \/ Copied

(* Where the copying of an answer that is as it was built has come to      *)
Walks ==
  /\ AtCopy => p = (IF i = 0 THEN 4 ELSE EndOf(i)) + 1 /\ end = (IF i = 0 THEN 0 ELSE EndOf(i))
  /\ pc \in {"copyTarget", "copyParam"} =>
       /\ built[heads[i + 1]].type = qtype /\ end = EndOf(i + 1)
       /\ at \in DOMAIN out /\ was[at] = heads[i + 1]
  /\ pc = "copyTarget" => p = heads[i + 1] + 1
  /\ pc = "copyParam" => heads[i + 1] + 2 < p /\ p <= end + 1 /\ (p <= end => built[p].kind = "param")

LEMMA WholeNext ==
  ASSUME TInv, ~Damaged, Walks, AtCopy, i < answers
  PROVE  i + 1 \in DOMAIN heads /\ p = heads[i + 1] - 1
<1>1. Got /\ DOMAIN heads = 1 .. answers /\ i \in 0 .. answers /\ answers \in Nat
  BY WholeFacts
<1>2. i + 1 \in DOMAIN heads /\ (i # 0 => i \in DOMAIN heads)
  BY <1>1
<1>3. p = (IF i = 0 THEN 4 ELSE EndOf(i)) + 1
  BY DEF Walks
<1>4. CASE i = 0
  <2>1. heads[i + 1] = 6
    BY <1>1, <1>2, <1>4, Follows
  <2> QED
    BY <1>2, <1>3, <1>4, <2>1
<1>5. CASE i # 0
  <2>1. i + 1 # 1 /\ (i + 1) - 1 = i
    BY <1>1, <1>5
  <2>2. heads[i + 1] = EndOf(i) + 2
    BY <1>1, <1>2, <2>1, Follows
  <2>3. EndOf(i) \in Nat
    BY <1>1, <1>2, <1>5, HeadIs
  <2> QED
    BY <1>2, <1>3, <1>5, <2>2, <2>3
<1> QED
  BY <1>4, <1>5

(* A record of which all or nothing is left to be done                     *)
RecordStep(n) ==
  LET type == built[heads[n]].type
  IN  /\ n = i + 1 /\ p = heads[n] - 1
      /\ \/ Cuts(type) /\ Answer("copy") /\ UNCHANGED <<p, end, i, removed, out, was, at>>
         \/ /\ ~Cuts(type)
            /\ Appends(IF type = qtype THEN heads[n] ELSE EndOf(n))
            /\ at' = Len(out) + 2 /\ end' = EndOf(n) /\ UNCHANGED <<removed, verdict>>
            /\ type = qtype => pc' = "copyTarget" /\ UNCHANGED i
            /\ type # qtype => i' = n /\ UNCHANGED pc

LEMMA WholeRecord ==
  ASSUME TInv, ~Damaged, Walks, CopyRecord
  PROVE  \E n \in DOMAIN heads : RecordStep(n)
<1>1. pc = "copy" /\ i < answers
  BY DEF CopyRecord
<1>2. PICK n : n = i + 1
  OBVIOUS
<1>3. Got /\ AsBuilt /\ n \in DOMAIN heads /\ p = heads[n] - 1
  BY <1>1, <1>2, WholeFacts, WholeNext DEF AtCopy
<1> DEFINE F == heads[n]
<1>4. /\ F \in DOMAIN wire /\ F + wire[F].len = EndOf(n) /\ EndOf(n) <= Len(wire) /\ F - 1 \in NameEnds(p)
      /\ EndOf(n) \in Nat /\ Len(wire) \in Nat /\ F \in Nat /\ p \in Nat
  BY <1>3, WholeRecordFits, OwnerEnds, HeadIs, GotFacts, CopyFacts
<1>7. wire[F] = built[F]
  BY <1>3, GotFacts
<1>5. CASE Cuts(wire[F].type)
  <2>1. Answer("copy") /\ UNCHANGED <<p, end, i, removed, out, was, at>>
    <3>1. \A g \in DOMAIN wire : g - 1 \in NameEnds(p) => g = F
      BY <1>3, OwnerEnds
    <3> QED
      BY <1>4, <1>5, <3>1 DEF CopyRecord
  <2> QED
    BY <1>2, <1>3, <1>5, <1>7, <2>1 DEF RecordStep
<1>6. CASE ~Cuts(wire[F].type)
  <2>1. F + wire[F].len <= Len(wire)
    BY <1>4
  <2>2. /\ Appends(IF wire[F].type = qtype THEN F ELSE F + wire[F].len)
        /\ at' = Len(out) + (F - p) + 1 /\ end' = F + wire[F].len /\ UNCHANGED <<removed, verdict>>
        /\ wire[F].type = qtype => pc' = "copyTarget" /\ UNCHANGED i
        /\ wire[F].type # qtype => i' = i + 1 /\ UNCHANGED pc
    BY <1>4, <1>6, <2>1, RecordCopied
  <2>3. Len(out) + (F - p) + 1 = Len(out) + 2
    <3>1. \A l \in Nat : l + (F - p) + 1 = l + 2
      BY <1>3, <1>4, SMTT(60)
    <3>2. Len(out) \in Nat
      BY CopyFacts
    <3> QED
      BY <3>1, <3>2, Zenon
  <2> QED
    BY <1>2, <1>3, <1>4, <1>6, <1>7, <2>2, <2>3 DEF RecordStep
<1> QED
  BY <1>5, <1>6

(* The target of a service, to its end at e                                *)
TargetStep(n, e) ==
  /\ n = i + 1 /\ p = heads[n] + 1 /\ end = EndOf(n) /\ built[heads[n]].type = qtype /\ pc = "copyTarget"
  /\ \A k \in heads[n] + 1 .. e : built[k].kind \notin {"param", "value"}
  /\ e < EndOf(n) => built[e + 1].kind = "param"
  /\ Appends(e)
  /\ pc' = "copyParam" /\ UNCHANGED <<end, i, removed, at, verdict>>

LEMMA ServiceType ==
  ASSUME TInv, Copying, NEW n \in DOMAIN heads, built[heads[n]].type = qtype
  PROVE  Service(n)
BY DEF TInv, Phases, Service

LEMMA WholeTarget ==
  ASSUME TInv, ~Damaged, Walks, CopyTarget
  PROVE  \E n \in DOMAIN heads : \E e \in heads[n] + 2 .. EndOf(n) : TargetStep(n, e)
<1>1. pc = "copyTarget" /\ i < answers /\ Copying
  BY DEF CopyTarget, Copying, TInv, Phases
<1>2. PICK n : n = i + 1
  OBVIOUS
<1>3. Got /\ AsBuilt /\ n \in DOMAIN heads
  BY <1>1, <1>2, WholeFacts
<1>4. p = heads[n] + 1 /\ end = EndOf(n) /\ built[heads[n]].type = qtype /\ Service(n)
  BY <1>1, <1>2, <1>3, ServiceType DEF Walks
<1>5. PICK e \in heads[n] + 2 .. EndOf(n) :
           /\ NameAt(heads[n] + 2, e)
           /\ \A k \in heads[n] + 1 .. e : built[k].kind \notin {"param", "value"}
           /\ e < EndOf(n) => built[e + 1].kind = "param"
  BY <1>3, <1>4, ServiceData
<1>6. EndOf(n) <= Len(wire) /\ heads[n] \in Nat /\ EndOf(n) \in Nat /\ DOMAIN wire = 1 .. Len(wire) /\ Len(wire) \in Nat
  BY <1>3, WholeRecordFits, HeadIs, GotFacts
<1>7. e \in DOMAIN wire /\ e <= end /\ p <= end /\ p + 1 = heads[n] + 2
  BY <1>4, <1>5, <1>6
<1>8. e \in NameEnds(p + 1) /\ \A k \in NameEnds(p + 1) : k = e
  BY <1>3, <1>5, <1>7, TargetEnds
<1>9. ~Refuse
  BY <1>7, <1>8 DEF CopyTarget, Refuse, Answer
<1>10. wire[p].kind # "pointer"
  <2>1. p \in DOMAIN built
    BY <1>3, <1>4, HeadIs, GotFacts
  <2> QED
    BY <1>3, <1>4, <2>1 DEF Got, BInv, WellBuilt, PriorityFirst
<1>11. Appends(e) /\ pc' = "copyParam" /\ UNCHANGED <<end, i, removed, at, verdict>>
  BY <1>8, <1>9, <1>10, TargetCopied
<1> QED
  BY <1>1, <1>2, <1>3, <1>4, <1>5, <1>11 DEF TargetStep

(* A parameter, to its end at q, is copied or left out.                    *)
ParamStep(n, q) ==
  /\ n = i + 1 /\ end = EndOf(n) /\ heads[n] < p /\ p <= end /\ built[heads[n]].type = qtype /\ pc = "copyParam"
  /\ p \in DOMAIN built /\ built[p].kind = "param" /\ built[p].len \in Nat
  /\ q = p + built[p].len /\ q <= EndOf(n)
  /\ \A k \in p + 1 .. q : built[k].kind = "value"
  /\ q < EndOf(n) => built[q + 1].kind = "param"
  /\ UNCHANGED <<pc, end, i, at, verdict>>
  /\ \/ ~Drops(built[p].type) /\ Appends(q) /\ UNCHANGED removed
     \/ /\ Drops(built[p].type)
        /\ removed' = [t \in DOMAIN removed |-> removed[t] + IF p < t THEN built[p].len + 1 ELSE 0]
        /\ p' = q + 1
        /\ UNCHANGED <<out, was>>

LEMMA WholeParam ==
  ASSUME TInv, ~Damaged, Walks, CopyParam
  PROVE  \E n \in DOMAIN heads : \E q \in Nat : ParamStep(n, q)
<1>1. pc = "copyParam" /\ i < answers /\ p <= end
  BY DEF CopyParam, TInv, Phases
<1>2. PICK n : n = i + 1
  OBVIOUS
<1>3. Got /\ AsBuilt /\ n \in DOMAIN heads
  BY <1>1, <1>2, WholeFacts
<1>4. /\ end = EndOf(n) /\ heads[n] + 2 < p /\ built[p].kind = "param" /\ built[heads[n]].type = qtype
  BY <1>1, <1>2, <1>3 DEF Walks
<1>5. heads[n] \in Nat /\ p \in Nat /\ EndOf(n) \in Nat
  BY <1>3, HeadIs, CopyFacts
<1>6. heads[n] < p
  BY <1>4, <1>5
<1>7. /\ p \in DOMAIN built /\ built[p].len \in Nat
      /\ p + built[p].len <= EndOf(n) /\ \A k \in p + 1 .. p + built[p].len : built[k].kind = "value"
      /\ p + built[p].len < EndOf(n) => built[p + built[p].len + 1].kind = "param"
  BY <1>1, <1>3, <1>4, <1>5, <1>6, ParamAt
<1>8. PICK q \in Nat : q = p + built[p].len
  BY <1>5, <1>7
<1>9. ~Refuse
  <2>1. ~(wire[p].kind = "stub" \/ ~Fits(p + wire[p].len))
    BY <1>3, <1>4, <1>7 DEF Fits
  <2> QED
    BY <1>1, <2>1 DEF CopyParam, Refuse, Answer
<1>10. \A k \in p .. q : wire[k].kind # "pointer"
  <2>1. \A k \in p .. q : k = p \/ k \in p + 1 .. q
    BY <1>5
  <2>2. EndOf(n) <= Len(built) /\ Len(built) \in Nat /\ DOMAIN built = 1 .. Len(built)
    BY <1>3, HeadIs, GotFacts
  <2>3. \A k \in p .. q : k \in DOMAIN built
    BY <1>5, <1>7, <1>8, <2>2
  <2>4. \A k \in p .. q : built[k].kind # "pointer"
    BY <1>4, <1>7, <1>8, <2>1
  <2> QED
    BY <1>3, <2>3, <2>4
<1>11. /\ UNCHANGED <<pc, end, i, at, verdict>>
       /\ \/ ~Drops(built[p].type) /\ Appends(q) /\ UNCHANGED removed
          \/ /\ Drops(built[p].type)
             /\ removed' = [t \in DOMAIN removed |-> removed[t] + IF p < t THEN built[p].len + 1 ELSE 0]
             /\ p' = q + 1
             /\ UNCHANGED <<out, was>>
  BY <1>3, <1>7, <1>8, <1>9, <1>10, ParamCopied
<1> QED
  BY <1>1, <1>2, <1>3, <1>4, <1>6, <1>7, <1>8, <1>11 DEF ParamStep
-------------------------------------------------------------------------------
(* The cells that must go                                                  *)

LEMMA UnwantedIn ==
  ASSUME Got, AsBuilt, NEW k \in Unwanted
  PROVE  \E n \in DOMAIN heads, j \in DOMAIN built :
           /\ built[heads[n]].type = qtype
           /\ built[j].kind = "param" /\ built[j].type \in drop /\ built[j].len \in Nat
           /\ heads[n] < j /\ j <= k /\ k <= j + built[j].len /\ j + built[j].len <= EndOf(n)
           /\ k = j \/ built[k].kind = "value"
<1>1. PICK f \in DOMAIN built, j \in DOMAIN built :
           /\ built[f].kind = "fields" /\ built[f].type = qtype
           /\ built[j].kind = "param" /\ built[j].type \in drop
           /\ f < j /\ j <= f + built[f].len
           /\ k \in j .. j + built[j].len
  <2>1. PICK f \in DOMAIN wire, j \in DOMAIN wire :
           /\ wire[f].kind = "fields" /\ wire[f].type = qtype
           /\ wire[j].kind = "param" /\ wire[j].type \in drop
           /\ f < j /\ j <= f + wire[f].len
           /\ k \in j .. j + wire[j].len
    BY DEF Unwanted
  <2>2. j \in DOMAIN built
    BY <2>1, ParamInWire
  <2>3. f \in DOMAIN built
    <3>1. DOMAIN built = 1 .. Len(built) /\ DOMAIN wire = 1 .. Len(wire) /\ Len(built) \in Nat /\ Len(wire) \in Nat
      BY GotFacts
    <3> QED
      BY <2>1, <2>2, <3>1
  <2> QED
    BY <2>1, <2>2, <2>3
<1>2. DOMAIN built = 1 .. Len(built) /\ built[j].len \in Nat /\ Len(built) \in Nat
  BY GotFacts
<1>3. PICK n \in DOMAIN heads :
      /\ heads[n] < j /\ j + built[j].len <= EndOf(n)
      /\ \A l \in j + 1 .. j + built[j].len : built[l].kind = "value"
  BY <1>1, ParamIn
<1>4. PICK m \in DOMAIN heads : f = heads[m]
  <2>1. f > 4
    <3>1. f \in 1 .. 4 => built[f] = Question[f]
      BY DEF Got, BInv, WellBuilt, Opened
    <3>2. f \notin 1 .. 4
      BY <1>1, <3>1, QuestionShape
    <3> QED
      BY <1>2, <3>2
  <2>2. PICK m \in DOMAIN heads :
         \/ f = heads[m] - 1 \/ f = heads[m]
         \/ heads[m] < f /\ f <= EndOf(m) /\ built[f].kind \notin {"fields", "stub"}
    BY <2>1 DEF Got, BInv, WellBuilt, Placed
  <2>3. built[heads[m] - 1].kind = "pointer"
    BY DEF Got, BInv, WellBuilt, Placed
  <2> QED
    BY <1>1, <2>2, <2>3
<1>5. /\ heads[m] \in Nat /\ EndOf(m) = heads[m] + built[heads[m]].len /\ EndOf(m) \in Nat
      /\ heads[n] \in Nat /\ EndOf(n) \in Nat
  BY HeadIs
<1>6. m = n
  <2>1. heads[m] - 1 <= j /\ j <= EndOf(m) /\ heads[n] - 1 <= j /\ j <= EndOf(n) /\ j \in Int
    BY <1>1, <1>2, <1>3, <1>4, <1>5
  <2> QED
    BY <2>1, OneRecord
<1>7. k = j \/ k \in j + 1 .. j + built[j].len
  BY <1>1, <1>2
<1>8. j <= k /\ k <= j + built[j].len
  BY <1>1, <1>2
<1> QED
  BY <1>1, <1>2, <1>3, <1>4, <1>6, <1>7, <1>8

LEMMA OnlyParamsGo ==
  ASSUME Got, AsBuilt, NEW k \in DOMAIN wire, built[k].kind \notin {"param", "value"}
  PROVE  k \notin Unwanted
BY UnwantedIn

LEMMA OthersKeepAll ==
  ASSUME Got, AsBuilt, NEW n \in DOMAIN heads, built[heads[n]].type # qtype,
         NEW k \in heads[n] - 1 .. EndOf(n)
  PROVE  k \notin Unwanted
<1> SUFFICES ASSUME k \in Unwanted PROVE FALSE
  OBVIOUS
<1>1. PICK m \in DOMAIN heads, j \in DOMAIN built :
           /\ built[heads[m]].type = qtype /\ built[j].len \in Nat
           /\ heads[m] < j /\ j <= k /\ k <= j + built[j].len /\ j + built[j].len <= EndOf(m)
  BY UnwantedIn
<1>2. /\ heads[m] \in Nat /\ EndOf(m) \in Nat /\ heads[n] \in Nat /\ EndOf(n) \in Nat
      /\ DOMAIN built = 1 .. Len(built) /\ Len(built) \in Nat
  BY HeadIs, GotFacts
<1>3. k \in Int /\ heads[m] - 1 <= k /\ k <= EndOf(m) /\ heads[n] - 1 <= k /\ k <= EndOf(n)
  BY <1>1, <1>2
<1>4. m = n
  BY <1>3, OneRecord
<1> QED
  BY <1>1, <1>4

LEMMA ParamGoes ==
  ASSUME Got, AsBuilt, NEW n \in DOMAIN heads, built[heads[n]].type = qtype,
         NEW j \in DOMAIN built, built[j].kind = "param", heads[n] < j, j + built[j].len <= EndOf(n),
         NEW k \in j .. j + built[j].len
  PROVE  k \in Unwanted <=> built[j].type \in drop
<1>1. /\ DOMAIN built = 1 .. Len(built) /\ Len(built) \in Nat /\ built[j].len \in Nat
      /\ heads[n] \in DOMAIN built /\ built[heads[n]].kind = "fields"
  BY GotFacts
<1>2. heads[n] \in Nat /\ EndOf(n) \in Nat /\ EndOf(n) <= Len(built) /\ EndOf(n) = heads[n] + built[heads[n]].len
      /\ built[heads[n]].len \in Nat
  BY HeadIs
<1>3. j <= heads[n] + built[heads[n]].len /\ k \in DOMAIN wire
  BY <1>1, <1>2
<1>4. ASSUME built[j].type \in drop
      PROVE  k \in Unwanted
  BY <1>1, <1>3, <1>4 DEF Unwanted
<1>5. ASSUME k \in Unwanted
      PROVE  built[j].type \in drop
  <2>1. PICK l \in DOMAIN built :
           built[l].kind = "param" /\ built[l].type \in drop /\ built[l].len \in Nat /\ l <= k /\ k <= l + built[l].len
    BY <1>5, UnwantedIn
  <2>2. j < l => j + built[j].len < l
    BY <2>1, ParamsApart
  <2>3. l < j => l + built[l].len < j
    BY <2>1, ParamsApart
  <2>4. l = j
    BY <1>1, <2>1, <2>2, <2>3, SMTT(60)
  <2> QED
    BY <2>1, <2>4
<1> QED
  BY <1>4, <1>5
-------------------------------------------------------------------------------
(* What has been copied and what has been left out                         *)

(* Each cell before p is in the copy, once and in order, or had to go.     *)
Accounted ==
  /\ \A m \in DOMAIN was : was[m] < p /\ was[m] \notin Unwanted
  /\ \A j, k \in DOMAIN was : j < k => was[j] < was[k]
  /\ \A k \in DOMAIN wire : k < p => k \in Unwanted \/ \E m \in DOMAIN was : was[m] = k
  /\ \A m \in DOMAIN was : out[m].kind = wire[was[m]].kind

(* The sums that have been kept say where each cell has gone, and where    *)
(* the next one will go.                                                   *)
Shifts ==
  /\ \A t \in DOMAIN removed : p <= t => removed[t] = p - 1 - Len(was)
  /\ \A m \in DOMAIN was : Moved(was[m]) = m

(* Each pointer of the copy leads to the name it led to.                   *)
Names ==
  \A j \in DOMAIN out : out[j].kind = "pointer" =>
    out[j].to \in DOMAIN out /\ was[out[j].to] = wire[was[j]].to

(* The copy has grown by the cells p to q, from L cells to M.              *)
Grown(L, M, q) ==
  /\ L \in Nat /\ M \in Nat /\ p \in Nat /\ q \in Nat /\ p <= q /\ p' = q + 1 /\ M = L + (q - p) + 1
  /\ DOMAIN out = 1 .. L /\ DOMAIN was = 1 .. L /\ DOMAIN out' = 1 .. M /\ DOMAIN was' = 1 .. M
  /\ Len(out) = L /\ Len(was) = L /\ Len(out') = M /\ Len(was') = M
  /\ \A m \in 1 .. L : out'[m] = out[m] /\ was'[m] = was[m] /\ was[m] \in DOMAIN wire
  /\ \A m \in L + 1 .. M :
       /\ was'[m] = (m - L) + p - 1 /\ was'[m] \in p .. q /\ was'[m] \in DOMAIN wire
       /\ out'[m] = IF wire[was'[m]].kind = "pointer" THEN Pointer(Moved(wire[was'[m]].to)) ELSE wire[was'[m]]

LEMMA Grows ==
  ASSUME TInv, NEW q, Appends(q)
  PROVE  \E L, M \in Nat : Grown(L, M, q)
<1>1. PICK L \in Nat : L = Len(out)
  BY CopyFacts
<1>2. PICK M : M = Len(out')
  OBVIOUS
<1>3. /\ DOMAIN wire = 1 .. Len(wire) /\ Len(wire) \in Nat /\ DOMAIN out = 1 .. L /\ DOMAIN was = 1 .. L
      /\ Len(was) = L /\ p \in 1 .. Len(wire) + 1 /\ \A m \in 1 .. L : was[m] \in DOMAIN wire
  BY <1>1, CopyFacts
<1>4. q \in p .. Len(wire) /\ p' = q + 1 /\ p \in Nat /\ q \in Nat /\ p <= q
  BY <1>3 DEF Appends
<1>5. M = L + (q - p + 1) /\ Len(was') = M
  BY <1>1, <1>2 DEF Appends
<1>6. M = L + (q - p) + 1 /\ M \in Nat
  BY <1>4, <1>5
<1>7. DOMAIN out' = 1 .. M /\ DOMAIN was' = 1 .. M
  BY <1>2, <1>5 DEF Appends
<1>8. \A m \in 1 .. L : out'[m] = out[m] /\ was'[m] = was[m] /\ was[m] \in DOMAIN wire
  BY <1>1, <1>3 DEF Appends
<1>9. ASSUME NEW m \in L + 1 .. M
      PROVE  /\ was'[m] = (m - L) + p - 1 /\ was'[m] \in p .. q /\ was'[m] \in DOMAIN wire
             /\ out'[m] = IF wire[was'[m]].kind = "pointer" THEN Pointer(Moved(wire[was'[m]].to)) ELSE wire[was'[m]]
  <2>1. PICK l : l = m - L
    OBVIOUS
  <2>2. l \in 1 .. q - p + 1 /\ m = L + l /\ p + l - 1 = (m - L) + p - 1 /\ p + l - 1 \in p .. q
    BY <1>4, <1>6, <2>1
  <2>3. /\ was'[L + l] = p + l - 1
        /\ out'[L + l] =
            IF wire[p + l - 1].kind = "pointer" THEN Pointer(Moved(wire[p + l - 1].to)) ELSE wire[p + l - 1]
    BY <1>1, <2>2 DEF Appends
  <2>4. p + l - 1 \in DOMAIN wire
    BY <1>3, <1>4, <2>2
  <2> QED
    BY <2>2, <2>3, <2>4, Zenon
<1>10. Len(out) = L /\ Len(out') = M
  BY <1>1, <1>2
<1>11. Grown(L, M, q)
  BY <1>3, <1>4, <1>5, <1>6, <1>7, <1>8, <1>9, <1>10 DEF Grown
<1> QED
  BY <1>6, <1>11

LEMMA StillThere ==
  ASSUME UNCHANGED <<message, drop>>
  PROVE  /\ Unwanted' = Unwanted /\ Damaged' = Damaged /\ answers' = answers
         /\ wire' = wire /\ built' = built /\ heads' = heads /\ qtype' = qtype /\ drop' = drop
<1>1. wire' = wire /\ built' = built /\ heads' = heads /\ behind' = behind /\ qtype' = qtype /\ drop' = drop
  BY DEF message
<1>2. Unwanted' = Unwanted
  BY <1>1 DEF Unwanted
<1>3. Damaged' = Damaged
  BY <1>1 DEF Damaged
<1>4. answers' = answers
  BY <1>1 DEF answers
<1> QED
  BY <1>1, <1>2, <1>3, <1>4

LEMMA GrownAccounted ==
  ASSUME NEW L, NEW M, NEW q, Grown(L, M, q), UNCHANGED <<message, drop>>, Accounted,
         DOMAIN wire \subseteq Nat, \A k \in p .. q : k \notin Unwanted
  PROVE  Accounted'
<1>1. /\ L \in Nat /\ M \in Nat /\ p \in Nat /\ q \in Nat /\ p <= q /\ p' = q + 1 /\ M = L + (q - p) + 1
      /\ DOMAIN was = 1 .. L /\ DOMAIN was' = 1 .. M
  BY DEF Grown
<1>2. \A m \in 1 .. L : out'[m] = out[m] /\ was'[m] = was[m] /\ was[m] \in DOMAIN wire
  BY DEF Grown
<1>3. \A m \in L + 1 .. M :
       /\ was'[m] = (m - L) + p - 1 /\ was'[m] \in p .. q
       /\ out'[m] = IF wire[was'[m]].kind = "pointer" THEN Pointer(Moved(wire[was'[m]].to)) ELSE wire[was'[m]]
  BY DEF Grown
<1>4. \A m \in 1 .. M : m \in 1 .. L \/ m \in L + 1 .. M
  BY <1>1
<1>5. Unwanted' = Unwanted /\ wire' = wire
  BY StillThere
<1>6. \A m \in 1 .. M : was'[m] < q + 1 /\ was'[m] \notin Unwanted
  <2>1. \A m \in 1 .. L : was[m] < p /\ was[m] \notin Unwanted /\ was[m] \in Nat
    BY <1>1, <1>2 DEF Accounted
  <2>2. \A m \in 1 .. L : was'[m] < q + 1 /\ was'[m] \notin Unwanted
    BY <1>1, <1>2, <2>1
  <2>3. \A m \in L + 1 .. M : was'[m] < q + 1 /\ was'[m] \notin Unwanted
    <3>1. \A k \in p .. q : k < q + 1 /\ k \notin Unwanted
      BY <1>1
    <3> QED
      BY <1>3, <3>1
  <2> QED
    BY <1>4, <2>2, <2>3
<1>7. ASSUME NEW j \in 1 .. M, NEW k \in 1 .. M, j < k
      PROVE  was'[j] < was'[k]
  <2>1. CASE k \in 1 .. L
    <3>1. j \in 1 .. L
      BY <1>1, <1>7, <2>1
    <3>2. was[j] < was[k]
      BY <1>1, <1>7, <2>1, <3>1 DEF Accounted
    <3> QED
      BY <1>2, <2>1, <3>1, <3>2
  <2>2. CASE j \in 1 .. L /\ k \in L + 1 .. M
    <3>1. was[j] < p /\ was[j] \in Nat
      BY <1>1, <1>2, <2>2 DEF Accounted
    <3> QED
      BY <1>1, <1>2, <1>3, <2>2, <3>1
  <2>3. CASE j \in L + 1 .. M /\ k \in L + 1 .. M
    BY <1>1, <1>3, <1>7, <2>3
  <2> QED
    BY <1>1, <1>4, <1>7, <2>1, <2>2, <2>3
<1>8. ASSUME NEW k \in DOMAIN wire, k < q + 1
      PROVE  k \in Unwanted \/ \E m \in 1 .. M : was'[m] = k
  <2>1. CASE k < p
    <3>1. k \in Unwanted \/ \E m \in 1 .. L : was[m] = k
      BY <1>1, <2>1 DEF Accounted
    <3>2. 1 .. L \subseteq 1 .. M
      BY <1>1
    <3> QED
      BY <1>2, <3>1, <3>2
  <2>2. CASE ~(k < p)
    <3>1. PICK m : m = L + (k - p) + 1
      OBVIOUS
    <3>2. m \in L + 1 .. M /\ m \in 1 .. M /\ (m - L) + p - 1 = k
      <4>1. k \in Nat /\ p <= k /\ k <= q
        BY <1>1, <1>8, <2>2
      <4>2. L \in Nat /\ M \in Nat /\ p \in Nat /\ q \in Nat /\ M = L + (q - p) + 1
        BY <1>1, Zenon
      <4> QED
        BY <3>1, <4>1, <4>2
    <3>3. was'[m] = k
      BY <1>3, <3>2
    <3> QED
      BY <3>2, <3>3
  <2> QED
    BY <2>1, <2>2
<1>9. ASSUME NEW m \in 1 .. M
      PROVE  out'[m].kind = wire[was'[m]].kind
  <2>1. CASE m \in 1 .. L
    BY <1>1, <1>2, <2>1 DEF Accounted
  <2>2. CASE m \in L + 1 .. M
    <3>1. \A t : Pointer(t).kind = "pointer"
      BY DEF Pointer
    <3> QED
      BY <1>3, <2>2, <3>1
  <2> QED
    BY <1>4, <2>1, <2>2
<1> QED
  BY <1>1, <1>5, <1>6, <1>7, <1>8, <1>9 DEF Accounted

LEMMA GrownShifts ==
  ASSUME NEW L, NEW M, NEW q, Grown(L, M, q), UNCHANGED removed, Shifts,
         DOMAIN removed \subseteq Int, DOMAIN wire \subseteq DOMAIN removed
  PROVE  Shifts'
<1>1. /\ L \in Nat /\ M \in Nat /\ p \in Nat /\ q \in Nat /\ p <= q /\ p' = q + 1 /\ M = L + (q - p) + 1
      /\ DOMAIN was = 1 .. L /\ DOMAIN was' = 1 .. M /\ Len(was) = L /\ Len(was') = M
  BY DEF Grown
<1>2. \A m \in 1 .. L : was'[m] = was[m]
  BY DEF Grown
<1>3. \A m \in L + 1 .. M : was'[m] = (m - L) + p - 1 /\ was'[m] \in p .. q /\ was'[m] \in DOMAIN wire
  BY DEF Grown
<1>4. \A t \in DOMAIN removed : p <= t => removed[t] = p - 1 - L
  BY <1>1 DEF Shifts
<1>5. ASSUME NEW t \in DOMAIN removed, q + 1 <= t
      PROVE  removed[t] = (q + 1) - 1 - M
  <2>1. p <= t
    BY <1>1, <1>5
  <2>2. removed[t] = p - 1 - L
    BY <1>4, <2>1
  <2>3. p - 1 - L = (q + 1) - 1 - M
    BY <1>1
  <2> QED
    BY <2>2, <2>3
<1>6. ASSUME NEW m \in 1 .. M
      PROVE  was'[m] - removed[was'[m]] = m
  <2>1. CASE m \in 1 .. L
    BY <1>1, <1>2, <2>1 DEF Shifts, Moved
  <2>2. CASE m \in L + 1 .. M
    <3>1. p <= was'[m] /\ was'[m] \in DOMAIN removed
      BY <1>1, <1>3, <2>2
    <3>2. removed[was'[m]] = p - 1 - L
      BY <1>4, <3>1
    <3>3. was'[m] = (m - L) + p - 1
      BY <1>3, <2>2
    <3>4. PICK r : r = p - 1 - L
      OBVIOUS
    <3>5. removed[was'[m]] = r
      BY <3>2, <3>4
    <3>6. (m - L) + p - 1 - r = m
      BY <1>1, <3>4
    <3>7. was'[m] - r = m
      BY <1>1, <3>3, <3>4
    <3> QED
      BY <3>5, <3>7
  <2> QED
    BY <1>1, <2>1, <2>2
<1> QED
  BY <1>1, <1>5, <1>6 DEF Shifts, Moved

LEMMA GrownNames ==
  ASSUME NEW L, NEW M, NEW q, Grown(L, M, q), UNCHANGED <<message, drop, removed>>, Names,
         Accounted', Shifts', DOMAIN wire \subseteq Nat,
         \A k \in p .. q : wire[k].kind = "pointer" =>
           wire[k].to \in DOMAIN wire /\ wire[k].to < k /\ wire[k].to \notin Unwanted
  PROVE  Names'
<1>1. /\ L \in Nat /\ M \in Nat /\ p \in Nat /\ q \in Nat /\ p' = q + 1 /\ M = L + (q - p) + 1 /\ p <= q
      /\ DOMAIN out = 1 .. L /\ DOMAIN out' = 1 .. M /\ DOMAIN was' = 1 .. M
  BY DEF Grown
<1>2. \A m \in 1 .. L : out'[m] = out[m] /\ was'[m] = was[m]
  BY DEF Grown
<1>3. \A m \in L + 1 .. M :
       /\ was'[m] \in p .. q
       /\ out'[m] = IF wire[was'[m]].kind = "pointer" THEN Pointer(Moved(wire[was'[m]].to)) ELSE wire[was'[m]]
  BY DEF Grown
<1>4. wire' = wire /\ Unwanted' = Unwanted
  BY StillThere
<1>5. ASSUME NEW j \in 1 .. M, out'[j].kind = "pointer"
      PROVE  out'[j].to \in 1 .. M /\ was'[out'[j].to] = wire[was'[j]].to
  <2>1. CASE j \in 1 .. L
    <3>1. out[j].to \in 1 .. L /\ was[out[j].to] = wire[was[j]].to
      BY <1>1, <1>2, <1>5, <2>1 DEF Names
    <3>2. out[j].to \in 1 .. M
      BY <1>1, <3>1
    <3> QED
      BY <1>2, <2>1, <3>1, <3>2
  <2>2. CASE j \in L + 1 .. M
    <3>1. wire[was'[j]].kind = "pointer" /\ out'[j] = Pointer(Moved(wire[was'[j]].to)) /\ was'[j] \in p .. q
      BY <1>3, <1>5, <2>2
    <3>2. PICK t : t = wire[was'[j]].to
      OBVIOUS
    <3>3. t \in DOMAIN wire /\ t < was'[j] /\ t \notin Unwanted
      BY <3>1, <3>2
    <3>4. t < q + 1
      BY <1>1, <3>1, <3>3
    <3>5. PICK m \in 1 .. M : was'[m] = t
      BY <1>1, <1>4, <3>3, <3>4 DEF Accounted
    <3>6. Moved(t) = m
      <4>1. was'[m] - removed'[was'[m]] = m
        BY <1>1 DEF Shifts, Moved
      <4> QED
        BY <3>5, <4>1 DEF Moved
    <3>7. out'[j].to = m
      BY <3>1, <3>2, <3>6 DEF Pointer
    <3> QED
      BY <3>2, <3>5, <3>7
  <2> QED
    BY <1>1, <2>1, <2>2
<1> QED
  BY <1>1, <1>4, <1>5 DEF Names
(* Nothing is missed before something has been left out.                   *)
Losses == (\E t \in DOMAIN removed : removed[t] > 0) => \E k \in Unwanted : k < p

Kept == Accounted /\ Shifts /\ Names /\ Losses

LEMMA GrownKept ==
  ASSUME TInv, Copying, ~Damaged, UNCHANGED <<message, drop, removed>>, Kept,
         NEW q, Appends(q), q <= Len(built), \A k \in p .. q : k \notin Unwanted
  PROVE  Kept'
<1>1. PICK L, M \in Nat : Grown(L, M, q)
  BY Grows
<1>2. /\ DOMAIN wire = 1 .. Len(wire) /\ Len(wire) \in Nat /\ DOMAIN removed = 1 .. Len(wire) + 1
      /\ Got /\ AsBuilt
  BY CopyFacts, WholeFacts
<1>3. DOMAIN wire \subseteq Nat /\ DOMAIN removed \subseteq Int /\ DOMAIN wire \subseteq DOMAIN removed
  BY <1>2
<1>4. UNCHANGED <<message, drop>> /\ UNCHANGED removed /\ Accounted /\ Shifts /\ Names /\ Losses
  BY DEF Kept
<1>5. Accounted'
  BY <1>1, <1>3, <1>4, GrownAccounted
<1>6. Shifts'
  BY <1>1, <1>3, <1>4, GrownShifts
<1>7. ASSUME NEW k \in p .. q, wire[k].kind = "pointer"
      PROVE  wire[k].to \in DOMAIN wire /\ wire[k].to < k /\ wire[k].to \notin Unwanted
  <2>1. q \in p .. Len(wire) /\ p \in 1 .. Len(wire) + 1
    BY CopyFacts DEF Appends
  <2>2. k \in DOMAIN wire /\ k \in DOMAIN built /\ DOMAIN built = 1 .. Len(built) /\ Len(built) \in Nat
    BY <1>2, <2>1, GotFacts
  <2>3. wire[k].to \in 1 .. k - 1 /\ built[wire[k].to].kind = "label"
    <3>1. wire[k].to \in 1 .. k - 1
      BY <1>7, <2>2, MovedInt
    <3>2. wire[k] = built[k]
      BY <1>2, <2>2
    <3>3. built[built[k].to].kind = "label"
      BY <1>2, <1>7, <2>2, <3>2 DEF Got, BInv, WellBuilt, PointsBack
    <3> QED
      BY <3>1, <3>2, <3>3
  <2>4. wire[k].to \in DOMAIN wire /\ wire[k].to < k
    BY <1>2, <2>2, <2>3
  <2> QED
    BY <1>2, <2>3, <2>4, OnlyParamsGo
<1>8. Names'
  BY <1>1, <1>3, <1>4, <1>5, <1>6, <1>7, GrownNames
<1>9. Losses'
  <2>1. p' > p /\ Unwanted' = Unwanted /\ Unwanted \subseteq Nat /\ p \in Nat /\ p' \in Nat
    BY <1>1, <1>2, StillThere DEF Grown, Unwanted
  <2> QED
    BY <1>4, <2>1 DEF Losses
<1> QED
  BY <1>5, <1>6, <1>8, <1>9 DEF Kept

LEMMA LeftOutKept ==
  ASSUME TInv, Copying, ~Damaged, UNCHANGED <<message, drop, out, was>>, Kept,
         NEW n \in Nat, NEW q \in Nat, q = p + n, q <= Len(wire), p' = q + 1,
         removed' = [t \in DOMAIN removed |-> removed[t] + IF p < t THEN n + 1 ELSE 0],
         \A k \in p .. q : k \in Unwanted
  PROVE  Kept'
<1>1. /\ DOMAIN wire = 1 .. Len(wire) /\ Len(wire) \in Nat /\ p \in 1 .. Len(wire) + 1
      /\ DOMAIN removed = 1 .. Len(wire) + 1 /\ \A t \in DOMAIN removed : removed[t] \in Nat
  BY CopyFacts
<1>2. p \in Nat /\ p <= q /\ p < p'
  BY <1>1, SMTT(60)
<1>3. PICK L \in Nat : L = Len(was) /\ DOMAIN was = 1 .. L /\ \A m \in 1 .. L : was[m] \in DOMAIN wire
  <2>1. was \in Seq(DOMAIN wire)
    BY CopyFacts
  <2>2. /\ Len(was) \in Nat /\ DOMAIN was = 1 .. Len(was)
        /\ \A m \in 1 .. Len(was) : was[m] \in DOMAIN wire
    BY <2>1
  <2> QED
    BY <2>2, Zenon
<1>4. Unwanted' = Unwanted /\ wire' = wire /\ was' = was /\ out' = out
  BY StillThere
<1>5. Accounted'
  <2>1. \A m \in DOMAIN was : was[m] < p' /\ was[m] \notin Unwanted
    <3>1. \A m \in DOMAIN was : was[m] < p /\ was[m] \notin Unwanted /\ was[m] \in Nat
      BY <1>1, <1>3 DEF Kept, Accounted
    <3>2. p' \in Nat
      BY <1>2
    <3> QED
      BY <1>2, <3>1, <3>2
  <2>2. \A k \in DOMAIN wire : k < p' => k \in Unwanted \/ \E m \in DOMAIN was : was[m] = k
    <3>1. \A k \in DOMAIN wire : k < p' => k < p \/ k \in p .. q
      BY <1>1, <1>2
    <3> QED
      BY <3>1 DEF Kept, Accounted
  <2> QED
    BY <1>4, <2>1, <2>2 DEF Kept, Accounted
<1>6. Shifts'
  <2>1. ASSUME NEW t \in DOMAIN removed
        PROVE  removed'[t] = removed[t] + IF p < t THEN n + 1 ELSE 0
    BY <2>1
  <2>2. DOMAIN removed' = DOMAIN removed
    OBVIOUS
  <2>3. ASSUME NEW t \in DOMAIN removed, p' <= t
        PROVE  removed'[t] = p' - 1 - Len(was)
    <3>1. p <= t /\ p < t
      BY <1>1, <1>2, <2>3
    <3>2. removed[t] = p - 1 - L
      BY <1>3, <3>1 DEF Kept, Shifts
    <3>3. removed'[t] = removed[t] + (n + 1)
      BY <2>1, <3>1
    <3>4. p' - 1 - L = p - 1 - L + (n + 1)
      BY <1>2
    <3> QED
      BY <1>3, <3>2, <3>3, <3>4
  <2>4. ASSUME NEW m \in DOMAIN was
        PROVE  was[m] - removed'[was[m]] = m
    <3>1. was[m] \in DOMAIN removed /\ ~(p < was[m]) /\ removed[was[m]] \in Nat
      <4>1. was[m] < p
        BY DEF Kept, Accounted
      <4>2. was[m] \in DOMAIN wire
        BY <1>3
      <4> QED
        BY <1>1, <4>1, <4>2
    <3>2. was[m] - removed[was[m]] = m
      BY DEF Kept, Shifts, Moved
    <3>3. removed'[was[m]] = removed[was[m]]
      BY <2>1, <3>1
    <3> QED
      BY <3>2, <3>3
  <2> QED
    BY <1>4, <2>2, <2>3, <2>4 DEF Shifts, Moved
<1>7. Names'
  BY <1>4 DEF Kept, Names
<1>8. Losses'
  <2>1. p \in Unwanted /\ p < p'
    BY <1>2
  <2> QED
    BY <1>4, <2>1 DEF Losses
<1> QED
  BY <1>5, <1>6, <1>7, <1>8 DEF Kept
-------------------------------------------------------------------------------
(* The records of the copy                                                 *)

(* What stood behind the record with its fields at j                       *)
Behind(j) == was[j] + wire[was[j]].len + 1

(* A reader of the copy finds the cells of that record there and then what *)
(* stood behind it, as far as it has been copied.                          *)
FramedAt(j) ==
  /\ j + out[j].len <= Len(out)
  /\ j + out[j].len < Len(out) => was[j + out[j].len + 1] = Behind(j)
  /\ j + out[j].len = Len(out) => AtCopy /\ Behind(j) = p
  /\ \A k \in j + 1 .. j + out[j].len : was[k] \in was[j] + 1 .. Behind(j) - 1

Framed == \A j \in DOMAIN out : out[j].kind = "fields" /\ (j # at \/ AtCopy) => FramedAt(j)

(* Where the records of the copy are, and how many                         *)
FieldsOut == {j \in DOMAIN out : out[j].kind = "fields"}

Counted == Cardinality(FieldsOut) = IF AtCopy THEN i ELSE i + 1

(* Nothing is left out before the first record; what ends the copying      *)
Starts == AtCopy /\ i = 0 => \A t \in DOMAIN removed : removed[t] = 0

Ends == Copied /\ i < answers => built[heads[i + 1]].type # qtype /\ \E t \in DOMAIN removed : removed[t] > 0

Whole == Walks /\ Kept /\ Framed /\ Counted /\ Starts /\ Ends

LEMMA FieldsPlace ==
  ASSUME Got, AsBuilt, NEW n \in DOMAIN heads, NEW k \in heads[n] - 1 .. EndOf(n)
  PROVE  k \in DOMAIN wire /\ (wire[k].kind = "fields" <=> k = heads[n])
<1>1. /\ heads[n] \in Nat /\ EndOf(n) \in Nat /\ heads[n] >= 6 /\ EndOf(n) <= Len(built) /\ Len(built) \in Nat
      /\ DOMAIN built = 1 .. Len(built) /\ built[heads[n]].kind = "fields" /\ built[heads[n] - 1].kind = "pointer"
  BY HeadIs, GotFacts
<1>2. k \in DOMAIN built /\ k > 4 /\ k \in Int
  BY <1>1
<1>3. PICK m \in DOMAIN heads :
         \/ k = heads[m] - 1 \/ k = heads[m]
         \/ heads[m] < k /\ k <= EndOf(m) /\ built[k].kind \notin {"fields", "stub"}
  BY <1>2 DEF Got, BInv, WellBuilt, Placed
<1>4. heads[m] \in Nat /\ EndOf(m) \in Nat /\ heads[m] < EndOf(m) /\ built[heads[m] - 1].kind = "pointer"
  BY HeadIs, GotFacts
<1>5. heads[m] - 1 <= k /\ k <= EndOf(m) /\ heads[n] - 1 <= k /\ k <= EndOf(n)
  BY <1>1, <1>2, <1>3, <1>4
<1>6. m = n
  BY <1>2, <1>5, OneRecord
<1>7. heads[n] # heads[n] - 1
  BY <1>1
<1> QED
  BY <1>1, <1>2, <1>3, <1>6, <1>7

LEMMA GrownFramedAt ==
  ASSUME NEW L, NEW M, NEW q, Grown(L, M, q), UNCHANGED message,
         NEW j \in 1 .. L, out[j].len \in Nat, FramedAt(j)
  PROVE  FramedAt(j)'
<1>1. /\ L \in Nat /\ M \in Nat /\ p \in Nat /\ q \in Nat /\ p <= q /\ M = L + (q - p) + 1 /\ L < M
      /\ Len(out) = L /\ Len(out') = M
  BY DEF Grown
<1>2. \A m \in 1 .. L : out'[m] = out[m] /\ was'[m] = was[m]
  BY DEF Grown
<1>3. was'[L + 1] = p
  <2>1. L + 1 \in L + 1 .. M
    BY <1>1
  <2>2. was'[L + 1] = ((L + 1) - L) + p - 1
    BY <2>1 DEF Grown
  <2>3. ((L + 1) - L) + p - 1 = p
    BY <1>1
  <2> QED
    BY <2>2, <2>3
<1>4. PICK e : e = j + out[j].len
  OBVIOUS
<1>5. e \in Nat /\ e <= L /\ j <= e /\ j \in Nat
  <2>1. e <= L
    BY <1>1, <1>4 DEF FramedAt
  <2> QED
    BY <1>1, <1>4, <2>1
<1>6. Behind(j)' = Behind(j) /\ was'[j] = was[j] /\ out'[j] = out[j]
  BY <1>2 DEF Behind, message
<1>7. was'[e + 1] = Behind(j)
  <2>1. CASE e < L
    <3>1. e + 1 \in 1 .. L
      BY <1>1, <1>5, <2>1
    <3>2. was[e + 1] = Behind(j)
      BY <1>1, <1>4, <2>1 DEF FramedAt
    <3> QED
      BY <1>2, <3>1, <3>2
  <2>2. CASE e = L
    BY <1>1, <1>3, <1>4, <2>2 DEF FramedAt
  <2> QED
    BY <1>1, <1>5, <2>1, <2>2
<1>8. ASSUME NEW k \in j + 1 .. e
      PROVE  was'[k] \in was[j] + 1 .. Behind(j) - 1
  <2>1. k \in 1 .. L
    BY <1>1, <1>5
  <2>2. was[k] \in was[j] + 1 .. Behind(j) - 1
    BY <1>4 DEF FramedAt
  <2> QED
    BY <1>2, <2>1, <2>2
<1>9. e <= M /\ e # M
  BY <1>1, <1>5
<1> QED
  BY <1>1, <1>4, <1>6, <1>7, <1>8, <1>9 DEF FramedAt

LEMMA OutCell ==
  ASSUME TInv
  PROVE  \A j \in DOMAIN out : out[j] \in Copies /\ out[j].len \in Nat /\ out[j].to \in Int
<1> SUFFICES ASSUME NEW j \in DOMAIN out
             PROVE  out[j] \in Copies /\ out[j].len \in Nat /\ out[j].to \in Int
  OBVIOUS
<1>1. out \in Seq(Copies)
  BY CopyFacts
<1>2. out[j] \in Copies
  BY <1>1
<1> QED
  BY <1>2 DEF Copies

LEMMA GrownFramed ==
  ASSUME TInv, NEW L, NEW M, NEW q, Grown(L, M, q), UNCHANGED message, Framed, AtCopy \/ at' = at
  PROVE  \A j \in 1 .. L : out'[j].kind = "fields" /\ (j # at' \/ AtCopy) => FramedAt(j)'
<1> SUFFICES ASSUME NEW j \in 1 .. L, out'[j].kind = "fields", j # at' \/ AtCopy
             PROVE  FramedAt(j)'
  BY Zenon
<1>1. out'[j] = out[j] /\ DOMAIN out = 1 .. L
  BY DEF Grown
<1>2. j # at \/ AtCopy
  OBVIOUS
<1>3. FramedAt(j)
  BY <1>1, <1>2 DEF Framed
<1>4. out[j].len \in Nat
  BY <1>1, OutCell
<1> QED
  BY <1>3, <1>4, GrownFramedAt

LEMMA FieldsCount ==
  ASSUME TInv
  PROVE  IsFiniteSet(FieldsOut) /\ Cardinality(FieldsOut) \in Nat
<1>1. FieldsOut \subseteq 1 .. Len(out) /\ Len(out) \in Nat
  BY CopyFacts DEF FieldsOut
<1>2. IsFiniteSet(1 .. Len(out))
  BY <1>1, FS_Interval
<1>3. IsFiniteSet(FieldsOut)
  BY <1>1, <1>2, FS_Subset
<1> QED
  BY <1>3, FS_CardinalityType

LEMMA SameFields ==
  ASSUME NEW L, NEW M, NEW q, Grown(L, M, q), UNCHANGED message, Accounted',
         \A k \in p .. q : wire[k].kind # "fields"
  PROVE  FieldsOut' = FieldsOut
<1>1. DOMAIN out = 1 .. L /\ DOMAIN out' = 1 .. M /\ DOMAIN was' = 1 .. M
  BY DEF Grown
<1>2. \A m \in 1 .. L : out'[m] = out[m]
  BY DEF Grown
<1>3. \A m \in 1 .. M : out'[m].kind = wire[was'[m]].kind
  BY <1>1 DEF Accounted, message
<1>4. \A m : m \in 1 .. M <=> m \in 1 .. L \/ m \in L + 1 .. M
  <2>1. L \in Nat /\ M \in Nat /\ p \in Nat /\ q \in Nat /\ p <= q /\ M = L + (q - p) + 1
    BY DEF Grown
  <2> QED
    BY <2>1
<1>5. \A m \in L + 1 .. M : out'[m].kind # "fields"
  <2>1. \A m \in L + 1 .. M : was'[m] \in p .. q
    BY DEF Grown
  <2> QED
    BY <1>3, <1>4, <2>1
<1> QED
  BY <1>1, <1>2, <1>4, <1>5 DEF FieldsOut

LEMMA FieldsAdded ==
  ASSUME NEW L, NEW M, NEW q, Grown(L, M, q), UNCHANGED message, Accounted',
         NEW f \in p .. q, \A k \in p .. q : wire[k].kind = "fields" <=> k = f,
         NEW g, g = L + (f - p) + 1
  PROVE  /\ FieldsOut' = FieldsOut \cup {g} /\ g \notin FieldsOut
         /\ g \in L + 1 .. M /\ was'[g] = f
         /\ \A j \in L + 1 .. M : out'[j].kind = "fields" => j = g
<1>1. /\ L \in Nat /\ M \in Nat /\ p \in Nat /\ q \in Nat /\ p <= q /\ M = L + (q - p) + 1
      /\ DOMAIN out = 1 .. L /\ DOMAIN out' = 1 .. M /\ DOMAIN was' = 1 .. M
  BY DEF Grown
<1>2. \A m \in 1 .. L : out'[m] = out[m]
  BY DEF Grown
<1>3. \A m \in L + 1 .. M : was'[m] = (m - L) + p - 1 /\ was'[m] \in p .. q
  BY DEF Grown
<1>4. \A m \in 1 .. M : out'[m].kind = wire[was'[m]].kind
  BY <1>1 DEF Accounted, message
<1>5. \A m : m \in 1 .. M <=> m \in 1 .. L \/ m \in L + 1 .. M
  BY <1>1
<1>6. g \in L + 1 .. M /\ g \notin 1 .. L /\ (g - L) + p - 1 = f
  BY <1>1
<1>7. was'[g] = f
  BY <1>3, <1>6
<1>8. ASSUME NEW m \in L + 1 .. M
      PROVE  out'[m].kind = "fields" <=> m = g
  <2>1. was'[m] = (m - L) + p - 1 /\ was'[m] \in p .. q /\ m \in 1 .. M
    BY <1>3, <1>5
  <2>2. out'[m].kind = "fields" <=> was'[m] = f
    BY <1>4, <2>1
  <2>3. was'[m] = f => m = g
    BY <1>1, <2>1
  <2> QED
    BY <1>7, <2>2, <2>3
<1>9. FieldsOut' = FieldsOut \cup {g} /\ g \notin FieldsOut
  BY <1>1, <1>2, <1>5, <1>6, <1>8 DEF FieldsOut
<1> QED
  BY <1>6, <1>7, <1>8, <1>9

-------------------------------------------------------------------------------
(* The steps of the copying                                                *)

LEMMA WithinRecord ==
  ASSUME TInv, pc \in {"copyTarget", "copyParam"}
  PROVE  Copying /\ ~AtCopy /\ verdict = "none"
BY DEF TInv, Phases, Copying, AtCopy, Copied

LEMMA GrownWhole ==
  ASSUME TInv, ~Damaged, Whole, UNCHANGED <<message, drop, removed, end, i, at, verdict>>,
         pc \in {"copyTarget", "copyParam"}, pc' = "copyParam",
         NEW q, Appends(q), q <= Len(built), \A k \in p .. q : k \notin Unwanted /\ wire[k].kind # "fields"
  PROVE  /\ Kept' /\ Framed' /\ Counted' /\ Starts' /\ Ends'
         /\ at \in DOMAIN out => at' \in DOMAIN out' /\ was'[at'] = was[at]
<1>1. Copying /\ ~AtCopy /\ verdict = "none"
  BY WithinRecord
<1>2. ~AtCopy' /\ ~Copied'
  BY <1>1 DEF AtCopy, Copied
<1>3. Kept'
  <2>1. Kept /\ UNCHANGED <<message, drop, removed>>
    BY DEF Whole
  <2> QED
    BY <1>1, <2>1, GrownKept
<1>4. PICK L, M \in Nat : Grown(L, M, q)
  BY Grows
<1>5. UNCHANGED message /\ Accounted' /\ Framed /\ at' = at
  BY <1>3 DEF Kept, Whole
<1>6. FieldsOut' = FieldsOut
  BY <1>4, <1>5, SameFields
<1>7. Framed'
  <2>1. \A j \in 1 .. L : out'[j].kind = "fields" /\ (j # at' \/ AtCopy) => FramedAt(j)'
    BY <1>4, <1>5, GrownFramed
  <2>2. ASSUME NEW j \in DOMAIN out', out'[j].kind = "fields"
        PROVE  j \in 1 .. L
    <3>1. j \in FieldsOut'
      BY <2>2 DEF FieldsOut
    <3>2. DOMAIN out = 1 .. L
      BY <1>4 DEF Grown
    <3> QED
      BY <1>6, <3>1, <3>2 DEF FieldsOut
  <2>3. SUFFICES ASSUME NEW j \in DOMAIN out', out'[j].kind = "fields", j # at' \/ AtCopy'
                 PROVE  FramedAt(j)'
    BY Zenon DEF Framed
  <2> QED
    BY <1>2, <2>1, <2>2, <2>3
<1>8. Counted'
  BY <1>1, <1>2, <1>6 DEF Whole, Counted
<1>9. Starts' /\ Ends'
  BY <1>2 DEF Starts, Ends
<1>10. at \in DOMAIN out => at' \in DOMAIN out' /\ was'[at'] = was[at]
  <2>1. DOMAIN out = 1 .. L /\ DOMAIN out' = 1 .. M /\ L <= M /\ \A m \in 1 .. L : was'[m] = was[m]
    <3>1. p \in Nat /\ q \in Nat /\ p <= q /\ M = L + (q - p) + 1
      BY <1>4 DEF Grown
    <3>2. L <= M
      BY <3>1
    <3> QED
      BY <1>4, <3>2 DEF Grown
  <2> QED
    BY <1>5, <2>1
<1> QED
  BY <1>3, <1>7, <1>8, <1>9, <1>10

LEMMA TargetWhole ==
  ASSUME TInv, ~Damaged, Whole, CopyTarget
  PROVE  Whole'
<1>1. UNCHANGED <<message, drop>>
  BY DEF CopyTarget
<1>2. PICK n \in DOMAIN heads : \E e \in heads[n] + 2 .. EndOf(n) : TargetStep(n, e)
  BY WholeTarget DEF Whole
<1> PICK e \in heads[n] + 2 .. EndOf(n) : TargetStep(n, e)
  BY <1>2
<1>3. Got /\ AsBuilt
  BY WholeFacts
<1>4. heads[n] \in Nat /\ EndOf(n) \in Nat /\ DOMAIN wire = 1 .. Len(wire) /\ Len(wire) \in Nat /\ EndOf(n) <= Len(built)
  BY <1>3, HeadIs, GotFacts
<1>5. /\ n = i + 1 /\ p = heads[n] + 1 /\ end = EndOf(n) /\ built[heads[n]].type = qtype /\ pc = "copyTarget"
      /\ \A k \in heads[n] + 1 .. e : built[k].kind \notin {"param", "value"}
      /\ e < EndOf(n) => built[e + 1].kind = "param"
      /\ Appends(e) /\ p' = e + 1
      /\ pc' = "copyParam" /\ UNCHANGED <<end, i, removed, at, verdict>>
  BY DEF TargetStep, Appends
<1>6. ASSUME NEW k \in p .. e
      PROVE  k \notin Unwanted /\ wire[k].kind # "fields"
  <2>1. k \in heads[n] - 1 .. EndOf(n) /\ k # heads[n] /\ k \in heads[n] + 1 .. e
    BY <1>4, <1>5
  <2>2. k \in DOMAIN wire /\ wire[k].kind # "fields"
    BY <1>3, <2>1, FieldsPlace
  <2> QED
    BY <1>3, <1>5, <2>1, <2>2, OnlyParamsGo
<1>7. /\ Kept' /\ Framed' /\ Counted' /\ Starts' /\ Ends'
      /\ at \in DOMAIN out => at' \in DOMAIN out' /\ was'[at'] = was[at]
  <2>1. UNCHANGED <<message, drop, removed, end, i, at, verdict>> /\ pc \in {"copyTarget", "copyParam"}
    BY <1>1, <1>5
  <2>2. e <= Len(built)
    BY <1>3, <1>4, GotFacts
  <2> QED
    BY <1>5, <1>6, <2>1, <2>2, GrownWhole
<1>8. Walks'
  <2>1. built' = built /\ heads' = heads /\ qtype' = qtype /\ EndOf(i + 1)' = EndOf(i + 1)
    BY <1>1, <1>5, StillThere DEF EndOf
  <2>2. at \in DOMAIN out /\ was[at] = heads[i + 1]
    BY <1>5 DEF Whole, Walks
  <2>3. heads[n] + 2 < e + 1 /\ e + 1 <= EndOf(n) + 1 /\ (e + 1 <= EndOf(n) => built[e + 1].kind = "param")
    BY <1>4, <1>5
  <2>4. ~AtCopy'
    BY <1>5, WithinRecord DEF AtCopy, Copied
  <2> QED
    BY <1>5, <1>7, <2>1, <2>2, <2>3, <2>4 DEF Walks
<1> QED
  BY <1>7, <1>8 DEF Whole

LEMMA ParamWhole ==
  ASSUME TInv, ~Damaged, Whole, CopyParam
  PROVE  Whole'
<1>1. UNCHANGED <<message, drop>>
  BY DEF CopyParam
<1>2. PICK n \in DOMAIN heads, q \in Nat : ParamStep(n, q)
  BY WholeParam DEF Whole
<1>3. Got /\ AsBuilt
  BY WholeFacts
<1>4. heads[n] \in Nat /\ EndOf(n) \in Nat /\ DOMAIN wire = 1 .. Len(wire) /\ Len(wire) \in Nat /\ EndOf(n) <= Len(built)
      /\ p \in Nat
  BY <1>3, HeadIs, GotFacts, CopyFacts
<1>5. /\ n = i + 1 /\ end = EndOf(n) /\ heads[n] < p /\ p <= end /\ built[heads[n]].type = qtype /\ pc = "copyParam"
      /\ p \in DOMAIN built /\ built[p].kind = "param" /\ built[p].len \in Nat
      /\ q = p + built[p].len /\ q <= EndOf(n)
      /\ q < EndOf(n) => built[q + 1].kind = "param"
      /\ UNCHANGED <<pc, end, i, at, verdict>>
  BY <1>2 DEF ParamStep
<1>6. \A k \in p .. q : k \in Unwanted <=> built[p].type \in drop
  <2>1. p + built[p].len <= EndOf(n)
    BY <1>5
  <2> QED
    BY <1>3, <1>5, <2>1, ParamGoes
<1>7. heads[n] + 2 < p
  BY <1>5 DEF Whole, Walks
<1>8. Copying /\ ~AtCopy /\ ~AtCopy' /\ ~Copied'
  BY <1>5, WithinRecord DEF AtCopy, Copied
<1>9. /\ Kept' /\ Framed' /\ Counted' /\ Starts' /\ Ends' /\ p' = q + 1
      /\ at \in DOMAIN out => at' \in DOMAIN out' /\ was'[at'] = was[at]
  <2>1. CASE ~Drops(built[p].type) /\ Appends(q) /\ UNCHANGED removed
    <3>1. ASSUME NEW k \in p .. q
          PROVE  k \notin Unwanted /\ wire[k].kind # "fields"
      <4>1. k \in heads[n] - 1 .. EndOf(n) /\ k # heads[n]
        BY <1>4, <1>5
      <4>2. wire[k].kind # "fields"
        BY <1>3, <4>1, FieldsPlace
      <4> QED
        BY <1>6, <2>1, <4>2 DEF Drops
    <3>2. UNCHANGED <<message, drop, removed, end, i, at, verdict>> /\ pc \in {"copyTarget", "copyParam"}
          /\ pc' = "copyParam" /\ Appends(q) /\ p' = q + 1
      BY <1>1, <1>5, <2>1 DEF Appends
    <3>3. q <= Len(built)
      BY <1>2, <1>3, <1>4, <1>5, GotFacts
    <3> QED
      BY <3>1, <3>2, <3>3, GrownWhole
  <2>2. CASE /\ Drops(built[p].type)
             /\ removed' = [t \in DOMAIN removed |-> removed[t] + IF p < t THEN built[p].len + 1 ELSE 0]
             /\ p' = q + 1
             /\ UNCHANGED <<out, was>>
    <3>1. Kept'
      <4>1. PICK l \in Nat : l = built[p].len
        BY <1>5
      <4>2. q = p + l /\ q <= Len(wire) /\ Kept /\ UNCHANGED <<message, drop, out, was>>
            /\ removed' = [t \in DOMAIN removed |-> removed[t] + IF p < t THEN l + 1 ELSE 0]
        BY <1>1, <1>3, <1>4, <1>5, <2>2, <4>1 DEF Whole
      <4>3. \A k \in p .. q : k \in Unwanted
        BY <1>6, <2>2 DEF Drops
      <4> QED
        BY <1>8, <2>2, <4>2, <4>3, LeftOutKept
    <3>2. wire' = wire /\ out' = out /\ was' = was /\ at' = at /\ i' = i /\ FieldsOut' = FieldsOut
      BY <1>1, <1>5, <2>2, StillThere DEF FieldsOut
    <3>3. Framed'
      <4>1. \A j \in DOMAIN out : out[j].kind = "fields" /\ j # at =>
              /\ j + out[j].len <= Len(out)
              /\ j + out[j].len < Len(out) => was[j + out[j].len + 1] = Behind(j)
              /\ j + out[j].len # Len(out)
              /\ \A k \in j + 1 .. j + out[j].len : was[k] \in was[j] + 1 .. Behind(j) - 1
        BY <1>8, Zenon DEF Whole, Framed, FramedAt
      <4>2. \A j : Behind(j)' = Behind(j)
        BY <3>2 DEF Behind
      <4> QED
        BY <1>8, <3>2, <4>1, <4>2, Zenon DEF Framed, FramedAt
    <3>4. Counted' /\ Starts' /\ Ends'
      BY <1>8, <3>2 DEF Whole, Counted, Starts, Ends
    <3> QED
      BY <2>2, <3>1, <3>2, <3>3, <3>4
  <2> QED
    BY <1>2, <2>1, <2>2 DEF ParamStep
<1>10. Walks'
  <2>1. built' = built /\ heads' = heads /\ qtype' = qtype
    BY <1>1, StillThere
  <2>2. EndOf(i + 1)' = EndOf(i + 1)
    BY <1>5, <2>1 DEF EndOf
  <2>3. at \in DOMAIN out /\ was[at] = heads[i + 1]
    BY <1>5 DEF Whole, Walks
  <2>4. heads[n] + 2 < q + 1 /\ q + 1 <= EndOf(n) + 1 /\ (q + 1 <= EndOf(n) => built[q + 1].kind = "param")
    BY <1>4, <1>5, <1>7, SMTT(60)
  <2> QED
    BY <1>5, <1>8, <1>9, <2>1, <2>2, <2>3, <2>4 DEF Walks
<1> QED
  BY <1>9, <1>10 DEF Whole

LEMMA EndRecordWhole ==
  ASSUME TInv, ~Damaged, Whole, EndRecord
  PROVE  Whole'
<1>1. pc = "copyParam" /\ p > end /\ pc' = "copy" /\ i' = i + 1 /\ UNCHANGED <<message, drop>>
      /\ UNCHANGED <<p, end, removed, was, at, verdict>>
  BY DEF EndRecord
<1>2. PICK L \in Nat : L = Len(out)
  BY CopyFacts
<1>3. /\ p \in Nat /\ end \in Nat /\ i \in Nat /\ DOMAIN out = 1 .. L /\ DOMAIN was = 1 .. L
      /\ i < answers /\ i + 1 \in DOMAIN heads /\ Got /\ AsBuilt
      /\ \A m \in 1 .. L : was[m] \in DOMAIN wire
  <2>1. Got /\ AsBuilt /\ DOMAIN heads = 1 .. answers /\ answers \in Nat /\ i \in 0 .. answers
    BY WholeFacts
  <2>2. i < answers
    BY <1>1 DEF TInv, Phases
  <2>3. DOMAIN out = 1 .. L /\ DOMAIN was = 1 .. L /\ \A m \in 1 .. L : was[m] \in DOMAIN wire
    BY <1>2, CopyFacts
  <2>4. p \in 1 .. Len(wire) + 1 /\ end \in 0 .. Len(wire) /\ Len(wire) \in Nat
    BY CopyFacts
  <2> QED
    BY <2>1, <2>2, <2>3, <2>4
<1>4. PICK n \in DOMAIN heads : n = i + 1
  BY <1>3
<1>5. end = EndOf(n) /\ at \in 1 .. L /\ was[at] = heads[n] /\ p <= end + 1
  BY <1>1, <1>3, <1>4 DEF Whole, Walks
<1>6. /\ p = EndOf(n) + 1 /\ heads[n] + built[heads[n]].len = EndOf(n)
      /\ heads[n] \in Nat /\ EndOf(n) \in Nat /\ built[heads[n]].len \in Nat
  <2>1. p = EndOf(n) + 1
    BY <1>1, <1>3, <1>5
  <2>2. n \in DOMAIN heads /\ Got
    BY <1>3, <1>4
  <2>3. /\ heads[n] \in Nat /\ EndOf(n) \in Nat /\ built[heads[n]].len \in Nat
        /\ EndOf(n) = heads[n] + built[heads[n]].len
    BY <2>2, HeadIs, Zenon
  <2> QED
    BY <2>1, <2>3
<1>7. /\ DOMAIN out' = 1 .. L /\ \A j \in 1 .. L : j # at => out'[j] = out[j]
      /\ out'[at] = [out[at] EXCEPT !.len = L - at]
  BY <1>2, <1>3, <1>5 DEF EndRecord
<1>8. Len(out') = L
  <2>1. TInv'
    BY CopyTypes DEF DropAddress
  <2>2. out' \in Seq(Copies)
    BY <2>1 DEF TInv, TypeOK
  <2> QED
    BY <1>2, <1>7, <2>2
<1>9. /\ out'[at].kind = out[at].kind /\ out'[at].to = out[at].to /\ out'[at].len = L - at
      /\ \A j \in 1 .. L : out'[j].kind = out[j].kind /\ out'[j].to = out[j].to
  <2>1. out[at] \in Copies
    BY <1>3, <1>5, OutCell
  <2>2. out'[at].kind = out[at].kind /\ out'[at].to = out[at].to /\ out'[at].len = L - at
    BY <1>7, <2>1 DEF Copies
  <2> QED
    BY <1>7, <2>2
<1>10. wire' = wire /\ Unwanted' = Unwanted /\ built' = built /\ heads' = heads /\ qtype' = qtype
  BY <1>1, StillThere
<1>11. ~AtCopy /\ verdict = "none" /\ AtCopy' /\ ~Copied'
  BY <1>1, WithinRecord DEF AtCopy, Copied
<1>12. Kept'
  <2>1. Accounted'
    BY <1>1, <1>3, <1>9, <1>10 DEF Whole, Kept, Accounted
  <2>2. Shifts'
    BY <1>1, <1>3 DEF Whole, Kept, Shifts, Moved
  <2>3. Names'
    BY <1>1, <1>3, <1>7, <1>9, <1>10 DEF Whole, Kept, Names
  <2>4. Losses'
    BY <1>1, <1>10 DEF Whole, Kept, Losses
  <2> QED
    BY <2>1, <2>2, <2>3, <2>4 DEF Kept
<1>13. Framed'
  <2>1. \A j : Behind(j)' = Behind(j)
    BY <1>1, <1>10 DEF Behind
  <2>2. ASSUME NEW j \in 1 .. L, out'[j].kind = "fields", j # at
        PROVE  FramedAt(j)'
    <3>1. out'[j] = out[j] /\ out[j].kind = "fields"
      BY <1>7, <2>2
    <3>2. FramedAt(j)
      BY <1>3, <2>2, <3>1 DEF Whole, Framed
    <3>3. /\ j + out[j].len <= L /\ j + out[j].len # L
          /\ j + out[j].len < L => was[j + out[j].len + 1] = Behind(j)
          /\ \A k \in j + 1 .. j + out[j].len : was[k] \in was[j] + 1 .. Behind(j) - 1
      BY <1>2, <1>11, <3>2, Zenon DEF FramedAt
    <3>4. was' = was /\ Len(out') = L
      BY <1>1, <1>8
    <3>5. PICK e : e = j + out[j].len
      OBVIOUS
    <3>6. e <= L /\ e # L /\ (e < L => was[e + 1] = Behind(j))
          /\ \A k \in j + 1 .. e : was[k] \in was[j] + 1 .. Behind(j) - 1
      BY <3>3, <3>5
    <3> QED
      BY <2>1, <3>1, <3>4, <3>5, <3>6 DEF FramedAt
  <2>3. ASSUME NEW a \in 1 .. L, a = at
        PROVE  FramedAt(a)'
    <3>1. a + (L - a) = L
      OBVIOUS
    <3>2. Behind(a) = p
      <4>1. wire[heads[n]].len = built[heads[n]].len
        BY <1>3, <1>4, GotFacts
      <4> QED
        BY <1>3, <1>5, <1>6, <2>3, <4>1 DEF Behind
    <3>3. ASSUME NEW k \in a + 1 .. L
          PROVE  was[k] \in was[a] + 1 .. p - 1
      <4>1. k \in 1 .. L /\ a < k
        OBVIOUS
      <4>2. was[a] < was[k] /\ was[k] < p
        BY <1>3, <4>1 DEF Whole, Kept, Accounted
      <4>3. was[k] \in Nat /\ was[a] \in Nat
        <5>1. DOMAIN wire = 1 .. Len(wire)
          BY CopyFacts
        <5> QED
          BY <1>3, <4>1, <5>1
      <4> QED
        BY <1>3, <4>2, <4>3
    <3>4. out'[a].len = L - a
      BY <1>9, <2>3
    <3>5. was' = was /\ Len(out') = L /\ p' = p
      BY <1>1, <1>8
    <3>6. a + out'[a].len = L
      BY <3>1, <3>4
    <3>7. L <= L /\ ~(L < L)
      OBVIOUS
    <3> QED
      BY <1>11, <2>1, <3>2, <3>3, <3>5, <3>6, <3>7 DEF FramedAt
  <2>4. SUFFICES ASSUME NEW j \in DOMAIN out', out'[j].kind = "fields"
                 PROVE  FramedAt(j)'
    BY Zenon DEF Framed
  <2>5. j \in 1 .. L
    BY <1>7, <2>4
  <2>6. CASE j = at
    BY <2>3, <2>5, <2>6
  <2>7. CASE j # at
    BY <2>2, <2>4, <2>5, <2>7
  <2> QED
    BY <2>6, <2>7
<1>14. Counted'
  <2>1. FieldsOut' = FieldsOut
    BY <1>3, <1>7, <1>9 DEF FieldsOut
  <2> QED
    BY <1>1, <1>11, <2>1 DEF Whole, Counted
<1>15. Starts' /\ Ends'
  BY <1>1, <1>3, <1>11 DEF Starts, Ends
<1>16. Walks'
  <2>1. i' = n /\ n # 0
    BY <1>1, <1>3, <1>4
  <2>2. p' = EndOf(n) + 1 /\ end' = EndOf(n) /\ pc' = "copy"
    BY <1>1, <1>5, <1>6
  <2>3. EndOf(i)' = EndOf(n)
    BY <1>10, <2>1 DEF EndOf
  <2> QED
    BY <2>1, <2>2, <2>3 DEF Walks
<1> QED
  BY <1>12, <1>13, <1>14, <1>15, <1>16 DEF Whole

LEMMA StopWhole ==
  ASSUME TInv, ~Damaged, Whole, pc = "copy", Answer("copy"),
         UNCHANGED <<message, drop, p, end, i, removed, out, was, at>>,
         i < answers => built[heads[i + 1]].type # qtype /\ \E t \in DOMAIN removed : removed[t] > 0
  PROVE  Whole'
<1>1. wire' = wire /\ Unwanted' = Unwanted /\ built' = built /\ heads' = heads /\ qtype' = qtype /\ answers' = answers
      /\ Damaged' = Damaged
  BY StillThere
<1>2. UNCHANGED <<p, end, i, removed, out, was, at>>
  OBVIOUS
<1>3. qtype = "SVCB"
  BY DEF TInv, Phases, Copying
<1>4. AtCopy /\ AtCopy'
  <2>1. Copied'
    BY <1>1, <1>3 DEF Copied, Answer
  <2> QED
    BY <2>1 DEF AtCopy
<1>5. pc' = "done"
  BY DEF Answer
<1>6. \A k : EndOf(k)' = EndOf(k)
  BY <1>1 DEF EndOf
<1>7. Walks'
  BY <1>2, <1>4, <1>5, <1>6 DEF Whole, Walks
<1>8. Kept'
  BY <1>1, <1>2 DEF Whole, Kept, Accounted, Shifts, Moved, Names, Losses
<1>9. Framed'
  <2>1. \A j : Behind(j)' = Behind(j)
    BY <1>1, <1>2 DEF Behind
  <2>2. \A j : FramedAt(j) => FramedAt(j)'
    BY <1>2, <1>4, <2>1, Zenon DEF FramedAt
  <2>3. SUFFICES ASSUME NEW j \in DOMAIN out', out'[j].kind = "fields"
                 PROVE  FramedAt(j)'
    BY Zenon DEF Framed
  <2>4. j \in DOMAIN out /\ out[j].kind = "fields"
    BY <1>2, <2>3
  <2> QED
    BY <1>4, <2>2, <2>4 DEF Whole, Framed
<1>10. Counted'
  <2>1. FieldsOut' = FieldsOut
    BY <1>2 DEF FieldsOut
  <2> QED
    BY <1>2, <1>4, <2>1 DEF Whole, Counted
<1>11. Starts' /\ Ends'
  BY <1>1, <1>2, <1>4 DEF Whole, Starts, Ends
<1> QED
  BY <1>7, <1>8, <1>9, <1>10, <1>11 DEF Whole

LEMMA RecordGrown ==
  ASSUME TInv, ~Damaged, Whole, CopyRecord, NEW n \in DOMAIN heads, n = i + 1, p = heads[n] - 1,
         NEW q, q = (IF built[heads[n]].type = qtype THEN heads[n] ELSE EndOf(n)), Appends(q),
         ~Cuts(built[heads[n]].type), at' = Len(out) + 2, end' = EndOf(n), UNCHANGED <<removed, verdict>>,
         built[heads[n]].type = qtype => pc' = "copyTarget" /\ UNCHANGED i,
         built[heads[n]].type # qtype => i' = n /\ UNCHANGED pc
  PROVE  Whole'
<1>1. UNCHANGED <<message, drop>> /\ pc = "copy" /\ i < answers
  BY DEF CopyRecord
<1>2. Got /\ AsBuilt /\ i \in Nat /\ qtype = "SVCB" /\ Copying /\ verdict = "none"
  <2>1. Got /\ AsBuilt /\ i \in Nat
    BY WholeFacts
  <2> QED
    BY <1>1, <2>1 DEF TInv, Phases, Copying
<1>3. PICK L, M \in Nat : Grown(L, M, q)
  BY Grows
<1>4. PICK f \in Nat : f = heads[n]
  BY <1>2, HeadIs
<1>5. PICK e \in Nat : e = EndOf(n)
  BY <1>2, HeadIs
<1>6. /\ f < e /\ p = f - 1 /\ f >= 6 /\ q \in {f, e} /\ p \in Nat /\ q \in Nat /\ p <= q
      /\ f \in p .. q /\ e <= Len(wire) /\ f + wire[f].len = e /\ wire[f].len \in Nat
  <2>1. f < e /\ f >= 6 /\ e <= Len(wire) /\ f + wire[f].len = e /\ wire[f].len \in Nat
    BY <1>2, <1>4, <1>5, HeadIs, WholeRecordFits
  <2>2. p = f - 1 /\ q \in {f, e}
    BY <1>4, <1>5
  <2> QED
    BY <2>1, <2>2
<1>7. \A k \in p .. q : k \in DOMAIN wire /\ (wire[k].kind = "fields" <=> k = f) /\ k \in f - 1 .. e
  <2>1. \A k \in p .. q : k \in f - 1 .. e
    BY <1>6
  <2>2. \A k \in f - 1 .. e : k \in DOMAIN wire /\ (wire[k].kind = "fields" <=> k = f)
    BY <1>2, <1>4, <1>5, FieldsPlace
  <2> QED
    BY <2>1, <2>2
<1>8. \A k \in p .. q : k \notin Unwanted
  <2>1. CASE built[heads[n]].type = qtype
    <3>1. \A k \in p .. q : k = f - 1 \/ k = f
      BY <1>4, <1>6, <2>1
    <3>2. built[f].kind = "fields" /\ built[f - 1].kind = "pointer"
      BY <1>2, <1>4, GotFacts
    <3> QED
      BY <1>2, <1>7, <3>1, <3>2, OnlyParamsGo
  <2>2. CASE built[heads[n]].type # qtype
    BY <1>2, <1>4, <1>5, <1>7, <2>2, OthersKeepAll
  <2> QED
    BY <2>1, <2>2
<1>9. Kept'
  <2>1. Kept /\ UNCHANGED <<message, drop, removed>>
    BY <1>1 DEF Whole
  <2>2. q <= Len(built)
    <3>1. e <= Len(built) /\ Len(built) \in Nat
      BY <1>2, <1>5, HeadIs, GotFacts
    <3> QED
      BY <1>6, <3>1
  <2> QED
    BY <1>2, <1>8, <2>1, <2>2, GrownKept
<1>10. Accounted' /\ UNCHANGED message /\ wire' = wire /\ built' = built /\ heads' = heads /\ qtype' = qtype
  BY <1>1, <1>9, StillThere DEF Kept
<1>11. AtCopy /\ ~Copied' /\ (AtCopy' <=> built[heads[n]].type # qtype)
  BY <1>1, <1>2 DEF AtCopy, Copied
<1>12. PICK g \in Nat : g = L + 2
  OBVIOUS
<1>13. /\ FieldsOut' = FieldsOut \cup {g} /\ g \notin FieldsOut /\ g \in L + 1 .. M /\ was'[g] = f
       /\ \A j \in L + 1 .. M : out'[j].kind = "fields" => j = g
  <2>1. L + (f - p) + 1 = g
    BY <1>6, <1>12
  <2>2. \A k \in p .. q : wire[k].kind = "fields" <=> k = f
    BY <1>7
  <2>3. Grown(L, M, q) /\ UNCHANGED message /\ Accounted' /\ f \in p .. q
    BY <1>3, <1>6, <1>10
  <2> QED
    BY <2>1, <2>2, <2>3, FieldsAdded, SMTT(60)
<1>14. /\ M = L + (q - p) + 1 /\ Len(out') = M /\ DOMAIN out' = 1 .. M /\ p' = q + 1 /\ at' = g
       /\ \A j \in 1 .. M : j \in 1 .. L \/ j \in L + 1 .. M
  <2>1. M = L + (q - p) + 1 /\ Len(out') = M /\ DOMAIN out' = 1 .. M /\ p' = q + 1 /\ Len(out) = L
    BY <1>3 DEF Grown
  <2> QED
    BY <1>12, <2>1
<1>15. Framed'
  <2>1. \A j \in 1 .. L : out'[j].kind = "fields" => FramedAt(j)'
    <3>1. Framed
      BY DEF Whole
    <3>2. \A j \in 1 .. L : out'[j].kind = "fields" /\ (j # at' \/ AtCopy) => FramedAt(j)'
      BY <1>3, <1>10, <1>11, <3>1, GrownFramed
    <3> QED
      BY <1>11, <3>2
  <2>2. ASSUME built[heads[n]].type # qtype
        PROVE  FramedAt(g)'
    <3>1. q = e
      BY <1>5, <2>2
    <3>2. g + wire[f].len = M
      <4>1. PICK l \in Nat : l = wire[f].len
        BY <1>6
      <4>2. M = L + (q - p) + 1 /\ f + l = e /\ p = f - 1
        BY <1>6, <1>14, <4>1
      <4>3. g + l = M
        BY <1>12, <3>1, <4>2, SMTT(60)
      <4> QED
        BY <4>1, <4>3
    <3>3. out'[g] = wire[f]
      <4>1. out'[g] = IF wire[was'[g]].kind = "pointer" THEN Pointer(Moved(wire[was'[g]].to)) ELSE wire[was'[g]]
        BY <1>3, <1>13 DEF Grown
      <4>2. wire[f].kind = "fields"
        BY <1>6, <1>7
      <4> QED
        BY <1>13, <4>1, <4>2
    <3>4. Behind(g)' = e + 1 /\ p' = e + 1
      BY <1>6, <1>10, <1>13, <1>14, <3>1 DEF Behind
    <3>5. ASSUME NEW k \in g + 1 .. M
          PROVE  was'[k] \in f + 1 .. (e + 1) - 1
      <4>1. k \in L + 1 .. M
        BY <1>12
      <4>2. was'[k] = (k - L) + p - 1
        BY <1>3, <4>1 DEF Grown
      <4>3. (k - L) + p - 1 \in f + 1 .. (e + 1) - 1
        <5>1. M = L + (q - p) + 1 /\ p = f - 1
          BY <1>6, <1>14
        <5> QED
          BY <1>12, <3>1, <5>1, SMTT(60)
      <4> QED
        BY <4>2, <4>3
    <3>6. M <= M /\ ~(M < M)
      OBVIOUS
    <3>7. g + out'[g].len = M
      BY <3>2, <3>3
    <3> QED
      BY <1>11, <1>13, <1>14, <2>2, <3>4, <3>5, <3>6, <3>7 DEF FramedAt
  <2>3. SUFFICES ASSUME NEW j \in DOMAIN out', out'[j].kind = "fields", j # at' \/ AtCopy'
                 PROVE  FramedAt(j)'
    BY Zenon DEF Framed
  <2>4. CASE j \in 1 .. L
    BY <2>1, <2>3, <2>4
  <2>5. CASE j \in L + 1 .. M
    <3>1. j = g /\ built[heads[n]].type # qtype
      BY <1>11, <1>13, <1>14, <2>3, <2>5
    <3> QED
      BY <2>2, <3>1
  <2> QED
    BY <1>14, <2>4, <2>5
<1>16. Counted'
  <2>1. IsFiniteSet(FieldsOut) /\ Cardinality(FieldsOut) \in Nat
    BY FieldsCount
  <2>2. Cardinality(FieldsOut') = Cardinality(FieldsOut) + 1
    BY <1>13, <2>1, FS_AddElement
  <2>3. Cardinality(FieldsOut) = i
    BY <1>11 DEF Whole, Counted
  <2> QED
    BY <1>2, <1>11, <2>2, <2>3 DEF Counted
<1>17. Starts' /\ Ends'
  BY <1>2, <1>11 DEF Starts, Ends
<1>18. Walks'
  <2>1. CASE built[heads[n]].type = qtype
    <3>1. pc' = "copyTarget" /\ i' + 1 = n /\ p' = heads[n] + 1 /\ end' = EndOf(n)
      BY <1>14, <2>1
    <3>2. EndOf(i + 1)' = EndOf(n)
      BY <1>10, <3>1 DEF EndOf
    <3>3. at' \in DOMAIN out' /\ was'[at'] = heads[n]
      BY <1>4, <1>12, <1>13, <1>14
    <3> QED
      BY <1>10, <1>11, <2>1, <3>1, <3>2, <3>3 DEF Walks
  <2>2. CASE built[heads[n]].type # qtype
    <3>1. pc' = "copy" /\ i' = n /\ n # 0 /\ p' = EndOf(n) + 1 /\ end' = EndOf(n)
      BY <1>1, <1>2, <1>14, <2>2
    <3>2. EndOf(i)' = EndOf(n)
      BY <1>10, <3>1 DEF EndOf
    <3> QED
      BY <3>1, <3>2 DEF Walks
  <2> QED
    BY <2>1, <2>2
<1> QED
  BY <1>9, <1>15, <1>16, <1>17, <1>18 DEF Whole

LEMMA RecordWhole ==
  ASSUME TInv, ~Damaged, Whole, CopyRecord
  PROVE  Whole'
<1>1. PICK n \in DOMAIN heads : RecordStep(n)
  BY WholeRecord DEF Whole
<1>2. n = i + 1 /\ p = heads[n] - 1 /\ pc = "copy" /\ UNCHANGED <<message, drop>>
  BY <1>1 DEF RecordStep, CopyRecord
<1>3. CASE Cuts(built[heads[n]].type) /\ Answer("copy") /\ UNCHANGED <<p, end, i, removed, out, was, at>>
  <2>1. built[heads[i + 1]].type # qtype /\ \E t \in DOMAIN removed : removed[t] > 0
    BY <1>2, <1>3 DEF Cuts
  <2>2. UNCHANGED <<message, drop, p, end, i, removed, out, was, at>>
    BY <1>2, <1>3
  <2> QED
    BY <1>2, <1>3, <2>1, <2>2, StopWhole
<1>4. CASE ~Cuts(built[heads[n]].type)
  <2>1. /\ Appends(IF built[heads[n]].type = qtype THEN heads[n] ELSE EndOf(n))
        /\ at' = Len(out) + 2 /\ end' = EndOf(n) /\ UNCHANGED <<removed, verdict>>
        /\ built[heads[n]].type = qtype => pc' = "copyTarget" /\ UNCHANGED i
        /\ built[heads[n]].type # qtype => i' = n /\ UNCHANGED pc
    BY <1>1, <1>4 DEF RecordStep
  <2>2. PICK q : q = (IF built[heads[n]].type = qtype THEN heads[n] ELSE EndOf(n))
    OBVIOUS
  <2>3. Appends(q)
    BY <2>1, <2>2
  <2> QED
    BY <1>2, <1>4, <2>1, <2>2, <2>3, RecordGrown
<1> QED
  BY <1>1, <1>3, <1>4 DEF RecordStep

LEMMA DoneWhole ==
  ASSUME TInv, ~Damaged, Whole, CopyDone
  PROVE  Whole'
<1>1. ~(i < answers)
  <2>1. i = answers /\ answers \in Nat
    BY CopyFacts DEF CopyDone
  <2> QED
    BY <2>1
<1>2. pc = "copy" /\ Answer("copy") /\ UNCHANGED <<message, drop, p, end, i, removed, out, was, at>>
  BY DEF CopyDone
<1> QED
  BY <1>1, <1>2, StopWhole

LEMMA QuestionWhole ==
  ASSUME TInv, ~Damaged, NEW d \in SUBSET Hints, CopyQuestion(d), parsed # "badQuestion"
  PROVE  Whole' /\ verdict' = verdict
<1>1. /\ pc = "drop" /\ drop' = d /\ p' = Len(Question) + 1 /\ out' = Question /\ was' = Positions(1, Len(Question))
      /\ removed' = [t \in 1 .. Len(wire) + 1 |-> 0] /\ pc' = "copy" /\ UNCHANGED <<end, i, at, verdict>>
      /\ UNCHANGED message
  BY DEF CopyQuestion, SendResult
<1>2. Got /\ AsBuilt /\ Len(wire) \in Nat /\ Len(wire) >= 4 /\ DOMAIN wire = 1 .. Len(wire)
  BY WholeFacts, GotFacts
<1>3. end = 0 /\ i = 0 /\ verdict = "none"
  BY <1>1 DEF TInv, Phases
<1>4. /\ p' = 5 /\ DOMAIN out' = 1 .. 4 /\ DOMAIN was' = 1 .. 4 /\ Len(was') = 4
      /\ \A m \in 1 .. 4 : was'[m] = m /\ out'[m] = Question[m]
  <2>1. Len(Question) = 4 /\ DOMAIN Question = 1 .. 4
    BY QuestionShape
  <2>2. Positions(1, 4) = [m \in 1 .. 4 |-> m]
    BY DEF Positions
  <2>3. was' = [m \in 1 .. 4 |-> m] /\ out' = Question /\ p' = 5
    BY <1>1, <2>1, <2>2
  <2>4. Len([m \in 1 .. 4 |-> m]) = 4
    OBVIOUS
  <2> QED
    BY <2>1, <2>3, <2>4
<1>5. \A m \in 1 .. 4 : wire[m] = Question[m] /\ out'[m].kind \notin {"pointer", "fields"}
  <2>1. \A m \in 1 .. 4 : wire[m] = Question[m]
    BY <1>2 DEF Got, BInv, WellBuilt, Opened
  <2> QED
    BY <1>4, <2>1, QuestionShape
<1>6. wire' = wire /\ built' = built /\ heads' = heads /\ qtype' = qtype
  BY <1>1 DEF message
<1>7. DOMAIN removed' = 1 .. Len(wire) + 1 /\ \A t \in 1 .. Len(wire) + 1 : removed'[t] = 0
  BY <1>1
<1>8. \A m \in 1 .. 4 : m \notin Unwanted'
  <2>1. ASSUME NEW m \in 1 .. 4, m \in Unwanted'
        PROVE  FALSE
    <3>1. PICK f \in DOMAIN wire, j \in DOMAIN wire :
             wire[f].kind = "fields" /\ f < j /\ m \in j .. j + wire[j].len
      BY <1>6, <2>1 DEF Unwanted
    <3>2. f \in 1 .. 4
      BY <1>2, <3>1
    <3> QED
      BY <1>5, <3>1, <3>2, QuestionShape
  <2> QED
    BY <2>1
<1>9. Accounted'
  <2>1. \A m \in 1 .. 4 : was'[m] < 5 /\ was'[m] \notin Unwanted'
    BY <1>4, <1>8
  <2>2. \A j, k \in 1 .. 4 : j < k => was'[j] < was'[k]
    BY <1>4
  <2>3. \A k \in DOMAIN wire : k < 5 => \E m \in 1 .. 4 : was'[m] = k
    BY <1>2, <1>4
  <2>4. \A m \in 1 .. 4 : out'[m].kind = wire[was'[m]].kind
    BY <1>4, <1>5
  <2> QED
    BY <1>4, <1>6, <2>1, <2>2, <2>3, <2>4 DEF Accounted
<1>10. Shifts'
  <2>1. \A t \in DOMAIN removed' : removed'[t] = p' - 1 - Len(was')
    BY <1>4, <1>7
  <2>2. \A m \in 1 .. 4 : m \in 1 .. Len(wire) + 1 /\ m - 0 = m
    BY <1>2
  <2>3. \A m \in DOMAIN was' : was'[m] - removed'[was'[m]] = m
    BY <1>4, <1>7, <2>2
  <2> QED
    BY <2>1, <2>3 DEF Shifts, Moved
<1>11. Names' /\ Losses'
  <2>1. Names'
    BY <1>4, <1>5 DEF Names
  <2>2. Losses'
    BY <1>7 DEF Losses
  <2> QED
    BY <2>1, <2>2
<1>12. AtCopy' /\ ~Copied'
  BY <1>1, <1>3 DEF AtCopy, Copied
<1>13. Framed'
  <2>1. \A j \in DOMAIN out' : out'[j].kind # "fields"
    BY <1>4, <1>5
  <2> QED
    BY <2>1 DEF Framed
<1>14. Counted'
  <2>1. FieldsOut' = {}
    BY <1>4, <1>5 DEF FieldsOut
  <2>2. Cardinality(FieldsOut') = 0
    BY <2>1, FS_EmptySet
  <2> QED
    BY <1>1, <1>3, <1>12, <2>2 DEF Counted
<1>15. Starts' /\ Ends'
  BY <1>7, <1>12 DEF Starts, Ends
<1>16. Walks'
  BY <1>1, <1>3, <1>4 DEF Walks
<1> QED
  BY <1>1, <1>9, <1>10, <1>11, <1>13, <1>14, <1>15, <1>16 DEF Whole, Kept

LEMMA StillWhole ==
  ASSUME UNCHANGED vars, Whole
  PROVE  Whole'
<1>1. UNCHANGED <<p, end, i, removed, out, was, at, verdict, pc>> /\ UNCHANGED <<message, drop>>
  BY DEF vars, work
<1>2. wire' = wire /\ Unwanted' = Unwanted /\ built' = built /\ heads' = heads /\ qtype' = qtype /\ answers' = answers
      /\ Damaged' = Damaged
  BY <1>1, StillThere
<1>3. Copied' = Copied /\ AtCopy' = AtCopy
  BY <1>1, <1>2 DEF Copied, AtCopy
<1>4. \A k : EndOf(k)' = EndOf(k)
  BY <1>2 DEF EndOf
<1>5. Walks'
  BY <1>1, <1>2, <1>3, <1>4 DEF Whole, Walks
<1>6. Kept'
  BY <1>1, <1>2 DEF Whole, Kept, Accounted, Shifts, Moved, Names, Losses
<1>7. Framed'
  <2>1. \A j : Behind(j)' = Behind(j)
    BY <1>1, <1>2 DEF Behind
  <2>2. \A j : FramedAt(j) => FramedAt(j)'
    BY <1>1, <1>3, <2>1, Zenon DEF FramedAt
  <2>3. SUFFICES ASSUME NEW j \in DOMAIN out', out'[j].kind = "fields", j # at' \/ AtCopy'
                 PROVE  FramedAt(j)'
    BY Zenon DEF Framed
  <2>4. j \in DOMAIN out /\ out[j].kind = "fields" /\ (j # at \/ AtCopy)
    BY <1>1, <1>3, <2>3
  <2> QED
    BY <2>2, <2>4 DEF Whole, Framed
<1>8. Counted'
  <2>1. FieldsOut' = FieldsOut
    BY <1>1 DEF FieldsOut
  <2> QED
    BY <1>1, <1>3, <2>1 DEF Whole, Counted
<1>9. Starts' /\ Ends'
  BY <1>1, <1>2, <1>3 DEF Whole, Starts, Ends
<1> QED
  BY <1>5, <1>6, <1>7, <1>8, <1>9 DEF Whole

(* So it is from the question on, and nothing is kept back.                *)
CopyInv == ~Damaged /\ (Copying \/ Copied) => Whole

Delivered == ~Damaged => verdict # "nothing"

LEMMA DropWhole ==
  ASSUME TInv, ~Damaged, CopyInv, DropAddress
  PROVE  Whole' /\ verdict' # "nothing"
<1>1. Copying
  BY DEF DropAddress, CopyRecord, CopyTarget, CopyParam, EndRecord, CopyDone, Copying
<1>2. Whole /\ Walks
  BY <1>1 DEF CopyInv, Whole
<1>3. verdict = "none"
  BY <1>1 DEF TInv, Phases, Copying
<1>4. CASE CopyRecord
  <2>1. verdict' # "nothing"
    <3>1. PICK n \in DOMAIN heads : RecordStep(n)
      BY <1>2, <1>4, WholeRecord
    <3> QED
      BY <1>3, <3>1 DEF RecordStep, Answer
  <2> QED
    BY <1>2, <1>4, <2>1, RecordWhole
<1>5. CASE CopyTarget
  <2>1. verdict' # "nothing"
    <3>1. PICK n \in DOMAIN heads : \E e \in heads[n] + 2 .. EndOf(n) : TargetStep(n, e)
      BY <1>2, <1>5, WholeTarget
    <3> QED
      BY <1>3, <3>1 DEF TargetStep
  <2> QED
    BY <1>2, <1>5, <2>1, TargetWhole
<1>6. CASE CopyParam
  <2>1. verdict' # "nothing"
    <3>1. PICK n \in DOMAIN heads : \E q \in Nat : ParamStep(n, q)
      BY <1>2, <1>6, WholeParam
    <3> QED
      BY <1>3, <3>1 DEF ParamStep
  <2> QED
    BY <1>2, <1>6, <2>1, ParamWhole
<1>7. CASE EndRecord
  BY <1>2, <1>3, <1>7, EndRecordWhole DEF EndRecord
<1>8. CASE CopyDone
  BY <1>2, <1>8, DoneWhole DEF CopyDone, Answer
<1> QED
  BY <1>4, <1>5, <1>6, <1>7, <1>8, SMTT(60) DEF DropAddress

(* The invariant that the five theorems rest on                            *)
WInv == TInv /\ Reads /\ Understood /\ CopyInv /\ Delivered

(* DropAddress accounts, at each step, for what it has copied and left out *)
(* of an answer that is as it was built, and never gives up on it.         *)
THEOREM WholeKept == WInv /\ [Next]_vars => CopyInv' /\ Delivered'
<1> SUFFICES ASSUME TInv, Reads, Understood, CopyInv, Delivered, [Next]_vars
             PROVE  CopyInv' /\ Delivered'
  BY DEF WInv
<1>1. CASE UNCHANGED vars
  <2>1. Damaged' = Damaged /\ pc' = pc /\ verdict' = verdict /\ qtype' = qtype
    <3>1. UNCHANGED <<message, drop>> /\ pc' = pc /\ verdict' = verdict
      BY <1>1 DEF vars, work
    <3> QED
      BY <3>1, StillThere
  <2>2. Copied' = Copied /\ Copying' = Copying
    BY <2>1 DEF Copied, Copying
  <2> QED
    BY <1>1, <2>1, <2>2, StillWhole DEF CopyInv, Delivered
<1>2. ASSUME verdict' = "none", pc' \notin {"copy", "copyTarget", "copyParam"}
      PROVE  CopyInv' /\ Delivered'
  BY <1>2 DEF CopyInv, Delivered, Copying, Copied
<1>3. CASE Receive
  <2>1. pc = "build" /\ verdict' = verdict /\ pc' \in {"build", "question"}
    BY <1>3 DEF Receive, Build, AddRecord, AddParam, AddExtra, SendWhole, SendDamaged, Send, work
  <2> QED
    BY <1>2, <2>1 DEF TInv, Phases
<1>4. CASE ParseResponseA
  <2>1. pc \in {"question", "record", "target", "param"} /\ verdict' = verdict
    BY <1>4 DEF ParseResponseA, ParseQuestion, ParseRecord, ParseTarget, ParseParam, ParamsParsed, ParseDone
  <2>2. verdict' = "none"
    BY <2>1 DEF TInv, Phases
  <2>3. pc' \in {"question", "record", "target", "param", "drop"}
    <3>1. TInv'
      BY <1>4, ParseTypes
    <3>2. pc' \notin {"copy", "copyTarget", "copyParam", "done"}
      BY <1>4, <2>1 DEF ParseResponseA, ParseQuestion, ParseRecord, ParseTarget, ParseParam, ParamsParsed, ParseDone,
        ParseEnds, NextRecord
    <3>3. pc' \in {"build", "question", "record", "target", "param", "drop",
             "copy", "copyTarget", "copyParam", "done"}
      BY <3>1 DEF TInv, TypeOK
    <3>4. pc' # "build"
      BY <1>4, <2>1 DEF ParseResponseA, ParseQuestion, ParseRecord, ParseTarget, ParseParam, ParamsParsed, ParseDone,
        ParseEnds, NextRecord
    <3> QED
      BY <3>2, <3>3, <3>4
  <2> QED
    BY <1>2, <2>2, <2>3
<1>5. ASSUME NEW d \in SUBSET Hints, SendAsIs(d)
      PROVE  CopyInv' /\ Delivered'
  <2>1. verdict' = "answer" /\ pc' = "done"
    BY <1>5 DEF SendAsIs, Answer
  <2> QED
    BY <2>1 DEF CopyInv, Delivered, Copying, Copied
<1>6. ASSUME NEW d \in SUBSET Hints, EmptyResponse(d)
      PROVE  CopyInv' /\ Delivered'
  <2>1. UNCHANGED message /\ pc' = "done" /\ qtype # "SVCB" /\ (parsed # "badQuestion" => verdict' = "copy")
    BY <1>6 DEF EmptyResponse, Refuse, Answer
  <2>2. qtype' = qtype /\ Damaged' = Damaged
    BY <2>1 DEF message, Damaged
  <2> QED
    BY <2>1, <2>2 DEF CopyInv, Delivered, Copying, Copied, Understood
<1>7. ASSUME NEW d \in SUBSET Hints, CopyQuestion(d)
      PROVE  CopyInv' /\ Delivered'
  <2>1. Damaged' = Damaged
    BY <1>7 DEF CopyQuestion, message, Damaged
  <2>2. SUFFICES ASSUME ~Damaged
                 PROVE  Whole' /\ verdict' # "nothing"
    BY <2>1 DEF CopyInv, Delivered
  <2>3. parsed # "badQuestion" /\ verdict = "none"
    BY <1>7, <2>2 DEF Understood, TInv, Phases, CopyQuestion, SendResult
  <2> QED
    BY <1>7, <2>2, <2>3, QuestionWhole
<1>8. CASE DropAddress
  <2>1. Damaged' = Damaged
    BY <1>8 DEF DropAddress, CopyRecord, CopyTarget, CopyParam, EndRecord, CopyDone, message, Damaged
  <2>2. SUFFICES ASSUME ~Damaged
                 PROVE  Whole' /\ verdict' # "nothing"
    BY <2>1 DEF CopyInv, Delivered
  <2> QED
    BY <1>8, <2>2, DropWhole
<1> QED
  BY <1>1, <1>3, <1>4, <1>5, <1>6, <1>7, <1>8 DEF Next

(* All of this holds in every state.                                       *)
THEOREM WholeInvariant == Spec => []WInv
<1>1. Init => WInv
  <2>1. Init => TInv
    BY InitTypes
  <2>2. Init => Reads /\ Understood /\ Delivered
    BY DEF Init, WireInit, Reads, Understood, Delivered
  <2>3. Init => CopyInv
    BY DEF Init, WireInit, CopyInv, Copying, Copied
  <2> QED
    BY <2>1, <2>2, <2>3 DEF WInv
<1>2. WInv /\ [Next]_vars => WInv'
  <2> SUFFICES ASSUME WInv, [Next]_vars PROVE WInv'
    OBVIOUS
  <2>1. TInv /\ Reads /\ Understood
    BY DEF WInv
  <2> QED
    BY <2>1, TypesKept, ReadsKept, UnderstoodKept, WholeKept DEF WInv
<1> QED
  BY <1>1, <1>2, PTL DEF Spec

(* An answer that is as the upstream built it is never kept back, and is   *)
(* understood unless it has a type that is not expected, however many      *)
(* records and parameters it has.                                          *)
THEOREM WholePasses == Spec => []WholeIsPassedOn
<1>1. WInv => WholeIsPassedOn
  <2> SUFFICES ASSUME WInv, ~Damaged
               PROVE  verdict # "nothing" /\ (parsed \in {"none", "whole"} \/ \E n \in DOMAIN heads : built[heads[n]].type = "TXT")
    BY DEF WholeIsPassedOn
  <2>1. parsed \in {"none", "whole", "badRecords", "badQuestion"}
    BY DEF WInv, TInv, TypeOK
  <2>2. parsed # "badQuestion" /\ (parsed = "badRecords" => \E n \in DOMAIN heads : built[heads[n]].type = "TXT")
    BY DEF WInv, Understood
  <2>3. verdict # "nothing"
    BY DEF WInv, Delivered
  <2> QED
    BY <2>1, <2>2, <2>3
<1> QED
  BY <1>1, WholeInvariant, PTL

LEMMA CopiedFacts ==
  ASSUME WInv, Copied
  PROVE  TInv /\ ~Damaged /\ Whole /\ AtCopy
BY DEF WInv, CopyInv, Copied, AtCopy

(* Each pointer of the copy leads to the name it led to, wherever          *)
(* parameters have been removed: before it, behind it, or between it and   *)
(* its target.                                                             *)
THEOREM PointersLead == Spec => []NamesKept
<1>1. WInv => NamesKept
  BY CopiedFacts DEF NamesKept, Whole, Kept, Names
<1> QED
  BY <1>1, WholeInvariant, PTL

(* The lengths in the copy lead a reader from each record to the next.     *)
THEOREM RecordsFollow == Spec => []StaysFramed
<1>1. WInv => StaysFramed
  <2> SUFFICES ASSUME WInv, Copied, NEW j \in DOMAIN out, out[j].kind = "fields"
               PROVE  LET next == was[j] + wire[was[j]].len + 1
                      IN  /\ j + out[j].len <= Len(out)
                          /\ j + out[j].len < Len(out) => was[j + out[j].len + 1] = next
                          /\ \A k \in j + 1 .. j + out[j].len : was[k] \in was[j] + 1 .. next - 1
    BY DEF StaysFramed
  <2>1. FramedAt(j)
    BY CopiedFacts DEF Whole, Framed
  <2> QED
    BY <2>1 DEF FramedAt, Behind
<1> QED
  BY <1>1, WholeInvariant, PTL

(* Of the records that are copied all is there, once and in order, but the *)
(* parameters to drop, and none of those.                                  *)
THEOREM HintsGo == Spec => []OnlyHintsGo
<1>1. WInv => OnlyHintsGo
  <2> SUFFICES ASSUME WInv, Copied
               PROVE  /\ ToSet(was) = (1 .. IF i = 0 THEN Len(Question) ELSE end) \ Unwanted
                      /\ \A j, k \in DOMAIN was : j < k => was[j] < was[k]
                      /\ Cardinality({j \in DOMAIN out : out[j].kind = "fields"}) = i
    BY DEF OnlyHintsGo
  <2>1. TInv /\ Whole /\ AtCopy
    BY CopiedFacts
  <2>2. PICK e : e = (IF i = 0 THEN 4 ELSE end)
    OBVIOUS
  <2>3. p = e + 1 /\ e \in 0 .. Len(wire) /\ Len(wire) \in Nat /\ DOMAIN wire = 1 .. Len(wire)
    <3>1. p \in 1 .. Len(wire) + 1 /\ end \in 0 .. Len(wire) /\ Len(wire) \in Nat /\ DOMAIN wire = 1 .. Len(wire)
      BY <2>1, CopyFacts
    <3>2. p = (IF i = 0 THEN 4 ELSE EndOf(i)) + 1 /\ end = (IF i = 0 THEN 0 ELSE EndOf(i))
      BY <2>1 DEF Whole, Walks
    <3>3. p = e + 1
      BY <2>2, <3>2
    <3>4. e \in Int
      BY <2>2, <3>1
    <3> QED
      BY <3>1, <3>3, <3>4
  <2>4. ToSet(was) = 1 .. e \ Unwanted
    <3>1. \A m \in DOMAIN was : was[m] \in DOMAIN wire
      <4>1. was \in Seq(DOMAIN wire)
        BY <2>1, CopyFacts
      <4> QED
        BY <4>1
    <3>2. ASSUME NEW m \in DOMAIN was
          PROVE  was[m] \in 1 .. e \ Unwanted
      <4>1. was[m] < p /\ was[m] \notin Unwanted
        BY <2>1 DEF Whole, Kept, Accounted
      <4> QED
        BY <2>3, <3>1, <4>1
    <3>3. ASSUME NEW k \in 1 .. e \ Unwanted
          PROVE  \E m \in DOMAIN was : was[m] = k
      <4>1. k \in DOMAIN wire /\ k < p
        BY <2>3
      <4> QED
        BY <2>1, <4>1 DEF Whole, Kept, Accounted
    <3> QED
      BY <3>2, <3>3 DEF ToSet
  <2>5. \A j, k \in DOMAIN was : j < k => was[j] < was[k]
    BY <2>1 DEF Whole, Kept, Accounted
  <2>6. Cardinality({j \in DOMAIN out : out[j].kind = "fields"}) = i
    BY <2>1 DEF Whole, Counted, FieldsOut
  <2> QED
    BY <2>2, <2>4, <2>5, <2>6, QuestionShape
<1> QED
  BY <1>1, WholeInvariant, PTL

(* Records are left out of the copy only from a record of another type on, *)
(* and only behind a parameter that has been removed.                      *)
THEOREM CutsAreDue == Spec => []CutAtAnotherType
<1>1. WInv => CutAtAnotherType
  <2> SUFFICES ASSUME WInv, Copied, i < answers
               PROVE  \E f \in end + 1 .. Len(wire) :
                        /\ f - 1 \in NameEnds(end + 1)
                        /\ wire[f].type # qtype
                        /\ \E k \in Unwanted : k < f
    BY DEF CutAtAnotherType
  <2>1. TInv /\ ~Damaged /\ Whole /\ AtCopy /\ Walks
    BY CopiedFacts DEF Whole
  <2>2. built[heads[i + 1]].type # qtype /\ \E t \in DOMAIN removed : removed[t] > 0
    BY <2>1 DEF Whole, Ends
  <2>3. i # 0
    BY <2>1, <2>2 DEF Whole, Starts
  <2>4. PICK n : n = i + 1
    OBVIOUS
  <2>5. Got /\ AsBuilt /\ n \in DOMAIN heads /\ p = heads[n] - 1
    BY <2>1, <2>4, WholeFacts, WholeNext
  <2>6. p = end + 1 /\ p \in Nat /\ end \in Nat
    <3>1. p = EndOf(i) + 1 /\ end = EndOf(i)
      BY <2>1, <2>3 DEF Walks
    <3>2. p \in 1 .. Len(wire) + 1 /\ end \in 0 .. Len(wire) /\ Len(wire) \in Nat
      BY <2>1, CopyFacts
    <3> QED
      BY <3>1, <3>2
  <2>7. PICK f \in DOMAIN wire : f = heads[n] /\ f \in Nat
    BY <2>5, HeadIs, GotFacts
  <2>8. f \in end + 1 .. Len(wire) /\ f - 1 = end + 1
    <3>1. DOMAIN wire = 1 .. Len(wire)
      BY <2>5, GotFacts
    <3> QED
      BY <2>5, <2>6, <2>7, <3>1
  <2>9. f - 1 \in NameEnds(end + 1)
    <3>1. f - 1 \in NameEnds(f - 1)
      BY <2>5, <2>7, OwnerEnds
    <3> QED
      BY <2>8, <3>1
  <2>10. PICK k \in Unwanted : k < p
    BY <2>1, <2>2 DEF Whole, Kept, Losses
  <2>11. k < f
    <3>1. k \in Nat
      BY <2>5, GotFacts DEF Unwanted
    <3> QED
      BY <2>5, <2>6, <2>7, <2>10, <3>1
  <2>12. wire[f] = built[f]
    BY <2>5, <2>7, GotFacts
  <2> QED
    BY <2>2, <2>4, <2>7, <2>8, <2>9, <2>11, <2>12
<1> QED
  BY <1>1, WholeInvariant, PTL
===============================================================================
