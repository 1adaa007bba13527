------------------------------- MODULE Rfc1035 -------------------------------
(***************************************************************************)
(* What becomes of an answer on its way to the client: ParseResponseA      *)
(* collects the addresses a zone is judged by, and DropAddress takes those *)
(* out that the zone's dropIPv4 and dropIPv6 forbid, moving what follows.  *)
(* A step is one record, or one SvcParam.  "SVCB" as the type asked for    *)
(* stands for either of SVCB and HTTPS, "HTTPS" then for the other one.    *)
(* The class is IN.                                                        *)
(***************************************************************************)
EXTENDS Wire

VARIABLES
  drop,      \* the keys to drop: bDropIPv4 and bDropIPv6 of the zone that won
  p, end,    \* the offset; the last cell of the record
  i,         \* records done
  found,     \* luIPs and luIP6s: the cells whose addresses were collected
  parsed,    \* how ParseResponseA went
  removed,   \* vRemoved: of each offset, the cells that are taken out before it
  out, was,  \* sOut; where each of its cells stood in wire (history)
  at,        \* where sOut has the fields of the record (lenpos)
  verdict    \* what the client gets: nothing, the answer, or the copy

work == <<p, end, i, found, parsed, removed, out, was, at, verdict>>
message == <<qtype, built, heads, behind, wire>>
vars == <<pc, message, drop, work>>

Hints == {"ipv4hint", "ipv6hint"}

Init ==
  /\ WireInit
  /\ drop = {}
  /\ p = 1 /\ end = 0 /\ i = 0
  /\ found = {} /\ parsed = "none"
  /\ removed = <<>> /\ out = <<>> /\ was = <<>> /\ at = 0
  /\ verdict = "none"

Receive == Build /\ UNCHANGED <<drop, work>>
-------------------------------------------------------------------------------
(* Names                                                                   *)

(* The last cell of the name at k, if it has one: SkipBufferName           *)
NameEnds(k) ==
  {e \in k .. Len(wire) :
     /\ wire[e].kind \in {"root", "pointer"}
     /\ \A j \in k .. e - 1 : wire[j].kind = "label"}

(* Where the cell at t has gone: CopyName's arithmetic                     *)
Moved(t) == t - removed[t]

(* Cells j to k as CopyName copies a name                                  *)
NameCopy(j, k) ==
  [n \in 1 .. k - j + 1 |->
     LET c == wire[j + n - 1] IN IF c.kind = "pointer" THEN Pointer(Moved(c.to)) ELSE c]

Positions(j, k) == [n \in 1 .. k - j + 1 |-> j + n - 1]
-------------------------------------------------------------------------------
(* ParseResponseA                                                          *)

ParseEnds(how) ==
  /\ parsed' = how
  /\ pc' = "drop"
  /\ p' = 1 /\ end' = 0 /\ i' = 0

(* ParseRequestAAndAnswers                                                 *)
ParseQuestion ==
  /\ pc = "question"
  /\ IF Len(wire) < Len(Question)
     THEN ParseEnds("badQuestion")
     ELSE /\ p' = Len(Question) + 1
          /\ pc' = "record"
          /\ UNCHANGED <<end, i, parsed>>
  /\ UNCHANGED <<message, drop, found, removed, out, was, at, verdict>>

NextRecord(k) == p' = k + 1 /\ end' = k /\ i' = i + 1 /\ pc' = "record"

(* A record without data is skipped, whatever its type; one of a type that *)
(* is not expected ends the parsing.                                       *)
ParseRecord ==
  /\ pc = "record" /\ i < answers
  /\ IF \E f \in DOMAIN wire : f - 1 \in NameEnds(p) /\ f + wire[f].len <= Len(wire)
     THEN LET f    == CHOOSE f \in DOMAIN wire : f - 1 \in NameEnds(p)
              last == f + wire[f].len
              type == wire[f].type
          IN  CASE wire[f].len = 0 \/ type = "CNAME" ->
                     NextRecord(last) /\ UNCHANGED <<found, parsed>>
                [] wire[f].len > 0 /\ type \in {"A", "AAAA"} ->
                     /\ NextRecord(last)
                     /\ found' = IF wire[f].len = 1 THEN found \cup {last} ELSE found
                     /\ UNCHANGED parsed
                [] wire[f].len > 0 /\ type \in {"SVCB", "HTTPS"} ->
                     /\ p' = f + 1 /\ end' = last /\ pc' = "target"
                     /\ UNCHANGED <<i, found, parsed>>
                [] OTHER ->
                     ParseEnds("badRecords") /\ UNCHANGED found
     ELSE ParseEnds("badRecords") /\ UNCHANGED found
  /\ UNCHANGED <<message, drop, removed, out, was, at, verdict>>

(* ParseSvcParamHint begins: SvcPriority and TargetName, within the data   *)
ParseTarget ==
  /\ pc = "target"
  /\ IF \E e \in NameEnds(p + 1) : e <= end
     THEN /\ \E e \in NameEnds(p + 1) : p' = e + 1
          /\ pc' = "param"
          /\ UNCHANGED <<end, i, parsed>>
     ELSE ParseEnds("badRecords")
  /\ UNCHANGED <<message, drop, found, removed, out, was, at, verdict>>

(* As much is left as a key and a length.                                  *)
ParamAhead == p <= end /\ wire[p].kind # "stub"

(* Slip: a value is read without looking how much is left.                 *)
ParseParamUnchecked ==
  /\ pc = "param" /\ ParamAhead
  /\ found' = IF wire[p].type \in Hints THEN found \cup (p + 1 .. p + wire[p].len) ELSE found
  /\ p' = p + 1 + wire[p].len
  /\ UNCHANGED <<pc, end, i, parsed, message, drop, removed, out, was, at, verdict>>

(* Slip: the reader of the first hint is used again, at its end.           *)
ParseParamOneReader ==
  /\ pc = "param" /\ ParamAhead
  /\ IF p + wire[p].len <= end
     THEN /\ found' = IF wire[p].type \in Hints /\ found = {}
                      THEN found \cup (p + 1 .. p + wire[p].len) ELSE found
          /\ p' = p + 1 + wire[p].len
          /\ UNCHANGED <<pc, end, i, parsed>>
     ELSE ParseEnds("badRecords") /\ UNCHANGED found
  /\ UNCHANGED <<message, drop, removed, out, was, at, verdict>>

ParseParam ==
  /\ pc = "param" /\ ParamAhead
  /\ IF p + wire[p].len <= end
     THEN /\ found' = IF wire[p].type \in Hints THEN found \cup (p + 1 .. p + wire[p].len) ELSE found
          /\ p' = p + 1 + wire[p].len
          /\ UNCHANGED <<pc, end, i, parsed>>
     ELSE ParseEnds("badRecords") /\ UNCHANGED found
  /\ UNCHANGED <<message, drop, removed, out, was, at, verdict>>

ParamsParsed ==
  /\ pc = "param" /\ ~ParamAhead
  /\ NextRecord(end)
  /\ UNCHANGED <<message, drop, found, parsed, removed, out, was, at, verdict>>

ParseDone ==
  /\ pc = "record" /\ i = answers
  /\ ParseEnds("whole")
  /\ UNCHANGED <<message, drop, found, removed, out, was, at, verdict>>

ParseResponseA ==
  ParseQuestion \/ ParseRecord \/ ParseTarget \/ ParseParam \/ ParamsParsed \/ ParseDone
-------------------------------------------------------------------------------
(* SendResult and DropAddress                                              *)

Answer(v) == verdict' = v /\ pc' = "done"

Refuse == Answer("nothing") /\ UNCHANGED <<p, end, i, removed, out, was, at>>

(* The answer of a zone with these settings is to be given.                *)
SendResult(d) == pc = "drop" /\ drop' = d

(* Nothing to drop, or a type without addresses: the client gets all that  *)
(* was received, the sections behind the answers too.                      *)
SendAsIs(d) ==
  /\ SendResult(d)
  /\ \/ d = {}
     \/ qtype = "A" /\ "ipv4hint" \notin d
     \/ qtype = "AAAA" /\ "ipv6hint" \notin d
     \/ qtype = "OTHER"
  /\ Answer("answer")
  /\ UNCHANGED <<message, p, end, i, found, parsed, removed, out, was, at>>

EmptyResponse(d) ==
  /\ SendResult(d)
  /\ (qtype = "A" /\ "ipv4hint" \in d) \/ (qtype = "AAAA" /\ "ipv6hint" \in d)
  /\ IF parsed = "badQuestion"
     THEN Refuse
     ELSE /\ out' = Question /\ was' = Positions(1, Len(Question))
          /\ Answer("copy")
          /\ UNCHANGED <<p, end, i, removed, at>>
  /\ UNCHANGED <<message, found, parsed>>

CopyQuestion(d) ==
  /\ SendResult(d)
  /\ qtype = "SVCB" /\ d # {}
  /\ IF parsed = "badQuestion"
     THEN Refuse
     ELSE /\ p' = Len(Question) + 1
          /\ out' = Question /\ was' = Positions(1, Len(Question))
          /\ removed' = [t \in 1 .. Len(wire) + 1 |-> 0]
          /\ pc' = "copy"
          /\ UNCHANGED <<end, i, at, verdict>>
  /\ UNCHANGED <<message, found, parsed>>

(* Slip: a record of another type never ends the copying.                  *)
CutsNever(type) == FALSE

(* Slip: a record of another type ends it, removed or not.                 *)
CutsAlways(type) == type # qtype

(* Names within the data of another type could not be moved.               *)
Cuts(type) == type # qtype /\ \E t \in DOMAIN removed : removed[t] > 0

(* What is copied of a record whose fields are at f: its owner, the fields *)
(* and, if it is of another type, its data                                 *)
CopyRecord ==
  /\ pc = "copy" /\ i < answers
  /\ \/ /\ ~\E f \in DOMAIN wire : f - 1 \in NameEnds(p)
        /\ Refuse
     \/ \E f \in DOMAIN wire :
          LET type == wire[f].type
              last == f + wire[f].len
          IN  /\ f - 1 \in NameEnds(p)
              /\ IF Cuts(type)
                 THEN Answer("copy") /\ UNCHANGED <<p, end, i, removed, out, was, at>>
                 ELSE IF last > Len(wire)
                 THEN Refuse
                 ELSE LET own == IF type = qtype THEN f ELSE last
                      IN  /\ out' = out \o NameCopy(p, f - 1) \o SubSeq(wire, f, own)
                          /\ was' = was \o Positions(p, own)
                          /\ at' = Len(out) + (f - p) + 1
                          /\ end' = last
                          /\ IF type = qtype
                             THEN p' = f + 1 /\ pc' = "copyTarget" /\ UNCHANGED i
                             ELSE p' = last + 1 /\ i' = i + 1 /\ UNCHANGED pc
                          /\ UNCHANGED <<removed, verdict>>
  /\ UNCHANGED <<message, drop, found, parsed>>

CopyTarget ==
  /\ pc = "copyTarget"
  /\ IF \E e \in NameEnds(p + 1) : p <= end /\ e <= end
     THEN \E e \in NameEnds(p + 1) :
            /\ out' = out \o <<wire[p]>> \o NameCopy(p + 1, e)
            /\ was' = was \o Positions(p, e)
            /\ p' = e + 1
            /\ pc' = "copyParam"
            /\ UNCHANGED <<end, i, removed, at, verdict>>
     ELSE Refuse
  /\ UNCHANGED <<message, drop, found, parsed>>

(* Slip: one flag drops the hints of both families.                        *)
DropsBoth(key) == key \in Hints /\ drop # {}

Drops(key) == key \in drop

(* Slip: a parameter that ends with the record is taken for too long.      *)
FitsBefore(k) == k < end

Fits(k) == k <= end

CopyParam ==
  /\ pc = "copyParam" /\ p <= end
  /\ LET last == p + wire[p].len IN
       IF wire[p].kind = "stub" \/ ~Fits(last)
       THEN Refuse
       ELSE /\ IF Drops(wire[p].type)
               THEN /\ removed' = [t \in DOMAIN removed |->
                                    removed[t] + IF p < t THEN wire[p].len + 1 ELSE 0]
                    /\ UNCHANGED <<out, was>>
               ELSE /\ out' = out \o SubSeq(wire, p, last)
                    /\ was' = was \o Positions(p, last)
                    /\ UNCHANGED removed
            /\ p' = last + 1
            /\ UNCHANGED <<pc, end, i, at, verdict>>
  /\ UNCHANGED <<message, drop, found, parsed>>

(* Slip: the record keeps the length it had.                               *)
EndRecordKeepsLength ==
  /\ pc = "copyParam" /\ p > end
  /\ i' = i + 1
  /\ pc' = "copy"
  /\ UNCHANGED <<message, drop, p, end, found, parsed, removed, out, was, at, verdict>>

(* The length of the data is written over the fields.                      *)
EndRecord ==
  /\ pc = "copyParam" /\ p > end
  /\ out' = [out EXCEPT ![at].len = Len(out) - at]
  /\ i' = i + 1
  /\ pc' = "copy"
  /\ UNCHANGED <<message, drop, p, end, found, parsed, removed, was, at, verdict>>

CopyDone ==
  /\ pc = "copy" /\ i = answers
  /\ Answer("copy")
  /\ UNCHANGED <<message, drop, p, end, i, found, parsed, removed, out, was, at>>

DropAddress == CopyRecord \/ CopyTarget \/ CopyParam \/ EndRecord \/ CopyDone

Next ==
  \/ Receive
  \/ ParseResponseA
  \/ \E d \in SUBSET Hints : SendAsIs(d) \/ EmptyResponse(d) \/ CopyQuestion(d)
  \/ DropAddress

Spec == Init /\ [][Next]_vars
-------------------------------------------------------------------------------
(* A pointer that is moved                                                 *)
Copies == [kind : Kinds, type : Marks, to : Int, len : Nat]

TypeOK ==
  /\ pc \in {"build", "question", "record", "target", "param", "drop",
             "copy", "copyTarget", "copyParam", "done"}
  /\ qtype \in QTypes /\ built \in Seq(Cells) /\ heads \in Seq(Nat)
  /\ behind \in Seq(Cells) /\ wire \in Seq(Cells)
  /\ drop \subseteq Hints
  /\ p \in 1 .. Len(wire) + 1 /\ end \in 0 .. Len(wire) /\ i \in 0 .. answers
  /\ found \subseteq DOMAIN wire
  /\ parsed \in {"none", "whole", "badRecords", "badQuestion"}
  /\ removed \in [DOMAIN removed -> Nat] /\ (DOMAIN removed = {} \/ DOMAIN removed = 1 .. Len(wire) + 1)
  /\ out \in Seq(Copies) /\ was \in Seq(DOMAIN wire) /\ Len(was) = Len(out)
  /\ at \in 0 .. Len(out)
  /\ verdict \in {"none", "nothing", "answer", "copy"}

Copied == verdict = "copy" /\ qtype = "SVCB" /\ ~Damaged

(* Every compression pointer of the copy, its own or within the data of    *)
(* another type, leads to the name it led to in the answer, however many   *)
(* parameters have been removed before it, after its target or between.    *)
NamesKept ==
  Copied => \A j \in DOMAIN out : out[j].kind = "pointer" =>
    out[j].to \in DOMAIN out /\ was[out[j].to] = wire[was[j]].to

(* A reader of the copy that goes from record to record by their lengths   *)
(* comes to the same records as a reader of the answer.                    *)
StaysFramed ==
  Copied => \A j \in DOMAIN out : out[j].kind = "fields" =>
    LET next == was[j] + wire[was[j]].len + 1
    IN  /\ j + out[j].len <= Len(out)
        /\ j + out[j].len < Len(out) => was[j + out[j].len + 1] = next
        /\ \A k \in j + 1 .. j + out[j].len : was[k] \in was[j] + 1 .. next - 1

(* The cells of the answer that belong to a SvcParam to be dropped, of a   *)
(* record of the type asked for                                            *)
Unwanted ==
  {k \in DOMAIN wire : \E f \in DOMAIN wire, j \in DOMAIN wire :
     /\ wire[f].kind = "fields" /\ wire[f].type = qtype
     /\ wire[j].kind = "param" /\ wire[j].type \in drop
     /\ f < j /\ j <= f + wire[f].len
     /\ k \in j .. j + wire[j].len}

(* README: SVCB and HTTPS answers "lose only" the hints.  Of the answer    *)
(* records that are copied everything is there but the hints, once and in  *)
(* order; the sections behind the answers are gone, as a comment in        *)
(* DropAddress has it.                                                     *)
OnlyHintsGo ==
  Copied => /\ ToSet(was) = (1 .. IF i = 0 THEN Len(Question) ELSE end) \ Unwanted
            /\ \A j, k \in DOMAIN was : j < k => was[j] < was[k]
            /\ Cardinality({j \in DOMAIN out : out[j].kind = "fields"}) = i

(* Records are left out only behind a record that lost a hint, from one of *)
(* another type on; so an answer with records of the type asked for at its *)
(* end (after the chain of CNAME) loses none of them.                      *)
CutAtAnotherType ==
  Copied /\ i < answers =>
    \E f \in end + 1 .. Len(wire) :
      /\ f - 1 \in NameEnds(end + 1)
      /\ wire[f].type # qtype
      /\ \E k \in Unwanted : k < f

(* An answer that is as the upstream built it is never kept back, and is   *)
(* understood if the types of its answer records are expected, whatever    *)
(* stands behind them.                                                     *)
WholeIsPassedOn ==
  ~Damaged =>
    /\ verdict # "nothing"
    /\ parsed \in {"none", "whole"} \/ \E n \in DOMAIN heads : built[heads[n]].type = "TXT"

(* The addresses of the message, in records or in hints                    *)
Addresses ==
  {k \in DOMAIN wire : \E j \in 1 .. k - 1 :
     \/ wire[j].kind = "fields" /\ wire[j].type \in {"A", "AAAA"} /\ wire[j].len = 1 /\ k = j + 1
     \/ wire[j].kind = "param" /\ wire[j].type \in Hints /\ k <= j + wire[j].len}

(* When an answer was understood, every address of its answer records has  *)
(* been collected, to be judged, before the message is passed on as it     *)
(* came; and a copy has no address at all that was not collected.  The     *)
(* first half stops at the answer records, as ParseResponseA does: the     *)
(* addresses of the two other sections reach the client unjudged.          *)
NothingUnjudged ==
  parsed = "whole" =>
    /\ verdict = "answer" => Addresses \cap DOMAIN built \subseteq found
    /\ verdict = "copy" => Addresses \cap ToSet(was) \subseteq found
===============================================================================
