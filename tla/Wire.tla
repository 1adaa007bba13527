--------------------------------- MODULE Wire ---------------------------------
(***************************************************************************)
(* An answer as it comes from an upstream: a buffer of cells, in which an  *)
(* offset counts cells.  A cell is what the code reads or copies at once:  *)
(* a label with its length, the byte that ends a name, a compression       *)
(* pointer, the question's type and class, the fixed fields of a record,   *)
(* SvcPriority, the key and length of a SvcParam, one address or another   *)
(* piece of data, and a "stub" of data too short to be a SvcParam.  The    *)
(* twelve bytes of the header are cell 1; its count of answers is kept     *)
(* apart, and nothing reads the counts of the two sections that stand      *)
(* behind the answers, authority and additional.  The upstream builds a    *)
(* message as names are compressed: a pointer leads back to a name that    *)
(* stands in the buffer.                                                   *)
(***************************************************************************)
EXTENDS Integers, SequencesExt

CONSTANTS
  QTypes,       \* types asked for
  Types,        \* types of the records of an answer, by the type asked for
  Params,       \* SvcParams an upstream may send: records [key, len]
  Extras,       \* types of the records behind the answers; "TXT" stands for NS, SOA, OPT
  MaxRecords,   \* bound on the answer records; a damaged answer has less
  MaxCells      \* bound on its cells

ASSUME WireAssumption ==
  /\ QTypes \subseteq {"A", "AAAA", "SVCB", "OTHER"}
  /\ Types \in [QTypes -> SUBSET {"A", "AAAA", "CNAME", "SVCB", "HTTPS", "TXT"}]
  /\ Params \subseteq [key : {"ipv4hint", "ipv6hint", "alpn"}, len : Nat]
  /\ Extras \subseteq {"A", "AAAA", "TXT"}
  /\ MaxRecords \in Nat /\ MaxCells \in Nat

Cell(kind)        == [kind |-> kind, type |-> "none", to |-> 0, len |-> 0]
Pointer(t)        == [kind |-> "pointer", type |-> "none", to |-> t, len |-> 0]
Fields(type, len) == [kind |-> "fields", type |-> type, to |-> 0, len |-> len]
Param(key, len)   == [kind |-> "param", type |-> key, to |-> 0, len |-> len]
Values(n)         == [j \in 1 .. n |-> Cell("value")]

Kinds ==
  {"header", "label", "root", "pointer", "question", "fields", "priority", "param", "value", "stub"}

Marks == {"none", "A", "AAAA", "CNAME", "SVCB", "HTTPS", "TXT", "ipv4hint", "ipv6hint", "alpn"}

Cells == [kind : Kinds, type : Marks, to : Nat, len : Nat]

(* The header and the question, whose name is not compressed               *)
Question == <<Cell("header"), Cell("label"), Cell("root"), Cell("question")>>

VARIABLES
  pc,       \* what happens next
  qtype,    \* the type asked for (m_uQType)
  built,    \* header, question and answer records as the upstream builds them (history)
  heads,    \* where in it the fields of each record stand (history)
  behind,   \* the records of the authority and additional sections (history)
  wire      \* the answer as it is received

WireInit ==
  /\ pc = "build"
  /\ qtype \in QTypes
  /\ built = Question /\ heads = <<>> /\ behind = <<>>
  /\ wire = <<>>

(* The count of answers in the header                                      *)
answers == Len(heads)

(* The upstream has not sent what it built.                                *)
Damaged == wire # built \o behind
-------------------------------------------------------------------------------
(* The upstream                                                            *)

Labels == {j \in DOMAIN built : built[j].kind = "label"}

(* SvcPriority, and a target of its own or one below a name that is there  *)
Services ==
  {<<Cell("priority"), Cell("root")>>, <<Cell("priority"), Cell("label"), Cell("root")>>}
    \cup {<<Cell("priority"), Cell("label"), Pointer(t)>> : t \in Labels}

(* What may follow the fixed fields of a record, before its parameters     *)
RData(type) ==
  CASE type = "CNAME" -> {<<Pointer(t)>> : t \in Labels} \cup {<<Cell("label"), Pointer(t)>> : t \in Labels}
    [] type = "SVCB"  -> Services
    [] type = "HTTPS" -> {<<Cell("priority"), Cell("root")>>}
    [] OTHER          -> {<<Cell("value")>>}

AddRecord ==
  /\ pc = "build" /\ answers < MaxRecords
  /\ \E type \in Types[qtype], owner \in Labels : \E rdata \in RData(type) :
       built' = built \o <<Pointer(owner), Fields(type, Len(rdata))>> \o rdata
  /\ Len(built') + Len(behind) <= MaxCells
  /\ heads' = Append(heads, Len(built) + 2)
  /\ UNCHANGED <<pc, qtype, behind, wire>>

(* The fields of the last record                                           *)
LastHead == heads[Len(heads)]

(* The last record gets one more SvcParam.                                 *)
AddParam ==
  /\ pc = "build" /\ heads # <<>>
  /\ built[LastHead].type \in {"SVCB", "HTTPS"}
  /\ \E param \in Params :
       built' = [built EXCEPT ![LastHead].len = @ + 1 + param.len]
                  \o <<Param(param.key, param.len)>> \o Values(param.len)
  /\ Len(built') + Len(behind) <= MaxCells
  /\ UNCHANGED <<pc, qtype, heads, behind, wire>>

(* A record of the authority or the additional section, such as the        *)
(* address of a target.                                                    *)
AddExtra ==
  /\ pc = "build"
  /\ \E type \in Extras, owner \in Labels :
       behind' = behind \o <<Pointer(owner), Fields(type, 1), Cell("value")>>
  /\ Len(built) + Len(behind') <= MaxCells
  /\ UNCHANGED <<pc, qtype, built, heads, wire>>

Send(cells) ==
  /\ wire' = cells
  /\ pc' = "question"
  /\ UNCHANGED <<qtype, built, heads, behind>>

SendWhole == pc = "build" /\ Send(built \o behind)

(* The message is cut off; or its last answer record is shorter or longer  *)
(* than it says, or the last SvcParam of that record is.                   *)
SendDamaged ==
  /\ pc = "build" /\ answers < MaxRecords
  /\ \/ \E n \in 0 .. Len(built \o behind) - 1 : Send(SubSeq(built \o behind, 1, n))
     \/ heads # <<>> /\ Send([built EXCEPT ![LastHead].len = @ - 1] \o behind)
     \/ heads # <<>> /\ Send(Append([built EXCEPT ![LastHead].len = @ + 1], Cell("stub")) \o behind)
     \/ \E j \in DOMAIN built :
          /\ built[j].kind = "param" /\ j + built[j].len = Len(built)
          /\ Send([built EXCEPT ![j].len = @ + 1] \o behind)

Build == AddRecord \/ AddParam \/ AddExtra \/ SendWhole \/ SendDamaged
===============================================================================
