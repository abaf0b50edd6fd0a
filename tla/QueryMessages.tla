--------------------------- MODULE QueryMessages ---------------------------
(***************************************************************************)
(* The messages of lab3 (simple.pb.h) and the conversions of simple.c      *)
(* between them and the query trees of lab3/ast.h.                         *)
(*                                                                         *)
(* A query is [type, name, condition, documents, limit]; a pointer is a    *)
(* sequence, empty for NULL.  A document is [name, elements].              *)
(***************************************************************************)
EXTENDS PbDecode

CONSTANTS KeySize,       \* char key[13], name[13]
          StringSize,    \* char stringValue[1024]
          MaxElements,   \* Element element[20]
          MaxDocuments   \* Document document[5]

ASSUME QueryMessagesAssumption ==
    /\ KeySize \in Nat \ {0} /\ StringSize \in Nat \ {0}
    /\ MaxElements \in Nat \ {0} /\ MaxDocuments \in Nat \ {0}

Singular(tag, ltype, size) == Field(tag, "STATIC", "OPTIONAL", ltype, size, 0, "", {})
Member(tag, ltype, size) == Field(tag, "STATIC", "ONEOF", ltype, size, 0, "", {})
Sized(tag, sub) == Field(tag, "STATIC", "OPTIONAL", "SUBMESSAGE", 0, 0, sub, {"sized"})
Array(tag, sub, max) == Field(tag, "STATIC", "REPEATED", "SUBMESSAGE", 0, max, sub, {})
Callback(tag, htype, ltype, sub) == Field(tag, "CALLBACK", htype, ltype, 0, 0, sub, {})

ElementFields ==
    <<Singular(1, "UVARINT", Half), Singular(2, "STRING", KeySize),
      Member(3, "STRING", StringSize), Member(4, "VARINT", Half),
      Member(5, "FIXED64", 8), Member(6, "BOOL", 1)>>
ConditionFields ==
    <<Callback(1, "OPTIONAL", "UVARINT", ""), Callback(2, "ONEOF", "SUBMESSAGE", "Condition"),
      Callback(3, "ONEOF", "SUBMESSAGE", "Element"), Callback(4, "OPTIONAL", "SUBMESSAGE", "Condition")>>
DocumentFields ==
    <<Singular(1, "VARINT", Half), Singular(2, "STRING", KeySize), Array(3, "Element", MaxElements)>>
QueryResultFields ==
    <<Singular(1, "VARINT", Half), Array(2, "Document", MaxDocuments)>>
QueryFields ==
    <<Singular(1, "UVARINT", Half), Singular(2, "STRING", KeySize), Sized(3, "Condition"),
      Sized(4, "QueryResult"), Singular(5, "VARINT", Wide)>>

QueryDescriptors ==
    [d \in {"Element", "Condition", "Document", "QueryResult", "Query"} |->
        CASE d = "Element" -> ElementFields
          [] d = "Condition" -> ConditionFields
          [] d = "Document" -> DocumentFields
          [] d = "QueryResult" -> QueryResultFields
          [] d = "Query" -> QueryFields]

-----------------------------------------------------------------------------
FillDocument(d) ==
    <<Slot(1, <<Len(d.elements)>>), Slot(1, d.name),
      Slot(Len(d.elements), [k \in DOMAIN d.elements |-> FillElement(d.elements[k])])>>

FillQueryResult(documents) ==
    <<Slot(1, <<Len(documents)>>),
      Slot(Len(documents), [k \in DOMAIN documents |-> FillDocument(documents[k])])>>

(* The loops of fillQueryResult and fillDocument know nothing of the size  *)
(* of the arrays: a longer list is written past the message.               *)
FillOverruns(documents) ==
    \/ Len(documents) > MaxDocuments
    \/ \E k \in DOMAIN documents :
          \/ Len(documents[k].elements) > MaxElements
          \/ \E e \in ToSet(documents[k].elements) : Overruns(e)

FillQuery(q) ==
    <<Slot(1, <<q.type>>), Slot(1, q.name[1]),
      IF q.condition = << >> THEN Slot(0, Blank("Condition")) ELSE Slot(1, FillCondition(q.condition[1])),
      IF q.documents = << >> THEN Slot(0, Blank("QueryResult")) ELSE Slot(1, FillQueryResult(q.documents[1])),
      Slot(1, <<q.limit>>)>>

-----------------------------------------------------------------------------
(* The messages are passed by value: a pointer into one points to nothing  *)
(* once the function has returned.  createElement and createDocument copy  *)
(* keys and names, stringElement and createQuery keep the pointer.         *)
Dangling == <<-1>>

GetElement(p) ==
    [type |-> p[1].v[1], key |-> p[2].v, value |-> IF p[1].v[1] = ElString THEN Dangling ELSE p[3].v]

Elements(p) == [k \in 1..p[1].v[1] |-> GetElement(p[3].v[k])]
GetDocument(p) == [name |-> p[2].v, elements |-> Elements(p)]
GetQueryResult(p) == [k \in 1..p[1].v[1] |-> GetDocument(p[2].v[k])]

(* The documents and the condition are never NULL, whether sent or not,    *)
(* and the limit is not taken over.                                        *)
GetQuery(p, condition) ==
    [type |-> p[1].v[1], name |-> <<Dangling>>, condition |-> <<condition>>,
     documents |-> <<GetQueryResult(p[4].v)>>, limit |-> -1]

(* The condition_t that k points to, with everything below it. *)
RECURSIVE TreeAt(_, _)
TreeAt(pool, k) ==
    LET below(p) == IF p = << >> THEN << >> ELSE <<TreeAt(pool, p[1])>>
        c == pool[k]
    IN  IF c.op \in {OpAnd, OpOr}
        THEN [op |-> c.op, one |-> below(c.one), two |-> below(c.two)] ELSE c
=============================================================================
