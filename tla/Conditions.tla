----------------------------- MODULE Conditions -----------------------------
(***************************************************************************)
(* Conditions of a query (lab1/src/condition.c).  A condition is a tree:   *)
(* a comparison with an element, or AND, OR, NOT of conditions.  The code  *)
(* evaluates the whole tree on one element after the other.                *)
(***************************************************************************)
EXTENDS Elements

CONSTANT AllConditions  \* the conditions of the queries, and those they are made of

ASSUME ConditionsAssumption ==
    \A c \in AllConditions :
        /\ c.op \in {"AND", "OR", "NOT"} => c.condition1 \in AllConditions
        /\ c.op \in {"AND", "OR"} => c.condition2 \in AllConditions

NoCondition == [op |-> "NULL"]
Compare(op, e) == [op |-> op, element |-> e]
CondAnd(c1, c2) == [op |-> "AND", condition1 |-> c1, condition2 |-> c2]
CondOr(c1, c2) == [op |-> "OR", condition1 |-> c1, condition2 |-> c2]
CondNot(c) == [op |-> "NOT", condition1 |-> c]

(* The comparison a leaf makes with the sign of compareElements. *)
Holds(op, sign) ==
    CASE op = "EQ_KEY_TYPE" -> TRUE
      [] op = "EQ" -> sign = 0
      [] op = "NEQ" -> sign # 0
      [] op = "GT" -> sign > 0
      [] op = "GTE" -> sign >= 0
      [] op = "LT" -> sign < 0
      [] op = "LTE" -> sign <= 0

(* A comparison is about an element of the same key and type only. *)
CompareByCondition(e, c) == SameKeyAndType(e, c.element) /\ Holds(c.op, CompareElements(e, c.element))

CheckElementByCondition(e, condition) ==
    LET check[c \in AllConditions] ==
            CASE c.op = "AND" -> check[c.condition1] /\ check[c.condition2]
              [] c.op = "OR"  -> check[c.condition1] \/ check[c.condition2]
              [] c.op = "NOT" -> ~check[c.condition1]
              [] OTHER        -> CompareByCondition(e, c)
    IN  IF condition.op \in {"AND", "OR", "NOT"} THEN check[condition]
        ELSE CompareByCondition(e, condition)

(* The first element (from 1) that satisfies the condition; 0 for the -1   *)
(* of the code.  Without a condition it names an element nobody looks at.  *)
CheckDocumentByCondition(els, c) ==
    IF c = NoCondition THEN 1
    ELSE SelectInSeq(els, LAMBDA e : CheckElementByCondition(e, c))
=============================================================================
