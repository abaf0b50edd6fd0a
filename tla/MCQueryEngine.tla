--------------------------- MODULE MCQueryEngine ---------------------------
(* Instances of QueryEngine for TLC: a document of one cell with one       *)
(* element, a document of two cells with two, and queries about them.      *)
EXTENDS QueryEngine

CONSTANTS small, large  \* documents

MCDocuments == {small, large}
MCDocSize == [d \in MCDocuments |-> IF d = small THEN 1 ELSE 2]
MCSameSize == [d \in MCDocuments |-> 1]
MCNameOf == [d \in MCDocuments |-> IF d = small THEN "s" ELSE "l"]
A(v) == Element("a", "INT", v)
B(v) == Element("b", "INT", v)
MCContentOf == [d \in MCDocuments |-> IF d = small THEN <<A(1)>> ELSE <<B(1), A(0)>>]
MCFixedSize == [t \in Types |-> 1]
MCStrLen == << >>

Ask(type, name, c, new) == [type |-> type, name |-> name, condition |-> c, update |-> new]

(* True of the small document only, of both, and of the large one only. *)
OnlySmall == CondAnd(Compare("GT", A(0)), Compare("LTE", A(1)))
Either == CondOr(Compare("EQ", A(1)), Compare("GTE", B(0)))
OnlyLarge == CondOr(Compare("LT", A(1)), CondNot(CondOr(Compare("EQ_KEY_TYPE", A(0)), Compare("NEQ", B(1)))))

MCQueries ==
    {Ask("SELECT", NoName, Either, << >>), Ask("SELECT", "s", OnlyLarge, << >>),
     Ask("UPDATE", NoName, NoCondition, <<A(1), A(2)>>), Ask("UPDATE", NoName, OnlySmall, <<A(0)>>),
     Ask("DELETE", "l", NoCondition, << >>), Ask("DELETE", "s", OnlySmall, << >>),
     Ask("DELETE", NoName, OnlyLarge, << >>),
     Ask("PRINT", "s", NoCondition, << >>), Ask("PRINT", NoName, NoCondition, << >>)}

(* A condition and those it is made of. *)
RECURSIVE Parts(_)
Parts(c) ==
    {c} \cup (IF c.op \in {"AND", "OR", "NOT"} THEN Parts(c.condition1) ELSE {})
        \cup (IF c.op \in {"AND", "OR"} THEN Parts(c.condition2) ELSE {})

MCAllConditions == UNION {Parts(c) : c \in {Either, OnlySmall, OnlyLarge}}

(* Of the whole tree, and of what is left after a deletion in it. *)
MCSelect == {Ask("SELECT", NoName, NoCondition, << >>), Ask("DELETE", "l", NoCondition, << >>)}
=============================================================================
