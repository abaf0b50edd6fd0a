------------------------------ MODULE Elements ------------------------------
(***************************************************************************)
(* Elements of documents (lab1/src/element.c) and the sizes of documents   *)
(* (lab1/src/doc.c).  An element is a key, a type and a value.  A value is *)
(* an integer: what the code compares is the order of values, and of a     *)
(* string also its length, StrLen.  Sizes are counted in cells.            *)
(***************************************************************************)
EXTENDS Integers, SequencesExt

CONSTANTS StrLen,    \* length of the string a value stands for, with its final 0
          KeySize,   \* cells of the type and the key in front of a value
          FixedSize  \* cells of an INT, a DOUBLE, a BOOLEAN, and of a string's length

Types == {"INT", "DOUBLE", "STRING", "BOOLEAN"}

ASSUME ElementsAssumption ==
    /\ \A v \in DOMAIN StrLen : StrLen[v] \in Nat \ {0}
    /\ KeySize \in Nat \ {0}
    /\ FixedSize \in [Types -> Nat \ {0}]

Element(key, type, val) == [key |-> key, type |-> type, val |-> val]

(* A string has its length in front. *)
CalcElementSize(e) == FixedSize[e.type] + (IF e.type = "STRING" THEN StrLen[e.val] ELSE 0)

(* What elements 1..n of a document take behind its block. *)
ElementsSize(els, n) ==
    LET size[k \in 0..Len(els)] ==
            IF k = 0 THEN 0 ELSE size[k - 1] + KeySize + CalcElementSize(els[k])
    IN  size[n]

(* The sign is what the callers look at. *)
CompareElements(e1, e2) ==
    CASE e1.val < e2.val -> -1 [] e1.val = e2.val -> 0 [] e1.val > e2.val -> 1

SameKeyAndType(e1, e2) == e1.key = e2.key /\ e1.type = e2.type
=============================================================================
