--------------------------- MODULE MCStringUpdate ---------------------------
(* Instances of StringUpdate for TLC: a document with one string, and one  *)
(* with a string and a number; string v is v characters long.             *)
EXTENDS StringUpdate

CONSTANTS small, large  \* documents

MCDocuments == {small, large}
MCStrLen == <<1, 2>>
MCFixedSize == [t \in Types |-> 1]
MCKeys == {"s", "a"}
MCValues == 1..2
S(v) == Element("s", "STRING", v)
A(v) == Element("a", "INT", v)
MCContentOf == [d \in MCDocuments |-> IF d = small THEN <<S(1)>> ELSE <<S(1), A(1)>>]
MCDocSize == [d \in MCDocuments |-> IF d = small THEN 4 ELSE 6]

MCUpdates == {<<S(1)>>, <<S(2)>>, <<A(2), S(2)>>}

(* The string in front of the number grows first. *)
MCBoth == {<<S(2), A(2)>>}
=============================================================================
