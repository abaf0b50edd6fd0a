----------------------------- MODULE MCDocFile -----------------------------
(* An instance of DocFile for TLC: documents of two sizes. *)
EXTENDS DocFileProps

CONSTANTS small, large  \* documents

MCDocuments == {small, large}
MCDocSize == [d \in MCDocuments |-> IF d = small THEN 1 ELSE 2]
=============================================================================
