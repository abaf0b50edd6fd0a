---------------------------- MODULE MCInodeGrowth ----------------------------
(* Instances of InodeGrowth for TLC: documents of two different sizes, both *)
(* larger than an inode.                                                    *)
EXTENDS InodeGrowthProps

CONSTANTS small, large  \* documents

MCDocuments == {small, large}
MCDocSize == [d \in MCDocuments |-> IF d = small THEN 4 ELSE 5]
==============================================================================
