------------------------------ MODULE FreeList ------------------------------
(***************************************************************************)
(* The free list as its clients see it: a sequence of free inodes, sorted  *)
(* by the size of their gaps, from which the largest, the smallest or a    *)
(* named inode can be taken.  DocFile and InodeGrowth are written with     *)
(* these steps; SortedList is shown to implement this specification.       *)
(***************************************************************************)
EXTENDS FreeListOps

CONSTANTS Indices,  \* the inode numbers a client may list
          Sizes     \* the gap sizes a client may list

VARIABLES list,
          noBack    \* the list has nodes, but its `back` is NULL

Init == list = << >> /\ noBack = FALSE

Insert(i, s) ==
    /\ \A k \in DOMAIN list : list[k].index # i
    /\ list' = Linked(list, CreateNode(i, s), noBack)
    /\ UNCHANGED noBack

PopMax ==
    /\ list # << >>
    /\ list' = PopMaxSizeNode(list)
    /\ noBack' = (noBack /\ list' # << >>)

PopMin ==
    /\ list # << >> /\ ~noBack
    /\ list' = PopMinSizeNode(list)
    /\ UNCHANGED noBack

(* removeNodeByIndex comes back only from the front of the list. *)
RemoveFront ==
    /\ list # << >>
    /\ list' = Tail(list)
    /\ noBack' = NoBackAfterRemoval(list, noBack)

Next ==
    \/ \E i \in Indices, s \in Sizes : Insert(i, s)
    \/ PopMax
    \/ PopMin
    \/ RemoveFront

Spec == Init /\ [][Next]_<<list, noBack>>
=============================================================================
