---------------------------- MODULE FreeListOps ----------------------------
(***************************************************************************)
(* The free list of the document file (lab1/src/list.c) as a value: the    *)
(* sequence of nodes met when `next` is followed from `front`.  A node     *)
(* names a free inode and the size of the gap the inode stands for, 0 for  *)
(* an inode that has no place in the file yet.  SortedList shows that the  *)
(* linked list computes these operators; DocFile is built from them.       *)
(***************************************************************************)
EXTENDS Integers, SequencesExt

(* createNode: a node that is not linked yet. *)
CreateNode(id, sz) == [index |-> id, size |-> sz]

(* The largest gap is at the front, the unplaced inodes are at the back. *)
Sorted(l) == \A j, k \in DOMAIN l : j < k => l[j].size >= l[k].size

(* Where the scan of insertNode stops: in front of the first node that is  *)
(* not larger than the new one, or behind the last node.                   *)
IsInsertPos(l, sz, k) ==
    /\ \A j \in 1..(k - 1) : l[j].size > sz
    /\ k <= Len(l) => l[k].size <= sz

InsertPos(l, sz) == CHOOSE k \in 1..(Len(l) + 1) : IsInsertPos(l, sz, k)

InsertNode(l, node) == InsertAt(l, InsertPos(l, node.size), node)

(* insertNode on a list whose `back` may be NULL although it has nodes: a   *)
(* node that belongs behind all the others is then linked nowhere.         *)
Linked(l, node, noBack) ==
    IF noBack /\ InsertPos(l, node.size) > Len(l) THEN l ELSE InsertNode(l, node)

(* removeNodeByIndex on the front node resets `back` of a list of two:      *)
(* it compares the successor with the back (list.c:98).                    *)
NoBackAfterRemoval(l, noBack) == Len(l) > 1 /\ (noBack \/ Len(l) = 2)

(* popMaxSizeNode takes the front, popMinSizeNode the back. *)
PopMaxSizeNode(l) == Tail(l)
PopMinSizeNode(l) == Front(l)
=============================================================================
