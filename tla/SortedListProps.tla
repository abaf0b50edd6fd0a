-------------------------- MODULE SortedListProps --------------------------
(***************************************************************************)
(* What must hold of the linked list of list.c.                            *)
(***************************************************************************)
EXTENDS SortedList

(* Following `next` from `front` ends, every `prev` leads back the way one  *)
(* came, and `back` is the last node unless a removal has reset it: both   *)
(* pops and the stopping test of insertNode rely on it.  (Of an empty list *)
(* nothing is said of `back`, which a removal may leave dangling.)         *)
NoBack == front # NULL /\ back = NULL

DoublyLinked ==
    \E s \in Chains :
        /\ \A k \in DOMAIN s : heap[s[k]].prev = At(s, k - 1)
        /\ front # NULL /\ ~NoBack => back = Last(s)

(* A call of insertNode comes back, on a list without back too. *)
InsertReturns == call.op = "insert" ~> call.op # "insert"

(* The pointers compute what the clients' view says, step by step: which   *)
(* node a pop takes, where a node of equal size goes, and exactly when a   *)
(* node is lost.                                                           *)
Value == INSTANCE FreeList WITH list <- AsSequence, noBack <- NoBack
ImplementsFreeList == Value!Spec

(* The gaps are listed from the largest to the smallest, whatever order     *)
(* they came in: popMaxSizeNode and popMinSizeNode need not search.        *)
LargestFirst == Value!Sorted(AsSequence)
=============================================================================
