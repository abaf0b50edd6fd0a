---------------------------- MODULE DocFileProps ----------------------------
(***************************************************************************)
(* What must hold of the document file while inodes last.                  *)
(***************************************************************************)
EXTENDS DocFile

(* The cells an inode reserves. *)
Extent(i) == inode[i].pos..(inode[i].pos + inode[i].size - 1)
Placed == {i \in Ids : inode[i].status # OPEN}

(* No cell of the data area belongs to two inodes: writing or relinking a  *)
(* document never overwrites another one or the gap another will get.      *)
ExtentsDisjoint ==
    \A i, j \in Placed : i # j => Extent(i) \cap Extent(j) = {}

(* Every cell below endPosition is reserved by an inode: endPosition moves *)
(* by exactly what is reserved.  (An inode reserves its first extent for   *)
(* good.  That says nothing of what can be used again: the list offers     *)
(* only what the last document took of it, and the rest is lost.)          *)
ExtentsCover == UNION {Extent(i) : i \in Placed} = DataArea

(* An inode that has a place points at a block that carries its number and *)
(* a size that stays within what the inode reserves.                       *)
BlocksFit ==
    \A i \in Placed :
        /\ inode[i].pos \in DataArea
        /\ MetaOf(i) \in Metas
        /\ MetaOf(i).id = i
        /\ MetaOf(i).size <= inode[i].size
        /\ Extent(i) \subseteq DataArea

(* The free list names exactly the inodes that are not in use, each once,  *)
(* largest gap first, an unplaced inode with size 0 and a gap with the     *)
(* size of the document it held.  It fails if a deletion frees a document  *)
(* twice, or forgets one: two documents would then share an inode, or an   *)
(* inode would be lost.                                                    *)
Listed == {list[k].index : k \in DOMAIN list}
NodeMatches(node) ==
    \/ inode[node.index].status = OPEN /\ node.size = 0
    \/ inode[node.index].status = REMOVE /\ node.size = MetaOf(node.index).size

FreeListExact ==
    /\ Listed = {i \in Ids : inode[i].status # CLOSE}
    /\ \A j, k \in DOMAIN list : list[j].index = list[k].index => j = k
    /\ \A k \in DOMAIN list : NodeMatches(list[k])
    /\ Sorted(list)

(* Following child links never comes back to where it started, dead links  *)
(* and reused inodes included: every set of blocks has a member whose      *)
(* child is outside the set.  The recursion of a deletion rests on it.     *)
NoChildCycle ==
    \A S \in SUBSET Placed : S # {} => \E i \in S : Child(i) \notin S

(* The documents whose deletion is in progress are in use and linked by    *)
(* their child fields, so the inner calls cannot free an outer document.   *)
StackChained ==
    \A k \in DOMAIN stack :
        (k < Len(stack) \/ stack[k].at # "enter") =>
            /\ Status(stack[k].id) = CLOSE
            /\ k < Len(stack) => stack[k + 1].id = Child(stack[k].id)

(* A deletion comes back: again and again none is in progress.            *)
DeleteReturns == []<>(stack = << >>)

(* What readDocument gives for inode i: the block and, behind it, as many  *)
(* cells as the block says.                                                *)
ReadBack(i) ==
    [k \in 1..MetaOf(i).size |->
        IF k = 1 THEN MetaOf(i).doc ELSE disk[inode[i].pos + k - 1]]

Content(d) == [k \in 1..DocSize[d] |-> IF k = 1 THEN d ELSE [doc |-> d, at |-> k]]

(* The file is the table of documents its users were promised: the bytes   *)
(* of a document in use read back as they were inserted whatever happens   *)
(* to other documents, an insertion takes a free number, and a deletion    *)
(* takes away whole documents, one at a time.                              *)
Store == INSTANCE DocStore WITH
            Contents <- {Content(d) : d \in Documents},
            Absent <- << >>,
            docs <- [i \in Ids |-> IF inode[i].status = CLOSE THEN ReadBack(i) ELSE << >>]
ImplementsDocStore == Store!Spec
=============================================================================
