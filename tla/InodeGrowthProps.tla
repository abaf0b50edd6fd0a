-------------------------- MODULE InodeGrowthProps --------------------------
(***************************************************************************)
(* What must hold of the document file when its inodes run out.            *)
(* ImplementsDocStore (DocFileProps) says most: growing the table moves    *)
(* documents, and none of them changes.                                    *)
(***************************************************************************)
EXTENDS InodeGrowth

Live == {i \in Ids : inode[i].status = CLOSE}
Quiet == growth = NoGrowth

(* The document of an inode in use lies behind the inode table and the     *)
(* cells left over from the growth: extending the table never overwrites   *)
(* a document.                                                             *)
TableApart ==
    growth.at # "moving" =>
        \A i \in Live : inode[i].pos >= FirstBlock

NothingDeleted == [](stack = << >>)

(* As long as nothing is deleted the documents lie one behind the other,   *)
(* from the end of the last growth to the end of the file: the loop of     *)
(* reallocateNewInode always reads the block of a document.                *)
DocumentsTile ==
    Quiet =>
        /\ UNION {Extent(i) : i \in Live} = FirstBlock..(header.endPosition - 1)
        /\ \A i, j \in Live : i # j => Extent(i) \cap Extent(j) = {}

DataTiled == NothingDeleted => []DocumentsTile

(* As long as nothing is deleted the list holds the inodes that are not in *)
(* use, of the table as it is now, each once and without a place.          *)
FreeInodesListed ==
    /\ {list[k].index : k \in DOMAIN list} = Table \ Live
    /\ Len(list) = Cardinality(Table \ Live)
    /\ \A k \in DOMAIN list : list[k].size = 0

NewInodesListed == NothingDeleted => []FreeInodesListed

(* No inode in use is on the list, and no inode twice, whatever is lost    *)
(* from it.                                                                *)
NoLiveInodeListed ==
    /\ \A k \in DOMAIN list : list[k].index \notin Live
    /\ \A j, k \in DOMAIN list : list[j].index = list[k].index => j = k

(* While documents are moved and the table is extended, every block in use *)
(* keeps its number, size and links.                                       *)
MovesKeepBlocks ==
    [][growth.at \in {"moving", "listing"} /\ growth'.at # "failed"
          => \A i \in Live : MetaOf(i)' = MetaOf(i)]_allVars

(* An insertion that needs inodes comes back with a file that works. *)
GrowthReturns == growth # NoGrowth ~> growth = NoGrowth

(* It does as long as nothing is deleted. *)
GrowthAloneReturns == NothingDeleted => GrowthReturns
=============================================================================
