---------------------------- MODULE InodeGrowth ----------------------------
(***************************************************************************)
(* The document file when its inodes run out: writeDocument calls          *)
(* reallocateNewInode (lab1/src/file.c), which moves the documents behind  *)
(* the inode table out of the way until C_DEFAULT more inodes fit, and     *)
(* extends the table.  Everything else is DocFile, for a table of at most  *)
(* MaxInodes inodes: a number the table does not have yet reads as OPEN.   *)
(*                                                                         *)
(* Here the table has a size in cells too.  The list is DocFile's sequence *)
(* as long as `back` names its last node; removeNodeByIndex may leave      *)
(* `back` NULL (see SortedList), which `backNull` records.                 *)
(***************************************************************************)
EXTENDS Integers, Sequences

CONSTANTS C_DEFAULT,  \* inodes a new file has, and inodes a growth makes room for
          MaxInodes,  \* bound: the inodes a file may come to have
          MaxEnd,     \* bound: where a document may end that is not moved
          MaxCountToDelete,  \* bound: clients delete while the table is at most as long
          HeadSize,   \* sizeof(head_t)
          InodeSize,  \* sizeof(inode_t)
          Documents, DocSize, OPEN, CLOSE, REMOVE  \* as in DocFile

VARIABLES header, diskHeader, inode, disk, list, stack, result,  \* as in DocFile
          firstPosition,  \* header.firstPosition: cells between table and data
          backNull,       \* list.back is NULL although list.front is not
          growth          \* the growth in progress and the insertion it is for

fileVars == <<header, diskHeader, inode, disk, list, stack, result>>
growthVars == <<firstPosition, backNull, growth>>
allVars == <<fileVars, growthVars>>

(* The data area of a new file. *)
DataStart == HeadSize + InodeSize * C_DEFAULT

INSTANCE DocFileProps WITH C_DEFAULT <- MaxInodes

IsLargest(d) == \A e \in Documents : DocSize[e] <= DocSize[d]

(* DocFile's own assumption, for the table, and the sizes of the blocks:   *)
(* a meta_t is larger than an inode.                                       *)
ASSUME InodeGrowthAssumption ==
    /\ C_DEFAULT \in Nat \ {0} /\ MaxInodes \in Nat /\ C_DEFAULT <= MaxInodes
    /\ HeadSize \in Nat /\ InodeSize \in Nat \ {0}
    /\ DocSize \in [Documents -> Nat] /\ \A d \in Documents : DocSize[d] > InodeSize
    /\ \E d \in Documents : IsLargest(d)
    /\ OPEN # CLOSE /\ OPEN # REMOVE /\ CLOSE # REMOVE

Table == 0..(header.count - 1)

(* Where the inodes end, and where the first document begins. *)
TableEnd == HeadSize + InodeSize * header.count
FirstBlock == TableEnd + firstPosition

(* What the bytes of an inode are to somebody who reads them as data. *)
TableCell == [table |-> TRUE]

NoGrowth == [at |-> "none"]
Growths ==
    {NoGrowth}
    \cup [at : {"moving"}, pos : Nat, space : Nat, parent : Links, doc : Documents]
    \cup [at : {"listing"}, left : Nat, parent : Links, doc : Documents]
    \cup [at : {"grown"}, parent : Links, doc : Documents]
    \cup [at : {"crashed", "failed"}]

GrowthTypeOK ==
    /\ header \in Headers /\ header.count <= MaxInodes
    /\ diskHeader \in Headers
    /\ inode \in [Ids -> Inodes]
    /\ disk \in [DataArea -> Metas \cup Elements \cup {TableCell}]
    /\ list \in Seq([index : Table, size : Nat])
    /\ stack \in Seq(Frames)
    /\ result \in BOOLEAN
    /\ firstPosition \in 0..(InodeSize - 1)
    /\ backNull \in BOOLEAN
    /\ growth \in Growths

GrowthInit ==
    /\ header = [endPosition |-> DataStart, count |-> C_DEFAULT, root |-> NoDoc]
    /\ diskHeader = [header EXCEPT !.count = 0]
    /\ inode = [i \in Ids |-> [status |-> OPEN, pos |-> 0, size |-> 0]]
    /\ disk = << >>
    /\ list = [k \in 1..C_DEFAULT |-> CreateNode(C_DEFAULT - k, 0)]
    /\ stack = << >>
    /\ result = TRUE
    /\ firstPosition = 0
    /\ backNull = FALSE
    /\ growth = NoGrowth

-----------------------------------------------------------------------------
(* The inode of a gap whose place has been taken away is unplaced again. *)
Unplaced == [status |-> OPEN, pos |-> 0, size |-> 0]

(* move *)
Moved(area, from, to, size) ==
    [a \in DOMAIN area \cup to..(to + size - 1) |->
        IF a \in to..(to + size - 1) THEN area[from + (a - to)] ELSE area[a]]

NeededSpace == InodeSize * C_DEFAULT

(* The largest number of inodes a growth can add. *)
LargestGrowth ==
    (NeededSpace - 1 + DocSize[CHOOSE d \in Documents : IsLargest(d)]) \div InodeSize

(* writeDocument: no inode at all, or neither a gap nor an unplaced one.   *)
NeedsInodes(d) ==
    list # << >> => list[1].size < DocSize[d] /\ Last(list).size # 0

StartGrowth(parent, d) ==
    /\ growth = NoGrowth /\ Idle
    /\ AcceptsParent(parent)
    /\ NeedsInodes(d)
    /\ header.count + LargestGrowth <= MaxInodes
    /\ growth' = [at |-> "moving", pos |-> FirstBlock, space |-> firstPosition,
                  parent |-> parent, doc |-> d]
    /\ UNCHANGED <<fileVars, firstPosition, backNull>>

Moving == growth.at = "moving" /\ growth.space < NeededSpace

(* The block the loop reads, when there is one: between blocks it would    *)
(* read the bytes of an element, and behind the last one nothing, both     *)
(* taken here for the number of no inode.                                  *)
OnBlock == growth.pos \in DOMAIN disk /\ disk[growth.pos] \in Metas
InWay == disk[growth.pos]

Advance ==
    growth' = [growth EXCEPT !.pos = @ + InWay.size, !.space = @ + InWay.size]

(* A gap in the way, at the front of the list: it is relisted with size 0. *)
RemoveGapInWay ==
    /\ Moving /\ OnBlock
    /\ inode[InWay.id].status = REMOVE
    /\ list # << >> /\ list[1].index = InWay.id
    /\ LET rest   == Tail(list)
           noBack == NoBackAfterRemoval(list, backNull)
       IN  /\ list' = Linked(rest, CreateNode(InWay.id, 0), noBack)
           /\ backNull' = noBack
    /\ inode' = [inode EXCEPT ![InWay.id] = Unplaced]
    /\ Advance
    /\ UNCHANGED <<header, diskHeader, disk, stack, result, firstPosition>>

(* A gap in the way, elsewhere on the list: removeNodeByIndex goes round   *)
(* its loop for ever.                                                      *)
SpinOnGapInWay ==
    /\ Moving /\ OnBlock
    /\ inode[InWay.id].status = REMOVE
    /\ list # << >> /\ list[1].index # InWay.id
    /\ UNCHANGED allVars

(* Operators named Bad... are variants of the definition that follows, each *)
(* with one plausible mistake: the properties are checked to reject them.  *)

GapFor(size) == list # << >> /\ list[1].size >= size

(* The inode of the document is relisted in place of the gap's. *)
BadMoveToGap ==
    /\ Moving /\ OnBlock
    /\ inode[InWay.id].status = CLOSE
    /\ GapFor(InWay.size)
    /\ LET gap    == list[1].index
           rest   == Tail(list)
           noBack == backNull /\ rest # << >>
       IN  /\ inode' = [inode EXCEPT ![gap] = Unplaced, ![InWay.id].pos = inode[gap].pos]
           /\ list' = Linked(rest, CreateNode(InWay.id, 0), noBack)
           /\ backNull' = noBack
           /\ disk' = Moved(disk, growth.pos, inode[gap].pos, InWay.size)
    /\ Advance
    /\ UNCHANGED <<header, diskHeader, stack, result, firstPosition>>

MoveToGap ==
    /\ Moving /\ OnBlock
    /\ inode[InWay.id].status = CLOSE
    /\ GapFor(InWay.size)
    /\ LET gap    == list[1].index
           rest   == Tail(list)
           noBack == backNull /\ rest # << >>
       IN  /\ inode[gap].status = REMOVE
           /\ inode' = [inode EXCEPT ![gap] = Unplaced, ![InWay.id].pos = inode[gap].pos]
           /\ list' = Linked(rest, CreateNode(gap, 0), noBack)
           /\ backNull' = noBack
           /\ disk' = Moved(disk, growth.pos, inode[gap].pos, InWay.size)
    /\ Advance
    /\ UNCHANGED <<header, diskHeader, stack, result, firstPosition>>

(* endPosition stays where it is. *)
BadMoveToEnd ==
    /\ Moving /\ OnBlock
    /\ inode[InWay.id].status = CLOSE
    /\ ~GapFor(InWay.size)
    /\ inode' = [inode EXCEPT ![InWay.id].pos = header.endPosition]
    /\ disk' = Moved(disk, growth.pos, header.endPosition, InWay.size)
    /\ Advance
    /\ UNCHANGED <<header, diskHeader, list, stack, result, firstPosition, backNull>>

MoveToEnd ==
    /\ Moving /\ OnBlock
    /\ inode[InWay.id].status = CLOSE
    /\ ~GapFor(InWay.size)
    /\ inode' = [inode EXCEPT ![InWay.id].pos = header.endPosition]
    /\ disk' = Moved(disk, growth.pos, header.endPosition, InWay.size)
    /\ header' = [header EXCEPT !.endPosition = @ + InWay.size]
    /\ diskHeader' = header'
    /\ Advance
    /\ UNCHANGED <<list, stack, result, firstPosition, backNull>>

(* reallocateNewInode returns false, writeDocument returns false, that is  *)
(* 0, and insertDocument makes 0 the child of the parent and returns true. *)
(* The behaviour is not followed further.                                  *)
GrowthFails ==
    /\ Moving
    /\ OnBlock => \/ inode[InWay.id].status = OPEN
                  \/ inode[InWay.id].status = REMOVE /\ list = << >>
                  \/ /\ inode[InWay.id].status = CLOSE /\ GapFor(InWay.size)
                     /\ inode[list[1].index].status # REMOVE
    /\ disk' = IF growth.parent = NoDoc THEN disk
               ELSE [disk EXCEPT ![inode[growth.parent].pos].child = 0]
    /\ result' = TRUE
    /\ growth' = [at |-> "failed"]
    /\ UNCHANGED <<header, diskHeader, inode, list, stack, firstPosition, backNull>>

(* All the space that was not asked for is left over. *)
BadFirstPosition == growth.space - NeededSpace
FirstPosition == growth.space % InodeSize

(* An inode for the left-over cells too. *)
BadNewInodes == growth.space \div InodeSize + 1
NewInodes == growth.space \div InodeSize

(* The number of the new inode, with the count incremented too early. *)
BadNumber == header.count + 1
Number == header.count

(* insertNode leaves the back of an empty list as it was. *)
BadBackAfter == backNull \/ list = << >>
BackAfter == backNull

SpaceFound ==
    /\ growth.at = "moving" /\ growth.space >= NeededSpace
    /\ firstPosition' = FirstPosition
    /\ growth' = [at |-> "listing", left |-> NewInodes,
                  parent |-> growth.parent, doc |-> growth.doc]
    /\ UNCHANGED <<fileVars, backNull>>

(* An iteration of writeNewListNode: the inode is written behind the table *)
(* and put on the list.                                                    *)
WriteNewListNode ==
    /\ growth.at = "listing" /\ growth.left > 0
    /\ disk' = [a \in DOMAIN disk |-> IF a < TableEnd + InodeSize THEN TableCell ELSE disk[a]]
    /\ list' = Linked(list, CreateNode(Number, 0), backNull)
    /\ backNull' = BackAfter
    /\ header' = [header EXCEPT !.count = @ + 1]
    /\ growth' = [growth EXCEPT !.left = @ - 1]
    /\ UNCHANGED <<diskHeader, inode, stack, result, firstPosition>>

EndGrowth ==
    /\ growth.at = "listing" /\ growth.left = 0
    /\ diskHeader' = header
    /\ growth' = [at |-> "grown", parent |-> growth.parent, doc |-> growth.doc]
    /\ UNCHANGED <<header, inode, disk, list, stack, result, firstPosition, backNull>>

(* writeDocument takes the inode at the back of the list... *)
PlaceAfterGrowth ==
    /\ growth.at = "grown" /\ ~backNull
    /\ PlaceAtEnd(growth.parent, growth.doc)
    /\ growth' = NoGrowth
    /\ UNCHANGED <<firstPosition, backNull>>

(* ... which it reads through a null pointer when there is no back. *)
CrashAfterGrowth ==
    /\ growth.at = "grown" /\ backNull
    /\ growth' = [at |-> "crashed"]
    /\ UNCHANGED <<fileVars, firstPosition, backNull>>

GrowthStep ==
    \/ RemoveGapInWay \/ SpinOnGapInWay \/ MoveToGap \/ MoveToEnd \/ GrowthFails
    \/ SpaceFound \/ WriteNewListNode \/ EndGrowth \/ PlaceAfterGrowth \/ CrashAfterGrowth

(* Nothing follows a crash, or a failed growth. *)
Stopped == growth.at \in {"crashed", "failed"} /\ UNCHANGED allVars

-----------------------------------------------------------------------------
FitsBound(d) == header.endPosition + DocSize[d] <= MaxEnd

(* Clients insert under the first document, as the tests do. *)
Parents == {header.root}

InsertStep ==
    \/ \E parent \in Parents, d \in Documents :
          /\ growth = NoGrowth
          /\ InsertIntoGap(parent, d)
          /\ UNCHANGED growthVars
    \/ \E parent \in Parents, d \in Documents :
          /\ growth = NoGrowth
          /\ FitsBound(d)
          /\ InsertAtEnd(parent, d)
          /\ UNCHANGED growthVars

CallDelete(id) ==
    /\ growth = NoGrowth
    /\ header.count <= MaxCountToDelete
    /\ DeleteDocument(id)
    /\ UNCHANGED growthVars

ContinueDelete == DeleteStep /\ UNCHANGED growthVars

(* Files that only grow. *)
GrowOnlyNext ==
    \/ InsertStep
    \/ \E parent \in Parents, d \in Documents : StartGrowth(parent, d)
    \/ GrowthStep

GrowthNext ==
    \/ GrowOnlyNext
    \/ \E id \in Table : CallDelete(id)
    \/ ContinueDelete
    \/ Stopped

(* A growth that has begun runs on: the program has one thread. *)
GrowOnlySpec == GrowthInit /\ [][GrowOnlyNext]_allVars /\ WF_allVars(GrowthStep)
GrowthSpec == GrowthInit /\ [][GrowthNext]_allVars /\ WF_allVars(GrowthStep)
=============================================================================
