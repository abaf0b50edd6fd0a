------------------------------ MODULE DocFile ------------------------------
(***************************************************************************)
(* The document file of lab1: the inode table, the free list and the data  *)
(* area (lab1/src/file.c), with insertDocument and deleteDocument          *)
(* (lab1/src/operation.c) for as long as the inodes created with the file  *)
(* last.  An insertion that needs more inodes (reallocateNewInode) is the  *)
(* subject of InodeGrowth.                                                 *)
(*                                                                         *)
(* The data area is cut into cells: one holds the meta_t block of a        *)
(* document, the following ones its elements.  The program has one thread; *)
(* the mutual recursion of deleteDocument and deleteSameLevelDocuments is  *)
(* an explicit stack, one action per call, return or freed document.       *)
(***************************************************************************)
EXTENDS FreeListOps

CONSTANTS C_DEFAULT,  \* number of inodes of a new file
          DataStart,  \* sizeof(head_t) + sizeof(inode_t) * C_DEFAULT
          Documents,  \* documents (name and elements) a client may insert
          DocSize,    \* calcDocumentSize: the cells a document takes
          OPEN, CLOSE, REMOVE  \* inodeStatus_t: unplaced, in use, a gap

ASSUME DocFileAssumption ==
    /\ C_DEFAULT \in Nat \ {0}
    /\ DataStart \in Nat \ {0}
    /\ DocSize \in [Documents -> Nat \ {0}]
    /\ OPEN # CLOSE /\ OPEN # REMOVE /\ CLOSE # REMOVE

VARIABLES header,      \* file->header
          diskHeader,  \* the copy of it at the start of the file
          inode,       \* the inode table of the file
          disk,        \* the data area of the file
          list,        \* file->list
          stack,       \* the calls of a deletion in progress, outermost first
          result       \* what the call that returned last returned

vars == <<header, diskHeader, inode, disk, list, stack, result>>

NoDoc == -1
Ids == 0..(C_DEFAULT - 1)
Links == Ids \cup {NoDoc}

Headers == [endPosition : Nat, count : Nat, root : Links]
Inodes == [status : {OPEN, CLOSE, REMOVE}, pos : Nat, size : Nat]
Metas == [id : Ids, size : Nat \ {0}, child : Links, brother : Links, doc : Documents]
Elements == [doc : Documents, at : Nat]
Frames == [fn : {"document", "sameLevel"}, id : Links, at : {"enter", "child", "retry"}]

DataArea == DataStart..(header.endPosition - 1)

TypeOK ==
    /\ header \in Headers
    /\ diskHeader \in Headers
    /\ inode \in [Ids -> Inodes]
    /\ disk \in [DataArea -> Metas \cup Elements]
    /\ list \in Seq([index : Ids, size : Nat])
    /\ stack \in Seq(Frames)
    /\ result \in BOOLEAN

(* createFile: the header is written before writeNewListNode counts the    *)
(* inodes, and every new inode goes to the front of the list.              *)
Init ==
    /\ header = [endPosition |-> DataStart, count |-> C_DEFAULT, root |-> NoDoc]
    /\ diskHeader = [header EXCEPT !.count = 0]
    /\ inode = [i \in Ids |-> [status |-> OPEN, pos |-> 0, size |-> 0]]
    /\ disk = << >>
    /\ list = [k \in 1..C_DEFAULT |-> CreateNode(C_DEFAULT - k, 0)]
    /\ stack = << >>
    /\ result = TRUE

-----------------------------------------------------------------------------
(* getInodeByIndex(...).status: a number outside the table reads as OPEN.  *)
Status(i) == IF i \in Ids THEN inode[i].status ELSE OPEN

(* The meta_t block at the position an inode names. *)
MetaOf(i) == disk[inode[i].pos]

(* Operators named Bad... are variants of the definition that follows, each *)
(* with one plausible mistake: the properties are checked to reject them.  *)

(* The loop over the elements is one behind. *)
BadImage(meta) ==
    [k \in 1..meta.size |-> IF k = 1 THEN meta ELSE [doc |-> meta.doc, at |-> k - 1]]

(* What writeDocument puts in the file: the block, then the elements. *)
Image(meta) ==
    [k \in 1..meta.size |-> IF k = 1 THEN meta ELSE [doc |-> meta.doc, at |-> k]]

WriteAt(area, pos, image) ==
    [a \in DOMAIN area \cup pos..(pos + Len(image) - 1) |->
        IF a \in pos..(pos + Len(image) - 1) THEN image[a - pos + 1] ELSE area[a]]

(* A reused block keeps the child it had. *)
BadNewMeta(id, parent, d) ==
    [id |-> id, size |-> DocSize[d], doc |-> d,
     child |-> IF inode[id].status = REMOVE THEN MetaOf(id).child ELSE NoDoc,
     brother |-> IF parent = NoDoc THEN NoDoc ELSE MetaOf(parent).child]

(* The document that was last before is forgotten. *)
ForgetfulNewMeta(id, parent, d) ==
    [id |-> id, size |-> DocSize[d], child |-> NoDoc, doc |-> d, brother |-> NoDoc]

NewMeta(id, parent, d) ==
    [id |-> id, size |-> DocSize[d], child |-> NoDoc, doc |-> d,
     brother |-> IF parent = NoDoc THEN NoDoc ELSE MetaOf(parent).child]

(* The new document at pos, and its number in the parent's block, which    *)
(* insertDocument read before it wrote the document.                       *)
WithDocument(meta, pos, parent) ==
    LET area == WriteAt(disk, pos, Image(meta))
    IN  IF parent = NoDoc THEN area
        ELSE [area EXCEPT ![inode[parent].pos] = [MetaOf(parent) EXCEPT !.child = meta.id]]

(* writeDocument names the first document of the file its root. *)
WithRoot(h, id) == IF h.root = NoDoc THEN [h EXCEPT !.root = id] ELSE h

Idle == stack = << >>

(* insertDocument accepts no parent, or one that is in use. *)
AcceptsParent(parent) == parent = NoDoc \/ Status(parent) = CLOSE

(* Any gap will do. *)
BadFitsGap(d) == list # << >> /\ list[1].size > 0

(* The largest gap is large enough for d. *)
FitsGap(d) == list # << >> /\ list[1].size >= DocSize[d]

(* There is no such gap, but the back of the list has no place yet. *)
FitsEnd(d) == list # << >> /\ list[1].size < DocSize[d] /\ Last(list).size = 0

-----------------------------------------------------------------------------
InsertRejected(parent) ==
    /\ Idle
    /\ ~AcceptsParent(parent)
    /\ result' = FALSE
    /\ UNCHANGED <<header, diskHeader, inode, disk, list, stack>>

(* The reused inode takes the size of the document. *)
BadInsertIntoGap(parent, d) ==
    /\ Idle
    /\ AcceptsParent(parent)
    /\ FitsGap(d)
    /\ LET id == list[1].index
       IN  /\ inode' = [inode EXCEPT ![id].status = CLOSE, ![id].size = DocSize[d]]
           /\ list' = PopMaxSizeNode(list)
           /\ disk' = WithDocument(NewMeta(id, parent, d), inode[id].pos, parent)
           /\ header' = WithRoot(header, id)
           /\ diskHeader' = IF header.root = NoDoc THEN header' ELSE diskHeader
    /\ result' = TRUE
    /\ UNCHANGED stack

(* The size of the reused inode keeps the extent of the gap; the document  *)
(* may be smaller.  (file.c:105 gives up when the inode is not a gap; by   *)
(* FreeListExact it always is.)                                            *)
InsertIntoGap(parent, d) ==
    /\ Idle
    /\ AcceptsParent(parent)
    /\ FitsGap(d)
    /\ LET id == list[1].index
       IN  /\ inode[id].status = REMOVE
           /\ inode' = [inode EXCEPT ![id].status = CLOSE]
           /\ list' = PopMaxSizeNode(list)
           /\ disk' = WithDocument(NewMeta(id, parent, d), inode[id].pos, parent)
           /\ header' = WithRoot(header, id)
           /\ diskHeader' = IF header.root = NoDoc THEN header' ELSE diskHeader
    /\ result' = TRUE
    /\ UNCHANGED stack

(* endPosition is moved by the meta_t block only. *)
BadPlaceAtEnd(parent, d) ==
    /\ LET id  == Last(list).index
           pos == header.endPosition
       IN  /\ inode' = [inode EXCEPT ![id] =
                           [status |-> CLOSE, pos |-> pos, size |-> DocSize[d]]]
           /\ list' = PopMinSizeNode(list)
           /\ disk' = WithDocument(NewMeta(id, parent, d), pos, parent)
           /\ header' = WithRoot([header EXCEPT !.endPosition = pos + 1], id)
    /\ diskHeader' = header'
    /\ result' = TRUE
    /\ UNCHANGED stack

(* The inode at the back of the list gets a place behind all the others. *)
PlaceAtEnd(parent, d) ==
    /\ LET id  == Last(list).index
           pos == header.endPosition
       IN  /\ inode' = [inode EXCEPT ![id] =
                           [status |-> CLOSE, pos |-> pos, size |-> DocSize[d]]]
           /\ list' = PopMinSizeNode(list)
           /\ disk' = WithDocument(NewMeta(id, parent, d), pos, parent)
           /\ header' = WithRoot([header EXCEPT !.endPosition = pos + DocSize[d]], id)
    /\ diskHeader' = header'
    /\ result' = TRUE
    /\ UNCHANGED stack

InsertAtEnd(parent, d) ==
    /\ Idle
    /\ AcceptsParent(parent)
    /\ FitsEnd(d)
    /\ PlaceAtEnd(parent, d)

-----------------------------------------------------------------------------
Frame(fn, id) == [fn |-> fn, id |-> id, at |-> "enter"]
Callee(fn) == IF fn = "document" THEN "sameLevel" ELSE "document"

Top == Last(stack)
Child(i) == MetaOf(i).child
Brother(i) == MetaOf(i).brother

(* Of this deletion no call has returned yet. *)
DeleteDocument(id) ==
    /\ Idle
    /\ stack' = <<Frame("document", id)>>
    /\ result' = TRUE
    /\ UNCHANGED <<header, diskHeader, inode, disk, list>>

Return(value) ==
    /\ stack' = Front(stack)
    /\ result' = value

(* Either function: the inode is not in use. *)
DeleteRejected ==
    /\ ~Idle
    /\ Top.at = "enter" /\ Status(Top.id) # CLOSE
    /\ Return(FALSE)
    /\ UNCHANGED <<header, diskHeader, inode, disk, list>>

(* The call is made for the brother. *)
BadCall(at) ==
    /\ stack' = Front(stack) \o
                <<[Top EXCEPT !.at = at], Frame(Callee(Top.fn), Brother(Top.id))>>
    /\ UNCHANGED <<header, diskHeader, inode, disk, list, result>>

Call(at) ==
    /\ stack' = Front(stack) \o
                <<[Top EXCEPT !.at = at], Frame(Callee(Top.fn), Child(Top.id))>>
    /\ UNCHANGED <<header, diskHeader, inode, disk, list, result>>

(* The inode is updated before the children are dealt with. *)
BadDeleteChild ==
    /\ ~Idle
    /\ Top.at = "enter" /\ Status(Top.id) = CLOSE
    /\ Top.fn = "sameLevel" => Child(Top.id) # NoDoc
    /\ stack' = Front(stack) \o
                <<[Top EXCEPT !.at = "child"], Frame(Callee(Top.fn), Child(Top.id))>>
    /\ inode' = [inode EXCEPT ![Top.id].status = REMOVE]
    /\ UNCHANGED <<header, diskHeader, disk, list, result>>

(* deleteDocument calls for the child even when there is none. *)
DeleteChild ==
    /\ ~Idle
    /\ Top.at = "enter" /\ Status(Top.id) = CLOSE
    /\ Top.fn = "sameLevel" => Child(Top.id) # NoDoc
    /\ Call("child")

(* The second call is made until it succeeds. *)
BadRetryChild ==
    /\ ~Idle
    /\ Top.fn = "sameLevel" /\ Top.at = "child"
    /\ ~result /\ Brother(Top.id) # NoDoc
    /\ Call("child")

(* deleteSameLevelDocuments, operation.c:43: the test is of the brother,   *)
(* the call is for the child once more.                                    *)
RetryChild ==
    /\ ~Idle
    /\ Top.fn = "sameLevel" /\ Top.at = "child"
    /\ ~result /\ Brother(Top.id) # NoDoc
    /\ Call("retry")

GiveUp ==
    /\ ~Idle
    /\ Top.at = "retry" /\ ~result
    /\ Return(FALSE)
    /\ UNCHANGED <<header, diskHeader, inode, disk, list>>

(* The child has been dealt with.  deleteDocument ignores how. *)
ChildDone ==
    \/ /\ Top.fn = "document"
       /\ Top.at = "child"
    \/ /\ Top.fn = "sameLevel"
       /\ \/ Top.at = "enter" /\ Status(Top.id) = CLOSE /\ Child(Top.id) = NoDoc
          \/ Top.at = "child" /\ (result \/ Brother(Top.id) = NoDoc)
          \/ Top.at = "retry" /\ result

(* The status of the inode is not updated. *)
BadFreeDocument ==
    /\ ~Idle
    /\ ChildDone
    /\ list' = InsertNode(list, CreateNode(Top.id, MetaOf(Top.id).size))
    /\ Return(TRUE)
    /\ UNCHANGED <<header, diskHeader, inode, disk>>

(* The meta_t read on entry: nothing writes the data area meanwhile. *)
FreeDocument ==
    /\ ~Idle
    /\ ChildDone
    /\ list' = InsertNode(list, CreateNode(Top.id, MetaOf(Top.id).size))
    /\ inode' = [inode EXCEPT ![Top.id].status = REMOVE]
    /\ Return(TRUE)
    /\ UNCHANGED <<header, diskHeader, disk>>

DeleteStep == DeleteRejected \/ DeleteChild \/ RetryChild \/ GiveUp \/ FreeDocument

-----------------------------------------------------------------------------
Next ==
    \/ \E parent \in Ids : InsertRejected(parent)
    \/ \E parent \in Links, d \in Documents : InsertIntoGap(parent, d)
    \/ \E parent \in Links, d \in Documents : InsertAtEnd(parent, d)
    \/ \E id \in Ids : DeleteDocument(id)
    \/ DeleteStep

(* A deletion that has begun runs on: the program has one thread. *)
Spec == Init /\ [][Next]_vars /\ WF_vars(DeleteStep)
=============================================================================
