---------------------------- MODULE StringUpdate ----------------------------
(***************************************************************************)
(* updateDocument and updateString (lab1/src/operation.c) on the document  *)
(* file.  A value of fixed size is written over the old one; a string that *)
(* changes its length moves the rest of its block, and the block itself    *)
(* when it has grown and is not the last of the file.                      *)
(*                                                                         *)
(* An UPDATE query reads the document once and then updates one element    *)
(* after the other (query.c:99-103), an action for each.  The cells behind *)
(* a block are what writeElement writes: type and key, then the value or   *)
(* the length and the characters of a string, each in one cell.            *)
(*                                                                         *)
(* As in DocFile the inodes created with the file must last: an update     *)
(* that would need reallocateNewInode is not tried.                        *)
(***************************************************************************)
EXTENDS DocFileProps, Elements

CONSTANTS Keys, Values,  \* of the elements
          ContentOf,     \* the elements of a document
          Updates        \* the new elements (query->newDocument) of the updates tried

ElementSet ==
    {e \in [key : Keys, type : Types, val : Values] :
        e.type = "STRING" => e.val \in DOMAIN StrLen}

ASSUME StringUpdateAssumption ==
    /\ KeySize = 1 /\ \A t \in Types : FixedSize[t] = 1
    /\ ContentOf \in [Documents -> Seq(ElementSet)]
    /\ Updates \subseteq Seq(ElementSet)
    /\ \A d \in Documents : DocSize[d] = 1 + ElementsSize(ContentOf[d], Len(ContentOf[d]))

VARIABLE update  \* << >>, or the update in progress

updateVars == <<vars, update>>

UpdateInit == Init /\ update = << >>

-----------------------------------------------------------------------------
StringCells(v) == <<[len |-> StrLen[v]]>> \o [k \in 1..StrLen[v] |-> [char |-> v, at |-> k]]

ElementCells(e) ==
    <<[key |-> e.key, type |-> e.type]>> \o
    IF e.type = "STRING" THEN StringCells(e.val) ELSE <<[val |-> e.val]>>

(* The cells of the elements of a document as they were inserted. *)
Written ==
    [d \in Documents |-> [at \in 2..DocSize[d] |->
        LET els == ContentOf[d]
            k   == CHOOSE k \in DOMAIN els :
                       1 + ElementsSize(els, k - 1) < at /\ at <= 1 + ElementsSize(els, k)
        IN  ElementCells(els[k])[at - 1 - ElementsSize(els, k - 1)]]]

Cell(a) ==
    IF a \notin DOMAIN disk THEN [none |-> a]
    ELSE IF DOMAIN disk[a] = {"doc", "at"} THEN Written[disk[a].doc][disk[a].at] ELSE disk[a]

Has(cell, field) == field \in DOMAIN cell

(* The value no element has: what is read is not what was ever written.    *)
Garbled == -1

(* The string whose length cell is at a. *)
ReadString(a) ==
    LET fits(v) == \A k \in 0..StrLen[v] : Cell(a + k) = StringCells(v)[k + 1]
    IN  IF \E v \in DOMAIN StrLen : fits(v) THEN CHOOSE v \in DOMAIN StrLen : fits(v)
        ELSE Garbled

(* readElement at a. *)
ReadElement(a) ==
    LET head == Cell(a)
    IN  IF ~Has(head, "key") THEN Element("", "INT", Garbled)
        ELSE Element(head.key, head.type,
                     IF head.type = "STRING" THEN ReadString(a + 1)
                     ELSE IF Has(Cell(a + 1), "val") THEN Cell(a + 1).val ELSE Garbled)

(* The cells the element at a takes, by what is found there. *)
ElementCellsAt(a) ==
    IF Has(Cell(a), "type") /\ Cell(a).type = "STRING" /\ Has(Cell(a + 1), "len")
    THEN 2 + Cell(a + 1).len ELSE 2

(* readDocument: the elements follow each other behind the block. *)
ReadDocument(i) ==
    LET n == Len(ContentOf[MetaOf(i).doc])
        start[k \in 1..n] == IF k = 1 THEN inode[i].pos + 1
                             ELSE start[k - 1] + ElementCellsAt(start[k - 1])
    IN  [k \in 1..n |-> ReadElement(start[k])]

-----------------------------------------------------------------------------
Updating == update # << >>
Now == update[1]

(* The elements of the document that an update will write, in its order:   *)
(* the first with the key and type (getIndexForDocumentUpdate).            *)
IndexOf(els, e) == SelectInSeq(els, LAMBDA f : SameKeyAndType(f, e))

UnplacedInodes == Cardinality({k \in DOMAIN list : list[k].size = 0})

BeginUpdate(id, new) ==
    /\ Idle /\ ~Updating
    /\ Status(id) = CLOSE
    /\ Len(new) <= UnplacedInodes
    /\ \A k \in DOMAIN new : IndexOf(ReadDocument(id), new[k]) # 0
    /\ update' = <<[id |-> id, meta |-> MetaOf(id), document |-> ReadDocument(id),
                  new |-> new, todo |-> new]>>
    /\ UNCHANGED vars

EndUpdate ==
    /\ Updating /\ Now.todo = << >>
    /\ update' = << >>
    /\ UNCHANGED vars

New == Head(Now.todo)
Index == IndexOf(Now.document, New)
Old == Now.document[Index]
Pos == inode[Now.id].pos

(* The place of the value in the block, by the document as it was read     *)
(* before the first update.                                                *)
Offset == 1 + ElementsSize(Now.document, Index - 1) + KeySize

Delta == StrLen[New.val] - StrLen[Old.val]

Next1(meta) == update' = <<[Now EXCEPT !.meta = meta, !.todo = Tail(@)]>>

WritesElement(type) == Updating /\ Now.todo # << >> /\ (New.type = "STRING") = (type = "STRING")

UpdateFixed ==
    /\ WritesElement("FIXED")
    /\ disk' = WriteAt(disk, Pos + Offset, <<[val |-> New.val]>>)
    /\ Next1(Now.meta)
    /\ UNCHANGED <<header, diskHeader, inode, list, stack, result>>

(* What stands behind the string is not moved. *)
BadRewritten(area, pos) ==
    WriteAt(WriteAt(area, pos, <<[Now.meta EXCEPT !.size = @ + Delta]>>),
            pos + Offset, StringCells(New.val))

(* Behind the string the block is shifted by Delta; then block and string  *)
(* are written.  pos is the place of the block by now.                     *)
Rewritten(area, pos) ==
    LET from == pos + Offset + 1 + StrLen[Old.val]
        tail == [k \in 1..(pos + Now.meta.size - from) |-> area[from + k - 1]]
        meta == [Now.meta EXCEPT !.size = @ + Delta]
    IN  WriteAt(WriteAt(WriteAt(area, from + Delta, tail), pos, <<meta>>),
                pos + Offset, StringCells(New.val))

(* move fails when the rest of the block is less than nothing: a size of   *)
(* uint64_t that no file has.                                              *)
TailExists == Offset + 1 + StrLen[Old.val] <= Now.meta.size

(* The size in memory stays as it was read. *)
BadWriteString(area, pos) ==
    IF TailExists
    THEN disk' = Rewritten(area, pos) /\ Next1(Now.meta)
    ELSE disk' = area /\ Next1(Now.meta)

(* The end of updateString, for a block at pos in area. *)
WriteString(area, pos) ==
    IF TailExists
    THEN disk' = Rewritten(area, pos) /\ Next1([Now.meta EXCEPT !.size = @ + Delta])
    ELSE disk' = area /\ Next1(Now.meta)

AtEnd == Pos + Now.meta.size = header.endPosition
GapFitsGrown == list # << >> /\ list[1].size >= Now.meta.size + Delta

UpdateInPlace ==
    /\ WritesElement("STRING")
    /\ Delta <= 0
    /\ WriteString(disk, Pos)
    /\ UNCHANGED <<header, diskHeader, inode, list, stack, result>>

GrowAtEnd ==
    /\ WritesElement("STRING")
    /\ Delta > 0 /\ AtEnd
    /\ header' = [header EXCEPT !.endPosition = @ + Delta]
    /\ diskHeader' = header'
    /\ WriteString(disk, Pos)
    /\ UNCHANGED <<inode, list, stack, result>>

(* operation.c:129: the gap at the front of the list is refused because it *)
(* is not in use.  updateDocument does not look at what updateString       *)
(* returned.                                                               *)
GrowIntoGap ==
    /\ WritesElement("STRING")
    /\ Delta > 0 /\ ~AtEnd /\ GapFitsGrown
    /\ inode[list[1].index].status # CLOSE
    /\ Next1(Now.meta)
    /\ UNCHANGED vars

(* endPosition is moved by the size before the growth. *)
BadGrowByMoving ==
    /\ WritesElement("STRING")
    /\ Delta > 0 /\ ~AtEnd /\ ~GapFitsGrown
    /\ LET gap    == Last(list).index
           end    == header.endPosition
           block  == [k \in 1..Now.meta.size |-> disk[Pos + k - 1]]
           vacant == <<[Now.meta EXCEPT !.id = gap]>>
       IN  /\ inode[gap].status = OPEN
           /\ inode' = [inode EXCEPT ![gap].status = REMOVE, ![gap].pos = Pos, ![Now.id].pos = end]
           /\ list' = InsertNode(PopMinSizeNode(list), CreateNode(gap, Now.meta.size))
           /\ header' = [header EXCEPT !.endPosition = @ + Now.meta.size]
           /\ WriteString(WriteAt(WriteAt(disk, end, block), Pos, vacant), end)
    /\ diskHeader' = header'
    /\ UNCHANGED <<stack, result>>

(* The gap is listed with the size after the growth. *)
ForgetfulGrowByMoving ==
    /\ WritesElement("STRING")
    /\ Delta > 0 /\ ~AtEnd /\ ~GapFitsGrown
    /\ LET gap    == Last(list).index
           end    == header.endPosition
           block  == [k \in 1..Now.meta.size |-> disk[Pos + k - 1]]
           vacant == <<[Now.meta EXCEPT !.id = gap]>>
       IN  /\ inode[gap].status = OPEN
           /\ inode' = [inode EXCEPT ![gap].status = REMOVE, ![gap].pos = Pos, ![Now.id].pos = end]
           /\ list' = InsertNode(PopMinSizeNode(list), CreateNode(gap, Now.meta.size + Delta))
           /\ header' = [header EXCEPT !.endPosition = @ + Now.meta.size + Delta]
           /\ WriteString(WriteAt(WriteAt(disk, end, block), Pos, vacant), end)
    /\ diskHeader' = header'
    /\ UNCHANGED <<stack, result>>

(* The old place becomes the gap of the inode from the back of the list. *)
GrowByMoving ==
    /\ WritesElement("STRING")
    /\ Delta > 0 /\ ~AtEnd /\ ~GapFitsGrown
    /\ LET gap    == Last(list).index
           end    == header.endPosition
           block  == [k \in 1..Now.meta.size |-> disk[Pos + k - 1]]
           vacant == <<[Now.meta EXCEPT !.id = gap]>>
       IN  /\ inode[gap].status = OPEN
           /\ inode' = [inode EXCEPT ![gap].status = REMOVE, ![gap].pos = Pos, ![Now.id].pos = end]
           /\ list' = InsertNode(PopMinSizeNode(list), CreateNode(gap, Now.meta.size))
           /\ header' = [header EXCEPT !.endPosition = @ + Now.meta.size + Delta]
           /\ WriteString(WriteAt(WriteAt(disk, end, block), Pos, vacant), end)
    /\ diskHeader' = header'
    /\ UNCHANGED <<stack, result>>

UpdateStep == UpdateFixed \/ UpdateInPlace \/ GrowAtEnd \/ GrowIntoGap \/ GrowByMoving

(* The other queries, which insert under the root as the tests do. *)
Client ==
    \/ \E d \in Documents : InsertIntoGap(header.root, d) \/ InsertAtEnd(header.root, d)
    \/ \E id \in Ids : DeleteDocument(id)
    \/ DeleteStep

UpdateNext ==
    \/ ~Updating /\ Client /\ UNCHANGED update
    \/ \E id \in Ids, new \in Updates : BeginUpdate(id, new)
    \/ UpdateStep
    \/ EndUpdate

UpdateSpec == UpdateInit /\ [][UpdateNext]_updateVars

-----------------------------------------------------------------------------
(* The cells of the block of inode i, in use or a gap. *)
BlockCells(i) == inode[i].pos..(inode[i].pos + MetaOf(i).size - 1)

UpdateTypeOK ==
    /\ header \in Headers /\ diskHeader \in Headers
    /\ inode \in [Ids -> Inodes]
    /\ DOMAIN disk = DataArea
    /\ \A i \in Placed : MetaOf(i) \in Metas
    /\ list \in Seq([index : Ids, size : Nat])
    /\ Len(update) <= 1
    /\ Updating => Now.meta = MetaOf(Now.id)

(* Blocks that grow, shrink and move stay apart, documents and gaps, and   *)
(* inside the file, each under its own number.                             *)
BlocksApart ==
    /\ \A i \in Placed : MetaOf(i).id = i /\ BlockCells(i) \subseteq DataArea
    /\ \A i, j \in Placed : i # j => BlockCells(i) \cap BlockCells(j) = {}

UpdatesElement ==
    \A i \in Ids : Status(i) = CLOSE =>
        /\ ReadDocument(i)' = IF i # Now.id THEN ReadDocument(i)
                              ELSE [ReadDocument(i) EXCEPT ![Index].val = New.val]
        /\ Child(i)' = Child(i) /\ Brother(i)' = Brother(i)

(* operation.c:120, "if the document is not at the end of the file, look   *)
(* for a gap and move it there": an update of one element gives the        *)
(* document the new value and leaves its other elements and its links      *)
(* alone, wherever the block goes.  No other document changes.             *)
UpdateExact == [][UpdateStep => UpdatesElement]_updateVars

(* It does unless the string would have to move into a gap, which          *)
(* updateString refuses (operation.c:129): in place, at the end of the     *)
(* file, or moved to its end behind gaps that are too small.               *)
WritesExact == [][UpdateStep /\ ~GrowIntoGap => UpdatesElement]_updateVars

(* tests.c:109, "a document that keeps key, type and value of the elements  *)
(* to update": when an update is done, every element of the new document   *)
(* has its value in the file.                                              *)
UpdateWritesAll ==
    Updating /\ Now.todo = << >> =>
        \A k \in DOMAIN Now.new :
            ReadDocument(Now.id)[IndexOf(Now.document, Now.new[k])] = Now.new[k]
=============================================================================
