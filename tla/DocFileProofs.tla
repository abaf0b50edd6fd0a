--------------------------- MODULE DocFileProofs ---------------------------
(***************************************************************************)
(* The safety of the document file, and that it implements a table of      *)
(* documents and wastes no cell, for every number of inodes and every set  *)
(* of documents.                                                           *)
(***************************************************************************)
EXTENDS DocFileProps, FreeListProofs, FiniteSetTheorems

(* The part of the invariant that the lists and the recursion rest on and  *)
(* that says nothing of how the blocks lie in the data area: the types of  *)
(* everything but the cells, the free list, the blocks' numbers and links. *)
Bookkeeping ==
    /\ header \in Headers /\ diskHeader \in Headers
    /\ inode \in [Ids -> Inodes]
    /\ list \in Seq(Nodes(Ids))
    /\ stack \in Seq(Frames) /\ result \in BOOLEAN
    /\ DataStart <= header.endPosition
    /\ \A i \in Placed : MetaOf(i) \in Metas /\ MetaOf(i).id = i
    /\ FreeListExact
    /\ NoChildCycle
    /\ StackChained

(* The block of document i once id has been inserted under parent. *)
BlockAfter(i, parent, id) ==
    IF i = parent THEN [MetaOf(i) EXCEPT !.child = id] ELSE MetaOf(i)

-----------------------------------------------------------------------------
(* What the bookkeeping and the assumption on the constants say of         *)
(* numbers, inodes and list nodes: every leaf that reads one cites it.     *)
LEMMA BookBasics ==
    ASSUME Bookkeeping
    PROVE  /\ C_DEFAULT \in Nat /\ DataStart \in Nat
           /\ DocSize \in [Documents -> Nat \ {0}]
           /\ OPEN # CLOSE /\ OPEN # REMOVE /\ CLOSE # REMOVE
           /\ NoDoc \notin Ids /\ Ids \subseteq Int
           /\ header.endPosition \in Nat /\ DataStart <= header.endPosition
           /\ \A i \in Ids : /\ inode[i].status \in {OPEN, CLOSE, REMOVE}
                             /\ inode[i].pos \in Nat /\ inode[i].size \in Nat
           /\ Len(list) \in Nat /\ DOMAIN list = 1..Len(list)
           /\ \A k \in 1..Len(list) : list[k].index \in Ids /\ list[k].size \in Nat
<1>1. header.endPosition \in Nat /\ DataStart <= header.endPosition
  BY DEF Bookkeeping, Headers
<1>2. \A i \in Ids : /\ inode[i].status \in {OPEN, CLOSE, REMOVE}
                     /\ inode[i].pos \in Nat /\ inode[i].size \in Nat
  BY DEF Bookkeeping, Inodes
<1>3. list \in Seq(Nodes(Ids))
  BY DEF Bookkeeping, Nodes
<1>4. /\ Len(list) \in Nat /\ DOMAIN list = 1..Len(list)
      /\ list \in [1..Len(list) -> Nodes(Ids)]
  BY <1>3, LenProperties
<1>5. \A k \in 1..Len(list) : list[k].index \in Ids /\ list[k].size \in Nat
  BY <1>4 DEF Nodes
<1>6. C_DEFAULT \in Nat /\ NoDoc \notin Ids /\ Ids \subseteq Int
  BY DocFileAssumption DEF Ids, NoDoc
<1> QED
  BY <1>1, <1>2, <1>4, <1>5, <1>6, DocFileAssumption

(* What it says of an inode that has a place. *)
LEMMA NamedBlock ==
    ASSUME Bookkeeping, NEW i \in Placed
    PROVE  /\ i \in Ids /\ inode[i].pos \in Nat
           /\ MetaOf(i) \in Metas /\ MetaOf(i).id = i
           /\ MetaOf(i).size \in Nat \ {0}
           /\ Child(i) \in Links /\ Brother(i) \in Links
<1>1. i \in Ids /\ MetaOf(i) \in Metas /\ MetaOf(i).id = i
  BY DEF Bookkeeping, Placed
<1>2. /\ MetaOf(i).size \in Nat \ {0}
      /\ MetaOf(i).child \in Links /\ MetaOf(i).brother \in Links
  BY <1>1 DEF Metas
<1> QED
  BY <1>1, <1>2, BookBasics DEF Child, Brother

-----------------------------------------------------------------------------
(* The steps of the recursion that only call or return. *)
LEMMA CallsKeepTheRest ==
    ASSUME Bookkeeping, UNCHANGED <<header, diskHeader, inode, disk, list>>,
           stack' \in Seq(Frames), result' \in BOOLEAN, StackChained'
    PROVE  Bookkeeping'
<1>1. \A i \in Placed' : MetaOf(i)' \in Metas /\ MetaOf(i)'.id = i
  BY DEF Bookkeeping, Placed, MetaOf
<1>2. FreeListExact'
  BY DEF Bookkeeping, FreeListExact, Listed, NodeMatches, MetaOf
<1>3. NoChildCycle'
  BY DEF Bookkeeping, NoChildCycle, Placed, Child, MetaOf
<1> QED
  BY <1>1, <1>2, <1>3 DEF Bookkeeping

(* The frames of a deletion in progress. *)
LEMMA StackFacts ==
    ASSUME Bookkeeping, ~Idle
    PROVE  /\ Len(stack) \in Nat \ {0}
           /\ stack \in [1..Len(stack) -> Frames]
           /\ Top = stack[Len(stack)] /\ Top \in Frames
           /\ Front(stack) \in Seq(Frames) /\ Len(Front(stack)) = Len(stack) - 1
           /\ \A k \in 1..(Len(stack) - 1) : Front(stack)[k] = stack[k]
<1>1. stack \in Seq(Frames) /\ stack # << >>
  BY DEF Bookkeeping, Idle
<1>2. Len(stack) \in Nat \ {0} /\ stack \in [1..Len(stack) -> Frames]
  BY <1>1, EmptySeq, LenProperties
<1>3. Top = stack[Len(stack)] /\ Top \in Frames
  BY <1>2 DEF Top, Last
<1>4. 1 \in Int /\ Len(stack) - 1 \in Int /\ \A i \in 1..(Len(stack) - 1) : stack[i] \in Frames
  BY <1>2
<1>5. /\ SubSeq(stack, 1, Len(stack) - 1) \in Seq(Frames)
      /\ Len(SubSeq(stack, 1, Len(stack) - 1)) = Len(stack) - 1
      /\ \A k \in 1..(Len(stack) - 1) : SubSeq(stack, 1, Len(stack) - 1)[k] = stack[k]
  BY <1>2, <1>4, SubSeqProperties
<1> QED
  BY <1>2, <1>3, <1>5 DEF Front

(* The frame below the top, and a top that has called, are in use. *)
LEMMA FrameInUse ==
    ASSUME Bookkeeping, ~Idle, NEW k \in 1..Len(stack),
           k < Len(stack) \/ stack[k].at # "enter"
    PROVE  /\ stack[k].id \in Placed /\ inode[stack[k].id].status = CLOSE
           /\ k < Len(stack) => stack[k + 1].id = Child(stack[k].id)
<1>1. k \in DOMAIN stack
  BY StackFacts
<1>2. Status(stack[k].id) = CLOSE /\ (k < Len(stack) => stack[k + 1].id = Child(stack[k].id))
  BY <1>1 DEF Bookkeeping, StackChained
<1> QED
  BY <1>2, BookBasics DEF Status, Placed

(* A call of deleteDocument by a client only begins a chain of calls.      *)
LEMMA DeleteDocumentBooks ==
    ASSUME Bookkeeping, NEW id \in Ids, DeleteDocument(id)
    PROVE  Bookkeeping'
<1>1. Frame("document", id) \in Frames /\ Frame("document", id).at = "enter"
  BY DEF Frame, Frames, Links
<1>2. stack' \in Seq(Frames) /\ result' \in BOOLEAN
  BY <1>1 DEF DeleteDocument, Bookkeeping, TypeOK
<1>3. StackChained'
  BY <1>1 DEF DeleteDocument, StackChained
<1>4. UNCHANGED <<header, diskHeader, inode, disk, list>>
  BY DEF DeleteDocument
<1> QED
  BY <1>2, <1>3, <1>4, CallsKeepTheRest

(* A return without a change to the file. *)
LEMMA ReturnBooks ==
    ASSUME Bookkeeping, ~Idle, NEW v \in BOOLEAN, Return(v),
           UNCHANGED <<header, diskHeader, inode, disk, list>>
    PROVE  Bookkeeping'
<1>1. stack' \in Seq(Frames) /\ result' \in BOOLEAN /\ DOMAIN stack' = 1..(Len(stack) - 1)
  BY StackFacts, LenProperties DEF Return
<1>2. \A k \in 1..(Len(stack) - 1) : stack'[k] = stack[k]
  BY StackFacts DEF Return
<1>3. Len(stack') = Len(stack) - 1
  BY StackFacts DEF Return
<1>4. ASSUME NEW k \in 1..(Len(stack) - 1)
      PROVE  /\ (Status(stack[k].id) = CLOSE)'
             /\ k < Len(stack') => (stack[k + 1].id = Child(stack[k].id))'
  <2>1. k \in 1..Len(stack) /\ k < Len(stack)
    BY StackFacts
  <2>2. inode[stack[k].id].status = CLOSE /\ stack[k].id \in Ids
        /\ stack[k + 1].id = Child(stack[k].id)
    BY <2>1, FrameInUse DEF Placed
  <2>3. stack'[k].id = stack[k].id /\ (k < Len(stack') => stack'[k + 1].id = stack[k + 1].id)
    BY <1>2, <1>3, <2>1, StackFacts
  <2> QED
    BY <2>2, <2>3 DEF Status, Child, MetaOf
<1>5. StackChained'
  BY <1>1, <1>3, <1>4, StackFacts DEF StackChained
<1> QED
  BY <1>1, <1>5, CallsKeepTheRest

(* A call for the child of the document on top, which is in use. *)
LEMMA CallBooks ==
    ASSUME Bookkeeping, ~Idle, NEW at \in {"child", "retry"}, Call(at),
           Top.id \in Placed, inode[Top.id].status = CLOSE
    PROVE  Bookkeeping'
<1> DEFINE n == Len(stack)
           caller == [Top EXCEPT !.at = at]
           callee == Frame(Callee(Top.fn), Child(Top.id))
<1>1. /\ caller \in Frames /\ caller.id = Top.id
      /\ callee \in Frames /\ callee.id = Child(Top.id) /\ callee.at = "enter"
  <2>1. Child(Top.id) \in Links
    BY NamedBlock
  <2> QED
    BY <2>1, StackFacts DEF Frames, Frame, Callee
<1>0. /\ n \in Nat \ {0} /\ Top = stack[n] /\ Len(Front(stack)) = n - 1
      /\ Front(stack) \in Seq(Frames)
      /\ \A k \in 1..(n - 1) : Front(stack)[k] = stack[k]
  BY StackFacts
<1> HIDE DEF caller, callee, n
<1>2. /\ <<caller, callee>> \in Seq(Frames) /\ Len(<<caller, callee>>) = 2
      /\ <<caller, callee>>[1] = caller /\ <<caller, callee>>[2] = callee
  BY <1>1
<1>3. stack' = Front(stack) \o <<caller, callee>>
  BY DEF Call, caller, callee
<1>4. /\ stack' \in Seq(Frames) /\ Len(stack') = n + 1 /\ DOMAIN stack' = 1..(n + 1)
      /\ \A k \in 1..(n + 1) : stack'[k] = IF k <= n - 1 THEN stack[k]
                                            ELSE IF k = n THEN caller ELSE callee
  <2>1. /\ stack' \in Seq(Frames) /\ Len(stack') = n + 1
        /\ \A k \in 1..(n + 1) : stack'[k] = IF k <= n - 1 THEN Front(stack)[k]
                                              ELSE <<caller, callee>>[k - (n - 1)]
    BY <1>2, <1>3, <1>0, ConcatProperties
  <2>2. DOMAIN stack' = 1..(n + 1)
    BY <2>1, LenProperties
  <2> QED
    BY <1>2, <2>1, <2>2, <1>0
<1>5. UNCHANGED <<header, diskHeader, inode, disk, list, result>>
  BY DEF Call
<1>6. ASSUME NEW k \in 1..n
      PROVE  (Status(stack[k].id) = CLOSE)' /\ (stack[k + 1].id = Child(stack[k].id))'
  <2>1. CASE k < n
    <3>1. inode[stack[k].id].status = CLOSE /\ stack[k].id \in Ids
          /\ stack[k + 1].id = Child(stack[k].id)
      BY <1>0, <2>1, FrameInUse DEF Placed, n
    <3>2. stack'[k].id = stack[k].id /\ stack'[k + 1].id = stack[k + 1].id
      BY <1>1, <1>4, <2>1, <1>0
    <3> QED
      BY <1>5, <3>1, <3>2 DEF Status, Child, MetaOf
  <2>2. CASE k = n
    <3>1. stack'[k].id = Top.id /\ stack'[k + 1].id = Child(Top.id)
      BY <1>1, <1>4, <2>2, <1>0
    <3> QED
      BY <1>5, <3>1 DEF Status, Child, MetaOf, Placed
  <2> QED
    BY <2>1, <2>2, <1>0
<1>7. StackChained'
  <2>1. stack'[n + 1].at = "enter"
    BY <1>1, <1>4, <1>0
  <2> QED
    BY <1>0, <1>4, <1>6, <2>1 DEF StackChained
<1>8. result' \in BOOLEAN
  BY <1>5 DEF Bookkeeping
<1> QED
  BY <1>4, <1>5, <1>7, <1>8, CallsKeepTheRest

-----------------------------------------------------------------------------
(* No document is met twice on the stack of calls: a repetition would be a *)
(* cycle of child links.  The document on top is in use when it is freed,  *)
(* and freeing it leaves the ones below in use.                            *)
LEMMA NoDocumentTwice ==
    ASSUME Bookkeeping, ~Idle, Top.id \in Placed,
           NEW k \in 1..(Len(stack) - 1)
    PROVE  stack[k].id # Top.id
<1> DEFINE n == Len(stack)
           S == {stack[j].id : j \in k..(n - 1)}
<1>0. n \in Nat \ {0} /\ Top = stack[n]
  BY StackFacts
<1>1. \A j \in k..(n - 1) : stack[j].id \in Placed /\ stack[j + 1].id = Child(stack[j].id)
  BY <1>0, FrameInUse
<1> SUFFICES ASSUME stack[k].id = stack[n].id PROVE FALSE
  BY <1>0
<1>2. S \in SUBSET Placed /\ S # {}
  BY <1>0, <1>1
<1>3. ASSUME NEW j \in k..(n - 1) PROVE Child(stack[j].id) \in S
  <2>1. CASE j + 1 = n
    <3>1. Child(stack[j].id) = stack[k].id /\ k \in k..(n - 1)
      BY <1>0, <1>1, <2>1
    <3> QED
      BY <3>1
  <2>2. CASE j + 1 # n
    BY <1>0, <1>1, <2>2
  <2> QED
    BY <2>1, <2>2
<1>4. \A i \in S : Child(i) \in S
  BY <1>3
<1> QED
  BY <1>2, <1>4 DEF Bookkeeping, NoChildCycle

(* Whichever way the recursion comes to free a document, it is in use. *)
LEMMA FreedInUse ==
    ASSUME Bookkeeping, ~Idle, ChildDone
    PROVE  Top.id \in Placed /\ Top.id \in Ids /\ inode[Top.id].status = CLOSE
<1>0. Len(stack) \in Nat \ {0} /\ Top = stack[Len(stack)]
  BY StackFacts
<1>1. CASE Top.at # "enter"
  BY <1>0, <1>1, FrameInUse DEF Placed
<1>2. CASE Top.at = "enter"
  <2>1. Status(Top.id) = CLOSE
    BY <1>2 DEF ChildDone
  <2> QED
    BY <2>1, BookBasics DEF Status, Placed
<1> QED
  BY <1>1, <1>2

(* insertNode and updateInodeStatus at the end of a deletion turn the      *)
(* document on top of the stack into a listed gap and touch nothing else.  *)
LEMMA FreeDocumentBooks ==
    ASSUME Bookkeeping, FreeDocument
    PROVE  Bookkeeping'
<1> DEFINE x == Top.id
           node == CreateNode(x, MetaOf(x).size)
<1>1. ~Idle /\ ChildDone
  BY DEF FreeDocument
<1>2. x \in Placed /\ x \in Ids /\ inode[x].status = CLOSE
  BY <1>1, FreedInUse
<1>3. /\ list' = InsertNode(list, node)
      /\ inode' = [inode EXCEPT ![x].status = REMOVE]
      /\ UNCHANGED <<header, diskHeader, disk>>
      /\ stack' = Front(stack) /\ result' = TRUE
  BY DEF FreeDocument, Return
<1>4. /\ list \in Seq(Nodes(Ids)) /\ node \in Nodes(Ids)
      /\ node.index = x /\ node.size = MetaOf(x).size
  <2>1. MetaOf(x).size \in Nat
    BY <1>2, NamedBlock
  <2> QED
    BY <1>2, <2>1 DEF Bookkeeping, CreateNode, Nodes
<1>5. inode \in [Ids -> Inodes]
  BY DEF Bookkeeping
<1> HIDE DEF x, node
<1>6. /\ inode' \in [Ids -> Inodes]
      /\ \A i \in Ids : inode'[i].pos = inode[i].pos /\ inode'[i].size = inode[i].size
      /\ \A i \in Ids : i # x => inode'[i].status = inode[i].status
      /\ inode'[x].status = REMOVE
  BY <1>2, <1>3, <1>5 DEF Inodes
<1>7. /\ Once(list) /\ Sorted(list) /\ Indexes(list) = {i \in Ids : inode[i].status # CLOSE}
      /\ \A m \in NodesOn(list) : NodeMatches(m) /\ m.index \in Indexes(list)
  BY DEF Bookkeeping, FreeListExact, Listed, Once, Indexes, NodesOn
<1>8. /\ list' \in Seq(Nodes(Ids)) /\ Once(list') /\ Sorted(list')
      /\ Indexes(list') = Indexes(list) \cup {x}
      /\ NodesOn(list') = NodesOn(list) \cup {node}
  <2>1. x \notin Indexes(list)
    BY <1>2, <1>7
  <2>2. Indexes(list') = Indexes(list) \cup {x} /\ Once(list')
    BY <1>3, <1>4, <1>7, <2>1, InsertNodeIndexes
  <2>3. list' \in Seq(Nodes(Ids))
    BY <1>3, <1>4, InsertNodeProperties
  <2>4. Sorted(list')
    BY <1>3, <1>4, <1>7, InsertNodeSorted
  <2>5. NodesOn(list') = NodesOn(list) \cup {node}
    BY <1>3, <1>4, InsertNodeNodes
  <2> QED
    BY <2>2, <2>3, <2>4, <2>5
<1>9. Placed' = Placed
  BY <1>2, <1>6, BookBasics DEF Placed
<1>10. \A i \in Ids : MetaOf(i)' = MetaOf(i) /\ Child(i)' = Child(i)
  BY <1>3, <1>6 DEF MetaOf, Child
<1>11. FreeListExact'
  <2>1. Indexes(list') = {i \in Ids : inode[i].status # CLOSE}'
    BY <1>2, <1>6, <1>7, <1>8, BookBasics
  <2>2. ASSUME NEW m \in NodesOn(list') PROVE NodeMatches(m)'
    <3>1. CASE m = node
      BY <1>2, <1>4, <1>6, <1>10, <3>1 DEF NodeMatches, x
    <3>2. CASE m \in NodesOn(list)
      <4>1. m.index \in Ids /\ m.index # x /\ NodeMatches(m)
        BY <1>2, <1>7, <3>2
      <4> QED
        BY <1>6, <1>10, <4>1 DEF NodeMatches
    <3> QED
      BY <1>8, <3>1, <3>2
  <2> QED
    BY <1>8, <2>1, <2>2 DEF FreeListExact, Listed, Once, Indexes, NodesOn
<1>12. NoChildCycle' /\ \A i \in Placed' : MetaOf(i)' \in Metas /\ MetaOf(i)'.id = i
  BY <1>9, <1>10 DEF Bookkeeping, NoChildCycle, Placed
<1>13. stack' \in Seq(Frames) /\ result' \in BOOLEAN
  BY <1>1, <1>3, StackFacts
<1>14. StackChained'
  <2> DEFINE m == Len(stack)
  <2>1. /\ m \in Nat \ {0} /\ stack' \in Seq(Frames) /\ Len(stack') = m - 1
        /\ \A k \in 1..(m - 1) : stack'[k] = stack[k]
    BY <1>1, <1>3, StackFacts
  <2>2. DOMAIN stack' = 1..(m - 1)
    BY <2>1, LenProperties
  <2>3. ASSUME NEW k \in 1..(m - 1)
        PROVE  /\ (Status(stack[k].id) = CLOSE)'
               /\ k < Len(stack') => (stack[k + 1].id = Child(stack[k].id))'
    <3>1. stack[k].id \in Ids /\ inode[stack[k].id].status = CLOSE
          /\ stack[k + 1].id = Child(stack[k].id)
      BY <1>1, <2>1, FrameInUse DEF Placed
    <3>2. stack[k].id # x
      BY <1>1, <1>2, NoDocumentTwice DEF x
    <3>3. /\ inode'[stack[k].id].status = CLOSE
          /\ disk'[inode'[stack[k].id].pos] = disk[inode[stack[k].id].pos]
      BY <1>3, <1>6, <3>1, <3>2
    <3>4. stack'[k].id = stack[k].id /\ (k < m - 1 => stack'[k + 1].id = stack[k + 1].id)
      BY <2>1
    <3> QED
      BY <2>1, <3>1, <3>3, <3>4 DEF Status, Child, MetaOf
  <2> HIDE DEF m
  <2> QED
    BY <2>1, <2>2, <2>3 DEF StackChained
<1> QED
  BY <1>3, <1>6, <1>8, <1>11, <1>12, <1>13, <1>14 DEF Bookkeeping

(* Every action of a deletion in progress keeps the invariant: the inner   *)
(* calls see the file as the outer ones left it, and only FreeDocument     *)
(* writes to it.                                                           *)
LEMMA DeleteStepBooks ==
    ASSUME Bookkeeping, DeleteStep
    PROVE  Bookkeeping'
<1>1. CASE DeleteRejected
  BY <1>1, ReturnBooks DEF DeleteRejected
<1>2. CASE GiveUp
  BY <1>2, ReturnBooks DEF GiveUp
<1>3. CASE DeleteChild
  <2>1. Status(Top.id) = CLOSE /\ ~Idle /\ Call("child")
    BY <1>3 DEF DeleteChild
  <2>2. Top.id \in Placed /\ inode[Top.id].status = CLOSE
    BY <2>1, BookBasics DEF Status, Placed
  <2> QED
    BY <2>1, <2>2, CallBooks
<1>4. CASE RetryChild
  <2>1. ~Idle /\ Top.at = "child" /\ Call("retry")
    BY <1>4 DEF RetryChild
  <2>2. Len(stack) \in 1..Len(stack) /\ Top = stack[Len(stack)]
    BY <2>1, StackFacts
  <2>3. Top.id \in Placed /\ inode[Top.id].status = CLOSE
    BY <2>1, <2>2, FrameInUse
  <2> QED
    BY <2>1, <2>3, CallBooks
<1>5. CASE FreeDocument
  BY <1>5, FreeDocumentBooks
<1> QED
  BY <1>1, <1>2, <1>3, <1>4, <1>5 DEF DeleteStep

(* A rejected insertion and a stuttering step leave the file as it is.     *)
LEMMA QuietBooks ==
    ASSUME Bookkeeping,
           UNCHANGED <<header, diskHeader, inode, disk, list, stack>>,
           result' \in BOOLEAN
    PROVE  Bookkeeping'
<1>1. stack' \in Seq(Frames)
  BY DEF Bookkeeping
<1>2. StackChained'
  BY DEF Bookkeeping, StackChained, Status, Child, MetaOf
<1> QED
  BY <1>1, <1>2, CallsKeepTheRest

(* A deletion in progress writes neither the header nor the data area, and *)
(* moves no inode that has a place.                                        *)
LEMMA DeleteStepKeeps ==
    ASSUME Bookkeeping, DeleteStep
    PROVE  /\ UNCHANGED <<header, diskHeader, disk>>
           /\ Placed' = Placed
           /\ \A i \in Ids : /\ inode'[i].pos = inode[i].pos /\ inode'[i].size = inode[i].size
                             /\ inode'[i].status = CLOSE => inode[i].status = CLOSE
<1>1. CASE FreeDocument
  <2>1. ~Idle /\ ChildDone /\ inode' = [inode EXCEPT ![Top.id].status = REMOVE]
        /\ UNCHANGED <<header, diskHeader, disk>>
    BY <1>1 DEF FreeDocument
  <2>2. Top.id \in Placed /\ Top.id \in Ids /\ inode \in [Ids -> Inodes]
    BY <2>1, FreedInUse DEF Bookkeeping
  <2>3. \A i \in Ids : /\ inode'[i].pos = inode[i].pos /\ inode'[i].size = inode[i].size
                       /\ inode'[i].status = IF i = Top.id THEN REMOVE ELSE inode[i].status
    BY <2>1, <2>2 DEF Inodes
  <2> QED
    BY <2>1, <2>2, <2>3, BookBasics DEF Placed
<1>2. CASE ~FreeDocument
  <2>1. UNCHANGED <<header, diskHeader, disk, inode>>
    BY <1>2 DEF DeleteStep, DeleteRejected, GiveUp, DeleteChild, RetryChild, Call
  <2> QED
    BY <2>1 DEF Placed
<1> QED
  BY <1>1, <1>2

-----------------------------------------------------------------------------
(* The child links after an insertion under a document in use: the new     *)
(* document has no child, so no set of blocks can close a cycle over it.   *)
LEMMA NewLeafNoCycle ==
    ASSUME Bookkeeping, NEW id \in Ids, NEW parent \in Links, NEW child,
           child[id] = NoDoc,
           \A i \in Placed \ {id} : child[i] = IF i = parent THEN id ELSE Child(i)
    PROVE  \A S \in SUBSET (Placed \cup {id}) : S # {} => \E i \in S : child[i] \notin S
<1> SUFFICES ASSUME NEW S \in SUBSET (Placed \cup {id}), S # {}
             PROVE  \E i \in S : child[i] \notin S
  OBVIOUS
<1>1. NoDoc \notin S
  BY BookBasics DEF Placed
<1>2. CASE id \in S
  BY <1>1, <1>2
<1>3. CASE id \notin S
  <2>1. S \in SUBSET Placed
    BY <1>3
  <2>2. PICK i \in S : Child(i) \notin S
    BY <2>1 DEF Bookkeeping, NoChildCycle
  <2> QED
    BY <1>3, <2>1, <2>2
<1> QED
  BY <1>2, <1>3

(* An insertion takes inode id off the list, writes a block without a      *)
(* child for it and makes it the child of its parent.                      *)
LEMMA InsertBooks ==
    ASSUME Bookkeeping, stack = << >>, stack' = stack, result' = TRUE,
           NEW id \in Ids, NEW parent \in Links, inode[id].status # CLOSE,
           header' \in Headers, diskHeader' \in Headers,
           DataStart <= header'.endPosition,
           inode' \in [Ids -> Inodes], inode'[id].status = CLOSE,
           \A i \in Ids \ {id} : inode'[i].status = inode[i].status,
           list' \in Seq(Nodes(Ids)), Once(list'), Sorted(list'),
           NodesOn(list') \subseteq NodesOn(list), Indexes(list') = Indexes(list) \ {id},
           MetaOf(id)' \in Metas, MetaOf(id)'.id = id, Child(id)' = NoDoc,
           \A i \in Placed \ {id} : MetaOf(i)' = BlockAfter(i, parent, id)
    PROVE  Bookkeeping'
<1>1. Placed' = Placed \cup {id}
  BY BookBasics DEF Placed
(* The block of every other document keeps its number and its size. *)
<1>2. ASSUME NEW i \in Placed \ {id}
      PROVE  /\ MetaOf(i)' \in Metas /\ MetaOf(i)'.id = i
             /\ MetaOf(i)'.size = MetaOf(i).size
             /\ Child(i)' = IF i = parent THEN id ELSE Child(i)
  <2>1. MetaOf(i) \in Metas /\ MetaOf(i).id = i /\ id \in Links
    BY NamedBlock DEF Links
  <2>2. MetaOf(i)' = IF i = parent THEN [MetaOf(i) EXCEPT !.child = id] ELSE MetaOf(i)
    BY DEF BlockAfter
  <2>3. MetaOf(i)' \in Metas /\ MetaOf(i)'.id = i /\ MetaOf(i)'.size = MetaOf(i).size
        /\ MetaOf(i)'.child = IF i = parent THEN id ELSE MetaOf(i).child
    BY <2>1, <2>2 DEF Metas
  <2> QED
    BY <2>3 DEF Child
<1>3. FreeListExact'
  <2>1. /\ Indexes(list) = {i \in Ids : inode[i].status # CLOSE}
        /\ \A m \in NodesOn(list) : NodeMatches(m)
        /\ \A m \in NodesOn(list') : m.index \in Indexes(list')
    BY DEF Bookkeeping, FreeListExact, Listed, Indexes, NodesOn
  <2>2. Indexes(list') = {i \in Ids : inode[i].status # CLOSE}'
    BY <2>1
  <2>3. ASSUME NEW m \in NodesOn(list') PROVE NodeMatches(m)'
    <3>1. m.index \in Ids \ {id} /\ NodeMatches(m)
      BY <2>1
    <3>2. inode[m.index].status = REMOVE => m.index \in Placed \ {id}
      BY <3>1, BookBasics DEF Placed
    <3> QED
      BY <1>2, <3>1, <3>2 DEF NodeMatches
  <2> QED
    BY <2>2, <2>3 DEF FreeListExact, Listed, Once, Indexes, NodesOn
<1>4. NoChildCycle'
  <2> DEFINE child == [i \in Ids |-> Child(i)']
  <2>1. child[id] = NoDoc /\ \A i \in Placed \ {id} : child[i] = IF i = parent THEN id ELSE Child(i)
    BY <1>2 DEF Placed
  <2>2. \A i \in Placed \cup {id} : child[i] = Child(i)'
    BY DEF Placed
  <2> HIDE DEF child
  <2>3. \A S \in SUBSET (Placed \cup {id}) : S # {} => \E i \in S : child[i] \notin S
    BY <2>1, NewLeafNoCycle
  <2> QED
    BY <1>1, <2>2, <2>3 DEF NoChildCycle
<1>5. \A i \in Placed' : MetaOf(i)' \in Metas /\ MetaOf(i)'.id = i
  BY <1>1, <1>2
<1>6. StackChained'
  BY DEF StackChained
<1> QED
  BY <1>3, <1>4, <1>5, <1>6 DEF Bookkeeping

(* The front of the list, when popMaxSizeNode takes it.                    *)
LEMMA FrontTaken ==
    ASSUME Bookkeeping, list # << >>, NEW id, id = list[1].index
    PROVE  /\ id \in Ids /\ inode[id].status # CLOSE
           /\ list[1].size \in Nat /\ NodeMatches(list[1])
           /\ PopMaxSizeNode(list) \in Seq(Nodes(Ids))
           /\ Once(PopMaxSizeNode(list)) /\ Sorted(PopMaxSizeNode(list))
           /\ NodesOn(PopMaxSizeNode(list)) \subseteq NodesOn(list)
           /\ Indexes(PopMaxSizeNode(list)) = Indexes(list) \ {id}
<1> DEFINE rest == PopMaxSizeNode(list)
<1>1. /\ list \in Seq(Nodes(Ids)) /\ Once(list) /\ Sorted(list)
      /\ Indexes(list) = {i \in Ids : inode[i].status # CLOSE}
      /\ \A m \in NodesOn(list) : NodeMatches(m) /\ m.index \in Indexes(list)
  BY DEF Bookkeeping, FreeListExact, Listed, Once, Indexes, NodesOn
<1>2. /\ list[1] \in Nodes(Ids) /\ list[1] \in NodesOn(list)
      /\ NodesOn(rest) \subseteq NodesOn(list)
      /\ \A m \in NodesOn(rest) : m.index # list[1].index
      /\ \A m \in NodesOn(list) : m \in NodesOn(rest) \/ m = list[1]
      /\ Once(rest) /\ Sorted(rest)
  BY <1>1, PopMaxNodes
<1>3. rest \in Seq(Nodes(Ids))
  BY <1>1, PopMaxProperties
<1> HIDE DEF rest
<1>4. Indexes(rest) = Indexes(list) \ {id}
  <2>1. \A l : Indexes(l) = {m.index : m \in NodesOn(l)}
    BY DEF Indexes, NodesOn
  <2> QED
    BY <1>2, <2>1
<1>5. id \in Ids /\ inode[id].status # CLOSE
  BY <1>1, <1>2
<1> QED
  BY <1>1, <1>2, <1>3, <1>4, <1>5 DEF Nodes, rest

(* The back of the list, when popMinSizeNode takes it.                     *)
LEMMA BackTaken ==
    ASSUME Bookkeeping, list # << >>, NEW id, id = Last(list).index
    PROVE  /\ id \in Ids /\ inode[id].status # CLOSE
           /\ Last(list).size = 0 => inode[id].status = OPEN
           /\ PopMinSizeNode(list) \in Seq(Nodes(Ids))
           /\ Once(PopMinSizeNode(list)) /\ Sorted(PopMinSizeNode(list))
           /\ NodesOn(PopMinSizeNode(list)) \subseteq NodesOn(list)
           /\ Indexes(PopMinSizeNode(list)) = Indexes(list) \ {id}
<1> DEFINE rest == PopMinSizeNode(list)
<1>1. /\ list \in Seq(Nodes(Ids)) /\ Once(list) /\ Sorted(list)
      /\ Indexes(list) = {i \in Ids : inode[i].status # CLOSE}
      /\ \A m \in NodesOn(list) : NodeMatches(m) /\ m.index \in Indexes(list)
  BY DEF Bookkeeping, FreeListExact, Listed, Once, Indexes, NodesOn
<1>2. /\ Last(list) \in Nodes(Ids) /\ Last(list) \in NodesOn(list)
      /\ NodesOn(rest) \subseteq NodesOn(list)
      /\ Once(rest) /\ Sorted(rest)
  BY <1>1, PopMinNodes
<1>3. rest \in Seq(Nodes(Ids))
  BY <1>1, PopMinProperties
<1>4. Indexes(rest) = Indexes(list) \ {id}
  BY <1>1, PopMinIndexes
<1> HIDE DEF rest
<1>5. id \in Ids /\ inode[id].status # CLOSE
  BY <1>1, <1>2
<1>6. Last(list).size = 0 => inode[id].status = OPEN
  <2>1. inode[id].status = REMOVE => id \in Placed
    BY <1>5, BookBasics DEF Placed
  <2> QED
    BY <1>1, <1>2, <1>5, <2>1, NamedBlock DEF NodeMatches
<1> QED
  BY <1>2, <1>3, <1>4, <1>5, <1>6 DEF rest

(* The first document of the file becomes its root. *)
LEMMA RootKept ==
    ASSUME NEW h \in Headers, NEW id \in Ids
    PROVE  WithRoot(h, id) \in Headers /\ WithRoot(h, id).endPosition = h.endPosition
  BY DEF WithRoot, Headers, Links

(* createFile leaves a file in which no inode has a place and all of them  *)
(* are listed, with size 0, in descending order.                           *)
LEMMA InitBooks ==
    ASSUME Init
    PROVE  Bookkeeping /\ Placed = {} /\ DataArea = {}
<1>0. /\ C_DEFAULT \in Nat \ {0} /\ DataStart \in Nat \ {0}
      /\ OPEN # CLOSE /\ OPEN # REMOVE /\ CLOSE # REMOVE
  BY DocFileAssumption
<1>1. Placed = {} /\ DataArea = {} /\ disk = << >>
  BY <1>0 DEF Init, Placed, DataArea
<1>2. /\ list \in [1..C_DEFAULT -> [index : Ids, size : Nat]]
      /\ \A k \in 1..C_DEFAULT : list[k].index = C_DEFAULT - k /\ list[k].size = 0
  BY <1>0 DEF Init, CreateNode, Ids
<1>3. list \in Seq([index : Ids, size : Nat]) /\ DOMAIN list = 1..C_DEFAULT
  <2> DEFINE T == [index : Ids, size : Nat]
  <2>1. list \in UNION {[1..n -> T] : n \in Nat}
    BY <1>0, <1>2
  <2> HIDE DEF T
  <2>2. Seq(T) = UNION {[1..n -> T] : n \in Nat}
    BY SeqDef
  <2> QED
    BY <1>2, <2>1, <2>2 DEF T
<1>4. /\ header \in Headers /\ diskHeader \in Headers
      /\ inode \in [Ids -> Inodes] /\ stack \in Seq(Frames) /\ result \in BOOLEAN
  <2>1. header \in Headers /\ diskHeader \in Headers
    BY <1>0 DEF Init, Headers, Links
  <2>2. inode \in [Ids -> Inodes] /\ stack \in Seq(Frames) /\ result \in BOOLEAN
    BY DEF Init, Inodes
  <2> QED
    BY <2>1, <2>2
<1>5. FreeListExact
  <2>1. Listed = Ids
    <3>1. \A i \in Ids : C_DEFAULT - i \in 1..C_DEFAULT /\ list[C_DEFAULT - i].index = i
      BY <1>0, <1>2 DEF Ids
    <3>2. \A k \in 1..C_DEFAULT : list[k].index \in Ids
      BY <1>2
    <3> QED
      BY <1>3, <3>1, <3>2 DEF Listed
  <2>2. {i \in Ids : inode[i].status # CLOSE} = Ids
    BY <1>0 DEF Init
  <2>3. \A j, k \in DOMAIN list : list[j].index = list[k].index => j = k
    BY <1>0, <1>2, <1>3
  <2>4. \A k \in DOMAIN list : NodeMatches(list[k])
    BY <1>0, <1>2, <1>3 DEF NodeMatches, Init
  <2>5. Sorted(list)
    BY <1>2, <1>3 DEF Sorted
  <2> QED
    BY <2>1, <2>2, <2>3, <2>4, <2>5 DEF FreeListExact
<1>6. NoChildCycle
  BY <1>1 DEF NoChildCycle
<1>7. StackChained /\ DataStart <= header.endPosition
  BY <1>0 DEF Init, StackChained
<1> QED
  BY <1>1, <1>3, <1>4, <1>5, <1>6, <1>7 DEF Bookkeeping, Nodes

-----------------------------------------------------------------------------
(* No single property of DocFileProps is inductive: that the list is exact *)
(* after a deletion needs the blocks the inodes point at and the chain of  *)
(* calls, the blocks need the extents to be disjoint, and the chain of     *)
(* calls never meets itself because child links have no cycle.             *)
IInv ==
    /\ TypeOK
    /\ ExtentsDisjoint
    /\ BlocksFit
    /\ FreeListExact
    /\ NoChildCycle
    /\ StackChained
    /\ DataStart <= header.endPosition

(* No other inode has its extent where document d is to be written. *)
RoomFor(d, id, pos) ==
    \A i \in Placed : i # id => Extent(i) \cap pos..(pos + DocSize[d] - 1) = {}

(* What the data area looks like when it has been written there. *)
HasDocument(area, d, id, parent, pos) ==
    LET meta == NewMeta(id, parent, d)
    IN  /\ meta \in Metas /\ meta.id = id /\ meta.child = NoDoc
        /\ meta.size = DocSize[d]
        /\ area \in [DataArea \cup pos..(pos + DocSize[d] - 1) -> Metas \cup Elements]
        /\ area[pos] = meta
        /\ \A i \in Placed \ {id} : area[inode[i].pos] = BlockAfter(i, parent, id)


(* The bookkeeping is part of the invariant.                               *)
LEMMA IInvBooks ==
    ASSUME IInv
    PROVE  Bookkeeping
  BY DEF IInv, TypeOK, BlocksFit, Bookkeeping, Nodes

(* What is left to show of a step that keeps the bookkeeping.              *)
LEMMA BooksIInv ==
    ASSUME Bookkeeping', ExtentsDisjoint', BlocksFit',
           disk' \in [DataArea' -> Metas \cup Elements]
    PROVE  IInv'
  BY DEF IInv, TypeOK, Bookkeeping, Nodes

(* What the invariant and the assumption on the constants say of numbers,  *)
(* inodes and list nodes: every leaf that reads one of them cites it.      *)
LEMMA Basics ==
    ASSUME IInv
    PROVE  /\ C_DEFAULT \in Nat /\ DataStart \in Nat
           /\ DocSize \in [Documents -> Nat \ {0}]
           /\ OPEN # CLOSE /\ OPEN # REMOVE /\ CLOSE # REMOVE
           /\ NoDoc \notin Ids /\ Ids \subseteq Int
           /\ header.endPosition \in Nat /\ DataStart <= header.endPosition
           /\ \A i \in Ids : /\ inode[i].status \in {OPEN, CLOSE, REMOVE}
                             /\ inode[i].pos \in Nat /\ inode[i].size \in Nat
           /\ Len(list) \in Nat /\ DOMAIN list = 1..Len(list)
           /\ \A k \in 1..Len(list) : list[k].index \in Ids /\ list[k].size \in Nat
  BY IInvBooks, BookBasics

(* What the invariant says of an inode that has a place. *)
LEMMA BlockOf ==
    ASSUME IInv, NEW i \in Placed
    PROVE  /\ i \in Ids
           /\ MetaOf(i) \in Metas
           /\ MetaOf(i).id = i
           /\ MetaOf(i).size \in Nat \ {0}
           /\ MetaOf(i).size <= inode[i].size
           /\ Child(i) \in Links /\ Brother(i) \in Links
           /\ inode[i].pos \in Extent(i)
           /\ inode[i].pos \in DataArea
           /\ Extent(i) \subseteq DataArea
<1>1. /\ i \in Ids /\ MetaOf(i) \in Metas /\ MetaOf(i).id = i
      /\ MetaOf(i).size <= inode[i].size
      /\ inode[i].pos \in DataArea /\ Extent(i) \subseteq DataArea
  BY DEF IInv, BlocksFit, Placed
<1>2. /\ MetaOf(i).size \in Nat \ {0}
      /\ MetaOf(i).child \in Links /\ MetaOf(i).brother \in Links
  BY <1>1 DEF Metas
<1>3. inode[i].pos \in Nat /\ inode[i].size \in Nat
  BY <1>1, Basics
<1>4. inode[i].pos \in Extent(i)
  BY <1>1, <1>2, <1>3 DEF Extent
<1> QED
  BY <1>1, <1>2, <1>4 DEF Child, Brother

(* The blocks after a document has been written for inode id at pos, where *)
(* no other inode has its extent: the new block, the parent's with the new *)
(* child, and all the others as they were.                                 *)
LEMMA WrittenBlocks ==
    ASSUME IInv,
           NEW id \in Ids, NEW parent \in Links, NEW d \in Documents, NEW pos \in Nat,
           AcceptsParent(parent), inode[id].status # CLOSE,
           RoomFor(d, id, pos)
    PROVE  HasDocument(WithDocument(NewMeta(id, parent, d), pos, parent), d, id, parent, pos)
<1> DEFINE meta == NewMeta(id, parent, d)
           written == pos..(pos + DocSize[d] - 1)
           plain == WriteAt(disk, pos, Image(meta))
           area == WithDocument(meta, pos, parent)
<1>1. DocSize[d] \in Nat \ {0}
  BY Basics
<1>2. parent # NoDoc => parent \in Placed /\ parent # id
  BY Basics DEF AcceptsParent, Status, Placed, Links
<1>3. /\ meta \in Metas /\ meta.id = id /\ meta.child = NoDoc
      /\ meta.size = DocSize[d] /\ meta.doc = d
  <2>1. (IF parent = NoDoc THEN NoDoc ELSE MetaOf(parent).child) \in Links
    BY <1>2, BlockOf DEF Links, Child
  <2> QED
    BY <1>1, <2>1 DEF NewMeta, Metas, Links
<1> HIDE DEF meta
<1>4. /\ Image(meta) \in [1..DocSize[d] -> Metas \cup Elements]
      /\ Len(Image(meta)) = DocSize[d] /\ Image(meta)[1] = meta
  <2>1. Image(meta) = [k \in 1..DocSize[d] |-> IF k = 1 THEN meta ELSE [doc |-> d, at |-> k]]
    BY <1>3 DEF Image
  <2>2. \A k \in 1..DocSize[d] : [doc |-> d, at |-> k] \in Elements
    BY <1>1 DEF Elements
  <2> QED
    BY <1>1, <1>3, <2>1, <2>2
<1>5. disk \in [DataArea -> Metas \cup Elements]
  BY DEF IInv, TypeOK
<1>6. /\ plain \in [DataArea \cup written -> Metas \cup Elements]
      /\ plain[pos] = meta
      /\ \A a \in DataArea \ written : plain[a] = disk[a]
  <2>1. plain = [a \in DataArea \cup written |->
                    IF a \in written THEN Image(meta)[a - pos + 1] ELSE disk[a]]
    BY <1>4, <1>5 DEF WriteAt
  <2>2. \A a \in written : a - pos + 1 \in 1..DocSize[d]
    BY <1>1
  <2>3. pos \in written /\ pos - pos + 1 = 1
    BY <1>1
  <2> QED
    BY <1>4, <1>5, <2>1, <2>2, <2>3
<1> HIDE DEF plain
<1>7. \A i \in Placed \ {id} : /\ inode[i].pos \in DataArea \ written
                               /\ plain[inode[i].pos] = MetaOf(i)
  BY <1>6, BlockOf DEF MetaOf, RoomFor
<1>8. CASE parent = NoDoc
  <2>1. area = plain
    BY <1>8 DEF WithDocument, plain
  <2>2. \A i \in Placed \ {id} : i # parent
    BY <1>8, Basics DEF Placed
  <2> QED
    BY <1>3, <1>6, <1>7, <2>1, <2>2 DEF meta, BlockAfter, HasDocument
<1>9. CASE parent # NoDoc
  <2> DEFINE at == inode[parent].pos
             block == [MetaOf(parent) EXCEPT !.child = id]
  <2>1. area = [plain EXCEPT ![at] = block]
    BY <1>3, <1>9 DEF WithDocument, plain
  <2>2. block \in Metas
    <3>1. MetaOf(parent) \in Metas /\ id \in Links
      BY <1>2, <1>9, BlockOf DEF Links
    <3> QED
      BY <3>1 DEF Metas
  <2>3. at \in DataArea \ written /\ at # pos
    <3>1. at \in DataArea \ written
      BY <1>2, <1>7, <1>9
    <3>2. pos \in written
      BY <1>1
    <3> QED
      BY <3>1, <3>2
  <2>4. \A i \in Placed \ {id} : i # parent => inode[i].pos # at
    BY <1>2, <1>9, BlockOf DEF IInv, ExtentsDisjoint
  <2> HIDE DEF at, block
  <2>5. area \in [DataArea \cup written -> Metas \cup Elements] /\ area[pos] = meta
    BY <1>6, <2>1, <2>2, <2>3
  <2>6. \A i \in Placed \ {id} : area[inode[i].pos] = IF i = parent THEN block ELSE MetaOf(i)
    BY <1>6, <1>7, <2>1, <2>3, <2>4 DEF at
  <2> QED
    BY <1>3, <2>5, <2>6 DEF meta, block, BlockAfter, HasDocument
<1> QED
  BY <1>8, <1>9

(* createFile leaves a file that satisfies the invariant.                  *)
THEOREM InitInvariant == Init => IInv
<1> SUFFICES ASSUME Init PROVE IInv
  OBVIOUS
<1>1. Bookkeeping /\ Placed = {} /\ DataArea = {}
  BY InitBooks
<1>2. disk \in [DataArea -> Metas \cup Elements]
  BY <1>1 DEF Init
<1>3. ExtentsDisjoint /\ BlocksFit
  BY <1>1 DEF ExtentsDisjoint, BlocksFit
<1> QED
  BY <1>1, <1>2, <1>3 DEF IInv, TypeOK, Bookkeeping, Nodes

-----------------------------------------------------------------------------
(* Every action of a deletion in progress keeps the invariant: the inner   *)
(* calls see the file as the outer ones left it, and only FreeDocument     *)
(* writes to it.                                                           *)
LEMMA DeleteStepInvariant ==
    ASSUME IInv, DeleteStep
    PROVE  IInv'
<1>1. Bookkeeping /\ Bookkeeping'
  BY IInvBooks, DeleteStepBooks
<1>2. /\ UNCHANGED <<header, disk>> /\ Placed' = Placed
      /\ \A i \in Ids : inode'[i].pos = inode[i].pos /\ inode'[i].size = inode[i].size
  BY <1>1, DeleteStepKeeps
<1>3. DataArea' = DataArea /\ disk' \in [DataArea' -> Metas \cup Elements]
  BY <1>2 DEF IInv, TypeOK, DataArea
<1>4. \A i \in Placed : Extent(i)' = Extent(i) /\ MetaOf(i)' = MetaOf(i)
  BY <1>2 DEF Extent, MetaOf, Placed
<1>5. ExtentsDisjoint'
  BY <1>2, <1>4 DEF IInv, ExtentsDisjoint
<1>6. BlocksFit'
  BY <1>2, <1>3, <1>4 DEF IInv, BlocksFit, Placed
<1> QED
  BY <1>1, <1>3, <1>5, <1>6, BooksIInv

(* A step that leaves the file as it is.                                   *)
LEMMA QuietInvariant ==
    ASSUME IInv, UNCHANGED <<header, inode, disk>>, Bookkeeping'
    PROVE  IInv'
<1>1. ExtentsDisjoint'
  BY DEF IInv, ExtentsDisjoint, Placed, Extent
<1>2. BlocksFit'
  BY DEF IInv, BlocksFit, Placed, Extent, DataArea, MetaOf
<1>3. disk' \in [DataArea' -> Metas \cup Elements]
  BY DEF IInv, TypeOK, DataArea
<1> QED
  BY <1>1, <1>2, <1>3, BooksIInv

(* writeDocument reuses the largest gap: the block is written within what  *)
(* the inode reserves, and the parent's block gets a leaf for its child.   *)
LEMMA InsertIntoGapInvariant ==
    ASSUME IInv, NEW parent \in Links, NEW d \in Documents, InsertIntoGap(parent, d)
    PROVE  IInv'
<1>0. PICK id : id = list[1].index
  OBVIOUS
<1> DEFINE pos == inode[id].pos
           meta == NewMeta(id, parent, d)
<1>1. /\ Idle /\ AcceptsParent(parent) /\ list # << >> /\ list[1].size >= DocSize[d]
      /\ inode[id].status = REMOVE
      /\ inode' = [inode EXCEPT ![id].status = CLOSE]
      /\ list' = PopMaxSizeNode(list)
      /\ disk' = WithDocument(meta, pos, parent)
      /\ header' = WithRoot(header, id)
      /\ diskHeader' = IF header.root = NoDoc THEN header' ELSE diskHeader
      /\ result' = TRUE /\ stack' = stack
  BY <1>0 DEF InsertIntoGap, FitsGap
<1>2. /\ list \in Seq(Nodes(Ids)) /\ inode \in [Ids -> Inodes]
      /\ header \in Headers /\ diskHeader \in Headers /\ stack \in Seq(Frames)
      /\ stack = << >>
  BY <1>1 DEF IInv, TypeOK, Nodes, Idle
<1>3. Bookkeeping
  BY IInvBooks
<1>4. /\ id \in Ids /\ id \in Placed /\ inode[id].status # CLOSE
      /\ list[1].size \in Nat /\ NodeMatches(list[1])
      /\ list' \in Seq(Nodes(Ids)) /\ Once(list') /\ Sorted(list')
      /\ NodesOn(list') \subseteq NodesOn(list) /\ Indexes(list') = Indexes(list) \ {id}
  BY <1>0, <1>1, <1>3, FrontTaken, Basics DEF Placed
<1>7. DocSize[d] \in Nat \ {0} /\ DocSize[d] <= inode[id].size
  <2>1. list[1].size = MetaOf(id).size
    BY <1>0, <1>1, <1>4, Basics DEF NodeMatches
  <2> QED
    BY <1>1, <1>4, <2>1, Basics, BlockOf
<1> DEFINE written == pos..(pos + DocSize[d] - 1)
<1>8. pos \in Nat /\ inode[id].size \in Nat /\ written \subseteq Extent(id)
  <2>1. pos \in Nat /\ inode[id].size \in Nat
    BY <1>4, Basics
  <2> QED
    BY <1>7, <2>1 DEF Extent
<1>9. /\ meta \in Metas /\ meta.id = id /\ meta.child = NoDoc /\ meta.size = DocSize[d]
      /\ disk' \in [DataArea \cup written -> Metas \cup Elements]
      /\ disk'[pos] = meta
      /\ \A i \in Placed \ {id} : disk'[inode[i].pos] = BlockAfter(i, parent, id)
  <2>1. RoomFor(d, id, pos)
    BY <1>4, <1>8 DEF IInv, ExtentsDisjoint, RoomFor
  <2>2. inode[id].status # CLOSE
    BY <1>1, Basics
  <2>3. HasDocument(WithDocument(meta, pos, parent), d, id, parent, pos)
    BY <1>1, <1>4, <1>8, <2>1, <2>2, WrittenBlocks
  <2> QED
    BY <1>1, <2>3 DEF HasDocument
<1> HIDE DEF meta
<1>10. /\ inode' \in [Ids -> Inodes]
       /\ \A i \in Ids : inode'[i].pos = inode[i].pos /\ inode'[i].size = inode[i].size
       /\ \A i \in Ids : i # id => inode'[i].status = inode[i].status
       /\ inode'[id].status = CLOSE
  BY <1>1, <1>2, <1>4 DEF Inodes
<1>11. Placed' = Placed /\ (\A i \in Ids : Extent(i)' = Extent(i))
  BY <1>4, <1>10, Basics DEF Placed, Extent
<1>12. header' \in Headers /\ DataArea' = DataArea
  BY <1>1, <1>2, <1>4 DEF WithRoot, Headers, Links, DataArea
<1>13. DataArea \cup written = DataArea
  BY <1>4, <1>8, BlockOf
<1>14. Bookkeeping'
  <2>1. diskHeader' \in Headers /\ DataStart <= header'.endPosition
    BY <1>1, <1>2, <1>4, <1>12, RootKept, Basics
  <2>2. MetaOf(id)' = meta /\ Child(id)' = NoDoc
    BY <1>4, <1>9, <1>10 DEF MetaOf, Child
  <2>3. \A i \in Placed \ {id} : MetaOf(i)' = BlockAfter(i, parent, id)
    BY <1>9, <1>10 DEF MetaOf, Placed
  <2>4. inode[id].status # CLOSE /\ \A i \in Ids \ {id} : inode'[i].status = inode[i].status
    BY <1>4, <1>10
  <2>5. /\ stack' = stack /\ result' = TRUE
        /\ MetaOf(id)' \in Metas /\ MetaOf(id)'.id = id /\ Child(id)' = NoDoc
    BY <1>1, <1>9, <2>2
  <2> QED
    BY <1>2, <1>3, <1>4, <1>10, <1>12, <2>1, <2>3, <2>4, <2>5, InsertBooks
<1>15. ExtentsDisjoint'
  BY <1>11 DEF IInv, ExtentsDisjoint, Placed
(* The block of every other document keeps its number and its size. *)
<1>16. \A i \in Placed \ {id} :
          /\ disk'[inode'[i].pos] \in Metas
          /\ disk'[inode'[i].pos].id = i
          /\ disk'[inode'[i].pos].size = MetaOf(i).size
          /\ disk'[inode'[i].pos].child = IF i = parent THEN id ELSE Child(i)
  <2> TAKE i \in Placed \ {id}
  <2>1. MetaOf(i) \in Metas /\ MetaOf(i).id = i /\ i \in Ids
    BY BlockOf
  <2>2. disk'[inode'[i].pos] = IF i = parent THEN [MetaOf(i) EXCEPT !.child = id] ELSE MetaOf(i)
    BY <1>9, <1>10, <2>1 DEF BlockAfter
  <2>3. id \in Links
    BY <1>4 DEF Links
  <2> QED
    BY <2>1, <2>2, <2>3 DEF Metas, Child
<1>17. BlocksFit'
  <2>1. ASSUME NEW i \in Placed
        PROVE  /\ inode'[i].pos \in DataArea
               /\ disk'[inode'[i].pos] \in Metas
               /\ disk'[inode'[i].pos].id = i
               /\ disk'[inode'[i].pos].size <= inode'[i].size
               /\ Extent(i) \subseteq DataArea
    <3>1. i \in Ids /\ inode'[i].pos = inode[i].pos /\ inode'[i].size = inode[i].size
      BY <1>10, BlockOf
    <3>2. CASE i = id
      BY <1>7, <1>9, <3>1, <3>2, BlockOf
    <3>3. CASE i # id
      BY <1>16, <3>1, <3>3, BlockOf
    <3> QED
      BY <3>2, <3>3
  <2> QED
    BY <1>11, <1>12, <2>1 DEF BlocksFit, MetaOf, Placed
<1> QED
  BY <1>9, <1>12, <1>13, <1>14, <1>15, <1>17, BooksIInv

(* writeDocument places the inode at the back of the list behind all the   *)
(* others: endPosition moves by the size of the document.                  *)
LEMMA InsertAtEndInvariant ==
    ASSUME IInv, NEW parent \in Links, NEW d \in Documents, InsertAtEnd(parent, d)
    PROVE  IInv'
<1>0. PICK id : id = Last(list).index
  OBVIOUS
<1> DEFINE pos == header.endPosition
           meta == NewMeta(id, parent, d)
           written == pos..(pos + DocSize[d] - 1)
<1>1. /\ Idle /\ AcceptsParent(parent) /\ list # << >> /\ Last(list).size = 0
      /\ inode' = [inode EXCEPT ![id] = [status |-> CLOSE, pos |-> pos, size |-> DocSize[d]]]
      /\ list' = PopMinSizeNode(list)
      /\ disk' = WithDocument(meta, pos, parent)
      /\ header' = WithRoot([header EXCEPT !.endPosition = pos + DocSize[d]], id)
      /\ diskHeader' = header' /\ result' = TRUE /\ stack' = stack
  BY <1>0 DEF InsertAtEnd, FitsEnd, PlaceAtEnd
<1>2. /\ list \in Seq(Nodes(Ids)) /\ inode \in [Ids -> Inodes]
      /\ header \in Headers /\ stack \in Seq(Frames) /\ stack = << >>
  BY <1>1 DEF IInv, TypeOK, Nodes, Idle
<1>3. Bookkeeping
  BY IInvBooks
<1>5. /\ id \in Ids /\ inode[id].status = OPEN /\ id \notin Placed
      /\ list' \in Seq(Nodes(Ids)) /\ Once(list') /\ Sorted(list')
      /\ NodesOn(list') \subseteq NodesOn(list) /\ Indexes(list') = Indexes(list) \ {id}
  BY <1>0, <1>1, <1>3, BackTaken DEF Placed
<1>6. DocSize[d] \in Nat \ {0} /\ pos \in Nat /\ DataStart \in Nat
  BY Basics
<1>8. /\ meta \in Metas /\ meta.id = id /\ meta.child = NoDoc /\ meta.size = DocSize[d]
      /\ disk' \in [DataArea \cup written -> Metas \cup Elements]
      /\ disk'[pos] = meta
      /\ \A i \in Placed : disk'[inode[i].pos] = BlockAfter(i, parent, id)
  <2>1. RoomFor(d, id, pos)
    <3>1. ASSUME NEW i \in Placed PROVE Extent(i) \cap written = {}
      BY <1>6, BlockOf DEF DataArea
    <3> QED
      BY <3>1 DEF RoomFor
  <2>2. inode[id].status # CLOSE
    BY <1>5, Basics
  <2>3. HasDocument(WithDocument(meta, pos, parent), d, id, parent, pos)
    BY <1>1, <1>5, <1>6, <2>1, <2>2, WrittenBlocks
  <2> QED
    BY <1>1, <1>5, <2>3 DEF HasDocument
<1>9. /\ header' \in Headers /\ header'.endPosition = pos + DocSize[d]
      /\ DataArea' = DataArea \cup written
  <2> DEFINE grown == [header EXCEPT !.endPosition = pos + DocSize[d]]
  <2>1. /\ grown \in Headers /\ grown.endPosition = pos + DocSize[d]
        /\ id \in Links
    BY <1>2, <1>5, <1>6 DEF Headers, Links
  <2> HIDE DEF grown
  <2>2. header' \in Headers /\ header'.endPosition = pos + DocSize[d]
    BY <1>1, <2>1 DEF WithRoot, Headers, grown
  <2> QED
    BY <1>6, <2>2, Basics DEF DataArea
<1> HIDE DEF meta
<1>10. /\ inode' \in [Ids -> Inodes]
       /\ \A i \in Ids \ {id} : inode'[i] = inode[i]
       /\ inode'[id].status = CLOSE /\ inode'[id].pos = pos /\ inode'[id].size = DocSize[d]
  <2>1. [status |-> CLOSE, pos |-> pos, size |-> DocSize[d]] \in Inodes
    BY <1>6 DEF Inodes
  <2> QED
    BY <1>1, <1>2, <1>5, <2>1
<1>11. Placed' = Placed \cup {id} /\ (\A i \in Placed : i # id /\ Extent(i)' = Extent(i))
  BY <1>5, <1>10, Basics DEF Placed, Extent
<1>12. Extent(id)' = written
  BY <1>10 DEF Extent
<1>13. DataStart <= header'.endPosition
  BY <1>6, <1>9, Basics
<1>14. Bookkeeping'
  <2>1. MetaOf(id)' = meta /\ Child(id)' = NoDoc
    BY <1>8, <1>10 DEF MetaOf, Child
  <2>2. \A i \in Placed \ {id} : MetaOf(i)' = BlockAfter(i, parent, id)
    BY <1>8, <1>10, <1>11 DEF MetaOf, Placed
  <2>3. inode[id].status # CLOSE /\ \A i \in Ids \ {id} : inode'[i].status = inode[i].status
    BY <1>5, <1>10, Basics
  <2> QED
    BY <1>1, <1>2, <1>3, <1>5, <1>8, <1>9, <1>10, <1>13, <2>1, <2>2, <2>3, InsertBooks
<1>15. ExtentsDisjoint'
  <2>1. ASSUME NEW i \in Placed PROVE Extent(i) \cap written = {}
    BY <1>6, BlockOf DEF DataArea
  <2>2. \A i, j \in Placed : i # j => Extent(i) \cap Extent(j) = {}
    BY DEF IInv, ExtentsDisjoint
  <2>3. \A i, j \in Placed \cup {id} : i # j => Extent(i)' \cap Extent(j)' = {}
    BY <1>11, <1>12, <2>1, <2>2, Zenon
  <2> QED
    BY <1>11, <2>3 DEF ExtentsDisjoint
(* The block of every other document keeps its number and its size. *)
<1>16. \A i \in Placed :
          /\ disk'[inode'[i].pos] \in Metas
          /\ disk'[inode'[i].pos].id = i
          /\ disk'[inode'[i].pos].size = MetaOf(i).size
          /\ disk'[inode'[i].pos].child = IF i = parent THEN id ELSE Child(i)
  <2> TAKE i \in Placed
  <2>1. MetaOf(i) \in Metas /\ MetaOf(i).id = i /\ i \in Ids
    BY BlockOf
  <2>2. disk'[inode'[i].pos] = IF i = parent THEN [MetaOf(i) EXCEPT !.child = id] ELSE MetaOf(i)
    BY <1>8, <1>10, <1>11, <2>1 DEF BlockAfter
  <2>3. id \in Links
    BY <1>5 DEF Links
  <2> QED
    BY <2>1, <2>2, <2>3 DEF Metas, Child
<1>17. BlocksFit'
  <2>1. ASSUME NEW i \in Placed \cup {id}
        PROVE  /\ inode'[i].pos \in DataArea'
               /\ disk'[inode'[i].pos] \in Metas
               /\ disk'[inode'[i].pos].id = i
               /\ disk'[inode'[i].pos].size <= inode'[i].size
               /\ Extent(i)' \subseteq DataArea'
    <3>1. CASE i = id
      <4>1. pos \in written
        BY <1>6
      <4> QED
        BY <1>6, <1>8, <1>9, <1>10, <1>12, <3>1, <4>1
    <3>2. CASE i # id
      <4>1. i \in Placed /\ i \in Ids /\ inode'[i] = inode[i] /\ Extent(i)' = Extent(i)
        BY <1>10, <1>11, <3>2, BlockOf
      <4> QED
        BY <1>9, <1>16, <4>1, BlockOf
    <3> QED
      BY <3>1, <3>2
  <2> QED
    BY <1>11, <2>1 DEF BlocksFit, MetaOf
<1> QED
  BY <1>8, <1>9, <1>14, <1>15, <1>17, BooksIInv

(* No step of the file breaks the invariant.                               *)
LEMMA StepInvariant ==
    ASSUME IInv, [Next]_vars
    PROVE  IInv'
<1>0. Bookkeeping
  BY IInvBooks
<1>1. CASE \E parent \in Ids : InsertRejected(parent)
  <2>1. UNCHANGED <<header, diskHeader, inode, disk, list, stack>> /\ result' \in BOOLEAN
    BY <1>1 DEF InsertRejected
  <2> QED
    BY <1>0, <2>1, QuietBooks, QuietInvariant
<1>2. CASE \E parent \in Links, d \in Documents : InsertIntoGap(parent, d)
  BY <1>2, InsertIntoGapInvariant
<1>3. CASE \E parent \in Links, d \in Documents : InsertAtEnd(parent, d)
  BY <1>3, InsertAtEndInvariant
<1>4. CASE \E id \in Ids : DeleteDocument(id)
  <2>1. UNCHANGED <<header, inode, disk>>
    BY <1>4 DEF DeleteDocument
  <2> QED
    BY <1>0, <1>4, <2>1, DeleteDocumentBooks, QuietInvariant
<1>5. CASE DeleteStep
  BY <1>5, DeleteStepInvariant
<1>6. CASE UNCHANGED vars
  <2>1. UNCHANGED <<header, diskHeader, inode, disk, list, stack>> /\ result' \in BOOLEAN
    BY <1>0, <1>6 DEF vars, Bookkeeping
  <2> QED
    BY <1>0, <2>1, QuietBooks, QuietInvariant
<1> QED
  BY <1>1, <1>2, <1>3, <1>4, <1>5, <1>6 DEF Next

(* The invariant holds of every state the file can be in, whatever the     *)
(* number of inodes, the documents and their sizes.                        *)
THEOREM Invariance == Spec => []IInv
  BY InitInvariant, StepInvariant, PTL DEF Spec

(* The header, the inodes, the cells of the data area, the list and the    *)
(* calls keep their types: every link read from a block is a number of the *)
(* table or none.                                                          *)
THEOREM TypeCorrect == Spec => []TypeOK
<1>1. IInv => TypeOK
  BY DEF IInv
<1> QED
  BY Invariance, <1>1, PTL

(* Two inodes never share a cell of the data area, so no insertion of      *)
(* operation.c ever overwrites a document or the gap another will reuse.   *)
THEOREM NoSharedCell == Spec => []ExtentsDisjoint
<1>1. IInv => ExtentsDisjoint
  BY DEF IInv
<1> QED
  BY Invariance, <1>1, PTL

(* The offset of an inode always leads to the block of that very document, *)
(* which fits in what the inode reserves.                                  *)
THEOREM BlockInPlace == Spec => []BlocksFit
<1>1. IInv => BlocksFit
  BY DEF IInv
<1> QED
  BY Invariance, <1>1, PTL

(* The sorted list of list.c is exact before and after every step: no      *)
(* inode in use is on it, none that is free is missing or on it twice.     *)
THEOREM FreeListStaysExact == Spec => []FreeListExact
<1>1. IInv => FreeListExact
  BY DEF IInv
<1> QED
  BY Invariance, <1>1, PTL

(* Child links, dead ones included, never form a cycle: the recursion of   *)
(* deleteDocument is never deeper than the file has inodes.                *)
THEOREM ChildLinksAcyclic == Spec => []NoChildCycle
<1>1. IInv => NoChildCycle
  BY DEF IInv
<1> QED
  BY Invariance, <1>1, PTL

(* The documents whose deletion waits for an inner call stay in use until  *)
(* that call has returned.                                                 *)
THEOREM CallersStayInUse == Spec => []StackChained
<1>1. IInv => StackChained
  BY DEF IInv
<1> QED
  BY Invariance, <1>1, PTL

(* The calls of a deletion are no deeper than a path through all inodes    *)
(* and one call more, which is told that there is no document.             *)
DepthBounded == Len(stack) <= C_DEFAULT + 1

(* No two calls that wait for an inner one are about the same document.    *)
LEMMA CallersDistinct ==
    ASSUME Bookkeeping, ~Idle, NEW n \in 1..(Len(stack) - 1), NEW k \in 1..(n - 1)
    PROVE  stack[k].id # stack[n].id
<1> DEFINE S == {stack[j].id : j \in k..(n - 1)}
<1>0. Len(stack) \in Nat /\ n \in 1..(Len(stack) - 1) /\ k \in 1..(n - 1)
  BY StackFacts
<1>1. \A j \in k..(n - 1) : stack[j].id \in Placed /\ stack[j + 1].id = Child(stack[j].id)
  <2> SUFFICES ASSUME NEW j \in k..(n - 1)
               PROVE  stack[j].id \in Placed /\ stack[j + 1].id = Child(stack[j].id)
    OBVIOUS
  <2>1. j \in 1..Len(stack) /\ j < Len(stack)
    BY <1>0
  <2> QED
    BY <2>1, FrameInUse
<1> SUFFICES ASSUME stack[k].id = stack[n].id PROVE FALSE
  OBVIOUS
<1>2. S \in SUBSET Placed /\ S # {}
  BY <1>0, <1>1
<1>3. ASSUME NEW j \in k..(n - 1) PROVE Child(stack[j].id) \in S
  <2>1. CASE j + 1 = n
    <3>1. Child(stack[j].id) = stack[k].id /\ k \in k..(n - 1)
      BY <1>0, <1>1, <2>1
    <3> QED
      BY <3>1
  <2>2. CASE j + 1 # n
    BY <1>0, <1>1, <2>2
  <2> QED
    BY <2>1, <2>2
<1>4. \A i \in S : Child(i) \in S
  BY <1>3
<1> QED
  BY <1>2, <1>4 DEF Bookkeeping, NoChildCycle

(* The recursion of deleteDocument and deleteSameLevelDocuments is never   *)
(* deeper than the number of inodes and one, whatever links are stale.     *)
THEOREM DeletionDepth == Spec => []DepthBounded
<1>1. IInv => DepthBounded
  <2> SUFFICES ASSUME IInv PROVE DepthBounded
    OBVIOUS
  <2>0. PICK n \in Nat : n = Len(stack)
    BY LenProperties DEF IInv, TypeOK
  <2>1. Bookkeeping
    BY IInvBooks
  <2>2. CASE n = 0
    BY <2>0, <2>2, DocFileAssumption DEF DepthBounded
  <2>3. CASE n # 0
    <3>0. ~Idle
      BY <2>0, <2>3 DEF Idle
    <3> DEFINE f == [k \in 1..(n - 1) |-> stack[k].id]
    <3>1. \A k \in 1..(n - 1) : stack[k].id \in Ids
      BY <2>0, <2>1, <3>0, FrameInUse DEF Placed
    <3>2. ASSUME NEW k \in 1..(n - 1), NEW m \in 1..(n - 1), k # m
          PROVE  stack[k].id # stack[m].id
      <4>1. CASE k < m
        <5>1. k \in 1..(m - 1)
          BY <4>1
        <5> QED
          BY <2>0, <2>1, <3>0, <5>1, CallersDistinct
      <4>2. CASE m < k
        <5>1. m \in 1..(k - 1)
          BY <4>2
        <5> QED
          BY <2>0, <2>1, <3>0, <5>1, CallersDistinct
      <4> QED
        BY <3>2, <4>1, <4>2
    <3>3. f \in Injection(1..(n - 1), Ids)
      BY <3>1, <3>2 DEF Injection, IsInjective
    <3>4. IsFiniteSet(Ids) /\ Cardinality(Ids) = C_DEFAULT
      BY DocFileAssumption, FS_Interval DEF Ids
    <3>5. Cardinality(1..(n - 1)) = n - 1
      BY <2>3, FS_Interval
    <3>6. Cardinality(1..(n - 1)) <= Cardinality(Ids)
      BY <3>3, <3>4, FS_Injection
    <3> QED
      BY <2>0, <3>4, <3>5, <3>6, DocFileAssumption DEF DepthBounded
  <2> QED
    BY <2>2, <2>3
<1> QED
  BY Invariance, <1>1, PTL

-----------------------------------------------------------------------------
(* The cells behind the block of document i are the elements written with  *)
(* it, as many as the block says.                                          *)
Intact(i) ==
    /\ MetaOf(i).size = DocSize[MetaOf(i).doc]
    /\ \A k \in 2..MetaOf(i).size :
          disk[inode[i].pos + k - 1] = [doc |-> MetaOf(i).doc, at |-> k]

(* What readDocument gives is read through three things an operation may   *)
(* change: the inode, the block, the cells behind it.                      *)
ContentsIntact == \A i \in Ids : inode[i].status = CLOSE => Intact(i)

(* Both insertions store document d under parent, as number id, at pos,    *)
(* where only id may have its extent.                                      *)
Stores(id, pos, parent, d) ==
    /\ Idle /\ AcceptsParent(parent)
    /\ inode[id].status # CLOSE
    /\ RoomFor(d, id, pos)
    /\ inode'[id].status = CLOSE /\ inode'[id].pos = pos
    /\ \A i \in Ids \ {id} : inode'[i] = inode[i]
    /\ disk' = WithDocument(NewMeta(id, parent, d), pos, parent)

-----------------------------------------------------------------------------
(* A gap at the front of the list is as large as the document it held.     *)
LEMMA GapStores ==
    ASSUME IInv, NEW parent \in Links, NEW d \in Documents, InsertIntoGap(parent, d)
    PROVE  /\ Stores(list[1].index, inode[list[1].index].pos, parent, d)
           /\ list[1].index \in Ids /\ inode[list[1].index].pos \in Nat
           /\ inode[list[1].index].status = REMOVE
           /\ inode' = [inode EXCEPT ![list[1].index].status = CLOSE]
           /\ UNCHANGED header.endPosition
<1> DEFINE id == list[1].index
           pos == inode[id].pos
<1>1. /\ Idle /\ AcceptsParent(parent) /\ list # << >> /\ list[1].size >= DocSize[d]
      /\ inode[id].status = REMOVE
      /\ inode' = [inode EXCEPT ![id].status = CLOSE]
      /\ disk' = WithDocument(NewMeta(id, parent, d), pos, parent)
      /\ header' = WithRoot(header, id)
  BY DEF InsertIntoGap, FitsGap
<1>2. /\ list \in Seq(Nodes(Ids)) /\ inode \in [Ids -> Inodes] /\ header \in Headers
  BY DEF IInv, TypeOK, Nodes
<1>3. Len(list) \in Nat \ {0} /\ DOMAIN list = 1..Len(list)
  BY <1>1, <1>2, EmptySeq, LenProperties
<1>4. id \in Ids /\ id \in Placed /\ pos \in Nat /\ inode[id].size \in Nat
  BY <1>1, <1>3, Basics DEF Placed
<1>5. NodeMatches(list[1])
  BY <1>3 DEF IInv, FreeListExact
<1>6. DocSize[d] \in Nat \ {0} /\ DocSize[d] <= inode[id].size
  <2>1. list[1].size = MetaOf(id).size
    BY <1>1, <1>5, Basics DEF NodeMatches
  <2> QED
    BY <1>1, <1>3, <1>4, <2>1, Basics, BlockOf
<1>7. pos..(pos + DocSize[d] - 1) \subseteq Extent(id)
  BY <1>4, <1>6 DEF Extent
<1>8. RoomFor(d, id, pos)
  BY <1>4, <1>7 DEF IInv, ExtentsDisjoint, RoomFor
<1>9. /\ inode[id].status # CLOSE /\ inode'[id].status = CLOSE /\ inode'[id].pos = pos
      /\ \A i \in Ids \ {id} : inode'[i] = inode[i]
  <2>1. inode[id] \in Inodes
    BY <1>2, <1>4
  <2> QED
    BY <1>1, <1>2, <1>4, <2>1, Basics DEF Inodes
<1>10. UNCHANGED header.endPosition
  BY <1>1, <1>2 DEF WithRoot, Headers
<1> QED
  BY <1>1, <1>4, <1>8, <1>9, <1>10 DEF Stores

(* The inode at the back of the list has no place: it gets one behind all  *)
(* the others.                                                             *)
LEMMA EndStores ==
    ASSUME IInv, NEW parent \in Links, NEW d \in Documents, InsertAtEnd(parent, d)
    PROVE  LET id == Last(list).index
               pos == header.endPosition
           IN  /\ Stores(id, pos, parent, d)
               /\ id \in Ids /\ pos \in Nat
               /\ inode[id].status = OPEN
               /\ inode'[id].size = DocSize[d]
               /\ header'.endPosition = pos + DocSize[d]
<1> DEFINE id == Last(list).index
           pos == header.endPosition
<1>1. /\ Idle /\ AcceptsParent(parent) /\ list # << >> /\ Last(list).size = 0
      /\ inode' = [inode EXCEPT ![id] = [status |-> CLOSE, pos |-> pos, size |-> DocSize[d]]]
      /\ disk' = WithDocument(NewMeta(id, parent, d), pos, parent)
      /\ header' = WithRoot([header EXCEPT !.endPosition = pos + DocSize[d]], id)
  BY DEF InsertAtEnd, FitsEnd, PlaceAtEnd
<1>2. /\ list \in Seq(Nodes(Ids)) /\ inode \in [Ids -> Inodes] /\ header \in Headers
  BY DEF IInv, TypeOK, Nodes
<1>3. Len(list) \in Nat \ {0} /\ DOMAIN list = 1..Len(list) /\ Last(list) = list[Len(list)]
  BY <1>1, <1>2, EmptySeq, LenProperties DEF Last
<1>4. id \in Ids /\ pos \in Nat /\ DocSize[d] \in Nat \ {0}
  BY <1>3, Basics
<1>5. inode[id].status = OPEN
  <2>1. NodeMatches(list[Len(list)])
    BY <1>3 DEF IInv, FreeListExact
  <2>2. \/ inode[id].status = OPEN
        \/ inode[id].status = REMOVE /\ MetaOf(id).size = 0
    BY <1>1, <1>3, <2>1 DEF NodeMatches
  <2>3. inode[id].status = REMOVE => id \in Placed
    BY <1>4, Basics DEF Placed
  <2> QED
    BY <2>2, <2>3, BlockOf
<1>6. RoomFor(d, id, pos)
  <2>1. ASSUME NEW i \in Placed
        PROVE  Extent(i) \cap pos..(pos + DocSize[d] - 1) = {}
    BY <1>4, BlockOf, Basics DEF DataArea
  <2> QED
    BY <2>1 DEF RoomFor
<1>7. /\ inode'[id].status = CLOSE /\ inode'[id].pos = pos /\ inode'[id].size = DocSize[d]
      /\ \A i \in Ids \ {id} : inode'[i] = inode[i]
  BY <1>1, <1>2, <1>4
<1>8. header'.endPosition = pos + DocSize[d]
  BY <1>1, <1>2 DEF WithRoot, Headers
<1> QED
  BY <1>1, <1>4, <1>5, <1>6, <1>7, <1>8, Basics DEF Stores

-----------------------------------------------------------------------------
(* The cells behind the blocks after a document has been written: those of *)
(* the new document, and everywhere else what was there.                   *)
LEMMA WrittenCells ==
    ASSUME IInv, NEW id \in Ids, NEW parent \in Links, NEW d \in Documents, NEW pos \in Nat,
           Stores(id, pos, parent, d)
    PROVE  /\ \A k \in 2..DocSize[d] : disk'[pos + k - 1] = [doc |-> d, at |-> k]
           /\ \A a \in DataArea :
                 /\ a \notin pos..(pos + DocSize[d] - 1)
                 /\ parent # NoDoc => a # inode[parent].pos
                 => disk'[a] = disk[a]
<1> DEFINE meta == NewMeta(id, parent, d)
           written == pos..(pos + DocSize[d] - 1)
           plain == WriteAt(disk, pos, Image(meta))
<1>1. DocSize[d] \in Nat \ {0} /\ disk \in [DataArea -> Metas \cup Elements]
  BY Basics DEF IInv, TypeOK
<1>2. /\ Len(Image(meta)) = DocSize[d]
      /\ \A k \in 2..DocSize[d] : Image(meta)[k] = [doc |-> d, at |-> k]
  <2>1. meta.size = DocSize[d] /\ meta.doc = d
    BY DEF NewMeta
  <2>2. Image(meta) = [k \in 1..DocSize[d] |-> IF k = 1 THEN meta ELSE [doc |-> d, at |-> k]]
    BY <2>1 DEF Image
  <2> QED
    BY <1>1, <2>2
<1> HIDE DEF meta
<1>3. plain = [a \in DataArea \cup written |->
                  IF a \in written THEN Image(meta)[a - pos + 1] ELSE disk[a]]
  BY <1>1, <1>2 DEF WriteAt
<1>4. ASSUME NEW k \in 2..DocSize[d]
      PROVE  pos + k - 1 \in written /\ plain[pos + k - 1] = [doc |-> d, at |-> k]
  <2>1. pos + k - 1 \in written /\ (pos + k - 1) - pos + 1 = k
    BY <1>1
  <2> QED
    BY <1>2, <1>3, <2>1
<1>5. \A a \in DataArea \ written : plain[a] = disk[a]
  BY <1>3
<1> DEFINE at == inode[parent].pos
<1>6. parent # NoDoc => at \in DataArea \ written
  <2>1. parent # NoDoc => parent \in Placed \ {id}
    BY Basics DEF Stores, AcceptsParent, Status, Placed, Links
  <2> QED
    BY <2>1, BlockOf DEF Stores, RoomFor
<1>7. disk' = IF parent = NoDoc THEN plain
              ELSE [plain EXCEPT ![at] = [MetaOf(parent) EXCEPT !.child = meta.id]]
  BY DEF Stores, WithDocument, meta
<1>8. DOMAIN plain = DataArea \cup written
  BY <1>3
<1> HIDE DEF plain, at, written
<1>9. \A a \in DataArea \cup written :
         (parent # NoDoc => a # at) => disk'[a] = plain[a]
  BY <1>7, <1>8
<1> QED
  BY <1>4, <1>5, <1>6, <1>9 DEF written, at

(* Storing a document leaves the contents of all the others alone, and its *)
(* own can be read back.                                                   *)
LEMMA StoresKeepContents ==
    ASSUME IInv, ContentsIntact,
           NEW id \in Ids, NEW parent \in Links, NEW d \in Documents, NEW pos \in Nat,
           Stores(id, pos, parent, d)
    PROVE  /\ Intact(id)' /\ MetaOf(id)'.doc = d
           /\ \A i \in Ids \ {id} : inode[i].status = CLOSE =>
                 Intact(i)' /\ MetaOf(i)'.doc = MetaOf(i).doc
<1>1. /\ inode'[id].pos = pos /\ \A i \in Ids \ {id} : inode'[i] = inode[i]
      /\ RoomFor(d, id, pos)
      /\ disk' = WithDocument(NewMeta(id, parent, d), pos, parent)
      /\ AcceptsParent(parent) /\ inode[id].status # CLOSE
  BY DEF Stores
<1>2. HasDocument(disk', d, id, parent, pos)
  BY <1>1, WrittenBlocks
<1>3. disk'[pos].doc = d /\ disk'[pos].size = DocSize[d]
  BY <1>2 DEF HasDocument, NewMeta
<1>4. \A i \in Placed \ {id} : disk'[inode[i].pos] = BlockAfter(i, parent, id)
  BY <1>2 DEF HasDocument
<1>5. Intact(id)' /\ MetaOf(id)'.doc = d
  BY <1>1, <1>3, WrittenCells DEF Intact, MetaOf
<1>6. ASSUME NEW i \in Ids \ {id}, inode[i].status = CLOSE
      PROVE  Intact(i)' /\ MetaOf(i)'.doc = MetaOf(i).doc
  <2>1. i \in Placed /\ Intact(i) /\ inode'[i] = inode[i]
    BY <1>1, <1>6, Basics DEF ContentsIntact, Placed
  <2>2. MetaOf(i) \in Metas /\ MetaOf(i).size <= inode[i].size /\ MetaOf(i).size \in Nat
        /\ inode[i].pos \in Nat /\ inode[i].size \in Nat /\ Extent(i) \subseteq DataArea
    BY <2>1, BlockOf, Basics
  <2>3. disk'[inode[i].pos].doc = MetaOf(i).doc /\ disk'[inode[i].pos].size = MetaOf(i).size
    <3>1. disk'[inode[i].pos] = BlockAfter(i, parent, id)
      BY <1>4, <2>1
    <3> QED
      BY <2>2, <3>1 DEF BlockAfter, Metas
  <2>4. ASSUME NEW k \in 2..MetaOf(i).size
        PROVE  disk'[inode[i].pos + k - 1] = disk[inode[i].pos + k - 1]
    <3> DEFINE a == inode[i].pos + k - 1
    <3>1. a \in Extent(i) /\ a # inode[i].pos
      BY <2>2 DEF Extent
    <3>2. a \in DataArea /\ a \notin pos..(pos + DocSize[d] - 1)
      BY <1>1, <2>1, <2>2, <3>1 DEF RoomFor
    <3>3. parent # NoDoc => a # inode[parent].pos
      <4>1. parent # NoDoc => parent \in Placed
        BY <1>1, Basics DEF AcceptsParent, Status, Placed, Links
      <4>2. parent # NoDoc /\ parent # i => Extent(parent) \cap Extent(i) = {}
        BY <2>1, <4>1 DEF IInv, ExtentsDisjoint
      <4> QED
        BY <3>1, <4>1, <4>2, BlockOf
    <3> QED
      BY <3>2, <3>3, WrittenCells
  <2>5. Intact(i)'
    BY <2>1, <2>3, <2>4 DEF Intact, MetaOf
  <2> QED
    BY <2>1, <2>3, <2>5 DEF MetaOf
<1> QED
  BY <1>5, <1>6

-----------------------------------------------------------------------------
(* A deletion puts the extent of a document on the list and writes no cell. *)
LEMMA FreesOne ==
    ASSUME IInv, FreeDocument
    PROVE  /\ Top.id \in Ids /\ inode[Top.id].status = CLOSE
           /\ inode'[Top.id].status = REMOVE
           /\ inode'[Top.id].pos = inode[Top.id].pos
           /\ inode'[Top.id].size = inode[Top.id].size
           /\ \A i \in Ids \ {Top.id} : inode'[i] = inode[i]
           /\ UNCHANGED <<header, disk>>
<1>1. /\ ~Idle /\ ChildDone
      /\ inode' = [inode EXCEPT ![Top.id].status = REMOVE]
      /\ UNCHANGED <<header, disk>>
  BY DEF FreeDocument
<1>2. Top.id \in Ids /\ inode[Top.id].status = CLOSE
  BY <1>1, FreedInUse, IInvBooks
<1>3. inode \in [Ids -> Inodes] /\ inode[Top.id] \in Inodes
  BY <1>2 DEF IInv, TypeOK
<1> QED
  BY <1>1, <1>2, <1>3 DEF Inodes

(* Every other step of the file leaves inodes and cells alone.             *)
LEMMA StepsOfTheFile ==
    ASSUME IInv, [Next]_vars
    PROVE  \/ UNCHANGED <<header, inode, disk>>
           \/ \E parent \in Links, d \in Documents : InsertIntoGap(parent, d)
           \/ \E parent \in Links, d \in Documents : InsertAtEnd(parent, d)
           \/ FreeDocument
<1>1. CASE \E parent \in Ids : InsertRejected(parent)
  BY <1>1 DEF InsertRejected
<1>2. CASE \E id \in Ids : DeleteDocument(id)
  BY <1>2 DEF DeleteDocument
<1>3. CASE DeleteStep /\ ~FreeDocument
  BY <1>3 DEF DeleteStep, DeleteRejected, DeleteChild, RetryChild, GiveUp, Call
<1>4. CASE UNCHANGED vars
  BY <1>4 DEF vars
<1> QED
  BY <1>1, <1>2, <1>3, <1>4 DEF Next

(* The contents of the documents in use survive every operation.           *)
LEMMA ContentsKept ==
    ASSUME IInv, ContentsIntact, [Next]_vars
    PROVE  ContentsIntact'
<1>1. CASE UNCHANGED <<header, inode, disk>>
  BY <1>1 DEF ContentsIntact, Intact, MetaOf
<1>2. ASSUME NEW parent \in Links, NEW d \in Documents, NEW id \in Ids, NEW pos \in Nat,
             Stores(id, pos, parent, d)
      PROVE  ContentsIntact'
  <2>1. Intact(id)' /\ \A i \in Ids \ {id} : inode[i].status = CLOSE => Intact(i)'
    BY <1>2, StoresKeepContents
  <2>2. \A i \in Ids \ {id} : inode'[i] = inode[i]
    BY <1>2 DEF Stores
  <2> QED
    BY <2>1, <2>2 DEF ContentsIntact
<1>3. CASE \E parent \in Links, d \in Documents : InsertIntoGap(parent, d)
  BY <1>2, <1>3, GapStores
<1>4. CASE \E parent \in Links, d \in Documents : InsertAtEnd(parent, d)
  BY <1>2, <1>4, EndStores
<1>5. CASE FreeDocument
  <2>1. ASSUME NEW i \in Ids, inode'[i].status = CLOSE
        PROVE  Intact(i)'
    <3>1. inode'[i] = inode[i] /\ disk' = disk
      BY <1>5, <2>1, FreesOne, Basics
    <3> QED
      BY <2>1, <3>1 DEF ContentsIntact, Intact, MetaOf
  <2> QED
    BY <2>1 DEF ContentsIntact
<1> QED
  BY <1>1, <1>3, <1>4, <1>5, StepsOfTheFile

(* A cell once reserved stays so, and a document put at the end reserves   *)
(* exactly the cells endPosition is moved by.                              *)
LEMMA CoverKept ==
    ASSUME IInv, ExtentsCover, [Next]_vars
    PROVE  ExtentsCover'
<1>1. CASE UNCHANGED <<header, inode, disk>>
  BY <1>1 DEF ExtentsCover, Placed, Extent, DataArea
<1>2. ASSUME NEW x \in Ids,
             inode[x].status # OPEN, inode'[x].status # OPEN,
             inode'[x].pos = inode[x].pos, inode'[x].size = inode[x].size,
             \A i \in Ids \ {x} : inode'[i] = inode[i],
             UNCHANGED header.endPosition
      PROVE  ExtentsCover'
  <2>1. Placed' = Placed
    BY <1>2 DEF Placed
  <2>2. \A i \in Placed : Extent(i)' = Extent(i)
    BY <1>2 DEF Placed, Extent
  <2> QED
    BY <1>2, <2>1, <2>2 DEF ExtentsCover, DataArea
<1>3. CASE \E parent \in Links, d \in Documents : InsertIntoGap(parent, d)
  <2>1. PICK parent \in Links, d \in Documents : InsertIntoGap(parent, d)
    BY <1>3
  <2> DEFINE id == list[1].index
  <2>2. /\ id \in Ids /\ inode[id].status = REMOVE
        /\ inode' = [inode EXCEPT ![id].status = CLOSE]
        /\ UNCHANGED header.endPosition
    BY <2>1, GapStores
  <2>3. inode \in [Ids -> Inodes] /\ inode[id] \in Inodes
    BY <2>2 DEF IInv, TypeOK
  <2>4. /\ inode'[id].status = CLOSE
        /\ inode'[id].pos = inode[id].pos /\ inode'[id].size = inode[id].size
        /\ \A i \in Ids \ {id} : inode'[i] = inode[i]
    BY <2>2, <2>3 DEF Inodes
  <2> QED
    BY <1>2, <2>2, <2>4, Basics
<1>4. CASE \E parent \in Links, d \in Documents : InsertAtEnd(parent, d)
  <2>1. PICK parent \in Links, d \in Documents : InsertAtEnd(parent, d)
    BY <1>4
  <2>0. PICK id, pos : id = Last(list).index /\ pos = header.endPosition
    OBVIOUS
  <2> DEFINE written == pos..(pos + DocSize[d] - 1)
  <2>2. /\ id \in Ids /\ pos \in Nat /\ inode[id].status = OPEN
        /\ inode'[id].status = CLOSE /\ inode'[id].pos = pos /\ inode'[id].size = DocSize[d]
        /\ \A i \in Ids \ {id} : inode'[i] = inode[i]
        /\ header'.endPosition = pos + DocSize[d]
    BY <2>0, <2>1, EndStores DEF Stores
  <2>3. Placed' = Placed \cup {id} /\ id \notin Placed
    BY <2>2, Basics DEF Placed
  <2>4. Extent(id)' = written /\ \A i \in Placed : Extent(i)' = Extent(i)
    BY <2>2, <2>3 DEF Placed, Extent
  <2>5. DataArea' = DataArea \cup written
    <3>1. DocSize[d] \in Nat \ {0} /\ DataStart \in Nat /\ DataStart <= pos
      BY <2>0, Basics
    <3> QED
      BY <2>0, <2>2, <3>1 DEF DataArea
  <2>6. (UNION {Extent(i) : i \in Placed})' = (UNION {Extent(i) : i \in Placed}) \cup written
    <3>1. PICK before, after :
             before = {Extent(i) : i \in Placed} /\ after = {Extent(i) : i \in Placed}'
      OBVIOUS
    <3>2. after = before \cup {written}
      BY <2>3, <2>4, <3>1
    <3>3. UNION after = (UNION before) \cup written
      BY <3>2
    <3> QED
      BY <3>1, <3>3
  <2> HIDE DEF written
  <2> QED
    BY <2>5, <2>6 DEF ExtentsCover
<1>5. CASE FreeDocument
  <2>1. /\ Top.id \in Ids /\ inode[Top.id].status # OPEN /\ inode'[Top.id].status # OPEN
        /\ inode'[Top.id].pos = inode[Top.id].pos /\ inode'[Top.id].size = inode[Top.id].size
        /\ \A i \in Ids \ {Top.id} : inode'[i] = inode[i]
        /\ UNCHANGED header.endPosition
    BY <1>5, FreesOne, Basics
  <2> QED
    BY <1>2, <2>1
<1> QED
  BY <1>1, <1>3, <1>4, <1>5, StepsOfTheFile

(* The extents of the inodes cover the data area.                          *)
THEOREM ExtentsKeepCovering == Spec => []ExtentsCover
<1>1. Init => ExtentsCover
  BY DocFileAssumption DEF Init, ExtentsCover, Placed, DataArea
<1>2. IInv /\ ExtentsCover /\ [Next]_vars => ExtentsCover'
  BY CoverKept
<1> QED
  BY Invariance, <1>1, <1>2, PTL DEF Spec

-----------------------------------------------------------------------------
(* What is lost of the data area is the rest of gaps filled by smaller     *)
(* documents: if all documents have one size, nothing is.                  *)
OneSize == \A d, e \in Documents : DocSize[d] = DocSize[e]

(* A cell that is the block of a document in use, or that the list offers. *)
InUse(a) == \E i \in Ids :
    inode[i].status = CLOSE /\ a \in inode[i].pos..(inode[i].pos + MetaOf(i).size - 1)
Offered(a) == \E k \in DOMAIN list :
    a \in inode[list[k].index].pos..(inode[list[k].index].pos + list[k].size - 1)

NoSpaceLost == \A a \in DataArea : InUse(a) \/ Offered(a)

(* A block fills what its inode reserves.                                  *)
BlocksFill ==
    \A i \in Placed : /\ MetaOf(i).size = inode[i].size
                      /\ MetaOf(i).size = DocSize[MetaOf(i).doc]

(* A document is stored in an inode of its size.                           *)
LEMMA StoresFill ==
    ASSUME IInv, OneSize, BlocksFill,
           NEW id \in Ids, NEW parent \in Links, NEW d \in Documents, NEW pos \in Nat,
           Stores(id, pos, parent, d),
           \/ id \in Placed /\ inode'[id].size = inode[id].size
           \/ inode'[id].size = DocSize[d]
    PROVE  BlocksFill'
<1>1. /\ inode'[id].status = CLOSE /\ inode'[id].pos = pos
      /\ \A i \in Ids \ {id} : inode'[i] = inode[i]
      /\ HasDocument(disk', d, id, parent, pos)
  BY WrittenBlocks DEF Stores
<1>2. inode'[id].size = DocSize[d]
  <2>1. CASE id \in Placed /\ inode'[id].size = inode[id].size
    <3>1. MetaOf(id).doc \in Documents /\ inode[id].size = DocSize[MetaOf(id).doc]
      BY <2>1, BlockOf DEF BlocksFill, Metas
    <3> QED
      BY <2>1, <3>1 DEF OneSize
  <2> QED
    BY <2>1
<1>3. MetaOf(id)'.size = DocSize[d] /\ MetaOf(id)'.doc = d
  BY <1>1 DEF HasDocument, NewMeta, MetaOf
<1>4. ASSUME NEW i \in Placed \ {id}
      PROVE  /\ MetaOf(i)'.size = MetaOf(i).size /\ MetaOf(i)'.doc = MetaOf(i).doc
             /\ inode'[i] = inode[i]
  <2>1. i \in Ids /\ MetaOf(i) \in Metas /\ inode'[i] = inode[i]
    BY <1>1, BlockOf
  <2>2. MetaOf(i)' = BlockAfter(i, parent, id)
    BY <1>1, <2>1 DEF HasDocument, MetaOf
  <2> QED
    BY <2>1, <2>2 DEF BlockAfter, Metas
<1>5. Placed' = Placed \cup {id}
  BY <1>1, Basics DEF Placed
<1> QED
  BY <1>2, <1>3, <1>4, <1>5 DEF BlocksFill

(* No operation makes a block smaller than what its inode reserves.        *)
LEMMA FillKept ==
    ASSUME IInv, OneSize, BlocksFill, [Next]_vars
    PROVE  BlocksFill'
<1>1. CASE UNCHANGED <<header, inode, disk>>
  BY <1>1 DEF BlocksFill, Placed, MetaOf
<1>2. CASE \E parent \in Links, d \in Documents : InsertIntoGap(parent, d)
  <2>1. PICK parent \in Links, d \in Documents : InsertIntoGap(parent, d)
    BY <1>2
  <2> DEFINE id == list[1].index
  <2>2. /\ id \in Ids /\ inode[id].status = REMOVE /\ inode[id].pos \in Nat
        /\ inode' = [inode EXCEPT ![id].status = CLOSE]
        /\ Stores(id, inode[id].pos, parent, d)
    BY <2>1, GapStores
  <2>3. inode \in [Ids -> Inodes] /\ inode[id] \in Inodes
    BY <2>2 DEF IInv, TypeOK
  <2>4. id \in Placed /\ inode'[id].size = inode[id].size
    BY <2>2, <2>3, Basics DEF Inodes, Placed
  <2> QED
    BY <2>1, <2>2, <2>4, StoresFill
<1>3. CASE \E parent \in Links, d \in Documents : InsertAtEnd(parent, d)
  BY <1>3, EndStores, StoresFill
<1>4. CASE FreeDocument
  <2>1. /\ Top.id \in Placed /\ inode'[Top.id].status = REMOVE
        /\ inode'[Top.id].pos = inode[Top.id].pos /\ inode'[Top.id].size = inode[Top.id].size
        /\ \A i \in Ids \ {Top.id} : inode'[i] = inode[i]
        /\ disk' = disk
    BY <1>4, FreesOne, Basics DEF Placed
  <2>2. Placed' = Placed
    BY <2>1, Basics DEF Placed
  <2>3. \A i \in Placed : MetaOf(i)' = MetaOf(i) /\ inode'[i].size = inode[i].size
    BY <2>1 DEF MetaOf, Placed
  <2> QED
    BY <2>2, <2>3 DEF BlocksFill
<1> QED
  BY <1>1, <1>2, <1>3, <1>4, StepsOfTheFile

Filled == OneSize /\ ExtentsCover /\ BlocksFill

(* If all documents have one size, every cell of the data area is part of  *)
(* a document in use or of a gap that insertDocument is offered whole.     *)
THEOREM OneSizeLosesNothing == OneSize /\ Spec => []NoSpaceLost
<1>1. OneSize /\ Init => Filled
  BY DocFileAssumption DEF Init, Filled, ExtentsCover, BlocksFill, Placed, DataArea
<1>2. IInv /\ Filled /\ [Next]_vars => Filled'
  BY CoverKept, FillKept DEF Filled, OneSize
<1>3. ASSUME IInv, Filled
      PROVE  NoSpaceLost
  <2> SUFFICES ASSUME NEW a \in DataArea
               PROVE  InUse(a) \/ Offered(a)
    BY DEF NoSpaceLost
  <2>1. PICK i \in Placed : a \in Extent(i)
    BY <1>3 DEF Filled, ExtentsCover
  <2>2. i \in Ids /\ a \in inode[i].pos..(inode[i].pos + MetaOf(i).size - 1)
    BY <1>3, <2>1 DEF Filled, BlocksFill, Extent, Placed
  <2>3. CASE inode[i].status = CLOSE
    BY <2>2, <2>3 DEF InUse
  <2>4. CASE inode[i].status # CLOSE
    <3>1. inode[i].status = REMOVE
      BY <1>3, <2>1, <2>2, <2>4, Basics DEF Placed
    <3>2. PICK k \in DOMAIN list : list[k].index = i
      BY <1>3, <2>2, <2>4 DEF IInv, FreeListExact, Listed
    <3>3. list[k].size = MetaOf(i).size
      BY <1>3, <3>1, <3>2, Basics DEF IInv, FreeListExact, NodeMatches
    <3> QED
      BY <2>2, <3>2, <3>3 DEF Offered
  <2> QED
    BY <2>3, <2>4
<1> QED
  BY Invariance, <1>1, <1>2, <1>3, PTL DEF Spec

-----------------------------------------------------------------------------
(* The table of documents the file stands for. *)
Docs == [i \in Ids |-> IF inode[i].status = CLOSE THEN ReadBack(i) ELSE << >>]

(* A document in use reads back as it was inserted.                        *)
LEMMA ReadsBack ==
    ASSUME IInv, NEW i \in Placed, Intact(i)
    PROVE  ReadBack(i) = Content(MetaOf(i).doc) /\ ReadBack(i) # << >>
<1>1. MetaOf(i).size \in Nat \ {0} /\ MetaOf(i).size = DocSize[MetaOf(i).doc]
  BY BlockOf DEF Intact
<1>2. ReadBack(i) = Content(MetaOf(i).doc)
  BY <1>1 DEF ReadBack, Content, Intact
<1>3. 1 \in DOMAIN ReadBack(i)
  BY <1>1 DEF ReadBack
<1> QED
  BY <1>2, <1>3

(* Storing a document is an insertion into the table, and nothing else.    *)
LEMMA StoresInserts ==
    ASSUME IInv, ContentsIntact,
           NEW id \in Ids, NEW parent \in Links, NEW d \in Documents, NEW pos \in Nat,
           Stores(id, pos, parent, d)
    PROVE  Store!Insert(id, Content(d))
<1>1. /\ Intact(id)' /\ MetaOf(id)'.doc = d
      /\ \A i \in Ids \ {id} : inode[i].status = CLOSE =>
            Intact(i)' /\ MetaOf(i)'.doc = MetaOf(i).doc
  BY StoresKeepContents
<1>2. /\ inode[id].status # CLOSE /\ inode'[id].status = CLOSE
      /\ \A i \in Ids \ {id} : inode'[i] = inode[i]
  BY DEF Stores
<1>3. \A i \in Ids : Intact(i)' => ReadBack(i)' = Content(MetaOf(i)'.doc)
  BY DEF Intact, ReadBack, Content, MetaOf
<1>4. ReadBack(id)' = Content(d)
  BY <1>1, <1>3
<1>5. ASSUME NEW i \in Ids \ {id}, inode[i].status = CLOSE
      PROVE  ReadBack(i)' = ReadBack(i)
  <2>1. ReadBack(i)' = Content(MetaOf(i).doc)
    BY <1>1, <1>3, <1>5
  <2>2. ReadBack(i) = Content(MetaOf(i).doc)
    BY <1>5, ReadsBack, Basics DEF ContentsIntact, Placed
  <2> QED
    BY <2>1, <2>2
<1>6. Docs[id] = << >>
  BY <1>2 DEF Docs
<1>7. Docs' = [Docs EXCEPT ![id] = Content(d)]
  <2>1. \A i \in Ids \ {id} : Docs'[i] = Docs[i]
    BY <1>2, <1>5 DEF Docs
  <2>2. Docs'[id] = Content(d)
    BY <1>2, <1>4 DEF Docs
  <2>3. Docs = [i \in Ids |-> Docs[i]] /\ Docs' = [i \in Ids |-> Docs'[i]]
    BY DEF Docs
  <2> QED
    BY <2>1, <2>2, <2>3
<1>8. Docs'[id] = Content(d)
  BY <1>7 DEF Docs
<1> QED
  BY <1>6, <1>7, <1>8 DEF Store!Insert, Docs

(* Freeing a document takes it, and no other, out of the table.            *)
LEMMA FreesDeletes ==
    ASSUME IInv, ContentsIntact, FreeDocument
    PROVE  \E id \in Ids : Store!Delete(id)
<1>0. PICK x \in Ids : x = Top.id
  BY FreesOne
<1>1. /\ inode[x].status = CLOSE /\ inode'[x].status = REMOVE
      /\ \A i \in Ids \ {x} : inode'[i] = inode[i]
      /\ disk' = disk
  BY <1>0, FreesOne
<1>2. Docs[x] # << >>
  BY <1>1, ReadsBack, Basics DEF Docs, ContentsIntact, Placed
<1>3. \A i \in Ids \ {x} : ReadBack(i)' = ReadBack(i)
  BY <1>1 DEF ReadBack, MetaOf
<1>4. Docs' = [Docs EXCEPT ![x] = << >>]
  BY <1>1, <1>3, Basics DEF Docs
<1>5. Docs'[x] = << >>
  BY <1>4 DEF Docs
<1> QED
  BY <1>2, <1>4, <1>5 DEF Store!Delete, Docs

(* The document file implements the table of documents: whatever is        *)
(* inserted into gaps or deleted with a subtree, a document in use reads   *)
(* back as it was inserted, an insertion takes a free number and changes   *)
(* no other, and deleteDocument takes away one whole document at a time.   *)
THEOREM Refinement == Spec => ImplementsDocStore
<1>1. Init => ContentsIntact /\ Store!Init
  <2> SUFFICES ASSUME Init PROVE ContentsIntact /\ Store!Init
    OBVIOUS
  <2>1. \A i \in Ids : inode[i].status # CLOSE
    BY DocFileAssumption DEF Init
  <2> QED
    BY <2>1 DEF ContentsIntact, Store!Init
<1>2. IInv /\ ContentsIntact /\ [Next]_vars => ContentsIntact'
  BY ContentsKept
<1>3. ASSUME IInv, ContentsIntact, [Next]_vars
      PROVE  [Store!Next]_Docs
  <2>1. CASE UNCHANGED <<header, inode, disk>>
    BY <2>1 DEF Docs, ReadBack, MetaOf
  <2>2. CASE \E parent \in Links, d \in Documents : InsertIntoGap(parent, d)
    <3>1. PICK id \in Ids, d \in Documents : Store!Insert(id, Content(d))
      BY <1>3, <2>2, GapStores, StoresInserts
    <3> QED
      BY <3>1 DEF Store!Next
  <2>3. CASE \E parent \in Links, d \in Documents : InsertAtEnd(parent, d)
    <3>1. PICK id \in Ids, d \in Documents : Store!Insert(id, Content(d))
      BY <1>3, <2>3, EndStores, StoresInserts
    <3> QED
      BY <3>1 DEF Store!Next
  <2>4. CASE FreeDocument
    <3>1. PICK id \in Ids : Store!Delete(id)
      BY <1>3, <2>4, FreesDeletes
    <3> QED
      BY <3>1 DEF Store!Next
  <2> QED
    BY <1>3, <2>1, <2>2, <2>3, <2>4, StepsOfTheFile
<1> QED
  BY Invariance, <1>1, <1>2, <1>3, PTL DEF Spec, ImplementsDocStore, Store!Spec, Docs

=============================================================================
