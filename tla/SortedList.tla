----------------------------- MODULE SortedList -----------------------------
(***************************************************************************)
(* lab1/src/list.c, pointer by pointer: the doubly linked list of free     *)
(* inodes.  A cell is a listNode_t on the heap; an iteration of a scanning *)
(* loop is a step.  The client is lab1/src/file.c and operation.c: it      *)
(* lists an inode at most once, frees the node it popped or resizes it to  *)
(* 0 and links it again (file.c:217-219), and follows every removal by     *)
(* index with the insertion of a fresh node of size 0 (file.c:198-204).    *)
(***************************************************************************)
EXTENDS Integers, FiniteSets, SequencesExt

CONSTANTS Cells,    \* heap addresses malloc may return
          Indices,  \* inode numbers
          Sizes,    \* sizes of gaps
          NULL      \* the null pointer

ASSUME SortedListAssumption ==
    /\ IsFiniteSet(Cells) /\ NULL \notin Cells
    /\ Sizes \subseteq Nat
    /\ 0 \in Sizes

VARIABLES heap,         \* the fields of the cells between malloc and free
          front, back,
          call          \* the operation in progress and its local variables

vars == <<heap, front, back, call>>

Allocated == DOMAIN heap

Pointer == Cells \cup {NULL}
NodeFields == [size : Sizes, index : Indices, prev : Pointer, next : Pointer]

Idle == [op |-> "idle"]
Inserting(node, cur) == [op |-> "insert", node |-> node, cur |-> cur]
Removing(i, cur) == [op |-> "remove", index |-> i, cur |-> cur]
Relisting(i) == [op |-> "relist", index |-> i]

Calls ==
    {Idle} \cup {Inserting(n, c) : n \in Cells, c \in Pointer}
           \cup {Removing(i, c) : i \in Indices, c \in Pointer}
           \cup {Relisting(i) : i \in Indices}

TypeOK ==
    /\ Allocated \subseteq Cells
    /\ heap \in [Allocated -> NodeFields]
    /\ front \in Pointer
    /\ back \in Pointer
    /\ call \in Calls

(* initSortedList *)
Init ==
    /\ heap = << >>
    /\ front = NULL
    /\ back = NULL
    /\ call = Idle

Owned == {heap[c].index : c \in Allocated}

-----------------------------------------------------------------------------
(* Operators named Bad... are variants of the definition that follows, each *)
(* with one plausible mistake: the properties are checked to reject them.  *)

(* createNode leaves `prev` as malloc returned it. *)
BadCreateNode(c, i, s) ==
    /\ c \notin Allocated
    /\ heap' = [a \in Allocated \cup {c} |->
          IF a = c THEN [size |-> s, index |-> i, next |-> NULL] ELSE heap[a]]
    /\ call' = Inserting(c, front)
    /\ UNCHANGED <<front, back>>

(* createNode followed by the call of insertNode. *)
CreateNode(c, i, s) ==
    /\ c \notin Allocated
    /\ heap' = [a \in Allocated \cup {c} |->
          IF a = c THEN [size |-> s, index |-> i, prev |-> NULL, next |-> NULL] ELSE heap[a]]
    /\ call' = Inserting(c, front)
    /\ UNCHANGED <<front, back>>

CallInsert(c, i, s) ==
    /\ call = Idle
    /\ i \notin Owned
    /\ CreateNode(c, i, s)

InsertIntoEmpty ==
    /\ call.op = "insert" /\ front = NULL
    /\ front' = call.node
    /\ back' = call.node
    /\ call' = Idle
    /\ UNCHANGED heap

(* The node that follows keeps its old `prev`. *)
BadInsertBefore ==
    /\ call.op = "insert" /\ call.cur # NULL
    /\ heap[call.node].size >= heap[call.cur].size
    /\ front' = IF call.cur = front THEN call.node ELSE front
    /\ heap' = [c \in Allocated |->
          CASE c = call.node -> [heap[c] EXCEPT !.prev = heap[call.cur].prev, !.next = call.cur]
            [] c = heap[call.cur].prev /\ call.cur # front -> [heap[c] EXCEPT !.next = call.node]
            [] OTHER -> heap[c]]
    /\ call' = Idle
    /\ UNCHANGED back

InsertBefore ==
    /\ call.op = "insert" /\ call.cur # NULL
    /\ LET node == call.node
           cur  == call.cur
           prev == heap[cur].prev
       IN  /\ heap[node].size >= heap[cur].size
           /\ front' = IF cur = front THEN node ELSE front
           /\ heap' = [c \in Allocated |->
                 CASE c = node -> [heap[c] EXCEPT !.prev = prev, !.next = cur]
                   [] c = cur -> [heap[c] EXCEPT !.prev = node]
                   [] c = prev /\ cur # front -> [heap[c] EXCEPT !.next = node]
                   [] OTHER -> heap[c]]
    /\ call' = Idle
    /\ UNCHANGED back

InsertAfterBack ==
    /\ call.op = "insert" /\ call.cur # NULL /\ call.cur = back
    /\ LET node == call.node
           cur  == call.cur
       IN  /\ heap[node].size < heap[cur].size
           /\ heap' = [heap EXCEPT ![node].next = heap[cur].next,
                                   ![node].prev = cur,
                                   ![cur].next = node]
           /\ back' = node
    /\ call' = Idle
    /\ UNCHANGED front

(* The scan forgets to advance. *)
BadInsertAdvance ==
    /\ call.op = "insert" /\ call.cur # NULL /\ call.cur # back
    /\ heap[call.node].size < heap[call.cur].size
    /\ UNCHANGED vars

InsertAdvance ==
    /\ call.op = "insert" /\ call.cur # NULL /\ call.cur # back
    /\ heap[call.node].size < heap[call.cur].size
    /\ call' = [call EXCEPT !.cur = heap[call.cur].next]
    /\ UNCHANGED <<heap, front, back>>

(* The scan runs off the list without linking the node. *)
InsertOffTheEnd ==
    /\ call.op = "insert" /\ call.cur = NULL /\ front # NULL
    /\ call' = Idle
    /\ UNCHANGED <<heap, front, back>>

InsertStep ==
    InsertIntoEmpty \/ InsertBefore \/ InsertAfterBack \/ InsertAdvance \/ InsertOffTheEnd

-----------------------------------------------------------------------------
(* The back is reset although the list is not empty. *)
BadUnlinkFront ==
    /\ front' = heap[front].next
    /\ back' = NULL

(* The links popMaxSizeNode changes. *)
UnlinkFront ==
    /\ front' = heap[front].next
    /\ back' = IF front' = NULL THEN NULL ELSE back

(* popMaxSizeNode, and the client frees the node. *)
PopMaxSizeNode ==
    /\ call = Idle /\ front # NULL
    /\ UnlinkFront
    /\ heap' = [c \in Allocated \ {front} |->
                    IF c = front' THEN [heap[c] EXCEPT !.prev = NULL] ELSE heap[c]]
    /\ UNCHANGED call

(* The size is reset where the node is linked. *)
BadRecycleMaxSizeNode ==
    /\ call = Idle /\ front # NULL
    /\ heap' = [heap EXCEPT ![front].size = 0]
    /\ UNCHANGED <<front, back, call>>

(* popMaxSizeNode, and the client links the same node again as unplaced. *)
RecycleMaxSizeNode ==
    /\ call = Idle /\ front # NULL
    /\ UnlinkFront
    /\ heap' = [c \in Allocated |->
          CASE c = front -> [heap[c] EXCEPT !.size = 0]
            [] c = front' -> [heap[c] EXCEPT !.prev = NULL]
            [] OTHER -> heap[c]]
    /\ call' = Inserting(front, front')

PopMinSizeNode ==
    /\ call = Idle /\ back # NULL
    /\ back' = heap[back].prev
    /\ front' = IF back' = NULL THEN NULL ELSE front
    /\ heap' = [c \in Allocated \ {back} |->
                    IF c = back' THEN [heap[c] EXCEPT !.next = NULL] ELSE heap[c]]
    /\ UNCHANGED call

-----------------------------------------------------------------------------
(* removeNodeByIndex; the only caller removes inodes that are listed. *)
CallRemove(i) ==
    /\ call = Idle /\ front # NULL
    /\ i \in Owned
    /\ call' = Removing(i, front)
    /\ UNCHANGED <<heap, front, back>>

RemoveMatch ==
    /\ call.op = "remove" /\ heap[call.cur].index = call.index
    /\ LET cur  == call.cur
           prev == heap[cur].prev
           next == heap[cur].next
       IN  /\ heap' = [c \in Allocated \ {cur} |->
                 CASE c = prev -> [heap[c] EXCEPT !.next = next]
                   [] c = next -> [heap[c] EXCEPT !.prev = prev]
                   [] OTHER -> heap[c]]
           /\ front' = IF cur = front THEN next ELSE front
           /\ back' = IF next = back THEN prev ELSE back
    /\ call' = Relisting(call.index)

(* The body of the loop changes nothing when the index is another one. *)
RemoveNoMatch ==
    /\ call.op = "remove" /\ heap[call.cur].index # call.index
    /\ UNCHANGED vars

RemoveStep == RemoveMatch \/ RemoveNoMatch

(* insertNode(&file->list, createNode(docId, 0)) after the removal. *)
Relist(c) ==
    /\ call.op = "relist"
    /\ CreateNode(c, call.index, 0)

-----------------------------------------------------------------------------
Next ==
    \/ \E c \in Cells, i \in Indices, s \in Sizes : CallInsert(c, i, s)
    \/ InsertStep
    \/ PopMaxSizeNode
    \/ RecycleMaxSizeNode
    \/ PopMinSizeNode
    \/ \E i \in Indices : CallRemove(i)
    \/ RemoveStep
    \/ \E c \in Cells : Relist(c)

(* A call that has begun keeps running: the program has one thread.        *)
Spec ==
    /\ Init /\ [][Next]_vars
    /\ WF_vars(InsertStep) /\ WF_vars(RemoveStep)
-----------------------------------------------------------------------------
(* s visits the cells met when `next` is followed from `front` to NULL. *)
At(s, k) == IF k \in DOMAIN s THEN s[k] ELSE NULL

IsChain(s) ==
    /\ front = At(s, 1)
    /\ \A k \in DOMAIN s : heap[s[k]].next = At(s, k + 1)

Chains == {s \in BoundedSeq(Allocated, Cardinality(Allocated)) : IsChain(s)}
Chain == CHOOSE s \in Chains : TRUE

(* The client's view of the list. *)
View(s) == [k \in DOMAIN s |-> [index |-> heap[s[k]].index, size |-> heap[s[k]].size]]
AsSequence == View(Chain)
=============================================================================
