-------------------------- MODULE SortedListProofs --------------------------
(***************************************************************************)
(* The linked list of list.c is what its clients take it for, whatever     *)
(* cells malloc returns and whatever inodes and sizes are listed.          *)
(***************************************************************************)
EXTENDS SortedListProps, SequenceTheorems, FiniteSetTheorems, TLAPS

Lists == INSTANCE FreeListProofs

(* What a call in progress may rely on, s being the cells of the list: the *)
(* node to be linked is not among them, the scan has passed larger nodes   *)
(* only and cannot have passed a back that is set, a removal looks at the  *)
(* front, and the inode removed is not listed until it is linked again.    *)
Passed(s, j) ==
    /\ call.cur = At(s, j)
    /\ \A k \in 1..(j - 1) : heap[s[k]].size > heap[call.node].size
    /\ front # NULL /\ j > Len(s) => back = NULL

CallFits(s) ==
    /\ call = Idle /\ front = NULL => back = NULL
    /\ call.op = "remove" => front # NULL /\ call.cur = front
    /\ call.op = "relist" => call.index \notin Owned
    /\ call.op = "insert" =>
          /\ call.node \in Allocated
          /\ \A k \in DOMAIN s : s[k] # call.node
          /\ front = NULL => heap[call.node].prev = NULL /\ heap[call.node].next = NULL
          /\ \E j \in 1..(Len(s) + 1) : Passed(s, j)

(* s is the list, in both directions, and no cell is on it twice. *)
Links(s) ==
    /\ IsChain(s)
    /\ \A k \in DOMAIN s : heap[s[k]].prev = At(s, k - 1)
    /\ \A j, k \in DOMAIN s : s[j] = s[k] => j = k
    /\ front # NULL /\ ~NoBack => back = s[Len(s)]

IndicesDistinct ==
    \A c, d \in Allocated : heap[c].index = heap[d].index => c = d

IInv ==
    /\ TypeOK
    /\ IndicesDistinct
    /\ \E s \in Seq(Allocated) : Links(s) /\ CallFits(s)

-----------------------------------------------------------------------------
(* A function on the first numbers is a sequence. *)
LEMMA SequenceOf ==
    ASSUME NEW S, NEW n \in Nat, NEW t \in [1..n -> S]
    PROVE  t \in Seq(S) /\ Len(t) = n /\ DOMAIN t = 1..n
  BY SeqDef

(* From a cell, following one link after the other gives one sequence.     *)
LEMMA OnlyChain ==
    ASSUME NEW A, IsFiniteSet(A), NEW h, NEW f, NEW s \in Seq(A),
           NULL \notin A,
           \A j, k \in DOMAIN s : s[j] = s[k] => j = k,
           f = At(s, 1), \A k \in DOMAIN s : h[s[k]].next = At(s, k + 1)
    PROVE  {t \in BoundedSeq(A, Cardinality(A)) :
               /\ f = At(t, 1)
               /\ \A k \in DOMAIN t : h[t[k]].next = At(t, k + 1)} = {s}
<1>1. Cardinality(A) \in Nat
  BY FS_CardinalityType
<1>2. Len(s) \in Nat /\ s \in [1..Len(s) -> A] /\ DOMAIN s = 1..Len(s)
  BY LenProperties
<1>3. Len(s) <= Cardinality(A)
  <2>1. s \in Injection(1..Len(s), A)
    BY <1>2 DEF Injection, IsInjective
  <2>2. IsFiniteSet(1..Len(s)) /\ Cardinality(1..Len(s)) = Len(s)
    BY <1>2, FS_Interval
  <2> QED
    BY <2>1, <2>2, FS_Injection
<1>4. s \in BoundedSeq(A, Cardinality(A))
  BY <1>1, <1>2, <1>3 DEF BoundedSeq, SeqOf
<1>5. ASSUME NEW t \in BoundedSeq(A, Cardinality(A)),
             f = At(t, 1), \A k \in DOMAIN t : h[t[k]].next = At(t, k + 1)
      PROVE  t = s
  <2>1. PICK n \in Nat : t \in [1..n -> A]
    BY <1>1 DEF BoundedSeq, SeqOf
  <2> DEFINE Apart == {k \in Nat \ {0} : At(s, k) # At(t, k)}
  <2>2. Apart = {}
    <3> SUFFICES ASSUME Apart # {} PROVE FALSE
      OBVIOUS
    <3>1. PICK m \in Apart : \A k \in Apart : m <= k
      <4>1. Apart \in SUBSET Nat
        OBVIOUS
      <4> QED
        BY <4>1, Lists!LeastElement
    <3>2. m # 1
      BY <1>5
    <3>3. m - 1 \in Nat \ {0} /\ m - 1 \notin Apart
      BY <3>1, <3>2
    <3>4. At(s, m - 1) = At(t, m - 1)
      BY <3>3
    <3>5. CASE m - 1 \in 1..Len(s)
      <4>1. At(s, m - 1) \in A
        BY <1>2, <3>5 DEF At
      <4>2. m - 1 \in 1..n
        BY <2>1, <3>4, <4>1 DEF At
      <4>3. s[m - 1] = t[m - 1]
        BY <1>2, <2>1, <3>4, <3>5, <4>2 DEF At
      <4>4. At(s, m) = h[s[m - 1]].next /\ At(t, m) = h[t[m - 1]].next
        <5>1. (m - 1) + 1 = m
          BY <3>1
        <5>2. m - 1 \in DOMAIN s /\ m - 1 \in DOMAIN t
          BY <1>2, <2>1, <3>5, <4>2
        <5> QED
          BY <1>5, <5>1, <5>2
      <4> QED
        BY <3>1, <4>3, <4>4
    <3>6. CASE m - 1 \notin 1..Len(s)
      <4>1. At(s, m - 1) = NULL /\ At(s, m) = NULL
        BY <1>2, <3>3, <3>6 DEF At
      <4>2. m - 1 \notin 1..n
        BY <2>1, <3>4, <4>1 DEF At
      <4>3. At(t, m) = NULL
        BY <2>1, <3>3, <4>2 DEF At
      <4> QED
        BY <3>1, <4>1, <4>3
    <3> QED
      BY <3>5, <3>6
  <2>3. \A k \in Nat \ {0} : At(s, k) = At(t, k)
    BY <2>2
  <2>4. n = Len(s)
    <3>1. CASE n < Len(s)
      <4>1. n + 1 \in 1..Len(s) /\ n + 1 \notin 1..n /\ n + 1 \in Nat \ {0}
        BY <1>2, <3>1
      <4>2. At(s, n + 1) \in A /\ At(t, n + 1) = NULL
        BY <1>2, <2>1, <4>1 DEF At
      <4> QED
        BY <2>3, <4>1, <4>2
    <3>2. CASE Len(s) < n
      <4>1. Len(s) + 1 \in 1..n /\ Len(s) + 1 \notin 1..Len(s) /\ Len(s) + 1 \in Nat \ {0}
        BY <1>2, <3>2
      <4>2. At(t, Len(s) + 1) \in A /\ At(s, Len(s) + 1) = NULL
        BY <1>2, <2>1, <4>1 DEF At
      <4> QED
        BY <2>3, <4>1, <4>2
    <3>3. Len(s) \in Nat
      BY <1>2
    <3> QED
      BY <3>1, <3>2, <3>3
  <2>5. \A k \in 1..n : s[k] = t[k]
    BY <1>2, <2>1, <2>3, <2>4 DEF At
  <2> QED
    BY <1>2, <2>1, <2>4, <2>5
<1> QED
  BY <1>4, <1>5

(* The chain found in a state is the one the links describe ...            *)
LEMMA TheChain ==
    ASSUME TypeOK, NEW s \in Seq(Allocated), Links(s)
    PROVE  Chains = {s} /\ AsSequence = View(s)
<1>1. IsFiniteSet(Allocated) /\ NULL \notin Allocated
  BY SortedListAssumption, FS_Subset DEF TypeOK
<1>2. Chains = {s}
  BY <1>1, OnlyChain DEF Links, Chains, IsChain
<1> QED
  BY <1>2 DEF AsSequence, Chain

(* ... and so in the next one.                                             *)
LEMMA TheNextChain ==
    ASSUME TypeOK', NEW s \in Seq(Allocated'), Links(s)'
    PROVE  Chains' = {s} /\ AsSequence' = View(s)'
<1>1. IsFiniteSet(Allocated') /\ NULL \notin Allocated'
  BY SortedListAssumption, FS_Subset DEF TypeOK
<1>2. Chains' = {s}
  BY <1>1, OnlyChain DEF Links, Chains, IsChain
<1> QED
  BY <1>2 DEF AsSequence, Chain

(* What the types say of the cells, and of the call by its name.           *)
LEMMA Basics ==
    ASSUME TypeOK
    PROVE  /\ NULL \notin Allocated /\ Allocated \subseteq Cells
           /\ \A c \in Allocated :
                 /\ heap[c] \in NodeFields
                 /\ heap[c].size \in Sizes /\ heap[c].size \in Nat
                 /\ heap[c].index \in Indices
                 /\ heap[c].prev \in Pointer /\ heap[c].next \in Pointer
           /\ call.op = "idle" => call = Idle
           /\ call.op = "insert" =>
                 call.node \in Cells /\ call.cur \in Pointer /\ call = Inserting(call.node, call.cur)
           /\ call.op = "remove" =>
                 call.index \in Indices /\ call = Removing(call.index, call.cur)
           /\ call.op = "relist" => call.index \in Indices /\ call = Relisting(call.index)
<1>1. NULL \notin Allocated /\ Allocated \subseteq Cells
  BY SortedListAssumption DEF TypeOK
<1>2. \A c \in Allocated :
         /\ heap[c] \in NodeFields
         /\ heap[c].size \in Sizes /\ heap[c].size \in Nat
         /\ heap[c].index \in Indices
         /\ heap[c].prev \in Pointer /\ heap[c].next \in Pointer
  BY SortedListAssumption DEF TypeOK, NodeFields
<1>3. /\ call.op = "idle" => call = Idle
      /\ call.op = "insert" =>
            call.node \in Cells /\ call.cur \in Pointer /\ call = Inserting(call.node, call.cur)
      /\ call.op = "remove" =>
            call.index \in Indices /\ call = Removing(call.index, call.cur)
      /\ call.op = "relist" => call.index \in Indices /\ call = Relisting(call.index)
  BY DEF TypeOK, Calls, Idle, Inserting, Removing, Relisting
<1> QED
  BY <1>1, <1>2, <1>3

(* The cells of the list: an empty list is a list without a front, and the *)
(* view of the list is a list of nodes as its clients know them.           *)
LEMMA ChainFacts ==
    ASSUME TypeOK, NEW s \in Seq(Allocated), Links(s)
    PROVE  /\ Len(s) \in Nat /\ DOMAIN s = 1..Len(s)
           /\ \A k \in 1..Len(s) : s[k] \in Allocated /\ s[k] # NULL
           /\ front = At(s, 1)
           /\ front = NULL <=> Len(s) = 0
           /\ front = NULL <=> s = << >>
           /\ Len(s) > 0 => front = s[1]
           /\ \A k \in 1..Len(s) : /\ heap[s[k]].next = At(s, k + 1)
                                   /\ heap[s[k]].prev = At(s, k - 1)
           /\ \A j, k \in 1..Len(s) : s[j] = s[k] => j = k
           /\ View(s) \in Seq(Lists!Nodes(Indices)) /\ Len(View(s)) = Len(s)
           /\ \A k \in 1..Len(s) :
                 /\ View(s)[k].index = heap[s[k]].index
                 /\ View(s)[k].size = heap[s[k]].size
<1>1. Len(s) \in Nat /\ DOMAIN s = 1..Len(s) /\ s \in [1..Len(s) -> Allocated]
  BY LenProperties
<1>2. \A k \in 1..Len(s) : s[k] \in Allocated /\ s[k] # NULL
  BY <1>1, Basics
<1>3. front = At(s, 1)
  BY DEF Links, IsChain
<1>4. front = NULL <=> Len(s) = 0
  BY <1>1, <1>2, <1>3 DEF At
<1>5. s = << >> <=> Len(s) = 0
  BY EmptySeq
<1>6. View(s) = [k \in 1..Len(s) |-> [index |-> heap[s[k]].index, size |-> heap[s[k]].size]]
  BY <1>1 DEF View
<1>7. View(s) \in [1..Len(s) -> Lists!Nodes(Indices)]
  BY <1>2, <1>6, Basics DEF Lists!Nodes
<1>8. View(s) \in Seq(Lists!Nodes(Indices)) /\ Len(View(s)) = Len(s)
  BY <1>1, <1>7, IsASeq, LenProperties
<1>9. \A k \in 1..Len(s) : /\ View(s)[k].index = heap[s[k]].index
                           /\ View(s)[k].size = heap[s[k]].size
  BY <1>6
<1>10. \A k \in 1..Len(s) : /\ heap[s[k]].next = At(s, k + 1)
                            /\ heap[s[k]].prev = At(s, k - 1)
  BY <1>1 DEF Links, IsChain
<1>11. \A j, k \in 1..Len(s) : s[j] = s[k] => j = k
  BY <1>1 DEF Links
<1>12. Len(s) > 0 => front = s[1]
  BY <1>1, <1>3 DEF At
<1> QED
  BY <1>1, <1>2, <1>3, <1>4, <1>5, <1>8, <1>9, <1>10, <1>11, <1>12

-----------------------------------------------------------------------------
(* A place where the scan of insertNode may stop is the only one.          *)
LEMMA StopsThere ==
    ASSUME NEW l \in Seq(Lists!Nodes(Indices)), NEW z \in Nat,
           NEW p \in 1..(Len(l) + 1),
           \A k \in 1..(p - 1) : l[k].size > z,
           p <= Len(l) => l[p].size <= z
    PROVE  Lists!InsertPos(l, z) = p /\ Value!InsertPos(l, z) = p
<1>1. Len(l) \in Nat /\ \A k \in 1..Len(l) : l[k].size \in Nat
  <2>1. l \in [1..Len(l) -> Lists!Nodes(Indices)] /\ Len(l) \in Nat
    BY LenProperties
  <2> QED
    BY <2>1 DEF Lists!Nodes
<1>2. PICK q \in 1..(Len(l) + 1) :
         q = Lists!InsertPos(l, z) /\ Lists!IsInsertPos(l, z, q)
  BY Lists!InsertPosProperties
<1>3. /\ \A k \in 1..(q - 1) : l[k].size > z
      /\ q <= Len(l) => l[q].size <= z
  BY <1>2 DEF Lists!IsInsertPos
<1>4. ~(q < p)
  <2>1. q < p => q \in 1..(p - 1) /\ q \in 1..Len(l)
    BY <1>1
  <2> QED
    BY <1>1, <1>3, <2>1
<1>5. ~(p < q)
  <2>1. p < q => p \in 1..(q - 1) /\ p \in 1..Len(l)
    BY <1>1
  <2> QED
    BY <1>1, <1>3, <2>1
<1>6. Value!InsertPos(l, z) = Lists!InsertPos(l, z)
  BY DEF Value!InsertPos, Value!IsInsertPos, Lists!InsertPos, Lists!IsInsertPos
<1> QED
  BY <1>1, <1>2, <1>4, <1>5, <1>6

(* A list in which the new node has that place, and the others their order, *)
(* is the result of insertNode.                                             *)
LEMMA InsertsThere ==
    ASSUME NEW l \in Seq(Lists!Nodes(Indices)), NEW new \in Lists!Nodes(Indices),
           NEW p \in 1..(Len(l) + 1),
           \A k \in 1..(p - 1) : l[k].size > new.size,
           p <= Len(l) => l[p].size <= new.size,
           NEW m \in Seq(Lists!Nodes(Indices)), Len(m) = Len(l) + 1,
           \A k \in 1..(Len(l) + 1) :
              m[k] = IF k < p THEN l[k] ELSE IF k = p THEN new ELSE l[k - 1]
    PROVE  m = Value!InsertNode(l, new)
<1>1. p = Lists!InsertPos(l, new.size)
  <2>1. new.size \in Nat
    BY DEF Lists!Nodes
  <2> QED
    BY <2>1, StopsThere
<1>2. m = Lists!InsertNode(l, new)
  <2>1. /\ Lists!InsertNode(l, new) \in Seq(Lists!Nodes(Indices))
        /\ Len(Lists!InsertNode(l, new)) = Len(l) + 1
        /\ \A k \in 1..(Len(l) + 1) :
              Lists!InsertNode(l, new)[k] =
                 IF k < Lists!InsertPos(l, new.size) THEN l[k]
                 ELSE IF k = Lists!InsertPos(l, new.size) THEN new ELSE l[k - 1]
    BY Lists!InsertNodeProperties
  <2>2. \A k \in 1..(Len(l) + 1) : m[k] = Lists!InsertNode(l, new)[k]
    BY <1>1, <2>1
  <2> QED
    BY <2>1, <2>2, SeqEqual
<1>3. Value!InsertNode(l, new) = Lists!InsertNode(l, new)
  BY DEF Value!InsertNode, Value!InsertPos, Value!IsInsertPos, Value!InsertAt,
         Lists!InsertNode, Lists!InsertPos, Lists!IsInsertPos, Lists!InsertAt
<1> QED
  BY <1>2, <1>3

(* s with node linked in front of its p-th cell, or behind the last one.   *)
Inserted(s, p, node) ==
    [k \in 1..(Len(s) + 1) |-> IF k < p THEN s[k] ELSE IF k = p THEN node ELSE s[k - 1]]

(* What the three ways in which insertNode ends have in common: node, and  *)
(* no other, finds its place, and the links around that place are set.     *)
Connects(s, p, node) ==
    /\ front' = IF p = 1 THEN node ELSE front
    /\ back' = IF p > Len(s) THEN node ELSE back
    /\ heap' \in [Allocated -> NodeFields]
    /\ \A c \in Allocated : heap'[c].size = heap[c].size /\ heap'[c].index = heap[c].index
    /\ heap'[node].prev = At(s, p - 1) /\ heap'[node].next = At(s, p)
    /\ \A k \in 1..Len(s) :
          /\ heap'[s[k]].next = IF k = p - 1 THEN node ELSE heap[s[k]].next
          /\ heap'[s[k]].prev = IF k = p THEN node ELSE heap[s[k]].prev
    /\ call' = Idle

(* The node is linked where the scan of insertNode is to stop, and the     *)
(* clients see an insertion into their list.                               *)
LEMMA ConnectsInserts ==
    ASSUME TypeOK, IndicesDistinct, NEW s \in Seq(Allocated), Links(s),
           NEW node \in Allocated, \A k \in 1..Len(s) : s[k] # node,
           NEW p \in 1..(Len(s) + 1), Connects(s, p, node),
           \A k \in 1..(p - 1) : heap[s[k]].size > heap[node].size,
           p <= Len(s) => heap[s[p]].size <= heap[node].size,
           p > Len(s) => ~NoBack
    PROVE  IInv' /\ Value!Next
<1> DEFINE t == Inserted(s, p, node)
           n == Len(s)
<1>1. /\ n \in Nat /\ DOMAIN s = 1..n
      /\ \A k \in 1..n : s[k] \in Allocated /\ s[k] # NULL
      /\ front = NULL <=> n = 0
      /\ n > 0 => front = s[1]
      /\ \A k \in 1..n : heap[s[k]].next = At(s, k + 1) /\ heap[s[k]].prev = At(s, k - 1)
      /\ \A j, k \in 1..n : s[j] = s[k] => j = k
  BY ChainFacts
<1>2. node # NULL /\ node \in Cells /\ \A c \in Allocated : c # NULL /\ c \in Cells
  BY Basics
<1>3. Allocated' = Allocated
  BY DEF Connects, Allocated
<1>4. /\ t \in [1..(n + 1) -> Allocated]
      /\ \A k \in 1..(n + 1) : t[k] = IF k < p THEN s[k] ELSE IF k = p THEN node ELSE s[k - 1]
  BY <1>1 DEF Inserted
<1>5. t \in Seq(Allocated) /\ Len(t) = n + 1 /\ DOMAIN t = 1..(n + 1)
  <2>1. n + 1 \in Nat
    BY <1>1
  <2> HIDE DEF t
  <2> QED
    BY <1>4, <2>1, SequenceOf
<1> HIDE DEF t
<1>6. TypeOK'
  <2>1. front' \in Pointer /\ back' \in Pointer
    BY <1>2 DEF Connects, TypeOK, Pointer
  <2>2. call' \in Calls
    BY DEF Connects, Calls
  <2> QED
    BY <1>3, <2>1, <2>2 DEF TypeOK, Connects
<1>7. IndicesDistinct'
  BY <1>3 DEF IndicesDistinct, Connects
<1>8. \A k \in 1..(n + 1) : heap'[t[k]].next = At(t, k + 1)
  <2> SUFFICES ASSUME NEW k \in 1..(n + 1) PROVE heap'[t[k]].next = At(t, k + 1)
    OBVIOUS
  <2>1. CASE k < p
    <3>1. k \in 1..n /\ t[k] = s[k] /\ k + 1 \in 1..(n + 1)
      BY <1>1, <1>4, <2>1
    <3>2. At(t, k + 1) = IF k = p - 1 THEN node ELSE At(s, k + 1)
      BY <1>1, <1>4, <1>5, <2>1, <3>1 DEF At
    <3> QED
      BY <1>1, <3>1, <3>2 DEF Connects
  <2>2. CASE k = p
    <3>1. t[k] = node
      BY <1>4, <2>2
    <3>2. At(t, k + 1) = At(s, p)
      BY <1>1, <1>4, <1>5, <2>2 DEF At
    <3> QED
      BY <3>1, <3>2 DEF Connects
  <2>3. CASE k > p
    <3>1. k - 1 \in 1..n /\ t[k] = s[k - 1] /\ k - 1 # p - 1 /\ (k - 1) + 1 = k
      BY <1>1, <1>4, <2>3
    <3>2. At(t, k + 1) = At(s, k)
      BY <1>1, <1>4, <1>5, <2>3 DEF At
    <3> QED
      BY <1>1, <3>1, <3>2 DEF Connects
  <2> QED
    BY <1>1, <2>1, <2>2, <2>3
<1>9. \A k \in 1..(n + 1) : heap'[t[k]].prev = At(t, k - 1)
  <2> SUFFICES ASSUME NEW k \in 1..(n + 1) PROVE heap'[t[k]].prev = At(t, k - 1)
    OBVIOUS
  <2>1. CASE k < p
    <3>1. k \in 1..n /\ t[k] = s[k] /\ k # p
      BY <1>1, <1>4, <2>1
    <3>2. At(t, k - 1) = At(s, k - 1)
      BY <1>1, <1>4, <1>5, <2>1 DEF At
    <3> QED
      BY <1>1, <3>1, <3>2 DEF Connects
  <2>2. CASE k = p
    <3>1. t[k] = node
      BY <1>4, <2>2
    <3>2. At(t, k - 1) = At(s, p - 1)
      BY <1>1, <1>4, <1>5, <2>2 DEF At
    <3> QED
      BY <3>1, <3>2 DEF Connects
  <2>3. CASE k > p
    <3>1. k - 1 \in 1..n /\ t[k] = s[k - 1] /\ k - 1 \in 1..(n + 1)
      BY <1>1, <1>4, <2>3
    <3>2. At(t, k - 1) = IF k - 1 = p THEN node ELSE At(s, (k - 1) - 1)
      BY <1>1, <1>4, <1>5, <2>3, <3>1 DEF At
    <3> QED
      BY <1>1, <3>1, <3>2 DEF Connects
  <2> QED
    BY <1>1, <2>1, <2>2, <2>3
<1>10. \A j, k \in 1..(n + 1) : t[j] = t[k] => j = k
  <2> DEFINE from(k) == IF k < p THEN k ELSE k - 1
  <2>1. \A k \in 1..(n + 1) : k # p => from(k) \in 1..n /\ t[k] = s[from(k)]
    BY <1>1, <1>4
  <2>2. \A j, k \in 1..(n + 1) : j # p /\ k # p /\ from(j) = from(k) => j = k
    BY <1>1
  <2>3. t[p] = node
    BY <1>4
  <2> HIDE DEF from
  <2>4. \A k \in 1..(n + 1) : k # p => t[k] # node
    BY <2>1
  <2> SUFFICES ASSUME NEW j \in 1..(n + 1), NEW k \in 1..(n + 1), t[j] = t[k]
               PROVE  j = k
    OBVIOUS
  <2>5. CASE j # p /\ k # p
    <3>1. from(j) = from(k)
      BY <1>1, <2>1, <2>5
    <3> QED
      BY <2>2, <2>5, <3>1
  <2> QED
    BY <2>3, <2>4, <2>5
<1>11. front' = At(t, 1) /\ front' # NULL
  BY <1>1, <1>2, <1>4, <1>5 DEF At, Connects
<1>12. back' # NULL => back' = t[n + 1]
  <2>1. CASE p > n
    BY <1>1, <1>4, <2>1 DEF Connects
  <2>2. CASE p <= n
    <3>1. back' = back /\ t[n + 1] = s[n] /\ front # NULL
      BY <1>1, <1>4, <2>2 DEF Connects
    <3> QED
      BY <3>1 DEF Links, NoBack
  <2> QED
    BY <1>1, <2>1, <2>2
<1>13. Links(t)' /\ CallFits(t)'
  <2>1. Links(t)'
    BY <1>5, <1>8, <1>9, <1>10, <1>11, <1>12 DEF Links, IsChain, NoBack
  <2>2. CallFits(t)'
    BY <1>11 DEF CallFits, Connects, Idle
  <2> QED
    BY <2>1, <2>2
<1>14. IInv'
  BY <1>3, <1>5, <1>6, <1>7, <1>13 DEF IInv
<1>15. PICK i, z, l, m : /\ i = heap[node].index /\ z = heap[node].size
                         /\ l = View(s) /\ m = View(t)'
  OBVIOUS
<1> DEFINE new == Value!CreateNode(i, z)
<1>16. /\ new \in Lists!Nodes(Indices) /\ new.index = i /\ new.size = z
       /\ i \in Indices /\ z \in Sizes
  BY <1>15, Basics DEF Value!CreateNode, Lists!Nodes
<1>17. /\ l \in Seq(Lists!Nodes(Indices)) /\ Len(l) = n
       /\ l = [k \in 1..n |-> [index |-> heap[s[k]].index, size |-> heap[s[k]].size]]
  BY <1>1, <1>15, ChainFacts DEF View
<1>18. m = [k \in 1..(n + 1) |-> [index |-> heap[t[k]].index, size |-> heap[t[k]].size]]
  BY <1>4, <1>5, <1>15 DEF View, Connects
<1>19. m \in Seq(Lists!Nodes(Indices)) /\ Len(m) = n + 1
  <2>1. m \in [1..(n + 1) -> Lists!Nodes(Indices)] /\ n + 1 \in Nat
    BY <1>1, <1>4, <1>18, Basics DEF Lists!Nodes
  <2> QED
    BY <2>1, SequenceOf
<1>20. /\ \A k \in 1..(p - 1) : l[k].size > z
       /\ p <= n => l[p].size <= z
  BY <1>1, <1>15, <1>17
<1>21. \A k \in 1..(n + 1) :
          m[k] = IF k < p THEN l[k] ELSE IF k = p THEN new ELSE l[k - 1]
  BY <1>1, <1>4, <1>15, <1>17, <1>18 DEF Value!CreateNode
<1> HIDE DEF new
<1>22. Value!InsertPos(l, z) = p /\ m = Value!InsertNode(l, new)
  <2>1. /\ p \in 1..(Len(l) + 1) /\ Len(m) = Len(l) + 1
        /\ \A k \in 1..(p - 1) : l[k].size > new.size
        /\ p <= Len(l) => l[p].size <= new.size
        /\ \A k \in 1..(Len(l) + 1) :
              m[k] = IF k < p THEN l[k] ELSE IF k = p THEN new ELSE l[k - 1]
    BY <1>16, <1>17, <1>19, <1>20, <1>21
  <2>2. m = Value!InsertNode(l, new)
    BY <1>16, <1>17, <1>19, <2>1, InsertsThere
  <2>3. new.size \in Nat
    BY <1>16 DEF Lists!Nodes
  <2>4. Value!InsertPos(l, new.size) = p
    BY <1>17, <2>1, <2>3, StopsThere
  <2> QED
    BY <1>16, <2>2, <2>4
<1>23. \A k \in DOMAIN l : l[k].index # i
  BY <1>1, <1>15, <1>17 DEF IndicesDistinct
<1>24. NoBack' = NoBack /\ (NoBack => p <= n)
  BY <1>1, <1>2, <1>11 DEF NoBack, Connects
<1>25. AsSequence = l /\ AsSequence' = m
  BY <1>3, <1>5, <1>6, <1>13, <1>15, TheChain, TheNextChain
<1>26. Value!Insert(i, z)
  BY <1>16, <1>17, <1>22, <1>23, <1>24, <1>25 DEF Value!Insert, Value!Linked, new
<1> QED
  BY <1>14, <1>16, <1>26 DEF Value!Next

-----------------------------------------------------------------------------
(* The first node of a list.                                               *)
LEMMA InsertIntoEmptyStep ==
    ASSUME IInv, InsertIntoEmpty
    PROVE  IInv' /\ Value!Next
<1>1. TypeOK /\ IndicesDistinct
  BY DEF IInv
<1>2. PICK s \in Seq(Allocated) : Links(s) /\ CallFits(s)
  BY DEF IInv
<1>3. PICK node : node = call.node
  OBVIOUS
<1>4. /\ front = NULL /\ front' = node /\ back' = node /\ call' = Idle /\ heap' = heap
      /\ node \in Allocated
      /\ heap[node].prev = NULL /\ heap[node].next = NULL
  BY <1>2, <1>3 DEF InsertIntoEmpty, CallFits
<1>5. Len(s) = 0 /\ DOMAIN s = 1..0
  BY <1>1, <1>2, <1>4, ChainFacts
<1>6. Connects(s, 1, node)
  BY <1>1, <1>4, <1>5 DEF Connects, At, TypeOK
<1>7. ~NoBack
  BY <1>4 DEF NoBack
<1>8. /\ 1 \in 1..(Len(s) + 1) /\ ~(1 <= Len(s))
      /\ \A k \in 1..Len(s) : s[k] # node
      /\ \A k \in 1..(1 - 1) : heap[s[k]].size > heap[node].size
  BY <1>5
<1> QED
  BY <1>1, <1>2, <1>4, <1>6, <1>7, <1>8, ConnectsInserts

(* A node that goes in front of one that is not larger.                    *)
LEMMA InsertBeforeStep ==
    ASSUME IInv, InsertBefore
    PROVE  IInv' /\ Value!Next
<1>1. TypeOK /\ IndicesDistinct
  BY DEF IInv
<1>2. PICK s \in Seq(Allocated) : Links(s) /\ CallFits(s)
  BY DEF IInv
<1>3. PICK node, cur : node = call.node /\ cur = call.cur
  OBVIOUS
<1> DEFINE n == Len(s)
<1>4. /\ n \in Nat /\ DOMAIN s = 1..n
      /\ \A k \in 1..n : s[k] \in Allocated /\ s[k] # NULL
      /\ n > 0 => front = s[1]
      /\ \A k \in 1..n : heap[s[k]].next = At(s, k + 1) /\ heap[s[k]].prev = At(s, k - 1)
      /\ \A j, k \in 1..n : s[j] = s[k] => j = k
  BY <1>1, <1>2, ChainFacts
<1>5. /\ node \in Allocated
      /\ \A k \in 1..n : s[k] # node
  BY <1>2, <1>3, <1>4 DEF InsertBefore, CallFits
<1>6. PICK j \in 1..(n + 1) :
         cur = At(s, j) /\ \A k \in 1..(j - 1) : heap[s[k]].size > heap[node].size
  BY <1>2, <1>3 DEF InsertBefore, CallFits, Passed
<1>7. j \in 1..n /\ cur = s[j]
  BY <1>3, <1>4, <1>6 DEF At, InsertBefore
<1>0. PICK prev : prev = At(s, j - 1)
  OBVIOUS
<1>8. /\ heap[node].size >= heap[cur].size
      /\ front' = IF cur = front THEN node ELSE front
      /\ \A c \in Allocated : heap'[c] =
            CASE c = node -> [heap[c] EXCEPT !.prev = prev, !.next = cur]
              [] c = cur -> [heap[c] EXCEPT !.prev = node]
              [] c = prev /\ cur # front -> [heap[c] EXCEPT !.next = node]
              [] OTHER -> heap[c]
      /\ call' = Idle /\ back' = back
  <2>1. heap[cur].prev = prev
    BY <1>0, <1>4, <1>7
  <2>2. \A c \in Allocated : heap'[c] =
            CASE c = node -> [heap[c] EXCEPT !.prev = prev, !.next = cur]
              [] c = cur -> [heap[c] EXCEPT !.prev = node]
              [] c = prev /\ cur # front -> [heap[c] EXCEPT !.next = node]
              [] OTHER -> heap[c]
    BY <1>3, <2>1 DEF InsertBefore
  <2> QED
    BY <1>3, <2>2 DEF InsertBefore
<1>9. /\ prev \in Pointer /\ cur \in Pointer /\ node \in Pointer
      /\ prev # node /\ cur # node /\ prev # cur
      /\ \A k \in 1..n : /\ s[k] = cur <=> k = j
                         /\ s[k] = prev <=> k = j - 1
      /\ cur = front <=> j = 1
  BY <1>0, <1>1, <1>4, <1>5, <1>7, Basics DEF At, Pointer
<1>10. \A c \in Allocated :
          /\ heap'[c] \in NodeFields
          /\ heap'[c].size = heap[c].size /\ heap'[c].index = heap[c].index
          /\ heap'[c].prev = IF c = node THEN prev ELSE IF c = cur THEN node ELSE heap[c].prev
          /\ heap'[c].next = IF c = node THEN cur
                             ELSE IF c = prev /\ cur # front THEN node ELSE heap[c].next
  <2> SUFFICES ASSUME NEW c \in Allocated
               PROVE  /\ heap'[c] \in NodeFields
                      /\ heap'[c].size = heap[c].size /\ heap'[c].index = heap[c].index
                      /\ heap'[c].prev = IF c = node THEN prev
                                         ELSE IF c = cur THEN node ELSE heap[c].prev
                      /\ heap'[c].next = IF c = node THEN cur
                                         ELSE IF c = prev /\ cur # front THEN node
                                         ELSE heap[c].next
    OBVIOUS
  <2>1. heap[c] \in NodeFields
    BY <1>1, Basics
  <2>2. CASE c = node
    BY <1>8, <1>9, <2>1, <2>2 DEF NodeFields
  <2>3. CASE c = cur
    BY <1>8, <1>9, <2>1, <2>3 DEF NodeFields
  <2>4. CASE c = prev /\ cur # front
    BY <1>8, <1>9, <2>1, <2>4 DEF NodeFields
  <2>5. CASE c # node /\ c # cur /\ ~(c = prev /\ cur # front)
    BY <1>8, <2>1, <2>5
  <2> QED
    BY <1>9, <2>2, <2>3, <2>4, <2>5
<1>11. heap' \in [Allocated -> NodeFields]
  BY <1>10 DEF InsertBefore
<1>12. Connects(s, j, node)
  <2>1. \A k \in 1..n :
           /\ heap'[s[k]].next = IF k = j - 1 THEN node ELSE heap[s[k]].next
           /\ heap'[s[k]].prev = IF k = j THEN node ELSE heap[s[k]].prev
    BY <1>4, <1>5, <1>9, <1>10
  <2>2. heap'[node].prev = At(s, j - 1) /\ heap'[node].next = At(s, j)
    BY <1>0, <1>5, <1>6, <1>10
  <2>3. /\ front' = IF j = 1 THEN node ELSE front
        /\ back' = IF j > n THEN node ELSE back
    <3>1. ~(j > n)
      BY <1>4, <1>7
    <3>2. front' = IF cur = front THEN node ELSE front
      BY <1>8
    <3>3. back' = back
      BY <1>8
    <3>4. cur = front <=> j = 1
      BY <1>9
    <3> QED
      BY <3>1, <3>2, <3>3, <3>4
  <2> QED
    BY <1>8, <1>10, <1>11, <2>1, <2>2, <2>3 DEF Connects
<1>13. heap[s[j]].size <= heap[node].size
  BY <1>1, <1>4, <1>5, <1>7, <1>8, Basics
<1>14. j \in 1..(n + 1) /\ ~(j > n)
  BY <1>4, <1>7
<1> QED
  BY <1>1, <1>2, <1>5, <1>6, <1>12, <1>13, <1>14, ConnectsInserts

(* A node smaller than all the others goes behind the back, if it is set.  *)
LEMMA InsertAfterBackStep ==
    ASSUME IInv, InsertAfterBack
    PROVE  IInv' /\ Value!Next
<1>1. TypeOK /\ IndicesDistinct
  BY DEF IInv
<1>2. PICK s \in Seq(Allocated) : Links(s) /\ CallFits(s)
  BY DEF IInv
<1>3. PICK node, cur : node = call.node /\ cur = call.cur
  OBVIOUS
<1> DEFINE n == Len(s)
<1>4. /\ n \in Nat /\ DOMAIN s = 1..n
      /\ \A k \in 1..n : s[k] \in Allocated /\ s[k] # NULL
      /\ front = NULL <=> n = 0
      /\ \A k \in 1..n : heap[s[k]].next = At(s, k + 1) /\ heap[s[k]].prev = At(s, k - 1)
      /\ \A j, k \in 1..n : s[j] = s[k] => j = k
  BY <1>1, <1>2, ChainFacts
<1>5. /\ node \in Allocated
      /\ \A k \in 1..n : s[k] # node
  BY <1>2, <1>3, <1>4 DEF InsertAfterBack, CallFits
<1>6. PICK j \in 1..(n + 1) :
         cur = At(s, j) /\ \A k \in 1..(j - 1) : heap[s[k]].size > heap[node].size
  BY <1>2, <1>3 DEF InsertAfterBack, CallFits, Passed
<1>7. j \in 1..n /\ cur = s[j]
  BY <1>3, <1>4, <1>6 DEF At, InsertAfterBack
<1>8. j = n /\ cur = s[n] /\ n \in 1..n
  <2>1. front # NULL /\ ~NoBack /\ n \in 1..n
    BY <1>3, <1>4, <1>7 DEF InsertAfterBack, NoBack
  <2>2. cur = s[n]
    BY <1>2, <1>3, <2>1 DEF Links, InsertAfterBack
  <2> QED
    BY <1>4, <1>7, <2>1, <2>2
<1>9. cur \in Allocated /\ cur # node /\ heap[cur].next = NULL
  <2>1. At(s, n + 1) = NULL
    BY <1>4 DEF At
  <2> QED
    BY <1>4, <1>5, <1>8, <2>1
<1>10. /\ heap[node].size < heap[cur].size
       /\ front' = front /\ back' = node /\ call' = Idle
       /\ heap' = [heap EXCEPT ![node].next = heap[cur].next,
                               ![node].prev = cur,
                               ![cur].next = node]
  BY <1>3 DEF InsertAfterBack
<1>11. /\ heap' \in [Allocated -> NodeFields]
       /\ \A c \in Allocated :
             /\ heap'[c].size = heap[c].size /\ heap'[c].index = heap[c].index
             /\ heap'[c].prev = IF c = node THEN cur ELSE heap[c].prev
             /\ heap'[c].next = IF c = node THEN NULL
                                ELSE IF c = cur THEN node ELSE heap[c].next
  <2>1. heap \in [Allocated -> NodeFields] /\ node \in Pointer /\ cur \in Pointer /\ NULL \in Pointer
    BY <1>1, <1>5, <1>9 DEF TypeOK, Pointer
  <2> QED
    BY <1>5, <1>9, <1>10, <2>1 DEF NodeFields
<1>12. Connects(s, n + 1, node)
  <2>1. ASSUME NEW k \in 1..n
        PROVE  /\ heap'[s[k]].next = IF k = (n + 1) - 1 THEN node ELSE heap[s[k]].next
               /\ heap'[s[k]].prev = IF k = n + 1 THEN node ELSE heap[s[k]].prev
    <3>1. s[k] = cur <=> k = n
      BY <1>4, <1>8
    <3>2. s[k] \in Allocated /\ s[k] # node
      BY <1>4, <1>5
    <3>3. (n + 1) - 1 = n /\ k # n + 1
      BY <1>4
    <3> QED
      BY <1>11, <3>1, <3>2, <3>3
  <2>2. /\ At(s, n + 1) = NULL /\ (n + 1) - 1 = n /\ At(s, n) = cur
        /\ n + 1 # 1 /\ n + 1 > n
    BY <1>4, <1>8 DEF At
  <2>3. heap'[node].prev = At(s, (n + 1) - 1) /\ heap'[node].next = At(s, n + 1)
    BY <1>5, <1>11, <2>2
  <2> QED
    BY <1>10, <1>11, <2>1, <2>2, <2>3 DEF Connects
<1>13. \A k \in 1..((n + 1) - 1) : heap[s[k]].size > heap[node].size
  <2>1. \A k \in 1..n : k \in 1..(j - 1) \/ k = n
    <3>1. n \in Nat /\ j = n
      BY <1>4, <1>8
    <3> QED
      BY <3>1
  <2>2. heap[s[n]].size \in Nat /\ heap[node].size \in Nat
    BY <1>1, <1>5, <1>8, <1>9, Basics
  <2>3. heap[s[n]].size > heap[node].size
    BY <1>8, <1>10, <2>2
  <2> QED
    BY <1>4, <1>6, <2>1, <2>3
<1>14. n + 1 \in 1..(n + 1) /\ ~(n + 1 <= n)
  BY <1>4
<1>15. ~NoBack
  BY <1>1, <1>3, <1>9, Basics DEF NoBack, InsertAfterBack
<1> QED
  BY <1>1, <1>2, <1>5, <1>12, <1>13, <1>14, <1>15, ConnectsInserts

-----------------------------------------------------------------------------
(* A step that leaves the ends and the cells of the list alone, whatever   *)
(* it allocates, leaves the list and the clients' view of it alone.        *)
LEMMA ListUntouched ==
    ASSUME TypeOK, TypeOK', NEW s \in Seq(Allocated), Links(s),
           UNCHANGED <<front, back>>,
           Allocated \subseteq Allocated',
           \A c \in Allocated : heap'[c] = heap[c]
    PROVE  /\ s \in Seq(Allocated') /\ Links(s)'
           /\ UNCHANGED <<AsSequence, NoBack>>
<1>1. s \in Seq(Allocated')
  BY SeqMonotonic
<1>2. DOMAIN s = 1..Len(s) /\ \A k \in 1..Len(s) : heap'[s[k]] = heap[s[k]]
  BY ChainFacts
<1>3. Links(s)'
  BY <1>2 DEF Links, IsChain, NoBack
<1>4. View(s)' = View(s)
  BY <1>2 DEF View
<1> QED
  BY <1>1, <1>3, <1>4, TheChain, TheNextChain DEF NoBack

(* The scan goes on behind a node that is larger and not the back.         *)
LEMMA InsertAdvanceStep ==
    ASSUME IInv, InsertAdvance
    PROVE  IInv' /\ UNCHANGED <<AsSequence, NoBack>>
<1>1. TypeOK /\ IndicesDistinct
  BY DEF IInv
<1>2. PICK s \in Seq(Allocated) : Links(s) /\ CallFits(s)
  BY DEF IInv
<1>3. PICK node, cur : node = call.node /\ cur = call.cur
  OBVIOUS
<1> DEFINE n == Len(s)
<1>4. /\ n \in Nat /\ DOMAIN s = 1..n
      /\ \A k \in 1..n : s[k] \in Allocated /\ s[k] # NULL
      /\ front = NULL <=> n = 0
      /\ \A k \in 1..n : heap[s[k]].next = At(s, k + 1)
  BY <1>1, <1>2, ChainFacts
<1>5. /\ call.op = "insert" /\ cur # NULL /\ cur # back
      /\ heap[node].size < heap[cur].size
      /\ call' = [call EXCEPT !.cur = heap[cur].next]
      /\ UNCHANGED <<heap, front, back>>
  BY <1>3 DEF InsertAdvance
<1>6. PICK j \in 1..(n + 1) :
         cur = At(s, j) /\ \A k \in 1..(j - 1) : heap[s[k]].size > heap[node].size
  BY <1>2, <1>3, <1>5 DEF CallFits, Passed
<1>7. j \in 1..n /\ cur = s[j] /\ heap[cur].next = At(s, j + 1)
  BY <1>4, <1>5, <1>6 DEF At
<1>8. call = Inserting(node, cur) /\ node \in Cells
  BY <1>1, <1>3, <1>5, Basics
<1>9. At(s, j + 1) \in Pointer
  BY <1>1, <1>4, Basics DEF At, Pointer
<1>10. call' = Inserting(node, At(s, j + 1))
  BY <1>5, <1>7, <1>8 DEF Inserting
<1>11. TypeOK'
  BY <1>1, <1>5, <1>8, <1>9, <1>10 DEF TypeOK, Calls, Allocated
<1>12. Allocated' = Allocated
  BY <1>5 DEF Allocated
<1>13. Links(s)' /\ UNCHANGED <<AsSequence, NoBack>>
  BY <1>1, <1>2, <1>5, <1>11, <1>12, ListUntouched
<1>14. CallFits(s)'
  <2>1. call'.op = "insert" /\ call'.node = node /\ call'.cur = At(s, j + 1)
    BY <1>10 DEF Inserting
  <2>2. j + 1 \in 1..(n + 1)
    BY <1>4, <1>7
  <2>3. \A k \in 1..((j + 1) - 1) : heap[s[k]].size > heap[node].size
    <3>1. node \in Allocated
      BY <1>2, <1>3, <1>5 DEF CallFits
    <3>2. heap[s[j]].size > heap[node].size
      BY <1>1, <1>4, <1>5, <1>7, <3>1, Basics
    <3>3. \A k \in 1..((j + 1) - 1) : k \in 1..(j - 1) \/ k = j
      BY <1>4, <1>7
    <3> QED
      BY <1>6, <3>2, <3>3
  <2>4. front # NULL /\ j + 1 > n => back = NULL
    <3>0. n \in Nat /\ j \in 1..n
      BY <1>4, <1>7
    <3>1. j + 1 > n => j = n
      BY <3>0
    <3>2. front # NULL /\ back # NULL => back = s[n]
      BY <1>2 DEF Links, NoBack
    <3> QED
      BY <1>5, <1>7, <3>1, <3>2
  <2>5. Passed(s, j + 1)'
    BY <1>5, <2>1, <2>3, <2>4 DEF Passed
  <2>6. /\ node \in Allocated' /\ \A k \in DOMAIN s : s[k] # node
        /\ front = NULL => heap[node].prev = NULL /\ heap[node].next = NULL
    BY <1>2, <1>3, <1>5, <1>12 DEF CallFits
  <2> QED
    BY <1>5, <2>1, <2>2, <2>5, <2>6 DEF CallFits, Idle
<1>15. IndicesDistinct'
  BY <1>1, <1>5 DEF IndicesDistinct, Allocated
<1> QED
  BY <1>2, <1>11, <1>12, <1>13, <1>14, <1>15 DEF IInv

(* On a list without a back the scan can run off the end: the node, which  *)
(* belongs behind all the others, is linked nowhere.                       *)
LEMMA InsertOffTheEndStep ==
    ASSUME IInv, InsertOffTheEnd
    PROVE  IInv' /\ Value!Next
<1>1. TypeOK /\ IndicesDistinct
  BY DEF IInv
<1>2. PICK s \in Seq(Allocated) : Links(s) /\ CallFits(s)
  BY DEF IInv
<1> DEFINE n == Len(s)
<1>4. /\ n \in Nat /\ DOMAIN s = 1..n
      /\ \A k \in 1..n : s[k] \in Allocated /\ s[k] # NULL
      /\ View(s) \in Seq(Lists!Nodes(Indices)) /\ Len(View(s)) = n
      /\ \A k \in 1..n : View(s)[k].index = heap[s[k]].index /\ View(s)[k].size = heap[s[k]].size
  BY <1>1, <1>2, ChainFacts
<1>5. /\ call.op = "insert" /\ call.cur = NULL /\ front # NULL
      /\ call' = Idle /\ UNCHANGED <<heap, front, back>>
  BY DEF InsertOffTheEnd
<1>6. PICK j \in 1..(n + 1) : Passed(s, j)
  BY <1>2, <1>5 DEF CallFits
<1>7. j = n + 1
  <2>1. j \notin 1..n
    BY <1>4, <1>5, <1>6 DEF Passed, At
  <2>2. n \in Nat
    BY <1>4
  <2> QED
    BY <2>1, <2>2
<1>8. /\ NoBack
      /\ \A k \in 1..n : heap[s[k]].size > heap[call.node].size
  <2>1. n \in Nat /\ (n + 1) - 1 = n /\ n + 1 > n
    BY <1>4
  <2> QED
    BY <1>5, <1>6, <1>7, <2>1 DEF Passed, NoBack
<1>9. TypeOK'
  BY <1>1, <1>5 DEF TypeOK, Calls, Allocated
<1>10. Allocated' = Allocated
  BY <1>5 DEF Allocated
<1>11. Links(s)' /\ UNCHANGED <<AsSequence, NoBack>>
  BY <1>1, <1>2, <1>5, <1>9, <1>10, ListUntouched
<1>12. CallFits(s)'
  BY <1>5 DEF CallFits, Idle
<1>13. IInv'
  BY <1>1, <1>2, <1>5, <1>9, <1>10, <1>11, <1>12 DEF IInv, IndicesDistinct, Allocated
<1>14. PICK i, z, l : i = heap[call.node].index /\ z = heap[call.node].size /\ l = View(s)
  OBVIOUS
<1>15. /\ call.node \in Allocated /\ i \in Indices /\ z \in Sizes /\ z \in Nat
       /\ \A k \in 1..n : s[k] # call.node
  BY <1>1, <1>2, <1>4, <1>5, <1>14, Basics DEF CallFits
<1>16. \A k \in DOMAIN l : l[k].index # i
  <2>1. DOMAIN l = 1..n
    BY <1>4, <1>14, LenProperties
  <2> QED
    BY <1>1, <1>4, <1>14, <1>15, <2>1 DEF IndicesDistinct
<1>17. Value!InsertPos(l, z) = n + 1
  <2>1. l \in Seq(Lists!Nodes(Indices)) /\ Len(l) = n
    BY <1>4, <1>14
  <2>2. /\ n + 1 \in 1..(Len(l) + 1) /\ ~(n + 1 <= Len(l))
        /\ \A k \in 1..((n + 1) - 1) : l[k].size > z
    <3>1. n \in Nat /\ (n + 1) - 1 = n
      BY <1>4
    <3>2. \A k \in 1..n : l[k].size > z
      BY <1>4, <1>8, <1>14
    <3> QED
      BY <2>1, <3>1, <3>2
  <2> QED
    BY <1>15, <2>1, <2>2, StopsThere
<1>18. Value!InsertPos(l, z) > Len(l)
  <2>1. n \in Nat /\ Len(l) = n
    BY <1>4, <1>14
  <2> QED
    BY <1>17, <2>1
<1>19. AsSequence = l
  BY <1>1, <1>2, <1>14, TheChain
<1>20. Value!CreateNode(i, z).size = z
  BY DEF Value!CreateNode
<1>21. Value!Linked(l, Value!CreateNode(i, z), NoBack) = l
  BY <1>8, <1>18, <1>20 DEF Value!Linked
<1>22. Value!Insert(i, z)
  BY <1>11, <1>16, <1>19, <1>21 DEF Value!Insert
<1> QED
  BY <1>13, <1>15, <1>22 DEF Value!Next

(* createNode takes a cell the list does not use, for an inode it does not *)
(* hold.                                                                   *)
LEMMA CreateNodeStep ==
    ASSUME TypeOK, IndicesDistinct, NEW s \in Seq(Allocated), Links(s),
           NEW c \in Cells, NEW i \in Indices, i \notin Owned, NEW z \in Sizes,
           CreateNode(c, i, z)
    PROVE  IInv' /\ UNCHANGED <<AsSequence, NoBack>>
<1> DEFINE new == [size |-> z, index |-> i, prev |-> NULL, next |-> NULL]
<1>1. /\ c \notin Allocated
      /\ heap' = [a \in Allocated \cup {c} |-> IF a = c THEN new ELSE heap[a]]
      /\ call' = Inserting(c, front)
      /\ UNCHANGED <<front, back>>
  BY DEF CreateNode
<1>2. /\ DOMAIN s = 1..Len(s) /\ Len(s) \in Nat
      /\ \A k \in 1..Len(s) : s[k] \in Allocated
      /\ front = At(s, 1) /\ (front = NULL <=> Len(s) = 0)
  BY ChainFacts
<1>3. Allocated' = Allocated \cup {c} /\ heap'[c] = new /\ \A a \in Allocated : heap'[a] = heap[a]
  BY <1>1 DEF Allocated
<1>4. TypeOK'
  <2>1. new \in NodeFields
    BY DEF NodeFields, Pointer
  <2>2. heap' \in [Allocated' -> NodeFields]
    BY <1>1, <1>3, <2>1, Basics
  <2>3. call' \in Calls
    BY <1>1 DEF Calls, TypeOK
  <2> QED
    BY <1>1, <1>3, <2>2, <2>3 DEF TypeOK
<1>5. s \in Seq(Allocated') /\ Links(s)' /\ UNCHANGED <<AsSequence, NoBack>>
  BY <1>1, <1>3, <1>4, ListUntouched
<1>6. IndicesDistinct'
  <2>1. \A a \in Allocated : heap[a].index # i
    BY DEF Owned
  <2> QED
    BY <1>3, <2>1 DEF IndicesDistinct
<1>7. CallFits(s)'
  <2>1. call'.op = "insert" /\ call'.node = c /\ call'.cur = front
    BY <1>1 DEF Inserting
  <2>2. /\ c \in Allocated' /\ \A k \in DOMAIN s : s[k] # c
        /\ heap'[c].prev = NULL /\ heap'[c].next = NULL
    BY <1>1, <1>2, <1>3
  <2>3. 1 \in 1..(Len(s) + 1) /\ (\A k \in 1..(1 - 1) : FALSE) /\ ~(front # NULL /\ 1 > Len(s))
    BY <1>2
  <2>4. Passed(s, 1)'
    BY <1>1, <1>2, <2>1, <2>3 DEF Passed
  <2> QED
    BY <2>1, <2>2, <2>3, <2>4 DEF CallFits, Idle
<1> QED
  BY <1>4, <1>5, <1>6, <1>7 DEF IInv

(* insertNode is called by a client that does not list the inode.          *)
LEMMA CallInsertStep ==
    ASSUME IInv, NEW c \in Cells, NEW i \in Indices, NEW z \in Sizes, CallInsert(c, i, z)
    PROVE  IInv' /\ UNCHANGED <<AsSequence, NoBack>>
  BY CreateNodeStep DEF IInv, CallInsert

(* The node created after a removal carries the number that was removed.   *)
LEMMA RelistStep ==
    ASSUME IInv, NEW c \in Cells, Relist(c)
    PROVE  IInv' /\ UNCHANGED <<AsSequence, NoBack>>
<1>1. call.op = "relist" /\ CreateNode(c, call.index, 0)
  BY DEF Relist
<1>2. PICK s \in Seq(Allocated) : Links(s) /\ CallFits(s)
  BY DEF IInv
<1>3. PICK i : i = call.index
  OBVIOUS
<1>4. CreateNode(c, i, 0)
  BY <1>1, <1>3 DEF CreateNode
<1>5. i \in Indices /\ i \notin Owned /\ 0 \in Sizes
  BY <1>1, <1>2, <1>3, Basics, SortedListAssumption DEF IInv, CallFits
<1> QED
  BY <1>2, <1>4, <1>5, CreateNodeStep DEF IInv

(* removeNodeByIndex starts at the front ...                               *)
LEMMA CallRemoveStep ==
    ASSUME IInv, NEW i \in Indices, CallRemove(i)
    PROVE  IInv' /\ UNCHANGED <<AsSequence, NoBack>>
<1>1. TypeOK /\ IndicesDistinct
  BY DEF IInv
<1>2. PICK s \in Seq(Allocated) : Links(s) /\ CallFits(s)
  BY DEF IInv
<1>3. front # NULL /\ call' = Removing(i, front) /\ UNCHANGED <<heap, front, back>>
  BY DEF CallRemove
<1>4. TypeOK'
  BY <1>1, <1>3 DEF TypeOK, Calls, Allocated
<1>5. Allocated' = Allocated
  BY <1>3 DEF Allocated
<1>6. Links(s)' /\ UNCHANGED <<AsSequence, NoBack>>
  BY <1>1, <1>2, <1>3, <1>4, <1>5, ListUntouched
<1>7. CallFits(s)'
  BY <1>3 DEF CallFits, Removing, Idle
<1> QED
  BY <1>1, <1>2, <1>3, <1>4, <1>5, <1>6, <1>7 DEF IInv, IndicesDistinct, Allocated

-----------------------------------------------------------------------------
(* What the pops and removals of the front node have in common: the list   *)
(* starts with the second node, which forgets the first.                   *)
Unlinks ==
    /\ front # NULL
    /\ Allocated \ {front} \subseteq Allocated' /\ Allocated' \subseteq Allocated
    /\ front' = heap[front].next
    /\ front' # NULL /\ back' # NULL => back' = back
    /\ \A c \in Allocated \ {front} :
          /\ heap'[c].size = heap[c].size /\ heap'[c].index = heap[c].index
          /\ heap'[c].next = heap[c].next
          /\ heap'[c].prev = IF c = front' THEN NULL ELSE heap[c].prev

(* The rest of the list is a list, and what the clients see of it.         *)
LEMMA UnlinksFront ==
    ASSUME TypeOK, TypeOK', NEW s \in Seq(Allocated), Links(s), Unlinks
    PROVE  \E t \in Seq(Allocated') :
              /\ Links(t)'
              /\ Len(t) = Len(s) - 1 /\ \A k \in 1..Len(t) : t[k] = s[k + 1]
              /\ AsSequence # << >> /\ Len(AsSequence) = Len(s)
              /\ AsSequence' = Tail(AsSequence)
              /\ AsSequence' # << >> <=> front' # NULL
<1> DEFINE n == Len(s)
           t == [k \in 1..(n - 1) |-> s[k + 1]]
<1>1. /\ n \in Nat /\ DOMAIN s = 1..n
      /\ \A k \in 1..n : s[k] \in Allocated /\ s[k] # NULL
      /\ front = NULL <=> n = 0
      /\ n > 0 => front = s[1]
      /\ \A k \in 1..n : heap[s[k]].next = At(s, k + 1) /\ heap[s[k]].prev = At(s, k - 1)
      /\ \A j, k \in 1..n : s[j] = s[k] => j = k
      /\ View(s) \in Seq(Lists!Nodes(Indices)) /\ Len(View(s)) = n
  BY ChainFacts
<1>2. n \in Nat \ {0} /\ n - 1 \in Nat
  BY <1>1 DEF Unlinks
<1>3. front = s[1]
  BY <1>1, <1>2
<1>4. \A k \in 1..(n - 1) : k + 1 \in 1..n /\ k + 1 # 1
  BY <1>2
<1>5. \A k \in 1..(n - 1) : s[k + 1] \in Allocated \ {front} /\ s[k + 1] \in Allocated'
  <2> SUFFICES ASSUME NEW k \in 1..(n - 1)
               PROVE  s[k + 1] \in Allocated \ {front} /\ s[k + 1] \in Allocated'
    OBVIOUS
  <2>1. k + 1 \in 1..n /\ k + 1 # 1 /\ 1 \in 1..n
    BY <1>2, <1>4
  <2>2. s[k + 1] \in Allocated /\ s[k + 1] # s[1]
    BY <1>1, <2>1
  <2> QED
    BY <1>3, <2>2 DEF Unlinks
<1>6. /\ t \in Seq(Allocated') /\ Len(t) = n - 1 /\ DOMAIN t = 1..(n - 1)
      /\ \A k \in 1..(n - 1) : t[k] = s[k + 1]
  <2>1. t \in [1..(n - 1) -> Allocated'] /\ \A k \in 1..(n - 1) : t[k] = s[k + 1]
    BY <1>5
  <2> HIDE DEF t
  <2> QED
    BY <1>2, <2>1, SequenceOf
<1> HIDE DEF t
<1>7. \A k \in Int : k >= 1 => At(t, k) = At(s, k + 1)
  <2> SUFFICES ASSUME NEW k \in Int, k >= 1 PROVE At(t, k) = At(s, k + 1)
    OBVIOUS
  <2>1. k \in 1..(n - 1) <=> k + 1 \in 1..n
    BY <1>2
  <2> QED
    BY <1>1, <1>6, <2>1 DEF At
<1>8. front' = At(s, 2)
  <2>1. 1 \in 1..n /\ 1 + 1 = 2
    BY <1>2
  <2> QED
    BY <1>1, <1>3, <2>1 DEF Unlinks
<1>9. front' = At(t, 1)
  <2>1. 1 + 1 = 2
    OBVIOUS
  <2> QED
    BY <1>7, <1>8, <2>1
<1>10. \A k \in 1..(n - 1) : heap'[t[k]].next = At(t, k + 1)
  <2> SUFFICES ASSUME NEW k \in 1..(n - 1) PROVE heap'[t[k]].next = At(t, k + 1)
    OBVIOUS
  <2>1. heap'[s[k + 1]].next = heap[s[k + 1]].next
    BY <1>5 DEF Unlinks
  <2>2. heap[s[k + 1]].next = At(s, (k + 1) + 1)
    BY <1>1, <1>4
  <2>3. k + 1 \in Int /\ k + 1 >= 1
    BY <1>2
  <2> QED
    BY <1>6, <1>7, <2>1, <2>2, <2>3
<1>11. \A k \in 1..(n - 1) : heap'[t[k]].prev = At(t, k - 1)
  <2> SUFFICES ASSUME NEW k \in 1..(n - 1) PROVE heap'[t[k]].prev = At(t, k - 1)
    OBVIOUS
  <2>1. t[k] = s[k + 1] /\ s[k + 1] \in Allocated \ {front}
    BY <1>5, <1>6
  <2>2. CASE k = 1
    <3>1. s[k + 1] = front'
      <4>1. k + 1 = 2 /\ 2 \in 1..n
        BY <1>4, <2>2
      <4> QED
        BY <1>1, <1>8, <4>1 DEF At
    <3>2. At(t, k - 1) = NULL
      <4>1. k - 1 \notin 1..(n - 1)
        BY <1>2, <2>2
      <4> QED
        BY <1>6, <4>1 DEF At
    <3> QED
      BY <2>1, <3>1, <3>2 DEF Unlinks
  <2>3. CASE k # 1
    <3>1. k - 1 \in Int /\ k - 1 >= 1 /\ (k - 1) + 1 = (k + 1) - 1 /\ k + 1 # 2 /\ 2 \in 1..n
      BY <1>2, <2>3
    <3>2. s[k + 1] # front'
      <4>1. front' = s[2]
        BY <1>1, <1>8, <3>1 DEF At
      <4> QED
        BY <1>1, <1>4, <3>1, <4>1
    <3>3. heap[s[k + 1]].prev = At(s, (k + 1) - 1)
      BY <1>1, <1>4
    <3>4. At(t, k - 1) = At(s, (k - 1) + 1)
      BY <1>7, <3>1
    <3> QED
      BY <2>1, <3>1, <3>2, <3>3, <3>4 DEF Unlinks
  <2> QED
    BY <2>2, <2>3
<1>12. \A j, k \in 1..(n - 1) : t[j] = t[k] => j = k
  <2> SUFFICES ASSUME NEW j \in 1..(n - 1), NEW k \in 1..(n - 1), t[j] = t[k]
               PROVE  j = k
    OBVIOUS
  <2>1. j + 1 = k + 1
    BY <1>1, <1>4, <1>6
  <2> QED
    BY <2>1
<1>13. front' # NULL /\ back' # NULL => back' = t[n - 1]
  <2> SUFFICES ASSUME front' # NULL, back' # NULL PROVE back' = t[n - 1]
    OBVIOUS
  <2>1. 2 \in 1..n
    BY <1>1, <1>8 DEF At
  <2>2. n - 1 \in 1..(n - 1) /\ (n - 1) + 1 = n
    BY <1>2, <2>1
  <2>3. t[n - 1] = s[n]
    BY <1>6, <2>2
  <2> QED
    BY <2>3 DEF Links, Unlinks, NoBack
<1>14. Links(t)'
  BY <1>6, <1>9, <1>10, <1>11, <1>12, <1>13 DEF Links, IsChain, NoBack
<1>15. AsSequence = View(s) /\ AsSequence' = View(t)'
  BY <1>6, <1>14, TheChain, TheNextChain
<1>16. PICK l : l = View(s)
  OBVIOUS
<1>17. /\ l \in Seq(Lists!Nodes(Indices)) /\ Len(l) = n /\ l # << >>
       /\ l = [k \in 1..n |-> [index |-> heap[s[k]].index, size |-> heap[s[k]].size]]
  <2>1. l \in Seq(Lists!Nodes(Indices)) /\ Len(l) = n
    BY <1>1, <1>16
  <2>2. l # << >>
    BY <1>2, <2>1, EmptySeq
  <2> QED
    BY <1>1, <1>16, <2>1, <2>2 DEF View
<1>18. View(t)' = Tail(l)
  <2>1. View(t)' = [k \in 1..(n - 1) |-> [index |-> heap'[t[k]].index, size |-> heap'[t[k]].size]]
    BY <1>6 DEF View
  <2>2. \A k \in 1..(n - 1) :
           [index |-> heap'[t[k]].index, size |-> heap'[t[k]].size] = l[k + 1]
    <3> SUFFICES ASSUME NEW k \in 1..(n - 1)
                 PROVE  [index |-> heap'[t[k]].index, size |-> heap'[t[k]].size] = l[k + 1]
      OBVIOUS
    <3>1. l[k + 1] = [index |-> heap[s[k + 1]].index, size |-> heap[s[k + 1]].size]
      BY <1>4, <1>17
    <3>2. /\ heap'[s[k + 1]].size = heap[s[k + 1]].size
          /\ heap'[s[k + 1]].index = heap[s[k + 1]].index
      BY <1>5 DEF Unlinks
    <3> QED
      BY <1>6, <3>1, <3>2
  <2>3. Tail(l) = [k \in 1..(n - 1) |-> l[k + 1]]
    <3>1. Tail(l) \in Seq(Lists!Nodes(Indices)) /\ Len(Tail(l)) = n - 1
          /\ \A k \in 1..(n - 1) : Tail(l)[k] = l[k + 1]
      BY <1>17, HeadTailProperties
    <3>2. Tail(l) = [k \in 1..(n - 1) |-> Tail(l)[k]]
      BY <3>1, LenProperties
    <3> QED
      BY <3>1, <3>2
  <2> QED
    BY <2>1, <2>2, <2>3
<1>19. AsSequence' # << >> <=> front' # NULL
  <2>1. Len(Tail(l)) = n - 1 /\ Tail(l) \in Seq(Lists!Nodes(Indices))
    BY <1>17, HeadTailProperties
  <2>2. Tail(l) # << >> <=> n - 1 # 0
    BY <2>1, EmptySeq
  <2>3. front' # NULL <=> 2 \in 1..n
    BY <1>1, <1>8 DEF At
  <2>4. n - 1 # 0 <=> 2 \in 1..n
    <3>1. PICK m \in Nat \ {0} : m = n
      BY <1>2
    <3>2. m - 1 # 0 <=> 2 \in 1..m
      OBVIOUS
    <3> QED
      BY <3>1, <3>2
  <2> QED
    BY <1>15, <1>18, <2>2, <2>3, <2>4
<1> QED
  BY <1>6, <1>14, <1>15, <1>16, <1>17, <1>18, <1>19

(* popMaxSizeNode takes the first node ...                                 *)
LEMMA PopMaxStep ==
    ASSUME IInv, PopMaxSizeNode
    PROVE  IInv' /\ Value!Next
<1>1. TypeOK /\ IndicesDistinct
  BY DEF IInv
<1>2. PICK s \in Seq(Allocated) : Links(s) /\ CallFits(s)
  BY DEF IInv
<1>3. /\ call = Idle /\ call' = Idle /\ front # NULL
      /\ front' = heap[front].next
      /\ back' = IF front' = NULL THEN NULL ELSE back
      /\ heap' = [c \in Allocated \ {front} |->
                     IF c = front' THEN [heap[c] EXCEPT !.prev = NULL] ELSE heap[c]]
  BY DEF PopMaxSizeNode, UnlinkFront
<1>4. Allocated' = Allocated \ {front}
  BY <1>3 DEF Allocated
<1>5. front \in Allocated
  BY <1>1, <1>2, <1>3, ChainFacts
<1>6. \A c \in Allocated' :
         /\ heap'[c] \in NodeFields
         /\ heap'[c].size = heap[c].size /\ heap'[c].index = heap[c].index
         /\ heap'[c].next = heap[c].next
         /\ heap'[c].prev = IF c = front' THEN NULL ELSE heap[c].prev
  <2> SUFFICES ASSUME NEW c \in Allocated \ {front}
               PROVE  /\ heap'[c] \in NodeFields
                      /\ heap'[c].size = heap[c].size /\ heap'[c].index = heap[c].index
                      /\ heap'[c].next = heap[c].next
                      /\ heap'[c].prev = IF c = front' THEN NULL ELSE heap[c].prev
    BY <1>4
  <2>1. heap[c] \in NodeFields
    BY <1>1, Basics
  <2> QED
    BY <1>3, <2>1 DEF NodeFields, Pointer
<1>7. TypeOK'
  <2>1. front' \in Pointer /\ back' \in Pointer /\ call' \in Calls
    BY <1>1, <1>3, <1>5, Basics DEF TypeOK, Pointer, Calls
  <2>2. heap' \in [Allocated' -> NodeFields]
    BY <1>3, <1>4, <1>6
  <2> QED
    BY <1>1, <1>4, <2>1, <2>2 DEF TypeOK
<1>8. Unlinks
  BY <1>3, <1>4, <1>6 DEF Unlinks
<1>9. PICK t \in Seq(Allocated') :
         /\ Links(t)'
         /\ AsSequence # << >>
         /\ AsSequence' = Tail(AsSequence)
         /\ AsSequence' # << >> <=> front' # NULL
  BY <1>1, <1>2, <1>7, <1>8, UnlinksFront
<1>10. CallFits(t)'
  BY <1>3 DEF CallFits, Idle
<1>11. IndicesDistinct'
  BY <1>1, <1>4, <1>6 DEF IndicesDistinct
<1>12. NoBack' = (NoBack /\ AsSequence' # << >>)
  BY <1>3, <1>9 DEF NoBack
<1>13. Value!PopMax
  BY <1>9, <1>12 DEF Value!PopMax, Value!PopMaxSizeNode
<1> QED
  BY <1>7, <1>9, <1>10, <1>11, <1>13 DEF IInv, Value!Next

(* ... and reallocateNewInode links it again as an unplaced inode.         *)
LEMMA RecycleStep ==
    ASSUME IInv, RecycleMaxSizeNode
    PROVE  IInv' /\ Value!Next
<1>1. TypeOK /\ IndicesDistinct
  BY DEF IInv
<1>2. PICK s \in Seq(Allocated) : Links(s) /\ CallFits(s)
  BY DEF IInv
<1>3. /\ call' = Inserting(front, front') /\ front # NULL
      /\ front' = heap[front].next
      /\ back' = IF front' = NULL THEN NULL ELSE back
      /\ heap' = [c \in Allocated |->
            CASE c = front -> [heap[c] EXCEPT !.size = 0]
              [] c = front' -> [heap[c] EXCEPT !.prev = NULL]
              [] OTHER -> heap[c]]
  BY DEF RecycleMaxSizeNode, UnlinkFront
<1>4. Allocated' = Allocated
  BY <1>3 DEF Allocated
<1> DEFINE n == Len(s)
<1>5. /\ n \in Nat \ {0} /\ front \in Allocated /\ front = s[1]
      /\ heap[front].prev = NULL
      /\ \A j, k \in 1..n : s[j] = s[k] => j = k
      /\ DOMAIN s = 1..n
  <2>1. n \in Nat /\ n # 0 /\ DOMAIN s = 1..n /\ front = s[1]
    BY <1>1, <1>2, <1>3, ChainFacts
  <2>2. 1 \in 1..n /\ 1 - 1 \notin 1..n
    BY <2>1
  <2>3. heap[front].prev = NULL
    BY <1>1, <1>2, <2>1, <2>2, ChainFacts DEF At
  <2> QED
    BY <1>1, <1>2, <2>1, <2>2, <2>3, ChainFacts
<1>6. front' # front
  <2>1. 1 \in 1..n
    BY <1>5
  <2>2. front' = At(s, 1 + 1)
    BY <1>1, <1>2, <1>3, <1>5, <2>1, ChainFacts
  <2> QED
    BY <1>1, <1>3, <1>5, <2>1, <2>2 DEF At
<1>7. /\ \A c \in Allocated : heap'[c] \in NodeFields /\ heap'[c].index = heap[c].index
                              /\ heap'[c].next = heap[c].next
      /\ \A c \in Allocated \ {front} :
            /\ heap'[c].size = heap[c].size
            /\ heap'[c].prev = IF c = front' THEN NULL ELSE heap[c].prev
      /\ heap'[front].prev = NULL
  <2>1. ASSUME NEW c \in Allocated
        PROVE  /\ heap'[c] \in NodeFields /\ heap'[c].index = heap[c].index
               /\ heap'[c].next = heap[c].next
               /\ c # front => /\ heap'[c].size = heap[c].size
                               /\ heap'[c].prev = IF c = front' THEN NULL ELSE heap[c].prev
               /\ c = front => heap'[c].prev = heap[c].prev
    <3>1. heap[c] \in NodeFields
      BY <1>1, Basics
    <3>2. CASE c = front
      <4>1. heap'[c] = [heap[c] EXCEPT !.size = 0]
        BY <1>3, <1>6, <3>2
      <4> QED
        BY <3>1, <3>2, <4>1, SortedListAssumption DEF NodeFields
    <3>3. CASE c # front /\ c = front'
      <4>1. heap'[c] = [heap[c] EXCEPT !.prev = NULL]
        BY <1>3, <3>3
      <4> QED
        BY <3>1, <3>3, <4>1 DEF NodeFields, Pointer
    <3>4. CASE c # front /\ c # front'
      BY <1>3, <3>1, <3>4
    <3> QED
      BY <3>2, <3>3, <3>4
  <2> QED
    BY <1>5, <2>1
<1>8. TypeOK'
  <2>1. front' \in Pointer
    BY <1>1, <1>3, <1>5, Basics
  <2>2. back' \in Pointer
    BY <1>1, <1>3 DEF TypeOK, Pointer
  <2>3. call' \in Calls
    BY <1>1, <1>3, <1>5, <2>1, Basics DEF Calls
  <2>4. heap' \in [Allocated' -> NodeFields]
    BY <1>3, <1>4, <1>7
  <2> QED
    BY <1>1, <1>4, <2>1, <2>2, <2>3, <2>4 DEF TypeOK
<1>9. Unlinks
  BY <1>3, <1>4, <1>7 DEF Unlinks
<1>10. PICK t \in Seq(Allocated') :
         /\ Links(t)'
         /\ Len(t) = n - 1 /\ \A k \in 1..Len(t) : t[k] = s[k + 1]
         /\ AsSequence # << >>
         /\ AsSequence' = Tail(AsSequence)
         /\ AsSequence' # << >> <=> front' # NULL
  BY <1>1, <1>2, <1>8, <1>9, UnlinksFront
<1>11. CallFits(t)'
  <2>1. call'.op = "insert" /\ call'.node = front /\ call'.cur = front'
    BY <1>3 DEF Inserting
  <2>2. \A k \in DOMAIN t : t[k] # front
    <3>1. DOMAIN t = 1..(n - 1)
      BY <1>10, LenProperties
    <3>2. ASSUME NEW k \in 1..(n - 1) PROVE t[k] # front
      <4>1. k + 1 \in 1..n /\ k + 1 # 1 /\ 1 \in 1..n
        BY <1>5
      <4> QED
        BY <1>5, <1>10, <4>1
    <3> QED
      BY <3>1, <3>2
  <2>3. front' = NULL => heap'[front].prev = NULL /\ heap'[front].next = NULL
    BY <1>3, <1>5, <1>7
  <2>4. /\ 1 \in 1..(Len(t) + 1) /\ front' = At(t, 1)
        /\ \A k \in 1..(1 - 1) : FALSE
        /\ ~(front' # NULL /\ 1 > Len(t))
    <3>1. front' = At(t, 1)
      BY <1>10 DEF Links, IsChain
    <3>2. Len(t) \in Nat /\ DOMAIN t = 1..Len(t)
      BY <1>10, LenProperties
    <3> QED
      BY <3>1, <3>2 DEF At
  <2>5. Passed(t, 1)'
    BY <2>1, <2>4 DEF Passed
  <2> QED
    BY <1>4, <1>5, <2>1, <2>2, <2>3, <2>4, <2>5 DEF CallFits, Idle
<1>12. IndicesDistinct'
  BY <1>1, <1>4, <1>7 DEF IndicesDistinct
<1>13. NoBack' = (NoBack /\ AsSequence' # << >>)
  BY <1>3, <1>10 DEF NoBack
<1>14. Value!PopMax
  BY <1>10, <1>13 DEF Value!PopMax, Value!PopMaxSizeNode
<1> QED
  BY <1>8, <1>10, <1>11, <1>12, <1>14 DEF IInv, Value!Next

(* A removal comes back when it is the first node that has the index: it   *)
(* loses the back of a list of two, and the caller lists the inode anew.   *)
LEMMA RemoveMatchStep ==
    ASSUME IInv, RemoveMatch
    PROVE  IInv' /\ Value!Next
<1>1. TypeOK /\ IndicesDistinct
  BY DEF IInv
<1>2. PICK s \in Seq(Allocated) : Links(s) /\ CallFits(s)
  BY DEF IInv
<1>3. call.op = "remove" /\ front # NULL /\ call.cur = front
  BY <1>2 DEF RemoveMatch, CallFits
<1> DEFINE n == Len(s)
<1>4. /\ n \in Nat \ {0} /\ front \in Allocated /\ front = s[1]
      /\ heap[front].prev = NULL /\ front' = At(s, 2)
      /\ heap[front].next = At(s, 2)
      /\ \A k \in 1..n : s[k] \in Allocated /\ s[k] # NULL
      /\ \A j, k \in 1..n : s[j] = s[k] => j = k
      /\ DOMAIN s = 1..n
  <2>1. /\ n \in Nat /\ n # 0 /\ DOMAIN s = 1..n /\ front = s[1]
        /\ \A k \in 1..n : s[k] \in Allocated /\ s[k] # NULL
    BY <1>1, <1>2, <1>3, ChainFacts
  <2>2. 1 \in 1..n /\ 1 - 1 \notin 1..n /\ 1 + 1 = 2
    BY <2>1
  <2>3. heap[front].prev = At(s, 1 - 1) /\ heap[front].next = At(s, 1 + 1)
    BY <1>1, <1>2, <2>1, <2>2, ChainFacts
  <2>4. heap[front].prev = NULL /\ heap[front].next = At(s, 2)
    BY <2>1, <2>2, <2>3 DEF At
  <2>5. front' = heap[front].next
    BY <1>3 DEF RemoveMatch
  <2> QED
    BY <1>1, <1>2, <2>1, <2>2, <2>4, <2>5, ChainFacts
<1>5. /\ heap' = [c \in Allocated \ {front} |->
             CASE c = NULL -> [heap[c] EXCEPT !.next = front']
               [] c = front' -> [heap[c] EXCEPT !.prev = NULL]
               [] OTHER -> heap[c]]
      /\ back' = IF front' = back THEN NULL ELSE back
      /\ call' = Relisting(call.index)
      /\ heap[front].index = call.index
  BY <1>3, <1>4 DEF RemoveMatch
<1>6. Allocated' = Allocated \ {front}
  BY <1>5 DEF Allocated
<1>7. \A c \in Allocated' :
         /\ heap'[c] \in NodeFields
         /\ heap'[c].size = heap[c].size /\ heap'[c].index = heap[c].index
         /\ heap'[c].next = heap[c].next
         /\ heap'[c].prev = IF c = front' THEN NULL ELSE heap[c].prev
  <2> SUFFICES ASSUME NEW c \in Allocated \ {front}
               PROVE  /\ heap'[c] \in NodeFields
                      /\ heap'[c].size = heap[c].size /\ heap'[c].index = heap[c].index
                      /\ heap'[c].next = heap[c].next
                      /\ heap'[c].prev = IF c = front' THEN NULL ELSE heap[c].prev
    BY <1>6
  <2>1. heap[c] \in NodeFields /\ c # NULL
    BY <1>1, Basics
  <2>2. heap'[c] = IF c = front' THEN [heap[c] EXCEPT !.prev = NULL] ELSE heap[c]
    BY <1>5, <2>1
  <2> QED
    BY <2>1, <2>2 DEF NodeFields, Pointer
<1>8. TypeOK'
  <2>1. front' \in Pointer /\ back' \in Pointer
    BY <1>1, <1>4, <1>5, Basics DEF TypeOK, Pointer
  <2>2. call' \in Calls
    BY <1>1, <1>3, <1>5, Basics DEF Calls
  <2>3. heap' \in [Allocated' -> NodeFields]
    BY <1>5, <1>6, <1>7
  <2> QED
    BY <1>1, <1>6, <2>1, <2>2, <2>3 DEF TypeOK
<1>9. Unlinks
  BY <1>3, <1>4, <1>5, <1>6, <1>7 DEF Unlinks
<1>10. PICK t \in Seq(Allocated') :
         /\ Links(t)'
         /\ AsSequence # << >> /\ Len(AsSequence) = n
         /\ AsSequence' = Tail(AsSequence)
  BY <1>1, <1>2, <1>8, <1>9, UnlinksFront
<1>11. CallFits(t)'
  <2>1. call'.op = "relist" /\ call'.index = heap[front].index
    BY <1>5 DEF Relisting
  <2>2. call'.index \notin Owned'
    <3>1. \A c \in Allocated' : heap'[c].index # heap[front].index
      BY <1>1, <1>4, <1>6, <1>7 DEF IndicesDistinct
    <3> QED
      BY <2>1, <3>1 DEF Owned
  <2> QED
    BY <2>1, <2>2 DEF CallFits, Idle
<1>12. IndicesDistinct'
  BY <1>1, <1>6, <1>7 DEF IndicesDistinct
<1>13. NoBack' = Value!NoBackAfterRemoval(AsSequence, NoBack)
  <2>1. front' # NULL <=> 2 \in 1..n
    BY <1>4 DEF At
  <2>2. 2 \in 1..n => front' = s[2]
    BY <1>4 DEF At
  <2>3. ~NoBack => back = s[n]
    BY <1>2, <1>3 DEF Links
  <2>4. PICK m \in Nat \ {0} : m = n
    BY <1>4
  <2>5. 2 \in 1..m <=> m > 1
    OBVIOUS
  <2>6. ASSUME 2 \in 1..m
        PROVE  back' = NULL <=> NoBack \/ m = 2
    <3>1. m \in 1..m
      OBVIOUS
    <3>2. s[2] = s[m] => m = 2
      BY <1>4, <2>4, <2>6, <3>1
    <3>3. back' = NULL <=> back = NULL \/ s[2] = back
      BY <1>5, <2>2, <2>4, <2>6
    <3>4. s[2] # NULL
      BY <1>4, <2>4, <2>6
    <3>5. CASE NoBack
      BY <3>3, <3>5 DEF NoBack
    <3>6. CASE ~NoBack
      <4>1. back # NULL /\ back = s[m]
        BY <1>3, <2>3, <2>4, <3>6 DEF NoBack
      <4> QED
        BY <3>2, <3>3, <3>6, <4>1
    <3> QED
      BY <3>5, <3>6
  <2>7. NoBack' <=> m > 1 /\ (NoBack \/ m = 2)
    <3>1. CASE 2 \in 1..m
      BY <2>1, <2>4, <2>5, <2>6, <3>1 DEF NoBack
    <3>2. CASE 2 \notin 1..m
      BY <2>1, <2>4, <2>5, <3>2 DEF NoBack
    <3> QED
      BY <3>1, <3>2
  <2> QED
    BY <1>10, <2>4, <2>7 DEF Value!NoBackAfterRemoval, NoBack
<1>14. Value!RemoveFront
  BY <1>10, <1>13 DEF Value!RemoveFront
<1> QED
  BY <1>8, <1>10, <1>11, <1>12, <1>14 DEF IInv, Value!Next

(* popMinSizeNode takes the last node, which is where back points.         *)
LEMMA PopMinStep ==
    ASSUME IInv, PopMinSizeNode
    PROVE  IInv' /\ Value!Next
<1>1. TypeOK /\ IndicesDistinct
  BY DEF IInv
<1>2. PICK s \in Seq(Allocated) : Links(s) /\ CallFits(s)
  BY DEF IInv
<1>3. /\ call = Idle /\ call' = Idle /\ back # NULL
      /\ back' = heap[back].prev
      /\ front' = IF back' = NULL THEN NULL ELSE front
      /\ heap' = [c \in Allocated \ {back} |->
                     IF c = back' THEN [heap[c] EXCEPT !.next = NULL] ELSE heap[c]]
  BY DEF PopMinSizeNode
<1>4. front # NULL /\ ~NoBack
  BY <1>2, <1>3 DEF CallFits, NoBack
<1> DEFINE n == Len(s)
           t == [k \in 1..(n - 1) |-> s[k]]
<1>5. /\ n \in Nat \ {0} /\ n - 1 \in Nat /\ n \in 1..n /\ DOMAIN s = 1..n
      /\ front = s[1]
      /\ \A k \in 1..n : s[k] \in Allocated /\ s[k] # NULL
      /\ \A k \in 1..n : heap[s[k]].next = At(s, k + 1) /\ heap[s[k]].prev = At(s, k - 1)
      /\ \A j, k \in 1..n : s[j] = s[k] => j = k
      /\ View(s) \in Seq(Lists!Nodes(Indices)) /\ Len(View(s)) = n
  <2>1. n \in Nat \ {0} /\ front = s[1]
    BY <1>1, <1>2, <1>4, ChainFacts
  <2>2. n - 1 \in Nat /\ n \in 1..n
    BY <2>1
  <2> QED
    BY <1>1, <1>2, <2>1, <2>2, ChainFacts
<1>6. n \in Nat \ {0} /\ n - 1 \in Nat
  BY <1>5
<1>7. back = s[n] /\ back \in Allocated /\ back' = At(s, n - 1)
  <2>1. back = s[n]
    BY <1>2, <1>4 DEF Links
  <2> QED
    BY <1>3, <1>5, <2>1
<1>8. Allocated' = Allocated \ {back}
  BY <1>3 DEF Allocated
<1>9. \A c \in Allocated' :
         /\ heap'[c] \in NodeFields
         /\ heap'[c].size = heap[c].size /\ heap'[c].index = heap[c].index
         /\ heap'[c].prev = heap[c].prev
         /\ heap'[c].next = IF c = back' THEN NULL ELSE heap[c].next
  <2> SUFFICES ASSUME NEW c \in Allocated \ {back}
               PROVE  /\ heap'[c] \in NodeFields
                      /\ heap'[c].size = heap[c].size /\ heap'[c].index = heap[c].index
                      /\ heap'[c].prev = heap[c].prev
                      /\ heap'[c].next = IF c = back' THEN NULL ELSE heap[c].next
    BY <1>8
  <2>1. heap[c] \in NodeFields
    BY <1>1, Basics
  <2> QED
    BY <1>3, <2>1 DEF NodeFields, Pointer
<1>10. TypeOK'
  <2>1. front' \in Pointer /\ back' \in Pointer /\ call' \in Calls
    BY <1>1, <1>3, <1>7, Basics DEF TypeOK, Pointer, Calls
  <2>2. heap' \in [Allocated' -> NodeFields]
    BY <1>3, <1>8, <1>9
  <2> QED
    BY <1>1, <1>8, <2>1, <2>2 DEF TypeOK
<1>11. \A k \in 1..(n - 1) : k \in 1..n /\ s[k] \in Allocated'
  <2> SUFFICES ASSUME NEW k \in 1..(n - 1) PROVE k \in 1..n /\ s[k] \in Allocated'
    OBVIOUS
  <2>1. k \in 1..n /\ k # n
    BY <1>6
  <2> QED
    BY <1>5, <1>7, <1>8, <2>1
<1>12. /\ t \in Seq(Allocated') /\ Len(t) = n - 1 /\ DOMAIN t = 1..(n - 1)
       /\ \A k \in 1..(n - 1) : t[k] = s[k]
  <2>1. t \in [1..(n - 1) -> Allocated'] /\ \A k \in 1..(n - 1) : t[k] = s[k]
    BY <1>11
  <2> HIDE DEF t
  <2> QED
    BY <1>6, <2>1, SequenceOf
<1> HIDE DEF t
<1>13. \A k \in Int : k < n => At(t, k) = At(s, k)
  <2> SUFFICES ASSUME NEW k \in Int, k < n PROVE At(t, k) = At(s, k)
    OBVIOUS
  <2>1. k \in 1..(n - 1) <=> k \in 1..n
    BY <1>5
  <2> QED
    BY <1>5, <1>12, <2>1 DEF At
<1>14. At(t, n) = NULL
  <2>1. n \notin 1..(n - 1)
    BY <1>5
  <2> QED
    BY <1>12, <2>1 DEF At
<1>15. back' = NULL <=> n = 1
  <2>1. n - 1 \in 1..n <=> n # 1
    BY <1>5
  <2> QED
    BY <1>5, <1>7, <2>1 DEF At
<1>16. front' = At(t, 1) /\ (front' # NULL <=> n # 1)
  <2>1. CASE n = 1
    BY <1>3, <1>14, <1>15, <2>1
  <2>2. CASE n # 1
    <3>1. 1 < n /\ 1 \in 1..n
      BY <1>5, <2>2
    <3>2. At(t, 1) = s[1]
      BY <1>5, <1>13, <3>1 DEF At
    <3> QED
      BY <1>3, <1>4, <1>5, <1>15, <2>2, <3>2
  <2> QED
    BY <2>1, <2>2
<1>17. \A k \in 1..(n - 1) : heap'[t[k]].next = At(t, k + 1)
  <2> SUFFICES ASSUME NEW k \in 1..(n - 1) PROVE heap'[t[k]].next = At(t, k + 1)
    OBVIOUS
  <2>1. t[k] = s[k] /\ s[k] \in Allocated' /\ heap[s[k]].next = At(s, k + 1)
    BY <1>5, <1>11, <1>12
  <2>2. n - 1 \in 1..n /\ k \in 1..n
    BY <1>5
  <2>3. back' = s[n - 1]
    BY <1>5, <1>7, <2>2 DEF At
  <2>4. CASE k = n - 1
    <3>1. k + 1 = n
      BY <1>5, <2>4
    <3> QED
      BY <1>9, <1>14, <2>1, <2>3, <2>4, <3>1
  <2>5. CASE k # n - 1
    <3>1. k + 1 \in Int /\ k + 1 < n
      BY <1>5, <2>5
    <3>2. s[k] # back'
      BY <1>5, <2>2, <2>3, <2>5
    <3> QED
      BY <1>9, <1>13, <2>1, <3>1, <3>2
  <2> QED
    BY <2>4, <2>5
<1>18. \A k \in 1..(n - 1) : heap'[t[k]].prev = At(t, k - 1)
  <2> SUFFICES ASSUME NEW k \in 1..(n - 1) PROVE heap'[t[k]].prev = At(t, k - 1)
    OBVIOUS
  <2>1. t[k] = s[k] /\ s[k] \in Allocated' /\ heap[s[k]].prev = At(s, k - 1)
    BY <1>5, <1>11, <1>12
  <2>2. k - 1 \in Int /\ k - 1 < n
    BY <1>5
  <2> QED
    BY <1>9, <1>13, <2>1, <2>2
<1>19. \A j, k \in 1..(n - 1) : t[j] = t[k] => j = k
  BY <1>5, <1>11, <1>12
<1>20. front' # NULL => back' # NULL /\ back' = t[n - 1]
  <2> SUFFICES ASSUME front' # NULL PROVE back' # NULL /\ back' = t[n - 1]
    OBVIOUS
  <2>1. n - 1 \in 1..(n - 1) /\ n - 1 \in 1..n
    BY <1>5, <1>16
  <2> QED
    BY <1>5, <1>7, <1>12, <1>15, <1>16, <2>1 DEF At
<1>21. Links(t)' /\ NoBack' = NoBack
  BY <1>4, <1>12, <1>16, <1>17, <1>18, <1>19, <1>20 DEF Links, IsChain, NoBack
<1>22. CallFits(t)'
  BY <1>3, <1>15, <1>16 DEF CallFits, Idle
<1>23. IndicesDistinct'
  BY <1>1, <1>8, <1>9 DEF IndicesDistinct
<1>24. AsSequence = View(s) /\ AsSequence' = View(t)'
  BY <1>1, <1>2, <1>10, <1>12, <1>21, TheChain, TheNextChain
<1>25. PICK l, m : l = View(s) /\ m = View(t)'
  OBVIOUS
<1>26. /\ l \in Seq(Lists!Nodes(Indices)) /\ Len(l) = n /\ l # << >>
       /\ l = [k \in 1..n |-> [index |-> heap[s[k]].index, size |-> heap[s[k]].size]]
  <2>1. l \in Seq(Lists!Nodes(Indices)) /\ Len(l) = n
    BY <1>5, <1>25
  <2>2. l # << >>
    BY <1>5, <2>1, EmptySeq
  <2> QED
    BY <1>5, <1>25, <2>1, <2>2 DEF View
<1>27. m = Value!PopMinSizeNode(l)
  <2>1. m = [k \in 1..(n - 1) |-> [index |-> heap'[t[k]].index, size |-> heap'[t[k]].size]]
    BY <1>12, <1>25 DEF View
  <2>2. \A k \in 1..(n - 1) :
           [index |-> heap'[t[k]].index, size |-> heap'[t[k]].size] = l[k]
    BY <1>9, <1>11, <1>12, <1>26
  <2>3. Value!PopMinSizeNode(l) = Lists!PopMinSizeNode(l)
    BY DEF Value!PopMinSizeNode, Value!Front, Lists!PopMinSizeNode, Lists!Front
  <2>4. /\ Lists!PopMinSizeNode(l) \in Seq(Lists!Nodes(Indices))
        /\ Len(Lists!PopMinSizeNode(l)) = n - 1
        /\ \A k \in 1..(n - 1) : Lists!PopMinSizeNode(l)[k] = l[k]
    BY <1>26, Lists!PopMinProperties
  <2>5. Lists!PopMinSizeNode(l) = [k \in 1..(n - 1) |-> Lists!PopMinSizeNode(l)[k]]
    BY <2>4, LenProperties
  <2> QED
    BY <2>1, <2>2, <2>3, <2>4, <2>5
<1>28. Value!PopMin
  BY <1>4, <1>21, <1>24, <1>25, <1>26, <1>27 DEF Value!PopMin
<1> QED
  BY <1>10, <1>12, <1>21, <1>22, <1>23, <1>28 DEF IInv, Value!Next

-----------------------------------------------------------------------------
(* Nothing is listed to begin with.                                        *)
LEMMA InitInvariant ==
    ASSUME Init
    PROVE  IInv /\ Value!Init
<1>1. Allocated = {} /\ heap = << >> /\ front = NULL /\ back = NULL /\ call = Idle
  BY DEF Init, Allocated
<1>2. << >> \in Seq(Allocated) /\ Len(<< >>) = 0 /\ DOMAIN << >> = {}
  BY EmptySeq
<1>3. TypeOK
  <2>1. heap \in [Allocated -> NodeFields]
    BY <1>1
  <2> QED
    BY <1>1, <2>1 DEF TypeOK, Pointer, Calls
<1>4. Links(<< >>)
  BY <1>1, <1>2 DEF Links, IsChain, At
<1>5. CallFits(<< >>)
  BY <1>1 DEF CallFits, Idle
<1>6. AsSequence = << >>
  <2>1. AsSequence = View(<< >>)
    BY <1>2, <1>3, <1>4, TheChain
  <2>2. View(<< >>) = << >>
    BY <1>2 DEF View
  <2> QED
    BY <2>1, <2>2
<1>7. NoBack = FALSE
  BY <1>1 DEF NoBack
<1> QED
  BY <1>1, <1>2, <1>3, <1>4, <1>5, <1>6, <1>7 DEF IInv, IndicesDistinct, Value!Init

(* A step of the linked list keeps its invariant, and is a step of the     *)
(* list as a value or none.                                                *)
LEMMA StepInvariant ==
    ASSUME IInv, [Next]_vars
    PROVE  IInv' /\ [Value!Next]_<<AsSequence, NoBack>>
<1>1. ASSUME UNCHANGED vars
      PROVE  IInv' /\ UNCHANGED <<AsSequence, NoBack>>
  <2>1. TypeOK /\ IndicesDistinct /\ UNCHANGED <<heap, front, back, call>>
    BY <1>1 DEF IInv, vars
  <2>2. PICK s \in Seq(Allocated) : Links(s) /\ CallFits(s)
    BY DEF IInv
  <2>3. Allocated' = Allocated
    BY <2>1 DEF Allocated
  <2>4. TypeOK'
    BY <2>1 DEF TypeOK, Allocated
  <2>5. Links(s)' /\ UNCHANGED <<AsSequence, NoBack>>
    BY <2>1, <2>2, <2>3, <2>4, ListUntouched
  <2>6. CallFits(s)'
    BY <2>1, <2>2 DEF CallFits, Passed, Owned, Allocated
  <2> QED
    BY <2>1, <2>2, <2>3, <2>4, <2>5, <2>6 DEF IInv, IndicesDistinct, Allocated
<1>2. CASE \E c \in Cells, i \in Indices, z \in Sizes : CallInsert(c, i, z)
  BY <1>2, CallInsertStep
<1>3. CASE InsertIntoEmpty
  BY <1>3, InsertIntoEmptyStep
<1>4. CASE InsertBefore
  BY <1>4, InsertBeforeStep
<1>5. CASE InsertAfterBack
  BY <1>5, InsertAfterBackStep
<1>6. CASE InsertAdvance
  BY <1>6, InsertAdvanceStep
<1>7. CASE InsertOffTheEnd
  BY <1>7, InsertOffTheEndStep
<1>8. CASE PopMaxSizeNode
  BY <1>8, PopMaxStep
<1>9. CASE RecycleMaxSizeNode
  BY <1>9, RecycleStep
<1>10. CASE PopMinSizeNode
  BY <1>10, PopMinStep
<1>11. CASE \E i \in Indices : CallRemove(i)
  BY <1>11, CallRemoveStep
<1>12. CASE RemoveMatch
  BY <1>12, RemoveMatchStep
<1>13. CASE RemoveNoMatch
  BY <1>1, <1>13 DEF RemoveNoMatch
<1>14. CASE \E c \in Cells : Relist(c)
  BY <1>14, RelistStep
<1> QED
  BY <1>1, <1>2, <1>3, <1>4, <1>5, <1>6, <1>7, <1>8, <1>9, <1>10, <1>11, <1>12, <1>13, <1>14
     DEF Next, InsertStep, RemoveStep

(* The links and the call in progress fit each other in every state.       *)
THEOREM Invariance == Spec => []IInv
<1>1. Init => IInv
  BY InitInvariant
<1>2. IInv /\ [Next]_vars => IInv'
  BY StepInvariant
<1> QED
  BY <1>1, <1>2, PTL DEF Spec

(* A node's links lead to cells or to NULL, never to what malloc found.    *)
THEOREM TypeCorrect == Spec => []TypeOK
<1>1. IInv => TypeOK
  BY DEF IInv
<1> QED
  BY <1>1, Invariance, PTL

(* Forward and backward links of list.c describe one list, which ends, and *)
(* whose last node is back unless a removal has reset it.                  *)
THEOREM BothWays == Spec => []DoublyLinked
<1>1. ASSUME IInv
      PROVE  DoublyLinked
  <2>1. PICK s \in Seq(Allocated) : Links(s)
    BY <1>1 DEF IInv
  <2>2. s \in Chains
    BY <1>1, <2>1, TheChain DEF IInv
  <2> QED
    BY <2>1, <2>2 DEF DoublyLinked, Links, Last
<1> QED
  BY <1>1, Invariance, PTL

(* The clients of list.c may take it for a sequence of nodes.              *)
THEOREM Refinement == Spec => ImplementsFreeList
<1>1. Init => IInv /\ Value!Init
  BY InitInvariant
<1>2. IInv /\ [Next]_vars => IInv' /\ [Value!Next]_<<AsSequence, NoBack>>
  BY StepInvariant
<1> QED
  BY <1>1, <1>2, PTL DEF Spec, ImplementsFreeList, Value!Spec

(* A step on the sequence keeps it sorted: a node is only ever linked by   *)
(* insertNode, and a list stays sorted when an end of it goes.             *)
LEMMA StepSorted ==
    ASSUME NEW l \in Seq(Lists!Nodes(Indices)), Lists!Sorted(l), NEW b,
           NEW m, \/ \E i \in Indices, z \in Sizes : m = Value!Linked(l, Value!CreateNode(i, z), b)
                  \/ l # << >> /\ m = Tail(l)
                  \/ l # << >> /\ m = Value!PopMinSizeNode(l)
    PROVE  Lists!Sorted(m)
<1>1. /\ Len(l) \in Nat /\ DOMAIN l = 1..Len(l)
      /\ l # << >> => Len(l) - 1 \in Nat
  BY LenProperties, EmptySeq
<1>2. \A j, k \in 1..Len(l) : j < k => l[j].size >= l[k].size
  BY <1>1 DEF Lists!Sorted
<1>3. ASSUME NEW i \in Indices, NEW z \in Sizes, m = Value!Linked(l, Value!CreateNode(i, z), b)
      PROVE  Lists!Sorted(m)
  <2>1. PICK new \in Lists!Nodes(Indices) : new = Value!CreateNode(i, z)
    BY SortedListAssumption DEF Value!CreateNode, Lists!Nodes
  <2>2. Lists!Sorted(Lists!InsertNode(l, new))
    BY Lists!InsertNodeSorted
  <2>3. Value!InsertNode(l, new) = Lists!InsertNode(l, new)
    BY DEF Value!InsertNode, Value!InsertPos, Value!IsInsertPos, Value!InsertAt,
           Lists!InsertNode, Lists!InsertPos, Lists!IsInsertPos, Lists!InsertAt
  <2>4. m = l \/ m = Value!InsertNode(l, new)
    BY <1>3, <2>1 DEF Value!Linked
  <2> QED
    BY <2>2, <2>3, <2>4
<1>4. ASSUME l # << >>, m = Tail(l)
      PROVE  Lists!Sorted(m)
  <2>1. /\ m \in Seq(Lists!Nodes(Indices)) /\ Len(m) = Len(l) - 1
        /\ \A k \in 1..(Len(l) - 1) : m[k] = l[k + 1]
    BY <1>4, HeadTailProperties
  <2>2. DOMAIN m = 1..(Len(l) - 1)
    BY <2>1, LenProperties
  <2>3. ASSUME NEW j \in 1..(Len(l) - 1), NEW k \in 1..(Len(l) - 1), j < k
        PROVE  m[j].size >= m[k].size
    <3>1. Len(l) \in Nat
      BY <1>1
    <3>2. j + 1 \in 1..Len(l) /\ k + 1 \in 1..Len(l) /\ j + 1 < k + 1
      BY <2>3, <3>1
    <3>3. l[j + 1].size >= l[k + 1].size
      BY <1>2, <3>2
    <3> QED
      BY <2>1, <3>3
  <2> QED
    BY <2>2, <2>3 DEF Lists!Sorted
<1>5. ASSUME l # << >>, m = Value!PopMinSizeNode(l)
      PROVE  Lists!Sorted(m)
  <2>1. m = Lists!PopMinSizeNode(l)
    BY <1>5 DEF Value!PopMinSizeNode, Value!Front, Lists!PopMinSizeNode, Lists!Front
  <2>2. /\ m \in Seq(Lists!Nodes(Indices)) /\ Len(m) = Len(l) - 1
        /\ \A k \in 1..(Len(l) - 1) : m[k] = l[k]
    BY <1>5, <2>1, Lists!PopMinProperties
  <2>3. DOMAIN m = 1..(Len(l) - 1)
    BY <2>2, LenProperties
  <2>4. ASSUME NEW j \in 1..(Len(l) - 1), NEW k \in 1..(Len(l) - 1), j < k
        PROVE  m[j].size >= m[k].size
    <3>1. Len(l) \in Nat
      BY <1>1
    <3>2. j \in 1..Len(l) /\ k \in 1..Len(l)
      BY <3>1
    <3> QED
      BY <1>2, <2>2, <2>4, <3>2
  <2> QED
    BY <2>3, <2>4 DEF Lists!Sorted
<1> QED
  BY <1>3, <1>4, <1>5

(* Whatever is listed, popped, removed and listed anew, the gaps of list.c  *)
(* stay ordered from the largest to the smallest.                          *)
THEOREM LargestStaysFirst == Spec => []LargestFirst
<1>1. Init => LargestFirst
  <2>1. ASSUME Init
        PROVE  LargestFirst
    <3>1. AsSequence = << >>
      BY <2>1, InitInvariant DEF Value!Init
    <3> QED
      BY <3>1 DEF LargestFirst, Value!Sorted
  <2> QED
    BY <2>1
<1>2. ASSUME IInv, LargestFirst, [Next]_vars
      PROVE  LargestFirst'
  <2>1. PICK l, m, b : l = AsSequence /\ m = AsSequence' /\ b = NoBack
    OBVIOUS
  <2>2. l \in Seq(Lists!Nodes(Indices))
    <3>1. PICK s \in Seq(Allocated) : Links(s)
      BY <1>2 DEF IInv
    <3>2. AsSequence = View(s) /\ View(s) \in Seq(Lists!Nodes(Indices))
      BY <1>2, <3>1, TheChain, ChainFacts DEF IInv
    <3> QED
      BY <2>1, <3>2
  <2>3. Lists!Sorted(l)
    BY <1>2, <2>1 DEF LargestFirst, Value!Sorted, Lists!Sorted
  <2>4. \/ m = l
        \/ \E i \in Indices, z \in Sizes : m = Value!Linked(l, Value!CreateNode(i, z), b)
        \/ l # << >> /\ m = Tail(l)
        \/ l # << >> /\ m = Value!PopMinSizeNode(l)
    <3>1. [Value!Next]_<<AsSequence, NoBack>>
      BY <1>2, StepInvariant
    <3> QED
      BY <2>1, <3>1
         DEF Value!Next, Value!Insert, Value!PopMax, Value!PopMaxSizeNode, Value!PopMin,
             Value!RemoveFront
  <2>5. Lists!Sorted(m)
    BY <2>2, <2>3, <2>4, StepSorted
  <2> QED
    BY <2>1, <2>5 DEF LargestFirst, Value!Sorted, Lists!Sorted
<1> QED
  BY <1>1, <1>2, Invariance, PTL DEF Spec
=============================================================================
