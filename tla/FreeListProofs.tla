--------------------------- MODULE FreeListProofs ---------------------------
(***************************************************************************)
(* Facts about the free list as a value: what insertNode, popMaxSizeNode   *)
(* and popMinSizeNode do to its length, its elements and its order.        *)
(***************************************************************************)
EXTENDS FreeListOps, SequenceTheorems, WellFoundedInduction, TLAPS

Nodes(I) == [index : I, size : Nat]

(* A non-empty set of numbers has a least element. *)
LEMMA LeastElement ==
    ASSUME NEW T \in SUBSET Nat, T # {}
    PROVE  \E m \in T : \A n \in T : m <= n
<1> DEFINE R == {ss \in Nat \X Nat : ss[1] < ss[2]}
<1>1. IsWellFoundedOn(R, Nat)
  BY NatLessThanWellFounded DEF OpToRel
<1> HIDE DEF R
<1>2. \E m \in T : \A n \in T : ~(<<n, m>> \in R)
  BY <1>1, WFMin
<1>3. \A m, n \in Nat : n < m => <<n, m>> \in R
  BY DEF R
<1>4. PICK m \in T : \A n \in T : ~(<<n, m>> \in R)
  BY <1>2
<1>5. \A n \in T : ~(n < m)
  BY <1>3, <1>4
<1> QED
  BY <1>5

(* The scan of insertNode always stops at a place: createNode's node is    *)
(* linked in front of the first node that is not larger, or at the end.    *)
LEMMA InsertPosProperties ==
    ASSUME NEW I, NEW l \in Seq(Nodes(I)), NEW sz \in Nat
    PROVE  /\ InsertPos(l, sz) \in 1..(Len(l) + 1)
           /\ IsInsertPos(l, sz, InsertPos(l, sz))
<1> DEFINE Stops == {k \in 1..(Len(l) + 1) : k <= Len(l) => l[k].size <= sz}
<1>1. Len(l) \in Nat /\ \A k \in 1..Len(l) : l[k].size \in Nat
  <2>1. l \in [1..Len(l) -> Nodes(I)] /\ Len(l) \in Nat
    BY LenProperties
  <2> QED
    BY <2>1 DEF Nodes
<1>2. Len(l) + 1 \in Stops
  BY <1>1
<1>3. PICK m \in Stops : \A n \in Stops : m <= n
  <2>1. Stops \in SUBSET Nat /\ Stops # {}
    BY <1>1, <1>2
  <2> QED
    BY <2>1, LeastElement
<1>4. IsInsertPos(l, sz, m)
  <2>1. \A j \in 1..(m - 1) : j \notin Stops /\ j \in 1..Len(l)
    BY <1>1, <1>3
  <2>2. \A j \in 1..(m - 1) : l[j].size > sz
    BY <1>1, <2>1
  <2> QED
    BY <1>3, <2>2 DEF IsInsertPos
<1> QED
  BY <1>3, <1>4 DEF InsertPos

(* insertNode links the new node and moves no other: the nodes in front of *)
(* the place where it stops keep their places, the others move by one.     *)
LEMMA InsertNodeProperties ==
    ASSUME NEW I, NEW l \in Seq(Nodes(I)), NEW node \in Nodes(I)
    PROVE  /\ InsertNode(l, node) \in Seq(Nodes(I))
           /\ Len(InsertNode(l, node)) = Len(l) + 1
           /\ InsertPos(l, node.size) \in 1..(Len(l) + 1)
           /\ \A k \in 1..(Len(l) + 1) :
                 InsertNode(l, node)[k] = IF k < InsertPos(l, node.size) THEN l[k]
                                          ELSE IF k = InsertPos(l, node.size) THEN node
                                          ELSE l[k - 1]
<1> DEFINE p == InsertPos(l, node.size)
           before == SubSeq(l, 1, p - 1)
           after == SubSeq(l, p, Len(l))
<1>1. Len(l) \in Nat /\ l \in [1..Len(l) -> Nodes(I)] /\ node.size \in Nat
  BY LenProperties DEF Nodes
<1>2. p \in 1..(Len(l) + 1)
  BY <1>1, InsertPosProperties
<1> HIDE DEF p
<1>3. /\ before \in Seq(Nodes(I)) /\ Len(before) = p - 1
      /\ \A k \in 1..(p - 1) : before[k] = l[k]
  <2>1. 1 \in Int /\ p - 1 \in Int /\ \A i \in 1..(p - 1) : l[i] \in Nodes(I)
    BY <1>1, <1>2
  <2> QED
    BY <1>1, <1>2, <2>1, SubSeqProperties
<1>4. /\ after \in Seq(Nodes(I)) /\ Len(after) = Len(l) + 1 - p
      /\ \A k \in 1..(Len(l) + 1 - p) : after[k] = l[p + k - 1]
  <2>1. p \in Int /\ Len(l) \in Int /\ \A i \in p..Len(l) : l[i] \in Nodes(I)
    BY <1>1, <1>2
  <2> QED
    BY <1>1, <1>2, <2>1, SubSeqProperties
<1> HIDE DEF before, after
<1>5. /\ <<node>> \in Seq(Nodes(I)) /\ Len(<<node>>) = 1 /\ <<node>>[1] = node
  OBVIOUS
<1> DEFINE upTo == before \o <<node>>
<1>6. /\ upTo \in Seq(Nodes(I)) /\ Len(upTo) = p
      /\ \A k \in 1..p : upTo[k] = IF k < p THEN l[k] ELSE node
  BY <1>2, <1>3, <1>5, ConcatProperties
<1> HIDE DEF upTo
<1>7. /\ upTo \o after \in Seq(Nodes(I)) /\ Len(upTo \o after) = Len(l) + 1
      /\ \A k \in 1..(Len(l) + 1) :
            (upTo \o after)[k] = IF k <= p THEN upTo[k] ELSE after[k - p]
  BY <1>1, <1>2, <1>4, <1>6, ConcatProperties
<1>8. \A k \in 1..(Len(l) + 1) :
         (upTo \o after)[k] = IF k < p THEN l[k] ELSE IF k = p THEN node ELSE l[k - 1]
  BY <1>1, <1>2, <1>4, <1>6, <1>7
<1>9. InsertNode(l, node) = upTo \o after
  BY DEF InsertNode, InsertAt, upTo, before, after, p
<1> QED
  BY <1>2, <1>7, <1>8, <1>9 DEF p

(* insertNode keeps the list sorted. *)
LEMMA InsertNodeSorted ==
    ASSUME NEW I, NEW l \in Seq(Nodes(I)), NEW node \in Nodes(I), Sorted(l)
    PROVE  Sorted(InsertNode(l, node))
<1> DEFINE p == InsertPos(l, node.size)
           r == InsertNode(l, node)
<1>1. /\ Len(l) \in Nat /\ DOMAIN l = 1..Len(l) /\ node.size \in Nat
      /\ \A k \in 1..Len(l) : l[k].size \in Nat
  <2>1. l \in [1..Len(l) -> Nodes(I)] /\ Len(l) \in Nat
    BY LenProperties
  <2> QED
    BY <2>1 DEF Nodes
<1>2. /\ p \in 1..(Len(l) + 1) /\ DOMAIN r = 1..(Len(l) + 1)
      /\ \A k \in 1..(Len(l) + 1) :
            r[k] = IF k < p THEN l[k] ELSE IF k = p THEN node ELSE l[k - 1]
  <2>1. r \in Seq(Nodes(I)) /\ Len(r) = Len(l) + 1
    BY InsertNodeProperties
  <2>2. DOMAIN r = 1..(Len(l) + 1)
    BY <2>1, LenProperties
  <2>3. p \in 1..(Len(l) + 1)
    BY InsertNodeProperties
  <2>4. \A k \in 1..(Len(l) + 1) :
           r[k] = IF k < p THEN l[k] ELSE IF k = p THEN node ELSE l[k - 1]
    BY InsertNodeProperties
  <2> QED
    BY <2>2, <2>3, <2>4
<1>3. /\ \A j \in 1..(p - 1) : l[j].size > node.size
      /\ p <= Len(l) => l[p].size <= node.size
  BY <1>1, InsertPosProperties DEF IsInsertPos
<1> HIDE DEF p, r
<1>4. \A j, k \in 1..Len(l) : j < k => l[j].size >= l[k].size
  BY <1>1 DEF Sorted
<1>5. \A k \in p..Len(l) : l[k].size <= node.size
  BY <1>1, <1>2, <1>3, <1>4
<1>6. ASSUME NEW j \in 1..(Len(l) + 1), NEW k \in 1..(Len(l) + 1), j < k
      PROVE  r[j].size >= r[k].size
  <2>1. CASE k < p
    BY <1>1, <1>2, <1>4, <1>6, <2>1
  <2>2. CASE k = p
    BY <1>1, <1>2, <1>3, <1>6, <2>2
  <2>3. CASE k > p /\ j < p
    <3>1. r[j] = l[j] /\ r[k] = l[k - 1] /\ j <= k - 1 /\ k - 1 \in 1..Len(l) /\ j \in 1..Len(l)
      BY <1>1, <1>2, <1>6, <2>3
    <3> QED
      BY <1>1, <1>4, <3>1
  <2>4. CASE k > p /\ j = p
    BY <1>1, <1>2, <1>5, <1>6, <2>4
  <2>5. CASE k > p /\ j > p
    BY <1>1, <1>2, <1>4, <1>6, <2>5
  <2> QED
    BY <1>2, <2>1, <2>2, <2>3, <2>4, <2>5
<1> QED
  BY <1>2, <1>6 DEF Sorted, r

(* popMaxSizeNode drops the first node. *)
LEMMA PopMaxProperties ==
    ASSUME NEW I, NEW l \in Seq(Nodes(I)), l # << >>
    PROVE  /\ PopMaxSizeNode(l) \in Seq(Nodes(I))
           /\ Len(PopMaxSizeNode(l)) = Len(l) - 1
           /\ \A k \in 1..(Len(l) - 1) : PopMaxSizeNode(l)[k] = l[k + 1]
  BY HeadTailProperties DEF PopMaxSizeNode

(* popMinSizeNode drops the last node. *)
LEMMA PopMinProperties ==
    ASSUME NEW I, NEW l \in Seq(Nodes(I)), l # << >>
    PROVE  /\ PopMinSizeNode(l) \in Seq(Nodes(I))
           /\ Len(PopMinSizeNode(l)) = Len(l) - 1
           /\ \A k \in 1..(Len(l) - 1) : PopMinSizeNode(l)[k] = l[k]
<1>1. Len(l) \in Nat \ {0} /\ l \in [1..Len(l) -> Nodes(I)]
  BY EmptySeq, LenProperties
<1>2. 1 \in Int /\ Len(l) - 1 \in Int /\ \A i \in 1..(Len(l) - 1) : l[i] \in Nodes(I)
  BY <1>1
<1> QED
  BY <1>1, <1>2, SubSeqProperties DEF PopMinSizeNode, Front
-----------------------------------------------------------------------------
(* The inodes on a list, and that none is on it twice. *)
Indexes(l) == {l[k].index : k \in DOMAIN l}
Once(l) == \A j, k \in DOMAIN l : l[j].index = l[k].index => j = k
AllOfSize(l, sz) == \A k \in DOMAIN l : l[k].size = sz

(* insertNode adds one inode to those on the list. *)
LEMMA InsertNodeIndexes ==
    ASSUME NEW I, NEW l \in Seq(Nodes(I)), NEW node \in Nodes(I)
    PROVE  /\ Indexes(InsertNode(l, node)) = Indexes(l) \cup {node.index}
           /\ Once(l) /\ node.index \notin Indexes(l) => Once(InsertNode(l, node))
           /\ AllOfSize(l, node.size) => AllOfSize(InsertNode(l, node), node.size)
<1> DEFINE r == InsertNode(l, node)
<1>1. PICK n \in Nat : n = Len(l) /\ DOMAIN l = 1..n
  BY LenProperties
<1>2. PICK p \in 1..(n + 1) : p = InsertPos(l, node.size)
  BY <1>1, InsertNodeProperties
<1>3. DOMAIN r = 1..(n + 1)
  <2>1. r \in Seq(Nodes(I)) /\ Len(r) = n + 1
    BY <1>1, InsertNodeProperties
  <2> QED
    BY <2>1, LenProperties
<1>4. \A k \in 1..(n + 1) : r[k] = IF k < p THEN l[k] ELSE IF k = p THEN node ELSE l[k - 1]
  <2>1. \A k \in 1..(Len(l) + 1) :
           r[k] = IF k < InsertPos(l, node.size) THEN l[k]
                  ELSE IF k = InsertPos(l, node.size) THEN node ELSE l[k - 1]
    BY ONLY InsertNodeProperties, l \in Seq(Nodes(I)), node \in Nodes(I)
  <2> QED
    BY <1>1, <1>2, <2>1
<1> HIDE DEF r
<1> DEFINE from(k) == IF k < p THEN k ELSE k - 1
           to(k) == IF k < p THEN k ELSE k + 1
<1>5. /\ r[p] = node
      /\ \A k \in 1..(n + 1) : k # p => from(k) \in 1..n /\ r[k] = l[from(k)]
      /\ \A k \in 1..n : to(k) \in 1..(n + 1) /\ to(k) # p /\ r[to(k)] = l[k]
      /\ \A j, k \in 1..(n + 1) : j # p /\ k # p /\ from(j) = from(k) => j = k
  <2>1. \A k \in 1..(n + 1) : k # p => from(k) \in 1..n /\ r[k] = l[from(k)]
    BY <1>4
  <2>2. \A k \in 1..n : to(k) \in 1..(n + 1) /\ to(k) # p /\ r[to(k)] = l[k]
    BY <1>4
  <2>3. \A j, k \in 1..(n + 1) : j # p /\ k # p /\ from(j) = from(k) => j = k
    OBVIOUS
  <2> QED
    BY <1>4, <2>1, <2>2, <2>3
<1> HIDE DEF from, to
<1>6. Indexes(r) = Indexes(l) \cup {node.index}
  <2>1. Indexes(r) \subseteq Indexes(l) \cup {node.index}
    BY <1>1, <1>3, <1>5 DEF Indexes
  <2>2. Indexes(l) \cup {node.index} \subseteq Indexes(r)
    BY <1>1, <1>3, <1>5 DEF Indexes
  <2> QED
    BY <2>1, <2>2
<1>7. ASSUME Once(l), node.index \notin Indexes(l) PROVE Once(r)
  <2> SUFFICES ASSUME NEW j \in 1..(n + 1), NEW k \in 1..(n + 1), r[j].index = r[k].index
               PROVE  j = k
    BY <1>3 DEF Once
  <2>1. \A m \in 1..(n + 1) : m # p => r[m].index # node.index
    BY <1>1, <1>5, <1>7 DEF Indexes
  <2>2. CASE j = p \/ k = p
    BY <1>5, <2>1, <2>2
  <2>3. CASE j # p /\ k # p
    BY <1>1, <1>5, <1>7, <2>3 DEF Once
  <2> QED
    BY <2>2, <2>3
<1>8. ASSUME AllOfSize(l, node.size) PROVE AllOfSize(r, node.size)
  BY <1>1, <1>3, <1>5, <1>8 DEF AllOfSize
<1> QED
  BY <1>6, <1>7, <1>8 DEF r

(* popMinSizeNode takes one inode off the list. *)
LEMMA PopMinIndexes ==
    ASSUME NEW I, NEW l \in Seq(Nodes(I)), l # << >>, Once(l)
    PROVE  /\ Last(l) \in Nodes(I) /\ Last(l).index \in Indexes(l)
           /\ \A sz : AllOfSize(l, sz) => Last(l).size = sz /\ AllOfSize(PopMinSizeNode(l), sz)
           /\ Indexes(PopMinSizeNode(l)) = Indexes(l) \ {Last(l).index}
           /\ Once(PopMinSizeNode(l))
<1> DEFINE r == PopMinSizeNode(l)
<1>1. PICK n \in Nat \ {0} : n = Len(l) /\ DOMAIN l = 1..n /\ l \in [1..n -> Nodes(I)]
  BY EmptySeq, LenProperties
<1>2. n \in 1..n /\ Last(l) = l[n]
  BY <1>1 DEF Last
<1>3. DOMAIN r = 1..(n - 1) /\ \A k \in 1..(n - 1) : k \in 1..n /\ k # n /\ r[k] = l[k]
  <2>1. r \in Seq(Nodes(I)) /\ Len(r) = n - 1
    BY <1>1, PopMinProperties
  <2>2. DOMAIN r = 1..Len(r)
    BY <2>1, LenProperties
  <2>3. \A k \in 1..(Len(l) - 1) : r[k] = l[k]
    BY ONLY PopMinProperties, l \in Seq(Nodes(I)), l # << >>
  <2> HIDE DEF r
  <2>4. DOMAIN r = 1..(n - 1)
    BY <2>1, <2>2
  <2>5. \A k \in 1..(n - 1) : k \in 1..n /\ k # n
    OBVIOUS
  <2>6. \A k \in 1..(n - 1) : r[k] = l[k]
    BY <1>1, <2>3
  <2> QED
    BY <2>4, <2>5, <2>6, Zenon
<1> HIDE DEF r
<1>4. \A k \in 1..n : k = n \/ k \in 1..(n - 1)
  OBVIOUS
<1>5. \A k \in 1..(n - 1) : r[k].index # l[n].index
  BY <1>1, <1>2, <1>3 DEF Once
<1>6. Indexes(r) = Indexes(l) \ {Last(l).index}
  BY <1>1, <1>2, <1>3, <1>4, <1>5 DEF Indexes
<1>7. Once(r)
  BY <1>1, <1>3 DEF Once
<1>8. \A sz : AllOfSize(l, sz) => Last(l).size = sz /\ AllOfSize(r, sz)
  BY <1>1, <1>2, <1>3 DEF AllOfSize
<1>9. Last(l) \in Nodes(I) /\ Last(l).index \in Indexes(l)
  BY <1>1, <1>2 DEF Indexes
<1> QED
  BY <1>6, <1>7, <1>8, <1>9 DEF r

(* The nodes of a list, whatever their order. *)
NodesOn(l) == {l[k] : k \in DOMAIN l}

(* insertNode adds its node to those on the list. *)
LEMMA InsertNodeNodes ==
    ASSUME NEW I, NEW l \in Seq(Nodes(I)), NEW node \in Nodes(I)
    PROVE  NodesOn(InsertNode(l, node)) = NodesOn(l) \cup {node}
<1> DEFINE r == InsertNode(l, node)
<1>1. PICK n \in Nat : n = Len(l) /\ DOMAIN l = 1..n
  BY LenProperties
<1>2. PICK p \in 1..(n + 1) : p = InsertPos(l, node.size)
  BY <1>1, InsertNodeProperties
<1>3. DOMAIN r = 1..(n + 1)
  <2>1. r \in Seq(Nodes(I)) /\ Len(r) = n + 1
    BY <1>1, InsertNodeProperties
  <2> QED
    BY <2>1, LenProperties
<1>4. \A k \in 1..(n + 1) : r[k] = IF k < p THEN l[k] ELSE IF k = p THEN node ELSE l[k - 1]
  <2>1. \A k \in 1..(Len(l) + 1) :
           r[k] = IF k < InsertPos(l, node.size) THEN l[k]
                  ELSE IF k = InsertPos(l, node.size) THEN node ELSE l[k - 1]
    BY ONLY InsertNodeProperties, l \in Seq(Nodes(I)), node \in Nodes(I)
  <2> QED
    BY <1>1, <1>2, <2>1
<1> HIDE DEF r
<1>5. r[p] = node
  BY <1>4
<1>6. \A k \in 1..n : \E m \in 1..(n + 1) : r[m] = l[k]
  <2> TAKE k \in 1..n
  <2>1. CASE k < p
    BY <1>4, <2>1
  <2>2. CASE ~(k < p)
    <3>1. k + 1 \in 1..(n + 1) /\ ~(k + 1 < p) /\ k + 1 # p /\ k + 1 - 1 = k
      BY <2>2
    <3>2. r[k + 1] = l[k]
      BY <1>4, <3>1
    <3> QED
      BY <3>1, <3>2
  <2> QED
    BY <2>1, <2>2, n \in Nat
<1>7. \A k \in 1..(n + 1) : r[k] = node \/ \E m \in 1..n : r[k] = l[m]
  BY <1>4
<1>8. NodesOn(r) \subseteq NodesOn(l) \cup {node}
  BY <1>1, <1>3, <1>7 DEF NodesOn
<1>9. NodesOn(l) \cup {node} \subseteq NodesOn(r)
  BY <1>1, <1>3, <1>5, <1>6 DEF NodesOn
<1> QED
  BY <1>8, <1>9 DEF r

(* popMaxSizeNode takes the largest node, with its inode, off the list.    *)
LEMMA PopMaxNodes ==
    ASSUME NEW I, NEW l \in Seq(Nodes(I)), l # << >>, Once(l), Sorted(l)
    PROVE  /\ l[1] \in Nodes(I) /\ l[1] \in NodesOn(l)
           /\ NodesOn(PopMaxSizeNode(l)) \subseteq NodesOn(l)
           /\ \A node \in NodesOn(PopMaxSizeNode(l)) : node.index # l[1].index
           /\ \A node \in NodesOn(l) : node \in NodesOn(PopMaxSizeNode(l)) \/ node = l[1]
           /\ Once(PopMaxSizeNode(l)) /\ Sorted(PopMaxSizeNode(l))
<1> DEFINE r == PopMaxSizeNode(l)
<1>1. PICK n \in Nat \ {0} : n = Len(l) /\ DOMAIN l = 1..n /\ l \in [1..n -> Nodes(I)]
  BY EmptySeq, LenProperties
<1>2. DOMAIN r = 1..(n - 1) /\ \A k \in 1..(n - 1) : r[k] = l[k + 1]
  <2>1. r \in Seq(Nodes(I)) /\ Len(r) = n - 1
    BY <1>1, PopMaxProperties
  <2>2. \A k \in 1..(Len(l) - 1) : r[k] = l[k + 1]
    BY ONLY PopMaxProperties, l \in Seq(Nodes(I)), l # << >>
  <2>3. DOMAIN r = 1..Len(r)
    BY <2>1, LenProperties
  <2> HIDE DEF r
  <2> QED
    BY <1>1, <2>1, <2>2, <2>3
<1> HIDE DEF r
<1>3. \A k \in 1..(n - 1) : k + 1 \in 1..n /\ k + 1 # 1
  OBVIOUS
<1>4. l[1] \in Nodes(I) /\ l[1] \in NodesOn(l)
  BY <1>1 DEF NodesOn
<1>5. NodesOn(r) \subseteq NodesOn(l)
  BY <1>1, <1>2, <1>3 DEF NodesOn
<1>6. \A node \in NodesOn(r) : node.index # l[1].index
  <2>1. \A k \in 1..(n - 1) : l[k + 1].index # l[1].index
    BY <1>1, <1>3 DEF Once
  <2> QED
    BY <1>2, <2>1 DEF NodesOn
<1>7. \A node \in NodesOn(l) : node \in NodesOn(r) \/ node = l[1]
  <2>1. \A k \in 1..n : k = 1 \/ (k - 1 \in 1..(n - 1) /\ k - 1 + 1 = k)
    OBVIOUS
  <2> QED
    BY <1>1, <1>2, <2>1 DEF NodesOn
<1>8. Once(r)
  <2>1. \A j, k \in 1..(n - 1) : j + 1 = k + 1 => j = k
    OBVIOUS
  <2> QED
    BY <1>1, <1>2, <1>3, <2>1 DEF Once
<1>9. Sorted(r)
  <2>1. \A j, k \in 1..(n - 1) : j < k => j + 1 < k + 1
    OBVIOUS
  <2> QED
    BY <1>1, <1>2, <1>3, <2>1 DEF Sorted
<1> QED
  BY <1>4, <1>5, <1>6, <1>7, <1>8, <1>9 DEF r

(* popMinSizeNode takes the smallest node, with its inode, off the list.   *)
LEMMA PopMinNodes ==
    ASSUME NEW I, NEW l \in Seq(Nodes(I)), l # << >>, Once(l), Sorted(l)
    PROVE  /\ Last(l) \in Nodes(I) /\ Last(l) \in NodesOn(l)
           /\ NodesOn(PopMinSizeNode(l)) \subseteq NodesOn(l)
           /\ \A node \in NodesOn(PopMinSizeNode(l)) : node.index # Last(l).index
           /\ Once(PopMinSizeNode(l)) /\ Sorted(PopMinSizeNode(l))
           /\ (\E node \in NodesOn(l) : node.size = 0) => Last(l).size = 0
<1> DEFINE r == PopMinSizeNode(l)
<1>1. PICK n \in Nat \ {0} : n = Len(l) /\ DOMAIN l = 1..n /\ l \in [1..n -> Nodes(I)]
  BY EmptySeq, LenProperties
<1>2. n \in 1..n /\ Last(l) = l[n]
  BY <1>1 DEF Last
<1>3. DOMAIN r = 1..(n - 1) /\ \A k \in 1..(n - 1) : r[k] = l[k]
  <2>1. r \in Seq(Nodes(I)) /\ Len(r) = n - 1
    BY <1>1, PopMinProperties
  <2>2. \A k \in 1..(Len(l) - 1) : r[k] = l[k]
    BY ONLY PopMinProperties, l \in Seq(Nodes(I)), l # << >>
  <2>3. DOMAIN r = 1..Len(r)
    BY <2>1, LenProperties
  <2> HIDE DEF r
  <2> QED
    BY <1>1, <2>1, <2>2, <2>3
<1> HIDE DEF r
<1>4. \A k \in 1..(n - 1) : k \in 1..n /\ k # n
  OBVIOUS
<1>5. Last(l) \in Nodes(I) /\ Last(l) \in NodesOn(l)
  BY <1>1, <1>2 DEF NodesOn
<1>6. NodesOn(r) \subseteq NodesOn(l)
  BY <1>1, <1>3, <1>4 DEF NodesOn
<1>7. \A node \in NodesOn(r) : node.index # Last(l).index
  <2>1. \A k \in 1..(n - 1) : l[k].index # l[n].index
    BY <1>1, <1>2, <1>4 DEF Once
  <2> QED
    BY <1>2, <1>3, <2>1 DEF NodesOn
<1>8. Once(r)
  BY <1>1, <1>3, <1>4 DEF Once
<1>9. Sorted(r)
  BY <1>1, <1>3, <1>4 DEF Sorted
<1>10. ASSUME NEW node \in NodesOn(l), node.size = 0 PROVE Last(l).size = 0
  <2>1. PICK k \in 1..n : node = l[k]
    BY <1>1 DEF NodesOn
  <2>2. CASE k = n
    BY <1>2, <1>10, <2>1, <2>2
  <2>3. CASE k < n
    <3>1. l[k].size >= l[n].size
      BY <1>1, <1>2, <2>3 DEF Sorted
    <3>2. l[k].size = 0 /\ l[n].size \in Nat
      BY <1>1, <1>2, <1>10, <2>1 DEF Nodes
    <3> QED
      BY <1>2, <3>1, <3>2
  <2> QED
    BY <2>2, <2>3
<1> QED
  BY <1>5, <1>6, <1>7, <1>8, <1>9, <1>10 DEF r

(* insertNode on a list that may have lost its back adds its node or, when *)
(* there is no back to put it behind, nothing.                             *)
LEMMA LinkedNodes ==
    ASSUME NEW I, NEW l \in Seq(Nodes(I)), NEW node \in Nodes(I), NEW noBack \in BOOLEAN,
           Once(l), Sorted(l), \A m \in NodesOn(l) : m.index # node.index
    PROVE  /\ Linked(l, node, noBack) \in Seq(Nodes(I))
           /\ NodesOn(l) \subseteq NodesOn(Linked(l, node, noBack))
           /\ NodesOn(Linked(l, node, noBack)) \subseteq NodesOn(l) \cup {node}
           /\ ~noBack => node \in NodesOn(Linked(l, node, noBack))
           /\ Once(Linked(l, node, noBack)) /\ Sorted(Linked(l, node, noBack))
<1>1. CASE Linked(l, node, noBack) = l /\ noBack
  BY <1>1
<1>2. CASE Linked(l, node, noBack) = InsertNode(l, node)
  <2>1. node.index \notin Indexes(l)
    BY DEF Indexes, NodesOn
  <2>2. Once(InsertNode(l, node))
    BY <2>1, InsertNodeIndexes
  <2>3. InsertNode(l, node) \in Seq(Nodes(I))
    BY InsertNodeProperties
  <2>4. Sorted(InsertNode(l, node))
    BY InsertNodeSorted
  <2>5. NodesOn(InsertNode(l, node)) = NodesOn(l) \cup {node}
    BY InsertNodeNodes
  <2> QED
    BY <1>2, <2>2, <2>3, <2>4, <2>5
<1> QED
  BY <1>1, <1>2 DEF Linked

=============================================================================
