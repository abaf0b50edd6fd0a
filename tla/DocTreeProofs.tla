--------------------------- MODULE DocTreeProofs ---------------------------
(***************************************************************************)
(* The tree of documents is kept whole by the links in the blocks, and a   *)
(* deletion stays inside it, for every number of inodes and every set of   *)
(* documents, as long as no gap is filled again.                           *)
(***************************************************************************)
EXTENDS DocTree, DocFileProofs

(* The document of S inserted last. *)
Newest(S) == CHOOSE m \in S \cup {NoDoc} : \A i \in S : i <= m

(* Parents stay placed, the child of a document is the one inserted last   *)
(* under it, and its brother the one inserted before it.                   *)
LinksTellAges ==
    /\ parentOf \in [Ids -> Links]
    /\ \A i \in Placed : parentOf[i] \in Placed \cup {NoDoc}
    /\ \A p \in Placed : Child(p) = Newest(Under(p))
    /\ \A i \in Placed :
          Brother(i) = IF parentOf[i] = NoDoc THEN NoDoc
                       ELSE Newest({j \in Under(parentOf[i]) : j < i})

(* The inode at the back of the list is the smallest without a place.      *)
HandedOutInOrder ==
    /\ \A i \in Placed, j \in Ids \ Placed : i < j
    /\ \A j, k \in DOMAIN list :
          j < k /\ list[j].size = 0 /\ list[k].size = 0 => list[j].index > list[k].index

TreeInv == IInv /\ LinksTellAges /\ HandedOutInOrder

-----------------------------------------------------------------------------
(* A non-empty set of bounded numbers has a greatest element. *)
LEMMA GreatestElement ==
    ASSUME NEW n \in Nat, NEW T \in SUBSET (0..n), T # {}
    PROVE  \E m \in T : \A i \in T : i <= m
<1> DEFINE U == {n - i : i \in T}
<1>1. U \in SUBSET Nat /\ U # {}
  <2>1. \A i \in T : n - i \in Nat
    OBVIOUS
  <2> QED
    BY <2>1
<1>2. PICK u \in U : \A v \in U : u <= v
  BY <1>1, LeastElement
<1>3. PICK m \in T : u = n - m
  BY <1>2
<1>4. \A i \in T : n - m <= n - i
  BY <1>2, <1>3
<1>5. \A i \in T : i <= m
  BY <1>4
<1> QED
  BY <1>5

(* Newest is what its name says. *)
LEMMA NewestOf ==
    ASSUME NEW S \in SUBSET Ids
    PROVE  /\ Newest(S) \in S \cup {NoDoc}
           /\ \A i \in S : i <= Newest(S)
<1>1. C_DEFAULT \in Nat \ {0} /\ Ids = 0..(C_DEFAULT - 1)
  BY DocFileAssumption DEF Ids
<1>2. \E m \in S \cup {NoDoc} : \A i \in S : i <= m
  <2>1. CASE S = {}
    BY <2>1
  <2>2. CASE S # {}
    <3>1. C_DEFAULT - 1 \in Nat
      BY <1>1
    <3> QED
      BY <1>1, <2>2, <3>1, GreatestElement
  <2> QED
    BY <2>1, <2>2
<1> QED
  BY <1>2 DEF Newest

(* A member of S above all of S, or NoDoc for the empty set, is its newest. *)
LEMMA NewestIs ==
    ASSUME NEW S \in SUBSET Ids, NEW m \in S \cup {NoDoc}, \A i \in S : i <= m
    PROVE  Newest(S) = m
<1>1. \A i \in Ids : i \in Nat
  BY DocFileAssumption DEF Ids
<1>2. PICK q \in S \cup {NoDoc} : q = Newest(S) /\ \A i \in S : i <= q
  BY NewestOf
<1>3. q = m
  <2>1. CASE q \in S /\ m \in S
    <3>1. q \in Nat /\ m \in Nat /\ q <= m /\ m <= q
      BY <1>1, <1>2, <2>1
    <3> QED
      BY <3>1
  <2>2. CASE q = NoDoc
    BY <1>1, <1>2, <2>2 DEF NoDoc
  <2>3. CASE m = NoDoc
    BY <1>1, <1>2, <2>3 DEF NoDoc
  <2> QED
    BY <2>1, <2>2, <2>3
<1> QED
  BY <1>2, <1>3

-----------------------------------------------------------------------------
(* An inode that is handed out comes after those that are placed: the new  *)
(* document is the newest under its parent, and no document is under it.   *)
LEMMA NewPlaceStep ==
    ASSUME TreeInv, NEW parent \in Links, NEW d \in Documents, InsertInNewPlace(parent, d)
    PROVE  LinksTellAges' /\ HandedOutInOrder'
<1>0. IInv /\ LinksTellAges /\ HandedOutInOrder /\ InsertAtEnd(parent, d)
  BY DEF TreeInv, InsertInNewPlace
<1>1. PICK id \in Ids, pos \in Nat :
         id = Last(list).index /\ Stores(id, pos, parent, d) /\ inode[id].status = OPEN
  BY <1>0, EndStores
<1>2. /\ id \notin Placed /\ parent # id
      /\ parent # NoDoc => parent \in Placed
      /\ NoDoc \notin Ids /\ Placed \subseteq Ids
  BY <1>0, <1>1, Basics DEF Stores, AcceptsParent, Status, Placed, Links
<1>3. HasDocument(disk', d, id, parent, pos)
  BY <1>0, <1>1, WrittenBlocks DEF Stores
<1>4. /\ inode'[id].status = CLOSE /\ inode'[id].pos = pos
      /\ \A i \in Ids \ {id} : inode'[i] = inode[i]
  BY <1>1 DEF Stores
<1>5. Placed' = Placed \cup {id}
  BY <1>0, <1>1, <1>4, Basics DEF Placed
<1>6. /\ Child(id)' = NoDoc
      /\ Brother(id)' = IF parent = NoDoc THEN NoDoc ELSE Child(parent)
  BY <1>3, <1>4 DEF HasDocument, NewMeta, Child, Brother, MetaOf
<1>7. \A i \in Placed : /\ Child(i)' = IF i = parent THEN id ELSE Child(i)
                        /\ Brother(i)' = Brother(i)
  <2> SUFFICES ASSUME NEW i \in Placed
               PROVE  /\ Child(i)' = IF i = parent THEN id ELSE Child(i)
                      /\ Brother(i)' = Brother(i)
    OBVIOUS
  <2>1. MetaOf(i)' = BlockAfter(i, parent, id)
    BY <1>2, <1>3, <1>4 DEF HasDocument, MetaOf
  <2>2. MetaOf(i) \in Metas
    BY <1>0, BlockOf
  <2> QED
    BY <2>1, <2>2 DEF BlockAfter, Metas, Child, Brother
<1>8. parentOf' = [i \in Ids |-> IF i = id THEN parent ELSE parentOf[i]]
  <2>1. \A i \in Ids : Appears(i) <=> i = id
    BY <1>1, <1>4 DEF Appears, Stores
  <2> QED
    BY <2>1 DEF InsertInNewPlace, InsertedUnder
<1>9. /\ parentOf \in [Ids -> Links]
      /\ \A i \in Placed : parentOf[i] \in Placed \cup {NoDoc}
      /\ \A p \in Placed : Child(p) = Newest(Under(p))
      /\ \A i \in Placed :
            Brother(i) = IF parentOf[i] = NoDoc THEN NoDoc
                         ELSE Newest({j \in Under(parentOf[i]) : j < i})
      /\ \A i \in Placed : i < id
  BY <1>0, <1>1, <1>2 DEF LinksTellAges, HandedOutInOrder
<1>10. \A i \in Ids : i \in Nat
  BY DocFileAssumption DEF Ids
<1> DEFINE After(p) == {j \in Placed' : parentOf'[j] = p}
<1>11. /\ After(id) = {}
       /\ \A p \in Placed : After(p) = IF p = parent THEN Under(p) \cup {id} ELSE Under(p)
  BY <1>2, <1>5, <1>8, <1>9 DEF Under
<1> HIDE DEF After
<1>12. \A p \in Ids : Under(p) \in SUBSET Ids
  BY <1>2 DEF Under
<1>13. ASSUME NEW p \in Placed' PROVE Child(p)' = Newest(After(p))
  <2>1. CASE p = id
    BY <1>6, <1>11, <2>1, NewestIs
  <2>2. CASE p \in Placed /\ p = parent
    <3>1. \A i \in Under(p) \cup {id} : i <= id
      BY <1>1, <1>9, <1>10 DEF Under, Placed
    <3>2. Newest(Under(p) \cup {id}) = id
      BY <1>1, <1>2, <1>12, <2>2, <3>1, NewestIs
    <3> QED
      BY <1>7, <1>11, <2>2, <3>2
  <2>3. CASE p \in Placed /\ p # parent
    BY <1>7, <1>9, <1>11, <2>3
  <2> QED
    BY <1>5, <2>1, <2>2, <2>3
<1>14. ASSUME NEW i \in Placed'
       PROVE  Brother(i)' = IF parentOf'[i] = NoDoc THEN NoDoc
                            ELSE Newest({j \in After(parentOf'[i]) : j < i})
  <2>1. CASE i = id
    <3>1. parent # NoDoc => {j \in Under(parent) \cup {id} : j < id} = Under(parent)
      BY <1>1, <1>9, <1>10 DEF Under
    <3>2. parentOf'[i] = parent
      BY <1>8, <2>1
    <3> QED
      BY <1>2, <1>6, <1>9, <1>11, <2>1, <3>1, <3>2
  <2>2. CASE i \in Placed
    <3>1. parentOf'[i] = parentOf[i] /\ ~(id < i) /\ Brother(i)' = Brother(i)
      BY <1>1, <1>2, <1>7, <1>8, <1>9, <1>10, <2>2
    <3>2. ASSUME parentOf[i] # NoDoc
          PROVE  {j \in After(parentOf[i]) : j < i} = {j \in Under(parentOf[i]) : j < i}
      <4>1. parentOf[i] \in Placed
        BY <1>9, <2>2, <3>2
      <4>2. \A j : j \in After(parentOf[i]) /\ j < i <=> j \in Under(parentOf[i]) /\ j < i
        BY <1>11, <3>1, <4>1
      <4> QED
        BY <4>2
    <3> QED
      BY <1>9, <2>2, <3>1, <3>2
  <2> QED
    BY <1>5, <2>1, <2>2
<1>15. LinksTellAges'
  <2>1. parentOf' \in [Ids -> Links] /\ \A i \in Placed' : parentOf'[i] \in Placed' \cup {NoDoc}
    BY <1>1, <1>2, <1>5, <1>8, <1>9
  <2> QED
    BY <1>13, <1>14, <2>1 DEF LinksTellAges, Under, After
<1>16. /\ list \in Seq(Nodes(Ids)) /\ list # << >> /\ Last(list).size = 0
       /\ list' = PopMinSizeNode(list)
  BY <1>0 DEF InsertAtEnd, FitsEnd, PlaceAtEnd, IInv, TypeOK, Nodes
<1>17. /\ Len(list) \in Nat \ {0} /\ DOMAIN list = 1..Len(list) /\ Last(list) = list[Len(list)]
       /\ list' \in Seq(Nodes(Ids)) /\ Len(list') = Len(list) - 1
       /\ \A k \in 1..(Len(list) - 1) : list'[k] = list[k]
  BY <1>16, EmptySeq, LenProperties, PopMinProperties DEF Last
<1>18. ASSUME NEW j \in Ids \ Placed'
       PROVE  id < j
  <2>1. j \in Ids \ Placed /\ j # id /\ inode[j].status = OPEN
    BY <1>5 DEF Placed
  <2>2. PICK k \in 1..Len(list) : list[k].index = j
    BY <1>0, <1>17, <2>1, Basics DEF IInv, FreeListExact, Listed
  <2>3. list[k].size = 0
    BY <1>0, <1>17, <2>1, <2>2, Basics DEF IInv, FreeListExact, NodeMatches
  <2>4. k < Len(list) /\ Len(list) \in 1..Len(list)
    BY <1>1, <1>17, <2>1, <2>2
  <2> QED
    BY <1>0, <1>1, <1>10, <1>16, <1>17, <2>1, <2>2, <2>3, <2>4 DEF HandedOutInOrder
<1>19. HandedOutInOrder'
  <2>1. \A i \in Placed', j \in Ids \ Placed' : i < j
    BY <1>0, <1>5, <1>18 DEF HandedOutInOrder
  <2>2. DOMAIN list' = 1..(Len(list) - 1)
    BY <1>17, LenProperties
  <2>3. \A k \in 1..(Len(list) - 1) : k \in DOMAIN list
    BY <1>17
  <2> QED
    BY <1>0, <1>17, <2>1, <2>2, <2>3 DEF HandedOutInOrder
<1> QED
  BY <1>15, <1>19

(* Among the nodes of l without a place, the greatest inode comes first.   *)
DescendsWithoutPlace(l) ==
    \A j, k \in DOMAIN l :
        j < k /\ l[j].size = 0 /\ l[k].size = 0 => l[j].index > l[k].index

(* A node with a place, put in anywhere, leaves the others in their order. *)
LEMMA InsertKeepsDescent ==
    ASSUME NEW l \in Seq(Nodes(Ids)), NEW node \in Nodes(Ids), node.size > 0,
           DescendsWithoutPlace(l)
    PROVE  DescendsWithoutPlace(InsertNode(l, node))
<1> DEFINE m == InsertNode(l, node)
<1>1. PICK n \in Nat : n = Len(l) /\ DOMAIN l = 1..n
  BY LenProperties
<1>2. PICK p \in 1..(n + 1) : p = InsertPos(l, node.size)
  BY <1>1, InsertNodeProperties
<1>3. m \in Seq(Nodes(Ids)) /\ Len(m) = n + 1
  BY <1>1, InsertNodeProperties
<1>4. \A k \in 1..(n + 1) : m[k] = IF k < p THEN l[k] ELSE IF k = p THEN node ELSE l[k - 1]
  <2>1. \A k \in 1..(Len(l) + 1) :
           m[k] = IF k < InsertPos(l, node.size) THEN l[k]
                  ELSE IF k = InsertPos(l, node.size) THEN node ELSE l[k - 1]
    BY ONLY InsertNodeProperties, l \in Seq(Nodes(Ids)), node \in Nodes(Ids)
  <2> QED
    BY <1>1, <1>2, <2>1
<1>5. DOMAIN m = 1..(n + 1)
  BY <1>3, LenProperties
<1> HIDE DEF m
<1>6. ASSUME NEW j \in 1..(n + 1), NEW k \in 1..(n + 1), j < k, m[j].size = 0, m[k].size = 0
      PROVE  m[j].index > m[k].index
  <2> DEFINE from(i) == IF i < p THEN i ELSE i - 1
  <2>1. j # p /\ k # p
    BY <1>4, <1>6
  <2>2. m[j] = l[from(j)] /\ m[k] = l[from(k)]
    BY <1>4, <2>1
  <2>3. from(j) \in 1..n /\ from(k) \in 1..n /\ from(j) < from(k)
    BY <1>6, <2>1
  <2> HIDE DEF from
  <2> QED
    BY <1>1, <1>6, <2>2, <2>3 DEF DescendsWithoutPlace
<1>7. DescendsWithoutPlace(m)
  BY <1>5, <1>6 DEF DescendsWithoutPlace
<1> QED
  BY <1>7 DEF m

(* A freed document stays where it is, and among the nodes without a place *)
(* nothing changes: a gap has a size.                                      *)
LEMMA FreedStep ==
    ASSUME TreeInv, FreeDocument, UNCHANGED parentOf
    PROVE  LinksTellAges' /\ HandedOutInOrder'
<1>0. IInv /\ LinksTellAges /\ HandedOutInOrder
  BY DEF TreeInv
<1>1. /\ Top.id \in Ids /\ inode[Top.id].status = CLOSE /\ inode'[Top.id].status = REMOVE
      /\ inode'[Top.id].pos = inode[Top.id].pos
      /\ \A i \in Ids \ {Top.id} : inode'[i] = inode[i]
      /\ UNCHANGED <<disk, parentOf>>
  BY <1>0, FreesOne
<1>2. Placed' = Placed
  BY <1>1, Basics, <1>0 DEF Placed
<1>3. \A i \in Ids : Child(i)' = Child(i) /\ Brother(i)' = Brother(i)
  <2>1. \A i \in Ids : inode'[i].pos = inode[i].pos
    BY <1>1
  <2> QED
    BY <1>1, <2>1 DEF Child, Brother, MetaOf
<1> DEFINE After(q) == {j \in Placed' : parentOf'[j] = q}
<1>4. LinksTellAges'
  <2>1. \A q : After(q) = Under(q)
    BY <1>1, <1>2 DEF Under
  <2> HIDE DEF After
  <2>2. \A q \in Placed' : Child(q)' = Newest(After(q))
    BY <1>0, <1>2, <1>3, <2>1 DEF LinksTellAges, Placed
  <2>3. ASSUME NEW i \in Placed'
        PROVE  Brother(i)' = IF parentOf'[i] = NoDoc THEN NoDoc
                             ELSE Newest({j \in After(parentOf'[i]) : j < i})
    <3>1. {j \in After(parentOf'[i]) : j < i} = {j \in Under(parentOf[i]) : j < i}
      BY <1>1, <2>1
    <3> QED
      BY <1>0, <1>1, <1>2, <1>3, <3>1 DEF LinksTellAges, Placed
  <2>4. parentOf' \in [Ids -> Links] /\ \A i \in Placed' : parentOf'[i] \in Placed' \cup {NoDoc}
    BY <1>0, <1>1, <1>2 DEF LinksTellAges
  <2> QED
    BY <2>2, <2>3, <2>4 DEF LinksTellAges, Under, After
<1>5. PICK l \in Seq(Nodes(Ids)), node \in Nodes(Ids) :
         l = list /\ node.size > 0 /\ list' = InsertNode(l, node)
  <2>1. Top.id \in Placed
    BY <1>0, <1>1, Basics DEF Placed
  <2>2. MetaOf(Top.id).size \in Nat \ {0}
    BY <1>0, <2>1, BlockOf
  <2>3. list \in Seq(Nodes(Ids)) /\ CreateNode(Top.id, MetaOf(Top.id).size) \in Nodes(Ids)
    BY <1>0, <1>1, <2>2 DEF IInv, TypeOK, Nodes, CreateNode
  <2> QED
    BY <2>2, <2>3 DEF CreateNode, FreeDocument
<1>6. DescendsWithoutPlace(list')
  <2>1. DescendsWithoutPlace(l)
    BY <1>0, <1>5 DEF HandedOutInOrder, DescendsWithoutPlace
  <2> QED
    BY <1>5, <2>1, InsertKeepsDescent
<1>7. HandedOutInOrder'
  BY <1>0, <1>2, <1>6 DEF HandedOutInOrder, DescendsWithoutPlace
<1> QED
  BY <1>4, <1>7

(* The tree stays as the invariant says, whatever is inserted or deleted.  *)
LEMMA TreeStepInvariant ==
    ASSUME TreeInv, [TreeNext]_treeVars
    PROVE  TreeInv'
<1>1. IInv /\ LinksTellAges /\ HandedOutInOrder
  BY DEF TreeInv
<1>2. [Next]_vars
  BY DEF TreeNext, treeVars, Next, vars, InsertNowhere, InsertInNewPlace, DeleteTree, DeleteTreeStep
<1>3. IInv'
  BY <1>1, <1>2, StepInvariant
<1>4. ASSUME UNCHANGED <<inode, disk, list, parentOf>>
      PROVE  LinksTellAges' /\ HandedOutInOrder'
  BY <1>1, <1>4 DEF LinksTellAges, HandedOutInOrder, Under, Placed, Child, Brother, MetaOf
<1>5. LinksTellAges' /\ HandedOutInOrder'
  <2>1. CASE \E parent \in Links, d \in Documents : InsertInNewPlace(parent, d)
    BY <2>1, NewPlaceStep
  <2>2. CASE FreeDocument /\ UNCHANGED parentOf
    BY <2>2, FreedStep
  <2>3. CASE \/ \E parent \in Ids : InsertNowhere(parent)
             \/ \E id \in Ids : DeleteTree(id)
             \/ DeleteTreeStep /\ ~FreeDocument
             \/ UNCHANGED treeVars
    BY <1>4, <2>3
       DEF InsertNowhere, InsertRejected, DeleteTree, DeleteDocument, DeleteTreeStep, DeleteStep,
           DeleteRejected, DeleteChild, RetryChild, GiveUp, Call, treeVars
  <2> QED
    BY <2>1, <2>2, <2>3 DEF TreeNext, DeleteTreeStep
<1> QED
  BY <1>3, <1>5 DEF TreeInv

(* An empty file satisfies the invariant of the tree.                      *)
LEMMA TreeInitInvariant ==
    ASSUME TreeInit
    PROVE  TreeInv
<1>1. IInv
  BY InitInvariant DEF TreeInit
<1>2. Placed = {} /\ parentOf = [i \in Ids |-> NoDoc]
  BY DocFileAssumption DEF TreeInit, Init, Placed
<1>3. LinksTellAges
  BY <1>2 DEF LinksTellAges, Links
<1>4. HandedOutInOrder
  <2>1. C_DEFAULT \in Nat /\ list = [k \in 1..C_DEFAULT |-> CreateNode(C_DEFAULT - k, 0)]
    BY DocFileAssumption DEF TreeInit, Init
  <2>2. DOMAIN list = 1..C_DEFAULT /\ \A k \in 1..C_DEFAULT : list[k].index = C_DEFAULT - k
    BY <2>1 DEF CreateNode
  <2>3. \A j, k \in 1..C_DEFAULT : j < k => C_DEFAULT - j > C_DEFAULT - k
    BY <2>1
  <2> QED
    BY <1>2, <2>2, <2>3 DEF HandedOutInOrder
<1> QED
  BY <1>1, <1>3, <1>4 DEF TreeInv

(* Parents, links and the order of the free inodes fit in every state.     *)
THEOREM TreeInvariance == TreeSpec => []TreeInv
<1>1. TreeInit => TreeInv
  BY TreeInitInvariant
<1>2. TreeInv /\ [TreeNext]_treeVars => TreeInv'
  BY TreeStepInvariant
<1> QED
  BY <1>1, <1>2, PTL DEF TreeSpec

-----------------------------------------------------------------------------
(* A walk from the child of p along the brothers stays under p, and cannot *)
(* leave out any document there: the newest one left out is the child of p *)
(* or the brother of the one inserted after it.                            *)
LEMMA WalkMeetsAll ==
    ASSUME TreeInv, NEW p \in Placed
    PROVE  Met(p) = Under(p)
<1>1. /\ LinksTellAges /\ NoDoc \notin Ids /\ Placed \subseteq Ids /\ Under(p) \in SUBSET Ids
      /\ C_DEFAULT - 1 \in Nat /\ Ids = 0..(C_DEFAULT - 1)
  BY DocFileAssumption DEF TreeInv, Placed, Under, Ids, NoDoc
<1>2. Child(p) = Newest(Under(p))
  BY <1>1 DEF LinksTellAges
<1>3. \A i \in Under(p) : Brother(i) = Newest({j \in Under(p) : j < i})
  BY <1>1 DEF LinksTellAges, Under
<1>4. ASSUME NEW a \in Met(p) PROVE a \in Under(p)
  <2>1. Under(p) \in SUBSET Placed
    BY DEF Under
  <2>2. Child(p) \in Under(p) \cup {NoDoc}
    BY <1>1, <1>2, NewestOf
  <2>3. ASSUME NEW i \in Under(p) PROVE Brother(i) \in Under(p) \cup {NoDoc}
    <3>1. {j \in Under(p) : j < i} \in SUBSET Ids
      BY <1>1
    <3>2. Newest({j \in Under(p) : j < i}) \in {j \in Under(p) : j < i} \cup {NoDoc}
      BY <3>1, NewestOf
    <3> QED
      BY <1>3, <3>2
  <2> QED
    BY <1>4, <2>1, <2>2, <2>3 DEF Met
<1>5. ASSUME NEW S \in SUBSET Placed,
             Child(p) \in S \cup {NoDoc}, \A j \in S : Brother(j) \in S \cup {NoDoc}
      PROVE  Under(p) \subseteq S
  <2> SUFFICES ASSUME Under(p) \ S # {} PROVE FALSE
    OBVIOUS
  <2>1. PICK a \in Under(p) \ S : \A i \in Under(p) \ S : i <= a
    <3>1. Under(p) \ S \in SUBSET (0..(C_DEFAULT - 1))
      BY <1>1
    <3> QED
      BY <1>1, <3>1, GreatestElement
  <2>2. a \in Ids /\ a # NoDoc
    BY <1>1
  <2> DEFINE Later == {j \in Under(p) : a < j}
  <2>3. CASE Later = {}
    <3>1. \A i \in Under(p) : i <= a
      BY <1>1, <2>3
    <3>2. Newest(Under(p)) = a
      BY <1>1, <3>1, NewestIs
    <3> QED
      BY <1>2, <1>5, <2>2, <3>2
  <2>4. CASE Later # {}
    <3>1. PICK b \in Later : \A j \in Later : b <= j
      <4>1. Later \in SUBSET Nat
        BY <1>1
      <4> QED
        BY <2>4, <4>1, LeastElement
    <3>2. b \in Under(p) /\ a < b /\ b \in S
      BY <1>1, <2>1, <3>1
    <3>3. Newest({j \in Under(p) : j < b}) = a
      <4>1. \A j \in {j \in Under(p) : j < b} : j <= a
        BY <1>1, <3>1
      <4>2. a \in {j \in Under(p) : j < b} /\ {j \in Under(p) : j < b} \in SUBSET Ids
        BY <1>1, <3>2
      <4> QED
        BY <4>1, <4>2, NewestIs
    <3>4. Brother(b) = a
      BY <1>3, <3>2, <3>3
    <3> QED
      BY <1>5, <2>1, <2>2, <3>2, <3>4
  <2> QED
    BY <2>3, <2>4
<1>6. ASSUME NEW a \in Under(p) PROVE a \in Met(p)
  BY <1>5 DEF Met, Under
<1> QED
  BY <1>4, <1>6

(* insertDocument keeps the documents of the tree together: the links of a *)
(* block lead to every document inserted under it and to no other.         *)
THEOREM LinksHoldTheTree == TreeSpec => []SiblingsExact
<1>1. ASSUME TreeInv
      PROVE  SiblingsExact
  <2>1. ASSUME NEW i \in Placed
        PROVE  Brother(i) < i
    <3>1. i \in Nat /\ NoDoc < i
      BY DocFileAssumption DEF Placed, Ids, NoDoc
    <3>2. CASE parentOf[i] = NoDoc
      BY <1>1, <3>1, <3>2 DEF TreeInv, LinksTellAges
    <3>3. CASE parentOf[i] # NoDoc
      <4> DEFINE Earlier == {j \in Under(parentOf[i]) : j < i}
      <4>1. Brother(i) = Newest(Earlier)
        BY <1>1, <3>3 DEF TreeInv, LinksTellAges
      <4>2. Newest(Earlier) \in Earlier \cup {NoDoc}
        <5>1. Earlier \in SUBSET Ids
          BY DEF Under, Placed
        <5> QED
          BY <5>1, NewestOf
      <4> QED
        BY <3>1, <4>1, <4>2
    <3> QED
      BY <3>2, <3>3
  <2> QED
    BY <1>1, <2>1, WalkMeetsAll DEF SiblingsExact
<1> QED
  BY <1>1, TreeInvariance, PTL

(* deleteDocument and deleteSameLevelDocuments call each other for         *)
(* children only, and a child link leads to a document inserted below: no  *)
(* document outside the tree under the target is ever freed.               *)
THEOREM DeletionStaysBelow == TreeSpec => []DeletesBelowTarget
<1>1. ASSUME TreeInv, NEW k \in DOMAIN stack, stack[k].at # "enter"
      PROVE  stack[1].id \in Ancestors(stack[k].id)
  <2>1. IInv /\ Bookkeeping /\ LinksTellAges
    BY <1>1, IInvBooks DEF TreeInv
  <2>2. ~Idle /\ Len(stack) \in Nat \ {0} /\ k \in 1..Len(stack)
    <3>1. Len(stack) \in Nat /\ DOMAIN stack = 1..Len(stack)
      BY <2>1, LenProperties DEF IInv, TypeOK
    <3>2. stack # << >>
      BY <1>1, <3>1
    <3> QED
      BY <2>1, <3>1, <3>2, StackFacts DEF Idle
  <2>3. \A j \in 1..k : stack[j].id \in Placed
    <3>1. \A j \in 1..k : j \in 1..Len(stack) /\ (j < Len(stack) \/ j = k)
      BY <2>2
    <3> QED
      BY <1>1, <2>1, <2>2, <3>1, FrameInUse
  <2>4. \A j \in 1..(k - 1) : stack[j + 1].id = Child(stack[j].id)
    <3>1. \A j \in 1..(k - 1) : j \in 1..Len(stack) /\ j < Len(stack)
      BY <2>2
    <3> QED
      BY <2>1, <2>2, <3>1, FrameInUse
  <2>5. \A j \in 1..(k - 1) : parentOf[stack[j + 1].id] = stack[j].id
    <3> SUFFICES ASSUME NEW j \in 1..(k - 1) PROVE parentOf[stack[j + 1].id] = stack[j].id
      OBVIOUS
    <3>1. j \in 1..k /\ j + 1 \in 1..k
      BY <2>2
    <3>2. stack[j].id \in Placed /\ stack[j + 1].id \in Placed
      BY <2>3, <3>1
    <3>3. stack[j + 1].id = Newest(Under(stack[j].id)) /\ Under(stack[j].id) \in SUBSET Ids
      BY <2>1, <2>4, <3>2 DEF LinksTellAges, Under, Placed
    <3>4. stack[j + 1].id # NoDoc
      BY <2>1, <3>2, Basics DEF Placed
    <3>5. stack[j + 1].id \in Under(stack[j].id)
      BY <3>3, <3>4, NewestOf
    <3> QED
      BY <3>5 DEF Under
  <2>6. ASSUME NEW S \in SUBSET Ids, stack[k].id \in S,
               \A i \in S : parentOf[i] \in S \cup {NoDoc}
        PROVE  stack[1].id \in S
    <3> DEFINE Out == {j \in 0..k : j # 0 /\ stack[j].id \notin S}
    <3> SUFFICES ASSUME Out # {} PROVE FALSE
      BY <2>2
    <3>1. PICK m \in Out : \A j \in Out : j <= m
      <4>1. k \in Nat /\ Out \in SUBSET (0..k)
        BY <2>2
      <4> QED
        BY <4>1, GreatestElement
    <3>2. m \in 1..(k - 1) /\ m + 1 \in 1..k /\ m + 1 \notin Out
      BY <2>2, <2>6, <3>1
    <3>3. stack[m + 1].id \in S
      BY <3>2
    <3>4. stack[m].id # NoDoc
      <4>1. m \in 1..k
        BY <3>2, <2>2
      <4> QED
        BY <2>1, <2>3, <4>1, Basics DEF Placed
    <3> QED
      BY <2>5, <2>6, <3>1, <3>2, <3>3, <3>4
  <2>7. stack[1].id \in Ids
    <3>1. 1 \in 1..k
      BY <2>2
    <3> QED
      BY <2>3, <3>1 DEF Placed
  <2> QED
    BY <2>6, <2>7 DEF Ancestors
<1>2. TreeInv => DeletesBelowTarget
  BY <1>1 DEF DeletesBelowTarget
<1> QED
  BY <1>2, TreeInvariance, PTL
=============================================================================
