-------------------------- MODULE InodeReuseProofs --------------------------
(***************************************************************************)
(* The growth of the inode table among deletions: gaps are filled again,   *)
(* lie in the way, are given to documents that must move, and inodes get   *)
(* lost from the list.  Still no inode in use is listed and every document *)
(* reads back as it was inserted, for every number of inodes, every size   *)
(* of an inode and every set of documents.                                 *)
(***************************************************************************)
EXTENDS InodeGrowthProofs

(* The cells of the document of inode i, in use or removed.                *)
Block(i) == inode[i].pos..(inode[i].pos + MetaOf(i).size - 1)

(* Every inode that has a place leads to its own block, and no two blocks  *)
(* share a cell.  (What an inode reserves may reach into another block     *)
(* once its document has moved to a smaller gap.)                          *)
BlocksKept ==
    /\ Placed \subseteq Table
    /\ \A i \in Placed : /\ MetaOf(i) \in Metas /\ MetaOf(i).id = i
                         /\ MetaOf(i).size = DocSize[MetaOf(i).doc]
                         /\ Block(i) \subseteq Begin..(header.endPosition - 1)
    /\ \A i, j \in Placed : i # j => Block(i) \cap Block(j) = {}
    /\ DataStart <= TableEnd /\ TableEnd <= Begin /\ Begin <= header.endPosition

(* Where the loop may still read, what looks like a block is the block of  *)
(* an inode: none is left behind by a move or under another document.      *)
(* (A growth that fails leaves those it has moved behind.)                 *)
NoStaleBlock ==
    growth.at # "failed" =>
        \A a \in DataArea : a >= Begin /\ disk[a] \in Metas =>
            \E i \in Placed : inode[i].pos = a

(* The cells behind the block of a document in use are its elements.       *)
CellsIntact ==
    \A i \in Live : \A k \in 2..MetaOf(i).size :
        disk[inode[i].pos + k - 1] = [doc |-> MetaOf(i).doc, at |-> k]

(* The list may miss inodes, but what it says of those it has is true.     *)
ListSound ==
    /\ \A node \in NodesOn(list) : NodeMatches(node)
    /\ Once(list) /\ Sorted(list)

(* A growth and a deletion never run at the same time.                     *)
OneCall ==
    /\ growth # NoGrowth => stack = << >>
    /\ growth.at # "failed" => NoChildCycle
    /\ StackChained
    /\ backNull => growth # NoGrowth

(* An inode without a place is at hand, or the back of the list is lost.   *)
UnplacedAtHand == backNull \/ \E node \in NodesOn(list) : node.size = 0

(* What the loops of reallocateNewInode and writeNewListNode can rely on.  *)
GrowthMayRely ==
    /\ growth.at = "moving" =>
          /\ AcceptsParent(growth.parent)
          /\ growth.pos = TableEnd + growth.space
          /\ firstPosition <= growth.space
          /\ growth.space < NeededSpace + DocSize[CHOOSE d \in Documents : IsLargest(d)]
          /\ header.count + LargestGrowth <= MaxInodes
    /\ growth.at = "listing" =>
          /\ AcceptsParent(growth.parent)
          /\ header.count + growth.left <= MaxInodes
          /\ UnplacedAtHand \/ growth.left > 0
    /\ growth.at = "grown" =>
          /\ AcceptsParent(growth.parent)
          /\ UnplacedAtHand

ReuseInv ==
    /\ GrowthTypeOK /\ BlocksKept /\ NoStaleBlock /\ CellsIntact
    /\ ListSound /\ OneCall /\ GrowthMayRely

-----------------------------------------------------------------------------
(* What a cell of the data area may hold; only a meta_t is taken for one.  *)
Cells == Metas \cup Elements \cup {TableCell}

(* Neither the bytes of an inode nor an element passes for a block.        *)
LEMMA OnlyBlocksAreBlocks ==
    /\ TableCell \notin Metas
    /\ \A d \in Documents, k \in Nat : [doc |-> d, at |-> k] \notin Metas
<1>1. \A m \in Metas : m.id \in Ids /\ "id" \in DOMAIN m
  BY DEF Metas
<1>2. "id" \notin DOMAIN TableCell
  BY DEF TableCell
<1>3. \A d \in Documents, k \in Nat : "id" \notin DOMAIN [doc |-> d, at |-> k]
  OBVIOUS
<1> QED
  BY <1>1, <1>2, <1>3

(* The growth in progress, field by field. *)
LEMMA ReuseGrowthFields ==
    ASSUME ReuseInv
    PROVE  /\ growth.at \in {"none", "moving", "listing", "grown", "crashed", "failed"}
           /\ growth.at = "none" <=> growth = NoGrowth
           /\ growth.at = "moving" => growth.pos \in Nat /\ growth.space \in Nat
           /\ growth.at = "listing" => growth.left \in Nat
           /\ growth.at \in {"moving", "listing", "grown"} =>
                 growth.parent \in Links /\ growth.doc \in Documents
  BY DEF ReuseInv, GrowthTypeOK, Growths, NoGrowth

(* What the invariant says of numbers, inodes and the list. *)
LEMMA ReuseFacts ==
    ASSUME ReuseInv
    PROVE  /\ header \in Headers /\ header.count \in Nat /\ header.count <= MaxInodes
           /\ header.endPosition \in Nat /\ header.root \in Links
           /\ firstPosition \in 0..(InodeSize - 1)
           /\ TableEnd \in Nat /\ FirstBlock \in Nat /\ Begin \in Nat
           /\ DataStart <= TableEnd /\ TableEnd <= Begin /\ Begin <= header.endPosition
           /\ DataStart \in Nat /\ DataStart <= Begin
           /\ Table \subseteq Ids /\ Placed \subseteq Table /\ Live \subseteq Placed
           /\ inode \in [Ids -> Inodes]
           /\ \A i \in Ids : /\ inode[i].status \in {OPEN, CLOSE, REMOVE}
                             /\ inode[i].pos \in Nat /\ inode[i].size \in Nat
           /\ disk \in [DataArea -> Cells]
           /\ stack \in Seq(Frames) /\ result \in BOOLEAN /\ backNull \in BOOLEAN
           /\ list \in Seq(Nodes(Table)) /\ Once(list) /\ Sorted(list)
           /\ \A node \in NodesOn(list) :
                 node.index \in Table /\ node.size \in Nat /\ NodeMatches(node)
<1>1. /\ header \in Headers /\ header.count \in Nat /\ header.count <= MaxInodes
      /\ header.endPosition \in Nat /\ header.root \in Links
      /\ firstPosition \in 0..(InodeSize - 1)
      /\ inode \in [Ids -> Inodes]
      /\ disk \in [DataArea -> Cells]
      /\ stack \in Seq(Frames) /\ result \in BOOLEAN /\ backNull \in BOOLEAN
  BY DEF ReuseInv, GrowthTypeOK, Headers, Cells
<1>2. TableEnd \in Nat /\ FirstBlock \in Nat
  <2>1. PICK cells \in Nat : cells = InodeSize * header.count
    BY <1>1, Constants, Multiples
  <2>2. TableEnd = HeadSize + cells /\ FirstBlock = HeadSize + cells + firstPosition
    BY <2>1 DEF TableEnd, FirstBlock
  <2> QED
    BY <1>1, <2>2, Constants
<1>3. Begin \in Nat
  <2>1. growth.at = "listing" => InodeSize * growth.left \in Nat
    BY Constants, ReuseGrowthFields, Multiples
  <2> QED
    BY <1>2, <2>1, ReuseGrowthFields DEF Begin
<1>4. /\ DataStart <= TableEnd /\ TableEnd <= Begin /\ Begin <= header.endPosition
      /\ Placed \subseteq Table
  BY DEF ReuseInv, BlocksKept
<1>5. DataStart \in Nat /\ DataStart <= Begin
  <2>1. DataStart \in Nat
    BY Constants
  <2> QED
    BY ONLY <1>2, <1>3, <1>4, <2>1
<1>6. Table \subseteq Ids
  BY <1>1, Constants DEF Table
<1>7. \A i \in Ids : /\ inode[i].status \in {OPEN, CLOSE, REMOVE}
                     /\ inode[i].pos \in Nat /\ inode[i].size \in Nat
  BY <1>1 DEF Inodes
<1>8. Live \subseteq Placed
  BY Constants DEF Live, Placed
<1>9. list \in Seq(Nodes(Table))
  BY DEF ReuseInv, GrowthTypeOK, Nodes
<1>10. \A node \in NodesOn(list) : node.index \in Table /\ node.size \in Nat
  <2>1. list \in [1..Len(list) -> Nodes(Table)]
    BY <1>9, LenProperties
  <2> QED
    BY <2>1 DEF NodesOn, Nodes
<1>11. Once(list) /\ Sorted(list) /\ \A node \in NodesOn(list) : NodeMatches(node)
  BY DEF ReuseInv, ListSound
<1> QED
  BY <1>1, <1>2, <1>3, <1>4, <1>5, <1>6, <1>7, <1>8, <1>9, <1>10, <1>11

(* What the invariant says of the block of an inode that has a place. *)
LEMMA PlacedBlock ==
    ASSUME ReuseInv, NEW i \in Placed
    PROVE  /\ i \in Ids /\ i \in Table /\ inode[i].status \in {CLOSE, REMOVE}
           /\ MetaOf(i) \in Metas /\ MetaOf(i).id = i
           /\ MetaOf(i).size \in Nat \ {0} /\ MetaOf(i).doc \in Documents
           /\ MetaOf(i).size = DocSize[MetaOf(i).doc]
           /\ MetaOf(i).size <= DocSize[CHOOSE d \in Documents : IsLargest(d)]
           /\ Child(i) \in Links
           /\ inode[i].pos \in Nat /\ inode[i].pos \in Block(i) /\ inode[i].pos \in DataArea
           /\ Begin <= inode[i].pos
           /\ inode[i].pos + MetaOf(i).size <= header.endPosition
           /\ Block(i) \subseteq DataArea
<1>1. i \in Ids /\ i \in Table /\ inode[i].status \in {CLOSE, REMOVE}
  BY ReuseFacts DEF Placed
<1>2. /\ MetaOf(i) \in Metas /\ MetaOf(i).id = i /\ MetaOf(i).size = DocSize[MetaOf(i).doc]
      /\ Block(i) \subseteq Begin..(header.endPosition - 1)
  BY DEF ReuseInv, BlocksKept
<1>3. MetaOf(i).size \in Nat \ {0} /\ MetaOf(i).doc \in Documents /\ MetaOf(i).child \in Links
  BY <1>2 DEF Metas
<1>4. MetaOf(i).size <= DocSize[CHOOSE d \in Documents : IsLargest(d)]
  BY <1>2, <1>3, Constants
<1>5. PICK p \in Nat, z \in Nat \ {0} : p = inode[i].pos /\ z = MetaOf(i).size
  BY <1>1, <1>3, ReuseFacts
<1>6. p \in p..(p + z - 1) /\ p + z - 1 \in p..(p + z - 1)
  OBVIOUS
<1>7. Block(i) = p..(p + z - 1)
  BY <1>5 DEF Block
<1>8. PICK b \in Nat, e \in Nat : b = Begin /\ e = header.endPosition
  BY ReuseFacts
<1>9. b <= p /\ p + z <= e
  BY ONLY <1>2, <1>6, <1>7, <1>8, p \in Nat, z \in Nat \ {0}, b \in Nat, e \in Nat
<1>10. Block(i) \subseteq DataArea
  <2>1. DataStart \in Nat /\ DataStart <= b
    BY <1>8, ReuseFacts
  <2> QED
    BY ONLY <1>7, <1>8, <1>9, <2>1, p \in Nat, z \in Nat \ {0}, b \in Nat, e \in Nat DEF DataArea
<1> QED
  BY <1>1, <1>2, <1>3, <1>4, <1>5, <1>6, <1>7, <1>8, <1>9, <1>10 DEF Child

(* Two blocks share no cell. *)
LEMMA NothingShared ==
    ASSUME ReuseInv, NEW i \in Placed, NEW j \in Placed, i # j
    PROVE  Block(i) \cap Block(j) = {} /\ inode[i].pos \notin Block(j)
<1>1. Block(i) \cap Block(j) = {}
  BY DEF ReuseInv, BlocksKept
<1> QED
  BY <1>1, PlacedBlock

(* The cells of a block, one by one. *)
LEMMA CellOfBlock ==
    ASSUME ReuseInv, NEW i \in Placed, NEW k \in 1..MetaOf(i).size
    PROVE  inode[i].pos + k - 1 \in Block(i)
<1>1. PICK p \in Nat, z \in Nat \ {0} : p = inode[i].pos /\ z = MetaOf(i).size
  BY PlacedBlock
<1>2. k \in 1..z /\ Block(i) = p..(p + z - 1)
  BY <1>1 DEF Block
<1>3. p + k - 1 \in p..(p + z - 1)
  BY ONLY <1>2, p \in Nat, z \in Nat \ {0}
<1> QED
  BY <1>1, <1>2, <1>3

(* createFile: no inode has a place, and all of them are listed. *)
LEMMA ReuseInitInvariant ==
    ASSUME GrowthInit
    PROVE  ReuseInv
<1>1. GrowInv
  BY GrowInitInvariant
<1>2. /\ \A i \in Ids : inode[i].status = OPEN
      /\ stack = << >> /\ growth = NoGrowth /\ growth.at = "none" /\ backNull = FALSE
      /\ header.endPosition = DataStart
  BY DEF GrowthInit, NoGrowth
<1>3. Placed = {} /\ Live = {} /\ DataArea = {}
  <2>1. DataStart \in Nat
    BY Constants
  <2>2. DataArea = {}
    BY ONLY <1>2, <2>1 DEF DataArea
  <2> QED
    BY <1>2, <2>2, Constants DEF Placed, Live
<1>4. GrowthTypeOK
  BY <1>1 DEF GrowInv
<1>5. BlocksKept
  BY <1>1, <1>3 DEF BlocksKept, GrowInv, BlocksTiled
<1>6. NoStaleBlock /\ CellsIntact
  BY <1>3 DEF NoStaleBlock, CellsIntact
<1>7. ListSound
  <2>1. /\ DOMAIN list = 1..Len(list) /\ Once(list)
        /\ \A k \in 1..Len(list) : list[k].index \in Ids /\ list[k].size = 0
    BY <1>1, Facts, ListFacts
  <2>2. Sorted(list)
    BY <2>1 DEF Sorted
  <2>3. \A node \in NodesOn(list) : NodeMatches(node)
    BY <1>2, <2>1 DEF NodesOn, NodeMatches
  <2> QED
    BY <2>1, <2>2, <2>3 DEF ListSound
<1>8. OneCall
  BY <1>2, <1>3 DEF OneCall, NoChildCycle, StackChained
<1>9. GrowthMayRely
  BY <1>2 DEF GrowthMayRely
<1> QED
  BY <1>4, <1>5, <1>6, <1>7, <1>8, <1>9 DEF ReuseInv

(* A step that leaves the inodes, the blocks and the list alone. *)
LEMMA FileUntouched ==
    ASSUME ReuseInv, UNCHANGED <<header, inode, disk, list>>, Begin' = Begin,
           growth.at = "failed" => growth'.at = "failed",
           diskHeader' \in Headers, stack' \in Seq(Frames), result' \in BOOLEAN,
           firstPosition' \in 0..(InodeSize - 1), backNull' \in BOOLEAN,
           growth' \in Growths, OneCall', GrowthMayRely'
    PROVE  /\ ReuseInv'
           /\ Live' = Live /\ \A j \in Placed : MetaOf(j)' = MetaOf(j)
<1>1. /\ TableEnd' = TableEnd /\ Table' = Table /\ Live' = Live /\ Placed' = Placed
      /\ DataArea' = DataArea
      /\ \A j \in Ids : MetaOf(j)' = MetaOf(j) /\ Block(j)' = Block(j)
  BY DEF TableEnd, Table, Live, Placed, DataArea, MetaOf, Block
<1>2. Live \subseteq Ids /\ Placed \subseteq Ids
  BY DEF Live, Placed
<1>3. GrowthTypeOK'
  BY <1>1 DEF ReuseInv, GrowthTypeOK
<1>4. BlocksKept'
  <2>1. \A j \in Placed : /\ MetaOf(j)' \in Metas /\ MetaOf(j)'.id = j
                          /\ MetaOf(j)'.size = DocSize[MetaOf(j)'.doc]
                          /\ Block(j)' \subseteq Begin..(header.endPosition - 1)
    BY <1>1, <1>2 DEF ReuseInv, BlocksKept
  <2>2. \A j, k \in Placed : j # k => Block(j)' \cap Block(k)' = {}
    BY <1>1, <1>2 DEF ReuseInv, BlocksKept
  <2> QED
    BY <1>1, <2>1, <2>2 DEF ReuseInv, BlocksKept
<1>5. NoStaleBlock'
  BY <1>1 DEF ReuseInv, NoStaleBlock
<1>6. CellsIntact'
  BY <1>1, <1>2 DEF ReuseInv, CellsIntact
<1>7. ListSound'
  BY DEF ReuseInv, ListSound, NodesOn, NodeMatches, MetaOf, Once, Sorted
<1> QED
  BY <1>1, <1>2, <1>3, <1>4, <1>5, <1>6, <1>7 DEF ReuseInv

-----------------------------------------------------------------------------
(* What looks like a block to the loop of reallocateNewInode is one: it    *)
(* belongs to the inode it names.                                          *)
LEMMA BlockRead ==
    ASSUME ReuseInv, Moving, OnBlock
    PROVE  /\ InWay.id \in Placed /\ InWay = MetaOf(InWay.id)
           /\ inode[InWay.id].pos = growth.pos /\ Begin = growth.pos
<1>1. /\ growth.at = "moving" /\ Begin = growth.pos /\ growth.pos \in DataArea
      /\ disk[growth.pos] \in Metas
  BY ReuseFacts DEF Moving, Begin, OnBlock
<1>2. growth.pos >= Begin
  BY <1>1, ReuseGrowthFields
<1>3. PICK i \in Placed : inode[i].pos = growth.pos
  BY <1>1, <1>2 DEF ReuseInv, NoStaleBlock
<1>4. InWay = MetaOf(i)
  BY <1>3 DEF InWay, MetaOf
<1> QED
  BY <1>1, <1>3, <1>4, PlacedBlock

(* Past that block the loop still knows what it knew. *)
LEMMA AdvanceKeeps ==
    ASSUME ReuseInv, Moving, OnBlock, Advance, header'.count = header.count, Live' = Live,
           firstPosition' = firstPosition
    PROVE  /\ growth' \in Growths /\ growth'.at = "moving" /\ growth' # NoGrowth
           /\ growth'.pos = growth.pos + InWay.size /\ Begin' = growth'.pos
           /\ TableEnd' = TableEnd /\ Table' = Table
           /\ GrowthMayRely'
<1>1. PICK p \in Nat, s \in Nat : p = growth.pos /\ s = growth.space /\ growth.at = "moving"
  BY ReuseGrowthFields DEF Moving
<1>2. PICK z \in Nat \ {0} : z = InWay.size /\ z <= DocSize[CHOOSE d \in Documents : IsLargest(d)]
  BY BlockRead, PlacedBlock
<1>3. growth' = [growth EXCEPT !.pos = p + z, !.space = s + z]
  BY <1>1, <1>2 DEF Advance
<1>4. /\ growth \in [at : {"moving"}, pos : Nat, space : Nat, parent : Links, doc : Documents]
      /\ growth.parent \in Links /\ growth.doc \in Documents
  BY <1>1 DEF ReuseInv, GrowthTypeOK, Growths, NoGrowth
<1>5. /\ growth' \in [at : {"moving"}, pos : Nat, space : Nat, parent : Links, doc : Documents]
      /\ growth'.at = "moving" /\ growth'.pos = p + z /\ growth'.space = s + z
      /\ growth'.parent = growth.parent /\ growth'.doc = growth.doc
  <2>1. p + z \in Nat /\ s + z \in Nat
    BY ONLY p \in Nat, s \in Nat, z \in Nat \ {0}
  <2> QED
    BY ONLY <1>3, <1>4, <2>1
<1>6. growth' \in Growths /\ growth' # NoGrowth /\ Begin' = growth'.pos
  BY <1>5 DEF Growths, NoGrowth, Begin
<1>7. TableEnd' = TableEnd /\ Table' = Table
  BY DEF TableEnd, Table
<1>8. AcceptsParent(growth.parent) => AcceptsParent(growth.parent)'
  <2>1. \A i \in Ids : (inode'[i].status = CLOSE) <=> (inode[i].status = CLOSE)
    BY DEF Live
  <2>2. growth'.parent = growth.parent /\ OPEN # CLOSE
    BY <1>5, Constants
  <2> QED
    BY ONLY <2>1, <2>2 DEF AcceptsParent, Status
<1>9. GrowthMayRely'
  <2>1. /\ AcceptsParent(growth.parent)
        /\ p = TableEnd + s /\ header.count + LargestGrowth <= MaxInodes
        /\ firstPosition <= s
    BY <1>1 DEF ReuseInv, GrowthMayRely
  <2>2. p + z = TableEnd + (s + z)
    BY <2>1, ReuseFacts
  <2>4. firstPosition' <= s + z
    <3>1. firstPosition \in Nat
      BY ReuseFacts, Constants
    <3> QED
      BY ONLY <2>1, <3>1, firstPosition' = firstPosition, s \in Nat, z \in Nat \ {0}
  <2>3. s + z < NeededSpace + DocSize[CHOOSE d \in Documents : IsLargest(d)]
    <3>1. s < NeededSpace /\ NeededSpace \in Nat
      BY <1>1, Constants DEF Moving
    <3>2. DocSize[CHOOSE d \in Documents : IsLargest(d)] \in Nat
      BY Constants
    <3> QED
      BY ONLY <1>2, <3>1, <3>2, s \in Nat
  <2> QED
    BY <1>5, <1>7, <1>8, <2>1, <2>2, <2>3, <2>4 DEF GrowthMayRely, AcceptsParent, Status
<1> QED
  BY <1>1, <1>2, <1>5, <1>6, <1>7, <1>9

(* A move within a growth neither closes a cycle of child links nor calls. *)
LEMMA MoveKeepsCalls ==
    ASSUME ReuseInv, growth # NoGrowth, growth.at # "failed", growth' # NoGrowth,
           Placed' \subseteq Placed, \A j \in Placed' : MetaOf(j)' = MetaOf(j),
           stack' = stack
    PROVE  OneCall'
<1>1. stack = << >> /\ NoChildCycle
  BY DEF ReuseInv, OneCall
<1>2. StackChained'
  BY <1>1 DEF StackChained
<1>3. NoChildCycle'
  <2> SUFFICES ASSUME NEW S \in SUBSET Placed', S # {}
               PROVE  \E i \in S : Child(i)' \notin S
    BY DEF NoChildCycle
  <2>1. PICK i \in S : Child(i) \notin S
    BY <1>1 DEF NoChildCycle
  <2> QED
    BY <2>1 DEF Child
<1> QED
  BY <1>1, <1>2, <1>3 DEF OneCall

(* move: block i, where the documents begin, goes to cells behind it where *)
(* no block is left.  It keeps what is in it, and so does every other.     *)
LEMMA Relocated ==
    ASSUME ReuseInv, growth.at # "failed",
           NEW i \in Live, NEW p \in Nat, NEW z \in Nat \ {0}, NEW to \in Nat, NEW end \in Nat,
           Begin = p, inode[i].pos = p, MetaOf(i).size = z,
           header.endPosition <= end, header'.endPosition = end,
           p + z <= to, to + z <= end, DataArea' = DataArea \cup to..(to + z - 1),
           disk' = Moved(disk, p, to, z),
           Placed' \subseteq Placed, Live' = Live,
           inode'[i].pos = to, \A j \in Placed' \ {i} : inode'[j].pos = inode[j].pos,
           \A j \in Placed' \ {i} : Block(j) \cap to..(to + z - 1) = {},
           \A j \in Placed \ Placed' : inode[j].pos = to,
           Begin' = p + z, TableEnd' = TableEnd, Table' = Table
    PROVE  /\ disk' \in [DataArea' -> Cells]
           /\ BlocksKept' /\ NoStaleBlock' /\ CellsIntact'
           /\ \A j \in Placed' : MetaOf(j)' = MetaOf(j)
<1> DEFINE written == to..(to + z - 1)
<1>1. i \in Placed /\ i \in Placed' /\ CLOSE # OPEN
  BY ReuseFacts, Constants DEF Live, Placed
<1>2. /\ disk \in [DataArea -> Cells]
      /\ Block(i) = p..(p + z - 1) /\ Block(i) \subseteq DataArea
  BY <1>1, ReuseFacts, PlacedBlock DEF Block
<1>3. /\ disk' \in [DataArea' -> Cells]
      /\ \A a \in DataArea \ written : disk'[a] = disk[a]
      /\ \A k \in 1..z : disk'[to + k - 1] = disk[p + k - 1]
  <2>1. disk' = [a \in DataArea \cup written |->
                    IF a \in written THEN disk[p + (a - to)] ELSE disk[a]]
    BY <1>2 DEF Moved
  <2>2. \A a \in written : p + (a - to) \in DataArea
    <3>1. \A a \in written : p + (a - to) \in p..(p + z - 1)
      BY ONLY p \in Nat, to \in Nat, z \in Nat \ {0}
    <3> QED
      BY <1>2, <3>1
  <2>3. \A k \in 1..z : to + k - 1 \in written /\ p + ((to + k - 1) - to) = p + k - 1
    BY ONLY p \in Nat, to \in Nat, z \in Nat \ {0}
  <2>4. DataArea' = DataArea \cup written
    OBVIOUS
  <2> HIDE DEF written
  <2>5. disk' \in [DataArea' -> Cells]
    BY ONLY <1>2, <2>1, <2>2, <2>4
  <2>6. \A a \in DataArea \ written : disk'[a] = disk[a]
    BY ONLY <2>1
  <2>7. \A k \in 1..z : disk'[to + k - 1] = disk[p + k - 1]
    BY ONLY <2>1, <2>3
  <2> QED
    BY <2>5, <2>6, <2>7
<1>4. 1 \in 1..z /\ to + 1 - 1 = to /\ p + 1 - 1 = p
  BY ONLY p \in Nat, to \in Nat, z \in Nat \ {0}
<1>5. ASSUME NEW j \in Placed', j # i
      PROVE  /\ MetaOf(j)' = MetaOf(j) /\ Block(j)' = Block(j)
             /\ \A a \in Block(j) : disk'[a] = disk[a]
  <2>1. /\ j \in Placed /\ inode'[j].pos = inode[j].pos /\ Block(j) \cap written = {}
    BY <1>5
  <2>2. inode[j].pos \in Block(j) /\ Block(j) \subseteq DataArea
    BY <2>1, PlacedBlock
  <2>3. \A a \in Block(j) : disk'[a] = disk[a]
    BY <1>3, <2>1, <2>2
  <2>4. MetaOf(j)' = MetaOf(j)
    BY <2>1, <2>2, <2>3 DEF MetaOf
  <2> QED
    BY <2>1, <2>3, <2>4 DEF Block
<1>6. MetaOf(i)' = MetaOf(i) /\ Block(i)' = written
  <2>1. MetaOf(i)' = MetaOf(i)
    BY <1>3, <1>4 DEF MetaOf
  <2> QED
    BY <2>1 DEF Block
<1>7. \A j \in Placed' : MetaOf(j)' = MetaOf(j)
  BY <1>5, <1>6
<1>8. BlocksKept'
  <2>1. ASSUME NEW j \in Placed'
        PROVE  Block(j)' \subseteq (p + z)..(end - 1)
    <3>1. CASE j = i
      <4>1. written \subseteq (p + z)..(end - 1)
        BY ONLY p + z <= to, to + z <= end, p \in Nat, to \in Nat, z \in Nat \ {0}, end \in Nat
      <4> QED
        BY <1>6, <3>1, <4>1
    <3>2. CASE j # i
      <4>1. Block(j) \cap Block(i) = {} /\ Block(j) \subseteq Begin..(header.endPosition - 1)
        BY <1>1, <3>2, NothingShared DEF ReuseInv, BlocksKept
      <4>2. PICK e \in Nat : e = header.endPosition /\ e <= end
        BY ReuseFacts
      <4>3. Block(j) \subseteq (p + z)..(end - 1)
        BY ONLY <1>2, <4>1, <4>2, Begin = p, p \in Nat, z \in Nat \ {0}, end \in Nat, e \in Nat
      <4> QED
        BY <1>5, <3>2, <4>3
    <3> QED
      BY <3>1, <3>2
  <2>2. ASSUME NEW j \in Placed', NEW k \in Placed', j # k
        PROVE  Block(j)' \cap Block(k)' = {}
    BY <1>5, <1>6, <2>2, NothingShared
  <2>3. \A j \in Placed' : /\ MetaOf(j)' \in Metas /\ MetaOf(j)'.id = j
                           /\ MetaOf(j)'.size = DocSize[MetaOf(j)'.doc]
    BY <1>7, PlacedBlock
  <2>4. DataStart <= TableEnd' /\ TableEnd' <= Begin' /\ Begin' <= header'.endPosition
    <3>1. /\ DataStart <= TableEnd /\ TableEnd <= p /\ TableEnd \in Nat
      BY ReuseFacts
    <3>2. TableEnd <= p + z /\ p + z <= end
      BY ONLY <3>1, p + z <= to, to + z <= end, p \in Nat, to \in Nat, z \in Nat \ {0}, end \in Nat
    <3> QED
      BY <3>1, <3>2
  <2>5. Placed' \subseteq Table'
    BY ReuseFacts
  <2> QED
    BY <2>1, <2>2, <2>3, <2>4, <2>5 DEF BlocksKept
<1>9. CellsIntact'
  <2> SUFFICES ASSUME NEW j \in Live', NEW k \in 2..MetaOf(j)'.size
               PROVE  disk'[inode'[j].pos + k - 1] = [doc |-> MetaOf(j)'.doc, at |-> k]
    BY DEF CellsIntact
  <2>1. j \in Live /\ j \in Placed' /\ j \in Placed /\ MetaOf(j)' = MetaOf(j)
    BY <1>7, ReuseFacts, Constants DEF Live, Placed
  <2>2. /\ disk[inode[j].pos + k - 1] = [doc |-> MetaOf(j).doc, at |-> k]
        /\ k \in 1..MetaOf(j).size /\ k \in 2..MetaOf(j).size
    BY <2>1, PlacedBlock DEF ReuseInv, CellsIntact
  <2>3. CASE j = i
    BY <1>3, <2>1, <2>2, <2>3
  <2>4. CASE j # i
    <3>1. inode[j].pos + k - 1 \in Block(j)
      BY <2>1, <2>2, CellOfBlock
    <3> QED
      BY <1>5, <2>1, <2>2, <2>4, <3>1
  <2> QED
    BY <2>3, <2>4
<1>10. NoStaleBlock'
  <2> SUFFICES ASSUME NEW a \in DataArea', a >= p + z, disk'[a] \in Metas
               PROVE  \E j \in Placed' : inode'[j].pos = a
    BY DEF NoStaleBlock
  <2>1. CASE a \in written
    <3>1. PICK k \in 1..z : a = to + k - 1
      <4>1. a - to + 1 \in 1..z /\ a = to + (a - to + 1) - 1
        BY ONLY <2>1, to \in Nat, z \in Nat \ {0}
      <4> QED
        BY <4>1
    <3>2. CASE k = 1
      BY <1>1, <1>4, <3>1, <3>2
    <3>3. CASE k # 1
      <4>1. k \in 2..z /\ k \in Nat
        BY ONLY <3>3, z \in Nat \ {0}
      <4>2. disk'[a] = [doc |-> MetaOf(i).doc, at |-> k]
        BY <1>3, <3>1, <4>1 DEF ReuseInv, CellsIntact
      <4>3. MetaOf(i).doc \in Documents
        BY <1>1, PlacedBlock
      <4> QED
        BY <4>1, <4>2, <4>3, OnlyBlocksAreBlocks
    <3> QED
      BY <3>2, <3>3
  <2>2. CASE a \notin written
    <3>1. a \in DataArea /\ disk[a] \in Metas
      BY <1>3, <2>2
    <3>2. a >= Begin
      <4>1. DataStart \in Nat /\ header.endPosition \in Nat
        BY ReuseFacts
      <4> QED
        BY ONLY <3>1, <4>1, a >= p + z, Begin = p, p \in Nat, z \in Nat \ {0} DEF DataArea
    <3>3. PICK j \in Placed : inode[j].pos = a
      BY <3>1, <3>2 DEF ReuseInv, NoStaleBlock
    <3>4. j # i
      BY ONLY <3>3, a >= p + z, inode[i].pos = p, p \in Nat, z \in Nat \ {0}
    <3>5. j \in Placed'
      <4>1. to \in written
        BY ONLY to \in Nat, z \in Nat \ {0}
      <4> QED
        BY <2>2, <3>3, <4>1
    <3> QED
      BY <3>3, <3>4, <3>5
  <2> QED
    BY <2>1, <2>2
<1> QED
  BY <1>3, <1>7, <1>8, <1>9, <1>10

(* A node of the list stays true of its inode when the inode keeps its     *)
(* status and its block.                                                   *)
LEMMA NodeStaysTrue ==
    ASSUME ReuseInv, NEW node \in NodesOn(list),
           inode'[node.index].status = inode[node.index].status,
           node.index \in Placed => MetaOf(node.index)' = MetaOf(node.index)
    PROVE  NodeMatches(node)'
<1>1. node.index \in Ids /\ NodeMatches(node) /\ OPEN # REMOVE
  BY ReuseFacts, Constants
<1>2. inode[node.index].status = REMOVE => node.index \in Placed
  BY <1>1 DEF Placed
<1> QED
  BY <1>1, <1>2 DEF NodeMatches

(* The inode at the front of the list goes back on it without a place.     *)
LEMMA Relisted ==
    ASSUME ReuseInv, list # << >>, NEW g, g = list[1].index, NEW noBack \in BOOLEAN,
           list' = Linked(Tail(list), CreateNode(g, 0), noBack),
           inode'[g].status = OPEN, Table' = Table,
           \A node \in NodesOn(list) : node.index # g => NodeMatches(node)'
    PROVE  list' \in Seq([index : Table', size : Nat]) /\ ListSound'
<1> DEFINE rest == Tail(list)
           node == CreateNode(g, 0)
<1>1. /\ list \in Seq(Nodes(Table)) /\ Once(list) /\ Sorted(list)
      /\ rest = PopMaxSizeNode(list)
  BY ReuseFacts DEF PopMaxSizeNode
<1>2. /\ list[1] \in Nodes(Table) /\ rest \in Seq(Nodes(Table))
      /\ NodesOn(rest) \subseteq NodesOn(list)
      /\ \A m \in NodesOn(rest) : m.index # g
      /\ Once(rest) /\ Sorted(rest)
  <2>1. /\ list[1] \in Nodes(Table)
        /\ NodesOn(rest) \subseteq NodesOn(list)
        /\ \A m \in NodesOn(rest) : m.index # list[1].index
        /\ Once(rest) /\ Sorted(rest)
    BY ONLY <1>1, list # << >>, PopMaxNodes
  <2>2. rest \in Seq(Nodes(Table))
    BY ONLY <1>1, list # << >>, PopMaxProperties
  <2> QED
    BY <2>1, <2>2
<1>3. node \in Nodes(Table) /\ node.index = g /\ node.size = 0
  BY <1>2 DEF Nodes, CreateNode
<1> HIDE DEF rest, node
<1>4. /\ list' \in Seq(Nodes(Table))
      /\ NodesOn(list') \subseteq NodesOn(rest) \cup {node}
      /\ Once(list') /\ Sorted(list')
  <2>1. list' = Linked(rest, node, noBack)
    BY DEF rest, node
  <2> QED
    BY <1>2, <1>3, <2>1, LinkedNodes
<1>5. NodeMatches(node)'
  BY <1>3 DEF NodeMatches, node
<1>6. \A m \in NodesOn(list') : NodeMatches(m)'
  BY <1>2, <1>4, <1>5
<1>7. ListSound'
  BY <1>4, <1>6 DEF ListSound, NodesOn, Once, Sorted
<1> QED
  BY <1>4, <1>7 DEF Nodes

(* The first block goes behind the last one. *)
LEMMA ReuseMoveToEnd ==
    ASSUME ReuseInv, MoveToEnd
    PROVE  ReuseInv' /\ Live' = Live /\ \A j \in Live : MetaOf(j)' = MetaOf(j)
<1>1. Moving /\ OnBlock /\ Advance /\ growth.at = "moving" /\ growth # NoGrowth
  BY DEF MoveToEnd, Moving, NoGrowth
<1>2. PICK i \in Live : i = InWay.id /\ InWay = MetaOf(i) /\ inode[i].pos = growth.pos
                        /\ Begin = growth.pos /\ i \in Placed
  <2>1. inode[InWay.id].status = CLOSE
    BY DEF MoveToEnd
  <2> QED
    BY <1>1, <2>1, BlockRead DEF Live, Placed
<1>3. PICK p \in Nat, z \in Nat \ {0}, end \in Nat :
          p = growth.pos /\ z = MetaOf(i).size /\ end = header.endPosition /\ p + z <= end
  BY <1>2, PlacedBlock, ReuseFacts
<1>4. /\ inode' = [inode EXCEPT ![i].pos = end]
      /\ disk' = Moved(disk, p, end, z)
      /\ header' = [header EXCEPT !.endPosition = end + z] /\ diskHeader' = header'
      /\ UNCHANGED <<list, stack, result, firstPosition, backNull>>
  BY <1>2, <1>3 DEF MoveToEnd
<1>5. /\ header' \in Headers /\ header'.endPosition = end + z
      /\ header'.count = header.count /\ end + z \in Nat
  <2>1. header \in Headers /\ end + z \in Nat
    BY ReuseFacts
  <2> QED
    BY ONLY <1>4, <2>1 DEF Headers
<1>6. /\ inode' \in [Ids -> Inodes]
      /\ \A j \in Ids : inode'[j].status = inode[j].status
      /\ \A j \in Ids \ {i} : inode'[j].pos = inode[j].pos
      /\ inode'[i].pos = end
  <2>1. inode \in [Ids -> Inodes] /\ i \in Ids
    BY ReuseFacts DEF Live
  <2> QED
    BY ONLY <1>4, <2>1, end \in Nat DEF Inodes
<1>7. Live' = Live /\ Placed' = Placed /\ Placed \subseteq Ids
  BY <1>6 DEF Live, Placed
<1>8. /\ growth' \in Growths /\ growth'.at = "moving" /\ growth' # NoGrowth
      /\ Begin' = p + z /\ TableEnd' = TableEnd /\ Table' = Table /\ GrowthMayRely'
  BY <1>1, <1>2, <1>3, <1>4, <1>5, <1>7, AdvanceKeeps
<1>9. DataArea' = DataArea \cup end..(end + z - 1)
  <2>1. DataStart \in Nat /\ DataStart <= end
    BY <1>2, <1>3, ReuseFacts
  <2> QED
    BY ONLY <1>3, <1>5, <2>1, end \in Nat, z \in Nat \ {0} DEF DataArea
<1>10. \A j \in Placed : Block(j) \cap end..(end + z - 1) = {}
  <2> TAKE j \in Placed
  <2>1. Block(j) \subseteq Begin..(end - 1) /\ Begin \in Nat
    BY <1>3, ReuseFacts DEF ReuseInv, BlocksKept
  <2> QED
    BY ONLY <2>1, end \in Nat, z \in Nat \ {0}
<1>11. /\ disk' \in [DataArea' -> Cells]
       /\ BlocksKept' /\ NoStaleBlock' /\ CellsIntact'
       /\ \A j \in Placed' : MetaOf(j)' = MetaOf(j)
  <2> DEFINE after == end + z
  <2>1. /\ growth.at # "failed" /\ after \in Nat
        /\ Begin = p /\ inode[i].pos = p /\ MetaOf(i).size = z
        /\ header.endPosition <= after /\ header'.endPosition = after
        /\ p + z <= end /\ end + z <= after
    BY <1>1, <1>2, <1>3, <1>5
  <2>2. /\ Placed' \subseteq Placed /\ inode'[i].pos = end
        /\ \A j \in Placed' \ {i} : inode'[j].pos = inode[j].pos
        /\ \A j \in Placed' \ {i} : Block(j) \cap end..(end + z - 1) = {}
        /\ \A j \in Placed \ Placed' : inode[j].pos = end
    BY <1>6, <1>7, <1>10
  <2> HIDE DEF after
  <2> QED
    BY ONLY ReuseInv, <1>4, <1>7, <1>8, <1>9, <2>1, <2>2, i \in Live, p \in Nat,
            z \in Nat \ {0}, end \in Nat, Relocated
<1>12. ListSound'
  <2>1. \A node \in NodesOn(list) : NodeMatches(node)'
    BY <1>6, <1>7, <1>11, NodeStaysTrue, ReuseFacts
  <2> QED
    BY <1>4, <2>1 DEF ReuseInv, ListSound, NodesOn, Once, Sorted
<1>13. OneCall'
  BY <1>1, <1>4, <1>7, <1>8, <1>11, MoveKeepsCalls
<1>14. GrowthTypeOK'
  BY <1>4, <1>5, <1>6, <1>8, <1>11 DEF ReuseInv, GrowthTypeOK, Cells
<1> QED
  BY <1>7, <1>8, <1>11, <1>12, <1>13, <1>14, ReuseFacts DEF ReuseInv

(* The first block goes to the largest gap, whose inode loses its place.   *)
LEMMA ReuseMoveToGap ==
    ASSUME ReuseInv, MoveToGap
    PROVE  ReuseInv' /\ Live' = Live /\ \A j \in Live : MetaOf(j)' = MetaOf(j)
<1>1. Moving /\ OnBlock /\ Advance /\ growth.at = "moving" /\ growth # NoGrowth
  BY DEF MoveToGap, Moving, NoGrowth
<1>2. PICK i \in Live : i = InWay.id /\ InWay = MetaOf(i) /\ inode[i].pos = growth.pos
                        /\ Begin = growth.pos /\ i \in Placed /\ i \in Ids
  <2>1. inode[InWay.id].status = CLOSE
    BY DEF MoveToGap
  <2> QED
    BY <1>1, <2>1, BlockRead DEF Live, Placed
<1>3. PICK p \in Nat, z \in Nat \ {0}, end \in Nat :
          p = growth.pos /\ z = MetaOf(i).size /\ end = header.endPosition /\ p + z <= end
  BY <1>2, PlacedBlock, ReuseFacts
<1>4. /\ list # << >> /\ list[1].size >= z
      /\ list[1] \in NodesOn(list) /\ list[1].index \in Table
  BY <1>2, <1>3, ReuseFacts, PopMaxNodes DEF MoveToGap, GapFor
<1>5. PICK g \in Placed : /\ g = list[1].index /\ inode[g].status = REMOVE /\ g # i /\ g \in Ids
                          /\ MetaOf(g).size = list[1].size
  <2>1. list[1].index \in Ids /\ inode[list[1].index].status = REMOVE
    BY <1>4, ReuseFacts DEF MoveToGap
  <2>2. MetaOf(list[1].index).size = list[1].size
    BY <1>4, <2>1, ReuseFacts, Constants DEF NodeMatches
  <2> QED
    BY <2>1, <2>2, Constants DEF Placed, Live
<1>6. PICK to \in Nat, room \in Nat : /\ to = inode[g].pos /\ room = MetaOf(g).size /\ z <= room
                                      /\ to + room <= end /\ p <= to
                                      /\ Block(g) = to..(to + room - 1)
                                      /\ to \in Block(g) /\ Block(g) \subseteq DataArea
  BY <1>2, <1>3, <1>4, <1>5, PlacedBlock DEF Block
<1>7. p + z <= to /\ to + z <= end /\ to..(to + z - 1) \subseteq Block(g)
  <2>1. to \notin Block(i) /\ Block(i) = p..(p + z - 1)
    BY <1>2, <1>3, <1>5, <1>6, NothingShared DEF Block
  <2> QED
    BY ONLY <1>6, <2>1, p \in Nat, z \in Nat \ {0}, to \in Nat, room \in Nat, end \in Nat
<1> DEFINE noBack == backNull /\ Tail(list) # << >>
<1>8. /\ inode' = [inode EXCEPT ![g] = Unplaced, ![i].pos = to]
      /\ list' = Linked(Tail(list), CreateNode(g, 0), noBack) /\ backNull' = noBack
      /\ disk' = Moved(disk, p, to, z)
      /\ UNCHANGED <<header, diskHeader, stack, result, firstPosition>>
  BY <1>2, <1>3, <1>5, <1>6 DEF MoveToGap
<1>9. /\ inode' \in [Ids -> Inodes]
      /\ \A j \in Ids \ {g} : inode'[j].status = inode[j].status
      /\ \A j \in Ids \ {g, i} : inode'[j].pos = inode[j].pos
      /\ inode'[i].pos = to /\ inode'[g].status = OPEN
  <2>1. inode \in [Ids -> Inodes] /\ i \in Ids /\ g \in Ids /\ g # i
    BY <1>2, <1>5, ReuseFacts
  <2>2. Unplaced \in Inodes /\ Unplaced.status = OPEN
    BY DEF Unplaced, Inodes
  <2> QED
    BY ONLY <1>8, <2>1, <2>2, to \in Nat DEF Inodes
<1>10. Live' = Live /\ Placed' = Placed \ {g} /\ Placed \subseteq Ids
  BY <1>5, <1>9, Constants DEF Live, Placed
<1>11. /\ growth' \in Growths /\ growth'.at = "moving" /\ growth' # NoGrowth
       /\ Begin' = p + z /\ TableEnd' = TableEnd /\ Table' = Table /\ GrowthMayRely'
  BY <1>1, <1>2, <1>3, <1>8, <1>10, AdvanceKeeps
<1>12. DataArea' = DataArea \cup to..(to + z - 1)
  <2>1. DataArea' = DataArea
    BY <1>8 DEF DataArea
  <2> QED
    BY <1>6, <1>7, <2>1
<1>13. /\ disk' \in [DataArea' -> Cells]
       /\ BlocksKept' /\ NoStaleBlock' /\ CellsIntact'
       /\ \A j \in Placed' : MetaOf(j)' = MetaOf(j)
  <2>1. /\ growth.at # "failed"
        /\ Begin = p /\ inode[i].pos = p /\ MetaOf(i).size = z
        /\ header.endPosition <= end /\ header'.endPosition = end
    BY <1>1, <1>2, <1>3, <1>8
  <2>2. /\ Placed' \subseteq Placed
        /\ \A j \in Placed' \ {i} : inode'[j].pos = inode[j].pos
        /\ \A j \in Placed \ Placed' : inode[j].pos = to
    BY <1>6, <1>9, <1>10
  <2>3. \A j \in Placed' \ {i} : Block(j) \cap to..(to + z - 1) = {}
    <3>1. \A j \in Placed \ {g} : Block(j) \cap Block(g) = {}
      BY <1>5, NothingShared
    <3> QED
      BY <1>7, <1>10, <3>1
  <2>4. /\ Live' = Live /\ inode'[i].pos = to
        /\ p + z <= to /\ to + z <= end /\ disk' = Moved(disk, p, to, z)
        /\ Begin' = p + z /\ TableEnd' = TableEnd /\ Table' = Table
    BY <1>7, <1>8, <1>9, <1>10, <1>11
  <2> QED
    BY ONLY ReuseInv, <1>12, <2>1, <2>2, <2>3, <2>4, i \in Live,
            p \in Nat, z \in Nat \ {0}, to \in Nat, end \in Nat, Relocated
<1>14. list' \in Seq([index : Table', size : Nat]) /\ ListSound'
  <2>1. \A node \in NodesOn(list) : node.index # g => NodeMatches(node)'
    BY <1>9, <1>10, <1>13, NodeStaysTrue, ReuseFacts
  <2>2. noBack \in BOOLEAN
    OBVIOUS
  <2> HIDE DEF noBack
  <2> QED
    BY ONLY ReuseInv, <1>4, <1>5, <1>8, <1>9, <1>11, <2>1, <2>2, Relisted
<1>15. OneCall'
  BY <1>1, <1>8, <1>10, <1>11, <1>13, MoveKeepsCalls
<1>16. GrowthTypeOK'
  BY <1>8, <1>9, <1>11, <1>13, <1>14 DEF ReuseInv, GrowthTypeOK, Cells
<1> QED
  BY <1>5, <1>10, <1>11, <1>13, <1>14, <1>15, <1>16, ReuseFacts, Constants DEF ReuseInv, Live

(* A gap that lies in the way is taken out of it: its inode loses its      *)
(* place, and the loop goes on behind its block.                           *)
LEMMA ReuseRemoveGap ==
    ASSUME ReuseInv, RemoveGapInWay
    PROVE  ReuseInv' /\ Live' = Live /\ \A j \in Live : MetaOf(j)' = MetaOf(j)
<1>1. Moving /\ OnBlock /\ Advance /\ growth.at = "moving" /\ growth # NoGrowth
  BY DEF RemoveGapInWay, Moving, NoGrowth
<1>2. PICK i \in Placed : i = InWay.id /\ InWay = MetaOf(i) /\ inode[i].pos = growth.pos
                          /\ Begin = growth.pos /\ i \in Ids
                          /\ inode[i].status = REMOVE /\ i \notin Live
  <2>1. inode[InWay.id].status = REMOVE
    BY DEF RemoveGapInWay
  <2> QED
    BY <1>1, <2>1, BlockRead, Constants DEF Live, Placed
<1>3. PICK p \in Nat, z \in Nat \ {0}, end \in Nat :
          p = growth.pos /\ z = MetaOf(i).size /\ end = header.endPosition /\ p + z <= end
  BY <1>2, PlacedBlock, ReuseFacts
<1> DEFINE noBack == NoBackAfterRemoval(list, backNull)
<1>4. /\ list # << >> /\ list[1].index = i
      /\ inode' = [inode EXCEPT ![i] = Unplaced]
      /\ list' = Linked(Tail(list), CreateNode(i, 0), noBack) /\ backNull' = noBack
      /\ UNCHANGED <<header, diskHeader, disk, stack, result, firstPosition>>
  BY <1>2 DEF RemoveGapInWay
<1>5. noBack \in BOOLEAN
  BY ReuseFacts DEF NoBackAfterRemoval
<1> HIDE DEF noBack
<1>6. /\ inode' \in [Ids -> Inodes]
      /\ \A j \in Ids \ {i} : inode'[j] = inode[j]
      /\ inode'[i].status = OPEN
  <2>1. inode \in [Ids -> Inodes] /\ i \in Ids
    BY <1>2, ReuseFacts
  <2>2. Unplaced \in Inodes /\ Unplaced.status = OPEN
    BY DEF Unplaced, Inodes
  <2> QED
    BY ONLY <1>4, <2>1, <2>2
<1>7. Live' = Live /\ Placed' = Placed \ {i} /\ Placed \subseteq Ids /\ Live \subseteq Placed'
  BY <1>2, <1>6, Constants DEF Live, Placed
<1>8. /\ growth' \in Growths /\ growth'.at = "moving" /\ growth' # NoGrowth
      /\ Begin' = p + z /\ TableEnd' = TableEnd /\ Table' = Table /\ GrowthMayRely'
  BY <1>1, <1>2, <1>3, <1>4, <1>7, AdvanceKeeps
<1>9. DataArea' = DataArea /\ disk' = disk
  BY <1>4 DEF DataArea
<1>10. \A j \in Placed' : MetaOf(j)' = MetaOf(j) /\ Block(j)' = Block(j)
                          /\ inode'[j] = inode[j] /\ j \in Placed
  BY <1>6, <1>7, <1>9 DEF MetaOf, Block
<1>11. BlocksKept'
  <2>1. ASSUME NEW j \in Placed'
        PROVE  Block(j)' \subseteq (p + z)..(end - 1)
    <3>1. Block(j) \cap Block(i) = {} /\ Block(j) \subseteq p..(end - 1)
      BY <1>2, <1>3, <1>7, NothingShared DEF ReuseInv, BlocksKept
    <3>2. Block(i) = p..(p + z - 1)
      BY <1>2, <1>3 DEF Block
    <3>3. Block(j) \subseteq (p + z)..(end - 1)
      BY ONLY <3>1, <3>2, p \in Nat, z \in Nat \ {0}, end \in Nat
    <3> QED
      BY <1>10, <3>3
  <2>2. \A j, k \in Placed' : j # k => Block(j)' \cap Block(k)' = {}
    BY <1>10, NothingShared
  <2>3. \A j \in Placed' : /\ MetaOf(j)' \in Metas /\ MetaOf(j)'.id = j
                           /\ MetaOf(j)'.size = DocSize[MetaOf(j)'.doc]
    BY <1>10, PlacedBlock
  <2>4. DataStart <= TableEnd' /\ TableEnd' <= Begin' /\ Begin' <= header'.endPosition
    <3>1. /\ DataStart <= TableEnd /\ TableEnd <= p /\ TableEnd \in Nat
      BY <1>2, <1>3, ReuseFacts
    <3>2. TableEnd <= p + z
      BY ONLY <3>1, p \in Nat, z \in Nat \ {0}
    <3> QED
      BY <1>3, <1>4, <1>8, <3>1, <3>2
  <2>5. Placed' \subseteq Table'
    BY <1>7, <1>8, ReuseFacts
  <2> QED
    BY <1>3, <1>4, <1>8, <2>1, <2>2, <2>3, <2>4, <2>5 DEF BlocksKept
<1>12. CellsIntact'
  BY <1>7, <1>9, <1>10 DEF ReuseInv, CellsIntact
<1>13. NoStaleBlock'
  <2> SUFFICES ASSUME NEW a \in DataArea, a >= p + z, disk[a] \in Metas
               PROVE  \E j \in Placed' : inode'[j].pos = a
    BY <1>8, <1>9 DEF NoStaleBlock
  <2>1. a \in Nat
    BY ReuseFacts DEF DataArea
  <2>2. a >= p /\ a # p
    BY ONLY <2>1, a >= p + z, p \in Nat, z \in Nat \ {0}
  <2>3. PICK j \in Placed : inode[j].pos = a
    BY <1>1, <1>2, <1>3, <2>2 DEF ReuseInv, NoStaleBlock
  <2>4. j # i
    BY <1>2, <1>3, <2>2, <2>3
  <2> QED
    BY <1>7, <1>10, <2>3, <2>4
<1>14. list' \in Seq([index : Table', size : Nat]) /\ ListSound'
  <2>1. \A node \in NodesOn(list) : node.index # i => NodeMatches(node)'
    BY <1>6, <1>7, <1>10, NodeStaysTrue, ReuseFacts
  <2> QED
    BY ONLY ReuseInv, <1>4, <1>5, <1>6, <1>8, <2>1, Relisted
<1>15. OneCall'
  BY <1>1, <1>4, <1>7, <1>8, <1>10, MoveKeepsCalls
<1>16. GrowthTypeOK'
  BY <1>4, <1>5, <1>6, <1>8, <1>9, <1>14 DEF ReuseInv, GrowthTypeOK
<1> QED
  BY <1>7, <1>8, <1>10, <1>11, <1>12, <1>13, <1>14, <1>15, <1>16 DEF ReuseInv

-----------------------------------------------------------------------------
(* An insertion that needs inodes begins to read where the documents do.   *)
LEMMA ReuseStartGrowth ==
    ASSUME ReuseInv, NEW parent \in Parents, NEW d \in Documents, StartGrowth(parent, d)
    PROVE  ReuseInv' /\ Live' = Live /\ \A j \in Placed : MetaOf(j)' = MetaOf(j)
<1>1. /\ growth = NoGrowth /\ growth.at = "none" /\ stack = << >> /\ AcceptsParent(parent)
      /\ header.count + LargestGrowth <= MaxInodes
      /\ growth' = [at |-> "moving", pos |-> FirstBlock, space |-> firstPosition,
                    parent |-> parent, doc |-> d]
      /\ UNCHANGED <<fileVars, firstPosition, backNull>>
  BY ReuseGrowthFields DEF StartGrowth, Idle
<1>2. /\ growth'.at = "moving" /\ growth'.pos = FirstBlock /\ growth'.space = firstPosition
      /\ growth'.parent = parent /\ growth' # NoGrowth
  BY ONLY <1>1 DEF NoGrowth
<1>3. /\ parent \in Links /\ FirstBlock \in Nat /\ firstPosition \in Nat
      /\ firstPosition \in 0..(InodeSize - 1)
  BY ReuseFacts, Constants DEF Parents
<1>4. Begin' = Begin
  BY <1>1, <1>2 DEF Begin, NoGrowth, fileVars, FirstBlock, TableEnd
<1>5. GrowthMayRely'
  <2>1. /\ AcceptsParent(parent)' /\ TableEnd' = TableEnd /\ firstPosition' = firstPosition
        /\ header' = header
    BY <1>1 DEF fileVars, AcceptsParent, Status, TableEnd
  <2>2. FirstBlock = TableEnd + firstPosition
    BY DEF FirstBlock
  <2>3. firstPosition < NeededSpace + DocSize[CHOOSE e \in Documents : IsLargest(e)]
    <3>1. InodeSize \in Nat \ {0} /\ C_DEFAULT \in Nat /\ 1 <= C_DEFAULT
      BY Constants
    <3>2. InodeSize * 1 <= InodeSize * C_DEFAULT
      BY ONLY Multiples, <3>1, 1 \in Nat
    <3>3. NeededSpace \in Nat /\ InodeSize <= NeededSpace
      BY ONLY <3>1, <3>2, Constants DEF NeededSpace
    <3>4. DocSize[CHOOSE e \in Documents : IsLargest(e)] \in Nat
      BY Constants
    <3> QED
      BY ONLY <1>3, <3>1, <3>3, <3>4
  <2>4. firstPosition <= firstPosition
    BY <1>3
  <2> QED
    BY <1>1, <1>2, <2>1, <2>2, <2>3, <2>4 DEF GrowthMayRely, AcceptsParent, Status
<1>6. growth' \in Growths
  BY <1>1, <1>3 DEF Growths
<1>7. OneCall'
  BY <1>1, <1>2 DEF fileVars, ReuseInv, OneCall, NoChildCycle, StackChained, Placed, Child, MetaOf
<1> QED
  BY <1>1, <1>3, <1>4, <1>5, <1>6, <1>7, FileUntouched, ReuseFacts
     DEF fileVars, ReuseInv, GrowthTypeOK

(* The space that has been found becomes inodes and a rest. *)
LEMMA ReuseSpaceFound ==
    ASSUME ReuseInv, SpaceFound
    PROVE  ReuseInv' /\ Live' = Live /\ \A j \in Placed : MetaOf(j)' = MetaOf(j)
<1>1. growth.at = "moving" /\ growth.space >= NeededSpace
  BY DEF SpaceFound
<1>2. PICK s \in Nat, z \in Nat \ {0} : s = growth.space /\ z = InodeSize
  BY <1>1, ReuseGrowthFields, Constants
<1>3. /\ s < NeededSpace + DocSize[CHOOSE d \in Documents : IsLargest(d)]
      /\ Begin = TableEnd + s /\ AcceptsParent(growth.parent)
      /\ header.count + LargestGrowth <= MaxInodes
  BY <1>1, <1>2 DEF ReuseInv, GrowthMayRely, Begin
<1>4. PICK q \in Nat \ {0}, r \in 0..(z - 1) :
          /\ q = NewInodes /\ r = FirstPosition /\ s = z * q + r
          /\ q <= LargestGrowth /\ LargestGrowth \in Nat /\ z * q \in Nat
  BY <1>1, <1>2, <1>3, SpaceFits
<1>5. /\ firstPosition' = r
      /\ growth' = [at |-> "listing", left |-> q, parent |-> growth.parent, doc |-> growth.doc]
      /\ UNCHANGED <<fileVars, backNull>>
  BY <1>4 DEF SpaceFound
<1>6. /\ growth'.at = "listing" /\ growth'.left = q /\ growth'.parent = growth.parent
      /\ growth' # NoGrowth /\ growth' \in Growths
  <2>1. growth.parent \in Links /\ growth.doc \in Documents
    BY <1>1, ReuseGrowthFields
  <2> QED
    BY <1>5, <2>1 DEF Growths, NoGrowth
<1>7. TableEnd' = TableEnd /\ TableEnd \in Nat /\ header' = header
  BY <1>5, ReuseFacts DEF fileVars, TableEnd
<1>8. Begin' = Begin
  <2>1. Begin' = TableEnd + r + z * q
    BY <1>2, <1>5, <1>6, <1>7 DEF Begin, FirstBlock
  <2> QED
    BY ONLY <1>3, <1>4, <1>7, <2>1, s \in Nat, r \in 0..(z - 1), z \in Nat \ {0}
<1>9. GrowthMayRely'
  <2>1. header.count \in Nat /\ MaxInodes \in Nat
    BY ReuseFacts, Constants
  <2>2. header.count + q <= MaxInodes /\ q > 0
    BY ONLY <1>3, <1>4, <2>1, q \in Nat \ {0}
  <2>3. AcceptsParent(growth.parent)'
    BY <1>3, <1>5, <1>6 DEF fileVars, AcceptsParent, Status
  <2> QED
    BY <1>5, <1>6, <1>7, <2>2, <2>3 DEF GrowthMayRely, AcceptsParent, Status
<1>10. OneCall'
  BY <1>1, <1>5, <1>6
     DEF fileVars, ReuseInv, OneCall, NoChildCycle, StackChained, Placed, Child, MetaOf, NoGrowth
<1> QED
  BY <1>1, <1>2, <1>5, <1>6, <1>8, <1>9, <1>10, FileUntouched, ReuseFacts
     DEF fileVars, ReuseInv, GrowthTypeOK

(* The header is written when all of the inodes are. *)
LEMMA ReuseEndGrowth ==
    ASSUME ReuseInv, EndGrowth
    PROVE  ReuseInv' /\ Live' = Live /\ \A j \in Placed : MetaOf(j)' = MetaOf(j)
<1>1. /\ growth.at = "listing" /\ growth.left = 0
      /\ growth' = [at |-> "grown", parent |-> growth.parent, doc |-> growth.doc]
      /\ diskHeader' = header
      /\ UNCHANGED <<header, inode, disk, list, stack, result, firstPosition, backNull>>
  BY DEF EndGrowth
<1>2. /\ growth'.at = "grown" /\ growth'.parent = growth.parent /\ growth' # NoGrowth
      /\ growth' \in Growths
  <2>1. growth.parent \in Links /\ growth.doc \in Documents
    BY <1>1, ReuseGrowthFields
  <2> QED
    BY <1>1, <2>1 DEF Growths, NoGrowth
<1>3. Begin' = Begin
  <2>1. InodeSize * 0 = 0 /\ FirstBlock \in Nat
    BY Constants, ReuseFacts
  <2>2. Begin = FirstBlock + InodeSize * 0
    BY <1>1 DEF Begin
  <2>3. Begin' = FirstBlock
    BY <1>1, <1>2 DEF Begin, FirstBlock, TableEnd
  <2> QED
    BY ONLY <2>1, <2>2, <2>3
<1>4. GrowthMayRely'
  <2>1. AcceptsParent(growth.parent) /\ UnplacedAtHand
    BY <1>1 DEF ReuseInv, GrowthMayRely
  <2> QED
    BY <1>1, <1>2, <2>1 DEF GrowthMayRely, AcceptsParent, Status, UnplacedAtHand, NodesOn
<1>5. OneCall'
  BY <1>1, <1>2
     DEF ReuseInv, OneCall, NoChildCycle, StackChained, Placed, Child, MetaOf, NoGrowth
<1> QED
  BY <1>1, <1>2, <1>3, <1>4, <1>5, FileUntouched, ReuseFacts

(* A lost back of the list is the end of the program. *)
LEMMA ReuseCrash ==
    ASSUME ReuseInv, CrashAfterGrowth
    PROVE  ReuseInv' /\ Live' = Live /\ \A j \in Placed : MetaOf(j)' = MetaOf(j)
<1>1. /\ growth.at = "grown" /\ growth' = [at |-> "crashed"]
      /\ UNCHANGED <<fileVars, firstPosition, backNull>>
  BY DEF CrashAfterGrowth
<1>2. growth'.at = "crashed" /\ growth' # NoGrowth /\ growth' \in Growths
  BY <1>1 DEF Growths, NoGrowth
<1>3. Begin' = Begin
  BY <1>1, <1>2 DEF Begin, FirstBlock, TableEnd, fileVars
<1>4. GrowthMayRely'
  BY <1>2 DEF GrowthMayRely
<1>5. OneCall'
  BY <1>1, <1>2 DEF fileVars, ReuseInv, OneCall, NoChildCycle, StackChained, Placed,
                    Child, MetaOf, NoGrowth
<1> QED
  BY <1>1, <1>2, <1>3, <1>4, <1>5, FileUntouched, ReuseFacts DEF fileVars, ReuseInv, GrowthTypeOK

-----------------------------------------------------------------------------
(* The steps of a deletion that only call or return. *)
LEMMA CallsLeaveTheFile ==
    ASSUME ReuseInv, UNCHANGED <<header, diskHeader, inode, disk, list>>, UNCHANGED growthVars,
           growth = NoGrowth, stack' \in Seq(Frames), result' \in BOOLEAN, StackChained'
    PROVE  ReuseInv' /\ Live' = Live /\ \A j \in Placed : MetaOf(j)' = MetaOf(j)
<1>1. /\ growth'.at = "none" /\ growth.at = "none" /\ growth' = growth
      /\ firstPosition' = firstPosition /\ backNull' = backNull
  BY DEF growthVars, NoGrowth
<1>2. Begin' = Begin
  BY <1>1 DEF Begin, FirstBlock, TableEnd
<1>3. GrowthMayRely'
  BY <1>1 DEF GrowthMayRely
<1>4. OneCall'
  BY <1>1 DEF ReuseInv, OneCall, NoChildCycle, Placed, Child, MetaOf
<1> QED
  BY <1>1, <1>2, <1>3, <1>4, FileUntouched, ReuseFacts DEF ReuseInv, GrowthTypeOK

(* The frames of a deletion in progress: there is no growth meanwhile. *)
LEMMA FramesOfDeletion ==
    ASSUME ReuseInv, ~Idle
    PROVE  /\ growth = NoGrowth /\ NoChildCycle /\ StackChained
           /\ Len(stack) \in Nat \ {0}
           /\ stack \in [1..Len(stack) -> Frames]
           /\ Top = stack[Len(stack)] /\ Top \in Frames
           /\ Front(stack) \in Seq(Frames) /\ Len(Front(stack)) = Len(stack) - 1
           /\ \A k \in 1..(Len(stack) - 1) : Front(stack)[k] = stack[k]
<1>1. stack \in Seq(Frames) /\ stack # << >>
  BY ReuseFacts DEF Idle
<1>2. Len(stack) \in Nat \ {0} /\ stack \in [1..Len(stack) -> Frames]
  BY <1>1, EmptySeq, LenProperties
<1>3. Top = stack[Len(stack)] /\ Top \in Frames
  BY <1>2 DEF Top, Last
<1>4. 1 \in Int /\ Len(stack) - 1 \in Int /\ \A i \in 1..(Len(stack) - 1) : stack[i] \in Frames
  BY <1>2
<1>5. /\ SubSeq(stack, 1, Len(stack) - 1) \in Seq(Frames)
      /\ Len(SubSeq(stack, 1, Len(stack) - 1)) = Len(stack) - 1
      /\ \A k \in 1..(Len(stack) - 1) : SubSeq(stack, 1, Len(stack) - 1)[k] = stack[k]
  BY <1>2, <1>4, SubSeqProperties
<1>6. growth = NoGrowth /\ NoChildCycle /\ StackChained
  BY <1>1 DEF ReuseInv, OneCall, NoGrowth
<1> QED
  BY <1>2, <1>3, <1>5, <1>6 DEF Front

(* The frame below the top, and a top that has called, are in use. *)
LEMMA CallerInUse ==
    ASSUME ReuseInv, ~Idle, NEW k \in 1..Len(stack),
           k < Len(stack) \/ stack[k].at # "enter"
    PROVE  /\ stack[k].id \in Live /\ stack[k].id \in Placed
           /\ k < Len(stack) => stack[k + 1].id = Child(stack[k].id)
<1>1. k \in DOMAIN stack
  BY FramesOfDeletion
<1>2. Status(stack[k].id) = CLOSE /\ (k < Len(stack) => stack[k + 1].id = Child(stack[k].id))
  BY <1>1, FramesOfDeletion DEF StackChained
<1> QED
  BY <1>2, Constants DEF Status, Placed, Live

(* A client calls deleteDocument. *)
LEMMA ReuseCallDelete ==
    ASSUME ReuseInv, NEW id \in Table, CallDelete(id)
    PROVE  ReuseInv' /\ Live' = Live /\ \A j \in Placed : MetaOf(j)' = MetaOf(j)
<1>1. /\ growth = NoGrowth /\ DeleteDocument(id) /\ UNCHANGED growthVars /\ id \in Links
  BY ReuseFacts DEF CallDelete, Links
<1>2. Frame("document", id) \in Frames /\ Frame("document", id).at = "enter"
  BY <1>1 DEF Frame, Frames
<1>3. stack' \in Seq(Frames) /\ result' \in BOOLEAN
  BY <1>1, <1>2, ReuseFacts DEF DeleteDocument
<1>4. StackChained'
  BY <1>1, <1>2 DEF DeleteDocument, StackChained
<1>5. UNCHANGED <<header, diskHeader, inode, disk, list>>
  BY <1>1 DEF DeleteDocument
<1> QED
  BY <1>1, <1>3, <1>4, <1>5, CallsLeaveTheFile

(* A return without a change to the file. *)
LEMMA ReuseReturn ==
    ASSUME ReuseInv, ~Idle, NEW v \in BOOLEAN, Return(v),
           UNCHANGED <<header, diskHeader, inode, disk, list>>, UNCHANGED growthVars
    PROVE  ReuseInv' /\ Live' = Live /\ \A j \in Placed : MetaOf(j)' = MetaOf(j)
<1> DEFINE n == Len(stack)
<1>1. /\ n \in Nat \ {0} /\ stack' \in Seq(Frames) /\ Len(stack') = n - 1 /\ result' \in BOOLEAN
      /\ \A k \in 1..(n - 1) : stack'[k] = stack[k]
  BY FramesOfDeletion DEF Return
<1>2. DOMAIN stack' = 1..(n - 1)
  BY <1>1, LenProperties
<1>3. ASSUME NEW k \in 1..(n - 1)
      PROVE  /\ (Status(stack[k].id) = CLOSE)'
             /\ k < Len(stack') => (stack[k + 1].id = Child(stack[k].id))'
  <2>1. k \in 1..n /\ k < n
    BY <1>1
  <2>2. /\ inode[stack[k].id].status = CLOSE /\ stack[k].id \in Ids
        /\ stack[k + 1].id = Child(stack[k].id)
    BY <2>1, CallerInUse DEF Live
  <2>3. stack'[k].id = stack[k].id /\ (k < Len(stack') => stack'[k + 1].id = stack[k + 1].id)
    BY <1>1, <2>1
  <2> QED
    BY <2>2, <2>3 DEF Status, Child, MetaOf
<1> HIDE DEF n
<1>4. StackChained'
  BY <1>1, <1>2, <1>3 DEF StackChained
<1> QED
  BY <1>1, <1>4, CallsLeaveTheFile, FramesOfDeletion

(* A call for the child of the document on top, which is in use. *)
LEMMA ReuseCall ==
    ASSUME ReuseInv, ~Idle, NEW at \in {"child", "retry"}, Call(at), UNCHANGED growthVars,
           Top.id \in Live
    PROVE  ReuseInv' /\ Live' = Live /\ \A j \in Placed : MetaOf(j)' = MetaOf(j)
<1> DEFINE n == Len(stack)
           caller == [Top EXCEPT !.at = at]
           callee == Frame(Callee(Top.fn), Child(Top.id))
<1>1. /\ caller \in Frames /\ caller.id = Top.id
      /\ callee \in Frames /\ callee.id = Child(Top.id) /\ callee.at = "enter"
  <2>1. Child(Top.id) \in Links
    BY PlacedBlock, ReuseFacts
  <2> QED
    BY <2>1, FramesOfDeletion DEF Frames, Frame, Callee
<1>0. /\ n \in Nat \ {0} /\ Top = stack[n] /\ Len(Front(stack)) = n - 1
      /\ Front(stack) \in Seq(Frames)
      /\ \A k \in 1..(n - 1) : Front(stack)[k] = stack[k]
  BY FramesOfDeletion
<1> HIDE DEF caller, callee, n
<1>2. /\ <<caller, callee>> \in Seq(Frames) /\ Len(<<caller, callee>>) = 2
      /\ <<caller, callee>>[1] = caller /\ <<caller, callee>>[2] = callee
  BY <1>1
<1>3. stack' = Front(stack) \o <<caller, callee>>
  BY DEF Call, caller, callee
<1>4. /\ stack' \in Seq(Frames) /\ Len(stack') = n + 1 /\ DOMAIN stack' = 1..(n + 1)
      /\ \A k \in 1..(n + 1) : stack'[k] = IF k <= n - 1 THEN stack[k]
                                            ELSE IF k = n THEN caller ELSE callee
  <2>1. /\ stack' \in Seq(Frames) /\ Len(stack') = n + 1
        /\ \A k \in 1..(n + 1) : stack'[k] = IF k <= n - 1 THEN Front(stack)[k]
                                              ELSE <<caller, callee>>[k - (n - 1)]
    BY <1>2, <1>3, <1>0, ConcatProperties
  <2>2. DOMAIN stack' = 1..(n + 1)
    BY <2>1, LenProperties
  <2> QED
    BY <1>2, <2>1, <2>2, <1>0
<1>5. UNCHANGED <<header, diskHeader, inode, disk, list, result>>
  BY DEF Call
<1>6. ASSUME NEW k \in 1..n
      PROVE  (Status(stack[k].id) = CLOSE)' /\ (stack[k + 1].id = Child(stack[k].id))'
  <2>1. CASE k < n
    <3>1. /\ inode[stack[k].id].status = CLOSE /\ stack[k].id \in Ids
          /\ stack[k + 1].id = Child(stack[k].id)
      BY <1>0, <2>1, CallerInUse DEF Live, n
    <3>2. stack'[k].id = stack[k].id /\ stack'[k + 1].id = stack[k + 1].id
      BY <1>1, <1>4, <2>1, <1>0
    <3> QED
      BY <1>5, <3>1, <3>2 DEF Status, Child, MetaOf
  <2>2. CASE k = n
    <3>1. stack'[k].id = Top.id /\ stack'[k + 1].id = Child(Top.id)
      BY <1>1, <1>4, <2>2, <1>0
    <3> QED
      BY <1>5, <3>1 DEF Status, Child, MetaOf, Live
  <2> QED
    BY <2>1, <2>2, <1>0
<1>7. StackChained'
  <2>1. stack'[n + 1].at = "enter"
    BY <1>1, <1>4, <1>0
  <2> QED
    BY <1>0, <1>4, <1>6, <2>1 DEF StackChained
<1>8. result' \in BOOLEAN
  BY <1>5, ReuseFacts
<1> QED
  BY <1>4, <1>5, <1>7, <1>8, CallsLeaveTheFile, FramesOfDeletion

(* No document is met twice on the stack of calls: a repetition would be a *)
(* cycle of child links.                                                   *)
LEMMA NoCallTwice ==
    ASSUME ReuseInv, ~Idle, Top.id \in Placed, NEW k \in 1..(Len(stack) - 1)
    PROVE  stack[k].id # Top.id
<1> DEFINE n == Len(stack)
           S == {stack[j].id : j \in k..(n - 1)}
<1>0. n \in Nat \ {0} /\ Top = stack[n]
  BY FramesOfDeletion
<1>1. \A j \in k..(n - 1) : stack[j].id \in Placed /\ stack[j + 1].id = Child(stack[j].id)
  BY <1>0, CallerInUse
<1> SUFFICES ASSUME stack[k].id = stack[n].id PROVE FALSE
  BY <1>0
<1>2. S \in SUBSET Placed /\ S # {}
  BY <1>0, <1>1
<1>3. ASSUME NEW j \in k..(n - 1) PROVE Child(stack[j].id) \in S
  <2>1. CASE j + 1 = n
    <3>1. Child(stack[j].id) = stack[k].id /\ k \in k..(n - 1)
      BY <1>0, <1>1, <2>1
    <3> QED
      BY <3>1
  <2>2. CASE j + 1 # n
    BY <1>0, <1>1, <2>2
  <2> QED
    BY <2>1, <2>2
<1>4. \A i \in S : Child(i) \in S
  BY <1>3
<1> QED
  BY <1>2, <1>4, FramesOfDeletion DEF NoChildCycle

(* The document on top, whichever way the recursion came to free it, is in *)
(* use; it becomes a listed gap, and the callers stay in use.              *)
LEMMA ReuseFree ==
    ASSUME ReuseInv, FreeDocument, UNCHANGED growthVars
    PROVE  /\ ReuseInv' /\ Top.id \in Live /\ Live' = Live \ {Top.id}
           /\ \A j \in Placed : MetaOf(j)' = MetaOf(j)
<1>1. ~Idle /\ ChildDone
  BY DEF FreeDocument
<1>2. Top.id \in Live
  <2>0. Len(stack) \in Nat \ {0} /\ Top = stack[Len(stack)]
    BY <1>1, FramesOfDeletion
  <2>1. CASE Top.at # "enter"
    BY <1>1, <2>0, <2>1, CallerInUse
  <2>2. CASE Top.at = "enter"
    <3>1. Status(Top.id) = CLOSE
      BY <1>1, <2>2 DEF ChildDone
    <3> QED
      BY <3>1, Constants DEF Status, Live
  <2> QED
    BY <2>1, <2>2
<1>3. PICK x \in Live : x = Top.id /\ x \in Ids /\ x \in Placed /\ inode[x].status = CLOSE
  BY <1>2, ReuseFacts DEF Live
<1>5. PICK node :
         /\ node = CreateNode(x, MetaOf(x).size) /\ node \in Nodes(Table)
         /\ node.index = x /\ node.size = MetaOf(x).size
  <2>1. x \in Table /\ MetaOf(x).size \in Nat
    BY <1>3, PlacedBlock
  <2>2. CreateNode(x, MetaOf(x).size) \in Nodes(Table)
    BY <2>1 DEF Nodes, CreateNode
  <2> QED
    BY <2>2 DEF CreateNode
<1>4. /\ list' = InsertNode(list, node)
      /\ inode' = [inode EXCEPT ![x].status = REMOVE]
      /\ UNCHANGED <<header, diskHeader, disk>>
      /\ stack' = Front(stack) /\ result' = TRUE
  BY <1>3, <1>5 DEF FreeDocument, Return
<1>6. /\ inode' \in [Ids -> Inodes]
      /\ \A i \in Ids : inode'[i].pos = inode[i].pos
      /\ \A i \in Ids : i # x => inode'[i].status = inode[i].status
      /\ inode'[x].status = REMOVE
  <2>1. inode \in [Ids -> Inodes]
    BY ReuseFacts
  <2> QED
    BY ONLY <1>3, <1>4, <2>1 DEF Inodes
<1>7. Placed' = Placed /\ Live' = Live \ {x} /\ Placed \subseteq Ids
  BY <1>3, <1>6, Constants DEF Placed, Live
<1>8. /\ growth = NoGrowth /\ growth.at = "none" /\ growth' = growth /\ backNull' = backNull
      /\ firstPosition' = firstPosition
  BY <1>1, FramesOfDeletion DEF growthVars, NoGrowth
<1>9. /\ TableEnd' = TableEnd /\ Table' = Table /\ Begin' = Begin /\ DataArea' = DataArea
      /\ \A j \in Ids : MetaOf(j)' = MetaOf(j) /\ Block(j)' = Block(j) /\ Child(j)' = Child(j)
  BY <1>4, <1>6, <1>8 DEF TableEnd, Table, Begin, FirstBlock, DataArea, MetaOf, Block, Child
<1>10. BlocksKept'
  <2>1. \A j \in Placed : /\ MetaOf(j)' \in Metas /\ MetaOf(j)'.id = j
                          /\ MetaOf(j)'.size = DocSize[MetaOf(j)'.doc]
                          /\ Block(j)' \subseteq Begin..(header.endPosition - 1)
    BY <1>7, <1>9 DEF ReuseInv, BlocksKept
  <2>2. \A j, k \in Placed : j # k => Block(j)' \cap Block(k)' = {}
    BY <1>7, <1>9 DEF ReuseInv, BlocksKept
  <2> QED
    BY <1>4, <1>7, <1>9, <2>1, <2>2 DEF ReuseInv, BlocksKept
<1>11. NoStaleBlock'
  BY <1>4, <1>6, <1>7, <1>8, <1>9 DEF ReuseInv, NoStaleBlock
<1>12. CellsIntact'
  BY <1>4, <1>6, <1>7, <1>9, ReuseFacts DEF ReuseInv, CellsIntact
<1>13. list' \in Seq(Nodes(Table)) /\ ListSound'
  <2>1. \A m \in NodesOn(list) : m.index # x
    BY <1>3, ReuseFacts, Constants DEF NodeMatches
  <2>2. /\ list \in Seq(Nodes(Table)) /\ Once(list) /\ Sorted(list)
        /\ list' = Linked(list, node, FALSE)
    BY <1>4, ReuseFacts DEF Linked
  <2>3. /\ list' \in Seq(Nodes(Table)) /\ NodesOn(list') \subseteq NodesOn(list) \cup {node}
        /\ Once(list') /\ Sorted(list')
    <3>1. node \in Nodes(Table) /\ \A m \in NodesOn(list) : m.index # node.index
      BY <1>5, <2>1
    <3>2. LET l == Linked(list, node, FALSE)
          IN  /\ l \in Seq(Nodes(Table)) /\ NodesOn(l) \subseteq NodesOn(list) \cup {node}
              /\ Once(l) /\ Sorted(l)
      <4>1. list \in Seq(Nodes(Table)) /\ Once(list) /\ Sorted(list)
        BY <2>2
      <4> QED
        BY ONLY <3>1, <4>1, FALSE \in BOOLEAN, LinkedNodes
    <3> QED
      BY <2>2, <3>2
  <2>4. NodeMatches(node)'
    BY <1>3, <1>5, <1>6, <1>9 DEF NodeMatches
  <2>5. \A m \in NodesOn(list) : NodeMatches(m)'
    BY <1>6, <1>7, <1>9, <2>1, NodeStaysTrue, ReuseFacts
  <2>6. \A m \in NodesOn(list') : NodeMatches(m)'
    BY <2>3, <2>4, <2>5
  <2>7. ListSound'
    BY <2>3, <2>6 DEF ListSound, NodesOn, Once, Sorted
  <2> QED
    BY <2>3, <2>7
<1>14. StackChained'
  <2> DEFINE m == Len(stack)
  <2>1. /\ m \in Nat \ {0} /\ stack' \in Seq(Frames) /\ Len(stack') = m - 1
        /\ \A k \in 1..(m - 1) : stack'[k] = stack[k]
    BY <1>1, <1>4, FramesOfDeletion
  <2>2. DOMAIN stack' = 1..(m - 1)
    BY <2>1, LenProperties
  <2>3. ASSUME NEW k \in 1..(m - 1)
        PROVE  /\ (Status(stack[k].id) = CLOSE)'
               /\ k < Len(stack') => (stack[k + 1].id = Child(stack[k].id))'
    <3>1. /\ stack[k].id \in Ids /\ inode[stack[k].id].status = CLOSE
          /\ stack[k + 1].id = Child(stack[k].id)
      BY <1>1, <2>1, CallerInUse DEF Live
    <3>2. stack[k].id # x
      BY <1>1, <1>3, NoCallTwice
    <3>3. inode'[stack[k].id].status = CLOSE
      BY <1>6, <3>1, <3>2
    <3>4. disk'[inode'[stack[k].id].pos] = disk[inode[stack[k].id].pos]
      BY <1>4, <1>6, <3>1
    <3>5. stack'[k].id = stack[k].id /\ (k < m - 1 => stack'[k + 1].id = stack[k + 1].id)
      BY <2>1
    <3> QED
      BY <2>1, <3>1, <3>3, <3>4, <3>5 DEF Status, Child, MetaOf
  <2> HIDE DEF m
  <2> QED
    BY <2>1, <2>2, <2>3 DEF StackChained
<1>15. NoChildCycle'
  BY <1>1, <1>7, <1>9, FramesOfDeletion DEF NoChildCycle, Placed
<1>16. OneCall'
  BY <1>8, <1>14, <1>15 DEF ReuseInv, OneCall
<1>17. GrowthMayRely'
  BY <1>8 DEF GrowthMayRely
<1>18. GrowthTypeOK'
  <2>1. stack' \in Seq(Frames)
    BY <1>1, <1>4, FramesOfDeletion
  <2>2. list' \in Seq([index : Table', size : Nat])
    BY <1>9, <1>13 DEF Nodes
  <2> QED
    BY <1>4, <1>6, <1>8, <1>9, <2>1, <2>2 DEF ReuseInv, GrowthTypeOK
<1> QED
  BY <1>3, <1>7, <1>9, <1>10, <1>11, <1>12, <1>13, <1>16, <1>17, <1>18 DEF ReuseInv

(* The steps of a deletion that is in progress. *)
LEMMA ReuseDelete ==
    ASSUME ReuseInv, ContinueDelete
    PROVE  /\ ReuseInv' /\ \A j \in Placed : MetaOf(j)' = MetaOf(j)
           /\ Live' = Live \/ (Top.id \in Live /\ Live' = Live \ {Top.id})
<1> DEFINE Kept == ReuseInv' /\ Live' = Live /\ \A j \in Placed : MetaOf(j)' = MetaOf(j)
<1>0. ContinueDelete => DeleteStep /\ UNCHANGED growthVars
  BY DEF ContinueDelete
<1>1. CASE DeleteRejected
  <2>1. /\ ~Idle /\ Return(FALSE) /\ FALSE \in BOOLEAN /\ UNCHANGED growthVars
        /\ UNCHANGED <<header, diskHeader, inode, disk, list>>
    BY <1>0, <1>1 DEF DeleteRejected
  <2>2. Kept
    BY ONLY <2>1, ReuseInv, ReuseReturn DEF Kept
  <2> QED
    BY <2>2
<1>2. CASE GiveUp
  <2>1. /\ ~Idle /\ Return(FALSE) /\ FALSE \in BOOLEAN /\ UNCHANGED growthVars
        /\ UNCHANGED <<header, diskHeader, inode, disk, list>>
    BY <1>0, <1>2 DEF GiveUp
  <2>2. Kept
    BY ONLY <2>1, ReuseInv, ReuseReturn DEF Kept
  <2> QED
    BY <2>2
<1>3. CASE DeleteChild
  <2>1. ~Idle /\ Status(Top.id) = CLOSE /\ Call("child") /\ UNCHANGED growthVars
    BY <1>0, <1>3 DEF DeleteChild
  <2>2. Top.id \in Live
    BY <2>1, Constants DEF Status, Live
  <2>3. Kept
    BY ONLY <2>1, <2>2, ReuseInv, ReuseCall DEF Kept
  <2> QED
    BY <2>3
<1>4. CASE RetryChild
  <2>1. ~Idle /\ Top.at = "child" /\ Call("retry") /\ UNCHANGED growthVars
    BY <1>0, <1>4 DEF RetryChild
  <2>2. Len(stack) \in 1..Len(stack) /\ Top = stack[Len(stack)]
    BY <2>1, FramesOfDeletion
  <2>3. Top.id \in Live
    BY <2>1, <2>2, CallerInUse
  <2>4. Kept
    BY ONLY <2>1, <2>3, ReuseInv, ReuseCall DEF Kept
  <2> QED
    BY <2>4
<1>5. CASE FreeDocument
  BY <1>0, <1>5, ReuseFree
<1> QED
  BY <1>0, <1>1, <1>2, <1>3, <1>4, <1>5 DEF DeleteStep


-----------------------------------------------------------------------------
(* The data area after document d of z cells has been written at pos, as   *)
(* number id under parent: its own cells, the parent's block with the new  *)
(* child, and everything else as it was.                                   *)
HoldsDocument(area, id, parent, d, pos, z) ==
    /\ area \in [DataArea \cup pos..(pos + z - 1) -> Cells]
    /\ area[pos] = NewMeta(id, parent, d)
    /\ \A k \in 2..z : area[pos + k - 1] = [doc |-> d, at |-> k]
    /\ \A j \in Placed \ {id} : area[inode[j].pos] = BlockAfterInsert(j, parent, id)
    /\ \A a \in DataArea \ (pos..(pos + z - 1)) :
          (\A j \in Placed \ {id} : a # inode[j].pos) => area[a] = disk[a]

(* The block of a new document, and of a parent with a new child.          *)
LEMMA NewBlocks ==
    ASSUME ReuseInv, NEW id \in Ids, NEW parent \in Links, NEW d \in Documents,
           AcceptsParent(parent)
    PROVE  /\ NewMeta(id, parent, d) \in Metas
           /\ NewMeta(id, parent, d).id = id /\ NewMeta(id, parent, d).doc = d
           /\ NewMeta(id, parent, d).size = DocSize[d]
           /\ NewMeta(id, parent, d).child = NoDoc
           /\ parent # NoDoc => parent \in Live /\ parent \in Placed
           /\ \A j \in Placed :
                 /\ BlockAfterInsert(j, parent, id) \in Metas
                 /\ BlockAfterInsert(j, parent, id).id = j
                 /\ BlockAfterInsert(j, parent, id).doc = MetaOf(j).doc
                 /\ BlockAfterInsert(j, parent, id).size = MetaOf(j).size
                 /\ BlockAfterInsert(j, parent, id).child =
                       IF j = parent THEN id ELSE Child(j)
<1>1. parent # NoDoc => parent \in Live /\ parent \in Placed
  BY Constants DEF AcceptsParent, Status, Live, Placed, Links
<1>2. (IF parent = NoDoc THEN NoDoc ELSE MetaOf(parent).child) \in Links
  BY <1>1, PlacedBlock DEF Links, Child
<1>3. DocSize[d] \in Nat \ {0} /\ NoDoc \in Links /\ id \in Links
  BY Constants DEF Links
<1>4. /\ NewMeta(id, parent, d) \in Metas
      /\ NewMeta(id, parent, d).id = id /\ NewMeta(id, parent, d).doc = d
      /\ NewMeta(id, parent, d).size = DocSize[d]
      /\ NewMeta(id, parent, d).child = NoDoc
  BY ONLY <1>2, <1>3, id \in Ids, d \in Documents DEF NewMeta, Metas
<1>5. ASSUME NEW j \in Placed
      PROVE  /\ BlockAfterInsert(j, parent, id) \in Metas
             /\ BlockAfterInsert(j, parent, id).id = j
             /\ BlockAfterInsert(j, parent, id).doc = MetaOf(j).doc
             /\ BlockAfterInsert(j, parent, id).size = MetaOf(j).size
             /\ BlockAfterInsert(j, parent, id).child = IF j = parent THEN id ELSE Child(j)
  <2>1. MetaOf(j) \in Metas /\ MetaOf(j).id = j
    BY PlacedBlock
  <2> QED
    BY ONLY <1>3, <2>1 DEF BlockAfterInsert, Metas, Child
<1> QED
  BY <1>1, <1>4, <1>5

(* writeDocument leaves such a data area, wherever there is room.          *)
LEMMA WrittenWhereRoom ==
    ASSUME ReuseInv, NEW id \in Ids, NEW parent \in Links, NEW d \in Documents,
           NEW pos \in Nat, NEW z \in Nat \ {0}, z = DocSize[d],
           AcceptsParent(parent), id \notin Live,
           \A j \in Placed \ {id} : Block(j) \cap pos..(pos + z - 1) = {}
    PROVE  HoldsDocument(WithDocument(NewMeta(id, parent, d), pos, parent),
                         id, parent, d, pos, z)
<1> DEFINE area == WithDocument(NewMeta(id, parent, d), pos, parent)
           meta == NewMeta(id, parent, d)
           written == pos..(pos + z - 1)
           plain == WriteAt(disk, pos, Image(meta))
<1>1. /\ meta \in Metas /\ meta.id = id /\ meta.size = z /\ meta.doc = d
      /\ parent # NoDoc => parent \in Live /\ parent \in Placed \ {id}
  BY NewBlocks
<1> HIDE DEF meta
<1>2. /\ Image(meta) \in [1..z -> Cells] /\ Len(Image(meta)) = z /\ Image(meta)[1] = meta
      /\ \A k \in 2..z : Image(meta)[k] = [doc |-> d, at |-> k]
  <2>1. Image(meta) = [k \in 1..z |-> IF k = 1 THEN meta ELSE [doc |-> d, at |-> k]]
    BY <1>1 DEF Image
  <2>2. \A k \in 1..z : [doc |-> d, at |-> k] \in Elements
    BY DEF Elements
  <2> QED
    BY <1>1, <2>1, <2>2 DEF Cells
<1>3. disk \in [DataArea -> Cells]
  BY ReuseFacts
<1>4. /\ plain \in [DataArea \cup written -> Cells]
      /\ plain[pos] = meta /\ pos \in written
      /\ \A k \in 2..z : plain[pos + k - 1] = [doc |-> d, at |-> k]
      /\ \A a \in DataArea \ written : plain[a] = disk[a]
  <2>1. plain = [a \in DataArea \cup written |->
                    IF a \in written THEN Image(meta)[a - pos + 1] ELSE disk[a]]
    BY <1>2, <1>3 DEF WriteAt
  <2>2. \A a \in written : a - pos + 1 \in 1..z
    OBVIOUS
  <2>3. pos \in written /\ pos - pos + 1 = 1
    OBVIOUS
  <2>4. \A k \in 2..z : pos + k - 1 \in written /\ (pos + k - 1) - pos + 1 = k
    OBVIOUS
  <2> HIDE DEF written, plain
  <2> QED
    BY ONLY <1>2, <1>3, <2>1, <2>2, <2>3, <2>4
<1>5. \A k \in 2..z : pos + k - 1 \in written /\ pos + k - 1 # pos
  OBVIOUS
<1> HIDE DEF plain
<1>6. \A j \in Placed \ {id} : inode[j].pos \in DataArea \ written
  BY PlacedBlock
<1>7. \A j \in Placed \ {id} : plain[inode[j].pos] = MetaOf(j)
  BY <1>4, <1>6 DEF MetaOf
<1> HIDE DEF written
<1>8. CASE parent = NoDoc
  <2>1. area = plain
    BY <1>8 DEF WithDocument, plain, meta
  <2>2. \A j \in Placed : j # parent
    BY <1>8, Constants DEF Placed
  <2> QED
    BY <1>4, <1>7, <2>1, <2>2 DEF HoldsDocument, BlockAfterInsert, meta, written
<1>9. CASE parent # NoDoc
  <2> DEFINE at == inode[parent].pos
             block == [MetaOf(parent) EXCEPT !.child = id]
  <2>1. area = [plain EXCEPT ![at] = block]
    BY <1>1, <1>9 DEF WithDocument, plain, meta
  <2>2. block \in Cells
    <3>1. MetaOf(parent) \in Metas /\ id \in Links
      BY <1>1, <1>9, PlacedBlock DEF Links
    <3> QED
      BY ONLY <3>1 DEF Metas, Cells
  <2>3. at \in DataArea \ written /\ parent \in Placed \ {id}
    BY <1>1, <1>6, <1>9
  <2>4. \A j \in Placed \ {id} : j # parent => inode[j].pos # at
    BY <2>3, NothingShared, PlacedBlock
  <2>5. \A j \in Placed \ {id} :
           BlockAfterInsert(j, parent, id) = IF j = parent THEN block ELSE MetaOf(j)
    BY DEF BlockAfterInsert
  <2> HIDE DEF at, block
  <2>6. /\ area \in [DataArea \cup written -> Cells] /\ area[pos] = meta
        /\ \A k \in 2..z : area[pos + k - 1] = [doc |-> d, at |-> k]
    BY <1>4, <1>5, <2>1, <2>2, <2>3
  <2>7. \A j \in Placed \ {id} : area[inode[j].pos] = IF j = parent THEN block ELSE MetaOf(j)
    BY <1>4, <1>6, <1>7, <2>1, <2>3, <2>4 DEF at
  <2>8. \A a \in DataArea \ written :
           (\A j \in Placed \ {id} : a # inode[j].pos) => area[a] = disk[a]
    BY <1>4, <2>1, <2>3 DEF at
  <2> HIDE DEF area
  <2>9. HoldsDocument(area, id, parent, d, pos, z)
    BY <2>5, <2>6, <2>7, <2>8 DEF HoldsDocument, meta, written
  <2> QED
    BY <2>9 DEF area
<1> QED
  BY <1>8, <1>9


(* A step that puts document d into use as number id, and no other. *)
Stored(id, d) ==
    /\ id \in Ids \ Live /\ Live' = Live \cup {id}
    /\ MetaOf(id)'.doc = d
    /\ \A j \in Live : MetaOf(j)'.doc = MetaOf(j).doc

(* A free inode goes into use with a document where there is room for it.  *)
LEMMA PlacedInRoom ==
    ASSUME ReuseInv, growth.at \in {"none", "grown"},
           NEW id \in Table, NEW parent \in Links, NEW d \in Documents,
           NEW pos \in Nat, NEW z \in Nat \ {0}, z = DocSize[d], NEW end \in Nat,
           AcceptsParent(parent), id \notin Live,
           \A j \in Placed \ {id} : Block(j) \cap pos..(pos + z - 1) = {},
           id \in Placed => inode[id].pos = pos,
           Begin <= pos, pos + z <= end, header.endPosition <= end,
           header' \in Headers, header'.endPosition = end, header'.count = header.count,
           DataArea' = DataArea \cup pos..(pos + z - 1),
           disk' = WithDocument(NewMeta(id, parent, d), pos, parent),
           inode' \in [Ids -> Inodes], \A j \in Ids \ {id} : inode'[j] = inode[j],
           inode'[id].status = CLOSE, inode'[id].pos = pos,
           growth' = NoGrowth, firstPosition' = firstPosition
    PROVE  /\ disk' \in [DataArea' -> Cells]
           /\ BlocksKept' /\ NoStaleBlock' /\ CellsIntact' /\ NoChildCycle'
           /\ Stored(id, d) /\ TableEnd' = TableEnd /\ Table' = Table
           /\ \A j \in Placed \ {id} : MetaOf(j)' = BlockAfterInsert(j, parent, id)
<1> DEFINE written == pos..(pos + z - 1)
           meta == NewMeta(id, parent, d)
<1>0. /\ id \in Ids /\ Placed \subseteq Ids /\ Live \subseteq Placed
      /\ Placed \subseteq Table /\ OPEN # CLOSE
  BY ReuseFacts, Constants DEF Placed
<1>1. HoldsDocument(disk', id, parent, d, pos, z)
  <2>1. HoldsDocument(WithDocument(NewMeta(id, parent, d), pos, parent), id, parent, d, pos, z)
    BY <1>0, WrittenWhereRoom
  <2> QED
    BY <2>1
<1>2. /\ disk' \in [DataArea' -> Cells]
      /\ disk'[pos] = meta
      /\ \A k \in 2..z : disk'[pos + k - 1] = [doc |-> d, at |-> k]
      /\ \A j \in Placed \ {id} : disk'[inode[j].pos] = BlockAfterInsert(j, parent, id)
      /\ \A a \in DataArea \ written :
            (\A j \in Placed \ {id} : a # inode[j].pos) => disk'[a] = disk[a]
  BY <1>1 DEF HoldsDocument
<1>3. /\ meta \in Metas /\ meta.id = id /\ meta.doc = d /\ meta.size = z /\ meta.child = NoDoc
      /\ \A j \in Placed :
            /\ BlockAfterInsert(j, parent, id) \in Metas
            /\ BlockAfterInsert(j, parent, id).id = j
            /\ BlockAfterInsert(j, parent, id).doc = MetaOf(j).doc
            /\ BlockAfterInsert(j, parent, id).size = MetaOf(j).size
            /\ BlockAfterInsert(j, parent, id).child = IF j = parent THEN id ELSE Child(j)
  BY <1>0, NewBlocks
<1> HIDE DEF meta
<1>4. Placed' = Placed \cup {id} /\ Live' = Live \cup {id}
  BY <1>0 DEF Placed, Live
<1>5. \A j \in Placed \ {id} : MetaOf(j)' = BlockAfterInsert(j, parent, id)
  BY <1>0, <1>2 DEF MetaOf
<1>6. MetaOf(id)' = meta
  BY <1>2 DEF MetaOf
<1>7. \A j \in Placed \ {id} : Block(j)' = Block(j)
  <2> TAKE j \in Placed \ {id}
  <2>1. MetaOf(j)'.size = MetaOf(j).size /\ inode'[j].pos = inode[j].pos
    BY <1>0, <1>3, <1>5
  <2> QED
    BY <2>1 DEF Block
<1>8. Block(id)' = written
  BY <1>3, <1>6 DEF Block
<1>9. /\ TableEnd' = TableEnd /\ Table' = Table /\ Begin' = Begin
  BY ReuseFacts DEF TableEnd, Table, Begin, FirstBlock, NoGrowth
<1>10. Stored(id, d)
  BY <1>0, <1>3, <1>4, <1>5, <1>6 DEF Stored
<1>11. BlocksKept'
  <2>1. ASSUME NEW j \in Placed'
        PROVE  /\ MetaOf(j)' \in Metas /\ MetaOf(j)'.id = j
               /\ MetaOf(j)'.size = DocSize[MetaOf(j)'.doc]
    <3>1. CASE j = id
      BY <1>3, <1>6, <3>1
    <3>2. CASE j # id
      <4>1. j \in Placed \ {id} /\ MetaOf(j).size = DocSize[MetaOf(j).doc]
        BY <1>4, <3>2, PlacedBlock
      <4> QED
        BY <1>3, <1>5, <4>1
    <3> QED
      BY <3>1, <3>2
  <2>2. ASSUME NEW j \in Placed' PROVE Block(j)' \subseteq Begin..(end - 1)
    <3>0. PICK b \in Nat, e \in Nat : b = Begin /\ e = header.endPosition
      BY ReuseFacts
    <3>1. CASE j = id
      <4>1. written \subseteq b..(end - 1)
        BY ONLY <3>0, Begin <= pos, pos + z <= end, b \in Nat, pos \in Nat, z \in Nat \ {0}, end \in Nat
      <4> QED
        BY <1>8, <3>0, <3>1, <4>1
    <3>2. CASE j # id
      <4>1. j \in Placed \ {id}
        BY <1>4, <3>2
      <4>2. Block(j)' \subseteq b..(e - 1)
        BY <1>7, <3>0, <4>1 DEF ReuseInv, BlocksKept
      <4>3. b..(e - 1) \subseteq b..(end - 1)
        BY ONLY <3>0, header.endPosition <= end, b \in Nat, e \in Nat, end \in Nat
      <4> QED
        BY <3>0, <4>2, <4>3
    <3> QED
      BY <3>1, <3>2
  <2>3. ASSUME NEW j \in Placed', NEW k \in Placed', j # k PROVE Block(j)' \cap Block(k)' = {}
    <3>1. CASE j # id /\ k # id
      BY <1>4, <1>7, <2>3, <3>1, NothingShared
    <3>2. CASE j = id
      BY <1>4, <1>7, <1>8, <2>3, <3>2
    <3>3. CASE k = id
      BY <1>4, <1>7, <1>8, <2>3, <3>3
    <3> QED
      BY <3>1, <3>2, <3>3
  <2>4. DataStart <= TableEnd' /\ TableEnd' <= Begin' /\ Begin' <= header'.endPosition
    <3>1. /\ DataStart <= TableEnd /\ TableEnd <= Begin /\ Begin <= header.endPosition
          /\ Begin \in Nat /\ header.endPosition \in Nat
      BY ReuseFacts
    <3>2. Begin <= end
      BY ONLY <3>1, header.endPosition <= end, end \in Nat
    <3> QED
      BY <1>9, <3>1, <3>2
  <2> QED
    BY <1>0, <1>4, <1>9, <2>1, <2>2, <2>3, <2>4 DEF BlocksKept
<1>12. CellsIntact'
  <2> SUFFICES ASSUME NEW j \in Live', NEW k \in 2..MetaOf(j)'.size
               PROVE  disk'[inode'[j].pos + k - 1] = [doc |-> MetaOf(j)'.doc, at |-> k]
    BY DEF CellsIntact
  <2>1. CASE j = id
    BY <1>2, <1>3, <1>6, <2>1
  <2>2. CASE j # id
    <3>1. j \in Live /\ j \in Placed \ {id} /\ inode'[j] = inode[j] /\ j \in Ids
      BY <1>0, <1>4, <2>2
    <3>2. MetaOf(j)'.doc = MetaOf(j).doc /\ MetaOf(j)'.size = MetaOf(j).size
      BY <1>3, <1>5, <3>1
    <3>3. PICK p \in Nat, s \in Nat \ {0} : p = inode[j].pos /\ s = MetaOf(j).size
      BY <3>1, PlacedBlock
    <3>4. k \in 2..s /\ k \in 1..s /\ p + k - 1 # p
      BY <3>2, <3>3
    <3>5. disk[p + k - 1] = [doc |-> MetaOf(j).doc, at |-> k]
      BY <3>1, <3>3, <3>4 DEF ReuseInv, CellsIntact
    <3>6. p + k - 1 \in Block(j) /\ Block(j) \subseteq DataArea /\ Block(j) \cap written = {}
      BY <3>1, <3>3, <3>4, CellOfBlock, PlacedBlock
    <3>7. \A m \in Placed \ {id} : p + k - 1 # inode[m].pos
      <4> TAKE m \in Placed \ {id}
      <4>1. CASE m = j
        BY <3>3, <3>4, <4>1
      <4>2. CASE m # j
        <5>1. inode[m].pos \notin Block(j)
          BY <3>1, <4>2, NothingShared
        <5> QED
          BY <3>6, <5>1
      <4> QED
        BY <4>1, <4>2
    <3>8. disk'[p + k - 1] = disk[p + k - 1]
      BY <1>2, <3>6, <3>7
    <3> QED
      BY <3>1, <3>2, <3>3, <3>5, <3>8
  <2> QED
    BY <2>1, <2>2
<1>13. NoStaleBlock'
  <2> SUFFICES ASSUME NEW a \in DataArea', a >= Begin, disk'[a] \in Metas
               PROVE  \E j \in Placed' : inode'[j].pos = a
    BY <1>9 DEF NoStaleBlock
  <2>1. CASE a \in written
    <3>1. CASE a = pos
      BY <1>4, <3>1
    <3>2. CASE a # pos
      <4>1. a - pos + 1 \in 2..z /\ a = pos + (a - pos + 1) - 1 /\ a - pos + 1 \in Nat
        BY ONLY <2>1, <3>2, pos \in Nat, z \in Nat \ {0}
      <4>2. disk'[a] = [doc |-> d, at |-> a - pos + 1]
        BY <1>2, <4>1
      <4> QED
        BY <4>1, <4>2, OnlyBlocksAreBlocks
    <3> QED
      BY <3>1, <3>2
  <2>2. CASE a \notin written
    <3>1. a \in DataArea \ written
      BY <2>2
    <3>2. CASE \E j \in Placed \ {id} : a = inode[j].pos
      BY <1>0, <1>4, <3>2
    <3>3. CASE \A j \in Placed \ {id} : a # inode[j].pos
      <4>1. disk[a] \in Metas
        BY <1>2, <3>1, <3>3
      <4>2. PICK i \in Placed : inode[i].pos = a
        BY <3>1, <4>1 DEF ReuseInv, NoStaleBlock
      <4>3. a = pos /\ pos \in written
        BY <3>3, <4>2
      <4> QED
        BY <2>2, <4>3
    <3> QED
      BY <3>2, <3>3
  <2> QED
    BY <2>1, <2>2
<1>14. NoChildCycle'
  <2> SUFFICES ASSUME NEW S \in SUBSET Placed', S # {}
               PROVE  \E i \in S : Child(i)' \notin S
    BY DEF NoChildCycle
  <2>1. NoDoc \notin S
    BY <1>0, <1>4, Constants
  <2>2. CASE id \in S
    <3>1. Child(id)' = NoDoc
      BY <1>3, <1>6 DEF Child
    <3> QED
      BY <2>1, <2>2, <3>1
  <2>3. CASE id \notin S
    <3>1. S \in SUBSET Placed /\ growth.at # "failed"
      BY <1>4, <2>3
    <3>2. PICK i \in S : Child(i) \notin S
      BY <3>1 DEF ReuseInv, OneCall, NoChildCycle
    <3>3. i \in Placed \ {id} /\ Child(i)' = IF i = parent THEN id ELSE Child(i)
      BY <1>3, <1>5, <2>3, <3>1 DEF Child
    <3> QED
      BY <2>3, <3>2, <3>3
  <2> QED
    BY <2>2, <2>3
<1> QED
  BY <1>2, <1>5, <1>9, <1>10, <1>11, <1>12, <1>13, <1>14


(* ... and with its node the list loses nothing that it says truly.        *)
LEMMA PlacedAndUnlisted ==
    ASSUME ReuseInv, growth.at \in {"none", "grown"}, stack = << >>, ~backNull,
           NEW id \in Table, NEW parent \in Links, NEW d \in Documents,
           /\ disk' \in [DataArea' -> Cells]
           /\ BlocksKept' /\ NoStaleBlock' /\ CellsIntact' /\ NoChildCycle'
           /\ Stored(id, d) /\ TableEnd' = TableEnd /\ Table' = Table
           /\ \A j \in Placed \ {id} : MetaOf(j)' = BlockAfterInsert(j, parent, id),
           AcceptsParent(parent),
           inode' \in [Ids -> Inodes], \A j \in Ids \ {id} : inode'[j] = inode[j],
           header' \in Headers, header'.count = header.count, diskHeader' \in Headers,
           list' \in Seq(Nodes(Table)), NodesOn(list') \subseteq NodesOn(list),
           \A node \in NodesOn(list') : node.index # id,
           Once(list'), Sorted(list'),
           stack' = stack, result' \in BOOLEAN,
           growth' = NoGrowth, firstPosition' = firstPosition, backNull' = backNull
    PROVE  ReuseInv' /\ Stored(id, d)
<1>1. parent # NoDoc => parent \in Live
  BY Constants DEF AcceptsParent, Status, Live, Links
<1>2. ASSUME NEW node \in NodesOn(list') PROVE NodeMatches(node)'
  <2>1. /\ node \in NodesOn(list) /\ node.index # id
        /\ node.index \in Ids /\ inode[node.index].status # CLOSE
    BY ReuseFacts, Constants DEF NodeMatches
  <2>2. inode'[node.index] = inode[node.index]
    BY <2>1
  <2>3. node.index \in Placed => MetaOf(node.index)' = MetaOf(node.index)
    <3>1. node.index # parent
      BY <1>1, <2>1, Constants DEF Live
    <3> QED
      BY <2>1, <3>1 DEF BlockAfterInsert
  <2> QED
    BY <2>1, <2>2, <2>3, NodeStaysTrue
<1>3. ListSound'
  BY <1>2 DEF ListSound, NodesOn, Once, Sorted
<1>4. OneCall'
  BY DEF OneCall, StackChained
<1>5. GrowthMayRely'
  BY DEF GrowthMayRely, NoGrowth
<1>6. GrowthTypeOK'
  <2>1. header'.count <= MaxInodes /\ stack' \in Seq(Frames) /\ backNull' \in BOOLEAN
        /\ firstPosition' \in 0..(InodeSize - 1) /\ growth' \in Growths
    BY ReuseFacts DEF Growths
  <2>2. list' \in Seq([index : Table', size : Nat])
    BY DEF Nodes
  <2> QED
    BY <2>1, <2>2 DEF GrowthTypeOK, Cells
<1> QED
  BY <1>3, <1>4, <1>5, <1>6 DEF ReuseInv

(* writeDocument reuses the largest gap: it is as large as the document it *)
(* held, and the new one is not larger.                                    *)
LEMMA ReuseInsertIntoGap ==
    ASSUME ReuseInv, growth = NoGrowth, NEW parent \in Links, NEW d \in Documents,
           InsertIntoGap(parent, d), UNCHANGED growthVars
    PROVE  ReuseInv' /\ \E id \in Table : Stored(id, d)
<1>1. /\ stack = << >> /\ AcceptsParent(parent) /\ list # << >>
      /\ growth.at = "none" /\ ~backNull
  BY DEF InsertIntoGap, FitsGap, Idle, NoGrowth, ReuseInv, OneCall
<1>2. PICK z \in Nat \ {0} : z = DocSize[d] /\ list[1].size >= z
  BY Constants DEF InsertIntoGap, FitsGap
<1>3. /\ list[1] \in Nodes(Table) /\ list[1] \in NodesOn(list)
      /\ NodesOn(PopMaxSizeNode(list)) \subseteq NodesOn(list)
      /\ \A node \in NodesOn(PopMaxSizeNode(list)) : node.index # list[1].index
      /\ Once(PopMaxSizeNode(list)) /\ Sorted(PopMaxSizeNode(list))
      /\ PopMaxSizeNode(list) \in Seq(Nodes(Table))
  BY <1>1, ReuseFacts, PopMaxNodes, PopMaxProperties
<1>4. PICK id \in Table : id = list[1].index
  BY <1>3 DEF Nodes
<1>5. /\ id \in Ids /\ inode[id].status = REMOVE /\ id \in Placed /\ id \notin Live
      /\ list[1].size = MetaOf(id).size
  <2>1. inode[id].status = REMOVE
    BY <1>4 DEF InsertIntoGap
  <2>2. NodeMatches(list[1]) /\ id \in Ids
    BY <1>3, ReuseFacts
  <2> QED
    BY <1>4, <2>1, <2>2, Constants DEF NodeMatches, Placed, Live
<1>6. PICK pos \in Nat, s \in Nat \ {0} :
          /\ pos = inode[id].pos /\ s = MetaOf(id).size /\ z <= s
          /\ Begin <= pos /\ pos + s <= header.endPosition
          /\ Block(id) = pos..(pos + s - 1) /\ Block(id) \subseteq DataArea
  <2>1. z <= MetaOf(id).size
    BY <1>2, <1>5, PlacedBlock
  <2> QED
    BY <1>5, <2>1, PlacedBlock DEF Block
<1>7. PICK end \in Nat : end = header.endPosition
  BY ReuseFacts
<1>8. /\ inode' = [inode EXCEPT ![id].status = CLOSE]
      /\ list' = PopMaxSizeNode(list)
      /\ disk' = WithDocument(NewMeta(id, parent, d), pos, parent)
      /\ header' = WithRoot(header, id)
      /\ diskHeader' = IF header.root = NoDoc THEN header' ELSE diskHeader
      /\ result' = TRUE /\ stack' = stack
  BY <1>4, <1>6 DEF InsertIntoGap
<1>9. /\ header' \in Headers /\ header'.endPosition = end /\ header'.count = header.count
      /\ diskHeader' \in Headers
  <2>1. header \in Headers /\ id \in Links /\ diskHeader \in Headers
    BY <1>5, ReuseFacts DEF Links, ReuseInv, GrowthTypeOK
  <2> QED
    BY ONLY <1>7, <1>8, <2>1 DEF WithRoot, Headers
<1>10. /\ inode' \in [Ids -> Inodes] /\ \A j \in Ids \ {id} : inode'[j] = inode[j]
       /\ inode'[id].status = CLOSE /\ inode'[id].pos = pos
  <2>1. inode \in [Ids -> Inodes]
    BY ReuseFacts
  <2> QED
    BY ONLY <1>5, <1>6, <1>8, <2>1 DEF Inodes
<1>11. pos..(pos + z - 1) \subseteq pos..(pos + s - 1) /\ pos + z <= end
  <2>1. z <= s /\ pos + s <= end
    BY <1>6, <1>7
  <2> QED
    BY ONLY <2>1, pos \in Nat, z \in Nat \ {0}, s \in Nat \ {0}, end \in Nat
<1>12. \A j \in Placed \ {id} : Block(j) \cap pos..(pos + z - 1) = {}
  BY <1>5, <1>6, <1>11, NothingShared
<1>13. DataArea' = DataArea \cup pos..(pos + z - 1)
  BY <1>6, <1>7, <1>9, <1>11 DEF DataArea
<1>14. growth' = NoGrowth /\ firstPosition' = firstPosition /\ backNull' = backNull
  BY DEF growthVars
<1>15. /\ disk' \in [DataArea' -> Cells]
       /\ BlocksKept' /\ NoStaleBlock' /\ CellsIntact' /\ NoChildCycle'
       /\ Stored(id, d) /\ TableEnd' = TableEnd /\ Table' = Table
       /\ \A j \in Placed \ {id} : MetaOf(j)' = BlockAfterInsert(j, parent, id)
  <2>1. /\ growth.at \in {"none", "grown"} /\ header.endPosition <= end /\ Begin <= pos
        /\ z = DocSize[d] /\ AcceptsParent(parent) /\ id \notin Live
        /\ id \in Placed => inode[id].pos = pos
        /\ disk' = WithDocument(NewMeta(id, parent, d), pos, parent)
    BY <1>1, <1>2, <1>5, <1>6, <1>7, <1>8
  <2> QED
    BY ONLY ReuseInv, <2>1, id \in Table, parent \in Links, d \in Documents, pos \in Nat,
            z \in Nat \ {0}, end \in Nat, <1>9, <1>10, <1>11, <1>12, <1>13, <1>14, PlacedInRoom
<1>16. ReuseInv' /\ Stored(id, d)
  <2>1. /\ list' \in Seq(Nodes(Table)) /\ NodesOn(list') \subseteq NodesOn(list)
        /\ \A node \in NodesOn(list') : node.index # id
        /\ Once(list') /\ Sorted(list') /\ result' \in BOOLEAN
        /\ growth.at \in {"none", "grown"}
    BY <1>1, <1>3, <1>4, <1>8
  <2> QED
    BY ONLY ReuseInv, <1>1, <1>8, <1>9, <1>10, <1>14, <1>15, <2>1, id \in Table,
            parent \in Links, d \in Documents, PlacedAndUnlisted
<1> QED
  BY <1>16


(* The inode at the back of the list has no place: it gets one behind all  *)
(* the others.                                                             *)
LEMMA ReusePlaceAtEnd ==
    ASSUME ReuseInv, growth.at \in {"none", "grown"}, stack = << >>, ~backNull,
           NEW parent \in Links, NEW d \in Documents, AcceptsParent(parent),
           list # << >>, Last(list).size = 0, PlaceAtEnd(parent, d),
           growth' = NoGrowth, UNCHANGED <<firstPosition, backNull>>
    PROVE  ReuseInv' /\ \E id \in Table : Stored(id, d)
<1>1. PICK z \in Nat \ {0} : z = DocSize[d]
  BY Constants
<1>2. PICK pos \in Nat : pos = header.endPosition /\ Begin <= pos
  BY ReuseFacts
<1>3. /\ Last(list) \in Nodes(Table) /\ Last(list) \in NodesOn(list)
      /\ NodesOn(PopMinSizeNode(list)) \subseteq NodesOn(list)
      /\ \A node \in NodesOn(PopMinSizeNode(list)) : node.index # Last(list).index
      /\ Once(PopMinSizeNode(list)) /\ Sorted(PopMinSizeNode(list))
      /\ PopMinSizeNode(list) \in Seq(Nodes(Table))
  BY ReuseFacts, PopMinNodes, PopMinProperties
<1>4. PICK id \in Table : id = Last(list).index
  BY <1>3 DEF Nodes
<1>5. id \in Ids /\ id \notin Placed /\ id \notin Live
  <2>1. NodeMatches(Last(list)) /\ id \in Ids
    BY <1>3, ReuseFacts
  <2>2. inode[id].status = REMOVE => id \in Placed /\ MetaOf(id).size = 0
    BY <1>4, <2>1, Constants DEF NodeMatches, Placed
  <2>3. inode[id].status = OPEN
    BY <1>4, <2>1, <2>2, PlacedBlock DEF NodeMatches
  <2> QED
    BY <2>1, <2>3, Constants DEF Placed, Live
<1>6. /\ inode' = [inode EXCEPT ![id] = [status |-> CLOSE, pos |-> pos, size |-> z]]
      /\ list' = PopMinSizeNode(list)
      /\ disk' = WithDocument(NewMeta(id, parent, d), pos, parent)
      /\ header' = WithRoot([header EXCEPT !.endPosition = pos + z], id)
      /\ diskHeader' = header' /\ result' = TRUE /\ stack' = stack
  BY <1>1, <1>2, <1>4 DEF PlaceAtEnd
<1>7. /\ header' \in Headers /\ header'.endPosition = pos + z /\ header'.count = header.count
      /\ diskHeader' \in Headers
  <2>1. header \in Headers /\ id \in Links /\ pos + z \in Nat
    BY <1>5, ReuseFacts DEF Links
  <2> QED
    BY ONLY <1>6, <2>1 DEF WithRoot, Headers
<1>8. /\ inode' \in [Ids -> Inodes] /\ \A j \in Ids \ {id} : inode'[j] = inode[j]
      /\ inode'[id].status = CLOSE /\ inode'[id].pos = pos
  <2>1. inode \in [Ids -> Inodes]
    BY ReuseFacts
  <2>2. [status |-> CLOSE, pos |-> pos, size |-> z] \in Inodes
    BY DEF Inodes
  <2> QED
    BY ONLY <1>5, <1>6, <2>1, <2>2
<1>9. DataArea' = DataArea \cup pos..(pos + z - 1)
  <2>1. DataStart \in Nat /\ DataStart <= pos
    <3>1. DataStart \in Nat /\ DataStart <= Begin /\ Begin \in Nat
      BY ReuseFacts
    <3> QED
      BY ONLY <1>2, <3>1, pos \in Nat
  <2>2. DataArea = DataStart..(pos - 1) /\ DataArea' = DataStart..(pos + z - 1)
    BY <1>2, <1>7 DEF DataArea
  <2> QED
    BY ONLY <2>1, <2>2, pos \in Nat, z \in Nat \ {0}
<1>10. \A j \in Placed \ {id} : Block(j) \cap pos..(pos + z - 1) = {}
  <2> TAKE j \in Placed \ {id}
  <2>1. PICK b \in Nat : b = Begin
    BY ReuseFacts
  <2>2. Block(j) \subseteq b..(pos - 1)
    BY <1>2, <2>1 DEF ReuseInv, BlocksKept
  <2> QED
    BY ONLY <2>2, pos \in Nat, z \in Nat \ {0}, b \in Nat
<1>11. /\ disk' \in [DataArea' -> Cells]
       /\ BlocksKept' /\ NoStaleBlock' /\ CellsIntact' /\ NoChildCycle'
       /\ Stored(id, d) /\ TableEnd' = TableEnd /\ Table' = Table
       /\ \A j \in Placed \ {id} : MetaOf(j)' = BlockAfterInsert(j, parent, id)
  <2>1. PICK end \in Nat : end = pos + z
    OBVIOUS
  <2>2. /\ header.endPosition <= end /\ Begin <= pos /\ pos + z <= end
        /\ id \in Placed => inode[id].pos = pos
        /\ header' \in Headers /\ header'.endPosition = end /\ header'.count = header.count
        /\ disk' = WithDocument(NewMeta(id, parent, d), pos, parent)
        /\ firstPosition' = firstPosition
    BY <1>2, <1>5, <1>6, <1>7, <2>1
  <2> QED
    BY ONLY ReuseInv, <1>1, <2>2, id \in Table, parent \in Links, d \in Documents, pos \in Nat,
            z \in Nat \ {0}, end \in Nat, <1>5, <1>8, <1>9, <1>10, AcceptsParent(parent),
            growth.at \in {"none", "grown"}, growth' = NoGrowth, PlacedInRoom
<1>12. ReuseInv' /\ Stored(id, d)
  <2>1. /\ list' \in Seq(Nodes(Table)) /\ NodesOn(list') \subseteq NodesOn(list)
        /\ \A node \in NodesOn(list') : node.index # id
        /\ Once(list') /\ Sorted(list') /\ result' \in BOOLEAN
        /\ growth.at \in {"none", "grown"}
        /\ stack = << >> /\ ~backNull /\ stack' = stack /\ AcceptsParent(parent)
        /\ growth' = NoGrowth /\ firstPosition' = firstPosition /\ backNull' = backNull
    BY <1>3, <1>4, <1>6
  <2> QED
    BY ONLY ReuseInv, <1>7, <1>8, <1>11, <2>1, id \in Table,
            parent \in Links, d \in Documents, PlacedAndUnlisted
<1> QED
  BY <1>12

(* The three ways a document gets into the file. *)
LEMMA ReuseInsert ==
    ASSUME ReuseInv, InsertStep \/ PlaceAfterGrowth
    PROVE  ReuseInv' /\ \E id \in Table, d \in Documents : Stored(id, d)
<1>1. CASE InsertStep
  <2>1. Parents \subseteq Links
    BY ReuseFacts DEF Parents
  <2>2. ASSUME NEW parent \in Parents, NEW d \in Documents, growth = NoGrowth,
               InsertIntoGap(parent, d), UNCHANGED growthVars
        PROVE  ReuseInv' /\ \E id \in Table : Stored(id, d)
    BY <2>1, <2>2, ReuseInsertIntoGap
  <2>3. ASSUME NEW parent \in Parents, NEW d \in Documents, growth = NoGrowth,
               InsertAtEnd(parent, d), UNCHANGED growthVars
        PROVE  ReuseInv' /\ \E id \in Table : Stored(id, d)
    <3>1. /\ stack = << >> /\ AcceptsParent(parent) /\ list # << >> /\ Last(list).size = 0
          /\ PlaceAtEnd(parent, d) /\ growth.at \in {"none", "grown"} /\ ~backNull
      BY <2>3 DEF InsertAtEnd, FitsEnd, Idle, NoGrowth, ReuseInv, OneCall
    <3>2. growth' = NoGrowth /\ UNCHANGED <<firstPosition, backNull>> /\ parent \in Links
      BY <2>1, <2>3 DEF growthVars
    <3> QED
      BY ONLY ReuseInv, <3>1, <3>2, d \in Documents, ReusePlaceAtEnd
  <2> QED
    BY <1>1, <2>2, <2>3 DEF InsertStep
<1>2. CASE PlaceAfterGrowth
  <2>1. /\ growth.at = "grown" /\ ~backNull /\ PlaceAtEnd(growth.parent, growth.doc)
        /\ growth' = NoGrowth /\ UNCHANGED <<firstPosition, backNull>>
    BY <1>2 DEF PlaceAfterGrowth
  <2>2. /\ growth.parent \in Links /\ growth.doc \in Documents /\ growth # NoGrowth
        /\ stack = << >> /\ AcceptsParent(growth.parent)
        /\ \E node \in NodesOn(list) : node.size = 0
    BY <2>1, ReuseGrowthFields DEF NoGrowth, ReuseInv, OneCall, GrowthMayRely, UnplacedAtHand
  <2>3. list # << >>
    BY <2>2 DEF NodesOn
  <2>4. Last(list).size = 0
    BY <2>2, <2>3, ReuseFacts, PopMinNodes
  <2> QED
    BY <2>1, <2>2, <2>3, <2>4, ReusePlaceAtEnd
<1> QED
  BY <1>1, <1>2


-----------------------------------------------------------------------------
(* Each new inode takes the number behind the last one and its cells from  *)
(* the space that was found, where no block begins.                        *)
LEMMA ReuseWriteNewListNode ==
    ASSUME ReuseInv, WriteNewListNode
    PROVE  ReuseInv' /\ Live' = Live /\ \A j \in Placed : MetaOf(j)' = MetaOf(j)
<1>1. PICK n \in Nat : n = header.count
  BY ReuseFacts
<1>2. PICK z \in Nat \ {0} : z = InodeSize
  BY Constants
<1>3. growth.at = "listing" /\ growth.left > 0 /\ growth # NoGrowth
  BY DEF WriteNewListNode, NoGrowth
<1>4. PICK left \in Nat \ {0} : left = growth.left
  <2>1. growth.left \in Nat /\ growth.left > 0
    BY <1>3, ReuseGrowthFields
  <2> QED
    BY ONLY <2>1
<1>5. PICK node : /\ node = CreateNode(n, 0) /\ node.index = n /\ node.size = 0
                  /\ \A I : n \in I => node \in Nodes(I)
  <2>1. /\ CreateNode(n, 0).index = n /\ CreateNode(n, 0).size = 0
        /\ \A I : n \in I => CreateNode(n, 0) \in Nodes(I)
    BY DEF CreateNode, Nodes
  <2> QED
    BY <2>1
<1>6. /\ disk' = [a \in DOMAIN disk |-> IF a < TableEnd + z THEN TableCell ELSE disk[a]]
      /\ list' = Linked(list, node, backNull) /\ backNull' = backNull
      /\ header' = [header EXCEPT !.count = n + 1]
      /\ growth' = [growth EXCEPT !.left = left - 1]
      /\ UNCHANGED <<diskHeader, inode, stack, result, firstPosition>>
  BY <1>1, <1>2, <1>4, <1>5 DEF WriteNewListNode, Number, BackAfter
<1>7. n + left <= MaxInodes /\ MaxInodes \in Nat /\ AcceptsParent(growth.parent)
  BY <1>1, <1>3, <1>4, Constants DEF ReuseInv, GrowthMayRely
<1>8. /\ header' \in Headers /\ header'.count = n + 1 /\ header'.root = header.root
      /\ header'.endPosition = header.endPosition
  <2>1. header \in Headers
    BY ReuseFacts
  <2> QED
    BY ONLY <1>6, <2>1, n \in Nat DEF Headers
<1>9. Table = 0..(n - 1) /\ Table' = 0..n /\ Table' = Table \cup {n} /\ n \notin Table
  <2>1. Table = 0..(n - 1) /\ Table' = 0..(n + 1 - 1)
    BY <1>1, <1>8 DEF Table
  <2> QED
    BY ONLY <2>1, n \in Nat
<1>10. n \in Ids /\ Table' \subseteq Ids /\ n \notin Placed
  <2>1. Ids = 0..(MaxInodes - 1)
    BY Constants
  <2>2. n \in Ids /\ Table' \subseteq Ids
    BY ONLY <1>7, <1>9, <2>1, n \in Nat, left \in Nat \ {0}
  <2> QED
    BY <1>9, <2>2, ReuseFacts
<1>11. Live' = Live /\ Placed' = Placed /\ DataArea' = DataArea /\ Placed \subseteq Ids
  BY <1>6, <1>8 DEF Live, Placed, DataArea
<1>12. /\ growth' \in Growths /\ growth'.at = "listing" /\ growth'.left = left - 1
       /\ growth'.parent = growth.parent /\ growth' # NoGrowth
  <2>1. growth \in [at : {"listing"}, left : Nat, parent : Links, doc : Documents]
    <3>1. growth \in Growths
      BY DEF ReuseInv, GrowthTypeOK
    <3> QED
      BY ONLY <1>3, <3>1 DEF Growths, NoGrowth
  <2>2. left - 1 \in Nat
    OBVIOUS
  <2> QED
    BY ONLY <1>6, <2>1, <2>2 DEF Growths, NoGrowth
(* The table grows by a size, and what is still to be written shrinks by one. *)
<1>13. /\ TableEnd' = TableEnd + z /\ TableEnd \in Nat /\ Begin' = Begin
       /\ TableEnd + z <= Begin /\ Begin \in Nat
  <2>1. PICK cells \in Nat : cells = z * n /\ z * (n + 1) = cells + z
    BY ONLY Multiples, n \in Nat, z \in Nat \ {0}
  <2>2. PICK rest \in Nat : rest = z * (left - 1) /\ z * left = rest + z
    <3>1. left - 1 \in Nat /\ left - 1 + 1 = left
      OBVIOUS
    <3>2. z * (left - 1) \in Nat /\ z * (left - 1 + 1) = z * (left - 1) + z
      BY ONLY Multiples, <3>1, z \in Nat \ {0}
    <3> QED
      BY ONLY <3>1, <3>2
  <2>3. /\ TableEnd = HeadSize + cells /\ TableEnd' = HeadSize + (cells + z)
        /\ HeadSize \in Nat
    BY <1>1, <1>2, <1>8, <2>1, Constants DEF TableEnd
  <2>4. /\ Begin = TableEnd + firstPosition + z * left
        /\ Begin' = TableEnd' + firstPosition + z * (left - 1)
    BY <1>2, <1>3, <1>4, <1>6, <1>12 DEF Begin, FirstBlock
  <2>5. firstPosition \in Nat
    BY ReuseFacts, Constants
  <2> QED
    BY ONLY <2>1, <2>2, <2>3, <2>4, <2>5, z \in Nat \ {0}
<1>14. /\ disk' \in [DataArea' -> Cells]
       /\ \A a \in DataArea : a >= Begin => disk'[a] = disk[a]
  <2>1. disk \in [DataArea -> Cells] /\ DataArea \subseteq Int
    BY ReuseFacts DEF DataArea
  <2>2. \A a \in Int : a >= Begin => ~(a < TableEnd + z)
    BY ONLY <1>13, z \in Nat \ {0}
  <2>3. disk' \in [DataArea' -> Cells]
    BY ONLY <1>6, <1>11, <2>1 DEF Cells
  <2> QED
    BY ONLY <1>6, <2>1, <2>2, <2>3
<1>15. \A j \in Placed : \A a \in Block(j) : disk'[a] = disk[a]
  <2> TAKE j \in Placed
  <2>1. Block(j) \subseteq DataArea /\ Block(j) \subseteq Begin..(header.endPosition - 1)
    BY PlacedBlock DEF ReuseInv, BlocksKept
  <2>2. \A a \in Block(j) : a >= Begin
    BY <2>1
  <2> QED
    BY <1>14, <2>1, <2>2
<1>16. \A j \in Placed : MetaOf(j)' = MetaOf(j)
  BY <1>6, <1>15, PlacedBlock DEF MetaOf
<1>17. \A j \in Placed : Block(j)' = Block(j)
  BY <1>6, <1>16 DEF Block
<1>18. BlocksKept'
  <2>1. \A j \in Placed : /\ MetaOf(j)' \in Metas /\ MetaOf(j)'.id = j
                          /\ MetaOf(j)'.size = DocSize[MetaOf(j)'.doc]
                          /\ Block(j)' \subseteq Begin..(header.endPosition - 1)
    BY <1>16, <1>17 DEF ReuseInv, BlocksKept
  <2>2. \A j, k \in Placed : j # k => Block(j)' \cap Block(k)' = {}
    BY <1>17 DEF ReuseInv, BlocksKept
  <2>3. Placed' \subseteq Table'
    BY <1>9, <1>11, ReuseFacts
  <2>4. DataStart <= TableEnd' /\ TableEnd' <= Begin' /\ Begin' <= header'.endPosition
    <3>1. DataStart <= TableEnd /\ DataStart \in Nat /\ Begin <= header.endPosition
      BY ReuseFacts
    <3> QED
      BY ONLY <1>8, <1>13, <3>1, z \in Nat \ {0}
  <2> QED
    BY <1>8, <1>11, <1>13, <2>1, <2>2, <2>3, <2>4 DEF BlocksKept
<1>19. NoStaleBlock'
  <2> SUFFICES ASSUME NEW a \in DataArea, a >= Begin, disk'[a] \in Metas
               PROVE  \E j \in Placed : inode[j].pos = a
    BY <1>6, <1>11, <1>13 DEF NoStaleBlock
  <2>1. disk[a] \in Metas
    BY <1>14
  <2> QED
    BY <1>3, <2>1 DEF ReuseInv, NoStaleBlock
<1>20. CellsIntact'
  <2> SUFFICES ASSUME NEW j \in Live, NEW k \in 2..MetaOf(j).size
               PROVE  disk'[inode[j].pos + k - 1] = [doc |-> MetaOf(j).doc, at |-> k]
    BY <1>6, <1>11, <1>16, ReuseFacts DEF CellsIntact
  <2>1. j \in Placed /\ k \in 1..MetaOf(j).size
    BY ReuseFacts, PlacedBlock
  <2>2. inode[j].pos + k - 1 \in Block(j)
    BY <2>1, CellOfBlock
  <2> QED
    BY <1>15, <2>1, <2>2 DEF ReuseInv, CellsIntact
<1>21. /\ list' \in Seq(Nodes(Table')) /\ NodesOn(list) \subseteq NodesOn(list')
       /\ NodesOn(list') \subseteq NodesOn(list) \cup {node}
       /\ ~backNull => node \in NodesOn(list')
       /\ Once(list') /\ Sorted(list')
  <2>1. list \in Seq(Nodes(Table'))
    <3> DEFINE T == Nodes(Table')
    <3>1. list \in Seq(Nodes(Table)) /\ Nodes(Table) \subseteq T
      BY <1>9, ReuseFacts DEF Nodes
    <3>2. list \in [1..Len(list) -> Nodes(Table)] /\ Len(list) \in Nat
      BY <3>1, LenProperties
    <3>3. list \in [1..Len(list) -> T]
      BY <3>1, <3>2
    <3> HIDE DEF T
    <3>4. list \in Seq(T)
      BY <3>2, <3>3, SeqDef
    <3> QED
      BY <3>4 DEF T
  <2>2. /\ Once(list) /\ Sorted(list) /\ backNull \in BOOLEAN /\ node \in Nodes(Table')
        /\ \A m \in NodesOn(list) : m.index # node.index
    BY <1>5, <1>9, ReuseFacts
  <2>3. LET l == Linked(list, node, backNull)
        IN  /\ l \in Seq(Nodes(Table')) /\ NodesOn(list) \subseteq NodesOn(l)
            /\ NodesOn(l) \subseteq NodesOn(list) \cup {node}
            /\ ~backNull => node \in NodesOn(l)
            /\ Once(l) /\ Sorted(l)
    BY ONLY <2>1, <2>2, LinkedNodes
  <2> QED
    BY <1>6, <2>3
<1>22. ListSound'
  <2>1. \A m \in NodesOn(list) : NodeMatches(m)'
    <3> TAKE m \in NodesOn(list)
    <3>1. inode'[m.index].status = inode[m.index].status
      BY <1>6
    <3> QED
      BY <1>16, <3>1, NodeStaysTrue
  <2>2. NodeMatches(node)'
    <3>1. inode[n].status = OPEN
      BY <1>10 DEF Placed
    <3> QED
      BY <1>5, <1>6, <3>1 DEF NodeMatches
  <2>3. \A m \in NodesOn(list') : NodeMatches(m)'
    BY <1>21, <2>1, <2>2
  <2> QED
    BY <1>21, <2>3 DEF ListSound, NodesOn, Once, Sorted
<1>23. OneCall'
  BY <1>3, <1>6, <1>11, <1>12, <1>16, MoveKeepsCalls
<1>24. GrowthMayRely'
  <2>1. n + 1 + (left - 1) <= MaxInodes
    BY ONLY <1>7, n \in Nat, left \in Nat \ {0}
  <2>2. UnplacedAtHand'
    BY <1>5, <1>6, <1>21 DEF UnplacedAtHand, NodesOn
  <2>3. AcceptsParent(growth.parent)'
    BY <1>6, <1>7, <1>12 DEF AcceptsParent, Status
  <2> QED
    BY <1>6, <1>7, <1>8, <1>12, <2>1, <2>2, <2>3 DEF GrowthMayRely, AcceptsParent, Status
<1>25. GrowthTypeOK'
  <2>1. header'.count <= MaxInodes
    BY ONLY <1>7, <1>8, n \in Nat, left \in Nat \ {0}
  <2>2. /\ diskHeader' \in Headers /\ inode' \in [Ids -> Inodes] /\ stack' \in Seq(Frames)
        /\ result' \in BOOLEAN /\ firstPosition' \in 0..(InodeSize - 1) /\ backNull' \in BOOLEAN
    BY <1>6 DEF ReuseInv, GrowthTypeOK
  <2>3. list' \in Seq([index : Table', size : Nat])
    BY <1>21 DEF Nodes
  <2> QED
    BY <1>8, <1>12, <1>14, <2>1, <2>2, <2>3 DEF GrowthTypeOK, Cells
<1> QED
  BY <1>11, <1>16, <1>18, <1>19, <1>20, <1>22, <1>23, <1>24, <1>25 DEF ReuseInv

(* A growth that fails gives the parent a child, number 0, and harms no    *)
(* document otherwise.                                                     *)
LEMMA ReuseGrowthFails ==
    ASSUME ReuseInv, GrowthFails
    PROVE  ReuseInv' /\ Live' = Live /\ \A j \in Live : MetaOf(j)'.doc = MetaOf(j).doc
<1>1. PICK parent \in Links : parent = growth.parent /\ growth.at = "moving"
  BY ReuseGrowthFields DEF GrowthFails, Moving
<1>2. /\ disk' = IF parent = NoDoc THEN disk ELSE [disk EXCEPT ![inode[parent].pos].child = 0]
      /\ result' = TRUE /\ growth' = [at |-> "failed"]
      /\ UNCHANGED <<header, diskHeader, inode, list, stack, firstPosition, backNull>>
  BY <1>1 DEF GrowthFails
<1>3. AcceptsParent(parent) /\ growth # NoGrowth /\ stack = << >>
  BY <1>1 DEF ReuseInv, GrowthMayRely, OneCall, NoGrowth
<1>4. parent # NoDoc => parent \in Live /\ parent \in Placed
  BY <1>3, Constants DEF AcceptsParent, Status, Live, Placed, Links
<1>5. growth'.at = "failed" /\ growth' \in Growths /\ growth' # NoGrowth
  BY <1>2 DEF Growths, NoGrowth
<1>6. /\ Live' = Live /\ Placed' = Placed /\ DataArea' = DataArea /\ Table' = Table
      /\ TableEnd' = TableEnd
  BY <1>2 DEF Live, Placed, DataArea, Table, TableEnd
<1>7. /\ TableEnd' <= Begin' /\ Begin' <= Begin /\ Begin' \in Nat /\ Begin \in Nat
      /\ TableEnd \in Nat
  <2>1. PICK s \in Nat, f \in Nat, t \in Nat, b \in Nat :
           /\ s = growth.space /\ f = firstPosition /\ t = TableEnd /\ b = Begin
           /\ b = t + s /\ f <= s
    <3>1. growth.space \in Nat /\ firstPosition \in Nat /\ TableEnd \in Nat /\ Begin \in Nat
      BY <1>1, ReuseGrowthFields, ReuseFacts, Constants
    <3>2. Begin = TableEnd + growth.space /\ firstPosition <= growth.space
      BY <1>1 DEF ReuseInv, GrowthMayRely, Begin
    <3> QED
      BY <3>1, <3>2
  <2>2. Begin' = t + f
    BY <1>2, <1>5, <1>6, <2>1 DEF Begin, FirstBlock
  <2> QED
    BY ONLY <1>6, <2>1, <2>2, s \in Nat, f \in Nat, t \in Nat, b \in Nat
<1>8. ASSUME NEW j \in Placed
      PROVE  /\ disk'[inode[j].pos] \in Metas /\ disk'[inode[j].pos].id = j
             /\ disk'[inode[j].pos].size = MetaOf(j).size
             /\ disk'[inode[j].pos].doc = MetaOf(j).doc
  <2>1. MetaOf(j) \in Metas /\ MetaOf(j).id = j
    BY PlacedBlock
  <2>2. CASE j = parent
    <3>1. inode[j].pos \in DataArea /\ disk \in [DataArea -> Cells] /\ 0 \in Links
      <4>1. 0 \in Links
        BY Constants DEF Links
      <4> QED
        BY <4>1, PlacedBlock, ReuseFacts
    <3>2. j # NoDoc
      BY Constants DEF Placed
    <3>3. disk'[inode[j].pos] = [MetaOf(j) EXCEPT !.child = 0]
      BY <1>2, <2>2, <3>1, <3>2 DEF MetaOf
    <3> QED
      BY ONLY <2>1, <3>1, <3>3 DEF Metas
  <2>3. CASE j # parent
    <3>1. parent # NoDoc => inode[j].pos # inode[parent].pos
      BY <1>4, <2>3, NothingShared, PlacedBlock
    <3>2. disk'[inode[j].pos] = MetaOf(j)
      BY <1>2, <3>1, PlacedBlock, ReuseFacts DEF MetaOf
    <3> QED
      BY <2>1, <3>2
  <2> QED
    BY <2>2, <2>3
<1>9. \A j \in Placed : /\ MetaOf(j)' \in Metas /\ MetaOf(j)'.id = j
                        /\ MetaOf(j)'.size = MetaOf(j).size /\ MetaOf(j)'.doc = MetaOf(j).doc
                        /\ Block(j)' = Block(j)
  BY <1>2, <1>8 DEF MetaOf, Block
<1>10. disk' \in [DataArea' -> Cells]
  <2>1. disk \in [DataArea -> Cells]
    BY ReuseFacts
  <2>2. parent # NoDoc =>
           /\ disk'[inode[parent].pos] \in Cells /\ inode[parent].pos \in DataArea
           /\ disk' = [disk EXCEPT ![inode[parent].pos] = disk'[inode[parent].pos]]
    <3>1. parent # NoDoc =>
             disk'[inode[parent].pos] \in Cells /\ inode[parent].pos \in DataArea
      BY <1>4, <1>8, PlacedBlock DEF Cells
    <3> QED
      BY <1>2, <2>1, <3>1
  <2> QED
    BY <1>2, <1>6, <2>1, <2>2
<1>11. BlocksKept'
  <2>1. \A j \in Placed : Block(j)' \subseteq Begin'..(header'.endPosition - 1)
    <3> TAKE j \in Placed
    <3>1. Block(j) \subseteq Begin..(header.endPosition - 1) /\ header.endPosition \in Nat
      BY ReuseFacts DEF ReuseInv, BlocksKept
    <3> QED
      BY <1>2, <1>7, <1>9, <3>1
  <2>2. \A j \in Placed : MetaOf(j)'.size = DocSize[MetaOf(j)'.doc]
    BY <1>9, PlacedBlock
  <2>3. \A j, k \in Placed : j # k => Block(j)' \cap Block(k)' = {}
    BY <1>9, NothingShared
  <2>4. DataStart <= TableEnd' /\ Begin' <= header'.endPosition /\ Placed' \subseteq Table'
    <3>1. /\ DataStart <= TableEnd /\ Begin <= header.endPosition /\ Placed \subseteq Table
          /\ header.endPosition \in Nat
      BY ReuseFacts
    <3> QED
      BY <1>2, <1>6, <1>7, <3>1
  <2> QED
    BY <1>6, <1>7, <1>9, <2>1, <2>2, <2>3, <2>4 DEF BlocksKept
<1>12. CellsIntact'
  <2> SUFFICES ASSUME NEW j \in Live, NEW k \in 2..MetaOf(j).size
               PROVE  disk'[inode[j].pos + k - 1] = [doc |-> MetaOf(j).doc, at |-> k]
    <3>1. \A j \in Live : /\ MetaOf(j)'.size = MetaOf(j).size /\ MetaOf(j)'.doc = MetaOf(j).doc
                          /\ inode'[j].pos = inode[j].pos
      BY <1>2, <1>9, ReuseFacts
    <3> QED
      BY <1>6, <3>1 DEF CellsIntact
  <2>0. j \in Placed
    BY ReuseFacts
  <2>1. PICK p \in Nat, z \in Nat \ {0} : p = inode[j].pos /\ z = MetaOf(j).size /\ j \in Placed
    BY <2>0, PlacedBlock
  <2>2. k \in 1..z /\ p + k - 1 # p
    BY <2>1
  <2>3. p + k - 1 \in Block(j)
    BY <2>1, <2>2, CellOfBlock
  <2>4. parent # NoDoc => p + k - 1 # inode[parent].pos
    BY <1>4, <2>1, <2>2, <2>3, NothingShared
  <2>5. disk'[p + k - 1] = disk[p + k - 1]
    BY <1>2, <2>1, <2>3, <2>4, PlacedBlock, ReuseFacts
  <2> QED
    BY <2>1, <2>5 DEF ReuseInv, CellsIntact
<1>13. NoStaleBlock' /\ GrowthMayRely'
  BY <1>5 DEF NoStaleBlock, GrowthMayRely
<1>14. ListSound'
  <2>1. \A m \in NodesOn(list) : NodeMatches(m)'
    <3> TAKE m \in NodesOn(list)
    <3>1. m.index \in Ids /\ NodeMatches(m) /\ OPEN # REMOVE
      BY ReuseFacts, Constants
    <3>2. inode[m.index].status = REMOVE => m.index \in Placed
      BY <3>1 DEF Placed
    <3> QED
      BY <1>2, <1>9, <3>1, <3>2 DEF NodeMatches
  <2> QED
    BY <1>2, <2>1, ReuseFacts DEF ListSound, NodesOn, Once, Sorted
<1>15. OneCall'
  BY <1>2, <1>3, <1>5 DEF OneCall, StackChained
<1>16. GrowthTypeOK'
  BY <1>2, <1>5, <1>6, <1>10 DEF ReuseInv, GrowthTypeOK, Cells
<1> QED
  BY <1>6, <1>9, <1>11, <1>12, <1>13, <1>14, <1>15, <1>16, ReuseFacts DEF ReuseInv


-----------------------------------------------------------------------------
(* A step on which no document changes hands. *)
Keeps == Live' = Live /\ \A j \in Live : MetaOf(j)'.doc = MetaOf(j).doc

(* A step that takes document id, and no other, out of use. *)
Removed(id) ==
    /\ id \in Live /\ Live' = Live \ {id}
    /\ \A j \in Live : MetaOf(j)'.doc = MetaOf(j).doc

(* Nothing changes at all: the loop that goes round, a file left as it is. *)
LEMMA ReuseStutter ==
    ASSUME ReuseInv, UNCHANGED allVars
    PROVE  ReuseInv' /\ Live' = Live /\ \A j \in Placed : MetaOf(j)' = MetaOf(j)
<1>1. /\ UNCHANGED <<header, diskHeader, inode, disk, list, stack, result>>
      /\ UNCHANGED <<firstPosition, backNull, growth>>
  BY DEF allVars, fileVars, growthVars
<1>2. Begin' = Begin
  BY <1>1 DEF Begin, FirstBlock, TableEnd
<1>3. OneCall'
  BY <1>1 DEF ReuseInv, OneCall, NoChildCycle, StackChained, Placed, Child, MetaOf, Status
<1>4. GrowthMayRely'
  BY <1>1 DEF ReuseInv, GrowthMayRely, AcceptsParent, Status, UnplacedAtHand, NodesOn, TableEnd
<1> QED
  BY <1>1, <1>2, <1>3, <1>4, FileUntouched, ReuseFacts DEF ReuseInv, GrowthTypeOK

(* The steps of a growth, until the document that needed it is placed.     *)
LEMMA ReuseGrowthStep ==
    ASSUME ReuseInv, GrowthStep, ~PlaceAfterGrowth, ~GrowthFails
    PROVE  ReuseInv' /\ Live' = Live /\ \A j \in Live : MetaOf(j)' = MetaOf(j)
<1>0. Live \subseteq Placed
  BY ReuseFacts
<1>1. CASE RemoveGapInWay
  BY <1>1, ReuseRemoveGap
<1>2. CASE SpinOnGapInWay
  BY <1>0, <1>2, ReuseStutter DEF SpinOnGapInWay
<1>3. CASE MoveToGap
  BY <1>3, ReuseMoveToGap
<1>4. CASE MoveToEnd
  BY <1>4, ReuseMoveToEnd
<1>5. CASE SpaceFound
  BY <1>0, <1>5, ReuseSpaceFound
<1>6. CASE WriteNewListNode
  BY <1>0, <1>6, ReuseWriteNewListNode
<1>7. CASE EndGrowth
  BY <1>0, <1>7, ReuseEndGrowth
<1>8. CASE CrashAfterGrowth
  BY <1>0, <1>8, ReuseCrash
<1> QED
  BY <1>1, <1>2, <1>3, <1>4, <1>5, <1>6, <1>7, <1>8 DEF GrowthStep

(* Every step preserves the invariant; it stores a document, takes one     *)
(* away, or leaves all of them as they were.                               *)
LEMMA ReuseStep ==
    ASSUME ReuseInv, [GrowthNext]_allVars
    PROVE  /\ ReuseInv'
           /\ \/ Keeps
              \/ \E id \in Table, d \in Documents : Stored(id, d)
              \/ \E id \in Live : Removed(id)
<1>0. Live \subseteq Placed
  BY ReuseFacts
<1>1. CASE InsertStep \/ PlaceAfterGrowth
  BY <1>1, ReuseInsert
<1>2. CASE \E parent \in Parents, d \in Documents : StartGrowth(parent, d)
  BY <1>0, <1>2, ReuseStartGrowth DEF Keeps
<1>3. CASE GrowthStep /\ ~PlaceAfterGrowth
  <2>1. CASE GrowthFails
    BY <2>1, ReuseGrowthFails DEF Keeps
  <2>2. CASE ~GrowthFails
    BY <1>3, <2>2, ReuseGrowthStep DEF Keeps
  <2> QED
    BY <2>1, <2>2
<1>4. CASE \E id \in Table : CallDelete(id)
  BY <1>0, <1>4, ReuseCallDelete DEF Keeps
<1>5. CASE ContinueDelete
  <2>1. ReuseInv' /\ \A j \in Live : MetaOf(j)' = MetaOf(j)
    BY <1>0, <1>5, ReuseDelete
  <2>2. CASE Live' = Live
    BY <2>1, <2>2 DEF Keeps
  <2>3. CASE Top.id \in Live /\ Live' = Live \ {Top.id}
    <3>1. Removed(Top.id)
      BY <2>1, <2>3 DEF Removed
    <3> QED
      BY <2>1, <2>3, <3>1
  <2> QED
    BY <1>5, <2>2, <2>3, ReuseDelete
<1>6. CASE Stopped \/ UNCHANGED allVars
  BY <1>0, <1>6, ReuseStutter DEF Stopped, Keeps
<1> QED
  BY <1>1, <1>2, <1>3, <1>4, <1>5, <1>6 DEF GrowthNext, GrowOnlyNext

(* The invariant holds in every file, grown or not, however deletions and  *)
(* insertions alternate.                                                   *)
THEOREM ReuseInvariance == GrowthSpec => []ReuseInv
<1>1. GrowthInit => ReuseInv
  BY ReuseInitInvariant
<1>2. ReuseInv /\ [GrowthNext]_allVars => ReuseInv'
  BY ReuseStep
<1> QED
  BY <1>1, <1>2, PTL DEF GrowthSpec

(* What the program keeps of the file stays of its type: positions do not  *)
(* run out of the data area, the table does not outgrow its bound, and the *)
(* list names inodes of the table.                                         *)
THEOREM ReuseTypeCorrect == GrowthSpec => []GrowthTypeOK
<1>1. ReuseInv => GrowthTypeOK
  BY DEF ReuseInv
<1> QED
  BY ReuseInvariance, <1>1, PTL

(* However the list loses its back and inodes with it, it never offers an  *)
(* inode in use, nor one inode twice: no document is written over another  *)
(* because of the list.                                                    *)
THEOREM NoLiveInodeOffered == GrowthSpec => []NoLiveInodeListed
<1>1. ReuseInv => NoLiveInodeListed
  <2> SUFFICES ASSUME ReuseInv PROVE NoLiveInodeListed
    OBVIOUS
  <2>1. ASSUME NEW k \in DOMAIN list PROVE list[k].index \notin Live
    <3>1. list[k] \in NodesOn(list)
      BY DEF NodesOn
    <3> QED
      BY <3>1, ReuseFacts, Constants DEF NodeMatches, Live
  <2>2. Once(list)
    BY ReuseFacts
  <2> QED
    BY <2>1, <2>2 DEF NoLiveInodeListed, Once
<1> QED
  BY ReuseInvariance, <1>1, PTL

(* The table never reaches a document in use, with gaps and moves into     *)
(* gaps as without: writeNewListNode overwrites none.                      *)
THEOREM TableStaysApartWithGaps == GrowthSpec => []TableApart
<1>1. ReuseInv => TableApart
  <2> SUFFICES ASSUME ReuseInv, growth.at # "moving", NEW i \in Live
               PROVE  inode[i].pos >= FirstBlock
    BY DEF TableApart
  <2>1. Begin <= inode[i].pos /\ inode[i].pos \in Nat /\ Begin \in Nat /\ FirstBlock \in Nat
    BY PlacedBlock, ReuseFacts
  <2>2. FirstBlock <= Begin
    <3>1. CASE growth.at = "listing"
      <4>1. InodeSize * growth.left \in Nat
        BY <3>1, ReuseGrowthFields, Constants, Multiples
      <4> QED
        BY <2>1, <3>1, <4>1 DEF Begin
    <3>2. CASE growth.at # "listing"
      BY <2>1, <3>2 DEF Begin
    <3> QED
      BY <3>1, <3>2
  <2> QED
    BY ONLY <2>1, <2>2
<1> QED
  BY ReuseInvariance, <1>1, PTL

(* Moving documents into gaps or to the end, and extending the table, keep *)
(* number, size and links of every block in use.                           *)
THEOREM MovesKeepEveryBlockWithGaps == GrowthSpec => MovesKeepBlocks
<1>1. ASSUME ReuseInv, [GrowthNext]_allVars, growth.at \in {"moving", "listing"},
             growth'.at # "failed"
      PROVE  \A i \in Live : MetaOf(i)' = MetaOf(i)
  <2>0. Live \subseteq Placed /\ growth # NoGrowth /\ stack = << >>
    BY <1>1, ReuseFacts DEF NoGrowth, ReuseInv, OneCall
  <2>1. CASE GrowthStep
    <3>1. ~PlaceAfterGrowth /\ ~GrowthFails
      BY <1>1 DEF PlaceAfterGrowth, GrowthFails
    <3> QED
      BY <1>1, <2>1, <3>1, ReuseGrowthStep
  <2>2. CASE UNCHANGED allVars
    BY <1>1, <2>0, <2>2, ReuseStutter
  <2>3. ~InsertStep /\ \A parent \in Parents, d \in Documents : ~StartGrowth(parent, d)
    BY <2>0 DEF InsertStep, StartGrowth
  <2>4. ~ContinueDelete /\ (\A id \in Table : ~CallDelete(id)) /\ ~Stopped
    BY <1>1, <2>0 DEF ContinueDelete, DeleteStep, DeleteRejected, DeleteChild, RetryChild,
                      GiveUp, FreeDocument, Idle, CallDelete, Stopped
  <2> QED
    BY <1>1, <2>1, <2>2, <2>3, <2>4 DEF GrowthNext, GrowOnlyNext
<1> QED
  BY ReuseInvariance, <1>1, PTL DEF GrowthSpec, MovesKeepBlocks

-----------------------------------------------------------------------------
(* The table of documents the file stands for. *)
Docs == [i \in Ids |-> IF inode[i].status = CLOSE THEN ReadBack(i) ELSE << >>]

(* Every document in use reads back as it was inserted. *)
ReadAsInserted ==
    Docs = [i \in Ids |-> IF i \in Live THEN Content(MetaOf(i).doc) ELSE << >>]

(* It follows from the blocks and the cells behind them.                   *)
LEMMA ReusedReadsBack ==
    ASSUME ReuseInv
    PROVE  /\ ReadAsInserted
           /\ \A i \in Live : MetaOf(i).doc \in Documents
           /\ \A d \in Documents : Content(d) # << >>
<1>1. ASSUME NEW i \in Live
      PROVE  ReadBack(i) = Content(MetaOf(i).doc) /\ MetaOf(i).doc \in Documents
  <2>1. /\ MetaOf(i).size \in Nat \ {0} /\ MetaOf(i).size = DocSize[MetaOf(i).doc]
        /\ MetaOf(i).doc \in Documents
    BY ReuseFacts, PlacedBlock
  <2>2. \A k \in 2..MetaOf(i).size :
           disk[inode[i].pos + k - 1] = [doc |-> MetaOf(i).doc, at |-> k]
    BY DEF ReuseInv, CellsIntact
  <2> QED
    BY <2>1, <2>2 DEF ReadBack, Content
<1>2. \A d \in Documents : 1 \in DOMAIN Content(d)
  BY Constants DEF Content
<1> QED
  BY <1>1, <1>2 DEF ReadAsInserted, Docs, Live

(* The file implements the table of documents even while its inodes run    *)
(* out, documents are moved and the table is extended: each of them reads  *)
(* back as it was inserted, an insertion takes a free number, a deletion   *)
(* takes one document away, and everything else changes none.              *)
THEOREM ReuseRefinement == GrowthSpec => ImplementsDocStore
<1>1. GrowthInit => Store!Init
  <2> SUFFICES ASSUME GrowthInit PROVE Store!Init
    OBVIOUS
  <2>1. \A i \in Ids : inode[i].status # CLOSE
    BY Constants DEF GrowthInit
  <2> QED
    BY <2>1 DEF Store!Init
<1>2. ReuseInv => ReadAsInserted
  BY ReusedReadsBack
<1>3. ReuseInv' => ReadAsInserted'
  BY <1>2, PTL
<1>4. ASSUME ReuseInv, ReuseInv', [GrowthNext]_allVars
      PROVE  [Store!Next]_Docs
  <2>1. /\ Docs = [i \in Ids |-> IF i \in Live THEN Content(MetaOf(i).doc) ELSE << >>]
        /\ Docs' = [i \in Ids |-> IF i \in Live' THEN Content(MetaOf(i)'.doc) ELSE << >>]
        /\ \A i \in Live : MetaOf(i).doc \in Documents
        /\ \A d \in Documents : Content(d) # << >>
        /\ Live \subseteq Ids
    BY <1>4, <1>2, <1>3, ReusedReadsBack DEF Live, ReadAsInserted
  <2>2. CASE Keeps
    <3>1. Docs' = Docs
      BY <2>1, <2>2 DEF Keeps
    <3> QED
      BY <3>1
  <2>3. ASSUME NEW id \in Table, NEW d \in Documents, Stored(id, d)
        PROVE  Store!Next
    <3>1. id \in Ids /\ Docs[id] = << >>
      BY <2>1, <2>3 DEF Stored
    <3>2. Docs' = [Docs EXCEPT ![id] = Content(d)]
      BY <2>1, <2>3 DEF Stored
    <3>3. Docs'[id] = Content(d)
      BY <3>1, <3>2 DEF Docs
    <3>4. Store!Insert(id, Content(d))
      BY <3>1, <3>2, <3>3 DEF Store!Insert, Docs
    <3> QED
      BY <3>1, <3>4 DEF Store!Next
  <2>4. ASSUME NEW id \in Live, Removed(id)
        PROVE  Store!Next
    <3>1. id \in Ids /\ Docs[id] # << >>
      BY <2>1, <2>4
    <3>2. Docs' = [Docs EXCEPT ![id] = << >>]
      BY <2>1, <2>4 DEF Removed
    <3>3. Docs'[id] = << >>
      BY <3>1, <3>2 DEF Docs
    <3>4. Store!Delete(id)
      BY <3>1, <3>2, <3>3 DEF Store!Delete, Docs
    <3> QED
      BY <3>1, <3>4 DEF Store!Next
  <2> QED
    BY <1>4, <2>2, <2>3, <2>4, ReuseStep
<1> QED
  BY ReuseInvariance, <1>1, <1>4, PTL DEF GrowthSpec, ImplementsDocStore, Store!Spec, Docs

(* So does a file that only grows. *)
THEOREM GrowOnlyRefinement == GrowOnlySpec => ImplementsDocStore
<1>1. GrowOnlySpec => GrowthSpec
  <2>1. [GrowOnlyNext]_allVars => [GrowthNext]_allVars
    BY DEF GrowthNext
  <2> QED
    BY <2>1, PTL DEF GrowOnlySpec, GrowthSpec
<1> QED
  BY <1>1, ReuseRefinement
=============================================================================
