------------------------- MODULE InodeGrowthProofs -------------------------
(***************************************************************************)
(* In a file that only grows, the growth of the inode table damages no     *)
(* document, loses no inode and always finds the blocks it looks for: for  *)
(* every number of inodes a file is created with, every size of an inode,  *)
(* and every set of documents.                                             *)
(***************************************************************************)
EXTENDS InodeGrowthProps, FreeListProofs, FiniteSetTheorems

(* Where the documents begin, at the end of the growth in progress.        *)
Begin ==
    IF growth.at = "moving" THEN growth.pos
    ELSE IF growth.at = "listing" THEN FirstBlock + InodeSize * growth.left
    ELSE FirstBlock

(* Nothing that deletions bring about has happened.                        *)
OnlyGrown ==
    /\ \A i \in Ids : inode[i].status # REMOVE
    /\ stack = << >>
    /\ ~backNull
    /\ growth.at \notin {"crashed", "failed"}

(* Every inode in use leads to its own block, and the blocks lie one behind *)
(* the other from Begin to the end of the file.                            *)
BlocksTiled ==
    /\ Live \subseteq Table
    /\ \A i \in Live : /\ MetaOf(i) \in Metas /\ MetaOf(i).id = i
                       /\ MetaOf(i).size = inode[i].size
                       /\ MetaOf(i).size = DocSize[MetaOf(i).doc]
    /\ UNION {Extent(i) : i \in Live} = Begin..(header.endPosition - 1)
    /\ \A i, j \in Live : i # j => Extent(i) \cap Extent(j) = {}
    /\ DataStart <= TableEnd /\ TableEnd <= Begin /\ Begin <= header.endPosition

(* What the loops of reallocateNewInode and writeNewListNode can rely on.  *)
GrowthKnows ==
    /\ growth.at = "moving" =>
          /\ AcceptsParent(growth.parent)
          /\ growth.pos = TableEnd + growth.space
          /\ growth.pos < header.endPosition
          /\ growth.space < NeededSpace + DocSize[CHOOSE d \in Documents : IsLargest(d)]
          /\ list = << >>
          /\ header.count + LargestGrowth <= MaxInodes
    /\ growth.at = "listing" =>
          /\ AcceptsParent(growth.parent)
          /\ header.count + growth.left <= MaxInodes
          /\ list # << >> \/ growth.left > 0
    /\ growth.at = "grown" =>
          /\ AcceptsParent(growth.parent)
          /\ list # << >>

GrowInv ==
    /\ GrowthTypeOK /\ OnlyGrown /\ BlocksTiled
    /\ FreeInodesListed /\ Once(list) /\ GrowthKnows

-----------------------------------------------------------------------------
(* Whole numbers of inodes: n of them take n times their size, and a space *)
(* holds as many as the code computes, with a rest smaller than one.       *)
LEMMA Multiples ==
    ASSUME NEW size \in Nat \ {0}, NEW m \in Nat, NEW n \in Nat
    PROVE  /\ size * n \in Nat
           /\ size * (n + 1) = size * n + size
           /\ m <= n => size * m <= size * n
           /\ m < n => size * m < size * n
<1>1. size * n \in Nat /\ size * m \in Nat
  OBVIOUS
<1>2. size * (n + 1) = size * n + size
  OBVIOUS
<1>3. ASSUME m <= n PROVE size * m <= size * n
  BY <1>3
<1>4. ASSUME m < n PROVE size * m < size * n
  BY <1>4
<1> QED
  BY <1>1, <1>2, <1>3, <1>4

(* The quotient and the rest of a space. *)
LEMMA Division ==
    ASSUME NEW size \in Nat \ {0}, NEW s \in Nat
    PROVE  /\ s \div size \in Nat
           /\ s % size \in 0..(size - 1)
           /\ s = size * (s \div size) + (s % size)
  OBVIOUS

(* A larger space holds more inodes. *)
LEMMA DivisionMonotone ==
    ASSUME NEW size \in Nat \ {0}, NEW s \in Nat, NEW n \in Nat
    PROVE  /\ size * n <= s => n <= s \div size
           /\ s < size * (n + 1) => s \div size <= n
<1> DEFINE q == s \div size
           r == s % size
<1>1. q \in Nat /\ r \in 0..(size - 1) /\ s = size * q + r
  BY Division
<1> HIDE DEF q, r
<1>2. ASSUME size * n <= s, q < n PROVE FALSE
  <2>1. size * (q + 1) <= size * n /\ size * (q + 1) = size * q + size
    BY <1>1, <1>2, Multiples
  <2> QED
    BY <1>1, <1>2, <2>1
<1>3. ASSUME s < size * (n + 1), n < q PROVE FALSE
  <2>1. size * (n + 1) <= size * q
    BY <1>1, <1>3, Multiples
  <2> QED
    BY <1>1, <1>3, <2>1
<1> QED
  BY <1>1, <1>2, <1>3 DEF q

-----------------------------------------------------------------------------
(* What the assumption says of the constants. *)
LEMMA Constants ==
    /\ C_DEFAULT \in Nat \ {0} /\ MaxInodes \in Nat \ {0} /\ C_DEFAULT <= MaxInodes
    /\ HeadSize \in Nat /\ InodeSize \in Nat \ {0}
    /\ DataStart \in Nat \ {0} /\ NeededSpace \in Nat \ {0}
    /\ DocSize \in [Documents -> Nat \ {0}]
    /\ \A e \in Documents :
          DocSize[e] <= DocSize[CHOOSE d \in Documents : IsLargest(d)]
    /\ DocSize[CHOOSE d \in Documents : IsLargest(d)] \in Nat \ {0}
    /\ OPEN # CLOSE /\ OPEN # REMOVE /\ CLOSE # REMOVE
    /\ Ids = 0..(MaxInodes - 1) /\ NoDoc \notin Ids /\ Ids \subseteq Nat
<1>1. /\ C_DEFAULT \in Nat \ {0} /\ MaxInodes \in Nat \ {0} /\ C_DEFAULT <= MaxInodes
      /\ HeadSize \in Nat /\ InodeSize \in Nat \ {0}
      /\ OPEN # CLOSE /\ OPEN # REMOVE /\ CLOSE # REMOVE
  BY InodeGrowthAssumption
<1>2. DataStart \in Nat \ {0} /\ NeededSpace \in Nat \ {0}
  <2>1. InodeSize * C_DEFAULT \in Nat \ {0}
    BY <1>1
  <2> QED
    BY <1>1, <2>1 DEF DataStart, NeededSpace
<1>3. DocSize \in [Documents -> Nat \ {0}]
  <2>1. DocSize \in [Documents -> Nat] /\ \A d \in Documents : DocSize[d] > InodeSize
    BY InodeGrowthAssumption
  <2>2. \A d \in Documents : DocSize[d] \in Nat \ {0}
    BY <1>1, <2>1
  <2> QED
    BY <2>1, <2>2
<1>4. PICK d \in Documents : d = (CHOOSE e \in Documents : IsLargest(e)) /\ IsLargest(d)
  BY InodeGrowthAssumption
<1>5. Ids = 0..(MaxInodes - 1) /\ NoDoc \notin Ids /\ Ids \subseteq Nat
  BY <1>1 DEF Ids, NoDoc
<1> QED
  BY <1>1, <1>2, <1>3, <1>4, <1>5 DEF IsLargest

(* The growth in progress, field by field. *)
LEMMA GrowthFields ==
    ASSUME GrowInv
    PROVE  /\ growth.at \in {"none", "moving", "listing", "grown"}
           /\ growth.at = "none" <=> growth = NoGrowth
           /\ growth.at = "moving" => growth.pos \in Nat /\ growth.space \in Nat
           /\ growth.at = "listing" => growth.left \in Nat
           /\ growth.at # "none" => growth.parent \in Links /\ growth.doc \in Documents
  BY DEF GrowInv, GrowthTypeOK, OnlyGrown, Growths, NoGrowth

(* What the invariant says of numbers and inodes. *)
LEMMA Facts ==
    ASSUME GrowInv
    PROVE  /\ header \in Headers /\ header.count \in Nat /\ header.count <= MaxInodes
           /\ header.endPosition \in Nat /\ header.root \in Links
           /\ firstPosition \in 0..(InodeSize - 1)
           /\ TableEnd \in Nat /\ FirstBlock \in Nat /\ Begin \in Nat
           /\ DataStart <= TableEnd /\ TableEnd <= Begin /\ Begin <= header.endPosition
           /\ Table \subseteq Ids /\ Live \subseteq Table
           /\ inode \in [Ids -> Inodes]
           /\ \A i \in Ids : /\ inode[i].status \in {OPEN, CLOSE}
                             /\ inode[i].pos \in Nat /\ inode[i].size \in Nat
           /\ disk \in [DataArea -> Metas \cup Elements \cup {TableCell}]
           /\ stack = << >> /\ backNull = FALSE
           /\ list \in Seq(Nodes(Ids)) /\ Len(list) \in Nat /\ DOMAIN list = 1..Len(list)
           /\ \A k \in 1..Len(list) : list[k].index \in Table /\ list[k].size = 0
<1>1. /\ header \in Headers /\ header.count \in Nat /\ header.count <= MaxInodes
      /\ header.endPosition \in Nat /\ header.root \in Links
      /\ firstPosition \in 0..(InodeSize - 1)
      /\ inode \in [Ids -> Inodes]
      /\ disk \in [DataArea -> Metas \cup Elements \cup {TableCell}]
  BY DEF GrowInv, GrowthTypeOK, Headers
<1>2. stack = << >> /\ backNull = FALSE
  BY DEF GrowInv, GrowthTypeOK, OnlyGrown
<1>3. TableEnd \in Nat /\ FirstBlock \in Nat
  <2>1. PICK cells \in Nat : cells = InodeSize * header.count
    BY <1>1, Constants, Multiples
  <2>2. TableEnd = HeadSize + cells /\ FirstBlock = HeadSize + cells + firstPosition
    BY <2>1 DEF TableEnd, FirstBlock
  <2> QED
    BY <1>1, <2>2, Constants
<1>4. Begin \in Nat
  <2>1. growth.at = "listing" => InodeSize * growth.left \in Nat
    BY Constants, GrowthFields, Multiples
  <2> QED
    BY <1>3, <2>1, GrowthFields DEF Begin
<1>5. /\ DataStart <= TableEnd /\ TableEnd <= Begin /\ Begin <= header.endPosition
      /\ Live \subseteq Table
  BY DEF GrowInv, BlocksTiled
<1>6. Table \subseteq Ids
  BY <1>1, Constants DEF Table
<1>7. \A i \in Ids : /\ inode[i].status \in {OPEN, CLOSE}
                     /\ inode[i].pos \in Nat /\ inode[i].size \in Nat
  BY <1>1 DEF Inodes, GrowInv, OnlyGrown
<1>8. list \in Seq([index : Table, size : Nat]) /\ \A k \in DOMAIN list : list[k].size = 0
  BY DEF GrowInv, GrowthTypeOK, FreeInodesListed
<1>9. /\ Len(list) \in Nat /\ DOMAIN list = 1..Len(list)
      /\ list \in [1..Len(list) -> [index : Table, size : Nat]]
  BY <1>8, LenProperties
<1>10. [index : Table, size : Nat] \subseteq Nodes(Ids)
  BY <1>6 DEF Nodes
<1>11. list \in Seq(Nodes(Ids))
  <2> DEFINE T == Nodes(Ids)
  <2>1. list \in [1..Len(list) -> T]
    BY <1>9, <1>10
  <2> HIDE DEF T
  <2>2. list \in Seq(T)
    BY <1>9, <2>1, SeqDef
  <2> QED
    BY <2>2 DEF T
<1>12. \A k \in 1..Len(list) : list[k].index \in Table /\ list[k].size = 0
  BY <1>8, <1>9
<1> QED
  BY <1>1, <1>2, <1>3, <1>4, <1>5, <1>6, <1>7, <1>9, <1>11, <1>12

(* What the invariant says of the block of an inode in use. *)
LEMMA LiveBlock ==
    ASSUME GrowInv, NEW i \in Live
    PROVE  /\ i \in Ids /\ inode[i].status = CLOSE
           /\ MetaOf(i) \in Metas /\ MetaOf(i).id = i
           /\ MetaOf(i).size \in Nat \ {0} /\ MetaOf(i).size = inode[i].size
           /\ MetaOf(i).size <= DocSize[CHOOSE d \in Documents : IsLargest(d)]
           /\ inode[i].pos \in Nat /\ inode[i].pos \in Extent(i)
           /\ Extent(i) = inode[i].pos..(inode[i].pos + MetaOf(i).size - 1)
           /\ Begin <= inode[i].pos
           /\ inode[i].pos + MetaOf(i).size <= header.endPosition
<1>1. i \in Ids /\ inode[i].status = CLOSE
  BY DEF Live
<1>2. /\ MetaOf(i) \in Metas /\ MetaOf(i).id = i /\ MetaOf(i).size = inode[i].size
      /\ MetaOf(i).size = DocSize[MetaOf(i).doc]
  BY DEF GrowInv, BlocksTiled
<1>3. MetaOf(i).size \in Nat \ {0} /\ MetaOf(i).doc \in Documents
  BY <1>2 DEF Metas
<1>4. MetaOf(i).size <= DocSize[CHOOSE d \in Documents : IsLargest(d)]
  BY <1>2, <1>3, Constants
<1>5. inode[i].pos \in Nat /\ Begin \in Nat /\ header.endPosition \in Nat
  BY <1>1, Facts
<1>6. Extent(i) = inode[i].pos..(inode[i].pos + MetaOf(i).size - 1)
  BY <1>2 DEF Extent
<1>7. Extent(i) \subseteq Begin..(header.endPosition - 1)
  BY DEF GrowInv, BlocksTiled
<1>8. PICK p \in Nat, z \in Nat \ {0} : p = inode[i].pos /\ z = MetaOf(i).size
  BY <1>3, <1>5
<1>9. p \in Extent(i) /\ p + z - 1 \in Extent(i)
  BY <1>6, <1>8
<1>10. Begin <= p /\ p + z <= header.endPosition
  BY <1>5, <1>7, <1>8, <1>9
<1> QED
  BY <1>1, <1>2, <1>3, <1>4, <1>5, <1>6, <1>8, <1>9, <1>10

(* What the invariant says of the list. *)
LEMMA ListFacts ==
    ASSUME GrowInv
    PROVE  /\ Indexes(list) = Table \ Live /\ Len(list) = Cardinality(Table \ Live)
           /\ Once(list) /\ AllOfSize(list, 0)
           /\ IsFiniteSet(Table \ Live)
<1>1. IsFiniteSet(Table)
  <2>1. 0 \in Int /\ header.count - 1 \in Int
    BY Facts
  <2> QED
    BY <2>1, FS_Interval DEF Table
<1>2. IsFiniteSet(Table \ Live)
  BY <1>1, FS_Subset
<1> QED
  BY <1>2 DEF GrowInv, FreeInodesListed, Indexes, AllOfSize

-----------------------------------------------------------------------------
(* createFile: the table and the data area behind it are empty.            *)
LEMMA GrowInitInvariant ==
    ASSUME GrowthInit
    PROVE  GrowInv
<1> USE DEF GrowthInit
<1>0. C_DEFAULT \in Nat /\ C_DEFAULT > 0
  BY Constants
<1>1. /\ header \in Headers /\ diskHeader \in Headers
      /\ header.count = C_DEFAULT /\ header.endPosition = DataStart
  BY Constants DEF Headers, Links
<1>2. Live = {} /\ inode \in [Ids -> Inodes] /\ \A i \in Ids : inode[i].status # REMOVE
  BY Constants DEF Live, Inodes
<1>3. DataArea = {} /\ disk = << >>
  BY <1>1, Constants DEF DataArea
<1>4. Table = 0..(C_DEFAULT - 1) /\ Table \subseteq Ids
  BY <1>1, Constants DEF Table
<1>5. /\ list \in [1..C_DEFAULT -> [index : Table, size : Nat]]
      /\ \A k \in 1..C_DEFAULT : list[k].index = C_DEFAULT - k /\ list[k].size = 0
  <2>1. \A k \in 1..C_DEFAULT : C_DEFAULT - k \in Table
    BY <1>0, <1>4
  <2> QED
    BY <2>1 DEF CreateNode
<1>6. list \in Seq([index : Table, size : Nat]) /\ Len(list) = C_DEFAULT /\ DOMAIN list = 1..C_DEFAULT
  <2> DEFINE T == [index : Table, size : Nat]
  <2>1. list \in [1..C_DEFAULT -> T] /\ C_DEFAULT \in Nat
    BY <1>5, Constants
  <2> HIDE DEF T
  <2>2. list \in Seq(T)
    BY <2>1, SeqDef
  <2>3. DOMAIN list = 1..C_DEFAULT
    BY <2>1
  <2>4. Len(list) = C_DEFAULT
    BY <2>1, <2>2, <2>3, LenProperties
  <2> QED
    BY <2>2, <2>3, <2>4 DEF T
<1>7. GrowthTypeOK
  <2>1. firstPosition \in 0..(InodeSize - 1) /\ header.count <= MaxInodes
    BY <1>1, Constants
  <2>2. disk \in [DataArea -> Metas \cup Elements \cup {TableCell}]
    BY <1>3
  <2>3. stack \in Seq(Frames) /\ result \in BOOLEAN /\ backNull \in BOOLEAN
    <3>1. stack = << >> /\ result = TRUE /\ backNull = FALSE
      OBVIOUS
    <3>2. stack \in Seq(Frames)
      BY ONLY stack = << >>, EmptySeq
    <3> QED
      BY ONLY <3>1, <3>2
  <2> QED
    BY <1>1, <1>2, <1>6, <2>1, <2>2, <2>3 DEF GrowthTypeOK, Growths
<1>8. OnlyGrown
  BY <1>2 DEF OnlyGrown, NoGrowth
<1>9. BlocksTiled
  <2>1. TableEnd = DataStart /\ FirstBlock = TableEnd + 0
    BY <1>1 DEF TableEnd, FirstBlock, DataStart
  <2>2. Begin = DataStart
    BY <2>1, Constants DEF Begin, NoGrowth
  <2>3. Begin..(header.endPosition - 1) = {}
    BY <1>1, <2>2, Constants
  <2>4. DataStart <= TableEnd /\ TableEnd <= Begin /\ Begin <= header.endPosition
    BY <1>1, <2>1, <2>2, Constants
  <2> QED
    BY <1>2, <2>3, <2>4 DEF BlocksTiled
<1>10. FreeInodesListed
  <2>1. {list[k].index : k \in 1..C_DEFAULT} = 0..(C_DEFAULT - 1)
    <3>1. ASSUME NEW k \in 1..C_DEFAULT PROVE list[k].index \in 0..(C_DEFAULT - 1)
      BY <1>5, Constants
    <3>2. ASSUME NEW i \in 0..(C_DEFAULT - 1)
          PROVE  C_DEFAULT - i \in 1..C_DEFAULT /\ list[C_DEFAULT - i].index = i
      <4>1. C_DEFAULT - i \in 1..C_DEFAULT /\ C_DEFAULT - (C_DEFAULT - i) = i
        BY <1>0
      <4> QED
        BY <1>5, <4>1
    <3> QED
      BY <3>1, <3>2
  <2>2. Cardinality(0..(C_DEFAULT - 1)) = C_DEFAULT
    <3>1. 0 \in Int /\ C_DEFAULT - 1 \in Int /\ ~(0 > C_DEFAULT - 1)
          /\ C_DEFAULT - 1 - 0 + 1 = C_DEFAULT
      BY <1>0
    <3> QED
      BY <3>1, FS_Interval
  <2> QED
    BY <1>2, <1>4, <1>5, <1>6, <2>1, <2>2 DEF FreeInodesListed
<1>11. Once(list)
  <2>1. \A j, k \in 1..C_DEFAULT : C_DEFAULT - j = C_DEFAULT - k => j = k
    BY Constants
  <2> QED
    BY <1>5, <1>6, <2>1 DEF Once
<1>12. GrowthKnows
  BY DEF GrowthKnows, NoGrowth
<1> QED
  BY <1>7, <1>8, <1>9, <1>10, <1>11, <1>12 DEF GrowInv

-----------------------------------------------------------------------------
(* The loop of reallocateNewInode always reads the block of a document: it *)
(* stands where the documents begin, and there is always one.              *)
LEMMA BlockInWay ==
    ASSUME GrowInv, Moving
    PROVE  /\ OnBlock /\ InWay.id \in Live /\ InWay = MetaOf(InWay.id)
           /\ inode[InWay.id].pos = growth.pos /\ list = << >>
<1>1. /\ growth.at = "moving" /\ growth.pos < header.endPosition
      /\ growth.pos \in Nat /\ header.endPosition \in Nat /\ Begin = growth.pos /\ list = << >>
  BY GrowthFields, Facts DEF Moving, Begin, GrowInv, GrowthKnows
<1>2. growth.pos \in UNION {Extent(i) : i \in Live}
  BY <1>1 DEF GrowInv, BlocksTiled
<1>3. PICK i \in Live : growth.pos \in Extent(i)
  BY <1>2
<1>4. inode[i].pos \in Nat /\ Begin <= inode[i].pos /\ inode[i].pos <= growth.pos
  <2>1. /\ inode[i].pos \in Nat /\ Begin <= inode[i].pos /\ MetaOf(i).size \in Nat
        /\ Extent(i) = inode[i].pos..(inode[i].pos + MetaOf(i).size - 1)
    BY LiveBlock
  <2> QED
    BY ONLY <1>1, <1>3, <2>1
<1>5. inode[i].pos = growth.pos
  BY <1>1, <1>4
<1>6. InWay = MetaOf(i)
  BY <1>5 DEF InWay, MetaOf
<1>7. growth.pos \in DOMAIN disk
  <2>1. DataStart \in Nat /\ TableEnd \in Nat /\ disk \in [DataArea -> Metas \cup Elements \cup {TableCell}]
    BY Constants, Facts
  <2>2. DataStart <= TableEnd /\ TableEnd <= Begin
    BY Facts
  <2>3. growth.pos \in DataArea
    BY ONLY <1>1, <2>1, <2>2 DEF DataArea
  <2> QED
    BY <2>1, <2>3
<1> QED
  BY <1>1, <1>5, <1>6, <1>7, LiveBlock DEF OnBlock, InWay

(* So the branches for gaps and for what is not a block are never taken,   *)
(* and the insertion finds a back of the list to take.                     *)
LEMMA OnlyMovesToEnd ==
    ASSUME GrowInv
    PROVE  ~RemoveGapInWay /\ ~SpinOnGapInWay /\ ~MoveToGap /\ ~GrowthFails /\ ~CrashAfterGrowth
<1>1. OPEN # CLOSE /\ CLOSE # REMOVE
  BY Constants
<1>2. Moving => OnBlock /\ inode[InWay.id].status = CLOSE /\ list = << >>
  BY BlockInWay, LiveBlock
<1>3. backNull = FALSE
  BY Facts
<1> QED
  BY <1>1, <1>2, <1>3
     DEF RemoveGapInWay, SpinOnGapInWay, MoveToGap, GrowthFails, CrashAfterGrowth, GapFor

(* The first block goes behind the last one: the blocks stay one behind    *)
(* the other, and each keeps what is in it.                                *)
LEMMA MoveToEndInvariant ==
    ASSUME GrowInv, Moving, MoveToEnd
    PROVE  GrowInv' /\ \A j \in Live : MetaOf(j)' = MetaOf(j)
<1>1. PICK i \in Live : i = InWay.id /\ InWay = MetaOf(i) /\ inode[i].pos = growth.pos
  BY BlockInWay
<1>2. PICK p \in Nat : p = growth.pos
  BY GrowthFields DEF Moving
<1>3. PICK z \in Nat \ {0} : z = MetaOf(i).size /\ z = inode[i].size
                             /\ z <= DocSize[CHOOSE d \in Documents : IsLargest(d)]
  BY LiveBlock
<1>4. PICK end \in Nat : end = header.endPosition /\ p + z <= end /\ p < end
  <2>1. inode[i].pos + MetaOf(i).size <= header.endPosition /\ growth.pos < header.endPosition
    BY LiveBlock DEF Moving, GrowInv, GrowthKnows
  <2> QED
    BY <1>1, <1>2, <1>3, <2>1, Facts
<1>5. /\ inode' = [inode EXCEPT ![i].pos = end]
      /\ disk' = Moved(disk, p, end, z)
      /\ header' = [header EXCEPT !.endPosition = end + z] /\ diskHeader' = header'
      /\ growth' = [growth EXCEPT !.pos = p + z, !.space = growth.space + z]
      /\ UNCHANGED <<list, stack, result, firstPosition, backNull>>
  BY <1>1, <1>2, <1>3, <1>4 DEF MoveToEnd, Advance
<1>6. /\ header' \in Headers /\ header'.endPosition = end + z
      /\ header'.count = header.count /\ header'.root = header.root
  <2>1. header \in Headers /\ end + z \in Nat
    BY Facts
  <2> QED
    BY ONLY <1>5, <2>1 DEF Headers
<1>7. TableEnd' = TableEnd /\ Table' = Table /\ FirstBlock' = FirstBlock
  BY <1>5, <1>6 DEF TableEnd, Table, FirstBlock
<1>8. /\ inode' \in [Ids -> Inodes]
      /\ \A j \in Ids : inode'[j].status = inode[j].status /\ inode'[j].size = inode[j].size
      /\ \A j \in Ids \ {i} : inode'[j] = inode[j]
      /\ inode'[i].pos = end
  <2>1. inode \in [Ids -> Inodes] /\ i \in Ids /\ end \in Nat
    BY Facts, LiveBlock
  <2> QED
    BY ONLY <1>5, <2>1 DEF Inodes
<1>9. Live' = Live
  BY <1>8 DEF Live
<1>10. /\ DataStart \in Nat /\ DataStart <= p /\ Begin = p
       /\ DataArea = DataStart..(end - 1) /\ DataArea' = DataStart..(end + z - 1)
  <2>1. Begin = p
    BY <1>2 DEF Begin, Moving
  <2>2. DataStart <= Begin
    <3>1. DataStart \in Nat /\ TableEnd \in Nat /\ Begin \in Nat
      BY Facts, Constants
    <3>2. DataStart <= TableEnd /\ TableEnd <= Begin
      BY Facts
    <3> QED
      BY ONLY <3>1, <3>2
  <2>3. DataStart \in Nat
    BY Constants
  <2>4. DataArea = DataStart..(end - 1) /\ DataArea' = DataStart..(end + z - 1)
    BY <1>4, <1>6 DEF DataArea
  <2> QED
    BY <2>1, <2>2, <2>3, <2>4
<1>11. /\ disk' \in [DataArea' -> Metas \cup Elements \cup {TableCell}]
       /\ disk'[end] = disk[p]
       /\ \A a \in DataArea : disk'[a] = disk[a]
  <2>1. disk \in [DataArea -> Metas \cup Elements \cup {TableCell}]
    BY Facts
  <2>2. disk' = [a \in DataArea \cup end..(end + z - 1) |->
                    IF a \in end..(end + z - 1) THEN disk[p + (a - end)] ELSE disk[a]]
    BY <1>5, <2>1 DEF Moved
  <2>3. DataArea' = DataArea \cup end..(end + z - 1)
    BY <1>4, <1>10
  <2>4. \A a \in end..(end + z - 1) : p + (a - end) \in DataArea
    BY <1>4, <1>10
  <2>5. end \in end..(end + z - 1) /\ p + (end - end) = p
    OBVIOUS
  <2>6. \A a \in DataArea : a \notin end..(end + z - 1)
    BY <1>10
  <2> QED
    BY <2>1, <2>2, <2>3, <2>4, <2>5, <2>6
<1>12. \A j \in Live : MetaOf(j)' = MetaOf(j)
  <2> SUFFICES ASSUME NEW j \in Live PROVE disk'[inode'[j].pos] = disk[inode[j].pos]
    BY DEF MetaOf
  <2>1. CASE j = i
    BY <1>1, <1>2, <1>8, <1>11, <2>1
  <2>2. CASE j # i
    <3>1. j \in Ids /\ inode[j].pos \in DataArea
      <4>1. /\ j \in Ids /\ inode[j].pos \in Nat /\ MetaOf(j).size \in Nat \ {0}
            /\ Begin <= inode[j].pos /\ inode[j].pos + MetaOf(j).size <= end
        BY <1>4, LiveBlock
      <4> QED
        BY <1>10, <4>1
    <3> QED
      BY <1>8, <1>11, <2>2, <3>1
  <2> QED
    BY <2>1, <2>2
<1>13. /\ Extent(i) = p..(p + z - 1) /\ Extent(i)' = end..(end + z - 1)
       /\ \A j \in Live \ {i} : Extent(j)' = Extent(j)
  <2>1. \A j \in Live : j \in Ids
    BY LiveBlock
  <2> QED
    BY <1>1, <1>2, <1>3, <1>8, <2>1 DEF Extent
<1>14. /\ UNION {Extent(j) : j \in Live} = p..(end - 1)
       /\ \A j, k \in Live : j # k => Extent(j) \cap Extent(k) = {}
  BY <1>4, <1>10 DEF GrowInv, BlocksTiled
<1>15. UNION {Extent(j)' : j \in Live} = (p + z)..(end + z - 1)
  <2>1. ASSUME NEW j \in Live, NEW a \in Extent(j)'
        PROVE  a \in (p + z)..(end + z - 1)
    <3>1. CASE j = i
      BY <1>4, <1>13, <2>1, <3>1
    <3>2. CASE j # i
      <4>1. a \in p..(end - 1) /\ a \notin p..(p + z - 1)
        BY <1>13, <1>14, <2>1, <3>2
      <4> QED
        BY <4>1
    <3> QED
      BY <3>1, <3>2
  <2>2. ASSUME NEW a \in (p + z)..(end + z - 1)
        PROVE  \E j \in Live : a \in Extent(j)'
    <3>1. CASE a \in end..(end + z - 1)
      BY <1>13, <3>1
    <3>2. CASE a \notin end..(end + z - 1)
      <4>1. a \in p..(end - 1) /\ a \notin p..(p + z - 1)
        BY <3>2
      <4>2. PICK j \in Live : a \in Extent(j)
        BY <1>14, <4>1
      <4> QED
        BY <1>13, <4>1, <4>2
    <3> QED
      BY <3>1, <3>2
  <2> QED
    BY <2>1, <2>2
<1>16. \A j, k \in Live : j # k => Extent(j)' \cap Extent(k)' = {}
  <2>1. ASSUME NEW j \in Live \ {i} PROVE Extent(j)' \cap Extent(i)' = {}
    <3>1. Extent(j) \subseteq p..(end - 1)
      BY <1>14
    <3> QED
      BY <1>13, <3>1
  <2> QED
    BY <1>13, <1>14, <2>1
<1>17. /\ Begin' = p + z /\ DataStart <= TableEnd' /\ TableEnd' <= Begin'
       /\ Begin' <= header'.endPosition
  <2>1. growth'.at = "moving" /\ growth'.pos = p + z
    BY <1>5, GrowthFields DEF Moving, GrowInv, GrowthTypeOK, Growths
  <2>2. Begin' = p + z
    BY <2>1 DEF Begin
  <2>3. p + z <= end + z
    BY <1>4
  <2>4. TableEnd <= p + z
    <3>1. TableEnd <= Begin /\ TableEnd \in Nat
      BY Facts
    <3> QED
      BY ONLY <1>10, <3>1, p \in Nat, z \in Nat \ {0}
  <2> QED
    BY <1>6, <1>7, <2>2, <2>3, <2>4, Facts
<1>18. BlocksTiled'
  <2>1. \A j \in Live : /\ MetaOf(j)' \in Metas /\ MetaOf(j)'.id = j
                        /\ MetaOf(j)'.size = inode'[j].size
                        /\ MetaOf(j)'.size = DocSize[MetaOf(j)'.doc]
    <3> SUFFICES ASSUME NEW j \in Live
                 PROVE  /\ MetaOf(j)' \in Metas /\ MetaOf(j)'.id = j
                        /\ MetaOf(j)'.size = inode'[j].size
                        /\ MetaOf(j)'.size = DocSize[MetaOf(j)'.doc]
      OBVIOUS
    <3>1. /\ j \in Ids /\ MetaOf(j) \in Metas /\ MetaOf(j).id = j
          /\ MetaOf(j).size = inode[j].size
      BY LiveBlock
    <3>2. MetaOf(j).size = DocSize[MetaOf(j).doc]
      BY DEF GrowInv, BlocksTiled
    <3>3. MetaOf(j)' = MetaOf(j) /\ inode'[j].size = inode[j].size
      BY <1>8, <1>12, <3>1
    <3> QED
      BY ONLY <3>1, <3>2, <3>3
  <2>2. UNION {Extent(j) : j \in Live}' = Begin'..(header'.endPosition - 1)
    BY <1>6, <1>9, <1>15, <1>17
  <2>3. \A j, k \in Live' : j # k => Extent(j)' \cap Extent(k)' = {}
    BY <1>9, <1>16
  <2>4. Live' \subseteq Table'
    BY <1>7, <1>9, Facts
  <2> QED
    BY <1>9, <1>17, <2>1, <2>2, <2>3, <2>4 DEF BlocksTiled
<1>19. growth' \in Growths /\ growth'.at = "moving" /\ growth'.parent = growth.parent
       /\ growth'.pos = p + z /\ growth'.space = growth.space + z
  <2>1. /\ p + z \in Nat /\ growth.space + z \in Nat
        /\ growth \in [at : {"moving"}, pos : Nat, space : Nat, parent : Links, doc : Documents]
    <3>1. growth \in Growths /\ growth.at = "moving"
      BY DEF Moving, GrowInv, GrowthTypeOK
    <3>2. growth \in [at : {"moving"}, pos : Nat, space : Nat, parent : Links, doc : Documents]
      BY ONLY <3>1 DEF Growths, NoGrowth
    <3> QED
      BY <3>2
  <2> QED
    BY ONLY <1>5, <2>1 DEF Growths
<1>20. GrowthTypeOK' /\ OnlyGrown'
  <2>1. /\ header.count <= MaxInodes /\ list \in Seq([index : Table, size : Nat])
        /\ stack \in Seq(Frames) /\ result \in BOOLEAN /\ backNull \in BOOLEAN
        /\ firstPosition \in 0..(InodeSize - 1)
    BY DEF GrowInv, GrowthTypeOK
  <2>2. GrowthTypeOK'
    BY <1>5, <1>6, <1>7, <1>8, <1>11, <1>19, <2>1 DEF GrowthTypeOK
  <2>3. OnlyGrown'
    BY <1>5, <1>8, <1>19 DEF GrowInv, OnlyGrown
  <2> QED
    BY <2>2, <2>3
<1>21. FreeInodesListed' /\ Once(list)'
  BY <1>5, <1>7, <1>9 DEF GrowInv, FreeInodesListed, Once
<1>22. GrowthKnows'
  <2>1. /\ AcceptsParent(growth.parent) /\ p = TableEnd + growth.space
        /\ list = << >> /\ header.count + LargestGrowth <= MaxInodes
        /\ growth.space < NeededSpace /\ growth.space \in Nat
    BY <1>2, GrowthFields DEF GrowInv, GrowthKnows, Moving
  <2>2. AcceptsParent(growth.parent)'
    BY <1>8, <1>19, <2>1 DEF AcceptsParent, Status
  <2>3. p + z = TableEnd' + (growth.space + z)
    BY <1>7, <2>1, Facts
  <2>4. growth.space + z < NeededSpace + DocSize[CHOOSE d \in Documents : IsLargest(d)]
    BY <1>3, <2>1, Constants
  <2>5. p + z < end + z
    BY <1>4
  <2> QED
    BY <1>5, <1>6, <1>19, <2>1, <2>2, <2>3, <2>4, <2>5 DEF GrowthKnows
<1> QED
  BY <1>12, <1>18, <1>20, <1>21, <1>22 DEF GrowInv

-----------------------------------------------------------------------------
(* A step that writes neither the table nor the data area, and does not    *)
(* move the place where the documents begin, leaves every block alone.     *)
LEMMA SameFile ==
    ASSUME GrowInv,
           UNCHANGED <<header, inode, disk, list, stack, result, backNull>>,
           diskHeader' \in Headers, firstPosition' \in 0..(InodeSize - 1),
           growth' \in Growths, growth'.at \notin {"crashed", "failed"},
           Begin' = Begin, GrowthKnows'
    PROVE  GrowInv' /\ \A j \in Live : MetaOf(j)' = MetaOf(j)
<1>1. /\ TableEnd' = TableEnd /\ Table' = Table /\ Live' = Live /\ DataArea' = DataArea
      /\ \A j \in Ids : MetaOf(j)' = MetaOf(j) /\ Extent(j)' = Extent(j)
  BY DEF TableEnd, Table, Live, DataArea, MetaOf, Extent
<1>2. Live \subseteq Ids
  BY DEF Live
<1>3. GrowthTypeOK'
  BY <1>1 DEF GrowInv, GrowthTypeOK
<1>4. OnlyGrown'
  BY DEF GrowInv, OnlyGrown
<1>5. BlocksTiled'
  <2>1. \A j \in Live : /\ MetaOf(j)' \in Metas /\ MetaOf(j)'.id = j
                        /\ MetaOf(j)'.size = inode'[j].size
                        /\ MetaOf(j)'.size = DocSize[MetaOf(j)'.doc]
    BY <1>1, <1>2 DEF GrowInv, BlocksTiled
  <2>2. UNION {Extent(j) : j \in Live}' = UNION {Extent(j) : j \in Live}
    BY <1>1, <1>2
  <2>3. \A j, k \in Live : j # k => Extent(j)' \cap Extent(k)' = {}
    BY <1>1, <1>2 DEF GrowInv, BlocksTiled
  <2> QED
    BY <1>1, <2>1, <2>2, <2>3 DEF GrowInv, BlocksTiled
<1>6. FreeInodesListed' /\ Once(list)'
  BY <1>1 DEF GrowInv, FreeInodesListed, Once
<1> QED
  BY <1>1, <1>2, <1>3, <1>4, <1>5, <1>6 DEF GrowInv

(* The table never shrinks below what the file was created with. *)
LEMMA TableNotEmpty ==
    ASSUME GrowInv
    PROVE  C_DEFAULT <= header.count /\ 0 \in Table
<1>1. PICK n \in Nat : n = header.count
  BY Facts
<1>2. PICK c \in Nat \ {0} : c = C_DEFAULT
  BY Constants
<1>3. PICK z \in Nat \ {0} : z = InodeSize
  BY Constants
<1>4. z * c <= z * n
  <2>1. PICK a \in Nat, b \in Nat : a = z * c /\ b = z * n
    BY ONLY Multiples, n \in Nat, c \in Nat \ {0}, z \in Nat \ {0}
  <2>2. HeadSize + a <= HeadSize + b
    BY <1>1, <1>2, <1>3, <2>1, Facts DEF TableEnd, DataStart
  <2>3. HeadSize \in Nat
    BY Constants
  <2> QED
    BY ONLY <2>1, <2>2, <2>3
<1>5. c <= n
  <2>1. n < c => z * n < z * c
    BY ONLY Multiples, n \in Nat, c \in Nat \ {0}, z \in Nat \ {0}
  <2>2. z * n \in Nat /\ z * c \in Nat
    BY ONLY Multiples, n \in Nat, c \in Nat \ {0}, z \in Nat \ {0}
  <2> QED
    BY ONLY <1>4, <2>1, <2>2, n \in Nat, c \in Nat \ {0}
<1> QED
  BY <1>1, <1>2, <1>5 DEF Table

(* An insertion needs inodes only when the list is empty: every inode of   *)
(* the table is in use, so there is a block for the growth to begin with.  *)
LEMMA StartGrowthInvariant ==
    ASSUME GrowInv, NEW parent \in Parents, NEW d \in Documents, StartGrowth(parent, d)
    PROVE  GrowInv'
<1>1. /\ growth = NoGrowth /\ growth.at = "none" /\ AcceptsParent(parent) /\ NeedsInodes(d)
      /\ header.count + LargestGrowth <= MaxInodes
      /\ growth' = [at |-> "moving", pos |-> FirstBlock, space |-> firstPosition,
                    parent |-> parent, doc |-> d]
      /\ UNCHANGED <<fileVars, firstPosition, backNull>>
  BY GrowthFields DEF StartGrowth
<1>2. /\ growth'.at = "moving" /\ growth'.pos = FirstBlock /\ growth'.space = firstPosition
      /\ growth'.parent = parent
  BY ONLY <1>1
<1>3. parent \in Links /\ FirstBlock \in Nat /\ firstPosition \in Nat
  BY Facts, Constants DEF Parents
<1>4. list = << >>
  <2>1. ASSUME list # << >> PROVE FALSE
    <3>1. Last(list).size = 0
      BY <2>1, Facts, ListFacts, PopMinIndexes
    <3> QED
      BY <1>1, <2>1, <3>1 DEF NeedsInodes
  <2> QED
    BY <2>1
<1>5. Begin = FirstBlock /\ Begin' = FirstBlock
  BY <1>1, <1>2 DEF Begin, NoGrowth
<1>6. FirstBlock < header.endPosition
  <2>1. Table \ Live = {}
    BY <1>4, ListFacts DEF Indexes
  <2>2. 0 \in Live
    BY <2>1, TableNotEmpty
  <2>3. /\ Begin <= inode[0].pos /\ inode[0].pos + MetaOf(0).size <= header.endPosition
        /\ inode[0].pos \in Nat /\ MetaOf(0).size \in Nat \ {0} /\ Begin \in Nat
    BY <2>2, LiveBlock, Facts
  <2>4. header.endPosition \in Nat
    BY Facts
  <2> QED
    BY ONLY <1>5, <2>3, <2>4
<1>7. GrowthKnows'
  <2>1. AcceptsParent(parent)' /\ TableEnd' = TableEnd
    BY <1>1 DEF fileVars, AcceptsParent, Status, TableEnd
  <2>2. FirstBlock = TableEnd + firstPosition
    BY DEF FirstBlock
  <2>3. firstPosition < NeededSpace + DocSize[CHOOSE e \in Documents : IsLargest(e)]
    <3>1. firstPosition \in 0..(InodeSize - 1)
      BY Facts
    <3>2. InodeSize \in Nat /\ InodeSize <= NeededSpace /\ NeededSpace \in Nat
      <4>1. InodeSize * 1 <= InodeSize * C_DEFAULT /\ NeededSpace \in Nat /\ InodeSize \in Nat
        <5>1. InodeSize \in Nat \ {0} /\ C_DEFAULT \in Nat /\ 1 <= C_DEFAULT /\ NeededSpace \in Nat
          BY Constants
        <5>2. InodeSize * 1 <= InodeSize * C_DEFAULT
          BY ONLY Multiples, <5>1, 1 \in Nat
        <5> QED
          BY <5>1, <5>2
      <4> QED
        BY ONLY <4>1 DEF NeededSpace
    <3>3. DocSize[CHOOSE e \in Documents : IsLargest(e)] \in Nat
      BY Constants
    <3> QED
      BY ONLY <3>1, <3>2, <3>3
  <2>4. list' = << >> /\ header' = header /\ firstPosition' = firstPosition
    BY <1>1, <1>4 DEF fileVars
  <2> QED
    BY <1>1, <1>2, <1>6, <2>1, <2>2, <2>3, <2>4 DEF GrowthKnows
<1>8. growth' \in Growths
  BY <1>1, <1>3 DEF Growths
<1>9. diskHeader' \in Headers /\ firstPosition' \in 0..(InodeSize - 1)
  BY <1>1 DEF fileVars, GrowInv, GrowthTypeOK
<1> QED
  BY <1>1, <1>2, <1>5, <1>7, <1>8, <1>9, SameFile DEF fileVars

(* The space found holds at least one inode and at most as many as the     *)
(* bound allows; the rest is smaller than an inode.                        *)
LEMMA SpaceFits ==
    ASSUME growth.space \in Nat, growth.space >= NeededSpace,
           growth.space < NeededSpace + DocSize[CHOOSE d \in Documents : IsLargest(d)]
    PROVE  /\ NewInodes \in Nat \ {0} /\ LargestGrowth \in Nat /\ NewInodes <= LargestGrowth
           /\ FirstPosition \in 0..(InodeSize - 1)
           /\ InodeSize * NewInodes \in Nat
           /\ growth.space = InodeSize * NewInodes + FirstPosition
<1>1. PICK s \in Nat : s = growth.space
  OBVIOUS
<1>2. PICK z \in Nat \ {0} : z = InodeSize
  BY Constants
<1>3. PICK c \in Nat \ {0} : c = C_DEFAULT
  BY Constants
<1>4. PICK q \in Nat, r \in 0..(z - 1) :
          q = NewInodes /\ r = FirstPosition /\ s = z * q + r
  <2>1. /\ s \div z \in Nat /\ (s % z) \in 0..(z - 1)
        /\ s = z * (s \div z) + (s % z)
    BY ONLY Division, s \in Nat, z \in Nat \ {0}
  <2>2. NewInodes = s \div z /\ FirstPosition = (s % z)
    BY <1>1, <1>2 DEF NewInodes, FirstPosition
  <2> QED
    BY ONLY <2>1, <2>2
<1>5. z * c <= s
  BY <1>1, <1>2, <1>3 DEF NeededSpace
<1>6. c <= q
  <2>1. z * c <= s => c <= s \div z
    BY ONLY DivisionMonotone, s \in Nat, c \in Nat \ {0}, z \in Nat \ {0}
  <2> QED
    BY <1>1, <1>2, <1>4, <1>5, <2>1 DEF NewInodes
<1>7. q <= LargestGrowth /\ LargestGrowth \in Nat
  <2> DEFINE x == DocSize[CHOOSE d \in Documents : IsLargest(d)]
             most == NeededSpace - 1 + x
  <2>1. s < NeededSpace + x
    BY <1>1
  <2>2. NeededSpace \in Nat \ {0} /\ x \in Nat \ {0}
    BY Constants
  <2> HIDE DEF x
  <2>3. most \in Nat /\ s <= most
    BY ONLY <2>1, <2>2, s \in Nat
  <2> HIDE DEF most
  <2>4. PICK m \in Nat, e \in 0..(z - 1) : m = most \div z /\ most = z * m + e
    BY ONLY <2>3, z \in Nat \ {0}, Division
  <2>5. s < z * (m + 1)
    <3>1. z * (m + 1) = z * m + z /\ z * m \in Nat
      BY ONLY Multiples, m \in Nat, z \in Nat \ {0}
    <3> QED
      BY ONLY <2>3, <2>4, <3>1, s \in Nat, z \in Nat \ {0}
  <2>6. s \div z <= m
    BY ONLY DivisionMonotone, <2>5, s \in Nat, m \in Nat, z \in Nat \ {0}
  <2>7. m = LargestGrowth
    BY <1>2, <2>4 DEF LargestGrowth, most, x
  <2> QED
    BY <1>1, <1>2, <1>4, <2>6, <2>7 DEF NewInodes
<1>8. q \in Nat \ {0} /\ z * q \in Nat
  BY ONLY Multiples, <1>6, q \in Nat, c \in Nat \ {0}, z \in Nat \ {0}
<1> QED
  BY <1>1, <1>2, <1>4, <1>7, <1>8

(* So the inodes of a growth lie behind the old ones and in front of the   *)
(* first document.                                                         *)
LEMMA SpaceFoundInvariant ==
    ASSUME GrowInv, SpaceFound
    PROVE  GrowInv' /\ \A j \in Live : MetaOf(j)' = MetaOf(j)
<1>1. PICK s \in Nat : s = growth.space
  BY GrowthFields DEF SpaceFound
<1>2. PICK z \in Nat \ {0} : z = InodeSize
  BY Constants
<1>3. growth.at = "moving" /\ growth.space >= NeededSpace
  BY DEF SpaceFound
<1>4. PICK q \in Nat \ {0}, r \in 0..(z - 1) :
          /\ q = NewInodes /\ r = FirstPosition /\ s = z * q + r
          /\ q <= LargestGrowth /\ LargestGrowth \in Nat
  <2>1. growth.space < NeededSpace + DocSize[CHOOSE d \in Documents : IsLargest(d)]
    BY <1>3 DEF GrowInv, GrowthKnows
  <2> QED
    BY <1>1, <1>2, <1>3, <2>1, SpaceFits
<1>5. /\ firstPosition' = r
      /\ growth' = [at |-> "listing", left |-> q, parent |-> growth.parent, doc |-> growth.doc]
      /\ UNCHANGED <<fileVars, backNull>>
  BY <1>4 DEF SpaceFound
<1>8. Begin = growth.pos /\ growth.pos = TableEnd + s
  BY <1>1, <1>3 DEF Begin, GrowInv, GrowthKnows
<1>9. /\ growth'.at = "listing" /\ growth'.left = q /\ growth'.parent = growth.parent
      /\ growth'.doc = growth.doc
  BY <1>5
<1>10. TableEnd' = TableEnd /\ TableEnd \in Nat
  BY <1>5, Facts DEF fileVars, TableEnd
<1>11. Begin' = Begin
  <2>1. Begin' = TableEnd + r + z * q
    BY <1>2, <1>5, <1>9, <1>10 DEF Begin, FirstBlock
  <2>2. z * q \in Nat
    BY ONLY Multiples, q \in Nat, z \in Nat \ {0}
  <2> QED
    BY ONLY <1>4, <1>8, <1>10, <2>1, <2>2, s \in Nat, r \in 0..(z - 1), z \in Nat \ {0}
<1>12. GrowthKnows'
  <2>1. AcceptsParent(growth.parent)' /\ header.count + LargestGrowth <= MaxInodes
    BY <1>3, <1>5, <1>9 DEF GrowInv, GrowthKnows, fileVars, AcceptsParent, Status
  <2>2. header.count \in Nat /\ MaxInodes \in Nat
    BY Facts, Constants
  <2>3. header.count + q <= MaxInodes /\ q > 0
    BY ONLY <1>4, <2>1, <2>2, q \in Nat \ {0}
  <2> QED
    BY <1>5, <1>9, <2>1, <2>3 DEF GrowthKnows, fileVars, AcceptsParent, Status
<1>13. growth' \in Growths
  <2>1. growth.parent \in Links /\ growth.doc \in Documents
    BY <1>3, GrowthFields
  <2> QED
    BY <1>5, <2>1 DEF Growths
<1>14. diskHeader' \in Headers /\ firstPosition' \in 0..(InodeSize - 1)
  BY <1>2, <1>5 DEF fileVars, GrowInv, GrowthTypeOK
<1> QED
  BY <1>5, <1>9, <1>11, <1>12, <1>13, <1>14, SameFile DEF fileVars

(* The header is written when all of the inodes are. *)
LEMMA EndGrowthInvariant ==
    ASSUME GrowInv, EndGrowth
    PROVE  GrowInv' /\ \A j \in Live : MetaOf(j)' = MetaOf(j)
<1>1. /\ growth.at = "listing" /\ growth.left = 0
      /\ growth' = [at |-> "grown", parent |-> growth.parent, doc |-> growth.doc]
      /\ diskHeader' = header
      /\ UNCHANGED <<header, inode, disk, list, stack, result, firstPosition, backNull>>
  BY DEF EndGrowth
<1>2. growth'.at = "grown" /\ growth'.parent = growth.parent
  BY <1>1
<1>3. Begin' = Begin
  <2>1. InodeSize * 0 = 0 /\ FirstBlock \in Nat
    BY Constants, Facts
  <2>2. Begin = FirstBlock + InodeSize * 0
    BY <1>1 DEF Begin
  <2>3. Begin' = FirstBlock
    BY <1>1, <1>2 DEF Begin, FirstBlock, TableEnd
  <2> QED
    BY ONLY <2>1, <2>2, <2>3
<1>4. AcceptsParent(growth.parent) /\ list # << >>
  BY <1>1 DEF GrowInv, GrowthKnows
<1>5. GrowthKnows'
  BY <1>1, <1>2, <1>4 DEF GrowthKnows, AcceptsParent, Status
<1>6. growth' \in Growths
  <2>1. growth.parent \in Links /\ growth.doc \in Documents
    BY <1>1, GrowthFields
  <2> QED
    BY <1>1, <2>1 DEF Growths
<1>7. diskHeader' \in Headers /\ firstPosition' \in 0..(InodeSize - 1)
  BY <1>1 DEF GrowInv, GrowthTypeOK
<1> QED
  BY <1>1, <1>2, <1>3, <1>5, <1>6, <1>7, SameFile

(* Each new inode takes the number behind the last one and its cells from  *)
(* the space that was found: no block begins there.                        *)
LEMMA WriteNewListNodeInvariant ==
    ASSUME GrowInv, WriteNewListNode
    PROVE  GrowInv' /\ \A j \in Live : MetaOf(j)' = MetaOf(j)
<1>1. PICK n \in Nat : n = header.count
  BY Facts
<1>2. PICK z \in Nat \ {0} : z = InodeSize
  BY Constants
<1>3. growth.at = "listing" /\ growth.left > 0 /\ backNull = FALSE
  BY Facts DEF WriteNewListNode
<1>4. PICK left \in Nat \ {0} : left = growth.left
  <2>1. growth.left \in Nat /\ growth.left > 0
    BY <1>3, GrowthFields
  <2> QED
    BY ONLY <2>1
<1> DEFINE node == CreateNode(n, 0)
<1>5. /\ disk' = [a \in DOMAIN disk |-> IF a < TableEnd + z THEN TableCell ELSE disk[a]]
      /\ list' = InsertNode(list, node) /\ backNull' = FALSE
      /\ header' = [header EXCEPT !.count = n + 1]
      /\ growth' = [growth EXCEPT !.left = left - 1]
      /\ UNCHANGED <<diskHeader, inode, stack, result, firstPosition>>
  <2>1. Linked(list, CreateNode(n, 0), FALSE) = InsertNode(list, CreateNode(n, 0))
    BY DEF Linked
  <2> QED
    BY <1>1, <1>2, <1>3, <1>4, <2>1 DEF WriteNewListNode, Number, BackAfter
<1>6. /\ n + left <= MaxInodes /\ MaxInodes \in Nat /\ AcceptsParent(growth.parent)
  BY <1>1, <1>3, <1>4, Constants DEF GrowInv, GrowthKnows
<1>7. /\ header' \in Headers /\ header'.count = n + 1 /\ header'.root = header.root
      /\ header'.endPosition = header.endPosition
  <2>1. header \in Headers
    BY Facts
  <2> QED
    BY ONLY <1>5, <2>1, n \in Nat DEF Headers
<1>8. Table = 0..(n - 1) /\ Table' = 0..n /\ Table' = Table \cup {n} /\ n \notin Table
  <2>1. Table = 0..(n - 1) /\ Table' = 0..(n + 1 - 1)
    BY <1>1, <1>7 DEF Table
  <2> QED
    BY ONLY <2>1, n \in Nat
<1>9. n \in Ids /\ Table' \subseteq Ids
  <2>1. Ids = 0..(MaxInodes - 1)
    BY Constants
  <2> QED
    BY ONLY <1>6, <1>8, <2>1, n \in Nat, left \in Nat \ {0}
<1>10. Live' = Live /\ DataArea' = DataArea /\ \A j \in Ids : Extent(j)' = Extent(j)
  BY <1>5, <1>7 DEF Live, DataArea, Extent
<1>11. /\ growth' \in Growths /\ growth'.at = "listing" /\ growth'.left = left - 1
       /\ growth'.parent = growth.parent
  <2>1. growth \in [at : {"listing"}, left : Nat, parent : Links, doc : Documents]
    <3>1. growth \in Growths
      BY DEF GrowInv, GrowthTypeOK
    <3> QED
      BY ONLY <1>3, <3>1 DEF Growths, NoGrowth
  <2>2. left - 1 \in Nat
    OBVIOUS
  <2> QED
    BY ONLY <1>5, <2>1, <2>2 DEF Growths
(* The table grows by a size, and what is still to be written shrinks by one. *)
<1>12. /\ TableEnd' = TableEnd + z /\ TableEnd \in Nat /\ Begin' = Begin
       /\ TableEnd + z <= Begin /\ Begin \in Nat
  <2>1. PICK cells \in Nat : cells = z * n /\ z * (n + 1) = cells + z
    BY ONLY Multiples, n \in Nat, z \in Nat \ {0}
  <2>2. PICK rest \in Nat : rest = z * (left - 1) /\ z * left = rest + z
    <3>1. left - 1 \in Nat /\ left - 1 + 1 = left
      OBVIOUS
    <3>2. z * (left - 1) \in Nat /\ z * (left - 1 + 1) = z * (left - 1) + z
      BY ONLY Multiples, <3>1, z \in Nat \ {0}
    <3> QED
      BY ONLY <3>1, <3>2
  <2>3. /\ TableEnd = HeadSize + cells /\ TableEnd' = HeadSize + (cells + z)
        /\ HeadSize \in Nat
    BY <1>1, <1>2, <1>7, <2>1, Constants DEF TableEnd
  <2>4. /\ Begin = TableEnd + firstPosition + z * left
        /\ Begin' = TableEnd' + firstPosition + z * (left - 1)
    BY <1>2, <1>3, <1>4, <1>5, <1>11 DEF Begin, FirstBlock
  <2>5. firstPosition \in Nat
    BY Facts, Constants
  <2> QED
    BY ONLY <2>1, <2>2, <2>3, <2>4, <2>5, z \in Nat \ {0}
<1>13. disk' \in [DataArea' -> Metas \cup Elements \cup {TableCell}]
  <2>1. disk \in [DataArea -> Metas \cup Elements \cup {TableCell}]
    BY Facts
  <2> QED
    BY ONLY <1>5, <1>10, <2>1
<1>14. \A j \in Live : MetaOf(j)' = MetaOf(j)
  <2> TAKE j \in Live
  <2>1. inode[j].pos \in DataArea /\ ~(inode[j].pos < TableEnd + z)
    <3>1. /\ inode[j].pos \in Nat /\ MetaOf(j).size \in Nat \ {0} /\ Begin <= inode[j].pos
          /\ inode[j].pos + MetaOf(j).size <= header.endPosition
      BY LiveBlock
    <3>2. DataStart <= TableEnd /\ DataStart \in Nat /\ header.endPosition \in Nat
      BY Facts, Constants
    <3> QED
      BY ONLY <1>12, <3>1, <3>2, z \in Nat \ {0} DEF DataArea
  <2>2. DOMAIN disk = DataArea
    BY Facts
  <2> QED
    BY <1>5, <2>1, <2>2 DEF MetaOf
<1>15. BlocksTiled'
  <2>1. \A j \in Live : /\ MetaOf(j)' \in Metas /\ MetaOf(j)'.id = j
                        /\ MetaOf(j)'.size = inode'[j].size
                        /\ MetaOf(j)'.size = DocSize[MetaOf(j)'.doc]
    BY <1>5, <1>14 DEF GrowInv, BlocksTiled
  <2>2. UNION {Extent(j) : j \in Live}' = Begin'..(header'.endPosition - 1)
    <3>1. Live \subseteq Ids
      BY DEF Live
    <3> QED
      BY <1>7, <1>10, <1>12, <3>1 DEF GrowInv, BlocksTiled
  <2>3. \A j, k \in Live : j # k => Extent(j)' \cap Extent(k)' = {}
    <3>1. Live \subseteq Ids
      BY DEF Live
    <3> QED
      BY <1>10, <3>1 DEF GrowInv, BlocksTiled
  <2>4. Live' \subseteq Table'
    BY <1>8, <1>10, Facts
  <2>5. DataStart <= TableEnd' /\ TableEnd' <= Begin' /\ Begin' <= header'.endPosition
    <3>1. DataStart <= TableEnd /\ DataStart \in Nat /\ Begin <= header.endPosition
      BY Facts, Constants
    <3> QED
      BY ONLY <1>7, <1>12, <3>1, z \in Nat \ {0}
  <2> QED
    BY <1>10, <2>1, <2>2, <2>3, <2>4, <2>5 DEF BlocksTiled
<1>16. list' \in Seq([index : Table', size : Nat]) /\ Len(list') = Len(list) + 1 /\ Len(list) \in Nat
  <2>1. list \in Seq([index : Table, size : Nat])
    BY DEF GrowInv, GrowthTypeOK
  <2>2. list \in [1..Len(list) -> [index : Table, size : Nat]] /\ Len(list) \in Nat
    BY <2>1, LenProperties
  <2> DEFINE T == Nodes(Table')
  <2>3. [index : Table, size : Nat] \subseteq T /\ node \in T
    BY <1>8 DEF Nodes, CreateNode
  <2>4. list \in [1..Len(list) -> T]
    BY <2>2, <2>3
  <2> HIDE DEF T
  <2>5. list \in Seq(T)
    BY <2>2, <2>4, SeqDef
  <2>6. InsertNode(list, node) \in Seq(Nodes(Table')) /\ Len(InsertNode(list, node)) = Len(list) + 1
    <3>1. list \in Seq(Nodes(Table')) /\ node \in Nodes(Table')
      BY <2>3, <2>5 DEF T
    <3> HIDE DEF node
    <3> QED
      BY <3>1, InsertNodeProperties
  <2> QED
    BY <1>5, <2>2, <2>6 DEF Nodes
<1>17. GrowthTypeOK'
  <2>1. header'.count <= MaxInodes
    BY ONLY <1>6, <1>7, n \in Nat, left \in Nat \ {0}
  <2>2. /\ diskHeader' \in Headers /\ inode' \in [Ids -> Inodes] /\ stack' \in Seq(Frames)
        /\ result' \in BOOLEAN /\ firstPosition' \in 0..(InodeSize - 1) /\ backNull' \in BOOLEAN
    BY <1>5 DEF GrowInv, GrowthTypeOK
  <2> QED
    BY <1>7, <1>11, <1>13, <1>16, <2>1, <2>2 DEF GrowthTypeOK
<1>18. OnlyGrown'
  BY <1>5, <1>11 DEF GrowInv, OnlyGrown
<1>19. /\ Indexes(list') = Table' \ Live' /\ Once(list') /\ AllOfSize(list', 0)
       /\ Len(list') = Cardinality(Table' \ Live')
  <2>1. node \in Nodes(Ids) /\ node.index = n /\ node.size = 0
    BY <1>9 DEF Nodes, CreateNode
  <2> HIDE DEF node
  <2>2. n \notin Indexes(list)
    BY <1>8, ListFacts
  <2>3. /\ Indexes(list') = Indexes(list) \cup {n} /\ Once(list') /\ AllOfSize(list', 0)
    BY <1>5, <2>1, <2>2, ListFacts, Facts, InsertNodeIndexes
  <2>4. Table' \ Live' = (Table \ Live) \cup {n} /\ n \notin Table \ Live
    BY <1>8, <1>10, Facts
  <2>5. Cardinality((Table \ Live) \cup {n}) = Cardinality(Table \ Live) + 1
    BY <2>4, ListFacts, FS_AddElement
  <2> QED
    BY <1>16, <2>3, <2>4, <2>5, ListFacts
<1>20. FreeInodesListed'
  BY <1>19 DEF FreeInodesListed, Indexes, AllOfSize
<1>21. GrowthKnows'
  <2>1. n + 1 + (left - 1) <= MaxInodes
    BY ONLY <1>6, n \in Nat, left \in Nat \ {0}
  <2>2. list' # << >>
    <3>1. Len(list') > 0
      BY ONLY <1>16
    <3> QED
      BY <1>16, <3>1, EmptySeq
  <2>3. AcceptsParent(growth.parent)'
    BY <1>5, <1>6, <1>11 DEF AcceptsParent, Status
  <2> QED
    BY <1>5, <1>6, <1>7, <1>11, <2>1, <2>2, <2>3 DEF GrowthKnows, AcceptsParent, Status
<1> QED
  BY <1>14, <1>15, <1>17, <1>18, <1>19, <1>20, <1>21 DEF GrowInv

-----------------------------------------------------------------------------
(* The block of j after document id has been put under parent.             *)
BlockAfterInsert(j, parent, id) ==
    IF j = parent THEN [MetaOf(j) EXCEPT !.child = id] ELSE MetaOf(j)

(* The data area after a document of z cells has been written at end: its  *)
(* own block, the parent's with the new child, all the others as they were. *)
HasNewBlock(area, id, parent, d, end, z) ==
    /\ area \in [DataArea \cup end..(end + z - 1) -> Metas \cup Elements \cup {TableCell}]
    /\ area[end] \in Metas /\ area[end].id = id
    /\ area[end].size = z /\ area[end].doc = d
    /\ \A j \in Live : area[inode[j].pos] = BlockAfterInsert(j, parent, id)

(* writeDocument behind the last document leaves such a data area. *)
LEMMA WrittenBehind ==
    ASSUME GrowInv,
           NEW id \in Ids, NEW parent \in Links, NEW d \in Documents,
           NEW end \in Nat, end = header.endPosition, NEW z \in Nat \ {0}, z = DocSize[d],
           AcceptsParent(parent)
    PROVE  HasNewBlock(WithDocument(NewMeta(id, parent, d), end, parent), id, parent, d, end, z)
<1> DEFINE area == WithDocument(NewMeta(id, parent, d), end, parent)
           meta == NewMeta(id, parent, d)
           written == end..(end + z - 1)
           plain == WriteAt(disk, end, Image(meta))
           Cells == Metas \cup Elements \cup {TableCell}
<1>1. parent # NoDoc => parent \in Live
  BY Constants DEF AcceptsParent, Status, Live, Links
<1>2. /\ meta \in Metas /\ meta.id = id /\ meta.size = z /\ meta.doc = d
  <2>1. (IF parent = NoDoc THEN NoDoc ELSE MetaOf(parent).child) \in Links
    <3>1. parent # NoDoc => MetaOf(parent) \in Metas
      BY <1>1, LiveBlock
    <3> QED
      BY <3>1 DEF Links, Metas
  <2> QED
    BY <2>1 DEF NewMeta, Metas, Links
<1> HIDE DEF meta
<1>3. /\ Image(meta) \in [1..z -> Cells] /\ Len(Image(meta)) = z /\ Image(meta)[1] = meta
  <2>1. Image(meta) = [k \in 1..z |-> IF k = 1 THEN meta ELSE [doc |-> d, at |-> k]]
    BY <1>2 DEF Image
  <2>2. \A k \in 1..z : [doc |-> d, at |-> k] \in Elements
    BY DEF Elements
  <2> QED
    BY <1>2, <2>1, <2>2
<1>4. disk \in [DataArea -> Cells]
  BY Facts
<1> HIDE DEF Cells
<1>5. \A a \in DataArea : a \notin written
  <2>1. DataStart \in Nat
    BY Constants
  <2> QED
    BY ONLY <2>1, end = header.endPosition, end \in Nat DEF DataArea
<1>6. /\ plain \in [DataArea \cup written -> Cells]
      /\ plain[end] = meta
      /\ \A a \in DataArea : plain[a] = disk[a]
  <2>1. plain = [a \in DataArea \cup written |->
                    IF a \in written THEN Image(meta)[a - end + 1] ELSE disk[a]]
    BY <1>3, <1>4 DEF WriteAt
  <2>2. \A a \in written : a - end + 1 \in 1..z
    OBVIOUS
  <2>3. end \in written /\ end - end + 1 = 1
    OBVIOUS
  <2> HIDE DEF written, plain
  <2> QED
    BY <1>3, <1>4, <1>5, <2>1, <2>2, <2>3
<1> HIDE DEF plain
<1>7. \A j \in Live : inode[j].pos \in DataArea /\ plain[inode[j].pos] = MetaOf(j)
  <2> TAKE j \in Live
  <2>1. /\ inode[j].pos \in Nat /\ MetaOf(j).size \in Nat \ {0} /\ Begin <= inode[j].pos
        /\ inode[j].pos + MetaOf(j).size <= header.endPosition
    BY LiveBlock
  <2>2. /\ DataStart <= TableEnd /\ TableEnd <= Begin
        /\ DataStart \in Nat /\ TableEnd \in Nat /\ Begin \in Nat
    BY Facts, Constants
  <2>3. inode[j].pos \in DataArea
    BY ONLY <2>1, <2>2, end = header.endPosition, end \in Nat DEF DataArea
  <2> QED
    BY <1>6, <2>3 DEF MetaOf
<1>8. end \in written /\ \A j \in Live : inode[j].pos # end
  <2>1. end \in written
    OBVIOUS
  <2> QED
    BY <1>5, <1>7, <2>1
<1> HIDE DEF written
<1>9. CASE parent = NoDoc
  <2>1. area = plain
    BY <1>9 DEF WithDocument, plain, meta
  <2>2. \A j \in Live : j # parent
    BY <1>9, Constants DEF Live
  <2> QED
    BY <1>2, <1>6, <1>7, <2>1, <2>2 DEF HasNewBlock, BlockAfterInsert, Cells, written
<1>10. CASE parent # NoDoc
  <2> DEFINE at == inode[parent].pos
             block == [MetaOf(parent) EXCEPT !.child = id]
  <2>1. area = [plain EXCEPT ![at] = block]
    BY <1>2, <1>10 DEF WithDocument, plain, meta
  <2>2. block \in Metas
    <3>1. MetaOf(parent) \in Metas /\ id \in Links
      BY <1>1, <1>10, LiveBlock DEF Links
    <3> QED
      BY <3>1 DEF Metas
  <2>3. at \in DataArea /\ at # end
    BY <1>1, <1>7, <1>8, <1>10
  <2>4. \A j \in Live : j # parent => inode[j].pos # at
    <3>1. \A j \in Live : inode[j].pos \in Extent(j)
      BY LiveBlock
    <3> QED
      BY <1>1, <1>10, <3>1 DEF GrowInv, BlocksTiled
  <2> HIDE DEF at, block
  <2>5. block \in Cells
    BY <2>2 DEF Cells
  <2>6. area \in [DataArea \cup written -> Cells] /\ area[end] = meta
    BY <1>6, <2>1, <2>3, <2>5
  <2>7. \A j \in Live : area[inode[j].pos] = IF j = parent THEN block ELSE MetaOf(j)
    BY <1>6, <1>7, <2>1, <2>3, <2>4 DEF at
  <2> QED
    BY <1>2, <2>6, <2>7 DEF HasNewBlock, BlockAfterInsert, block, Cells, written
<1> QED
  BY <1>9, <1>10

(* The inode at the back of the list goes into use, behind all the others; *)
(* the list loses it and nothing else.                                     *)
LEMMA PlacementInvariant ==
    ASSUME GrowInv, NEW parent \in Links, NEW d \in Documents,
           growth.at \in {"none", "grown"}, AcceptsParent(parent), list # << >>,
           PlaceAtEnd(parent, d),
           growth' = NoGrowth, UNCHANGED <<firstPosition, backNull>>
    PROVE  GrowInv'
<1>1. PICK end \in Nat : end = header.endPosition
  BY Facts
<1>2. PICK z \in Nat \ {0} : z = DocSize[d]
  BY Constants
<1>3. /\ Last(list) \in Nodes(Ids) /\ Last(list).index \in Table \ Live
      /\ Indexes(PopMinSizeNode(list)) = Indexes(list) \ {Last(list).index}
      /\ Once(PopMinSizeNode(list)) /\ AllOfSize(PopMinSizeNode(list), 0)
      /\ Indexes(list) = Table \ Live
  BY ListFacts, Facts, PopMinIndexes
<1>4. PICK id \in Ids : id = Last(list).index /\ id \in Table /\ id \notin Live
  BY <1>3, Facts
<1>5. /\ inode' = [inode EXCEPT ![id] = [status |-> CLOSE, pos |-> end, size |-> z]]
      /\ list' = PopMinSizeNode(list)
      /\ disk' = WithDocument(NewMeta(id, parent, d), end, parent)
      /\ header' = WithRoot([header EXCEPT !.endPosition = end + z], id)
      /\ diskHeader' = header' /\ result' = TRUE /\ stack' = stack
  BY <1>1, <1>2, <1>4 DEF PlaceAtEnd
<1>6. /\ header' \in Headers /\ header'.endPosition = end + z /\ header'.count = header.count
  <2>1. header \in Headers /\ id \in Links /\ end + z \in Nat
    BY Facts DEF Links
  <2> QED
    BY ONLY <1>5, <2>1 DEF WithRoot, Headers
<1>7. /\ inode' \in [Ids -> Inodes]
      /\ \A j \in Ids \ {id} : inode'[j] = inode[j]
      /\ inode'[id].status = CLOSE /\ inode'[id].pos = end /\ inode'[id].size = z
  <2>1. inode \in [Ids -> Inodes]
    BY Facts
  <2>2. [status |-> CLOSE, pos |-> end, size |-> z] \in Inodes
    BY DEF Inodes
  <2> QED
    BY ONLY <1>5, <2>1, <2>2, id \in Ids
<1>8. Live' = Live \cup {id}
  BY <1>4, <1>7 DEF Live
<1>9. TableEnd' = TableEnd /\ FirstBlock' = FirstBlock /\ Table' = Table
  BY <1>6 DEF TableEnd, FirstBlock, Table
<1>10. Begin = FirstBlock /\ Begin' = FirstBlock
  BY <1>9 DEF Begin, NoGrowth
<1>11. /\ DataArea' = DataArea \cup end..(end + z - 1) /\ Begin <= end /\ Begin \in Nat
  <2>1. DataStart \in Nat
    BY Constants
  <2>2. DataStart <= TableEnd /\ TableEnd <= Begin /\ Begin <= end /\ TableEnd \in Nat /\ Begin \in Nat
    BY <1>1, Facts
  <2> QED
    BY ONLY <1>1, <1>6, <2>1, <2>2, end \in Nat, z \in Nat \ {0} DEF DataArea
<1>12. /\ disk' \in [DataArea' -> Metas \cup Elements \cup {TableCell}]
       /\ disk'[end] \in Metas /\ disk'[end].id = id
       /\ disk'[end].size = z /\ disk'[end].doc = d
       /\ \A j \in Live : disk'[inode[j].pos] = BlockAfterInsert(j, parent, id)
  <2>1. HasNewBlock(WithDocument(NewMeta(id, parent, d), end, parent), id, parent, d, end, z)
    BY ONLY WrittenBehind, GrowInv, id \in Ids, parent \in Links, d \in Documents,
            end \in Nat, end = header.endPosition, z \in Nat \ {0}, z = DocSize[d],
            AcceptsParent(parent), <1>1, <1>2
  <2> QED
    BY <1>5, <1>11, <2>1 DEF HasNewBlock
<1>13. \A j \in Live : j \in Ids /\ j # id
  BY <1>4 DEF Live
<1>14. /\ \A j \in Live : Extent(j)' = Extent(j)
       /\ Extent(id)' = end..(end + z - 1)
  BY <1>7, <1>13 DEF Extent
<1>15. \A j \in Live : /\ MetaOf(j)' \in Metas /\ MetaOf(j)'.id = j
                       /\ MetaOf(j)'.size = inode'[j].size
                       /\ MetaOf(j)'.size = DocSize[MetaOf(j)'.doc]
  <2> TAKE j \in Live
  <2>1. /\ MetaOf(j) \in Metas /\ MetaOf(j).id = j /\ MetaOf(j).size = inode[j].size
        /\ MetaOf(j).size = DocSize[MetaOf(j).doc]
    BY DEF GrowInv, BlocksTiled
  <2>2. MetaOf(j)' = IF j = parent THEN [MetaOf(j) EXCEPT !.child = id] ELSE MetaOf(j)
    BY <1>7, <1>12, <1>13 DEF MetaOf, BlockAfterInsert
  <2>3. inode'[j].size = inode[j].size /\ id \in Links
    BY <1>7, <1>13 DEF Links
  <2> QED
    BY ONLY <2>1, <2>2, <2>3 DEF Metas
<1>16. /\ MetaOf(id)' \in Metas /\ MetaOf(id)'.id = id
       /\ MetaOf(id)'.size = inode'[id].size
       /\ MetaOf(id)'.size = DocSize[MetaOf(id)'.doc]
  BY <1>2, <1>7, <1>12 DEF MetaOf
<1>17. /\ UNION {Extent(j) : j \in Live} = Begin..(end - 1)
       /\ \A j, k \in Live : j # k => Extent(j) \cap Extent(k) = {}
  BY <1>1 DEF GrowInv, BlocksTiled
<1>18. UNION {Extent(j) : j \in Live}' = Begin'..(header'.endPosition - 1)
  <2>1. UNION {Extent(j) : j \in Live}' = (Begin..(end - 1)) \cup (end..(end + z - 1))
    <3>1. UNION {Extent(j)' : j \in Live \cup {id}}
            = (UNION {Extent(j) : j \in Live}) \cup (end..(end + z - 1))
      <4>1. \A a : a \in UNION {Extent(j)' : j \in Live \cup {id}}
                     <=> (\E j \in Live : a \in Extent(j)') \/ a \in Extent(id)'
        OBVIOUS
      <4> QED
        BY <1>14, <4>1
    <3> QED
      BY <1>8, <1>17, <3>1
  <2>2. (Begin..(end - 1)) \cup (end..(end + z - 1)) = Begin..(end + z - 1)
    BY ONLY <1>11, end \in Nat, z \in Nat \ {0}
  <2> QED
    BY <1>6, <1>10, <2>1, <2>2
<1>19. \A j, k \in Live' : j # k => Extent(j)' \cap Extent(k)' = {}
  <2>1. ASSUME NEW j \in Live PROVE Extent(j)' \cap Extent(id)' = {}
    <3>1. Extent(j) \subseteq Begin..(end - 1)
      BY <1>17
    <3> QED
      BY ONLY <1>11, <1>14, <3>1, j \in Live, end \in Nat, z \in Nat \ {0}
  <2> QED
    BY <1>8, <1>14, <1>17, <2>1
<1>20. BlocksTiled'
  <2>1. DataStart <= TableEnd' /\ TableEnd' <= Begin' /\ Begin' <= header'.endPosition
    <3>1. DataStart <= TableEnd /\ TableEnd <= Begin
      BY Facts
    <3>2. Begin <= end + z
      BY ONLY <1>11, end \in Nat, z \in Nat \ {0}
    <3> QED
      BY <1>6, <1>9, <1>10, <3>1, <3>2
  <2>2. Live' \subseteq Table'
    BY <1>4, <1>8, <1>9, Facts
  <2> QED
    BY <1>8, <1>15, <1>16, <1>18, <1>19, <2>1, <2>2 DEF BlocksTiled
<1>21. /\ list' \in Seq([index : Table', size : Nat])
       /\ Len(list') = Len(list) - 1
  <2>1. list \in Seq(Nodes(Table))
    BY DEF GrowInv, GrowthTypeOK, Nodes
  <2> QED
    BY <1>5, <1>9, <2>1, PopMinProperties DEF Nodes
<1>22. GrowthTypeOK'
  <2>1. /\ header.count <= MaxInodes /\ stack \in Seq(Frames)
        /\ firstPosition \in 0..(InodeSize - 1) /\ backNull \in BOOLEAN
    BY DEF GrowInv, GrowthTypeOK
  <2> QED
    BY <1>5, <1>6, <1>7, <1>12, <1>21, <2>1 DEF GrowthTypeOK, Growths
<1>23. OnlyGrown'
  BY <1>5, <1>7, Constants DEF GrowInv, OnlyGrown, NoGrowth
<1>24. FreeInodesListed' /\ Once(list)'
  <2>1. Table' \ Live' = (Table \ Live) \ {id}
    BY <1>8, <1>9
  <2>2. Indexes(list') = Table' \ Live' /\ Once(list') /\ AllOfSize(list', 0)
    BY <1>3, <1>4, <1>5, <2>1
  <2>3. Cardinality((Table \ Live) \ {id}) = Cardinality(Table \ Live) - 1
    BY <1>4, ListFacts, FS_RemoveElement
  <2> QED
    BY <1>21, <2>1, <2>2, <2>3, ListFacts DEF FreeInodesListed, Indexes, AllOfSize
<1>25. GrowthKnows'
  BY DEF GrowthKnows, NoGrowth
<1> QED
  BY <1>20, <1>22, <1>23, <1>24, <1>25 DEF GrowInv

(* An insertion finds no gap in a file that only grows: it goes to the end. *)
LEMMA InsertStepInvariant ==
    ASSUME GrowInv, InsertStep
    PROVE  GrowInv'
<1>1. Parents \subseteq Links
  BY Facts DEF Parents
<1>2. ASSUME NEW parent \in Parents, NEW d \in Documents, InsertIntoGap(parent, d)
      PROVE  FALSE
  <2>1. list # << >> /\ list[1].size >= DocSize[d]
    BY <1>2 DEF InsertIntoGap, FitsGap
  <2>2. list[1].size = 0
    <3>1. 1 \in DOMAIN list
      BY <2>1, Facts, EmptySeq
    <3> QED
      BY <3>1 DEF GrowInv, FreeInodesListed
  <2>3. DocSize[d] \in Nat \ {0}
    BY Constants
  <2> QED
    BY ONLY <2>1, <2>2, <2>3
<1>3. ASSUME NEW parent \in Parents, NEW d \in Documents,
             growth = NoGrowth, InsertAtEnd(parent, d), UNCHANGED growthVars
      PROVE  GrowInv'
  <2>1. /\ growth.at = "none" /\ growth' = NoGrowth /\ UNCHANGED <<firstPosition, backNull>>
    BY <1>3, GrowthFields DEF growthVars
  <2>2. AcceptsParent(parent) /\ list # << >> /\ PlaceAtEnd(parent, d)
    BY <1>3 DEF InsertAtEnd, FitsEnd
  <2> QED
    BY <1>1, <2>1, <2>2, PlacementInvariant
<1> QED
  BY <1>2, <1>3 DEF InsertStep

(* The insertion a growth was for is placed like any other. *)
LEMMA PlaceAfterGrowthInvariant ==
    ASSUME GrowInv, PlaceAfterGrowth
    PROVE  GrowInv'
<1>1. growth.at = "grown" /\ growth.parent \in Links /\ growth.doc \in Documents
  BY GrowthFields DEF PlaceAfterGrowth
<1>2. AcceptsParent(growth.parent) /\ list # << >>
  BY <1>1 DEF GrowInv, GrowthKnows
<1> QED
  BY <1>1, <1>2, PlacementInvariant DEF PlaceAfterGrowth

(* Every step of a file that only grows keeps the invariant. *)
LEMMA GrowStepInvariant ==
    ASSUME GrowInv, [GrowOnlyNext]_allVars
    PROVE  GrowInv'
<1>1. CASE InsertStep
  BY <1>1, InsertStepInvariant
<1>2. ASSUME NEW parent \in Parents, NEW d \in Documents, StartGrowth(parent, d)
      PROVE  GrowInv'
  BY <1>2, StartGrowthInvariant
<1>3. CASE GrowthStep
  <2>1. CASE MoveToEnd
    <3>1. Moving
      BY <2>1 DEF MoveToEnd
    <3> QED
      BY <2>1, <3>1, MoveToEndInvariant
  <2> QED
    BY <1>3, <2>1, OnlyMovesToEnd, SpaceFoundInvariant, WriteNewListNodeInvariant,
       EndGrowthInvariant, PlaceAfterGrowthInvariant DEF GrowthStep
<1>4. CASE UNCHANGED allVars
  <2>1. Begin' = Begin /\ GrowthKnows'
    BY <1>4 DEF allVars, fileVars, growthVars, Begin, FirstBlock, TableEnd, GrowInv,
                GrowthKnows, AcceptsParent, Status
  <2>2. /\ diskHeader' \in Headers /\ firstPosition' \in 0..(InodeSize - 1)
        /\ growth' \in Growths /\ growth'.at \notin {"crashed", "failed"}
    BY <1>4 DEF allVars, fileVars, growthVars, GrowInv, GrowthTypeOK, OnlyGrown
  <2> QED
    BY <1>4, <2>1, <2>2, SameFile DEF allVars, fileVars, growthVars
<1> QED
  BY <1>1, <1>2, <1>3, <1>4 DEF GrowOnlyNext

-----------------------------------------------------------------------------
(* In a file that only grows the invariant holds in every state: for every *)
(* number of inodes, every layout and every set of documents.              *)
THEOREM GrowthInvariance == GrowOnlySpec => []GrowInv
<1>1. GrowthInit => GrowInv
  BY GrowInitInvariant
<1>2. GrowInv /\ [GrowOnlyNext]_allVars => GrowInv'
  BY GrowStepInvariant
<1> QED
  BY <1>1, <1>2, PTL DEF GrowOnlySpec

(* The header, the inodes, the list and the growth in progress keep their  *)
(* types: no growth adds more inodes than the table may come to have.      *)
THEOREM GrowthTypeCorrect == GrowOnlySpec => []GrowthTypeOK
<1>1. GrowInv => GrowthTypeOK
  BY DEF GrowInv
<1> QED
  BY <1>1, GrowthInvariance, PTL

(* Extending the inode table never overwrites a document: writeNewListNode *)
(* writes only the cells that the moves of reallocateNewInode have left.   *)
THEOREM TableStaysApart == GrowOnlySpec => []TableApart
<1>1. ASSUME GrowInv PROVE TableApart
  <2> SUFFICES ASSUME growth.at # "moving", NEW i \in Live
               PROVE  inode[i].pos >= FirstBlock
    BY DEF TableApart
  <2>1. FirstBlock <= Begin
    <3>1. CASE growth.at = "listing"
      <4>1. growth.left \in Nat /\ InodeSize \in Nat \ {0} /\ FirstBlock \in Nat
        BY <1>1, <3>1, GrowthFields, Constants, Facts
      <4>2. InodeSize * growth.left \in Nat
        BY ONLY <4>1, Multiples
      <4>3. Begin = FirstBlock + InodeSize * growth.left
        BY <3>1 DEF Begin
      <4> QED
        BY ONLY <4>1, <4>2, <4>3
    <3>2. CASE growth.at # "listing"
      <4>1. Begin = FirstBlock /\ FirstBlock \in Nat
        BY <1>1, <3>2, Facts DEF Begin
      <4> QED
        BY ONLY <4>1
    <3> QED
      BY <3>1, <3>2
  <2>2. Begin <= inode[i].pos /\ inode[i].pos \in Nat
    BY <1>1, LiveBlock
  <2>3. Begin \in Nat /\ FirstBlock \in Nat
    BY <1>1, Facts
  <2> QED
    BY ONLY <2>1, <2>2, <2>3
<1> QED
  BY <1>1, GrowthInvariance, PTL

(* A step before and after which nothing is being deleted deletes nothing. *)
LEMMA GrowsOnly ==
    ASSUME [GrowthNext]_allVars, stack = << >>, stack' = << >>
    PROVE  [GrowOnlyNext]_allVars
<1>1. ASSUME NEW id \in Table
      PROVE  ~CallDelete(id)
  BY DEF CallDelete, DeleteDocument
<1>2. ~ContinueDelete
  BY DEF ContinueDelete, DeleteStep, DeleteRejected, DeleteChild, RetryChild, GiveUp,
         FreeDocument, Idle
<1>3. Stopped => UNCHANGED allVars
  BY DEF Stopped
<1> QED
  BY <1>1, <1>2, <1>3 DEF GrowthNext

(* As long as nothing is deleted the invariant holds in every state. *)
LEMMA GrowsWithoutGaps == NothingDeleted /\ GrowthSpec => []GrowInv
<1>1. GrowthInit => GrowInv
  BY GrowInitInvariant
<1>2. GrowInv /\ stack = << >> /\ (stack = << >>)' /\ [GrowthNext]_allVars => GrowInv'
  BY GrowsOnly, GrowStepInvariant
<1> QED
  BY <1>1, <1>2, PTL DEF GrowthSpec, NothingDeleted

(* The documents lie one behind the other, without a cell that belongs to  *)
(* nobody: the loop of reallocateNewInode always reads a block.            *)
THEOREM DataStaysTiled == GrowthSpec => DataTiled
<1>1. ASSUME GrowInv PROVE DocumentsTile
  <2>1. Quiet => Begin = FirstBlock
    BY DEF Quiet, Begin, NoGrowth
  <2> QED
    BY <1>1, <2>1 DEF DocumentsTile, GrowInv, BlocksTiled
<1> QED
  BY <1>1, GrowsWithoutGaps, PTL DEF DataTiled

(* The list holds exactly the inodes not in use, each once: a growth loses *)
(* none of those it adds.                                                  *)
THEOREM NewInodesStayListed == GrowthSpec => NewInodesListed
<1>1. GrowInv => FreeInodesListed
  BY DEF GrowInv
<1> QED
  BY <1>1, GrowsWithoutGaps, PTL DEF NewInodesListed

(* While reallocateNewInode moves documents and writeNewListNode extends   *)
(* the table, every document in use keeps its number, size and links.      *)
THEOREM MovesKeepEveryBlock == GrowOnlySpec => MovesKeepBlocks
<1>1. ASSUME GrowInv, [GrowOnlyNext]_allVars
      PROVE  [growth.at \in {"moving", "listing"} /\ growth'.at # "failed"
                 => \A i \in Live : MetaOf(i)' = MetaOf(i)]_allVars
  <2> SUFFICES ASSUME GrowOnlyNext, growth.at \in {"moving", "listing"}
               PROVE  \A i \in Live : MetaOf(i)' = MetaOf(i)
    BY <1>1
  <2>1. growth # NoGrowth /\ ~PlaceAfterGrowth
    BY DEF NoGrowth, PlaceAfterGrowth
  <2>2. GrowthStep
    BY <2>1 DEF GrowOnlyNext, InsertStep, StartGrowth
  <2>3. CASE MoveToEnd
    <3>1. Moving
      BY <2>3 DEF MoveToEnd
    <3> QED
      BY <1>1, <2>3, <3>1, MoveToEndInvariant
  <2> QED
    BY <1>1, <2>1, <2>2, <2>3, OnlyMovesToEnd, SpaceFoundInvariant,
       WriteNewListNodeInvariant, EndGrowthInvariant DEF GrowthStep
<1> QED
  BY <1>1, GrowthInvariance, PTL DEF GrowOnlySpec, MovesKeepBlocks

=============================================================================
