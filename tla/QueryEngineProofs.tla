------------------------- MODULE QueryEngineProofs -------------------------
(***************************************************************************)
(* What a query reaches, for every number of inodes, every set of          *)
(* documents and every set of queries, as long as no gap is filled again:  *)
(* nothing it does not ask for, nothing twice, and all it asks for that    *)
(* does not stand behind a removed document.                               *)
(***************************************************************************)
EXTENDS QueryEngine, DocTreeProofs

(* A document is younger than its parent, and the only one inserted        *)
(* without a parent is the first.                                          *)
OneOldestRoot ==
    /\ \A i \in Placed : parentOf[i] < i
    /\ \A i, j \in Placed : parentOf[i] = NoDoc /\ parentOf[j] = NoDoc => i = j
    /\ header.root = NoDoc => Placed = {}

(* A walk stops at a removed document (treeQueryExecute, printTree): those *)
(* inserted before it under the same parent are hidden behind it.          *)
Hidden(i) == \E j \in Placed : j > i /\ parentOf[j] = parentOf[i] /\ inode[j].status = REMOVE

(* The documents under i a walk comes to.                                  *)
Reachable(i) == {k \in Live : parentOf[k] = i /\ ~Hidden(k)}

(* The documents a walk comes to that begins with the start and leaves its *)
(* brothers alone.                                                         *)
Reached(start) ==
    LET complete == {S \in SUBSET Live : start \in S /\ \A j \in S : Reachable(j) \subseteq S}
    IN  {i \in Live : \A S \in complete : i \in S}

Older(i) == {j \in Live : j < i /\ parentOf[j] = parentOf[i]}

(* The documents of one level a walk comes to that begins with i.          *)
Row(i) ==
    {i} \cup {j \in Older(i) : ~\E k \in Placed :
                 /\ j < k /\ k < i
                 /\ parentOf[k] = parentOf[j] /\ inode[k].status = REMOVE}

(* The documents visited by a walk that begins with i.                     *)
Visits(i) == IF i \in Live THEN UNION {Reached(j) : j \in Row(i)} ELSE {}

-----------------------------------------------------------------------------
(* Reached is the least set with the start that leaves out no child a walk *)
(* comes to.                                                               *)
LEMMA ReachedIs ==
    ASSUME NEW i \in Live
    PROVE  /\ i \in Reached(i) /\ Reached(i) \subseteq Live
           /\ \A j \in Reached(i) : Reachable(j) \subseteq Reached(i)
           /\ \A S \in SUBSET Live :
                 i \in S /\ (\A j \in S : Reachable(j) \subseteq S) => Reached(i) \subseteq S
  BY DEF Reached, Reachable

(* What is reached from a document is no older than it, and was inserted   *)
(* under something reached.                                                *)
LEMMA ReachedFrom ==
    ASSUME OneOldestRoot, NEW i \in Live
    PROVE  /\ \A x \in Reached(i) : i <= x
           /\ \A x \in Reached(i) \ {i} : parentOf[x] \in Reached(i)
<1>1. Live \subseteq Int /\ \A j \in Live : j \in Placed
  BY DocFileAssumption DEF Live, Placed, Ids
<1>2. /\ i \in Reached(i) /\ Reached(i) \subseteq Live
      /\ \A j \in Reached(i) : Reachable(j) \subseteq Reached(i)
      /\ \A S \in SUBSET Live :
            i \in S /\ (\A j \in S : Reachable(j) \subseteq S) => Reached(i) \subseteq S
  BY ReachedIs
<1>3. \A x \in Reached(i) : i <= x
  <2> DEFINE S == {x \in Live : i <= x}
  <2>1. i \in S
    BY <1>1
  <2>2. ASSUME NEW j \in S, NEW k \in Reachable(j) PROVE k \in S
    <3>1. k \in Live /\ j < k
      BY <1>1 DEF Reachable, OneOldestRoot
    <3> QED
      BY <1>1, <3>1
  <2> QED
    BY <1>2, <2>1, <2>2
<1>4. ASSUME NEW x \in Reached(i) \ {i}, parentOf[x] \notin Reached(i) PROVE FALSE
  <2> DEFINE S == Reached(i) \ {x}
  <2>1. \A j \in S : Reachable(j) \subseteq S
    BY <1>2, <1>4 DEF Reachable
  <2> QED
    BY <1>2, <1>4, <2>1
<1> QED
  BY <1>3, <1>4

(* Nothing is reached from two documents of one level.                     *)
LEMMA ReachedApart ==
    ASSUME OneOldestRoot, NEW i \in Live, NEW j \in Live, i # j, parentOf[i] = parentOf[j]
    PROVE  Reached(i) \cap Reached(j) = {}
<1>1. Live \subseteq Nat /\ \A x \in Live : x \in Placed /\ parentOf[x] < x
  BY DocFileAssumption DEF Live, Placed, Ids, OneOldestRoot
<1>2. Reached(i) \subseteq Live /\ Reached(j) \subseteq Live
  BY ReachedIs
<1> DEFINE Both == Reached(i) \cap Reached(j)
<1> SUFFICES ASSUME Both # {} PROVE FALSE
  OBVIOUS
<1>3. PICK x \in Both : \A y \in Both : x <= y
  BY <1>1, <1>2, LeastElement
<1>4. x \in {i, j}
  <2> SUFFICES ASSUME x \notin {i, j} PROVE FALSE
    OBVIOUS
  <2>1. parentOf[x] \in Both
    BY <1>3, ReachedFrom
  <2>2. x \in Live /\ parentOf[x] \in Live
    BY <1>2, <1>3, <2>1
  <2>3. x \in Nat /\ parentOf[x] \in Nat /\ parentOf[x] < x
    BY <1>1, <2>2
  <2>4. x <= parentOf[x]
    BY <1>3, <2>1
  <2> QED
    BY <2>3, <2>4
<1>5. ASSUME NEW a \in Live, NEW b \in Live, a # b, parentOf[a] = parentOf[b], a \in Reached(b)
      PROVE  FALSE
  <2>1. parentOf[a] \in Reached(b)
    BY <1>5, ReachedFrom
  <2>2. Reached(b) \subseteq Live /\ \A y \in Reached(b) : b <= y
    BY <1>5, ReachedIs, ReachedFrom
  <2>3. parentOf[a] \in Nat /\ b \in Nat /\ parentOf[a] < b
    BY <1>1, <1>5, <2>1, <2>2
  <2>4. b <= parentOf[a]
    BY <2>1, <2>2
  <2> QED
    BY <2>3, <2>4
<1> QED
  BY <1>3, <1>4, <1>5

(* Below a document lie its children that are not hidden, and what is      *)
(* below them: the visits that begin with its child.                       *)
LEMMA VisitsBelow ==
    ASSUME TreeInv, OneOldestRoot, NEW i \in Live
    PROVE  /\ Reached(i) = {i} \cup Visits(Child(i))
           /\ i \notin Visits(Child(i))
<1>1. /\ \A x \in Live : x \in Placed /\ x \in Nat
      /\ NoDoc \notin Live /\ NoDoc \notin Placed
      /\ \A x \in Live : parentOf[x] < x /\ parentOf[x] \in Int
      /\ \A x \in Placed : x \in Live \/ inode[x].status = REMOVE
      /\ \A x \in Live : inode[x].status # REMOVE
      /\ Placed \subseteq Nat
  BY DocFileAssumption
     DEF TreeInv, IInv, TypeOK, Inodes, Live, Placed, Ids, NoDoc, Links, OneOldestRoot, LinksTellAges
<1>2. /\ Child(i) \in Under(i) \cup {NoDoc}
      /\ \A k \in Under(i) : k <= Child(i)
  <2>1. Child(i) = Newest(Under(i)) /\ Under(i) \in SUBSET Ids
    BY <1>1 DEF TreeInv, LinksTellAges, Under, Placed
  <2> QED
    BY <2>1, NewestOf
<1>3. IF Child(i) \in Live THEN Reachable(i) = Row(Child(i)) ELSE Reachable(i) = {}
  <2>1. CASE Child(i) = NoDoc
    <3>1. Under(i) = {}
      <4>1. \A k \in Under(i) : k \in Nat /\ k <= NoDoc
        BY <1>1, <1>2, <2>1 DEF Under
      <4>2. \A k \in Nat : ~(k <= NoDoc)
        BY DEF NoDoc
      <4> QED
        BY <4>1, <4>2
    <3> QED
      BY <1>1, <2>1, <3>1 DEF Reachable, Under
  <2>2. CASE Child(i) \in Placed \ Live
    <3>1. Child(i) \in Under(i) /\ inode[Child(i)].status = REMOVE
      BY <1>1, <1>2, <2>2
    <3>2. ASSUME NEW k \in Live, parentOf[k] = i PROVE Hidden(k)
      <4>1. k \in Under(i) /\ k # Child(i) /\ k \in Nat /\ Child(i) \in Nat
        BY <1>1, <2>2, <3>2 DEF Under
      <4>2. Child(i) > k
        BY <1>2, <4>1
      <4> QED
        BY <3>1, <3>2, <4>2 DEF Hidden, Under
    <3> QED
      BY <2>2, <3>2 DEF Reachable
  <2>3. CASE Child(i) \in Live
    <3> DEFINE c == Child(i)
    <3>1. c \in Live /\ parentOf[c] = i /\ inode[c].status # REMOVE
          /\ \A k \in Placed : parentOf[k] = i => k <= c
      BY <1>1, <1>2, <2>3 DEF Under
    <3> HIDE DEF c
    <3>2. ASSUME NEW k \in Live, parentOf[k] = i
          PROVE  ~Hidden(k) <=> k \in Row(c)
      <4>1. k \in Nat /\ c \in Nat /\ k <= c
        BY <1>1, <3>1, <3>2
      <4>2. CASE k = c
        <5>1. ~Hidden(c)
          BY <1>1, <3>1 DEF Hidden
        <5> QED
          BY <4>2, <5>1 DEF Row
      <4>3. CASE k # c
        <5>1. k < c
          BY <4>1, <4>3
        <5>2. k \in Older(c)
          BY <3>1, <3>2, <5>1 DEF Older
        <5>3. Hidden(k) <=> \E j \in Placed : /\ k < j /\ j < c /\ parentOf[j] = parentOf[k]
                                              /\ inode[j].status = REMOVE
          <6>1. \A j \in Placed : parentOf[j] = i /\ inode[j].status = REMOVE => j < c
            <7> SUFFICES ASSUME NEW j \in Placed, parentOf[j] = i, inode[j].status = REMOVE
                         PROVE  j < c
              OBVIOUS
            <7>1. j \in Nat /\ j <= c /\ j # c
              BY <1>1, <3>1
            <7> QED
              BY <4>1, <7>1
          <6>2. \A j \in Placed : j \in Nat
            BY <1>1
          <6> QED
            BY <3>2, <4>1, <6>1, <6>2 DEF Hidden
        <5> QED
          BY <4>3, <5>2, <5>3 DEF Row
      <4> QED
        BY <4>2, <4>3
    <3>3. \A k \in Row(c) : k \in Live /\ parentOf[k] = i
      BY <3>1 DEF Row, Older
    <3>4. Reachable(i) = Row(c)
      BY <3>2, <3>3 DEF Reachable
    <3> QED
      BY <2>3, <3>4 DEF c
  <2> QED
    BY <1>2, <2>1, <2>2, <2>3 DEF Under
<1>4. Visits(Child(i)) = UNION {Reached(k) : k \in Reachable(i)}
  BY <1>3 DEF Visits
<1>5. \A k \in Reachable(i) : k \in Live /\ parentOf[k] = i
  BY DEF Reachable
<1> DEFINE T == {i} \cup UNION {Reached(k) : k \in Reachable(i)}
<1>6. Reached(i) \subseteq T
  <2>1. T \subseteq Live
    BY <1>5, ReachedIs
  <2>2. ASSUME NEW j \in T PROVE Reachable(j) \subseteq T
    <3>1. CASE j = i
      BY <1>5, <3>1, ReachedIs
    <3>2. CASE j # i
      <4>1. PICK k \in Reachable(i) : j \in Reached(k)
        BY <2>2, <3>2
      <4>2. Reachable(j) \subseteq Reached(k)
        BY <1>5, <4>1, ReachedIs
      <4> QED
        BY <4>1, <4>2
    <3> QED
      BY <3>1, <3>2
  <2>3. \A S \in SUBSET Live :
           i \in S /\ (\A j \in S : Reachable(j) \subseteq S) => Reached(i) \subseteq S
    BY ReachedIs
  <2>4. i \in T
    OBVIOUS
  <2> HIDE DEF T
  <2> QED
    BY <2>1, <2>2, <2>3, <2>4
<1>7. T \subseteq Reached(i)
  <2>1. i \in Reached(i) /\ Reached(i) \subseteq Live
        /\ \A j \in Reached(i) : Reachable(j) \subseteq Reached(i)
    BY ReachedIs
  <2>2. ASSUME NEW k \in Reachable(i) PROVE Reached(k) \subseteq Reached(i)
    <3>1. k \in Live /\ k \in Reached(i)
      BY <1>5, <2>1, <2>2
    <3>2. \A S \in SUBSET Live :
             k \in S /\ (\A j \in S : Reachable(j) \subseteq S) => Reached(k) \subseteq S
      BY <3>1, ReachedIs
    <3> QED
      BY <2>1, <3>1, <3>2
  <2> QED
    BY <2>1, <2>2
<1>8. \A k \in Reachable(i) : i \notin Reached(k)
  <2> SUFFICES ASSUME NEW k \in Reachable(i), i \in Reached(k) PROVE FALSE
    OBVIOUS
  <2>1. k \in Live /\ parentOf[k] = i
    BY <1>5
  <2>2. k <= i
    BY <2>1, ReachedFrom
  <2>3. i < k /\ i \in Nat /\ k \in Nat
    BY <1>1, <2>1
  <2> QED
    BY <2>2, <2>3
<1> QED
  BY <1>4, <1>6, <1>7, <1>8

(* Along a level the visits go on with the brother.                        *)
LEMMA VisitsBeside ==
    ASSUME TreeInv, OneOldestRoot, NEW i \in Live
    PROVE  /\ Visits(i) = Reached(i) \cup Visits(Brother(i))
           /\ Reached(i) \cap Visits(Brother(i)) = {}
<1>1. /\ \A x \in Live : x \in Placed /\ x \in Nat
      /\ NoDoc \notin Live /\ NoDoc \notin Placed
      /\ \A x \in Placed : x \in Live \/ inode[x].status = REMOVE
      /\ \A x \in Live : inode[x].status # REMOVE
      /\ Placed \subseteq Nat
  BY DocFileAssumption
     DEF TreeInv, IInv, TypeOK, Inodes, Live, Placed, Ids, NoDoc
<1> DEFINE b == Brother(i)
           Sooner == {j \in Placed : parentOf[j] = parentOf[i] /\ j < i}
<1>2. /\ b \in Sooner \cup {NoDoc}
      /\ b = NoDoc => Older(i) = {}
      /\ \A j \in Older(i) : j <= b
  <2>1. CASE parentOf[i] = NoDoc
    <3>1. b = NoDoc
      BY <1>1, <2>1 DEF TreeInv, LinksTellAges
    <3>2. Older(i) = {}
      <4>1. \A j \in Live : parentOf[j] = NoDoc => j = i
        BY <1>1, <2>1 DEF OneOldestRoot
      <4>2. \A j \in Live : j < i => j # i
        BY <1>1
      <4> QED
        BY <2>1, <4>1, <4>2 DEF Older
    <3> QED
      BY <3>1, <3>2
  <2>2. CASE parentOf[i] # NoDoc
    <3>1. b = Newest({j \in Under(parentOf[i]) : j < i})
      BY <1>1, <2>2 DEF TreeInv, LinksTellAges
    <3>2. {j \in Under(parentOf[i]) : j < i} = Sooner /\ Sooner \in SUBSET Ids
      BY DEF Under, Placed
    <3>3. b \in Sooner \cup {NoDoc} /\ \A j \in Sooner : j <= b
      BY <3>1, <3>2, NewestOf
    <3>4. Older(i) \subseteq Sooner
      BY <1>1 DEF Older
    <3>5. b = NoDoc => Older(i) = {}
      <4>1. b = NoDoc => \A j \in Older(i) : j \in Nat /\ j <= NoDoc
        BY <1>1, <3>3, <3>4
      <4>2. \A j \in Nat : ~(j <= NoDoc)
        BY DEF NoDoc
      <4> QED
        BY <4>1, <4>2
    <3> QED
      BY <3>3, <3>4, <3>5
  <2> QED
    BY <2>1, <2>2
<1>3. Row(i) = {i} \cup (IF b \in Live THEN Row(b) ELSE {})
  <2>1. CASE b = NoDoc
    BY <1>1, <1>2, <2>1 DEF Row
  <2>2. CASE b \in Placed \ Live
    <3>1. /\ b \in Placed /\ b < i /\ parentOf[b] = parentOf[i] /\ inode[b].status = REMOVE
          /\ b \in Nat
      BY <1>1, <1>2, <2>2
    <3>2. \A j \in Older(i) : j < b /\ parentOf[j] = parentOf[i]
      <4> SUFFICES ASSUME NEW j \in Older(i) PROVE j < b /\ parentOf[j] = parentOf[i]
        OBVIOUS
      <4>1. j \in Live /\ parentOf[j] = parentOf[i]
        BY DEF Older
      <4>2. j # b /\ j <= b /\ j \in Nat
        BY <1>1, <1>2, <2>2, <4>1
      <4> QED
        BY <3>1, <4>1, <4>2
    <3>3. Row(i) = {i}
      BY <3>1, <3>2 DEF Row
    <3> QED
      BY <2>2, <3>3
  <2>3. CASE b \in Live
    <3>1. /\ b \in Placed /\ b < i /\ parentOf[b] = parentOf[i] /\ inode[b].status # REMOVE
          /\ b \in Nat /\ i \in Nat
      BY <1>1, <1>2, <2>3
    <3>2. b \in Older(i)
      BY <2>3, <3>1 DEF Older
    <3> HIDE DEF b
    <3>3. Older(i) = {b} \cup Older(b)
      <4>1. \A j \in Live : j \in Nat
        BY <1>1
      <4>2. \A j \in Older(i) : j = b \/ j \in Older(b)
        <5> SUFFICES ASSUME NEW j \in Older(i), j # b PROVE j \in Older(b)
          OBVIOUS
        <5>1. j \in Live /\ parentOf[j] = parentOf[b] /\ j <= b /\ j \in Nat
          BY <1>2, <3>1, <4>1 DEF Older
        <5> QED
          BY <3>1, <5>1 DEF Older
      <4>3. \A j \in Older(b) : j \in Older(i)
        <5> SUFFICES ASSUME NEW j \in Older(b) PROVE j \in Older(i)
          OBVIOUS
        <5>1. j \in Live /\ parentOf[j] = parentOf[i] /\ j < b /\ j \in Nat
          BY <3>1, <4>1 DEF Older
        <5> QED
          BY <3>1, <5>1 DEF Older
      <4> QED
        BY <3>2, <4>2, <4>3
    <3> DEFINE Cut(j, top) == \E k \in Placed : /\ j < k /\ k < top
                                              /\ parentOf[k] = parentOf[j] /\ inode[k].status = REMOVE
    <3>4. ASSUME NEW j \in Older(b) PROVE Cut(j, i) <=> Cut(j, b)
      <4>1. j \in Live /\ parentOf[j] = parentOf[i] /\ j \in Nat /\ j < b
        BY <1>1, <3>1, <3>4 DEF Older
      <4>2. ASSUME NEW k \in Placed, j < k, k < i, parentOf[k] = parentOf[j],
                   inode[k].status = REMOVE
            PROVE  k < b
        <5>1. k \in Nat /\ k # b
          BY <1>1, <3>1, <4>2
        <5>2. b = Brother(i)
          BY DEF b
        <5>3. parentOf[i] # NoDoc
          BY <1>1, <3>1, <4>1, <4>2 DEF OneOldestRoot
        <5>4. k \in {x \in Under(parentOf[i]) : x < i}
          BY <4>1, <4>2 DEF Under
        <5>5. {x \in Under(parentOf[i]) : x < i} \in SUBSET Ids
          BY DEF Under, Placed
        <5>6. b = Newest({x \in Under(parentOf[i]) : x < i})
          BY <1>1, <5>2, <5>3 DEF TreeInv, LinksTellAges
        <5>7. k <= b
          BY <5>4, <5>5, <5>6, NewestOf
        <5> QED
          BY <3>1, <5>1, <5>7
      <4>3. \A k \in Placed : k \in Nat /\ (k < b => k < i)
        BY <1>1, <3>1
      <4> QED
        BY <4>2, <4>3
    <3>5. ~Cut(b, i)
      <4> SUFFICES ASSUME NEW k \in Placed, b < k, k < i, parentOf[k] = parentOf[b],
                          inode[k].status = REMOVE
                   PROVE  FALSE
        OBVIOUS
      <4>1. parentOf[i] # NoDoc
        BY <1>1, <3>1 DEF OneOldestRoot
      <4>2. k \in {x \in Under(parentOf[i]) : x < i} /\ k \in Nat
        BY <1>1, <3>1 DEF Under
      <4>3. {x \in Under(parentOf[i]) : x < i} \in SUBSET Ids
        BY DEF Under, Placed
      <4>4. b = Newest({x \in Under(parentOf[i]) : x < i})
        BY <1>1, <4>1 DEF TreeInv, LinksTellAges, b
      <4>5. k <= b
        BY <4>2, <4>3, <4>4, NewestOf
      <4> QED
        BY <3>1, <4>2, <4>5
    <3>6. Row(i) = {i} \cup {j \in Older(i) : ~Cut(j, i)} /\ Row(b) = {b} \cup {j \in Older(b) : ~Cut(j, b)}
      BY DEF Row
    <3> HIDE DEF Cut
    <3>7. {j \in Older(i) : ~Cut(j, i)} = {b} \cup {j \in Older(b) : ~Cut(j, b)}
      BY <3>3, <3>4, <3>5
    <3>8. Row(i) = {i} \cup Row(b)
      BY <3>6, <3>7
    <3> QED
      BY <2>3, <3>8
  <2> QED
    BY <1>2, <2>1, <2>2, <2>3
<1>4. \A j \in Row(i) : j \in Live /\ parentOf[j] = parentOf[i]
  BY DEF Row, Older
<1>5. Visits(i) = Reached(i) \cup Visits(b)
  BY <1>3 DEF Visits
<1>6. Reached(i) \cap Visits(b) = {}
  <2>1. CASE b \in Live
    <3>1. b \in Sooner /\ b \in Nat /\ i \in Nat /\ i \notin Row(b)
      <4>1. b \in Sooner /\ b \in Nat /\ i \in Nat /\ b < i
        BY <1>1, <1>2, <2>1
      <4>2. \A j \in Row(b) : j = b \/ j \in Older(b)
        BY DEF Row
      <4>3. \A j \in Older(b) : j < b
        BY DEF Older
      <4>4. ~(i < b)
        BY <4>1
      <4> QED
        BY <4>1, <4>2, <4>3, <4>4
    <3>2. \A j \in Row(b) : Reached(i) \cap Reached(j) = {}
      <4> SUFFICES ASSUME NEW j \in Row(b) PROVE Reached(i) \cap Reached(j) = {}
        OBVIOUS
      <4>1. j \in Live /\ j # i /\ parentOf[i] = parentOf[j]
        BY <1>3, <1>4, <2>1, <3>1
      <4> QED
        BY <4>1, ReachedApart
    <3> QED
      BY <2>1, <3>2 DEF Visits
  <2>2. CASE b \notin Live
    BY <2>2 DEF Visits
  <2> QED
    BY <2>1, <2>2
<1> QED
  BY <1>5, <1>6

-----------------------------------------------------------------------------
(* What a visit in progress has still to visit; `first` says that it is    *)
(* the one the query began with, which leaves its brothers alone unless    *)
(* the tree is printed.                                                    *)
BrothersOf(visit, first) ==
    IF first /\ query.type # "PRINT" THEN {} ELSE Visits(visit.brother)

Begins(visit, first) ==
    IF visit.id \notin Live THEN {}
    ELSE IF query.type = "DELETE" THEN {visit.id}
    ELSE IF first /\ query.type # "PRINT" THEN Reached(visit.id)
    ELSE Visits(visit.id)

RestOf(visit, first) ==
    CASE visit.at = "enter" -> Begins(visit, first)
      [] visit.at = "down" -> Visits(visit.child) \cup BrothersOf(visit, first)
      [] visit.at \in {"child", "next"} -> BrothersOf(visit, first)
      [] OTHER -> {}

Rests == [k \in 1..Len(walk) |-> RestOf(walk[k], k = 1)]

Wanted ==
    {i \in Ids : /\ Satisfies(elements[i], query.condition)
                 /\ query.type = "UPDATE" => Updatable(elements[i], query.update)}

AddedOf(H) == {H[k] : k \in DOMAIN H}
ToVisitOf(R) == UNION {R[k] : k \in DOMAIN R}

(* H has been added, R is still to be visited: together they are E, the    *)
(* result of the walk (W is what satisfies the query), and nothing is met  *)
(* twice.                                                                  *)
Accounts(E, H, R, W) ==
    /\ E = AddedOf(H) \cup (ToVisitOf(R) \cap W)
    /\ \A j, k \in DOMAIN H : H[j] = H[k] => j = k
    /\ \A j \in DOMAIN H, k \in DOMAIN R : H[j] \notin R[k]
    /\ \A j, k \in DOMAIN R : j # k => R[j] \cap R[k] = {}

(* A walk with the result E does what the query asks for, but for the      *)
(* documents the code passes over.                                         *)
Honours(E) ==
    expected.named => /\ E \subseteq expected.documents
                      /\ expected.documents \subseteq E \cup expected.passedOver

Accounted == \E E \in SUBSET Ids : Accounts(E, hits, Rests, Wanted) /\ Honours(E)

(* The visit v at depth k of n: it keeps the links it read, has called     *)
(* unless it is the last, and is inside the tree below top, the start.     *)
Follows(v, k, n, top) ==
    /\ query \in Queries
    /\ v.at = "enter" /\ v.id = NoDoc => header.root = NoDoc
    /\ v.at \notin {"enter", "lookup"} =>
          /\ v.id \in Placed
          /\ query.type # "DELETE" => v.id \in Live
          /\ v.child = Child(v.id) /\ v.brother = Brother(v.id)
    /\ v.at = "lookup" => n = 1
    /\ v.at = "delete" => query.type = "DELETE"
    /\ k < n => v.at \in {"child", "brother"}
    /\ k > 1 /\ query.type # "PRINT" => v.id \in Placed /\ top <= parentOf[v.id]
    /\ k = 1 /\ v.at = "brother" => query.type = "PRINT"

WalkFollows == \A k \in DOMAIN walk : Follows(walk[k], k, Len(walk), walk[1].id)

(* Only the visit that has printed the tree or has passed over the         *)
(* brothers of the start returns true.                                     *)
NoneFound ==
    walk # << >> /\ query.type \in {"SELECT", "UPDATE"} /\ Here.at \in {"child", "brother"} =>
        ~found

(* A DELETE visits its start only, since the deletion succeeds.            *)
DeletesStartOnly ==
    /\ query.type = "DELETE" /\ walk # << >> =>
          Len(walk) = 1 /\ walk[1].at \in {"enter", "lookup", "delete", "next"}
    /\ ~Idle => /\ walk # << >> /\ walk[1].at = "delete"
                /\ stack[1].fn = "document" /\ stack[1].at \in {"enter", "child"}
                /\ stack[1].at = "enter" => Len(stack) = 1 /\ Status(stack[1].id) = CLOSE
    /\ Idle /\ walk # << >> /\ walk[1].at = "delete" => result

WalkInv == EngineTypeOK /\ Accounted /\ WalkFollows /\ NoneFound /\ DeletesStartOnly

EngineInv == TreeInv /\ OneOldestRoot /\ WalkInv

-----------------------------------------------------------------------------
(* The same element by element. *)
LEMMA AccountsIs ==
    ASSUME NEW E, NEW H, NEW R, NEW W
    PROVE  Accounts(E, H, R, W) <=>
              /\ \A y : y \in E <=> \/ \E k \in DOMAIN H : y = H[k]
                                    \/ y \in W /\ \E k \in DOMAIN R : y \in R[k]
              /\ \A j, k \in DOMAIN H : H[j] = H[k] => j = k
              /\ \A j \in DOMAIN H, k \in DOMAIN R : H[j] \notin R[k]
              /\ \A j, k \in DOMAIN R : j # k => R[j] \cap R[k] = {}
<1>1. \A y : y \in AddedOf(H) <=> \E k \in DOMAIN H : y = H[k]
  BY DEF AddedOf
<1>2. \A y : y \in ToVisitOf(R) <=> \E k \in DOMAIN R : y \in R[k]
  BY DEF ToVisitOf
<1> DEFINE T == AddedOf(H) \cup (ToVisitOf(R) \cap W)
<1>3. \A y : y \in T <=> \/ \E k \in DOMAIN H : y = H[k]
                         \/ y \in W /\ \E k \in DOMAIN R : y \in R[k]
  BY <1>1, <1>2
<1>4. Accounts(E, H, R, W) <=>
              /\ E = T
              /\ \A j, k \in DOMAIN H : H[j] = H[k] => j = k
              /\ \A j \in DOMAIN H, k \in DOMAIN R : H[j] \notin R[k]
              /\ \A j, k \in DOMAIN R : j # k => R[j] \cap R[k] = {}
  BY Zenon DEF Accounts
<1>5. E = T <=> \A y : y \in E <=> y \in T
  <2>1. ASSUME \A y : y \in E <=> y \in T PROVE E = T
    <3> HIDE DEF T
    <3> QED
      BY <2>1, Zenon
  <2> QED
    BY <2>1
<1> HIDE DEF T
<1>6. E = T <=> \A y : y \in E <=> \/ \E k \in DOMAIN H : y = H[k]
                                   \/ y \in W /\ \E k \in DOMAIN R : y \in R[k]
  BY <1>3, <1>5
<1> QED
  BY <1>4, <1>6

(* x is visited: it is added if it is wanted.                              *)
LEMMA AccountsAct ==
    ASSUME NEW E, NEW S, NEW H \in Seq(S), NEW x \in S, NEW W, NEW W2, NEW R, NEW R2,
           NEW n \in Nat \ {0}, DOMAIN R = 1..n, DOMAIN R2 = 1..n,
           Accounts(E, H, R, W),
           \A k \in 1..(n - 1) : R2[k] = R[k],
           R[n] = {x} \cup R2[n], x \notin R2[n],
           \A i : i # x => (i \in W2 <=> i \in W)
    PROVE  /\ x \in W => Accounts(E, Append(H, x), R2, W2)
           /\ x \notin W => Accounts(E, H, R2, W2)
<1>1. /\ n \in 1..n /\ \A k \in 1..n : k = n \/ k \in 1..(n - 1)
      /\ 1..(n - 1) \subseteq 1..n /\ n \notin 1..(n - 1)
  OBVIOUS
<1>2. /\ \A y : y \in E <=> \/ \E k \in DOMAIN H : y = H[k]
                            \/ y \in W /\ \E k \in 1..n : y \in R[k]
      /\ \A j, k \in DOMAIN H : H[j] = H[k] => j = k
      /\ \A j \in DOMAIN H, k \in 1..n : H[j] \notin R[k]
      /\ \A j, k \in 1..n : j # k => R[j] \cap R[k] = {}
  BY AccountsIs
<1>3. \A k \in 1..n : R2[k] \subseteq R[k] /\ x \notin R2[k]
  <2> SUFFICES ASSUME NEW k \in 1..n PROVE R2[k] \subseteq R[k] /\ x \notin R2[k]
    OBVIOUS
  <2>1. CASE k = n
    BY <2>1
  <2>2. CASE k # n
    <3>1. R2[k] = R[k] /\ R[k] \cap R[n] = {}
      BY <1>1, <1>2, <2>2
    <3> QED
      BY <3>1
  <2> QED
    BY <2>1, <2>2
<1>4. \A y : (\E k \in 1..n : y \in R[k]) <=> (y = x \/ \E k \in 1..n : y \in R2[k])
  BY <1>1, <1>3
<1>5. \A j \in DOMAIN H : H[j] # x
  BY <1>1, <1>2
<1>6. \A y : y \in E <=> \/ \E k \in DOMAIN H : y = H[k]
                         \/ y = x /\ x \in W
                         \/ y \in W2 /\ \E k \in 1..n : y \in R2[k]
  <2>1. \A y : y \in W2 /\ (\E k \in 1..n : y \in R2[k]) <=> y \in W /\ (\E k \in 1..n : y \in R2[k])
    BY <1>3
  <2> QED
    BY <1>2, <1>4, <2>1
<1>7. /\ \A j \in DOMAIN H, k \in 1..n : H[j] \notin R2[k]
      /\ \A j, k \in 1..n : j # k => R2[j] \cap R2[k] = {}
  <2>1. \A j \in DOMAIN H, k \in 1..n : H[j] \notin R2[k]
    BY <1>2, <1>3
  <2>2. ASSUME NEW j \in 1..n, NEW k \in 1..n, j # k PROVE R2[j] \cap R2[k] = {}
    <3>1. R[j] \cap R[k] = {}
      BY <1>2, <2>2
    <3> QED
      BY <1>3, <3>1
  <2> QED
    BY <2>1, <2>2
<1>8. ASSUME x \in W PROVE Accounts(E, Append(H, x), R2, W2)
  <2> DEFINE G == Append(H, x)
             l == Len(H)
  <2>1. /\ l \in Nat /\ DOMAIN H = 1..l /\ DOMAIN G = 1..(l + 1)
        /\ \A k \in 1..l : G[k] = H[k]
        /\ G[l + 1] = x
    BY AppendProperties, LenProperties
  <2> HIDE DEF G, l
  <2>2. /\ \A k \in 1..(l + 1) : k = l + 1 \/ k \in 1..l
        /\ 1..l \subseteq 1..(l + 1) /\ l + 1 \in 1..(l + 1)
    BY <2>1
  <2>3. \A y : (\E k \in DOMAIN G : y = G[k]) <=> (y = x \/ \E k \in DOMAIN H : y = H[k])
    <3> TAKE y
    <3>1. ASSUME NEW k \in DOMAIN G, y = G[k] PROVE y = x \/ \E j \in DOMAIN H : y = H[j]
      <4>1. CASE k = l + 1
        BY <2>1, <3>1, <4>1
      <4>2. CASE k \in 1..l
        BY <2>1, <3>1, <4>2
      <4> QED
        BY <2>1, <2>2, <4>1, <4>2
    <3>2. ASSUME y = x PROVE \E k \in DOMAIN G : y = G[k]
      BY <2>1, <2>2, <3>2
    <3>3. ASSUME NEW k \in DOMAIN H, y = H[k] PROVE \E j \in DOMAIN G : y = G[j]
      <4>1. k \in DOMAIN G /\ y = G[k]
        BY <2>1, <2>2, <3>3
      <4> QED
        BY <4>1
    <3> QED
      BY <3>1, <3>2, <3>3
  <2>4. \A y : y \in E <=> \/ \E k \in DOMAIN G : y = G[k]
                           \/ y \in W2 /\ \E k \in 1..n : y \in R2[k]
    BY <1>6, <1>8, <2>3
  <2>5. \A j, k \in DOMAIN G : G[j] = G[k] => j = k
    BY <1>2, <1>5, <2>1, <2>2
  <2>6. \A j \in DOMAIN G, k \in 1..n : G[j] \notin R2[k]
    <3> SUFFICES ASSUME NEW j \in DOMAIN G, NEW k \in 1..n PROVE G[j] \notin R2[k]
      OBVIOUS
    <3>1. CASE j = l + 1
      <4>1. G[j] = x /\ x \notin R2[k]
        BY <1>3, <2>1, <3>1
      <4> QED
        BY <4>1
    <3>2. CASE j \in 1..l
      <4>1. G[j] = H[j] /\ H[j] \notin R2[k]
        BY <1>7, <2>1, <3>2
      <4> QED
        BY <4>1
    <3> QED
      BY <2>1, <2>2, <3>1, <3>2
  <2>7. Accounts(E, G, R2, W2)
    BY <1>7, <2>4, <2>5, <2>6, AccountsIs
  <2> QED
    BY <2>7 DEF G
<1>9. ASSUME x \notin W PROVE Accounts(E, H, R2, W2)
  BY <1>2, <1>6, <1>7, <1>9, AccountsIs
<1> QED
  BY <1>8, <1>9

(* A visit that has nothing left to do returns.                            *)
LEMMA AccountsReturn ==
    ASSUME NEW E, NEW H, NEW W, NEW R, NEW R2,
           NEW n \in Nat \ {0}, DOMAIN R = 1..n, DOMAIN R2 = 1..(n - 1),
           Accounts(E, H, R, W),
           \A k \in 1..(n - 1) : R2[k] = R[k],
           R[n] = {}
    PROVE  Accounts(E, H, R2, W)
<1>1. /\ \A k \in 1..n : k = n \/ k \in 1..(n - 1)
      /\ 1..(n - 1) \subseteq 1..n
  OBVIOUS
<1>2. \A y : (\E k \in 1..n : y \in R[k]) <=> (\E k \in 1..(n - 1) : y \in R2[k])
  BY <1>1
<1>3. /\ \A y : y \in E <=> \/ \E k \in DOMAIN H : y = H[k]
                            \/ y \in W /\ \E k \in 1..n : y \in R[k]
      /\ \A j, k \in DOMAIN H : H[j] = H[k] => j = k
      /\ \A j \in DOMAIN H, k \in 1..n : H[j] \notin R[k]
      /\ \A j, k \in 1..n : j # k => R[j] \cap R[k] = {}
  BY AccountsIs
<1>4. /\ \A j \in DOMAIN H, k \in 1..(n - 1) : H[j] \notin R2[k]
      /\ \A j, k \in 1..(n - 1) : j # k => R2[j] \cap R2[k] = {}
  BY <1>1, <1>3
<1>5. \A y : y \in E <=> \/ \E k \in DOMAIN H : y = H[k]
                         \/ y \in W /\ \E k \in 1..(n - 1) : y \in R2[k]
  BY <1>2, <1>3
<1> QED
  BY <1>3, <1>4, <1>5, AccountsIs

(* A visit leaves part of what it has to do to a new one.                  *)
LEMMA AccountsCall ==
    ASSUME NEW E, NEW H, NEW W, NEW R, NEW R2,
           NEW n \in Nat \ {0}, DOMAIN R = 1..n, DOMAIN R2 = 1..(n + 1),
           Accounts(E, H, R, W),
           \A k \in 1..(n - 1) : R2[k] = R[k],
           R[n] = R2[n] \cup R2[n + 1], R2[n] \cap R2[n + 1] = {}
    PROVE  Accounts(E, H, R2, W)
<1>1. /\ \A k \in 1..n : k = n \/ k \in 1..(n - 1)
      /\ \A k \in 1..(n + 1) : k = n + 1 \/ k = n \/ k \in 1..(n - 1)
      /\ 1..(n - 1) \subseteq 1..n /\ n \in 1..n /\ n \notin 1..(n - 1) /\ n + 1 \notin 1..n
      /\ 1..n \subseteq 1..(n + 1) /\ n + 1 \in 1..(n + 1)
  OBVIOUS
<1>2. /\ \A y : y \in E <=> \/ \E k \in DOMAIN H : y = H[k]
                            \/ y \in W /\ \E k \in 1..n : y \in R[k]
      /\ \A j, k \in DOMAIN H : H[j] = H[k] => j = k
      /\ \A j \in DOMAIN H, k \in 1..n : H[j] \notin R[k]
      /\ \A j, k \in 1..n : j # k => R[j] \cap R[k] = {}
  BY AccountsIs
<1>3. \A y : (\E k \in 1..n : y \in R[k]) <=> (\E k \in 1..(n + 1) : y \in R2[k])
  <2>1. \A y : (\E k \in 1..n : y \in R[k]) <=> (y \in R[n] \/ \E k \in 1..(n - 1) : y \in R[k])
    BY <1>1
  <2>2. \A y : (\E k \in 1..(n + 1) : y \in R2[k])
                  <=> (y \in R2[n] \/ y \in R2[n + 1] \/ \E k \in 1..(n - 1) : y \in R2[k])
    BY <1>1
  <2> QED
    BY <2>1, <2>2
<1> DEFINE from(k) == IF k = n + 1 THEN n ELSE k
<1>4. \A k \in 1..(n + 1) : from(k) \in 1..n /\ R2[k] \subseteq R[from(k)]
  BY <1>1
<1>5. \A j, k \in 1..(n + 1) : j # k => R2[j] \cap R2[k] = {}
  <2> SUFFICES ASSUME NEW j \in 1..(n + 1), NEW k \in 1..(n + 1), j # k
               PROVE  R2[j] \cap R2[k] = {}
    OBVIOUS
  <2>1. CASE from(j) = from(k)
    BY <1>1, <2>1
  <2>2. CASE from(j) # from(k)
    <3>1. R[from(j)] \cap R[from(k)] = {}
      BY <1>2, <1>4, <2>2
    <3> QED
      BY <1>4, <3>1
  <2> QED
    BY <2>1, <2>2
<1>6. \A j \in DOMAIN H, k \in 1..(n + 1) : H[j] \notin R2[k]
  BY <1>2, <1>4
<1>7. \A y : y \in E <=> \/ \E k \in DOMAIN H : y = H[k]
                         \/ y \in W /\ \E k \in 1..(n + 1) : y \in R2[k]
  BY <1>2, <1>3
<1> QED
  BY <1>2, <1>5, <1>6, <1>7, AccountsIs

-----------------------------------------------------------------------------
(* The visit in progress is the last of the walk. *)
LEMMA WalkFacts ==
    ASSUME EngineTypeOK, walk # << >>
    PROVE  /\ Len(walk) \in Nat \ {0} /\ DOMAIN walk = 1..Len(walk)
           /\ Len(walk) \in 1..Len(walk) /\ 1 \in 1..Len(walk)
           /\ \A k \in 1..Len(walk) : walk[k] \in Calls
           /\ Here = walk[Len(walk)] /\ Here \in Calls
           /\ Front(walk) \in Seq(Calls) /\ Len(Front(walk)) = Len(walk) - 1
           /\ \A k \in 1..(Len(walk) - 1) : Front(walk)[k] = walk[k]
<1>1. walk \in Seq(Calls)
  BY DEF EngineTypeOK
<1>2. Len(walk) \in Nat \ {0} /\ walk \in [1..Len(walk) -> Calls]
  BY <1>1, EmptySeq, LenProperties
<1>3. Here = walk[Len(walk)]
  BY DEF Here, Last
<1>4. \A i \in 1..(Len(walk) - 1) : walk[i] \in Calls
  BY <1>2
<1>5. /\ SubSeq(walk, 1, Len(walk) - 1) \in Seq(Calls)
      /\ Len(SubSeq(walk, 1, Len(walk) - 1)) = Len(walk) - 1
      /\ \A k \in 1..(Len(walk) - 1) : SubSeq(walk, 1, Len(walk) - 1)[k] = walk[k]
  BY <1>2, <1>4, SubSeqProperties
<1> QED
  BY <1>2, <1>3, <1>5 DEF Front

(* The walk goes on in the last visit, which is v from now on. *)
LEMMA GoesOn ==
    ASSUME EngineTypeOK, walk # << >>, NEW v \in Calls,
           \/ walk' = Front(walk) \o <<v>>
           \/ walk' = [walk EXCEPT ![Len(walk)] = v]
    PROVE  /\ walk' \in Seq(Calls) /\ Len(walk') = Len(walk) /\ walk' # << >>
           /\ \A k \in 1..(Len(walk) - 1) : walk'[k] = walk[k]
           /\ walk'[Len(walk)] = v /\ Here' = v
<1>1. walk \in Seq(Calls) /\ walk \in [1..Len(walk) -> Calls]
  BY LenProperties DEF EngineTypeOK
<1>2. /\ Len(walk) \in Nat \ {0} /\ Len(walk) \in 1..Len(walk)
      /\ Front(walk) \in Seq(Calls) /\ Len(Front(walk)) = Len(walk) - 1
      /\ \A k \in 1..(Len(walk) - 1) : Front(walk)[k] = walk[k]
  BY WalkFacts
<1>3. /\ walk' \in Seq(Calls) /\ Len(walk') = Len(walk)
      /\ \A k \in 1..(Len(walk) - 1) : walk'[k] = walk[k]
      /\ walk'[Len(walk)] = v
  <2>1. CASE walk' = Front(walk) \o <<v>>
    <3> DEFINE s == <<v>>
    <3>1. s \in Seq(Calls) /\ Len(s) = 1 /\ s[1] = v
      OBVIOUS
    <3> HIDE DEF s
    <3>2. /\ Front(walk) \o s \in Seq(Calls)
          /\ Len(Front(walk) \o s) = Len(Front(walk)) + Len(s)
          /\ \A k \in 1..(Len(Front(walk)) + Len(s)) :
                (Front(walk) \o s)[k] = IF k <= Len(Front(walk)) THEN Front(walk)[k]
                                        ELSE s[k - Len(Front(walk))]
      BY <1>2, <3>1, ConcatProperties
    <3>3. walk' = Front(walk) \o s
      BY <2>1 DEF s
    <3>4. walk' \in Seq(Calls) /\ Len(walk') = Len(walk)
      BY <1>2, <3>1, <3>2, <3>3
    <3>5. walk'[Len(walk)] = v
      <4>1. Len(walk) \in 1..(Len(Front(walk)) + Len(s)) /\ ~(Len(walk) <= Len(Front(walk)))
            /\ Len(walk) - Len(Front(walk)) = 1
        BY <1>2, <3>1
      <4> QED
        BY <3>1, <3>2, <3>3, <4>1
    <3>6. \A k \in 1..(Len(walk) - 1) : walk'[k] = walk[k]
      <4>1. \A k \in 1..(Len(walk) - 1) : k \in 1..(Len(Front(walk)) + Len(s)) /\ k <= Len(Front(walk))
        BY <1>2, <3>1
      <4> QED
        BY <1>2, <3>2, <3>3, <4>1
    <3> QED
      BY <3>4, <3>5, <3>6
  <2>2. CASE walk' = [walk EXCEPT ![Len(walk)] = v]
    <3>1. /\ walk' \in Seq(Calls) /\ Len(walk') = Len(walk)
          /\ \A j \in 1..Len(walk) : walk'[j] = IF j = Len(walk) THEN v ELSE walk[j]
      BY <1>1, <1>2, <2>2, ExceptSeq
    <3> QED
      BY <1>2, <3>1
  <2> QED
    BY <2>1, <2>2
<1> QED
  BY <1>2, <1>3, EmptySeq DEF Here, Last

(* The last visit, v from now on, calls for id. *)
LEMMA GoesDeeper ==
    ASSUME EngineTypeOK, walk # << >>, NEW v \in Calls, NEW u \in Calls,
           walk' = Front(walk) \o <<v, u>>
    PROVE  /\ walk' \in Seq(Calls) /\ Len(walk') = Len(walk) + 1 /\ walk' # << >>
           /\ \A k \in 1..(Len(walk) - 1) : walk'[k] = walk[k]
           /\ walk'[Len(walk)] = v /\ walk'[Len(walk) + 1] = u /\ Here' = u
<1>1. /\ Len(walk) \in Nat \ {0} /\ Len(walk) \in 1..Len(walk)
      /\ Front(walk) \in Seq(Calls) /\ Len(Front(walk)) = Len(walk) - 1
      /\ \A k \in 1..(Len(walk) - 1) : Front(walk)[k] = walk[k]
  BY WalkFacts
<1> DEFINE s == <<v, u>>
<1>2. s \in Seq(Calls) /\ Len(s) = 2 /\ s[1] = v /\ s[2] = u
  OBVIOUS
<1>3. walk' = Front(walk) \o s
  OBVIOUS
<1> HIDE DEF s
<1>4. /\ Front(walk) \o s \in Seq(Calls)
      /\ Len(Front(walk) \o s) = Len(Front(walk)) + Len(s)
      /\ \A k \in 1..(Len(Front(walk)) + Len(s)) :
            (Front(walk) \o s)[k] = IF k <= Len(Front(walk)) THEN Front(walk)[k]
                                    ELSE s[k - Len(Front(walk))]
  BY <1>1, <1>2, ConcatProperties
<1>5. /\ walk' \in Seq(Calls) /\ Len(walk') = Len(walk) + 1
      /\ \A k \in 1..(Len(walk) - 1) : walk'[k] = walk[k]
      /\ walk'[Len(walk)] = v /\ walk'[Len(walk) + 1] = u
  <2>1. walk' \in Seq(Calls) /\ Len(walk') = Len(walk) + 1
    BY <1>1, <1>2, <1>3, <1>4
  <2>2. walk'[Len(walk)] = v
    <3>1. Len(walk) \in 1..(Len(Front(walk)) + Len(s)) /\ ~(Len(walk) <= Len(Front(walk)))
          /\ Len(walk) - Len(Front(walk)) = 1
      BY <1>1, <1>2
    <3> QED
      BY <1>2, <1>3, <1>4, <3>1
  <2>3. walk'[Len(walk) + 1] = u
    <3>1. /\ Len(walk) + 1 \in 1..(Len(Front(walk)) + Len(s)) /\ ~(Len(walk) + 1 <= Len(Front(walk)))
          /\ Len(walk) + 1 - Len(Front(walk)) = 2
      BY <1>1, <1>2
    <3> QED
      BY <1>2, <1>3, <1>4, <3>1
  <2>4. \A k \in 1..(Len(walk) - 1) : walk'[k] = walk[k]
    <3>1. \A k \in 1..(Len(walk) - 1) : k \in 1..(Len(Front(walk)) + Len(s)) /\ k <= Len(Front(walk))
      BY <1>1, <1>2
    <3> QED
      BY <1>1, <1>3, <1>4, <3>1
  <2> QED
    BY <2>1, <2>2, <2>3, <2>4
<1> QED
  BY <1>1, <1>5, EmptySeq DEF Here, Last

(* The last visit returns. *)
LEMMA GoesBack ==
    ASSUME EngineTypeOK, walk # << >>, walk' = Front(walk)
    PROVE  /\ walk' \in Seq(Calls) /\ Len(walk') = Len(walk) - 1
           /\ \A k \in 1..(Len(walk) - 1) : walk'[k] = walk[k]
           /\ walk' # << >> <=> Len(walk) # 1
           /\ walk' # << >> => Here' = walk[Len(walk) - 1]
<1>1. /\ walk' \in Seq(Calls) /\ Len(walk') = Len(walk) - 1 /\ Len(walk) \in Nat \ {0}
      /\ \A k \in 1..(Len(walk) - 1) : walk'[k] = walk[k]
  BY WalkFacts
<1>2. walk' # << >> <=> Len(walk) # 1
  BY <1>1, EmptySeq
<1> QED
  BY <1>1, <1>2 DEF Here, Last

-----------------------------------------------------------------------------
(* What is visited and found depends on the file and the parents only.     *)
LEMMA LinksKept ==
    ASSUME UNCHANGED <<inode, disk, parentOf>>
    PROVE  /\ Live' = Live /\ Placed' = Placed
           /\ \A i : /\ Child(i)' = Child(i) /\ Brother(i)' = Brother(i)
                     /\ Status(i)' = Status(i) /\ Visits(i)' = Visits(i)
                     /\ Reached(i)' = Reached(i)
<1>1. Live' = Live /\ Placed' = Placed
  BY DEF Live, Placed
<1>2. \A i : Child(i)' = Child(i) /\ Brother(i)' = Brother(i) /\ Status(i)' = Status(i)
  BY DEF Child, Brother, MetaOf, Status
<1>3. \A i : Hidden(i)' = Hidden(i)
  BY <1>1 DEF Hidden
<1>4. \A i : Reachable(i)' = Reachable(i)
  BY <1>1, <1>3 DEF Reachable
<1>5. \A i : Reached(i)' = Reached(i)
  BY <1>1, <1>4 DEF Reached
<1>6. \A i : Older(i)' = Older(i)
  BY <1>1 DEF Older
<1>7. \A i : Row(i)' = Row(i)
  BY <1>1, <1>6 DEF Row
<1>8. \A i : Visits(i)' = Visits(i)
  BY <1>1, <1>5, <1>7 DEF Visits
<1> QED
  BY <1>1, <1>2, <1>5, <1>8

(* So what the visits have still to do changes only with the walk.         *)
LEMMA RestsAfter ==
    ASSUME UNCHANGED <<inode, disk, parentOf, query>>
    PROVE  /\ DOMAIN Rests' = 1..Len(walk')
           /\ \A k \in 1..Len(walk') : Rests'[k] = RestOf(walk'[k], k = 1)
<1>1. \A v, first : RestOf(v, first)' = RestOf(v, first)
  <2> SUFFICES ASSUME NEW v, NEW first PROVE RestOf(v, first)' = RestOf(v, first)
    OBVIOUS
  <2>1. /\ Live' = Live /\ query' = query
        /\ \A i : Visits(i)' = Visits(i) /\ Reached(i)' = Reached(i)
    BY LinksKept
  <2>2. BrothersOf(v, first)' = BrothersOf(v, first)
    BY <2>1 DEF BrothersOf
  <2>3. Begins(v, first)' = Begins(v, first)
    BY <2>1 DEF Begins
  <2> QED
    BY <2>1, <2>2, <2>3 DEF RestOf
<1>2. Rests' = [k \in 1..Len(walk') |-> RestOf(walk'[k], k = 1)]
  BY <1>1 DEF Rests
<1> QED
  BY <1>2

(* Likewise for the place of a visit in the walk.                          *)
LEMMA FollowsAfter ==
    ASSUME UNCHANGED <<header, inode, disk, parentOf, query>>
    PROVE  \A v, k, n, top : Follows(v, k, n, top)' <=> Follows(v, k, n, top)
<1>1. /\ Live' = Live /\ Placed' = Placed
      /\ \A i : Child(i)' = Child(i) /\ Brother(i)' = Brother(i)
  BY LinksKept
<1> QED
  BY <1>1 DEF Follows

(* A walk of m visits that differs from this one in the last two only.     *)
LEMMA FollowsOn ==
    ASSUME EngineTypeOK, WalkFollows, walk # << >>,
           UNCHANGED <<header, inode, disk, parentOf, query>>,
           walk' \in Seq(Calls), NEW m \in Nat, Len(walk') = m,
           m \in {Len(walk) - 1, Len(walk), Len(walk) + 1},
           \A k \in 1..(Len(walk) - 1) : walk'[k] = walk[k],
           m >= Len(walk) => /\ walk'[Len(walk)].id = Here.id
                             /\ Follows(walk'[Len(walk)], Len(walk), m, walk[1].id),
           m > Len(walk) => Follows(walk'[m], m, m, walk[1].id)
    PROVE  WalkFollows'
<1>1. PICK n \in Nat \ {0} : n = Len(walk) /\ Here = walk[n] /\ DOMAIN walk = 1..n
  BY WalkFacts
<1>2. DOMAIN walk' = 1..m
  BY LenProperties
<1>3. ASSUME NEW k \in 1..m PROVE Follows(walk'[k], k, m, walk[1].id)
  <2>1. CASE k <= n - 1
    <3>1. k \in 1..n /\ k < n /\ walk'[k] = walk[k]
      BY <1>1, <2>1
    <3>2. Follows(walk[k], k, n, walk[1].id)
      BY <1>1, <3>1 DEF WalkFollows
    <3>3. walk[k].at \in {"child", "brother"}
      BY <3>1, <3>2 DEF Follows
    <3> QED
      BY <3>1, <3>2, <3>3 DEF Follows
  <2>2. CASE k = n
    BY <1>1, <2>2
  <2>3. CASE k = n + 1
    BY <1>1, <2>3
  <2> QED
    BY <1>1, <2>1, <2>2, <2>3
<1>4. ASSUME m # 0 PROVE walk'[1].id = walk[1].id
  <2>1. CASE n = 1
    BY <1>1, <1>4, <2>1
  <2>2. CASE n # 1
    BY <1>1, <2>2
  <2> QED
    BY <2>1, <2>2
<1>5. \A k \in 1..m : Follows(walk'[k], k, Len(walk'), walk'[1].id)
  BY <1>3, <1>4
<1> QED
  BY <1>2, <1>5, FollowsAfter DEF WalkFollows

(* No deletion is in progress, or about to be, while another query runs.   *)
LEMMA NothingDeleted ==
    ASSUME EngineInv, walk # << >>, query.type # "DELETE",
           UNCHANGED <<stack, result, query>>, walk' \in Seq(Calls), WalkFollows'
    PROVE  Idle /\ DeletesStartOnly'
<1>1. /\ EngineTypeOK /\ WalkFollows /\ DeletesStartOnly /\ 1 \in DOMAIN walk
  BY WalkFacts DEF EngineInv, WalkInv
<1>2. walk[1].at # "delete"
  BY <1>1 DEF WalkFollows, Follows
<1>3. Idle
  BY <1>1, <1>2 DEF DeletesStartOnly
<1>4. Idle'
  BY <1>3 DEF Idle
<1>5. ASSUME walk' # << >> PROVE walk'[1].at # "delete"
  <2>1. 1 \in DOMAIN walk'
    BY <1>5, EmptySeq, LenProperties
  <2> QED
    BY <2>1 DEF WalkFollows, Follows
<1> QED
  BY <1>3, <1>4, <1>5 DEF DeletesStartOnly

(* What the invariant says of the visit in progress. *)
LEMMA InTheVisit ==
    ASSUME EngineInv, walk # << >>
    PROVE  /\ Follows(Here, Len(walk), Len(walk), walk[1].id)
           /\ query.type \in {"SELECT", "UPDATE", "DELETE", "PRINT"}
           /\ Rests[Len(walk)] = RestOf(Here, Len(walk) = 1)
           /\ DOMAIN Rests = 1..Len(walk)
           /\ \A k \in 1..Len(walk) : Rests[k] = RestOf(walk[k], k = 1)
           /\ query.type = "DELETE" => /\ Len(walk) = 1
                                       /\ Here.at \in {"enter", "lookup", "delete", "next"}
           /\ Here.id = walk[1].id /\ query.type # "PRINT" => Len(walk) = 1
<1>1. /\ EngineTypeOK /\ WalkFollows /\ DeletesStartOnly /\ OneOldestRoot
      /\ Len(walk) \in Nat \ {0} /\ Len(walk) \in 1..Len(walk) /\ DOMAIN walk = 1..Len(walk)
      /\ Here = walk[Len(walk)]
  BY WalkFacts DEF EngineInv, WalkInv
<1>2. Follows(Here, Len(walk), Len(walk), walk[1].id)
  BY <1>1 DEF WalkFollows
<1>3. query.type \in {"SELECT", "UPDATE", "DELETE", "PRINT"}
  BY <1>2, QueryEngineAssumption DEF Follows
<1>4. /\ DOMAIN Rests = 1..Len(walk)
      /\ \A k \in 1..Len(walk) : Rests[k] = RestOf(walk[k], k = 1)
  BY DEF Rests
<1>5. query.type = "DELETE" => Len(walk) = 1 /\ Here.at \in {"enter", "lookup", "delete", "next"}
  BY <1>1 DEF DeletesStartOnly
<1>6. ASSUME Here.id = walk[1].id, query.type # "PRINT", Len(walk) # 1 PROVE FALSE
  <2>1. Here.id \in Placed /\ walk[1].id <= parentOf[Here.id]
    BY <1>1, <1>2, <1>6 DEF Follows
  <2>2. parentOf[Here.id] < Here.id /\ parentOf[Here.id] \in Int /\ Here.id \in Int
    BY <1>1, <2>1, DocFileAssumption
       DEF OneOldestRoot, EngineInv, TreeInv, LinksTellAges, Placed, Links, Ids, NoDoc
  <2> QED
    BY <1>6, <2>1, <2>2
<1> QED
  BY <1>1, <1>2, <1>3, <1>4, <1>5, <1>6

-----------------------------------------------------------------------------
(* A visit that has nothing left to do returns: only the visit that began  *)
(* the query may return true, unless the tree is printed.                  *)
LEMMA ReturnStep ==
    ASSUME EngineInv, walk # << >>, Here.at # "delete", Rests[Len(walk)] = {},
           walk' = Front(walk), found' \in BOOLEAN,
           query.type \in {"SELECT", "UPDATE"} /\ Len(walk) # 1 => ~found',
           UNCHANGED <<treeVars, query, hits, elements, expected>>
    PROVE  WalkInv'
<1>1. EngineTypeOK /\ Accounted /\ WalkFollows /\ NoneFound /\ DeletesStartOnly
  BY DEF EngineInv, WalkInv
<1>2. UNCHANGED <<header, inode, disk, parentOf, query, stack, result>>
  BY DEF treeVars
<1>3. PICK n \in Nat \ {0} : n = Len(walk) /\ n \in 1..n /\ Here = walk[n]
  BY <1>1, WalkFacts
<1>4. /\ walk' \in Seq(Calls) /\ Len(walk') = n - 1
      /\ \A k \in 1..(n - 1) : walk'[k] = walk[k]
      /\ walk' # << >> <=> n # 1
      /\ walk' # << >> => Here' = walk[n - 1]
  BY <1>1, <1>3, GoesBack
<1>5. EngineTypeOK'
  BY <1>1, <1>4 DEF EngineTypeOK, Calls, Known, treeVars
<1>6. Accounted'
  <2>1. /\ DOMAIN Rests = 1..n /\ DOMAIN Rests' = 1..(n - 1)
        /\ \A k \in 1..(n - 1) : Rests'[k] = Rests[k]
    <3>1. \A k \in 1..(n - 1) : k \in 1..n
      OBVIOUS
    <3> QED
      BY <1>2, <1>3, <1>4, <3>1, InTheVisit, RestsAfter
  <2>2. Wanted' = Wanted
    BY DEF Wanted
  <2>3. PICK E \in SUBSET Ids : Accounts(E, hits, Rests, Wanted) /\ Honours(E)
    BY <1>1 DEF Accounted
  <2>4. Accounts(E, hits, Rests', Wanted)
    BY <1>1, <1>3, <2>1, <2>3, AccountsReturn
  <2> QED
    BY <2>2, <2>3, <2>4 DEF Accounted, Honours
<1>7. WalkFollows'
  <2>1. n - 1 \in Nat /\ ~(n - 1 >= n) /\ ~(n - 1 > n)
    OBVIOUS
  <2> QED
    BY <1>1, <1>2, <1>3, <1>4, <2>1, FollowsOn
<1>8. NoneFound'
  BY <1>2, <1>3, <1>4 DEF NoneFound
<1>9. DeletesStartOnly'
  <2>1. CASE query.type = "DELETE"
    <3>1. n = 1 /\ walk' = << >>
      BY <1>3, <1>4, <2>1, InTheVisit
    <3>2. Idle
      BY <1>1, <1>3, <3>1 DEF DeletesStartOnly
    <3> QED
      BY <1>2, <3>1, <3>2 DEF DeletesStartOnly, Idle
  <2>2. CASE query.type # "DELETE"
    BY <1>2, <1>4, <1>7, <2>2, NothingDeleted
  <2> QED
    BY <2>1, <2>2
<1> QED
  BY <1>5, <1>6, <1>7, <1>8, <1>9 DEF WalkInv

(* The visit in progress goes on as v.                                     *)
LEMMA GoOnStep ==
    ASSUME EngineInv, walk # << >>, NEW v \in Calls,
           \/ walk' = Front(walk) \o <<v>>
           \/ walk' = [walk EXCEPT ![Len(walk)] = v],
           UNCHANGED <<header, inode, disk, parentOf, query>>,
           v.id = Here.id, Follows(v, Len(walk), Len(walk), walk[1].id)
    PROVE  /\ walk' \in Seq(Calls) /\ Len(walk') = Len(walk) /\ walk' # << >> /\ Here' = v
           /\ WalkFollows'
           /\ DOMAIN Rests' = 1..Len(walk)
           /\ \A k \in 1..(Len(walk) - 1) : Rests'[k] = Rests[k]
           /\ Rests'[Len(walk)] = RestOf(v, Len(walk) = 1)
<1>1. EngineTypeOK /\ WalkFollows
  BY DEF EngineInv, WalkInv
<1>2. PICK n \in Nat \ {0} : n = Len(walk) /\ n \in 1..n /\ Here = walk[n]
  BY <1>1, WalkFacts
<1>3. /\ walk' \in Seq(Calls) /\ Len(walk') = n /\ walk' # << >>
      /\ \A k \in 1..(n - 1) : walk'[k] = walk[k]
      /\ walk'[n] = v /\ Here' = v
  BY <1>1, <1>2, GoesOn
<1>4. WalkFollows'
  <2>1. ~(n > n)
    OBVIOUS
  <2> QED
    BY <1>1, <1>2, <1>3, <2>1, FollowsOn
<1>5. \A k \in 1..(n - 1) : k \in 1..n
  OBVIOUS
<1>6. DOMAIN Rests' = 1..n /\ \A k \in 1..n : Rests'[k] = RestOf(walk'[k], k = 1)
  BY <1>3, RestsAfter
<1>7. Rests'[n] = RestOf(v, n = 1)
  BY <1>2, <1>3, <1>6
<1>8. \A k \in 1..(n - 1) : Rests'[k] = Rests[k]
  BY <1>2, <1>3, <1>5, <1>6, InTheVisit
<1> QED
  BY <1>2, <1>3, <1>4, <1>6, <1>7, <1>8

(* It has as much to do as before.                                         *)
LEMMA GoOnSame ==
    ASSUME EngineInv, walk # << >>, NEW v \in Calls,
           \/ walk' = Front(walk) \o <<v>>
           \/ walk' = [walk EXCEPT ![Len(walk)] = v],
           UNCHANGED <<treeVars, query, found, hits, elements, expected>>,
           v.id = Here.id, Follows(v, Len(walk), Len(walk), walk[1].id),
           RestOf(v, Len(walk) = 1) = Rests[Len(walk)],
           v.at \notin {"child", "brother"},
           query.type = "DELETE" => v.at = "next" /\ Idle
    PROVE  WalkInv'
<1>1. EngineTypeOK /\ Accounted
  BY DEF EngineInv, WalkInv
<1>2. UNCHANGED <<header, inode, disk, parentOf, query, stack, result>>
  BY DEF treeVars
<1>3. PICK n \in Nat \ {0} : n = Len(walk) /\ \A k \in 1..n : k = n \/ k \in 1..(n - 1)
  <2>1. \A n \in Nat \ {0} : \A k \in 1..n : k = n \/ k \in 1..(n - 1)
    OBVIOUS
  <2> QED
    BY <1>1, <2>1, WalkFacts
<1>4. /\ walk' \in Seq(Calls) /\ Len(walk') = n /\ walk' # << >> /\ Here' = v
      /\ WalkFollows'
      /\ DOMAIN Rests' = 1..n
      /\ \A k \in 1..(n - 1) : Rests'[k] = Rests[k]
      /\ Rests'[n] = RestOf(v, n = 1)
  BY <1>2, <1>3, GoOnStep
<1>5. EngineTypeOK'
  BY <1>1, <1>4 DEF EngineTypeOK, Calls, Known, treeVars
<1>6. Accounted'
  <2>1. Rests' = Rests
    <3>1. DOMAIN Rests' = DOMAIN Rests /\ \A k \in DOMAIN Rests : Rests'[k] = Rests[k]
      BY <1>3, <1>4, InTheVisit
    <3> QED
      BY <3>1 DEF Rests
  <2>2. Wanted' = Wanted
    BY DEF Wanted
  <2> QED
    BY <1>1, <2>1, <2>2 DEF Accounted, Honours
<1>7. NoneFound'
  BY <1>4 DEF NoneFound
<1>8. DeletesStartOnly'
  <2>1. CASE query.type = "DELETE"
    <3>1. n = 1 /\ walk'[1] = v
      BY <1>1, <1>2, <1>3, <1>4, <2>1, InTheVisit, GoesOn
    <3> QED
      BY <1>2, <1>4, <2>1, <3>1 DEF DeletesStartOnly, Idle
  <2>2. CASE query.type # "DELETE"
    BY <1>2, <1>4, <2>2, NothingDeleted
  <2> QED
    BY <2>1, <2>2
<1> QED
  BY <1>4, <1>5, <1>6, <1>7, <1>8 DEF WalkInv

-----------------------------------------------------------------------------
(* The greatest and the least of finitely many numbers.                    *)
LEMMA MaxIs ==
    ASSUME NEW n \in Nat, NEW T \in SUBSET (1..n), T # {}
    PROVE  Max(T) \in T /\ \A j \in T : j <= Max(T)
<1>1. \E m \in T : \A j \in T : j <= m
  <2>1. T \in SUBSET (0..n)
    OBVIOUS
  <2> QED
    BY <2>1, GreatestElement
<1> QED
  BY <1>1 DEF Max

LEMMA MinIs ==
    ASSUME NEW n \in Nat, NEW T \in SUBSET (1..n), T # {}
    PROVE  Min(T) \in T /\ \A j \in T : j >= Min(T)
<1>1. \E m \in T : \A j \in T : m <= j
  BY LeastElement
<1> QED
  BY <1>1 DEF Min

(* The element that is updated is the first of its key and type.           *)
LEMMA FirstAlike ==
    ASSUME NEW els \in Seq(Known), NEW e
    PROVE  LET p == CheckDocumentByCondition(els, Compare("EQ_KEY_TYPE", e))
           IN  \/ /\ p = 0
                  /\ \A k \in 1..Len(els) : ~SameKeyAndType(els[k], e)
               \/ /\ p \in 1..Len(els) /\ SameKeyAndType(els[p], e)
                  /\ \A k \in 1..(p - 1) : ~SameKeyAndType(els[k], e)
<1> DEFINE c == Compare("EQ_KEY_TYPE", e)
           T == {k \in 1..Len(els) : SameKeyAndType(els[k], e)}
<1>1. c # NoCondition /\ c.op = "EQ_KEY_TYPE" /\ c.element = e
  BY DEF Compare, NoCondition
<1> HIDE DEF c
<1>2. \A f : CheckElementByCondition(f, c) <=> SameKeyAndType(f, e)
  BY <1>1 DEF CheckElementByCondition, CompareByCondition, Holds
<1>3. {k \in 1..Len(els) : CheckElementByCondition(els[k], c)} = T
  BY <1>2
<1>4. CheckDocumentByCondition(els, c) = IF T # {} THEN Min(T) ELSE 0
  BY <1>1, <1>3, Zenon DEF CheckDocumentByCondition, SelectInSeq
<1>5. Len(els) \in Nat /\ T \subseteq 1..Len(els)
  OBVIOUS
<1>6. CASE T = {}
  BY <1>4, <1>6 DEF c
<1>7. CASE T # {}
  <2>1. Min(T) \in T /\ \A j \in T : j >= Min(T)
    <3> HIDE DEF T
    <3> QED
      BY <1>5, <1>7, MinIs
  <2>2. \A k \in 1..(Min(T) - 1) : k \in 1..Len(els) /\ k \notin T
    <3> DEFINE p == Min(T)
    <3>1. p \in 1..Len(els) /\ \A j \in T : j >= p
      BY <1>5, <2>1
    <3> HIDE DEF p, T
    <3>2. \A k \in 1..(p - 1) : k \in 1..Len(els) /\ k \notin T
      BY <1>5, <3>1
    <3> QED
      BY <3>2 DEF p
  <2>3. \A k \in 1..(Min(T) - 1) : ~SameKeyAndType(els[k], e)
    BY <2>2
  <2>4. Min(T) \in 1..Len(els) /\ SameKeyAndType(els[Min(T)], e)
    BY <2>1
  <2>5. CheckDocumentByCondition(els, c) = Min(T)
    BY <1>4, <1>7
  <2> HIDE DEF T
  <2> QED
    BY <2>3, <2>4, <2>5 DEF c
<1> QED
  BY <1>6, <1>7

(* What getIndexForDocumentUpdate and the loop over the new elements make  *)
(* of a document.                                                          *)
LEMMA UpdatedIs ==
    ASSUME NEW els \in Seq(Known), NEW new \in Seq(Known), NEW k \in 1..Len(els)
    PROVE  AsAsked(Updated(els, new)[k], els, new, k)
<1> DEFINE Like(e) == SameKeyAndType(e, els[k])
           at == IndexElements(els, new)
           writes == {j \in DOMAIN new : at[j] = k}
<1>1. /\ DOMAIN new = 1..Len(new) /\ Len(new) \in Nat /\ DOMAIN els = 1..Len(els)
      /\ Len(els) \in Nat
  OBVIOUS
<1>2. Updated(els, new)[k] = IF writes = {} THEN els[k] ELSE new[Max(writes)]
  BY <1>1 DEF Updated
<1>3. ASSUME NEW j \in DOMAIN new
      PROVE  \/ /\ at[j] = 0
                /\ \A m \in 1..Len(els) : ~SameKeyAndType(els[m], new[j])
             \/ /\ at[j] \in 1..Len(els) /\ SameKeyAndType(els[at[j]], new[j])
                /\ \A m \in 1..(at[j] - 1) : ~SameKeyAndType(els[m], new[j])
  <2>1. at[j] = CheckDocumentByCondition(els, Compare("EQ_KEY_TYPE", new[j]))
    BY DEF IndexElements
  <2> QED
    BY <2>1, FirstAlike
<1> HIDE DEF at
<1>4. \A e, f : SameKeyAndType(e, f) <=> SameKeyAndType(f, e)
  BY DEF SameKeyAndType
<1>5. \A e, f, g : SameKeyAndType(e, f) /\ SameKeyAndType(f, g) => SameKeyAndType(e, g)
  BY DEF SameKeyAndType
<1>6. ASSUME NEW j \in DOMAIN new
      PROVE  j \in writes <=> Like(new[j]) /\ \A m \in 1..(k - 1) : ~Like(els[m])
  <2>1. CASE at[j] = 0
    BY <1>3, <1>4, <2>1
  <2>2. CASE at[j] \in 1..Len(els) /\ SameKeyAndType(els[at[j]], new[j])
             /\ \A m \in 1..(at[j] - 1) : ~SameKeyAndType(els[m], new[j])
    <3>1. CASE at[j] = k
      BY <1>4, <1>5, <2>2, <3>1
    <3>2. CASE at[j] < k
      <4>1. at[j] \in 1..(k - 1)
        BY <2>2, <3>2
      <4>2. Like(new[j]) => Like(els[at[j]])
        BY <1>5, <2>2
      <4> QED
        BY <3>2, <4>1, <4>2, <2>2
    <3>3. CASE at[j] > k
      <4>1. k \in 1..(at[j] - 1)
        BY <2>2, <3>3
      <4> QED
        BY <1>4, <2>2, <3>3, <4>1
    <3> QED
      BY <2>2, <3>1, <3>2, <3>3
  <2> QED
    BY <1>3, <2>1, <2>2
<1>7. CASE writes = {}
  <2>1. Updated(els, new)[k] = els[k]
    BY <1>2, <1>7
  <2> QED
    BY <1>6, <1>7, <2>1 DEF AsAsked
<1>8. CASE writes # {}
  <2> DEFINE j == Max(writes)
  <2>1. j \in writes /\ \A m \in writes : m <= j
    <3>1. writes \in SUBSET (1..Len(new))
      BY <1>1
    <3> HIDE DEF writes
    <3> QED
      BY <1>1, <1>8, <3>1, MaxIs
  <2>2. Updated(els, new)[k] = new[j]
    BY <1>2, <1>8
  <2> HIDE DEF j
  <2>3. Like(new[j]) /\ \A m \in 1..(k - 1) : ~Like(els[m])
    BY <1>6, <2>1
  <2>4. \A m \in DOMAIN new : m > j => m \notin writes
    BY <1>1, <2>1
  <2>5. \A m \in DOMAIN new : m > j => ~Like(new[m])
    BY <1>6, <2>3, <2>4
  <2> QED
    BY <2>1, <2>2, <2>3, <2>5 DEF AsAsked
<1> QED
  BY <1>7, <1>8

(* An update leaves a document a sequence of elements clients know.        *)
LEMMA UpdatedType ==
    ASSUME NEW els \in Seq(Known), NEW new \in Seq(Known)
    PROVE  Updated(els, new) \in Seq(Known)
<1>1. /\ DOMAIN new = 1..Len(new) /\ Len(new) \in Nat /\ DOMAIN els = 1..Len(els)
      /\ Len(els) \in Nat
      /\ \A k \in 1..Len(els) : els[k] \in Known
      /\ \A j \in 1..Len(new) : new[j] \in Known
  OBVIOUS
<1> DEFINE u == Updated(els, new)
<1>2. u = [k \in 1..Len(els) |-> u[k]]
  BY <1>1 DEF Updated
<1>3. \A k \in 1..Len(els) : u[k] \in Known
  BY <1>1, UpdatedIs DEF AsAsked
<1> HIDE DEF u
<1>4. u \in [1..Len(els) -> Known]
  BY <1>2, <1>3
<1> QED
  BY <1>1, <1>4 DEF u

-----------------------------------------------------------------------------
(* A file without a root is empty: printing from the root begins the same  *)
(* visit again.                                                            *)
LEMMA PrintFromRootStep ==
    ASSUME EngineInv, PrintFromRoot
    PROVE  WalkInv'
<1> DEFINE v == Visit(NoDoc)
<1>1. /\ walk # << >> /\ Here.at = "enter" /\ Here.id = NoDoc /\ query.type = "PRINT"
      /\ walk' = Front(walk) \o <<Visit(header.root)>>
      /\ UNCHANGED <<treeVars, query, found, hits, elements, expected>>
  BY DEF PrintFromRoot, Enters
<1>2. Follows(Here, Len(walk), Len(walk), walk[1].id)
  BY <1>1, InTheVisit
<1>3. header.root = NoDoc
  BY <1>1, <1>2 DEF Follows
<1>4. v \in Calls /\ v.id = Here.id /\ v.at = "enter"
  BY <1>1 DEF Visit, Calls, Links
<1>5. walk' = Front(walk) \o <<v>>
  BY <1>1, <1>3
<1> HIDE DEF v
<1>6. Follows(v, Len(walk), Len(walk), walk[1].id)
  BY <1>1, <1>2, <1>3, <1>4 DEF Follows
<1>7. RestOf(v, Len(walk) = 1) = Rests[Len(walk)]
  <2>1. Rests[Len(walk)] = RestOf(Here, Len(walk) = 1)
    BY <1>1, InTheVisit
  <2> QED
    BY <1>1, <1>4, <2>1 DEF RestOf, Begins
<1> QED
  BY <1>1, <1>4, <1>5, <1>6, <1>7, GoOnSame

(* The document is not in use: nothing is to be visited.                   *)
LEMMA VisitRejectedStep ==
    ASSUME EngineInv, VisitRejected
    PROVE  WalkInv'
<1>1. /\ walk # << >> /\ Here.at = "enter" /\ Status(Here.id) # CLOSE
      /\ walk' = Front(walk) /\ found' = FALSE
      /\ UNCHANGED <<treeVars, query, hits, elements, expected>>
  BY DEF VisitRejected, Enters, Leave
<1>2. Here.id \notin Live
  BY <1>1 DEF Status, Live
<1>3. Rests[Len(walk)] = {}
  BY <1>1, <1>2, InTheVisit DEF RestOf, Begins
<1> QED
  BY <1>1, <1>3, ReturnStep

(* A document in use is met: it is added if it is wanted, and the visit    *)
(* goes on to its child, or not at all in a DELETE.                        *)
LEMMA Meets ==
    ASSUME EngineInv, Enters, Status(Here.id) = CLOSE, NEW at, GoOn(at),
           at \in IF query.type = "DELETE" THEN {"next", "delete"} ELSE {"down"},
           UNCHANGED <<header, inode, disk, parentOf, query, expected>>,
           hits' = IF Here.id \in Wanted THEN Append(hits, Here.id) ELSE hits,
           \A i : i # Here.id => (i \in Wanted' <=> i \in Wanted)
    PROVE  /\ Accounted' /\ WalkFollows'
           /\ walk' \in Seq(Calls) /\ Len(walk') = Len(walk) /\ walk' # << >>
           /\ Here'.at = at /\ Here'.id = Here.id
           /\ Here.id \in Live /\ hits' \in Seq(Ids)
<1> DEFINE id == Here.id
           v == [Here EXCEPT !.at = at, !.child = Child(id), !.brother = Brother(id)]
<1>1. /\ EngineTypeOK /\ Accounted /\ TreeInv /\ OneOldestRoot /\ IInv
      /\ walk # << >> /\ Here.at = "enter" /\ walk' = Front(walk) \o <<v>>
  BY DEF EngineInv, WalkInv, TreeInv, Enters, GoOn
<1>2. id \in Live /\ id \in Placed /\ id \in Ids
  BY <1>1, Basics DEF Status, Live, Placed
<1>3. Child(id) \in Links /\ Brother(id) \in Links
  BY <1>1, <1>2, BlockOf
<1>4. v \in Calls /\ v.id = id /\ v.at = at /\ v.child = Child(id) /\ v.brother = Brother(id)
  BY <1>1, <1>3, WalkFacts DEF Calls
<1>5. Follows(v, Len(walk), Len(walk), walk[1].id)
  BY <1>1, <1>2, <1>4, InTheVisit DEF Follows
<1>6. PICK n \in Nat \ {0} : n = Len(walk)
  BY <1>1, WalkFacts
<1> HIDE DEF v
<1>7. /\ walk' \in Seq(Calls) /\ Len(walk') = n /\ walk' # << >> /\ Here' = v
      /\ WalkFollows'
      /\ DOMAIN Rests' = 1..n
      /\ \A k \in 1..(n - 1) : Rests'[k] = Rests[k]
      /\ Rests'[n] = RestOf(v, n = 1)
  BY <1>1, <1>4, <1>5, <1>6, GoOnStep
<1>8. DOMAIN Rests = 1..n /\ Rests[n] = Begins(Here, n = 1)
  BY <1>1, <1>6, InTheVisit DEF RestOf
<1>9. Rests[n] = {id} \cup Rests'[n] /\ id \notin Rests'[n]
  <2>1. CASE query.type = "DELETE"
    <3>1. n = 1
      BY <1>1, <1>6, <2>1, InTheVisit
    <3>2. Rests'[n] = {}
      BY <1>4, <1>7, <2>1, <3>1 DEF RestOf, BrothersOf
    <3>3. Rests[n] = {id}
      BY <1>2, <1>8, <2>1 DEF Begins
    <3> QED
      BY <3>2, <3>3
  <2>2. CASE query.type # "DELETE"
    <3>1. Rests'[n] = Visits(Child(id)) \cup BrothersOf(v, n = 1)
      BY <1>4, <1>7, <2>2 DEF RestOf
    <3>2. Reached(id) = {id} \cup Visits(Child(id)) /\ id \notin Visits(Child(id))
      BY <1>1, <1>2, VisitsBelow
    <3>3. CASE n = 1 /\ query.type # "PRINT"
      BY <1>2, <1>8, <2>2, <3>1, <3>2, <3>3 DEF Begins, BrothersOf
    <3>4. CASE ~(n = 1 /\ query.type # "PRINT")
      <4>1. BrothersOf(v, n = 1) = Visits(Brother(id)) /\ Rests[n] = Visits(id)
        BY <1>2, <1>4, <1>8, <2>2, <3>4 DEF Begins, BrothersOf
      <4>2. Visits(id) = Reached(id) \cup Visits(Brother(id)) /\ Reached(id) \cap Visits(Brother(id)) = {}
        BY <1>1, <1>2, VisitsBeside
      <4> QED
        BY <3>1, <3>2, <4>1, <4>2
    <3> QED
      BY <3>3, <3>4
  <2> QED
    BY <2>1, <2>2
<1>10. hits \in Seq(Ids) /\ hits' \in Seq(Ids)
  BY <1>1, <1>2, AppendProperties DEF EngineTypeOK
<1>11. Accounted'
  <2>1. PICK E \in SUBSET Ids : Accounts(E, hits, Rests, Wanted) /\ Honours(E)
    BY <1>1 DEF Accounted
  <2>2. /\ id \in Wanted => Accounts(E, Append(hits, id), Rests', Wanted')
        /\ id \notin Wanted => Accounts(E, hits, Rests', Wanted')
    BY <1>1, <1>2, <1>7, <1>8, <1>9, <1>10, <2>1, AccountsAct
  <2> QED
    BY <2>1, <2>2 DEF Accounted, Honours
<1> QED
  BY <1>2, <1>4, <1>6, <1>7, <1>10, <1>11

(* A document that does not match is passed by. *)
LEMMA PassByStep ==
    ASSUME EngineInv, PassBy
    PROVE  WalkInv'
<1> DEFINE at == IF query.type = "DELETE" THEN "next" ELSE "down"
<1>1. /\ Enters /\ Status(Here.id) = CLOSE /\ ~Matches /\ GoOn(at)
      /\ UNCHANGED <<treeVars, query, found, hits, elements, expected>>
  BY DEF PassBy
<1>2. Here.id \notin Wanted /\ Wanted' = Wanted
  BY <1>1 DEF Matches, Wanted
<1>3. /\ Accounted' /\ WalkFollows'
      /\ walk' \in Seq(Calls) /\ Len(walk') = Len(walk) /\ walk' # << >>
      /\ Here'.at = at
  BY <1>1, <1>2, Meets DEF treeVars
<1>4. EngineTypeOK'
  BY <1>1, <1>3 DEF EngineInv, WalkInv, EngineTypeOK, Calls, Known
<1>5. NoneFound'
  BY <1>3 DEF NoneFound
<1>6. DeletesStartOnly'
  <2>1. CASE query.type = "DELETE"
    <3>1. Len(walk) = 1 /\ Here' = walk'[1] /\ Idle
      BY <1>1, <1>3, <2>1, InTheVisit DEF Enters, Here, Last
    <3> QED
      BY <1>1, <1>3, <2>1, <3>1 DEF DeletesStartOnly, Idle, treeVars
  <2>2. CASE query.type # "DELETE"
    BY <1>1, <1>3, <2>2, NothingDeleted DEF Enters, treeVars
  <2> QED
    BY <2>1, <2>2
<1> QED
  BY <1>3, <1>4, <1>5, <1>6 DEF WalkInv

(* A document that matches is added. *)
LEMMA SelectHitStep ==
    ASSUME EngineInv, SelectHit
    PROVE  WalkInv'
<1>1. /\ Enters /\ Status(Here.id) = CLOSE /\ Matches /\ GoOn("down")
      /\ query.type \in {"SELECT", "PRINT"}
      /\ hits' = Append(hits, Here.id)
      /\ UNCHANGED <<treeVars, query, found, elements, expected>>
  BY DEF SelectHit
<1>2. Here.id \in Wanted /\ Wanted' = Wanted
  BY <1>1, DocFileAssumption DEF Matches, Wanted, Status
<1>3. /\ Accounted' /\ WalkFollows' /\ hits' \in Seq(Ids)
      /\ walk' \in Seq(Calls) /\ Len(walk') = Len(walk) /\ walk' # << >>
      /\ Here'.at = "down"
  BY <1>1, <1>2, Meets DEF treeVars
<1>4. EngineTypeOK'
  BY <1>1, <1>3 DEF EngineInv, WalkInv, EngineTypeOK, Calls, Known
<1>5. NoneFound'
  BY <1>3 DEF NoneFound
<1>6. DeletesStartOnly'
  BY <1>1, <1>3, NothingDeleted DEF Enters, treeVars
<1> QED
  BY <1>3, <1>4, <1>5, <1>6 DEF WalkInv

(* A document that matches is changed and added if it has the elements to  *)
(* be updated.  Its elements are not looked at again.                      *)
LEMMA UpdateHitStep ==
    ASSUME EngineInv, UpdateHit
    PROVE  WalkInv'
<1>1. /\ Enters /\ Status(Here.id) = CLOSE /\ Matches /\ GoOn("down")
      /\ query.type = "UPDATE"
      /\ IF Updatable(elements[Here.id], query.update)
         THEN /\ elements' = [elements EXCEPT ![Here.id] = Updated(@, query.update)]
              /\ hits' = Append(hits, Here.id)
         ELSE UNCHANGED <<elements, hits>>
      /\ UNCHANGED <<treeVars, query, found, expected>>
  BY DEF UpdateHit
<1>2. Here.id \in Ids
  BY <1>1, DocFileAssumption DEF Status
<1>3. Here.id \in Wanted <=> Updatable(elements[Here.id], query.update)
  BY <1>1, <1>2 DEF Matches, Wanted
<1>4. elements \in [Ids -> Seq(Known)] /\ query.update \in Seq(Known)
  <2>1. query \in Queries
    BY <1>1, InTheVisit DEF Enters, Follows
  <2> QED
    BY <2>1, QueryEngineAssumption DEF EngineInv, WalkInv, EngineTypeOK
<1>5. /\ elements' \in [Ids -> Seq(Known)]
      /\ \A i \in Ids : i # Here.id => elements'[i] = elements[i]
  <2>1. CASE Updatable(elements[Here.id], query.update)
    <3> DEFINE new == Updated(elements[Here.id], query.update)
    <3>1. elements' = [elements EXCEPT ![Here.id] = new] /\ new \in Seq(Known)
      BY <1>1, <1>2, <1>4, <2>1, UpdatedType
    <3> HIDE DEF new
    <3> QED
      BY <1>4, <3>1
  <2>2. CASE ~Updatable(elements[Here.id], query.update)
    BY <1>1, <1>4, <2>2
  <2> QED
    BY <2>1, <2>2
<1>6. \A i : i # Here.id => (i \in Wanted' <=> i \in Wanted)
  BY <1>1, <1>5 DEF Wanted
<1>7. /\ Accounted' /\ WalkFollows' /\ hits' \in Seq(Ids)
      /\ walk' \in Seq(Calls) /\ Len(walk') = Len(walk) /\ walk' # << >>
      /\ Here'.at = "down"
  BY <1>1, <1>3, <1>6, Meets DEF treeVars
<1>8. EngineTypeOK'
  BY <1>1, <1>5, <1>7 DEF EngineInv, WalkInv, EngineTypeOK, Calls, Known
<1>9. NoneFound'
  BY <1>7 DEF NoneFound
<1>10. DeletesStartOnly'
  BY <1>1, <1>7, NothingDeleted DEF Enters, treeVars
<1> QED
  BY <1>7, <1>8, <1>9, <1>10 DEF WalkInv

(* A document that matches is added, and its deletion begins.              *)
LEMMA DeleteHitStep ==
    ASSUME EngineInv, DeleteHit
    PROVE  WalkInv'
<1>1. /\ Enters /\ Status(Here.id) = CLOSE /\ Matches /\ GoOn("delete")
      /\ query.type = "DELETE" /\ DeleteTree(Here.id)
      /\ hits' = Append(hits, Here.id)
      /\ UNCHANGED <<query, found, elements, expected>>
  BY DEF DeleteHit
<1>2. /\ stack' = <<Frame("document", Here.id)>>
      /\ UNCHANGED <<header, inode, disk, parentOf, query>>
  BY <1>1 DEF DeleteTree, DeleteDocument
<1>3. Here.id \in Wanted /\ Wanted' = Wanted
  BY <1>1, DocFileAssumption DEF Matches, Wanted, Status
<1>4. /\ Accounted' /\ WalkFollows' /\ hits' \in Seq(Ids)
      /\ walk' \in Seq(Calls) /\ Len(walk') = Len(walk) /\ walk' # << >>
      /\ Here'.at = "delete" /\ Here'.id = Here.id
  BY <1>1, <1>2, <1>3, Meets
<1>5. EngineTypeOK'
  BY <1>1, <1>4 DEF EngineInv, WalkInv, EngineTypeOK, Calls, Known
<1>6. NoneFound'
  BY <1>4 DEF NoneFound
<1>7. DeletesStartOnly'
  <2>1. Len(walk') = 1 /\ Here' = walk'[1]
    BY <1>1, <1>4, InTheVisit DEF Enters, Here, Last
  <2>2. /\ stack'[1].fn = "document" /\ stack'[1].at = "enter" /\ stack'[1].id = Here.id
        /\ Len(stack') = 1 /\ ~Idle'
    BY <1>2 DEF Frame, Idle
  <2>3. Here.id \in Ids /\ inode'[Here.id].status = CLOSE
    BY <1>1, <1>2, DocFileAssumption DEF Status
  <2> QED
    BY <1>1, <1>4, <2>1, <2>2, <2>3 DEF DeletesStartOnly, Status
<1> QED
  BY <1>4, <1>5, <1>6, <1>7 DEF WalkInv

(* The deletion that is waited for begins with a document in use, so it    *)
(* does not return before it has freed it.                                 *)
LEMMA DeletingStep ==
    ASSUME EngineInv, Deleting
    PROVE  WalkInv'
<1>1. /\ DeleteStep /\ UNCHANGED <<query, walk, found, hits, elements, expected, parentOf>>
  BY DEF Deleting, DeleteTreeStep, engineVars
<1>2. /\ ~Idle /\ UNCHANGED disk /\ IInv
  BY <1>1 DEF DeleteStep, DeleteRejected, DeleteChild, RetryChild, GiveUp, FreeDocument, Call,
              EngineInv, TreeInv
<1>3. /\ EngineTypeOK /\ Accounted /\ WalkFollows /\ NoneFound /\ DeletesStartOnly
  BY DEF EngineInv, WalkInv
<1>4. /\ walk # << >> /\ walk[1].at = "delete"
      /\ stack[1].fn = "document" /\ stack[1].at \in {"enter", "child"}
      /\ stack[1].at = "enter" => Len(stack) = 1 /\ Status(stack[1].id) = CLOSE
  BY <1>2, <1>3 DEF DeletesStartOnly
<1>5. query.type = "DELETE" /\ DOMAIN walk = {1} /\ Len(walk) = 1 /\ Follows(walk[1], 1, 1, walk[1].id)
  <2>1. 1 \in DOMAIN walk /\ Follows(walk[1], 1, Len(walk), walk[1].id)
    BY <1>3, <1>4, WalkFacts DEF WalkFollows
  <2>2. query.type = "DELETE"
    BY <1>4, <2>1 DEF Follows
  <2>3. Len(walk) = 1
    BY <1>4, <2>2, InTheVisit
  <2> QED
    BY <1>3, <1>4, <2>1, <2>2, <2>3, WalkFacts
<1>6. /\ \A i \in Ids : inode'[i].pos = inode[i].pos
      /\ Placed' = Placed
  <2>1. CASE FreeDocument
    <3>1. /\ Top.id \in Ids /\ inode[Top.id].status = CLOSE
          /\ inode'[Top.id].status = REMOVE
          /\ inode'[Top.id].pos = inode[Top.id].pos
          /\ \A i \in Ids \ {Top.id} : inode'[i] = inode[i]
      BY <1>2, <2>1, FreesOne
    <3> QED
      BY <3>1, DocFileAssumption DEF Placed
  <2>2. CASE ~FreeDocument
    BY <1>1, <2>2 DEF DeleteStep, DeleteRejected, DeleteChild, RetryChild, GiveUp, Call, Placed
  <2> QED
    BY <2>1, <2>2
<1>7. EngineTypeOK'
  BY <1>1, <1>3 DEF EngineTypeOK, Calls, Known
<1>8. Accounted'
  <2>1. Wanted' = Wanted
    BY <1>1 DEF Wanted
  <2>2. Rests = [k \in 1..1 |-> {}]
    BY <1>4, <1>5 DEF Rests, RestOf
  <2>3. Rests' = [k \in 1..1 |-> {}]
    BY <1>1, <1>4, <1>5 DEF Rests, RestOf
  <2> QED
    BY <1>1, <1>3, <2>1, <2>2, <2>3 DEF Accounted, Honours
<1>9. WalkFollows'
  <2>1. walk[1].id \in Placed /\ walk[1].id \in Ids
    BY <1>4, <1>5 DEF Follows, Placed
  <2>2. Child(walk[1].id)' = Child(walk[1].id) /\ Brother(walk[1].id)' = Brother(walk[1].id)
    BY <1>1, <1>2, <1>6, <2>1 DEF Child, Brother, MetaOf
  <2>3. Follows(walk[1], 1, 1, walk[1].id)'
    BY <1>1, <1>4, <1>5, <1>6, <2>1, <2>2 DEF Follows
  <2> QED
    BY <1>1, <1>5, <2>3 DEF WalkFollows
<1>10. NoneFound'
  BY <1>1, <1>5 DEF NoneFound
<1>11. DeletesStartOnly'
  <2>1. /\ Len(stack) \in Nat \ {0} /\ Top = stack[Len(stack)]
        /\ Front(stack) \in Seq(Frames) /\ Len(Front(stack)) = Len(stack) - 1
        /\ \A k \in 1..(Len(stack) - 1) : Front(stack)[k] = stack[k]
        /\ Top \in Frames
    BY <1>2, StackFacts, IInvBooks
  <2>2. CASE DeleteRejected \/ GiveUp \/ FreeDocument
    <3>1. stack' = Front(stack)
      BY <2>2 DEF DeleteRejected, GiveUp, FreeDocument, Return
    <3>2. CASE Len(stack) = 1
      <4>1. Idle'
        BY <2>1, <3>1, <3>2, EmptySeq DEF Idle
      <4>2. Top = stack[1]
        BY <2>1, <3>2
      <4>3. ~DeleteRejected /\ ~GiveUp
        BY <1>4, <4>2 DEF DeleteRejected, GiveUp
      <4>4. result'
        BY <2>2, <4>3 DEF FreeDocument, Return
      <4> QED
        BY <1>1, <1>3, <4>1, <4>4 DEF DeletesStartOnly
    <3>3. CASE Len(stack) # 1
      <4>1. ~Idle' /\ stack'[1] = stack[1]
        BY <2>1, <3>1, <3>3, EmptySeq DEF Idle
      <4> QED
        BY <1>1, <1>3, <1>4, <3>3, <4>1 DEF DeletesStartOnly
    <3> QED
      BY <3>2, <3>3
  <2>3. CASE DeleteChild \/ RetryChild
    <3>1. PICK at \in {"child", "retry"} :
             /\ stack' = Front(stack) \o
                         <<[Top EXCEPT !.at = at], Frame(Callee(Top.fn), Child(Top.id))>>
             /\ at = "retry" => Top.fn = "sameLevel"
      BY <2>3 DEF DeleteChild, RetryChild, Call
    <3> DEFINE t == [Top EXCEPT !.at = at]
               u == Frame(Callee(Top.fn), Child(Top.id))
               s == <<t, u>>
    <3>2. Len(s) = 2 /\ s[1] = t /\ t.at = at /\ t.fn = Top.fn /\ s \in Seq({t, u})
      BY <2>1 DEF Frames
    <3>3. stack' = Front(stack) \o s
      BY <3>1
    <3> HIDE DEF s, t, u
    <3>4. ~Idle' /\ stack'[1] = IF Len(stack) = 1 THEN t ELSE stack[1]
      <4>1. /\ Front(stack) \o s \in Seq(Frames \cup {t, u})
            /\ Len(Front(stack) \o s) = Len(Front(stack)) + Len(s)
            /\ \A k \in 1..(Len(Front(stack)) + Len(s)) :
                  (Front(stack) \o s)[k] = IF k <= Len(Front(stack)) THEN Front(stack)[k]
                                           ELSE s[k - Len(Front(stack))]
        <5>1. Front(stack) \in Seq(Frames \cup {t, u}) /\ s \in Seq(Frames \cup {t, u})
          BY <2>1, <3>2, SeqMonotonic
        <5> QED
          BY <5>1, ConcatProperties
      <4>2. Len(stack') # 0 /\ 1 \in 1..(Len(Front(stack)) + Len(s))
        BY <2>1, <3>2, <3>3, <4>1
      <4>3. ~Idle'
        BY <3>3, <4>1, <4>2, EmptySeq DEF Idle
      <4>4. stack'[1] = IF 1 <= Len(Front(stack)) THEN Front(stack)[1] ELSE s[1 - Len(Front(stack))]
        BY <3>3, <4>1, <4>2
      <4>5. CASE Len(stack) = 1
        BY <2>1, <3>2, <4>3, <4>4, <4>5
      <4>6. CASE Len(stack) # 1
        <5>1. 1 \in 1..(Len(stack) - 1)
          BY <2>1, <4>6
        <5> QED
          BY <2>1, <4>3, <4>4, <4>6, <5>1
      <4> QED
        BY <4>5, <4>6
    <3>5. /\ stack'[1].fn = "document" /\ stack'[1].at = "child"
      <4>1. CASE Len(stack) = 1
        <5>1. Top = stack[1]
          BY <2>1, <4>1
        <5> QED
          BY <1>4, <3>1, <3>2, <3>4, <4>1, <5>1
      <4>2. CASE Len(stack) # 1
        BY <1>4, <3>4, <4>2
      <4> QED
        BY <4>1, <4>2
    <3> QED
      BY <1>1, <1>3, <1>4, <3>4, <3>5 DEF DeletesStartOnly
  <2> QED
    BY <1>1, <2>2, <2>3 DEF DeleteStep
<1> QED
  BY <1>7, <1>8, <1>9, <1>10, <1>11 DEF WalkInv

(* The deletion has come back: the visit has nothing left to do.           *)
LEMMA DeleteDoneStep ==
    ASSUME EngineInv, DeleteDone
    PROVE  WalkInv'
<1> DEFINE v == [Here EXCEPT !.at = "next"]
<1>1. /\ Idle /\ walk # << >> /\ Here.at = "delete"
      /\ walk' = [walk EXCEPT ![Len(walk)].at = IF result THEN "next" ELSE "down"]
      /\ UNCHANGED <<treeVars, query, found, hits, elements, expected>>
  BY DEF DeleteDone, StepTo
<1>2. /\ EngineTypeOK /\ DeletesStartOnly /\ Here \in Calls /\ Here = walk[Len(walk)]
      /\ Follows(Here, Len(walk), Len(walk), walk[1].id)
  BY <1>1, WalkFacts, InTheVisit DEF EngineInv, WalkInv
<1>3. query.type = "DELETE" /\ Len(walk) = 1
  BY <1>1, <1>2, InTheVisit DEF Follows
<1>4. result
  BY <1>1, <1>2, <1>3 DEF DeletesStartOnly
<1>5. walk' = [walk EXCEPT ![Len(walk)] = v]
  BY <1>1, <1>2, <1>4
<1>6. v \in Calls /\ v.at = "next" /\ v.id = Here.id /\ Follows(v, Len(walk), Len(walk), walk[1].id)
  BY <1>1, <1>2 DEF Calls, Follows
<1>7. RestOf(v, Len(walk) = 1) = Rests[Len(walk)]
  <2>1. Rests[Len(walk)] = RestOf(Here, Len(walk) = 1)
    BY <1>1, InTheVisit
  <2> QED
    BY <1>1, <1>3, <1>6, <2>1 DEF RestOf, BrothersOf
<1> HIDE DEF v
<1> QED
  BY <1>1, <1>5, <1>6, <1>7, GoOnSame

-----------------------------------------------------------------------------
(* The visit in progress calls for id and leaves it part of what it has    *)
(* still to do.                                                            *)
LEMMA DescendStep ==
    ASSUME EngineInv, walk # << >>, Here.at \notin {"enter", "lookup", "delete"},
           query.type # "DELETE",
           NEW at \in {"child", "brother"}, NEW id \in Ids, NEW v \in Calls,
           v.id = Here.id, v.at = at, v.child = Here.child, v.brother = Here.brother,
           walk' = Front(walk) \o <<v, Visit(id)>>,
           Rests[Len(walk)] = RestOf(v, Len(walk) = 1) \cup Visits(id),
           RestOf(v, Len(walk) = 1) \cap Visits(id) = {},
           at = "brother" /\ Len(walk) = 1 => query.type = "PRINT",
           query.type # "PRINT" => id \in Placed /\ walk[1].id <= parentOf[id],
           UNCHANGED <<treeVars, query, found, hits, elements, expected>>
    PROVE  WalkInv'
<1>1. EngineTypeOK /\ Accounted /\ WalkFollows
  BY DEF EngineInv, WalkInv
<1>2. UNCHANGED <<header, inode, disk, parentOf, query, stack, result>>
  BY DEF treeVars
<1>3. Visit(id) \in Calls /\ Visit(id).id = id /\ Visit(id).at = "enter"
  BY DEF Visit, Calls, Links
<1>4. PICK n \in Nat \ {0} : n = Len(walk) /\ Here = walk[n]
  BY <1>1, WalkFacts
<1>5. /\ walk' \in Seq(Calls) /\ Len(walk') = n + 1 /\ walk' # << >>
      /\ \A k \in 1..(n - 1) : walk'[k] = walk[k]
      /\ walk'[n] = v /\ walk'[n + 1] = Visit(id) /\ Here' = Visit(id)
  <2>1. /\ walk' \in Seq(Calls) /\ Len(walk') = Len(walk) + 1 /\ walk' # << >>
        /\ \A k \in 1..(Len(walk) - 1) : walk'[k] = walk[k]
        /\ walk'[Len(walk)] = v /\ walk'[Len(walk) + 1] = Visit(id) /\ Here' = Visit(id)
    BY <1>1, <1>3, GoesDeeper
  <2> QED
    BY <1>4, <2>1
<1>6. EngineTypeOK'
  BY <1>1, <1>5 DEF EngineTypeOK, Calls, Known, treeVars
<1>7. WalkFollows'
  <2>1. Follows(Here, n, n, walk[1].id)
    BY <1>4, InTheVisit
  <2>2. Follows(v, n, n + 1, walk[1].id)
    BY <1>4, <2>1 DEF Follows
  <2>3. Follows(Visit(id), n + 1, n + 1, walk[1].id)
    BY <1>3, <1>4, <2>1, DocFileAssumption DEF Follows, Ids, NoDoc
  <2>4. n + 1 \in Nat
    OBVIOUS
  <2> QED
    BY <1>1, <1>2, <1>4, <1>5, <2>2, <2>3, <2>4, FollowsOn
<1>8. Accounted'
  <2>1. /\ \A k \in 1..(n - 1) : k \in 1..n /\ k \in 1..(n + 1)
        /\ n \in 1..(n + 1) /\ n + 1 \in 1..(n + 1) /\ n + 1 # 1
    OBVIOUS
  <2>2. /\ DOMAIN Rests' = 1..(n + 1)
        /\ \A k \in 1..(n + 1) : Rests'[k] = RestOf(walk'[k], k = 1)
    BY <1>2, <1>5, RestsAfter
  <2>3. /\ DOMAIN Rests = 1..n
        /\ \A k \in 1..n : Rests[k] = RestOf(walk[k], k = 1)
    BY <1>4, InTheVisit
  <2>4. \A k \in 1..(n - 1) : Rests'[k] = Rests[k]
    BY <1>5, <2>1, <2>2, <2>3
  <2>5. Rests'[n] = RestOf(v, n = 1)
    BY <1>5, <2>1, <2>2
  <2>6. Rests'[n + 1] = RestOf(Visit(id), FALSE)
    BY <1>5, <2>1, <2>2
  <2>7. RestOf(Visit(id), FALSE) = Visits(id)
    BY <1>3 DEF RestOf, Begins, Visits
  <2>8. Wanted' = Wanted
    BY DEF Wanted
  <2>9. Rests[n] = Rests'[n] \cup Rests'[n + 1] /\ Rests'[n] \cap Rests'[n + 1] = {}
    BY <1>4, <2>5, <2>6, <2>7
  <2>10. PICK E \in SUBSET Ids : Accounts(E, hits, Rests, Wanted) /\ Honours(E)
    BY <1>1 DEF Accounted
  <2>11. Accounts(E, hits, Rests', Wanted)
    BY <1>1, <2>2, <2>3, <2>4, <2>9, <2>10, AccountsCall
  <2> QED
    BY <2>8, <2>10, <2>11 DEF Accounted, Honours
<1>9. NoneFound'
  BY <1>3, <1>5 DEF NoneFound
<1>10. DeletesStartOnly'
  BY <1>2, <1>5, <1>7, NothingDeleted
<1> QED
  BY <1>6, <1>7, <1>8, <1>9, <1>10 DEF WalkInv

(* Where the links lead is in the tree below the start, too.               *)
LEMMA LinksStayBelow ==
    ASSUME EngineInv, walk # << >>, Here.at \notin {"enter", "lookup"}
    PROVE  /\ Here.id \in Placed /\ Here.child = Child(Here.id) /\ Here.brother = Brother(Here.id)
           /\ Here.child \in Links /\ Here.brother \in Links
           /\ Here.child # NoDoc /\ query.type # "PRINT" =>
                 Here.child \in Placed /\ walk[1].id <= parentOf[Here.child]
           /\ Here.brother # NoDoc /\ query.type # "PRINT" /\ Len(walk) # 1 =>
                 Here.brother \in Placed /\ walk[1].id <= parentOf[Here.brother]
<1>1. /\ EngineTypeOK /\ IInv /\ LinksTellAges /\ OneOldestRoot
      /\ Len(walk) \in Nat \ {0} /\ Here = walk[Len(walk)] /\ walk[1] \in Calls
  BY WalkFacts DEF EngineInv, WalkInv, TreeInv
<1>2. /\ Follows(Here, Len(walk), Len(walk), walk[1].id)
      /\ Len(walk) # 1 /\ query.type # "PRINT" => walk[1].id <= parentOf[Here.id]
  <2>1. PICK n : n = Len(walk)
    OBVIOUS
  <2>2. PICK i : i = walk[1].id
    OBVIOUS
  <2>3. n # 1 => n > 1
    BY <1>1, <2>1
  <2>4. Follows(Here, n, n, i)
    BY <2>1, <2>2, InTheVisit
  <2>5. n > 1 /\ query.type # "PRINT" => i <= parentOf[Here.id]
    BY <2>4, Zenon DEF Follows
  <2> QED
    BY <2>1, <2>2, <2>3, <2>4, <2>5
<1>3. /\ Here.id \in Placed /\ Here.child = Child(Here.id) /\ Here.brother = Brother(Here.id)
  BY <1>2 DEF Follows
<1>4. Here.child \in Links /\ Here.brother \in Links
  BY <1>1, <1>3, BlockOf
<1>5. /\ Here.id \in Int /\ parentOf[Here.id] \in Int /\ walk[1].id \in Int
      /\ parentOf[Here.id] < Here.id
  BY <1>1, <1>3, DocFileAssumption DEF LinksTellAges, OneOldestRoot, Placed, Links, Ids, NoDoc, Calls
<1>6. \A q : Under(q) \in SUBSET Ids
  BY DEF Under, Placed
<1>7. ASSUME Here.child # NoDoc, query.type # "PRINT"
      PROVE  Here.child \in Placed /\ walk[1].id <= parentOf[Here.child]
  <2>1. Here.child = Newest(Under(Here.id))
    BY <1>1, <1>3 DEF LinksTellAges
  <2>2. Here.child \in Under(Here.id)
    BY <1>6, <1>7, <2>1, NewestOf
  <2>3. walk[1].id <= Here.id
    <3>1. CASE Len(walk) = 1
      BY <1>1, <1>5, <3>1
    <3>2. CASE Len(walk) # 1
      <4>1. walk[1].id <= parentOf[Here.id]
        BY <1>2, <1>7, <3>2
      <4> QED
        BY <1>5, <4>1
    <3> QED
      BY <3>1, <3>2
  <2> QED
    BY <2>2, <2>3 DEF Under
<1>8. ASSUME Here.brother # NoDoc, query.type # "PRINT", Len(walk) # 1
      PROVE  Here.brother \in Placed /\ walk[1].id <= parentOf[Here.brother]
  <2>1. walk[1].id <= parentOf[Here.id]
    BY <1>2, <1>8
  <2>2. Here.brother = Newest({j \in Under(parentOf[Here.id]) : j < Here.id})
    BY <1>1, <1>3, <1>8 DEF LinksTellAges
  <2>3. {j \in Under(parentOf[Here.id]) : j < Here.id} \in SUBSET Ids
    BY <1>6
  <2>4. Here.brother \in Under(parentOf[Here.id])
    BY <1>8, <2>2, <2>3, NewestOf
  <2> QED
    BY <2>1, <2>4 DEF Under
<1> QED
  BY <1>3, <1>4, <1>7, <1>8

(* A visit calls for the child of its document, or has none.               *)
LEMMA GoDownStep ==
    ASSUME EngineInv, GoDown
    PROVE  WalkInv'
<1>1. /\ walk # << >> /\ Here.at = "down" /\ query.type # "DELETE"
      /\ UNCHANGED <<treeVars, query, found, hits, elements, expected>>
      /\ EngineTypeOK /\ TreeInv /\ OneOldestRoot
  BY InTheVisit DEF GoDown, EngineInv, WalkInv
<1>2. /\ Here \in Calls /\ Here = walk[Len(walk)] /\ Len(walk) \in Nat \ {0}
      /\ Follows(Here, Len(walk), Len(walk), walk[1].id)
  BY <1>1, WalkFacts, InTheVisit
<1>3. /\ Here.id \in Placed /\ Here.id \in Live
      /\ Here.child = Child(Here.id) /\ Here.brother = Brother(Here.id)
  BY <1>1, <1>2 DEF Follows
<1>4. Rests[Len(walk)] = Visits(Here.child) \cup BrothersOf(Here, Len(walk) = 1)
  BY <1>1, InTheVisit DEF RestOf
<1>5. CASE Here.child = NoDoc
  <2> DEFINE v == [Here EXCEPT !.at = "next"]
  <2>1. walk' = [walk EXCEPT ![Len(walk)] = v]
    BY <1>2, <1>5 DEF GoDown, StepTo
  <2>2. v \in Calls /\ v.at = "next" /\ v.id = Here.id /\ v.brother = Here.brother
    BY <1>2 DEF Calls
  <2>3. Follows(v, Len(walk), Len(walk), walk[1].id)
    BY <1>1, <1>2 DEF Follows, Calls
  <2>4. Visits(Here.child) = {}
    BY <1>5, DocFileAssumption DEF Visits, Live, Ids, NoDoc
  <2>5. RestOf(v, Len(walk) = 1) = Rests[Len(walk)]
    BY <1>4, <2>2, <2>4 DEF RestOf, BrothersOf
  <2> HIDE DEF v
  <2> QED
    BY <1>1, <2>1, <2>2, <2>3, <2>5, GoOnSame
<1>6. CASE Here.child # NoDoc
  <2> DEFINE v == [Here EXCEPT !.at = "child"]
  <2>1. walk' = Front(walk) \o <<v, Visit(Here.child)>>
    BY <1>6 DEF GoDown, Descend
  <2>2. /\ v \in Calls /\ v.at = "child" /\ v.id = Here.id
        /\ v.child = Here.child /\ v.brother = Here.brother
    BY <1>2 DEF Calls
  <2> HIDE DEF v
  <2>3. RestOf(v, Len(walk) = 1) = BrothersOf(Here, Len(walk) = 1)
    BY <2>2 DEF RestOf, BrothersOf
  <2>4. BrothersOf(Here, Len(walk) = 1) \cap Visits(Here.child) = {}
    <3>1. /\ Reached(Here.id) = {Here.id} \cup Visits(Here.child)
          /\ Reached(Here.id) \cap Visits(Here.brother) = {}
      BY <1>1, <1>3, VisitsBelow, VisitsBeside
    <3> QED
      BY <3>1 DEF BrothersOf
  <2>5. /\ Here.child \in Ids
        /\ query.type # "PRINT" => Here.child \in Placed /\ walk[1].id <= parentOf[Here.child]
    BY <1>1, <1>6, LinksStayBelow DEF Links
  <2>6. Rests[Len(walk)] = RestOf(v, Len(walk) = 1) \cup Visits(Here.child)
    BY <1>4, <2>3
  <2>7. RestOf(v, Len(walk) = 1) \cap Visits(Here.child) = {}
    BY <2>3, <2>4
  <2>8. Here.at \notin {"enter", "lookup", "delete"}
    BY <1>1
  <2> QED
    BY <1>1, <2>1, <2>2, <2>5, <2>6, <2>7, <2>8, DescendStep
<1> QED
  BY <1>5, <1>6

(* The visit of the child has come back.  It has not found anything that   *)
(* would end the walk.                                                     *)
LEMMA ChildVisitedStep ==
    ASSUME EngineInv, ChildVisited
    PROVE  WalkInv'
<1> DEFINE v == [Here EXCEPT !.at = "next"]
<1>1. /\ walk # << >> /\ Here.at = "child" /\ query.type # "DELETE"
      /\ UNCHANGED <<treeVars, query, hits, elements, expected>>
      /\ EngineTypeOK /\ NoneFound
  BY InTheVisit DEF ChildVisited, EngineInv, WalkInv
<1>2. /\ Here \in Calls /\ Here = walk[Len(walk)]
      /\ Follows(Here, Len(walk), Len(walk), walk[1].id)
  BY <1>1, WalkFacts, InTheVisit
<1>3. ~(found /\ query.type # "PRINT")
  BY <1>1, InTheVisit DEF NoneFound
<1>4. walk' = [walk EXCEPT ![Len(walk)] = v] /\ UNCHANGED found
  BY <1>2, <1>3 DEF ChildVisited, StepTo
<1>5. v \in Calls /\ v.at = "next" /\ v.id = Here.id /\ v.brother = Here.brother
  BY <1>2 DEF Calls
<1>6. Follows(v, Len(walk), Len(walk), walk[1].id)
  BY <1>1, <1>2 DEF Follows, Calls
<1> HIDE DEF v
<1>7. RestOf(v, Len(walk) = 1) = Rests[Len(walk)]
  <2>1. Rests[Len(walk)] = RestOf(Here, Len(walk) = 1)
    BY <1>1, InTheVisit
  <2> QED
    BY <1>1, <1>5, <2>1 DEF RestOf, BrothersOf
<1> QED
  BY <1>1, <1>4, <1>5, <1>6, <1>7, GoOnSame

(* A visit calls for the brother of its document, but the visit the query  *)
(* began with does so for printTree only.                                  *)
LEMMA GoToBrotherStep ==
    ASSUME EngineInv, GoToBrother
    PROVE  WalkInv'
<1>1. /\ walk # << >> /\ Here.at = "next"
      /\ UNCHANGED <<treeVars, query, hits, elements, expected>>
      /\ EngineTypeOK
  BY DEF GoToBrother, EngineInv, WalkInv
<1>2. /\ Here \in Calls /\ Here = walk[Len(walk)] /\ Len(walk) \in Nat \ {0}
  BY <1>1, WalkFacts
<1>3. Rests[Len(walk)] = BrothersOf(Here, Len(walk) = 1)
  BY <1>1, InTheVisit DEF RestOf
<1>4. Here.id = walk[1].id /\ query.type # "PRINT" <=> Len(walk) = 1 /\ query.type # "PRINT"
  BY <1>1, <1>2, InTheVisit
<1>5. CASE Here.brother = NoDoc \/ (Len(walk) = 1 /\ query.type # "PRINT")
  <2>1. walk' = Front(walk) /\ found' \in BOOLEAN
    BY <1>4, <1>5 DEF GoToBrother, Leave
  <2>2. query.type # "PRINT" /\ Len(walk) # 1 => ~found'
    BY <1>4, <1>5 DEF GoToBrother, Leave
  <2>3. Rests[Len(walk)] = {}
    BY <1>3, <1>5, DocFileAssumption DEF BrothersOf, Visits, Live, Ids, NoDoc
  <2> QED
    BY <1>1, <2>1, <2>2, <2>3, ReturnStep
<1>6. CASE Here.brother # NoDoc /\ (query.type = "PRINT" \/ Len(walk) # 1)
  <2> DEFINE v == [Here EXCEPT !.at = "brother"]
  <2>1. walk' = Front(walk) \o <<v, Visit(Here.brother)>> /\ UNCHANGED found
    BY <1>4, <1>6 DEF GoToBrother, Descend
  <2>2. /\ v \in Calls /\ v.at = "brother" /\ v.id = Here.id
        /\ v.child = Here.child /\ v.brother = Here.brother
    BY <1>2 DEF Calls
  <2> HIDE DEF v
  <2>3. RestOf(v, Len(walk) = 1) = {}
    BY <2>2 DEF RestOf
  <2>4. Rests[Len(walk)] = Visits(Here.brother)
    BY <1>3, <1>6 DEF BrothersOf
  <2>5. /\ Here.brother \in Ids
        /\ query.type # "PRINT" => Here.brother \in Placed /\ walk[1].id <= parentOf[Here.brother]
    BY <1>1, <1>6, LinksStayBelow DEF Links
  <2>6. Here.at \notin {"enter", "lookup", "delete"} /\ query.type # "DELETE"
    BY <1>1, <1>6, InTheVisit
  <2>7. /\ Rests[Len(walk)] = RestOf(v, Len(walk) = 1) \cup Visits(Here.brother)
        /\ RestOf(v, Len(walk) = 1) \cap Visits(Here.brother) = {}
    BY <2>3, <2>4
  <2> QED
    BY <1>1, <1>6, <2>1, <2>2, <2>5, <2>6, <2>7, DescendStep
<1> QED
  BY <1>5, <1>6

(* The visit of the brother has come back. *)
LEMMA BrotherVisitedStep ==
    ASSUME EngineInv, BrotherVisited
    PROVE  WalkInv'
<1>1. /\ walk # << >> /\ Here.at = "brother"
      /\ walk' = Front(walk) /\ found' = (found \/ query.type = "PRINT")
      /\ UNCHANGED <<treeVars, query, hits, elements, expected>>
      /\ NoneFound
  BY DEF BrotherVisited, Leave, EngineInv, WalkInv
<1>2. found' \in BOOLEAN
  BY <1>1
<1>3. query.type \in {"SELECT", "UPDATE"} => ~found'
  BY <1>1 DEF NoneFound
<1>4. Rests[Len(walk)] = {}
  BY <1>1, InTheVisit DEF RestOf
<1> QED
  BY <1>1, <1>2, <1>3, <1>4, ReturnStep

-----------------------------------------------------------------------------
(* A query begins with a document of the file, or with none.               *)
LEMMA StartIsLink ==
    ASSUME TreeInv, NEW name
    PROVE  StartOf(name) \in Links
<1>1. header.root \in Links /\ 0 \in Ids /\ Placed \subseteq Ids
  BY DocFileAssumption DEF TreeInv, IInv, TypeOK, Headers, Placed, Ids
<1>2. Searched(name) \subseteq Placed
  BY DEF Searched
<1>3. FindDocumentMetaByName(name) \in Links
  BY <1>1, <1>2 DEF FindDocumentMetaByName, Links
<1> QED
  BY <1>1, <1>3 DEF StartOf

(* The documents above i are those above its parent, and i; none is        *)
(* younger than i.                                                         *)
LEMMA AncestorsIs ==
    ASSUME TreeInv, OneOldestRoot, NEW i \in Placed
    PROVE  /\ i \in Ancestors(i)
           /\ parentOf[i] = NoDoc => Ancestors(i) = {i}
           /\ parentOf[i] # NoDoc => /\ parentOf[i] \in Placed
                                     /\ Ancestors(i) = {i} \cup Ancestors(parentOf[i])
           /\ \A a \in Ancestors(i) : a \in Placed /\ a <= i
<1> DEFINE p == parentOf[i]
           Up(S) == \A j \in S : parentOf[j] \in S \cup {NoDoc}
<1>1. /\ Placed \subseteq Ids /\ Ids \subseteq Int /\ i \in Ids /\ NoDoc \in Int /\ NoDoc \notin Ids
      /\ \A j \in Placed : parentOf[j] \in Placed \cup {NoDoc} /\ parentOf[j] < j
  BY DocFileAssumption DEF Placed, Ids, NoDoc, TreeInv, LinksTellAges, OneOldestRoot
<1>2. i \in Ancestors(i)
  BY <1>1 DEF Ancestors
<1>3. \A S \in SUBSET Ids : i \in S /\ Up(S) => Ancestors(i) \subseteq S
  BY DEF Ancestors
<1>4. \A a \in Ancestors(i) : a \in Placed /\ a <= i
  <2> DEFINE S == {j \in Placed : j <= i}
  <2>1. S \in SUBSET Ids /\ i \in S
    <3>1. i \in Int /\ i <= i
      BY <1>1
    <3> QED
      BY <1>1, <3>1
  <2>2. Up(S)
    <3> SUFFICES ASSUME NEW j \in S, parentOf[j] # NoDoc PROVE parentOf[j] \in S
      OBVIOUS
    <3>1. j \in Int /\ j <= i /\ i \in Int /\ parentOf[j] \in Placed /\ parentOf[j] \in Int /\ parentOf[j] < j
      BY <1>1
    <3> QED
      BY <3>1
  <2> QED
    BY <1>3, <2>1, <2>2
<1>5. ASSUME p = NoDoc PROVE Ancestors(i) = {i}
  <2>1. Up({i}) /\ {i} \in SUBSET Ids
    BY <1>1, <1>5
  <2> QED
    BY <1>2, <1>3, <2>1
<1>6. ASSUME p # NoDoc PROVE p \in Placed /\ Ancestors(i) = {i} \cup Ancestors(p)
  <2>1. p \in Placed /\ p \in Ids
    BY <1>1, <1>6
  <2> HIDE DEF p
  <2>2. /\ p \in Ancestors(p) /\ Ancestors(p) \in SUBSET Ids
        /\ \A S \in SUBSET Ids : p \in S /\ Up(S) => Ancestors(p) \subseteq S
    BY <2>1 DEF Ancestors
  <2>3. ASSUME NEW j \in Ancestors(p) PROVE parentOf[j] \in Ancestors(p) \cup {NoDoc}
    <3>1. ASSUME parentOf[j] # NoDoc PROVE parentOf[j] \in Ids
      <4>1. parentOf[j] \in Links
        BY <2>2, <2>3 DEF TreeInv, LinksTellAges
      <4> QED
        BY <3>1, <4>1 DEF Links
    <3>2. ASSUME NEW S \in SUBSET Ids, p \in S, Up(S) PROVE parentOf[j] \in S \cup {NoDoc}
      BY <2>2, <2>3, <3>2
    <3> QED
      BY <3>1, <3>2 DEF Ancestors
  <2>4. Ancestors(i) \subseteq {i} \cup Ancestors(p)
    <3> DEFINE S == {i} \cup Ancestors(p)
    <3>1. S \in SUBSET Ids /\ i \in S
      BY <1>1, <2>2
    <3>2. Up(S)
      BY <2>2, <2>3 DEF p
    <3> HIDE DEF S, Up
    <3>3. Ancestors(i) \subseteq S
      BY <1>3, <3>1, <3>2
    <3> QED
      BY <3>3 DEF S
  <2>5. Ancestors(p) \subseteq Ancestors(i)
    <3>1. ASSUME NEW S \in SUBSET Ids, i \in S, Up(S) PROVE Ancestors(p) \subseteq S
      <4>1. p \in S
        BY <1>6, <3>1 DEF p
      <4> QED
        BY <2>2, <3>1, <4>1
    <3> QED
      BY <2>2, <3>1 DEF Ancestors
  <2> QED
    BY <1>2, <2>1, <2>4, <2>5
<1> QED
  BY <1>2, <1>4, <1>5, <1>6

(* A document with a place is in use or removed, and younger than its      *)
(* parent.                                                                 *)
LEMMA PlacedAre ==
    ASSUME TreeInv, OneOldestRoot
    PROVE  /\ \A y \in Live : y \in Placed /\ y \in Nat
           /\ \A y \in Placed : y \in Int /\ parentOf[y] \in Int /\ parentOf[y] < y
           /\ \A y \in Placed : y \in Live \/ inode[y].status = REMOVE
<1>1. \A y \in Live : y \in Placed /\ y \in Nat
  BY DocFileAssumption DEF Live, Placed, Ids
<1>2. \A y \in Placed : y \in Int /\ parentOf[y] \in Int /\ parentOf[y] < y
  BY DocFileAssumption DEF TreeInv, LinksTellAges, OneOldestRoot, Placed, Links, Ids, NoDoc
<1>3. \A y \in Placed : y \in Live \/ inode[y].status = REMOVE
  BY DocFileAssumption DEF TreeInv, IInv, TypeOK, Inodes, Live, Placed
<1> QED
  BY <1>1, <1>2, <1>3

(* What a walk comes to is below the document it begins with.              *)
LEMMA ReachedIsBelow ==
    ASSUME TreeInv, OneOldestRoot, NEW i \in Live
    PROVE  Reached(i) \subseteq Below(i)
<1>1. Live \subseteq Placed /\ NoDoc \notin Live
  BY DocFileAssumption DEF Live, Placed, Ids, NoDoc
<1>2. i \in Below(i) /\ Below(i) \in SUBSET Live
  BY <1>1, AncestorsIs DEF Below
<1>3. ASSUME NEW j \in Below(i), NEW k \in Reachable(j) PROVE k \in Below(i)
  <2>1. j \in Live /\ i \in Ancestors(j) /\ k \in Live /\ parentOf[k] = j
    BY <1>3 DEF Below, Reachable
  <2>2. Ancestors(k) = {k} \cup Ancestors(j)
    BY <1>1, <2>1, AncestorsIs
  <2> QED
    BY <2>1, <2>2 DEF Below
<1> QED
  BY <1>2, <1>3, ReachedIs

(* Of what is below the start, or below an older brother of it, a walk     *)
(* leaves out only what stands behind a removed document.                  *)
LEMMA BelowIsReached ==
    ASSUME TreeInv, OneOldestRoot, NEW start \in Live, NEW i \in Live,
           parentOf[i] = parentOf[start], i <= start,
           NEW x \in Below(i), ~BehindRemoved(x, start)
    PROVE  x \in Reached(i)
<1> DEFINE Missed == {y \in Below(i) : ~BehindRemoved(y, start) /\ y \notin Reached(i)}
<1>1. /\ \A y \in Live : y \in Placed /\ y \in Nat
      /\ \A y \in Placed : y \in Int /\ parentOf[y] \in Int /\ parentOf[y] < y
      /\ \A y \in Placed : y \in Live \/ inode[y].status = REMOVE
  BY PlacedAre
<1>2. Below(i) \subseteq Live
  BY DEF Below
<1> SUFFICES ASSUME Missed # {} PROVE FALSE
  OBVIOUS
<1>3. PICK k \in Missed : \A y \in Missed : k <= y
  <2>1. Missed \subseteq Nat
    BY <1>1, <1>2
  <2> QED
    BY <2>1, LeastElement
<1>4. /\ k \in Live /\ k \in Placed /\ i \in Ancestors(k) /\ ~BehindRemoved(k, start)
      /\ k \notin Reached(i)
  BY <1>1, <1>3 DEF Below
<1> DEFINE p == parentOf[k]
           top == parentOf[start]
<1>5. /\ p # NoDoc /\ p \in Placed /\ Ancestors(k) = {k} \cup Ancestors(p) /\ i \in Ancestors(p)
      /\ i <= p /\ p < k
  <2>1. k # i
    BY <1>4, ReachedIs
  <2>2. p # NoDoc
    BY <1>4, <2>1, AncestorsIs
  <2>3. p \in Placed /\ Ancestors(k) = {k} \cup Ancestors(p)
    BY <1>4, <2>2, AncestorsIs
  <2>4. i \in Ancestors(p)
    BY <1>4, <2>1, <2>3
  <2>5. i <= p
    BY <2>3, <2>4, AncestorsIs
  <2> QED
    BY <1>1, <1>4, <2>2, <2>3, <2>4, <2>5
<1>6. top \in Int /\ top < i /\ start \in Int /\ i \in Int
  BY <1>1
(* What is below i and above the start is the start.                       *)
<1>7. ASSUME NEW a \in Ancestors(start), i <= a PROVE a = start
  <2>1. a \in Int
    BY <1>1, AncestorsIs
  <2>2. ASSUME a # start PROVE FALSE
    <3>1. top # NoDoc
      BY <1>1, <1>7, <2>2, AncestorsIs
    <3>2. top \in Placed /\ a \in Ancestors(top)
      BY <1>1, <1>7, <2>2, <3>1, AncestorsIs
    <3>3. a <= top
      BY <3>2, AncestorsIs
    <3> QED
      BY <1>6, <1>7, <2>1, <3>3
  <2> QED
    BY <2>2
<1>8. /\ k \in Int /\ p \in Int /\ k \in Ancestors(k) /\ p \in Ancestors(k) /\ p # top /\ i <= k
  <2>1. k \in Int /\ p \in Int
    BY <1>1, <1>4
  <2>2. k \in Ancestors(k) /\ p \in Ancestors(k)
    BY <1>4, <1>5, AncestorsIs
  <2> QED
    BY <1>5, <1>6, <2>1, <2>2
<1>9. k \notin Ancestors(start)
  <2> SUFFICES ASSUME k \in Ancestors(start) PROVE FALSE
    OBVIOUS
  <2>1. k = start
    BY <1>7, <1>8
  <2> QED
    BY <1>8, <2>1
<1>10. p \in Live
  <2> SUFFICES ASSUME p \notin Live PROVE FALSE
    OBVIOUS
  <2>1. inode[p].status = REMOVE
    BY <1>1, <1>5
  <2>2. p \notin Ancestors(start)
    BY <1>5, <1>7
  <2>3. parentOf[p] # top
    <3> SUFFICES ASSUME parentOf[p] = top PROVE FALSE
      OBVIOUS
    <3>1. p # i
      OBVIOUS
    <3>2. parentOf[p] # NoDoc /\ i \in Ancestors(parentOf[p]) /\ parentOf[p] \in Placed
      BY <1>5, <3>1, AncestorsIs
    <3>3. i <= parentOf[p]
      BY <3>2, AncestorsIs
    <3> QED
      BY <1>6, <3>3
  <2> HIDE DEF p, top
  <2>4. BehindRemoved(k, start)
    BY <1>5, <1>8, <2>1, <2>2, <2>3 DEF BehindRemoved, top
  <2> QED
    BY <1>4, <2>4
<1>11. p \in Reached(i)
  <2>1. p \in Below(i)
    BY <1>5, <1>10 DEF Below
  <2>2. ~BehindRemoved(p, start)
    BY <1>4, <1>5 DEF BehindRemoved
  <2> HIDE DEF p
  <2>3. p \notin Missed
    BY <1>3, <1>5, <1>8
  <2> QED
    BY <2>1, <2>2, <2>3
<1>12. ~Hidden(k)
  <2> SUFFICES ASSUME NEW j \in Placed, j > k, parentOf[j] = p, inode[j].status = REMOVE
               PROVE  FALSE
    BY DEF Hidden
  <2>1. k <= j /\ parentOf[k] = p
    BY <1>1, <1>8
  <2> HIDE DEF p, top
  <2>2. BehindRemoved(k, start)
    BY <1>8, <1>9, <2>1 DEF BehindRemoved, top
  <2> QED
    BY <1>4, <2>2
<1>13. k \in Reachable(p)
  BY <1>4, <1>12 DEF Reachable
<1> QED
  BY <1>4, <1>11, <1>13, ReachedIs

(* An older brother of the start that a walk to the brothers does not come *)
(* to stands behind a removed document, with all that is below it.         *)
LEMMA BesideIsVisited ==
    ASSUME TreeInv, OneOldestRoot, NEW start \in Live, NEW i \in Placed,
           parentOf[i] = parentOf[start], i < start,
           NEW x \in Below(i), ~BehindRemoved(x, start)
    PROVE  i \in Row(start)
<1>1. /\ \A y \in Live : y \in Placed
      /\ \A y \in Placed : y \in Int /\ parentOf[y] \in Int /\ parentOf[y] < y
      /\ \A y \in Placed : y \in Live \/ inode[y].status = REMOVE
  BY PlacedAre
<1>2. i \in Ancestors(x)
  BY DEF Below
<1>3. i \notin Ancestors(start)
  <2> SUFFICES ASSUME i \in Ancestors(start) PROVE FALSE
    OBVIOUS
  <2>1. i # start
    BY <1>1
  <2>2. parentOf[start] # NoDoc
    BY <1>1, <2>1, AncestorsIs
  <2>3. parentOf[start] \in Placed /\ i \in Ancestors(parentOf[start])
    BY <1>1, <2>1, <2>2, AncestorsIs
  <2>4. i <= parentOf[start]
    BY <2>3, AncestorsIs
  <2> QED
    BY <1>1, <2>4
<1>4. ASSUME NEW k \in Placed, i <= k, k < start, parentOf[k] = parentOf[i]
      PROVE  inode[k].status # REMOVE
  BY <1>2, <1>3, <1>4 DEF BehindRemoved
<1>5. i \in Live
  <2>1. i <= i
    BY <1>1
  <2> QED
    BY <1>1, <1>4, <2>1
<1>6. i \in Older(start)
  BY <1>5 DEF Older
<1>7. ASSUME NEW k \in Placed, i < k, k < start, parentOf[k] = parentOf[i]
      PROVE  inode[k].status # REMOVE
  <2>1. i <= k
    BY <1>1, <1>7
  <2> QED
    BY <1>4, <1>7, <2>1
<1> QED
  BY <1>6, <1>7 DEF Row

-----------------------------------------------------------------------------
(* What the walk of q visits that begins with i.                           *)
AreaOf(q, i) ==
    IF i \notin Live THEN {}
    ELSE IF q.type = "DELETE" THEN {i}
    ELSE IF q.type # "PRINT" THEN Reached(i)
    ELSE Visits(i)

Matching(q, S) ==
    {i \in S : /\ Satisfies(elements[i], q.condition)
               /\ q.type = "UPDATE" => Updatable(elements[i], q.update)}

LEMMA ExpectedType ==
    ASSUME NEW q, NEW start
    PROVE  Expected(q, start) \in [named : BOOLEAN, documents : SUBSET Ids, passedOver : SUBSET Ids]
<1>1. Live \subseteq Ids
  BY DEF Live
<1>2. \A targets : Asked(q, targets) \subseteq Ids
  <2> SUFFICES ASSUME NEW targets PROVE Asked(q, targets) \subseteq Ids
    OBVIOUS
  <2> DEFINE area == UNION {Below(i) : i \in targets \cup UNION {Beside(q, i) : i \in targets}}
  <2>1. area \subseteq Ids
    BY <1>1 DEF Below
  <2> HIDE DEF area
  <2>2. /\ {i \in area : /\ Satisfies(elements[i], q.condition)
                         /\ q.type = "UPDATE" => Updatable(elements[i], q.update)} \subseteq Ids
    BY <2>1
  <2> QED
    BY <2>2 DEF Asked, area
<1>3. PassedOver(q, start) \subseteq Ids
  BY <1>1 DEF PassedOver
<1> QED
  BY <1>2, <1>3 DEF Expected

(* What a query asks for whose start it names.                             *)
LEMMA AskedIs ==
    ASSUME NEW q, NEW start
    PROVE  /\ q.type = "DELETE" =>
                 Asked(q, {start}) = {i \in Matching(q, Below(start)) :
                                         Matching(q, Below(start)) \cap Ancestors(i) = {i}}
           /\ q.type \notin {"DELETE", "PRINT"} => Asked(q, {start}) = Matching(q, Below(start))
           /\ q.type = "PRINT" =>
                 Asked(q, {start}) =
                    Matching(q, UNION {Below(i) : i \in {start} \cup Beside(q, start)})
<1> DEFINE tops == {start} \cup UNION {Beside(q, i) : i \in {start}}
           area == UNION {Below(i) : i \in tops}
<1>1. tops = {start} \cup Beside(q, start)
  OBVIOUS
<1>2. q.type # "PRINT" => area = Below(start)
  <2>1. q.type # "PRINT" => tops = {start}
    BY <1>1 DEF Beside
  <2> HIDE DEF tops
  <2> QED
    BY <2>1
<1>3. q.type = "DELETE" => Asked(q, {start}) = {i \in Matching(q, area) :
                                                   Matching(q, area) \cap Ancestors(i) = {i}}
  BY DEF Asked, Matching
<1>4. q.type # "DELETE" => Asked(q, {start}) = Matching(q, area)
  BY DEF Asked, Matching
<1> HIDE DEF area, tops
<1>5. q.type = "PRINT" => area = UNION {Below(i) : i \in {start} \cup Beside(q, start)}
  BY <1>1 DEF area
<1> QED
  BY <1>2, <1>3, <1>4, <1>5

(* What a walk that begins with the document named would add is asked for, *)
(* and all that is asked for is added or passed over.                      *)
LEMMA AreaHonours ==
    ASSUME TreeInv, OneOldestRoot, NEW q \in Queries, NEW start, Expected(q, start).named
    PROVE  /\ AreaOf(q, start) \cap Matching(q, Ids) \subseteq Expected(q, start).documents
           /\ Expected(q, start).documents \subseteq
                 (AreaOf(q, start) \cap Matching(q, Ids)) \cup Expected(q, start).passedOver
<1>0. CASE start \notin Live
  <2>1. Bearers(q.name) = {}
    BY <1>0 DEF Expected, Bearers
  <2>2. Expected(q, start).documents = Asked(q, {})
    BY <2>1 DEF Expected
  <2>3. Asked(q, {}) = {}
    BY DEF Asked
  <2> QED
    BY <1>0, <2>2, <2>3 DEF AreaOf
<1> SUFFICES ASSUME start \in Live
             PROVE  /\ AreaOf(q, start) \cap Matching(q, Ids) \subseteq Expected(q, start).documents
                    /\ Expected(q, start).documents \subseteq
                          (AreaOf(q, start) \cap Matching(q, Ids)) \cup Expected(q, start).passedOver
  BY <1>0
<1>1. /\ start \in Bearers(q.name)
      /\ Expected(q, start).documents = Asked(q, {start})
      /\ Expected(q, start).passedOver = PassedOver(q, start)
  BY DEF Expected
<1>2. start \in Live /\ start \in Placed /\ Live \subseteq Ids
  BY DocFileAssumption DEF Live, Placed
<1>3. /\ start \in Int /\ start <= start /\ start \in Ancestors(start)
      /\ \A j \in Live : Below(j) \subseteq Live
      /\ start \in Below(start)
  BY <1>2, AncestorsIs, DocFileAssumption DEF Ids, Below
<1>4. CASE q.type = "DELETE"
  <2> DEFINE M == Matching(q, Below(start))
  <2>1. Asked(q, {start}) = {i \in M : M \cap Ancestors(i) = {i}}
    BY <1>4, AskedIs
  <2>2. AreaOf(q, start) = {start}
    BY <1>2, <1>4 DEF AreaOf
  <2>3. start \in M <=> start \in Matching(q, Ids)
    BY <1>2, <1>3 DEF Matching
  <2>4. ASSUME NEW j \in Below(start), j \in Ancestors(start) PROVE j = start
    <3>1. j \in Placed /\ start \in Ancestors(j) /\ j <= start /\ j \in Int
      BY <1>2, <2>4, AncestorsIs, DocFileAssumption DEF Below, Placed, Ids
    <3>2. start <= j
      BY <3>1, AncestorsIs
    <3> QED
      BY <1>3, <3>1, <3>2
  <2>5. start \in M => M \cap Ancestors(start) = {start}
    BY <1>3, <2>4 DEF Matching
  <2>6. M \subseteq Ids
    BY <1>2, <1>3 DEF Matching
  <2> HIDE DEF M
  <2>7. PassedOver(q, start) = Ids \ {start}
    BY <1>4 DEF PassedOver
  <2>8. AreaOf(q, start) \cap Matching(q, Ids) \subseteq Expected(q, start).documents
    BY <1>1, <2>1, <2>2, <2>3, <2>5
  <2>9. ASSUME NEW x \in Expected(q, start).documents
        PROVE  x \in (AreaOf(q, start) \cap Matching(q, Ids)) \cup Expected(q, start).passedOver
    <3>1. x \in M
      BY <1>1, <2>1, <2>9
    <3>2. CASE x = start
      BY <2>2, <2>3, <3>1, <3>2
    <3>3. CASE x # start
      BY <1>1, <2>6, <2>7, <3>1, <3>3
    <3> QED
      BY <3>2, <3>3
  <2> QED
    BY <2>8, <2>9
<1>5. CASE q.type # "DELETE"
  <2> DEFINE Wide == IF q.type = "PRINT" THEN UNION {Below(i) : i \in {start} \cup Beside(q, start)}
                     ELSE Below(start)
  <2>1. Asked(q, {start}) = Matching(q, Wide)
    BY <1>5, AskedIs
  <2>2. PassedOver(q, start) = {i \in Live : BehindRemoved(i, start)}
    BY <1>5 DEF PassedOver
  <2>3. AreaOf(q, start) \subseteq Wide
    <3>1. \A j \in Live : Reached(j) \subseteq Below(j)
      BY ReachedIsBelow
    <3>2. Row(start) \subseteq {start} \cup {j \in Live : j < start /\ parentOf[j] = parentOf[start]}
      BY DEF Row, Older
    <3>3. CASE q.type = "PRINT"
      <4>1. \A j \in Row(start) : j \in Live /\ j \in {start} \cup Beside(q, start)
        BY <1>2, <3>2, <3>3, DocFileAssumption DEF Beside, Live, Placed
      <4>2. AreaOf(q, start) = UNION {Reached(j) : j \in Row(start)}
        BY <1>2, <1>5, <3>3 DEF AreaOf, Visits
      <4> QED
        BY <3>1, <3>3, <4>1, <4>2
    <3>4. CASE q.type # "PRINT"
      BY <1>2, <1>5, <3>1, <3>4 DEF AreaOf
    <3> QED
      BY <3>3, <3>4
  <2>4. ASSUME NEW x \in Wide, ~BehindRemoved(x, start) PROVE x \in AreaOf(q, start)
    <3>1. CASE x \in Below(start)
      <4>1. x \in Reached(start)
        BY <1>2, <1>3, <2>4, <3>1, BelowIsReached
      <4>2. start \in Row(start)
        BY DEF Row
      <4> QED
        BY <1>2, <1>5, <4>1, <4>2 DEF AreaOf, Visits
    <3>2. CASE x \notin Below(start)
      <4>1. q.type = "PRINT"
        BY <2>4, <3>2
      <4>2. PICK i \in Beside(q, start) : x \in Below(i)
        BY <2>4, <3>2, <4>1
      <4>3. i \in Placed /\ i < start /\ parentOf[i] = parentOf[start]
        BY <4>1, <4>2 DEF Beside
      <4>4. i \in Row(start)
        BY <1>2, <2>4, <4>2, <4>3, BesideIsVisited
      <4>5. i \in Live
        BY <1>2, <4>4 DEF Row, Older
      <4>6. i <= start
        BY <1>3, <4>3, DocFileAssumption DEF Placed, Ids
      <4>7. x \in Reached(i)
        BY <1>2, <2>4, <4>2, <4>3, <4>5, <4>6, BelowIsReached
      <4> QED
        BY <1>2, <1>5, <4>1, <4>4, <4>7 DEF AreaOf, Visits
    <3> QED
      BY <3>1, <3>2
  <2>5. Wide \subseteq Live
    <3>1. \A j : Below(j) \subseteq Live
      BY DEF Below
    <3> QED
      BY <3>1
  <2> HIDE DEF Wide
  <2>6. AreaOf(q, start) \cap Matching(q, Ids) \subseteq Matching(q, Wide)
    BY <2>3 DEF Matching
  <2>7. ASSUME NEW x \in Matching(q, Wide)
        PROVE  x \in (AreaOf(q, start) \cap Matching(q, Ids)) \cup PassedOver(q, start)
    <3>1. x \in Wide /\ x \in Live /\ x \in Matching(q, Ids)
      BY <1>2, <2>5, <2>7 DEF Matching
    <3> QED
      BY <2>2, <2>4, <3>1
  <2> QED
    BY <1>1, <2>1, <2>6, <2>7
<1> QED
  BY <1>4, <1>5

-----------------------------------------------------------------------------
(* When a query begins, its first visit has all to do that the query asks  *)
(* for, but for what the code passes over.                                 *)
LEMMA ExecuteQueryStep ==
    ASSUME EngineInv, NEW q \in Queries, ExecuteQuery(q)
    PROVE  WalkInv'
<1> DEFINE start == StartOf(q.name)
           v == IF start = NoDoc /\ header.root # NoDoc
                THEN [Visit(start) EXCEPT !.at = "lookup"] ELSE Visit(start)
<1>1. /\ Idle /\ walk' = <<v>> /\ expected' = Expected(q, start) /\ query' = q
      /\ hits' = << >> /\ UNCHANGED <<treeVars, found, elements>>
      /\ EngineTypeOK /\ TreeInv /\ OneOldestRoot
  BY DEF ExecuteQuery, Free, EngineInv, WalkInv
<1>2. start \in Links
  BY <1>1, StartIsLink
<1>3. /\ v \in Calls /\ v.id = start /\ v.at \in {"enter", "lookup"}
      /\ v.at = "lookup" => start = NoDoc
      /\ v.at = "enter" /\ start = NoDoc => header.root = NoDoc
  BY <1>2 DEF Visit, Calls, Links
<1> HIDE DEF start, v
<1>4. /\ walk' \in Seq(Calls) /\ Len(walk') = 1 /\ walk' # << >> /\ walk'[1] = v /\ Here' = v
      /\ DOMAIN walk' = {1}
  BY <1>1, <1>3 DEF Here, Last
<1>5. /\ Live' = Live /\ \A i : Visits(i)' = Visits(i) /\ Reached(i)' = Reached(i)
  BY <1>1, LinksKept DEF treeVars
<1>6. Expected(q, start) \in [named : BOOLEAN, documents : SUBSET Ids, passedOver : SUBSET Ids]
  BY ExpectedType
<1>7. EngineTypeOK'
  BY <1>1, <1>4, <1>6, EmptySeq DEF EngineTypeOK, Calls, Known
<1>8. Accounted'
  <2> DEFINE Area(i) == AreaOf(q, i)
  <2>1. Rests' = [k \in 1..1 |-> Area(start)]
    <3>1. \A w, first : first /\ w.at \in {"enter", "lookup"} =>
             RestOf(w, first)' = IF w.at = "enter" THEN Area(w.id) ELSE {}
      <4> SUFFICES ASSUME NEW w, NEW first, first, w.at \in {"enter", "lookup"}
                   PROVE  RestOf(w, first)' = IF w.at = "enter" THEN Area(w.id) ELSE {}
        OBVIOUS
      <4>1. Begins(w, first)' = Area(w.id)
        BY <1>1, <1>5 DEF Begins, AreaOf
      <4> QED
        BY <4>1 DEF RestOf
    <3>2. v.at # "enter" => Area(start) = {}
      BY <1>3, DocFileAssumption DEF AreaOf, Live, Ids, NoDoc
    <3> HIDE DEF Area
    <3>3. \A k \in 1..1 : k = 1
      OBVIOUS
    <3>4. Rests' = [k \in 1..1 |-> IF v.at = "enter" THEN Area(start) ELSE {}]
      BY <1>3, <1>4, <3>1, <3>3 DEF Rests
    <3> QED
      BY <1>3, <3>2, <3>4
  <2> HIDE DEF Area
  <2>2. Wanted' = Matching(q, Ids)
    BY <1>1 DEF Wanted, Matching
  <2>3. PICK E \in SUBSET Ids : E = Area(start) \cap Wanted'
    BY <2>2 DEF Matching
  <2>4. AddedOf(hits') = {} /\ DOMAIN hits' = {}
    BY <1>1 DEF AddedOf
  <2>5. ToVisitOf(Rests') = Area(start) /\ DOMAIN Rests' = {1}
    BY <2>1 DEF ToVisitOf
  <2>6. Accounts(E, hits', Rests', Wanted')
    BY <1>1, <2>3, <2>4, <2>5 DEF Accounts
  <2>7. Honours(E)'
    BY <1>1, <2>2, <2>3, AreaHonours DEF Honours, Area
  <2> QED
    BY <2>3, <2>6, <2>7 DEF Accounted
<1>9. WalkFollows'
  BY <1>1, <1>3, <1>4 DEF WalkFollows, Follows, treeVars
<1>10. NoneFound'
  BY <1>3, <1>4 DEF NoneFound
<1>11. DeletesStartOnly'
  BY <1>1, <1>3, <1>4 DEF DeletesStartOnly, Idle, treeVars
<1> QED
  BY <1>7, <1>8, <1>9, <1>10, <1>11 DEF WalkInv

(* An insertion comes between two queries: nothing is left to be visited.  *)
LEMMA InsertStep ==
    ASSUME EngineInv, Free, Idle', UNCHANGED <<query, walk, found, hits, expected>>,
           elements' \in [Ids -> Seq(Known)]
    PROVE  WalkInv'
<1>1. /\ EngineTypeOK /\ Accounted /\ walk = << >> /\ walk' = << >> /\ Idle'
  BY DEF EngineInv, WalkInv, Free
<1>2. EngineTypeOK'
  BY <1>1 DEF EngineTypeOK, Calls, Known
<1>3. Accounted'
  <2>1. DOMAIN Rests = {} /\ DOMAIN Rests' = {}
    BY <1>1 DEF Rests
  <2>2. ToVisitOf(Rests) = {} /\ ToVisitOf(Rests') = {}
    BY <2>1 DEF ToVisitOf
  <2>3. PICK E \in SUBSET Ids : Accounts(E, hits, Rests, Wanted) /\ Honours(E)
    BY <1>1 DEF Accounted
  <2>4. Accounts(E, hits, Rests', Wanted')
    BY <2>1, <2>2, <2>3 DEF Accounts
  <2> QED
    BY <2>3, <2>4 DEF Accounted, Honours
<1>4. WalkFollows'
  BY <1>1 DEF WalkFollows
<1>5. NoneFound' /\ DeletesStartOnly'
  BY <1>1 DEF NoneFound, DeletesStartOnly
<1> QED
  BY <1>2, <1>3, <1>4, <1>5 DEF WalkInv

(* A new document is younger than all others, and the first one is the     *)
(* root.                                                                   *)
LEMMA RootStaysOldest ==
    ASSUME TreeInv, OneOldestRoot, NEW parent \in Links, NEW d \in Documents,
           InsertInNewPlace(parent, d), parent = NoDoc => header.root = NoDoc
    PROVE  OneOldestRoot'
<1>1. IInv /\ LinksTellAges /\ HandedOutInOrder /\ InsertAtEnd(parent, d)
  BY DEF TreeInv, InsertInNewPlace
<1>2. PICK id \in Ids, pos \in Nat :
         id = Last(list).index /\ Stores(id, pos, parent, d) /\ inode[id].status = OPEN
  BY <1>1, EndStores
<1>3. /\ id \notin Placed
      /\ parent # NoDoc => parent \in Placed
      /\ inode'[id].status = CLOSE
      /\ \A i \in Ids \ {id} : inode'[i] = inode[i]
  BY <1>1, <1>2, Basics DEF Stores, AcceptsParent, Status, Placed, Links
<1>4. Placed' = Placed \cup {id}
  BY <1>1, <1>2, <1>3, Basics DEF Placed
<1>5. parentOf' = [i \in Ids |-> IF i = id THEN parent ELSE parentOf[i]]
  <2>1. \A i \in Ids : Appears(i) <=> i = id
    BY <1>2, <1>3 DEF Appears, Stores
  <2> QED
    BY <2>1 DEF InsertInNewPlace, InsertedUnder
<1>6. header'.root # NoDoc
  <2>1. header \in Headers /\ id # NoDoc
    BY <1>1, Basics DEF IInv, TypeOK
  <2> QED
    BY <1>1, <1>2, <2>1 DEF InsertAtEnd, PlaceAtEnd, WithRoot, Headers
<1>7. \A i \in Placed : i < id
  BY <1>1, <1>2, <1>3 DEF HandedOutInOrder
<1>8. parent < id
  BY <1>2, <1>3, <1>7, DocFileAssumption DEF Ids, NoDoc
<1>9. parent = NoDoc => Placed = {}
  BY DEF OneOldestRoot
<1>10. \A i \in Placed' : parentOf'[i] < i
  BY <1>2, <1>3, <1>4, <1>5, <1>8 DEF OneOldestRoot, Placed
<1>11. \A i, j \in Placed' : parentOf'[i] = NoDoc /\ parentOf'[j] = NoDoc => i = j
  BY <1>2, <1>3, <1>4, <1>5, <1>9 DEF OneOldestRoot, Placed
<1> QED
  BY <1>6, <1>10, <1>11 DEF OneOldestRoot

-----------------------------------------------------------------------------
(* What a query does to the file is an operation of the tree.              *)
LEMMA QueriesWorkOnTheTree ==
    ASSUME TreeInv, [QueryNextNoReuse]_queryVars
    PROVE  [TreeNext]_treeVars
<1>1. CASE QueryStart
  BY <1>1 DEF QueryStart, ExecuteQuery
<1>2. CASE InsertNew
  <2>1. PICK name \in Names, d \in Documents : InsertInNewPlace(StartOf(name), d)
    BY <1>2 DEF InsertNew
  <2>2. StartOf(name) \in Links
    BY StartIsLink
  <2> QED
    BY <2>1, <2>2 DEF TreeNext
<1>3. CASE DeleteHit
  <2>1. DeleteTree(Here.id) /\ Here.id \in Ids
    BY <1>3, DocFileAssumption DEF DeleteHit, Status
  <2> QED
    BY <2>1 DEF TreeNext
<1>4. CASE Deleting
  BY <1>4 DEF Deleting, TreeNext
<1>5. CASE \/ PrintFromRoot \/ VisitRejected \/ PassBy \/ SelectHit \/ UpdateHit \/ DeleteDone
           \/ GoDown \/ ChildVisited \/ GoToBrother \/ BrotherVisited \/ UNCHANGED queryVars
  BY <1>5 DEF PrintFromRoot, VisitRejected, PassBy, SelectHit, UpdateHit, DeleteDone, GoDown, ChildVisited,
              GoToBrother, BrotherVisited, queryVars
<1> QED
  BY <1>1, <1>2, <1>3, <1>4, <1>5 DEF QueryNextNoReuse, WalkStep

(* One step of the engine. *)
LEMMA EngineStepInvariant ==
    ASSUME EngineInv, [QueryNextNoReuse]_queryVars
    PROVE  EngineInv'
<1>1. TreeInv /\ OneOldestRoot /\ WalkInv
  BY DEF EngineInv
<1>2. TreeInv'
  BY <1>1, QueriesWorkOnTheTree, TreeStepInvariant
<1>3. ASSUME UNCHANGED <<header, parentOf>>, Placed' = Placed
      PROVE  OneOldestRoot'
  BY <1>1, <1>3 DEF OneOldestRoot
<1>4. ASSUME UNCHANGED treeVars
      PROVE  OneOldestRoot'
  <2>1. UNCHANGED <<header, inode, disk, parentOf>>
    BY <1>4 DEF treeVars
  <2> QED
    BY <1>3, <2>1, LinksKept
<1>5. CASE QueryStart
  <2>1. PICK q \in Queries : ExecuteQuery(q)
    BY <1>5 DEF QueryStart
  <2>2. WalkInv'
    BY <2>1, ExecuteQueryStep
  <2> QED
    BY <1>2, <1>4, <2>1, <2>2 DEF ExecuteQuery, EngineInv
<1>6. CASE InsertNew
  <2>1. PICK name \in Names, c \in InsertConditions, d \in Documents :
           InsertInNewPlace(StartOf(name), d) /\ InsertQuery(name, c, d)
    BY <1>6 DEF InsertNew
  <2>2. StartOf(name) = NoDoc => header.root = NoDoc
    BY <2>1 DEF InsertQuery, AcceptsInsert
  <2>3. OneOldestRoot'
    BY <1>1, <2>1, <2>2, StartIsLink, RootStaysOldest
  <2>4. /\ Free /\ Idle' /\ UNCHANGED <<query, walk, found, hits, expected>>
        /\ elements' \in [Ids -> Seq(Known)]
    <3>1. /\ elements \in [Ids -> Seq(Known)] /\ ContentOf[d] \in Seq(Known)
          /\ elements' = [i \in Ids |-> IF Appears(i) THEN ContentOf[d] ELSE elements[i]]
      BY <1>1, <2>1, QueryEngineAssumption DEF WalkInv, EngineTypeOK, InsertQuery
    <3>2. elements' \in [Ids -> Seq(Known)]
      BY <3>1
    <3> QED
      BY <1>6, <2>1, <3>2
         DEF InsertNew, InsertQuery, Free, InsertInNewPlace, InsertAtEnd, PlaceAtEnd, Idle
  <2>5. WalkInv'
    BY <2>4, InsertStep
  <2> QED
    BY <1>2, <2>3, <2>5 DEF EngineInv
<1>7. CASE DeleteHit
  <2>1. UNCHANGED <<header, inode, disk, parentOf>>
    BY <1>7 DEF DeleteHit, DeleteTree, DeleteDocument
  <2> QED
    BY <1>2, <1>3, <1>7, <2>1, LinksKept, DeleteHitStep DEF EngineInv
<1>8. CASE Deleting
  <2>1. /\ UNCHANGED <<header, parentOf>>
        /\ FreeDocument \/ UNCHANGED inode
    BY <1>8 DEF Deleting, DeleteTreeStep, DeleteStep, DeleteRejected, DeleteChild, RetryChild, GiveUp,
                FreeDocument, Call
  <2>2. Placed' = Placed
    <3>1. CASE FreeDocument
      <4>1. /\ Top.id \in Ids /\ inode[Top.id].status = CLOSE
            /\ inode'[Top.id].status = REMOVE
            /\ \A i \in Ids \ {Top.id} : inode'[i] = inode[i]
        BY <1>1, <3>1, FreesOne DEF TreeInv
      <4> QED
        BY <4>1, DocFileAssumption DEF Placed
    <3>2. CASE UNCHANGED inode
      BY <3>2 DEF Placed
    <3> QED
      BY <2>1, <3>1, <3>2
  <2> QED
    BY <1>2, <1>3, <1>8, <2>1, <2>2, DeletingStep DEF EngineInv
<1>9. CASE \/ PrintFromRoot \/ VisitRejected \/ PassBy \/ SelectHit \/ UpdateHit \/ DeleteDone
           \/ GoDown \/ ChildVisited \/ GoToBrother \/ BrotherVisited
  <2>1. UNCHANGED treeVars
    BY <1>9 DEF PrintFromRoot, VisitRejected, PassBy, SelectHit, UpdateHit, DeleteDone, GoDown, ChildVisited,
                GoToBrother, BrotherVisited
  <2>2. WalkInv'
    BY <1>9, PrintFromRootStep, VisitRejectedStep, PassByStep, SelectHitStep, UpdateHitStep,
       DeleteDoneStep, GoDownStep, ChildVisitedStep, GoToBrotherStep, BrotherVisitedStep
  <2> QED
    BY <1>2, <1>4, <2>1, <2>2 DEF EngineInv
<1>10. CASE UNCHANGED queryVars
  <2>1. /\ UNCHANGED treeVars /\ UNCHANGED <<query, walk, found, hits, elements, expected>>
        /\ UNCHANGED <<header, inode, disk, parentOf, query, stack, result>>
    BY <1>10 DEF queryVars, engineVars, treeVars
  <2>2. EngineTypeOK'
    BY <1>1, <2>1 DEF WalkInv, EngineTypeOK, Calls, Known
  <2>3. Accounted'
    <3>1. Rests' = [k \in 1..Len(walk) |-> RestOf(walk[k], k = 1)]
      BY <2>1, RestsAfter DEF Rests
    <3>2. PICK E \in SUBSET Ids : Accounts(E, hits, Rests, Wanted) /\ Honours(E)
      BY <1>1 DEF WalkInv, Accounted
    <3>3. Rests' = Rests /\ Wanted' = Wanted /\ Honours(E)'
      BY <2>1, <3>1, <3>2 DEF Rests, Wanted, Honours
    <3> QED
      BY <2>1, <3>2, <3>3 DEF Accounted
  <2>4. WalkFollows'
    BY <1>1, <2>1, FollowsAfter DEF WalkInv, WalkFollows
  <2>5. NoneFound' /\ DeletesStartOnly'
    BY <1>1, <2>1 DEF WalkInv, NoneFound, DeletesStartOnly, Here, Last, Idle, Status
  <2> QED
    BY <1>2, <1>4, <2>1, <2>2, <2>3, <2>4, <2>5 DEF EngineInv, WalkInv
<1> QED
  BY <1>5, <1>6, <1>7, <1>8, <1>9, <1>10 DEF QueryNextNoReuse, WalkStep

(* Before the first query there is no document and nothing to visit.       *)
LEMMA EngineInitInvariant ==
    ASSUME EngineInit
    PROVE  EngineInv
<1>1. /\ TreeInit /\ query = NoQuery /\ walk = << >> /\ found = FALSE /\ hits = << >>
      /\ elements = [i \in Ids |-> << >>]
      /\ expected = [named |-> FALSE, documents |-> {}, passedOver |-> {}]
  BY DEF EngineInit
<1>2. TreeInv
  BY <1>1, TreeInitInvariant
<1>3. OneOldestRoot
  <2>1. Placed = {}
    BY <1>1, DocFileAssumption DEF TreeInit, Init, Placed
  <2> QED
    BY <2>1 DEF OneOldestRoot
<1>4. EngineTypeOK
  BY <1>1, EmptySeq DEF EngineTypeOK
<1>5. Accounted
  <2>1. AddedOf(hits) = {} /\ ToVisitOf(Rests) = {} /\ DOMAIN Rests = {} /\ DOMAIN hits = {}
    BY <1>1 DEF AddedOf, ToVisitOf, Rests
  <2> QED
    BY <1>1, <2>1 DEF Accounted, Accounts, Honours
<1>6. WalkFollows /\ NoneFound
  BY <1>1 DEF WalkFollows, NoneFound
<1>7. DeletesStartOnly
  BY <1>1 DEF DeletesStartOnly, TreeInit, Init, Idle
<1> QED
  BY <1>2, <1>3, <1>4, <1>5, <1>6, <1>7 DEF EngineInv, WalkInv

(* In every state of every query, what has been added and what is still to *)
(* be visited are together what the query asks for, but for what the code  *)
(* passes over.                                                            *)
THEOREM EngineInvariance == QuerySpecNoReuse => []EngineInv
<1>1. EngineInit => EngineInv
  BY EngineInitInvariant
<1>2. EngineInv /\ [QueryNextNoReuse]_queryVars => EngineInv'
  BY EngineStepInvariant
<1> QED
  BY <1>1, <1>2, PTL DEF QuerySpecNoReuse

(* The variables of the engine keep their types, whatever links the walk   *)
(* of treeQueryExecute follows.                                            *)
THEOREM EngineTypeCorrect == QuerySpecNoReuse => []EngineTypeOK
<1>1. EngineInv => EngineTypeOK
  BY DEF EngineInv, WalkInv
<1> QED
  BY <1>1, EngineInvariance, PTL

(* Queries implement the operations of the tree: all that query.c does to  *)
(* the file it does by insertDocument and deleteDocument.                  *)
THEOREM QueriesKeepTheTree == QuerySpecNoReuse => TreeSpec
<1>1. EngineInit => TreeInit
  BY DEF EngineInit
<1>2. EngineInv /\ [QueryNextNoReuse]_queryVars => [TreeNext]_treeVars
  BY QueriesWorkOnTheTree DEF EngineInv
<1> QED
  BY <1>1, <1>2, EngineInvariance, PTL DEF QuerySpecNoReuse, TreeSpec

(* During queries too the links under a document lead to exactly what was  *)
(* inserted under it, removed or not: an insertion between two queries     *)
(* (insertExecute) links it right, and no step of treeQueryExecute         *)
(* disturbs a link.                                                        *)
THEOREM QueriesKeepTheLinks == QuerySpecNoReuse => []SiblingsExact
BY QueriesKeepTheTree, LinksHoldTheTree, PTL

(* A DELETE frees only documents in the tree below the one it found.       *)
THEOREM QueriesDeleteBelow == QuerySpecNoReuse => []DeletesBelowTarget
BY QueriesKeepTheTree, DeletionStaysBelow, PTL

(* A query that is done has added no document twice and, if it starts with *)
(* the one it names, none it does not ask for and all it asks for except   *)
(* those that stand behind a removed document (of a DELETE, all but its    *)
(* start): the jumps of treeQueryExecute lose and repeat nothing else.     *)
THEOREM HitsAreExact == QuerySpecNoReuse => []HitsExact
<1>1. ASSUME EngineInv
      PROVE  HitsExact
  <2> SUFFICES ASSUME walk = << >>
               PROVE  /\ \A j, k \in DOMAIN hits : hits[j] = hits[k] => j = k
                      /\ expected.named =>
                            /\ Range(hits) \subseteq expected.documents
                            /\ expected.documents \subseteq Range(hits) \cup expected.passedOver
    BY DEF HitsExact, Free
  <2>1. ToVisitOf(Rests) = {}
    BY DEF ToVisitOf, Rests
  <2>2. PICK E \in SUBSET Ids : Accounts(E, hits, Rests, Wanted) /\ Honours(E)
    BY <1>1 DEF EngineInv, WalkInv, Accounted
  <2>3. E = Range(hits)
    BY <2>1, <2>2 DEF Accounts, AddedOf, Range
  <2> QED
    BY <2>2, <2>3 DEF Accounts, Honours
<1> QED
  BY <1>1, EngineInvariance, PTL

-----------------------------------------------------------------------------
(* The document met in a query that is not a DELETE has still to be        *)
(* visited: if it satisfies the query, the query asks for it.              *)
LEMMA MetIsExpected ==
    ASSUME EngineInv, Enters, Status(Here.id) = CLOSE, query.type # "DELETE", Here.id \in Wanted
    PROVE  expected.named => Here.id \in expected.documents
<1>1. TreeInv /\ OneOldestRoot /\ Accounted /\ walk # << >> /\ Here.at = "enter" /\ Here.id \in Live
  BY DocFileAssumption DEF EngineInv, WalkInv, Enters, Status, Live
<1>2. Here.id \in Visits(Here.id) /\ Here.id \in Reached(Here.id)
  BY <1>1, ReachedIs, VisitsBeside
<1>3. Here.id \in Begins(Here, Len(walk) = 1)
  BY <1>1, <1>2 DEF Begins
<1>4. Here.id \in Rests[Len(walk)] /\ Len(walk) \in DOMAIN Rests
  BY <1>1, <1>3, InTheVisit, WalkFacts DEF RestOf
<1>5. Here.id \in ToVisitOf(Rests)
  BY <1>4 DEF ToVisitOf
<1>6. PICK E \in SUBSET Ids : Accounts(E, hits, Rests, Wanted) /\ Honours(E)
  BY <1>1 DEF Accounted
<1> QED
  BY <1>5, <1>6 DEF Accounts, Honours

(* An UPDATE changes only what it should, whatever the tree and the        *)
(* elements: the places getIndexForDocumentUpdate finds are those of the   *)
(* first elements alike, and no other step writes into a document.         *)
THEOREM UpdatesAreExact == QuerySpecNoReuse => UpdatesExact
<1>1. ASSUME EngineInv, [QueryNextNoReuse]_queryVars
      PROVE  [ChangesAsAsked]_queryVars
  <2>1. CASE UNCHANGED elements
    BY <2>1 DEF ChangesAsAsked
  <2>2. CASE InsertNew
    <3>1. PICK d \in Documents :
             elements' = [i \in Ids |-> IF Appears(i) THEN ContentOf[d] ELSE elements[i]]
      BY <2>2 DEF InsertNew, InsertQuery
    <3>2. \A i \in Ids : ~Appears(i) => elements'[i] = elements[i]
      BY <3>1
    <3> QED
      BY <3>2 DEF ChangesAsAsked
  <2>3. CASE UpdateHit /\ ~UNCHANGED elements
    <3> DEFINE id == Here.id
               els == elements[id]
               new == query.update
    <3>1. /\ Enters /\ Status(id) = CLOSE /\ Matches /\ query.type = "UPDATE" /\ Updatable(els, new)
          /\ elements' = [elements EXCEPT ![id] = Updated(els, new)]
      BY <2>3 DEF UpdateHit
    <3>2. id \in Ids
      BY <3>1, DocFileAssumption DEF Status
    <3>3. elements \in [Ids -> Seq(Known)] /\ new \in Seq(Known)
      <4>1. query \in Queries
        BY <1>1, <3>1, InTheVisit DEF Enters, Follows
      <4> QED
        BY <1>1, <4>1, QueryEngineAssumption DEF EngineInv, WalkInv, EngineTypeOK
    <3>4. expected.named => id \in expected.documents
      BY <1>1, <3>1, <3>2, MetIsExpected DEF Wanted, Matches
    <3>5. /\ elements'[id] = Updated(els, new)
          /\ \A i \in Ids : i # id => elements'[i] = elements[i]
      <4> DEFINE u == Updated(els, new)
      <4>1. elements' = [elements EXCEPT ![id] = u]
        BY <3>1
      <4> HIDE DEF u
      <4>2. elements'[id] = u
        BY <3>2, <3>3, <4>1
      <4>3. \A i \in Ids : i # id => elements'[i] = elements[i]
        BY <3>3, <4>1
      <4> QED
        BY <4>2, <4>3 DEF u
    <3>6. DOMAIN elements'[id] = DOMAIN els /\ DOMAIN els = 1..Len(els) /\ els \in Seq(Known)
      BY <3>2, <3>3, <3>5 DEF Updated
    <3> HIDE DEF id
    <3>7. ASSUME NEW k \in DOMAIN els
          PROVE  AsAsked(elements'[id][k], els, new, k)
      <4>1. /\ els \in Seq(Known) /\ new \in Seq(Known) /\ k \in 1..Len(els)
            /\ elements'[id] = Updated(els, new)
        BY <3>3, <3>5, <3>6, <3>7
      <4> HIDE DEF els, new
      <4> QED
        BY <4>1, UpdatedIs
    <3> QED
      BY <3>1, <3>4, <3>5, <3>6, <3>7 DEF ChangesAsAsked
  <2>4. QueryNextNoReuse => UNCHANGED elements \/ InsertNew \/ UpdateHit
    BY DEF QueryNextNoReuse, QueryStart, ExecuteQuery, WalkStep, PrintFromRoot, VisitRejected, PassBy,
           SelectHit, DeleteHit, Deleting, DeleteDone, GoDown, ChildVisited, GoToBrother, BrotherVisited, engineVars
  <2>5. UNCHANGED queryVars => UNCHANGED elements
    BY DEF queryVars, engineVars
  <2> QED
    BY <1>1, <2>1, <2>2, <2>3, <2>4, <2>5
<1> QED
  BY <1>1, EngineInvariance, PTL DEF QuerySpecNoReuse, UpdatesExact

=============================================================================
