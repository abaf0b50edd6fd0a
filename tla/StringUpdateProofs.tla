------------------------- MODULE StringUpdateProofs -------------------------
(***************************************************************************)
(* The safety of updates, for every number of inodes, every set of         *)
(* documents and every length of their strings.                            *)
(***************************************************************************)
EXTENDS StringUpdate, DocFileProofs

-----------------------------------------------------------------------------
(* The sums of a sequence of numbers: the recursive function that adds     *)
(* them up exists, and is what its equation says.                          *)
LEMMA PartialSums ==
    ASSUME NEW n \in Nat, NEW size \in [1..n -> Nat]
    PROVE  \E sum \in [0..n -> Nat] :
               sum = [k \in 0..n |-> IF k = 0 THEN 0 ELSE sum[k - 1] + size[k]]
<1> DEFINE Sums(m, f) == /\ f \in [0..m -> Nat]
                         /\ \A k \in 0..m : f[k] = IF k = 0 THEN 0 ELSE f[k - 1] + size[k]
           T == {m \in 0..n : ~\E f : Sums(m, f)}
<1>1. T = {}
  <2> SUFFICES ASSUME T # {} PROVE FALSE
    OBVIOUS
  <2>1. PICK m \in T : \A j \in T : m <= j
    <3>1. T \in SUBSET Nat
      OBVIOUS
    <3> QED
      BY <3>1, LeastElement
  <2>2. m \in 0..n /\ m # 0
    <3>1. Sums(0, [k \in 0..0 |-> 0])
      OBVIOUS
    <3> QED
      BY <2>1, <3>1
  <2>3. m - 1 \in 0..n /\ ~(m <= m - 1)
    BY <2>2
  <2>4. PICK f : Sums(m - 1, f)
    BY <2>1, <2>3
  <2> DEFINE g == [k \in 0..m |-> IF k <= m - 1 THEN f[k] ELSE f[m - 1] + size[m]]
  <2>5. \A k \in 0..m : g[k] = IF k <= m - 1 THEN f[k] ELSE f[m - 1] + size[m]
    OBVIOUS
  <2>6. g \in [0..m -> Nat]
    <3>1. \A k \in 0..m : k <= m - 1 => f[k] \in Nat
      BY <2>2, <2>3, <2>4
    <3>2. f[m - 1] \in Nat /\ size[m] \in Nat
      BY <2>2, <2>3, <2>4
    <3> QED
      BY <3>1, <3>2
  <2> HIDE DEF g
  <2>7. ASSUME NEW k \in 0..m
        PROVE  g[k] = IF k = 0 THEN 0 ELSE g[k - 1] + size[k]
    <3>1. CASE k <= m - 1
      <4>1. g[k] = f[k] /\ (k # 0 => g[k - 1] = f[k - 1])
        BY <2>2, <2>5, <3>1
      <4>2. k \in 0..(m - 1)
        BY <2>2, <3>1
      <4> QED
        BY <2>4, <4>1, <4>2
    <3>2. CASE k = m
      <4>1. g[k] = f[m - 1] + size[m] /\ g[k - 1] = f[m - 1]
        BY <2>2, <2>5, <3>2
      <4> QED
        BY <2>2, <3>2, <4>1
    <3> QED
      BY <2>2, <3>1, <3>2
  <2>8. Sums(m, g)
    BY <2>6, <2>7
  <2> QED
    BY <2>1, <2>8
<1>2. PICK f : Sums(n, f)
  <2>1. n \in 0..n
    OBVIOUS
  <2>2. \A m \in 0..n : \E f : Sums(m, f)
    BY <1>1
  <2> QED
    BY <2>1, <2>2
<1>3. f = [k \in 0..n |-> IF k = 0 THEN 0 ELSE f[k - 1] + size[k]]
  BY <1>2
<1> QED
  BY <1>2, <1>3

(* What an element takes, and the length its string has.                   *)
LEMMA ElementSpace ==
    ASSUME NEW e \in ElementSet
    PROVE  /\ e.type \in Types
           /\ e.type = "STRING" => e.val \in DOMAIN StrLen /\ StrLen[e.val] \in Nat \ {0}
           /\ CalcElementSize(e) \in Nat
           /\ KeySize = 1
           /\ CalcElementSize(e) = IF e.type = "STRING" THEN 1 + StrLen[e.val] ELSE 1
<1>1. e.type \in Types /\ (e.type = "STRING" => e.val \in DOMAIN StrLen)
  BY DEF ElementSet
<1>2. KeySize = 1 /\ FixedSize[e.type] = 1
  BY <1>1, StringUpdateAssumption
<1>3. e.type = "STRING" => StrLen[e.val] \in Nat \ {0}
  BY <1>1, ElementsAssumption
<1> QED
  BY <1>1, <1>2, <1>3 DEF CalcElementSize

(* calcDocumentSize: ElementsSize adds up what the elements take.          *)
LEMMA ElementsSizeAdds ==
    ASSUME NEW els \in Seq(ElementSet)
    PROVE  /\ ElementsSize(els, 0) = 0
           /\ \A k \in 0..Len(els) : ElementsSize(els, k) \in Nat
           /\ \A k \in 1..Len(els) :
                 ElementsSize(els, k) = ElementsSize(els, k - 1) + 1 + CalcElementSize(els[k])
<1> DEFINE n == Len(els)
           size == [k \in 1..n |-> 1 + CalcElementSize(els[k])]
<1>1. n \in Nat /\ \A k \in 1..n : els[k] \in ElementSet
  BY LenProperties
<1>2. /\ size \in [1..n -> Nat]
      /\ \A k \in 1..n : KeySize = 1 /\ CalcElementSize(els[k]) \in Nat
  BY <1>1, ElementSpace
<1>3. PICK sum \in [0..n -> Nat] :
         sum = [k \in 0..n |-> IF k = 0 THEN 0 ELSE sum[k - 1] + size[k]]
  BY <1>1, <1>2, PartialSums
<1> DEFINE Is(f) == f = [k \in 0..n |-> IF k = 0 THEN 0
                                          ELSE f[k - 1] + KeySize + CalcElementSize(els[k])]
<1>4. Is(sum)
  <2>1. \A k \in 0..n : sum[k] = IF k = 0 THEN 0
                                   ELSE sum[k - 1] + KeySize + CalcElementSize(els[k])
    <3> SUFFICES ASSUME NEW k \in 0..n, k # 0
                 PROVE  sum[k] = sum[k - 1] + KeySize + CalcElementSize(els[k])
      BY <1>3
    <3>1. k \in 1..n /\ k - 1 \in 0..n
      BY <1>1
    <3> HIDE DEF size
    <3>4. sum[k] = sum[k - 1] + size[k]
      BY <1>3
    <3>2. size[k] = 1 + CalcElementSize(els[k]) /\ KeySize = 1 /\ CalcElementSize(els[k]) \in Nat
      BY <1>2, <3>1 DEF size
    <3>3. sum[k - 1] \in Nat
      BY <3>1
    <3> QED
      BY <3>2, <3>3, <3>4
  <2> QED
    BY <2>1
<1>5. PICK f : Is(f) /\ \A k : ElementsSize(els, k) = f[k]
  BY <1>4 DEF ElementsSize
<1>6. DOMAIN f = 0..n /\ f[0] = 0
      /\ \A k \in 1..n : f[k] = f[k - 1] + KeySize + CalcElementSize(els[k])
  BY <1>1, <1>5
<1>7. {k \in 0..n : f[k] \notin Nat} = {}
  <2> DEFINE T == {k \in 0..n : f[k] \notin Nat}
  <2> SUFFICES ASSUME T # {} PROVE FALSE
    OBVIOUS
  <2>1. PICK m \in T : \A j \in T : m <= j
    <3>1. T \in SUBSET Nat
      OBVIOUS
    <3> QED
      BY <3>1, LeastElement
  <2>2. m \in 1..n /\ m - 1 \in 0..n /\ m - 1 \notin T
    BY <1>1, <1>6, <2>1
  <2>3. f[m - 1] \in Nat /\ KeySize = 1 /\ CalcElementSize(els[m]) \in Nat
    BY <1>2, <2>2
  <2> QED
    BY <1>6, <2>1, <2>2, <2>3
<1>8. \A k \in 0..n : f[k] \in Nat
  BY <1>7
<1>9. \A k \in 1..n : f[k] = f[k - 1] + 1 + CalcElementSize(els[k])
  BY <1>2, <1>6
<1>10. \A k : ElementsSize(els, k) = f[k]
  BY <1>5
<1> HIDE DEF Is, size, n
<1>11. \A k \in 1..n : ElementsSize(els, k) = ElementsSize(els, k - 1) + 1 + CalcElementSize(els[k])
  BY <1>9, <1>10
<1> QED
  BY <1>6, <1>8, <1>10, <1>11 DEF n
(* The elements further back are further from the block.                   *)
LEMMA ElementsSizeGrows ==
    ASSUME NEW els \in Seq(ElementSet), NEW j \in 0..Len(els), NEW k \in j..Len(els)
    PROVE  ElementsSize(els, j) <= ElementsSize(els, k)
<1> DEFINE n == Len(els)
           T == {m \in j..n : ~(ElementsSize(els, j) <= ElementsSize(els, m))}
<1>1. n \in Nat /\ (\A m \in 1..n : els[m] \in ElementSet)
  BY LenProperties
<1>2. /\ \A m \in 0..n : ElementsSize(els, m) \in Nat
      /\ \A m \in 1..n : ElementsSize(els, m) = ElementsSize(els, m - 1) + 1 + CalcElementSize(els[m])
  BY ElementsSizeAdds
<1>3. \A m \in 1..n : CalcElementSize(els[m]) \in Nat
  BY <1>1, ElementSpace
<1>4. T = {}
  <2> SUFFICES ASSUME T # {} PROVE FALSE
    OBVIOUS
  <2>1. PICK m \in T : \A i \in T : m <= i
    <3>1. T \in SUBSET Nat
      BY <1>1
    <3> QED
      BY <3>1, LeastElement
  <2>2. m \in j..n /\ ~(ElementsSize(els, j) <= ElementsSize(els, m))
    BY <2>1
  <2>3. m # j
    BY <1>1, <1>2, <2>2
  <2>4. m - 1 \in j..n /\ m \in 1..n /\ m - 1 \in 0..n /\ m \in 0..n
    BY <1>1, <2>2, <2>3
  <2>5. ElementsSize(els, j) <= ElementsSize(els, m - 1)
    BY <2>1, <2>4
  <2>6. /\ ElementsSize(els, m) = ElementsSize(els, m - 1) + 1 + CalcElementSize(els[m])
        /\ CalcElementSize(els[m]) \in Nat /\ ElementsSize(els, j) \in Nat
        /\ ElementsSize(els, m - 1) \in Nat
    BY <1>1, <1>2, <1>3, <2>4
  <2> QED
    BY <2>2, <2>5, <2>6
<1> QED
  BY <1>1, <1>4

(* When one element changes its size, those behind it move by as much.     *)
LEMMA ElementsSizeShifts ==
    ASSUME NEW els \in Seq(ElementSet), NEW new \in Seq(ElementSet), Len(new) = Len(els),
           NEW m \in 1..Len(els),
           \A k \in 1..Len(els) : k # m => CalcElementSize(new[k]) = CalcElementSize(els[k])
    PROVE  \A k \in 0..Len(els) :
              ElementsSize(new, k) =
                 IF k < m THEN ElementsSize(els, k)
                 ELSE ElementsSize(els, k) + CalcElementSize(new[m]) - CalcElementSize(els[m])
<1> DEFINE n == Len(els)
           By(k) == IF k < m THEN 0 ELSE CalcElementSize(new[m]) - CalcElementSize(els[m])
           T == {k \in 0..n : ElementsSize(new, k) # ElementsSize(els, k) + By(k)}
<1>1. n \in Nat /\ (\A k \in 1..n : els[k] \in ElementSet /\ new[k] \in ElementSet)
  BY LenProperties
<1>2. /\ ElementsSize(els, 0) = 0
      /\ \A k \in 0..n : ElementsSize(els, k) \in Nat
      /\ \A k \in 1..n : ElementsSize(els, k) = ElementsSize(els, k - 1) + 1 + CalcElementSize(els[k])
  BY ElementsSizeAdds
<1>3. /\ ElementsSize(new, 0) = 0
      /\ \A k \in 0..n : ElementsSize(new, k) \in Nat
      /\ \A k \in 1..n : ElementsSize(new, k) = ElementsSize(new, k - 1) + 1 + CalcElementSize(new[k])
  BY ElementsSizeAdds
<1>4. \A k \in 1..n : CalcElementSize(els[k]) \in Nat /\ CalcElementSize(new[k]) \in Nat
  BY <1>1, ElementSpace
<1>5. By(0) = 0 /\ \A k \in 1..n : By(k) = By(k - 1) + CalcElementSize(new[k]) - CalcElementSize(els[k])
  BY <1>1, <1>4
<1>6. \A k \in 0..n : By(k) \in Int
  BY <1>1, <1>4
<1>7. T = {}
  <2> SUFFICES ASSUME T # {} PROVE FALSE
    OBVIOUS
  <2>1. PICK k \in T : \A i \in T : k <= i
    <3>1. T \in SUBSET Nat
      BY <1>1
    <3> QED
      BY <3>1, LeastElement
  <2> HIDE DEF By
  <2>2. k \in 0..n /\ ElementsSize(new, k) # ElementsSize(els, k) + By(k)
    BY <2>1
  <2>3. k # 0
    BY <1>2, <1>3, <1>5, <2>2
  <2>4. k - 1 \in 0..n /\ k \in 1..n
    BY <1>1, <2>2, <2>3
  <2>5. ElementsSize(new, k - 1) = ElementsSize(els, k - 1) + By(k - 1)
    BY <2>1, <2>4
  <2>6. By(k) = By(k - 1) + CalcElementSize(new[k]) - CalcElementSize(els[k])
    BY <1>5, <2>4
  <2>7. /\ ElementsSize(els, k) = ElementsSize(els, k - 1) + 1 + CalcElementSize(els[k])
        /\ ElementsSize(new, k) = ElementsSize(new, k - 1) + 1 + CalcElementSize(new[k])
    BY <1>2, <1>3, <2>4
  <2>8. /\ CalcElementSize(els[k]) \in Nat /\ CalcElementSize(new[k]) \in Nat
        /\ By(k) \in Int /\ By(k - 1) \in Int
        /\ ElementsSize(els, k - 1) \in Nat /\ ElementsSize(new, k - 1) \in Nat
    BY <1>2, <1>3, <1>4, <1>6, <2>4
  <2>9. PICK a \in Nat, b \in Nat, p \in Nat, x \in Int :
           /\ a = CalcElementSize(els[k]) /\ b = CalcElementSize(new[k])
           /\ p = ElementsSize(els, k - 1) /\ x = By(k - 1)
    BY <2>8
  <2>10. By(k) = x + b - a
    BY <2>6, <2>9
  <2>11. ElementsSize(els, k) = p + 1 + a /\ ElementsSize(new, k) = p + x + 1 + b
    BY <2>5, <2>7, <2>9
  <2>12. p + x + 1 + b = p + 1 + a + (x + b - a)
    OBVIOUS
  <2> QED
    BY <2>2, <2>10, <2>11, <2>12
<1>8. \A k \in 0..n : ElementsSize(new, k) = ElementsSize(els, k) + By(k)
  BY <1>7
<1> QED
  BY <1>1, <1>2, <1>4, <1>8

-----------------------------------------------------------------------------
(* The cells of a string: its length, then its characters.                 *)
LEMMA StringCellsAre ==
    ASSUME NEW v \in DOMAIN StrLen
    PROVE  /\ StrLen[v] \in Nat \ {0}
           /\ DOMAIN StringCells(v) = 1..(StrLen[v] + 1)
           /\ StringCells(v) = [k \in 1..(StrLen[v] + 1) |-> StringCells(v)[k]]
           /\ Len(StringCells(v)) = StrLen[v] + 1
           /\ StringCells(v)[1] = [len |-> StrLen[v]]
           /\ \A k \in 1..StrLen[v] : StringCells(v)[k + 1] = [char |-> v, at |-> k]
<1> DEFINE n == StrLen[v]
           S == {[len |-> n]} \cup {[char |-> v, at |-> k] : k \in 1..n}
           chars == [k \in 1..n |-> [char |-> v, at |-> k]]
<1>1. n \in Nat \ {0}
  BY ElementsAssumption
<1>2. /\ <<[len |-> n]>> \in Seq(S) /\ Len(<<[len |-> n]>>) = 1
      /\ <<[len |-> n]>>[1] = [len |-> n]
  OBVIOUS
<1>3. chars \in Seq(S) /\ Len(chars) = n /\ \A k \in 1..n : chars[k] = [char |-> v, at |-> k]
  <2>1. chars \in [1..n -> S]
    OBVIOUS
  <2> QED
    BY <1>1, <2>1, SeqDef, LenProperties
<1> HIDE DEF chars, S
<1>4. StringCells(v) = <<[len |-> n]>> \o chars
  BY DEF StringCells, chars
<1>5. /\ StringCells(v) \in Seq(S) /\ Len(StringCells(v)) = 1 + n
      /\ \A k \in 1..(1 + n) :
            StringCells(v)[k] = IF k <= 1 THEN <<[len |-> n]>>[k] ELSE chars[k - 1]
  BY <1>2, <1>3, <1>4, ConcatProperties
<1>6. /\ DOMAIN StringCells(v) = 1..(n + 1)
      /\ StringCells(v) = [k \in 1..(n + 1) |-> StringCells(v)[k]]
  <2>1. StringCells(v) \in [1..(n + 1) -> S]
    BY <1>1, <1>5, LenProperties
  <2> QED
    BY <2>1
<1>7. StringCells(v)[1] = [len |-> n]
  BY <1>1, <1>2, <1>5
<1>8. \A k \in 1..n : StringCells(v)[k + 1] = [char |-> v, at |-> k]
  BY <1>1, <1>3, <1>5
<1>9. Len(StringCells(v)) = n + 1
  BY <1>1, <1>5
<1> QED
  BY <1>1, <1>6, <1>7, <1>8, <1>9, Zenon

(* The cells of an element: key and type, then the value or the string.    *)
LEMMA ElementCellsAre ==
    ASSUME NEW e \in ElementSet
    PROVE  /\ Len(ElementCells(e)) = 1 + CalcElementSize(e)
           /\ ElementCells(e)[1] = [key |-> e.key, type |-> e.type]
           /\ e.type = "STRING" => \A k \in 1..(StrLen[e.val] + 1) :
                                      ElementCells(e)[k + 1] = StringCells(e.val)[k]
           /\ e.type # "STRING" => ElementCells(e)[2] = [val |-> e.val]
<1> DEFINE rest == IF e.type = "STRING" THEN StringCells(e.val) ELSE <<[val |-> e.val]>>
           head == <<[key |-> e.key, type |-> e.type]>>
           n == CalcElementSize(e)
           S == {head[1]} \cup {rest[k] : k \in 1..n}
<1>1. /\ e.type = "STRING" => e.val \in DOMAIN StrLen /\ StrLen[e.val] \in Nat
      /\ n \in Nat /\ n = IF e.type = "STRING" THEN StrLen[e.val] + 1 ELSE 1
  BY ElementSpace
<1>2. DOMAIN rest = 1..n /\ Len(rest) = n /\ rest = [k \in 1..n |-> rest[k]]
  <2>1. CASE e.type = "STRING"
    BY <1>1, <2>1, StringCellsAre
  <2>2. CASE e.type # "STRING"
    BY <1>1, <2>2
  <2> QED
    BY <2>1, <2>2
<1>3. head \in Seq(S) /\ Len(head) = 1 /\ head[1] = [key |-> e.key, type |-> e.type]
  OBVIOUS
<1>4. ElementCells(e) = head \o rest
  BY DEF ElementCells
<1>5. rest # << >>
  BY <1>1, <1>2, ElementSpace
<1> HIDE DEF rest, head, n
<1>6. rest \in Seq(S)
  <2>1. rest \in [1..n -> S]
    BY <1>2
  <2> QED
    BY <1>1, <2>1, SeqDef
<1> HIDE DEF S
<1>10. n \in Nat /\ Len(rest) = n
  BY <1>1, <1>2
<1>7. /\ Len(ElementCells(e)) = 1 + n
      /\ \A k \in 1..(1 + n) : ElementCells(e)[k] = IF k <= 1 THEN head[k] ELSE rest[k - 1]
  <2>1. /\ Len(head \o rest) = Len(head) + Len(rest)
        /\ \A k \in 1..(Len(head) + Len(rest)) :
              (head \o rest)[k] = IF k <= Len(head) THEN head[k] ELSE rest[k - Len(head)]
    BY <1>3, <1>6, ConcatProperties
  <2> QED
    BY <1>3, <1>4, <1>10, <2>1
<1>8. \A k \in 1..n : ElementCells(e)[k + 1] = rest[k]
  BY <1>7, <1>10
<1>9. ElementCells(e)[1] = [key |-> e.key, type |-> e.type]
  BY <1>3, <1>7, <1>10
<1> QED
  BY <1>1, <1>7, <1>8, <1>9 DEF rest, n

(* What readString and readElement find where an element was written.      *)
LEMMA StringRead ==
    ASSUME NEW v \in DOMAIN StrLen, NEW a \in Nat,
           \A k \in 0..StrLen[v] : Cell(a + k) = StringCells(v)[k + 1]
    PROVE  ReadString(a) = v
<1> DEFINE fits(w) == \A k \in 0..StrLen[w] : Cell(a + k) = StringCells(w)[k + 1]
<1>1. fits(v)
  OBVIOUS
<1>2. ASSUME NEW w \in DOMAIN StrLen, fits(w)
      PROVE  w = v
  <2>1. ASSUME NEW u \in DOMAIN StrLen
        PROVE  /\ StrLen[u] \in Nat \ {0} /\ 1 \in 0..StrLen[u]
               /\ StringCells(u)[1 + 1] = [char |-> u, at |-> 1]
    <3>1. StrLen[u] \in Nat \ {0} /\ 1 \in 1..StrLen[u] /\ 1 \in 0..StrLen[u]
      BY ElementsAssumption
    <3>2. \A k \in 1..StrLen[u] : StringCells(u)[k + 1] = [char |-> u, at |-> k]
      BY StringCellsAre
    <3> QED
      BY <3>1, <3>2
  <2>2. Cell(a + 1) = StringCells(v)[1 + 1] /\ Cell(a + 1) = StringCells(w)[1 + 1]
    BY <1>2, <2>1
  <2>3. [char |-> v, at |-> 1].char = [char |-> w, at |-> 1].char
    BY <2>1, <2>2
  <2> QED
    BY <2>3
<1> HIDE DEF fits
<1>3. (CHOOSE w \in DOMAIN StrLen : fits(w)) = v
  BY <1>1, <1>2
<1> QED
  BY <1>1, <1>3 DEF ReadString, fits

LEMMA ElementRead ==
    ASSUME NEW e \in ElementSet, NEW a \in Nat,
           \A c \in 1..(1 + CalcElementSize(e)) : Cell(a + c - 1) = ElementCells(e)[c]
    PROVE  ReadElement(a) = e /\ ElementCellsAt(a) = 1 + CalcElementSize(e)
<1>1. /\ e.type = "STRING" => e.val \in DOMAIN StrLen /\ StrLen[e.val] \in Nat \ {0}
      /\ CalcElementSize(e) = IF e.type = "STRING" THEN 1 + StrLen[e.val] ELSE 1
      /\ CalcElementSize(e) \in Nat \ {0}
  BY ElementSpace
<1>2. /\ ElementCells(e)[1] = [key |-> e.key, type |-> e.type]
      /\ e.type = "STRING" => \A k \in 1..(StrLen[e.val] + 1) :
                                 ElementCells(e)[k + 1] = StringCells(e.val)[k]
      /\ e.type # "STRING" => ElementCells(e)[2] = [val |-> e.val]
  BY ElementCellsAre
<1>3. Cell(a) = [key |-> e.key, type |-> e.type]
  <2>1. 1 \in 1..(1 + CalcElementSize(e)) /\ a + 1 - 1 = a
    BY <1>1
  <2>2. Cell(a + 1 - 1) = ElementCells(e)[1]
    BY <2>1
  <2> QED
    BY <1>2, <2>1, <2>2
<1>4. Has(Cell(a), "key") /\ Has(Cell(a), "type") /\ Cell(a).key = e.key /\ Cell(a).type = e.type
  BY <1>3 DEF Has
<1>5. e = Element(e.key, e.type, e.val)
  BY DEF ElementSet, Element
<1>6. CASE e.type = "STRING"
  <2>1. \A k \in 0..StrLen[e.val] : Cell(a + 1 + k) = StringCells(e.val)[k + 1]
    <3> TAKE k \in 0..StrLen[e.val]
    <3>1. k + 2 \in 1..(1 + CalcElementSize(e)) /\ a + (k + 2) - 1 = a + 1 + k
          /\ k + 1 \in 1..(StrLen[e.val] + 1) /\ (k + 1) + 1 = k + 2
      BY <1>1, <1>6
    <3>2. Cell(a + (k + 2) - 1) = ElementCells(e)[k + 2]
      BY <3>1
    <3>3. ElementCells(e)[(k + 1) + 1] = StringCells(e.val)[k + 1]
      BY <1>2, <1>6, <3>1
    <3> QED
      BY <3>1, <3>2, <3>3
  <2>2. a + 1 \in Nat /\ a + 1 + 0 = a + 1 /\ 0 \in 0..StrLen[e.val]
    BY <1>1, <1>6
  <2>3. ReadString(a + 1) = e.val
    BY <1>1, <1>6, <2>1, <2>2, StringRead
  <2>4. Cell(a + 1) = [len |-> StrLen[e.val]]
    <3>1. Cell(a + 1 + 0) = StringCells(e.val)[0 + 1]
      BY <2>1, <2>2
    <3>2. StringCells(e.val)[1] = [len |-> StrLen[e.val]]
      BY <1>1, <1>6, StringCellsAre
    <3> QED
      BY <2>2, <3>1, <3>2
  <2>5. Has(Cell(a + 1), "len") /\ Cell(a + 1).len = StrLen[e.val]
    BY <2>4 DEF Has
  <2>6. ReadElement(a) = Element(e.key, e.type, e.val)
    BY <1>4, <1>6, <2>3 DEF ReadElement
  <2>7. ElementCellsAt(a) = 2 + StrLen[e.val]
    BY <1>4, <1>6, <2>5 DEF ElementCellsAt
  <2> QED
    BY <1>1, <1>5, <1>6, <2>6, <2>7
<1>7. CASE e.type # "STRING"
  <2>1. 2 \in 1..(1 + CalcElementSize(e)) /\ a + 2 - 1 = a + 1
    BY <1>1
  <2>2. Cell(a + 2 - 1) = ElementCells(e)[2]
    BY <2>1
  <2>3. Cell(a + 1) = [val |-> e.val]
    BY <1>2, <1>7, <2>1, <2>2
  <2>4. Has(Cell(a + 1), "val") /\ Cell(a + 1).val = e.val
    BY <2>3 DEF Has
  <2>5. ReadElement(a) = Element(e.key, e.type, e.val)
    BY <1>4, <1>7, <2>4 DEF ReadElement
  <2>6. ElementCellsAt(a) = 2
    BY <1>4, <1>7 DEF ElementCellsAt
  <2> QED
    BY <1>1, <1>5, <1>7, <2>5, <2>6
<1> QED
  BY <1>6, <1>7

-----------------------------------------------------------------------------
(* What a cell stands for: a cell that was inserted with a document is an  *)
(* element's of that document.                                             *)
Meaning(cell) ==
    IF DOMAIN cell = {"doc", "at"} THEN Written[cell.doc][cell.at] ELSE cell

(* Behind the block at pos come the cells of els, one element behind the   *)
(* other.                                                                  *)
Spells(area, pos, els) ==
    \A k \in 1..Len(els) : \A c \in 1..(1 + CalcElementSize(els[k])) :
        LET a == pos + ElementsSize(els, k - 1) + c
        IN  a \in DOMAIN area /\ Meaning(area[a]) = ElementCells(els[k])[c]

(* The document of inode i has the elements els, and its block ends there. *)
HasElements(i, els) ==
    /\ Len(els) = Len(ContentOf[MetaOf(i).doc])
    /\ MetaOf(i).size = 1 + ElementsSize(els, Len(els))
    /\ Spells(disk, inode[i].pos, els)

(* readDocument gives the elements that stand behind the block.            *)
LEMMA DocumentRead ==
    ASSUME NEW i, inode[i].pos \in Nat, NEW els \in Seq(ElementSet), HasElements(i, els)
    PROVE  ReadDocument(i) = els
<1> DEFINE n == Len(ContentOf[MetaOf(i).doc])
           pos == inode[i].pos
           at == [k \in 1..n |-> pos + 1 + ElementsSize(els, k - 1)]
           Is(f) == f = [k \in 1..n |-> IF k = 1 THEN pos + 1
                                        ELSE f[k - 1] + ElementCellsAt(f[k - 1])]
<1>1. n = Len(els) /\ n \in Nat /\ els = [k \in 1..n |-> els[k]]
      /\ \A k \in 1..n : els[k] \in ElementSet
  <2>1. n = Len(els)
    BY DEF HasElements
  <2>2. Len(els) \in Nat /\ els \in [1..Len(els) -> ElementSet]
    BY LenProperties
  <2> HIDE DEF n
  <2> QED
    BY <2>1, <2>2
<1> HIDE DEF n
<1>2. /\ ElementsSize(els, 0) = 0
      /\ \A k \in 0..n : ElementsSize(els, k) \in Nat
      /\ \A k \in 1..n : ElementsSize(els, k) = ElementsSize(els, k - 1) + 1 + CalcElementSize(els[k])
  BY <1>1, ElementsSizeAdds
<1>3. ASSUME NEW k \in 1..n
      PROVE  /\ at[k] = pos + 1 + ElementsSize(els, k - 1) /\ at[k] \in Nat
             /\ CalcElementSize(els[k]) \in Nat
             /\ ReadElement(at[k]) = els[k]
             /\ ElementCellsAt(at[k]) = 1 + CalcElementSize(els[k])
  <2>1. k - 1 \in 0..n /\ els[k] \in ElementSet /\ ElementsSize(els, k - 1) \in Nat
    BY <1>1, <1>2
  <2>2. at[k] = pos + 1 + ElementsSize(els, k - 1) /\ at[k] \in Nat
    BY <2>1
  <2>3. CalcElementSize(els[k]) \in Nat
    BY <2>1, ElementSpace
  <2> HIDE DEF at
  <2>4. \A c \in 1..(1 + CalcElementSize(els[k])) : Cell(at[k] + c - 1) = ElementCells(els[k])[c]
    <3> TAKE c \in 1..(1 + CalcElementSize(els[k]))
    <3>1. Cell(pos + ElementsSize(els, k - 1) + c) = ElementCells(els[k])[c]
      BY <1>1 DEF HasElements, Spells, Meaning, Cell
    <3>2. at[k] + c - 1 = pos + ElementsSize(els, k - 1) + c
      <4>1. PICK s \in Nat, p \in Nat : s = ElementsSize(els, k - 1) /\ p = pos
        BY <2>1
      <4>2. c \in Nat
        BY <2>3
      <4>3. at[k] = p + 1 + s
        BY <2>2, <4>1
      <4>4. p + 1 + s + c - 1 = p + s + c
        BY <4>1, <4>2
      <4> QED
        BY <4>1, <4>3, <4>4
    <3> QED
      BY <3>1, <3>2
  <2>5. ReadElement(at[k]) = els[k] /\ ElementCellsAt(at[k]) = 1 + CalcElementSize(els[k])
    BY <2>1, <2>2, <2>4, ElementRead
  <2> QED
    BY <2>2, <2>3, <2>5
<1>4. Is(at)
  <2>1. ASSUME NEW k \in 1..n
        PROVE  at[k] = IF k = 1 THEN pos + 1 ELSE at[k - 1] + ElementCellsAt(at[k - 1])
    <3> HIDE DEF at
    <3>1. CASE k = 1
      <4>1. at[k] = pos + 1 + ElementsSize(els, 0)
        BY <1>3, <3>1
      <4> QED
        BY <1>2, <3>1, <4>1
    <3>2. CASE k # 1
      <4>1. k - 1 \in 1..n /\ k - 1 \in 0..n /\ k - 1 - 1 \in 0..n
        BY <1>1, <3>2
      <4>2. at[k - 1] = pos + 1 + ElementsSize(els, k - 1 - 1)
            /\ ElementCellsAt(at[k - 1]) = 1 + CalcElementSize(els[k - 1])
            /\ CalcElementSize(els[k - 1]) \in Nat
        BY <1>3, <4>1
      <4>3. ElementsSize(els, k - 1) = ElementsSize(els, k - 1 - 1) + 1 + CalcElementSize(els[k - 1])
            /\ ElementsSize(els, k - 1 - 1) \in Nat
        BY <1>2, <4>1
      <4>4. at[k] = pos + 1 + ElementsSize(els, k - 1)
        BY <1>3
      <4>5. \A p, q, c \in Nat : p + 1 + (q + 1 + c) = (p + 1 + q) + (1 + c)
        OBVIOUS
      <4>7. pos + 1 + (ElementsSize(els, k - 1 - 1) + 1 + CalcElementSize(els[k - 1]))
              = (pos + 1 + ElementsSize(els, k - 1 - 1)) + (1 + CalcElementSize(els[k - 1]))
        BY <4>2, <4>3, <4>5, Zenon
      <4>6. at[k] = at[k - 1] + ElementCellsAt(at[k - 1])
        BY <4>2, <4>3, <4>4, <4>7
      <4> QED
        BY <3>2, <4>6
    <3> QED
      BY <3>1, <3>2
  <2> QED
    BY <2>1
<1>5. PICK f : Is(f) /\ ReadDocument(i) = [k \in 1..n |-> ReadElement(f[k])]
  <2> DEFINE f == CHOOSE f : Is(f)
  <2> HIDE DEF at
  <2>1. Is(f)
    BY <1>4
  <2>2. ReadDocument(i) = [k \in 1..n |-> ReadElement(f[k])]
    BY DEF ReadDocument, n
  <2> QED
    BY <2>1, <2>2
<1>6. \A k \in 1..n : f[k] = IF k = 1 THEN pos + 1 ELSE f[k - 1] + ElementCellsAt(f[k - 1])
  BY <1>5
<1>7. {k \in 1..n : f[k] # at[k]} = {}
  <2> DEFINE T == {k \in 1..n : f[k] # at[k]}
  <2>a. \A k \in 1..n : at[k] = IF k = 1 THEN pos + 1 ELSE at[k - 1] + ElementCellsAt(at[k - 1])
    BY <1>4
  <2> HIDE DEF at
  <2> SUFFICES ASSUME T # {} PROVE FALSE
    OBVIOUS
  <2>1. PICK m \in T : \A j \in T : m <= j
    <3>1. T \in SUBSET Nat
      BY <1>1
    <3> QED
      BY <3>1, LeastElement
  <2>2. m \in 1..n /\ m # 1
    BY <1>6, <2>1, <2>a
  <2>3. m - 1 \in 1..n /\ ~(m <= m - 1)
    BY <1>1, <2>2
  <2>4. f[m - 1] = at[m - 1]
    BY <2>1, <2>3
  <2> QED
    BY <1>6, <2>1, <2>2, <2>4, <2>a
<1>8. \A k \in 1..n : ReadElement(f[k]) = els[k]
  BY <1>3, <1>7
<1> QED
  BY <1>1, <1>5, <1>8

(* The same as a formula, which holds in the next state as well.           *)
ReadsAsWritten ==
    \A i : \A els \in Seq(ElementSet) :
        inode[i].pos \in Nat /\ HasElements(i, els) => ReadDocument(i) = els

LEMMA DocumentsRead == ReadsAsWritten
  BY DocumentRead DEF ReadsAsWritten

LEMMA DocumentsReadNext == ReadsAsWritten'
  BY DocumentsRead, PTL

-----------------------------------------------------------------------------
(* The cells of element k lie between those of its neighbours, inside the  *)
(* block.                                                                  *)
LEMMA ElementInside ==
    ASSUME NEW els \in Seq(ElementSet), NEW k \in 1..Len(els)
    PROVE  /\ Len(els) \in Nat /\ els[k] \in ElementSet
           /\ CalcElementSize(els[k]) \in Nat \ {0}
           /\ ElementsSize(els, k - 1) \in Nat /\ ElementsSize(els, k) \in Nat
           /\ ElementsSize(els, Len(els)) \in Nat
           /\ ElementsSize(els, k) = ElementsSize(els, k - 1) + 1 + CalcElementSize(els[k])
           /\ ElementsSize(els, k) <= ElementsSize(els, Len(els))
           /\ \A j \in 1..Len(els) : j < k => ElementsSize(els, j) <= ElementsSize(els, k - 1)
           /\ \A j \in 1..Len(els) : j > k => ElementsSize(els, k) <= ElementsSize(els, j - 1)
<1>1. Len(els) \in Nat /\ els[k] \in ElementSet
  BY LenProperties
<1>2. CalcElementSize(els[k]) \in Nat \ {0}
  BY <1>1, ElementSpace
<1>3. /\ k - 1 \in 0..Len(els) /\ k \in 0..Len(els) /\ Len(els) \in 0..Len(els)
      /\ Len(els) \in k..Len(els)
  BY <1>1
<1>4. /\ \A j \in 0..Len(els) : ElementsSize(els, j) \in Nat
      /\ ElementsSize(els, k) = ElementsSize(els, k - 1) + 1 + CalcElementSize(els[k])
  BY ElementsSizeAdds
<1>5. ElementsSize(els, k) <= ElementsSize(els, Len(els))
  BY <1>3, ElementsSizeGrows
<1>6. ASSUME NEW j \in 1..Len(els), j < k
      PROVE  ElementsSize(els, j) <= ElementsSize(els, k - 1)
  <2>1. j \in 0..Len(els) /\ k - 1 \in j..Len(els)
    BY <1>1, <1>6
  <2> QED
    BY <2>1, ElementsSizeGrows
<1>7. ASSUME NEW j \in 1..Len(els), j > k
      PROVE  ElementsSize(els, k) <= ElementsSize(els, j - 1)
  <2>1. j - 1 \in k..Len(els)
    BY <1>1, <1>7
  <2> QED
    BY <1>3, <2>1, ElementsSizeGrows
<1> QED
  BY <1>1, <1>2, <1>3, <1>4, <1>5, <1>6, <1>7

LEMMA ElementSpan ==
    ASSUME NEW els \in Seq(ElementSet), NEW k \in 1..Len(els)
    PROVE  \E s \in Nat, e \in Nat \ {0}, t \in Nat :
              /\ s = ElementsSize(els, k - 1) /\ e = CalcElementSize(els[k])
              /\ t = ElementsSize(els, Len(els)) /\ s + 1 + e <= t
<1>1. PICK s \in Nat, e \in Nat \ {0}, t \in Nat :
         /\ s = ElementsSize(els, k - 1) /\ e = CalcElementSize(els[k])
         /\ t = ElementsSize(els, Len(els))
  BY ElementInside
<1>2. ElementsSize(els, k) = s + 1 + e /\ ElementsSize(els, k) <= t
  BY <1>1, ElementInside
<1> QED
  BY <1>1, <1>2

(* The n cells behind pos are behind to in the area after.                 *)
Copied(area, pos, after, to, n) ==
    \A c \in 1..n : to + c \in DOMAIN after /\ after[to + c] = area[pos + c]

(* A block whose cells are copied to another place spells the same.        *)
LEMMA SpellsMoved ==
    ASSUME NEW area, NEW after, NEW pos \in Nat, NEW to \in Nat,
           NEW els \in Seq(ElementSet), Spells(area, pos, els),
           Copied(area, pos, after, to, ElementsSize(els, Len(els)))
    PROVE  Spells(after, to, els)
<1> SUFFICES ASSUME NEW k \in 1..Len(els), NEW c \in 1..(1 + CalcElementSize(els[k]))
             PROVE  /\ to + ElementsSize(els, k - 1) + c \in DOMAIN after
                    /\ Meaning(after[to + ElementsSize(els, k - 1) + c]) = ElementCells(els[k])[c]
  BY DEF Spells
<1>0. PICK s \in Nat, e \in Nat \ {0}, n \in Nat :
         /\ s = ElementsSize(els, k - 1) /\ e = CalcElementSize(els[k])
         /\ n = ElementsSize(els, Len(els)) /\ s + 1 + e <= n
  BY ElementSpan
<1>1. PICK b : b = s + c
  OBVIOUS
<1>2. b \in 1..ElementsSize(els, Len(els))
  <2>1. c \in 1..(1 + e) /\ s + 1 + e <= n
    BY <1>0
  <2>2. b \in 1..n
    BY <1>1, <2>1
  <2> QED
    BY <1>0, <2>2
<1>3. pos + s + c = pos + b /\ to + s + c = to + b
  BY <1>1
<1>4. Meaning(area[pos + ElementsSize(els, k - 1) + c]) = ElementCells(els[k])[c]
  BY DEF Spells
<1>5. to + b \in DOMAIN after /\ after[to + b] = area[pos + b]
  BY <1>2 DEF Copied
<1> QED
  BY <1>0, <1>3, <1>4, <1>5

(* A cell written by an update stands for itself.                          *)
LEMMA MeaningOfWritten ==
    /\ \A v : Meaning([val |-> v]) = [val |-> v]
    /\ \A v \in DOMAIN StrLen : \A k \in 0..StrLen[v] :
          Meaning(StringCells(v)[k + 1]) = StringCells(v)[k + 1]
<1>1. \A v : Meaning([val |-> v]) = [val |-> v]
  BY DEF Meaning
<1>2. ASSUME NEW v \in DOMAIN StrLen, NEW k \in 0..StrLen[v]
      PROVE  Meaning(StringCells(v)[k + 1]) = StringCells(v)[k + 1]
  <2>1. /\ StrLen[v] \in Nat \ {0}
        /\ StringCells(v)[1] = [len |-> StrLen[v]]
        /\ \A j \in 1..StrLen[v] : StringCells(v)[j + 1] = [char |-> v, at |-> j]
    BY StringCellsAre
  <2>2. CASE k = 0
    <3>1. StringCells(v)[k + 1] = [len |-> StrLen[v]]
      BY <2>1, <2>2
    <3>2. DOMAIN [len |-> StrLen[v]] # {"doc", "at"}
      OBVIOUS
    <3> QED
      BY <3>1, <3>2 DEF Meaning
  <2>3. CASE k # 0
    <3>1. StringCells(v)[k + 1] = [char |-> v, at |-> k]
      BY <2>1, <2>3
    <3>2. DOMAIN [char |-> v, at |-> k] # {"doc", "at"}
      OBVIOUS
    <3> QED
      BY <3>1, <3>2 DEF Meaning
  <2> QED
    BY <2>2, <2>3
<1> QED
  BY <1>1, <1>2

(* new are the elements els with another value for the m-th.               *)
Revalued(new, els, m, v) ==
    /\ Len(new) = Len(els)
    /\ \A k \in 1..Len(els) : k # m => new[k] = els[k]
    /\ new[m].key = els[m].key /\ new[m].type = els[m].type /\ new[m].val = v

LEMMA RevaluedElements ==
    ASSUME NEW els \in Seq(ElementSet), NEW m \in 1..Len(els),
           NEW e \in ElementSet, SameKeyAndType(els[m], e)
    PROVE  /\ [els EXCEPT ![m].val = e.val] \in Seq(ElementSet)
           /\ Revalued([els EXCEPT ![m].val = e.val], els, m, e.val)
<1> DEFINE new == [els EXCEPT ![m].val = e.val]
<1>1. els \in [1..Len(els) -> ElementSet] /\ Len(els) \in Nat
  BY LenProperties
<1>2. els[m] \in ElementSet
  BY <1>1
<1>3. [els[m] EXCEPT !.val = e.val] = e
  BY <1>2 DEF ElementSet, SameKeyAndType
<1>4. new = [els EXCEPT ![m] = e]
  BY <1>3
<1> HIDE DEF new
<1>5. new \in [1..Len(els) -> ElementSet]
  BY <1>1, <1>4
<1>6. new \in Seq(ElementSet)
  BY <1>1, <1>5, SeqDef
<1>7. Len(new) = Len(els)
  BY <1>1, <1>5, <1>6, LenProperties
<1>8. new[m] = e /\ \A k \in 1..Len(els) : k # m => new[k] = els[k]
  BY <1>1, <1>4
<1>9. e.key = els[m].key /\ e.type = els[m].type
  BY DEF SameKeyAndType
<1> QED
  BY <1>6, <1>7, <1>8, <1>9 DEF new, Revalued

(* The elements that keep their size keep the others where they are.       *)
LEMMA SameSizes ==
    ASSUME NEW els \in Seq(ElementSet), NEW new \in Seq(ElementSet), Len(new) = Len(els),
           \A k \in 1..Len(els) : CalcElementSize(new[k]) = CalcElementSize(els[k])
    PROVE  \A k \in 0..Len(els) : ElementsSize(new, k) = ElementsSize(els, k)
<1>1. Len(els) \in Nat /\ \A k \in 0..Len(els) : ElementsSize(els, k) \in Nat
  BY ElementsSizeAdds, LenProperties
<1>2. CASE Len(els) = 0
  BY <1>1, <1>2, ElementsSizeAdds
<1>3. CASE Len(els) # 0
  <2>1. 1 \in 1..Len(els)
    BY <1>1, <1>3
  <2>2. \A k \in 0..Len(els) :
           ElementsSize(new, k) =
              IF k < 1 THEN ElementsSize(els, k)
              ELSE ElementsSize(els, k) + CalcElementSize(new[1]) - CalcElementSize(els[1])
    BY <2>1, ElementsSizeShifts
  <2>3. CalcElementSize(new[1]) = CalcElementSize(els[1]) /\ CalcElementSize(els[1]) \in Nat
    BY <2>1, ElementInside
  <2>4. PICK z \in Nat : z = CalcElementSize(els[1]) /\ z = CalcElementSize(new[1])
    BY <2>3
  <2>5. ASSUME NEW k \in 0..Len(els)
        PROVE  ElementsSize(new, k) = ElementsSize(els, k)
    <3>1. ElementsSize(els, k) \in Nat
      BY <1>1
    <3>2. ElementsSize(new, k) = ElementsSize(els, k)
          \/ ElementsSize(new, k) = ElementsSize(els, k) + z - z
      BY <2>2, <2>4
    <3> QED
      BY <3>1, <3>2
  <2> QED
    BY <2>5
<1> QED
  BY <1>2, <1>3

(* In after, the cell at is that of value v.                               *)
ValueWritten(area, after, at, v) ==
    /\ DOMAIN area \subseteq DOMAIN after /\ after[at] = [val |-> v]
    /\ \A a \in DOMAIN area : a # at => after[a] = area[a]

(* When the value of an element of fixed size is overwritten, the block    *)
(* spells the elements with that value.                                    *)
LEMMA ValueReplaced ==
    ASSUME NEW area, NEW after, NEW pos \in Nat,
           NEW els \in Seq(ElementSet), Spells(area, pos, els),
           NEW m \in 1..Len(els), els[m].type # "STRING", NEW v,
           NEW new \in Seq(ElementSet), Revalued(new, els, m, v),
           NEW at, at = pos + ElementsSize(els, m - 1) + 2,
           ValueWritten(area, after, at, v)
    PROVE  Spells(after, pos, new) /\ ElementsSize(new, Len(new)) = ElementsSize(els, Len(els))
<1>0. /\ DOMAIN area \subseteq DOMAIN after /\ after[at] = [val |-> v]
      /\ \A a \in DOMAIN area : a # at => after[a] = area[a]
  BY DEF ValueWritten
<1>1. /\ Len(new) = Len(els) /\ Len(els) \in Nat
      /\ \A k \in 1..Len(els) : k # m => new[k] = els[k]
      /\ new[m].key = els[m].key /\ new[m].type = els[m].type /\ new[m].val = v
      /\ new[m] \in ElementSet /\ els[m] \in ElementSet
  BY LenProperties DEF Revalued
<1>2. /\ ElementCells(new[m])[1] = ElementCells(els[m])[1]
      /\ ElementCells(new[m])[2] = [val |-> v]
      /\ CalcElementSize(els[m]) = 1 /\ CalcElementSize(new[m]) = 1
  <2>1. ASSUME NEW e \in ElementSet, e.type # "STRING"
        PROVE  /\ ElementCells(e)[1] = [key |-> e.key, type |-> e.type]
               /\ ElementCells(e)[2] = [val |-> e.val]
               /\ CalcElementSize(e) = 1
    BY <2>1, ElementCellsAre, ElementSpace
  <2>2. /\ ElementCells(new[m])[1] = [key |-> new[m].key, type |-> new[m].type]
        /\ ElementCells(new[m])[2] = [val |-> new[m].val]
        /\ CalcElementSize(new[m]) = 1
    BY <1>1, <2>1
  <2>3. /\ ElementCells(els[m])[1] = [key |-> els[m].key, type |-> els[m].type]
        /\ CalcElementSize(els[m]) = 1
    BY <1>1, <2>1
  <2> QED
    BY <1>1, <2>2, <2>3, Zenon
<1>3. \A k \in 1..Len(els) : CalcElementSize(new[k]) = CalcElementSize(els[k])
  BY <1>1, <1>2
<1>4. \A k \in 0..Len(els) : ElementsSize(new, k) = ElementsSize(els, k)
  BY <1>1, <1>3, SameSizes
<1>5. ASSUME NEW k \in 1..Len(new), NEW c \in 1..(1 + CalcElementSize(new[k]))
      PROVE  /\ pos + ElementsSize(new, k - 1) + c \in DOMAIN after
             /\ Meaning(after[pos + ElementsSize(new, k - 1) + c]) = ElementCells(new[k])[c]
  <2>1. /\ k \in 1..Len(els) /\ k - 1 \in 0..Len(els)
        /\ c \in 1..(1 + CalcElementSize(els[k]))
    BY <1>1, <1>3
  <2>2. PICK s \in Nat : s = ElementsSize(els, k - 1) /\ s = ElementsSize(new, k - 1)
    BY <1>4, <2>1, ElementInside
  <2>3. pos + s + c \in DOMAIN area /\ Meaning(area[pos + s + c]) = ElementCells(els[k])[c]
    BY <2>1, <2>2 DEF Spells
  <2>4. PICK t \in Nat : t = ElementsSize(els, m - 1)
    BY ElementInside
  <2>5. PICK e \in Nat : e = CalcElementSize(els[k])
    BY <2>1, ElementInside
  <2>6. c \in 1..(1 + e) /\ at = pos + t + 2
    BY <2>1, <2>4, <2>5
  <2>7. CASE k = m
    <3>1. s = t /\ e = 1
      BY <1>2, <2>2, <2>4, <2>5, <2>7
    <3>2. CASE c = 2
      BY <1>0, <1>2, <2>2, <2>3, <2>6, <2>7, <3>1, <3>2, MeaningOfWritten
    <3>3. CASE c # 2
      <4>1. c = 1 /\ pos + s + c # at
        BY <2>6, <3>1, <3>3
      <4> QED
        BY <1>0, <1>2, <2>2, <2>3, <2>7, <4>1
    <3> QED
      BY <3>2, <3>3
  <2>8. CASE k # m
    <3>1. k < m => s + 1 + e <= t
      <4> SUFFICES ASSUME k < m PROVE s + 1 + e <= t
        OBVIOUS
      <4>1. ElementsSize(els, k) <= ElementsSize(els, m - 1)
            /\ ElementsSize(els, k) = ElementsSize(els, k - 1) + 1 + CalcElementSize(els[k])
        BY <2>1, ElementInside
      <4> QED
        BY <2>2, <2>4, <2>5, <4>1
    <3>2. k > m => t + 2 <= s
      <4> SUFFICES ASSUME k > m PROVE t + 2 <= s
        OBVIOUS
      <4>1. ElementsSize(els, m) <= ElementsSize(els, k - 1)
            /\ ElementsSize(els, m) = ElementsSize(els, m - 1) + 1 + CalcElementSize(els[m])
        BY <2>1, ElementInside
      <4> QED
        BY <1>2, <2>2, <2>4, <4>1
    <3>3. k < m \/ k > m
      BY <1>1, <2>1, <2>8
    <3>4. pos + s + c # at
      BY <2>6, <3>1, <3>2, <3>3
    <3> QED
      BY <1>0, <1>1, <2>1, <2>2, <2>3, <2>8, <3>4
  <2> QED
    BY <2>7, <2>8
<1>6. Spells(after, pos, new)
  BY <1>5 DEF Spells
<1>7. Len(els) \in 0..Len(els)
  BY <1>1
<1> QED
  BY <1>1, <1>4, <1>6, <1>7

(* The string of element m is l characters long and begins o cells behind  *)
(* the block, whose elements take n cells.                                 *)
StringPlace(els, m, o, l, n) ==
    /\ o = ElementsSize(els, m - 1) + 2
    /\ l = StrLen[els[m].val]
    /\ n = ElementsSize(els, Len(els))

(* after has, at to, the block that area had at pos, with string v of r    *)
(* characters for the old one, and what was behind that one moved.         *)
StringMoved(area, pos, after, to, o, l, n, v, r) ==
    /\ r = StrLen[v]
    /\ \A c \in 1..(o - 1) : to + c \in DOMAIN after /\ after[to + c] = area[pos + c]
    /\ \A k \in 0..r :
          to + o + k \in DOMAIN after /\ after[to + o + k] = StringCells(v)[k + 1]
    /\ \A c \in (o + l + 1)..n :
          to + c + r - l \in DOMAIN after /\ after[to + c + r - l] = area[pos + c]

(* When a string is written over the old one and what stands behind it is  *)
(* moved by the difference of their lengths, the block spells the elements *)
(* with the new string, wherever the block has gone.                       *)
LEMMA StringReplaced ==
    ASSUME NEW area, NEW after, NEW pos \in Nat, NEW to \in Nat,
           NEW els \in Seq(ElementSet), Spells(area, pos, els),
           NEW m \in 1..Len(els), els[m].type = "STRING", NEW v \in DOMAIN StrLen,
           NEW new \in Seq(ElementSet), Revalued(new, els, m, v),
           NEW o \in Nat, NEW l \in Nat, NEW n \in Nat, NEW r \in Nat,
           StringPlace(els, m, o, l, n),
           StringMoved(area, pos, after, to, o, l, n, v, r)
    PROVE  Spells(after, to, new) /\ ElementsSize(new, Len(new)) = n + r - l
<1>1. /\ Len(new) = Len(els) /\ Len(els) \in Nat
      /\ \A k \in 1..Len(els) : k # m => new[k] = els[k]
      /\ new[m].key = els[m].key /\ new[m].type = els[m].type /\ new[m].val = v
      /\ new[m] \in ElementSet /\ els[m] \in ElementSet
  BY LenProperties DEF Revalued
<1>2. /\ ElementCells(new[m])[1] = ElementCells(els[m])[1]
      /\ \A k \in 1..(r + 1) : ElementCells(new[m])[k + 1] = StringCells(v)[k]
      /\ CalcElementSize(els[m]) = 1 + l /\ CalcElementSize(new[m]) = 1 + r
  <2>1. ASSUME NEW e \in ElementSet, e.type = "STRING"
        PROVE  /\ ElementCells(e)[1] = [key |-> e.key, type |-> e.type]
               /\ \A k \in 1..(StrLen[e.val] + 1) : ElementCells(e)[k + 1] = StringCells(e.val)[k]
               /\ CalcElementSize(e) = 1 + StrLen[e.val]
    BY <2>1, ElementCellsAre, ElementSpace
  <2>2. /\ ElementCells(new[m])[1] = [key |-> new[m].key, type |-> new[m].type]
        /\ \A k \in 1..(StrLen[new[m].val] + 1) :
              ElementCells(new[m])[k + 1] = StringCells(new[m].val)[k]
        /\ CalcElementSize(new[m]) = 1 + StrLen[new[m].val]
    BY <1>1, <2>1
  <2>3. /\ ElementCells(els[m])[1] = [key |-> els[m].key, type |-> els[m].type]
        /\ CalcElementSize(els[m]) = 1 + StrLen[els[m].val]
    BY <1>1, <2>1
  <2>4. r = StrLen[v] /\ l = StrLen[els[m].val]
    BY DEF StringPlace, StringMoved
  <2> QED
    BY <1>1, <2>2, <2>3, <2>4, Zenon
<1>3. \A k \in 0..Len(els) :
         ElementsSize(new, k) = IF k < m THEN ElementsSize(els, k)
                                ELSE ElementsSize(els, k) + r - l
  <2>1. \A k \in 1..Len(els) : k # m => CalcElementSize(new[k]) = CalcElementSize(els[k])
    BY <1>1
  <2>2. \A k \in 0..Len(els) :
           ElementsSize(new, k) =
              IF k < m THEN ElementsSize(els, k)
              ELSE ElementsSize(els, k) + CalcElementSize(new[m]) - CalcElementSize(els[m])
    BY <1>1, <2>1, ElementsSizeShifts
  <2>3. ASSUME NEW k \in 0..Len(els)
        PROVE  ElementsSize(new, k) = IF k < m THEN ElementsSize(els, k)
                                      ELSE ElementsSize(els, k) + r - l
    <3>1. PICK s \in Nat : s = ElementsSize(els, k)
      BY ElementsSizeAdds
    <3>2. s + (1 + r) - (1 + l) = s + r - l
      OBVIOUS
    <3> QED
      BY <1>2, <2>2, <3>1, <3>2
  <2> QED
    BY <2>3
<1>4. PICK t \in Nat : t = ElementsSize(els, m - 1)
  BY ElementInside
<1>5. o = t + 2 /\ ElementsSize(els, m) = t + 2 + l
  <2>1. ElementsSize(els, m) = ElementsSize(els, m - 1) + 1 + CalcElementSize(els[m])
    BY ElementInside
  <2>2. o = ElementsSize(els, m - 1) + 2
    BY DEF StringPlace
  <2>3. PICK y \in Nat : y = CalcElementSize(els[m]) /\ y = 1 + l
    BY <1>2
  <2> QED
    BY <1>4, <2>1, <2>2, <2>3
<1>9. o = t + 2 /\ r = StrLen[v]
  BY <1>5 DEF StringMoved
<1>6. ASSUME NEW k \in 1..Len(new), NEW c \in 1..(1 + CalcElementSize(new[k]))
      PROVE  /\ to + ElementsSize(new, k - 1) + c \in DOMAIN after
             /\ Meaning(after[to + ElementsSize(new, k - 1) + c]) = ElementCells(new[k])[c]
  <2>1. k \in 1..Len(els) /\ k - 1 \in 0..Len(els)
    BY <1>1
  <2>2. PICK s \in Nat : s = ElementsSize(els, k - 1)
    BY <2>1, ElementInside
  <2>3. PICK e \in Nat : e = CalcElementSize(els[k])
    BY <2>1, ElementInside
  <2>4. s + 1 + e <= n
    <3>1. ElementsSize(els, k) = ElementsSize(els, k - 1) + 1 + CalcElementSize(els[k])
          /\ ElementsSize(els, k) <= ElementsSize(els, Len(els))
      BY <2>1, ElementInside
    <3> QED
      BY <2>2, <2>3, <3>1 DEF StringPlace
  <2>5. \A b \in 1..(1 + e) : /\ pos + s + b \in DOMAIN area
                              /\ Meaning(area[pos + s + b]) = ElementCells(els[k])[b]
    BY <2>1, <2>2, <2>3 DEF Spells
  <2>6. CASE k = m
    <3>1. s = t /\ ElementsSize(new, k - 1) = s /\ c \in 1..(2 + r)
      <4>1. k - 1 < m
        BY <1>1, <2>6
      <4>2. s = t /\ ElementsSize(new, k - 1) = s
        BY <1>3, <1>4, <2>1, <2>2, <2>6, <4>1
      <4>3. c \in 1..(1 + (1 + r))
        BY <1>2, <2>6
      <4> QED
        BY <4>2, <4>3
    <3>2. CASE c = 1
      <4>1. s + c \in 1..(o - 1)
        BY <1>5, <3>1, <3>2
      <4>2. to + (s + c) \in DOMAIN after /\ after[to + (s + c)] = area[pos + (s + c)]
        BY <4>1 DEF StringMoved
      <4>3. to + s + c = to + (s + c) /\ pos + s + c = pos + (s + c) /\ c \in 1..(1 + e)
        BY <3>2
      <4>4. Meaning(area[pos + s + c]) = ElementCells(els[k])[c]
        BY <2>5, <4>3
      <4> QED
        BY <1>2, <2>6, <3>1, <3>2, <4>2, <4>3, <4>4, Zenon
    <3>3. CASE c # 1
      <4>1. PICK j : j = c - 2
        OBVIOUS
      <4>2. j \in 0..r /\ to + s + c = to + o + j /\ j + 1 \in 1..(r + 1) /\ (j + 1) + 1 = c
        <5>1. c \in 1..(2 + r) /\ c # 1 /\ o = t + 2 /\ s = t
          BY <1>9, <3>1, <3>3
        <5>2. j \in 0..r /\ j + 1 \in 1..(r + 1) /\ (j + 1) + 1 = c
          BY <4>1, <5>1
        <5>3. to + s + c = to + o + j
          BY <4>1, <5>1
        <5> QED
          BY <5>2, <5>3
      <4>3. after[to + o + j] = StringCells(v)[j + 1] /\ to + o + j \in DOMAIN after
        BY <4>2 DEF StringMoved
      <4>4. ElementCells(new[m])[(j + 1) + 1] = StringCells(v)[j + 1]
        BY <1>2, <4>2
      <4>5. Meaning(StringCells(v)[j + 1]) = StringCells(v)[j + 1]
        BY <1>9, <4>2, MeaningOfWritten
      <4> QED
        BY <2>6, <3>1, <4>2, <4>3, <4>4, <4>5, Zenon
    <3> QED
      BY <3>2, <3>3
  <2>7. CASE k < m
    <3>1. ElementsSize(new, k - 1) = s
      BY <1>1, <1>3, <2>1, <2>2, <2>7
    <3>2. new[k] = els[k] /\ c \in 1..(1 + e)
      <4>1. k # m
        BY <2>7
      <4>2. new[k] = els[k]
        BY <1>1, <2>1, <4>1
      <4> QED
        BY <2>3, <4>2
    <3>3. s + 1 + e <= t
      <4>1. ElementsSize(els, k) <= ElementsSize(els, m - 1)
            /\ ElementsSize(els, k) = ElementsSize(els, k - 1) + 1 + CalcElementSize(els[k])
        BY <2>1, <2>7, ElementInside
      <4> QED
        BY <1>4, <2>2, <2>3, <4>1
    <3>4. s + c \in 1..(o - 1) /\ to + s + c = to + (s + c) /\ pos + s + c = pos + (s + c)
      <4>1. c \in Nat /\ 1 <= c /\ c <= 1 + e
        BY <3>2
      <4>2. s + c \in 1..(t + 1)
        BY <3>3, <4>1
      <4>3. o - 1 = t + 1
        BY <1>9
      <4> QED
        BY <4>1, <4>2, <4>3
    <3>5. to + (s + c) \in DOMAIN after /\ after[to + (s + c)] = area[pos + (s + c)]
      BY <3>4 DEF StringMoved
    <3> QED
      BY <2>5, <3>1, <3>2, <3>4, <3>5, Zenon
  <2>8. CASE k > m
    <3>1. ElementsSize(new, k - 1) = s + r - l
      <4>1. ~(k - 1 < m)
        BY <1>1, <2>1, <2>8
      <4> QED
        BY <1>3, <2>1, <2>2, <4>1
    <3>2. new[k] = els[k] /\ c \in 1..(1 + e)
      BY <1>1, <2>1, <2>3, <2>8
    <3>3. t + 2 + l <= s
      <4>1. ElementsSize(els, m) <= ElementsSize(els, k - 1)
        BY <2>1, <2>8, ElementInside
      <4> QED
        BY <1>5, <2>2, <4>1
    <3>4. /\ s + c \in (o + l + 1)..n /\ pos + s + c = pos + (s + c)
          /\ to + (s + r - l) + c = to + (s + c) + r - l
      <4>1. PICK b \in Nat : b = c /\ b \in 1..(1 + e)
        BY <3>2
      <4>2. s + b \in (o + l + 1)..n /\ pos + s + b = pos + (s + b)
        BY <1>9, <2>4, <3>3, <4>1
      <4>3. to + (s + r - l) + b = to + (s + b) + r - l
        OBVIOUS
      <4> QED
        BY <4>1, <4>2, <4>3
    <3>5. /\ to + (s + c) + r - l \in DOMAIN after
          /\ after[to + (s + c) + r - l] = area[pos + (s + c)]
      BY <3>4 DEF StringMoved
    <3> QED
      BY <2>5, <3>1, <3>2, <3>4, <3>5, Zenon
  <2>9. k = m \/ k < m \/ k > m
    BY <1>1, <2>1
  <2> QED
    BY <2>6, <2>7, <2>8, <2>9
<1>7. Spells(after, to, new)
  BY <1>6 DEF Spells
<1>8. ElementsSize(new, Len(new)) = n + r - l
  <2>1. Len(els) \in 0..Len(els) /\ ~(Len(els) < m)
    BY <1>1
  <2> QED
    BY <1>1, <1>3, <2>1 DEF StringPlace
<1> QED
  BY <1>7, <1>8


-----------------------------------------------------------------------------
(* after is the area with n cells of image written at pos.                 *)
Wrote(after, area, pos, image, n) ==
    /\ DOMAIN after = DOMAIN area \cup pos..(pos + n - 1)
    /\ \A k \in 1..n : after[pos + k - 1] = image[k]
    /\ \A a \in DOMAIN area : a \notin pos..(pos + n - 1) => after[a] = area[a]

LEMMA WriteAtCells ==
    ASSUME NEW area, NEW pos \in Nat, NEW image, NEW n \in Nat, Len(image) = n
    PROVE  Wrote(WriteAt(area, pos, image), area, pos, image, n)
<1> DEFINE dom == DOMAIN area \cup pos..(pos + n - 1)
<1>1. WriteAt(area, pos, image) =
         [a \in dom |-> IF a \in pos..(pos + n - 1) THEN image[a - pos + 1] ELSE area[a]]
  BY DEF WriteAt
<1>2. ASSUME NEW k \in 1..n
      PROVE  WriteAt(area, pos, image)[pos + k - 1] = image[k]
  <2>1. pos + k - 1 \in pos..(pos + n - 1) /\ (pos + k - 1) - pos + 1 = k
    OBVIOUS
  <2> QED
    BY <1>1, <2>1
<1> QED
  BY <1>1, <1>2 DEF Wrote

(* The numbers of a rewriting: the size of the block, where its string is, *)
(* the length of the old string, the new string and its length.            *)
Rewriting(s, o, l, v, r) ==
    /\ s = Now.meta.size /\ o = Offset /\ l = StrLen[Old.val]
    /\ v = New.val /\ r = StrLen[v]

(* The tail, the block and the string are where they belong, and only the  *)
(* block is written to.                                                    *)
BlockRewritten(after, area, pos, s, o, l, v, r) ==
    /\ DOMAIN after = DOMAIN area \cup pos..(pos + s + r - l - 1)
    /\ after[pos] = [Now.meta EXCEPT !.size = @ + (r - l)]
    /\ StringMoved(area, pos, after, pos, o, l, s - 1, v, r)
    /\ \A a \in DOMAIN area :
          (a < pos \/ pos + s + r - l <= a) => after[a] = area[a]

(* The end of updateString. *)
LEMMA RewrittenCells ==
    ASSUME NEW area, NEW pos \in Nat,
           NEW s \in Nat, NEW o \in Nat \ {0}, NEW l \in Nat, NEW v \in DOMAIN StrLen, NEW r \in Nat,
           Rewriting(s, o, l, v, r), o + 1 + l <= s,
           DOMAIN area \subseteq Int, pos..(pos + s - 1) \subseteq DOMAIN area
    PROVE  BlockRewritten(Rewritten(area, pos), area, pos, s, o, l, v, r)
<1>1. PICK m : m = [Now.meta EXCEPT !.size = @ + (r - l)]
  OBVIOUS
<1>2. PICK from \in Nat : from = pos + o + 1 + l
  OBVIOUS
<1>3. PICK n \in Nat : n = pos + s - from
  BY <1>2
<1>15. PICK p \in Nat : p = pos + o + 1 + r
  OBVIOUS
<1>16. PICK q \in Nat : q = pos + o
  OBVIOUS
<1> DEFINE tail == [k \in 1..n |-> area[from + k - 1]]
           A1 == WriteAt(area, p, tail)
           A2 == WriteAt(A1, pos, <<m>>)
           A3 == WriteAt(A2, q, StringCells(v))
<1>4. Rewritten(area, pos) = A3
  <2>1. Rewritten(area, pos) =
           WriteAt(WriteAt(WriteAt(area, from + (r - l),
                                   [k \in 1..(pos + s - from) |-> area[from + k - 1]]),
                           pos, <<m>>),
                   pos + o, StringCells(v))
    BY <1>1, <1>2 DEF Rewritten, Rewriting, Delta
  <2>2. from + (r - l) = p
    BY <1>2, <1>15
  <2> QED
    BY <1>3, <1>16, <2>1, <2>2
<1>5. Len(tail) = n /\ \A k \in 1..n : tail[k] = area[from + k - 1]
  OBVIOUS
<1> HIDE DEF tail
<1>7. /\ DOMAIN A1 = DOMAIN area \cup (pos + o + 1 + r)..(pos + o + 1 + r + n - 1)
      /\ \A k \in 1..n : A1[pos + o + 1 + r + k - 1] = area[from + k - 1]
      /\ \A a \in DOMAIN area :
            a \notin (pos + o + 1 + r)..(pos + o + 1 + r + n - 1) => A1[a] = area[a]
  <2>1. Wrote(A1, area, p, tail, n)
    BY <1>5, WriteAtCells
  <2> HIDE DEF A1
  <2> QED
    BY <1>5, <1>15, <2>1 DEF Wrote
<1> HIDE DEF A1
<1>8. /\ DOMAIN A2 = DOMAIN A1 \cup {pos}
      /\ A2[pos] = m
      /\ \A a \in DOMAIN A1 : a # pos => A2[a] = A1[a]
  <2>1. Len(<<m>>) = 1 /\ 1 \in Nat /\ <<m>>[1] = m /\ 1 \in 1..1
    OBVIOUS
  <2>2. Wrote(A2, A1, pos, <<m>>, 1)
    BY <2>1, WriteAtCells
  <2> HIDE DEF A2
  <2>3. pos + 1 - 1 = pos /\ pos..(pos + 1 - 1) = {pos}
    OBVIOUS
  <2>4. A2[pos + 1 - 1] = <<m>>[1]
    BY <2>1, <2>2 DEF Wrote
  <2> QED
    BY <2>1, <2>2, <2>3, <2>4 DEF Wrote
<1> HIDE DEF A2
<1>9. /\ DOMAIN A3 = DOMAIN A2 \cup (pos + o)..(pos + o + r)
      /\ \A k \in 1..(r + 1) : A3[pos + o + k - 1] = StringCells(v)[k]
      /\ \A a \in DOMAIN A2 : a \notin (pos + o)..(pos + o + r) => A3[a] = A2[a]
  <2>1. r = StrLen[v]
    BY DEF Rewriting
  <2>2. PICK r1 \in Nat : r1 = r + 1
    OBVIOUS
  <2>3. Len(StringCells(v)) = r1
    BY <2>1, <2>2, StringCellsAre
  <2>4. Wrote(A3, A2, q, StringCells(v), r1)
    BY <2>3, WriteAtCells
  <2>5. q + r1 - 1 = pos + o + r
    BY <1>16, <2>2
  <2> HIDE DEF A3
  <2> QED
    BY <1>16, <2>2, <2>4, <2>5 DEF Wrote
<1> HIDE DEF A3
<1>10. pos + o + 1 + r + n - 1 = pos + s + r - l - 1 /\ n = s - o - 1 - l
  BY <1>2, <1>3
<1>11. DOMAIN A3 = DOMAIN area \cup pos..(pos + s + r - l - 1)
  <2>1. DOMAIN A3 = DOMAIN area \cup (pos + o + 1 + r)..(pos + s + r - l - 1)
                                \cup {pos} \cup (pos + o)..(pos + o + r)
    BY <1>7, <1>8, <1>9, <1>10
  <2>2. pos \in pos..(pos + s + r - l - 1) /\ pos..(pos + o - 1) \subseteq pos..(pos + s - 1)
    OBVIOUS
  <2>3. (pos + o)..(pos + o + r) \subseteq pos..(pos + s + r - l - 1)
    OBVIOUS
  <2>4. (pos + o + 1 + r)..(pos + s + r - l - 1) \subseteq pos..(pos + s + r - l - 1)
    OBVIOUS
  <2>5. pos..(pos + s + r - l - 1) \subseteq
           pos..(pos + o - 1) \cup (pos + o)..(pos + o + r)
              \cup (pos + o + 1 + r)..(pos + s + r - l - 1)
    OBVIOUS
  <2> QED
    BY <2>1, <2>2, <2>3, <2>4, <2>5
<1>12. A3[pos] = m
  BY <1>8, <1>9
<1>13. ASSUME NEW a \in DOMAIN area, a < pos \/ pos + s + r - l <= a, a \in Int
       PROVE  A3[a] = area[a]
  <2>1. /\ a \notin (pos + o)..(pos + o + r) /\ a # pos
        /\ a \notin (pos + o + 1 + r)..(pos + o + 1 + r + n - 1)
    BY <1>10, <1>13
  <2> QED
    BY <1>7, <1>8, <1>9, <2>1
<1>14. StringMoved(area, pos, A3, pos, o, l, s - 1, v, r)
  <2>1. ASSUME NEW c \in 1..(o - 1)
        PROVE  pos + c \in DOMAIN A3 /\ A3[pos + c] = area[pos + c]
    <3>1. /\ pos + c \in pos..(pos + s - 1)
          /\ pos + c \notin (pos + o)..(pos + o + r) /\ pos + c # pos
          /\ pos + c \notin (pos + o + 1 + r)..(pos + o + 1 + r + n - 1)
      OBVIOUS
    <3> QED
      BY <1>7, <1>8, <1>9, <3>1
  <2>2. ASSUME NEW k \in 0..r
        PROVE  pos + o + k \in DOMAIN A3 /\ A3[pos + o + k] = StringCells(v)[k + 1]
    <3>1. /\ k + 1 \in 1..(r + 1) /\ pos + o + (k + 1) - 1 = pos + o + k
          /\ pos + o + k \in (pos + o)..(pos + o + r)
      OBVIOUS
    <3> QED
      BY <1>9, <3>1
  <2>3. ASSUME NEW c \in (o + l + 1)..(s - 1)
        PROVE  pos + c + r - l \in DOMAIN A3 /\ A3[pos + c + r - l] = area[pos + c]
    <3>1. PICK k : k = c - o - l
      OBVIOUS
    <3>2. /\ k \in 1..n /\ pos + c + r - l = pos + o + 1 + r + k - 1
          /\ pos + c = from + k - 1
      BY <1>2, <1>10, <3>1
    <3>3. /\ pos + c + r - l \notin (pos + o)..(pos + o + r) /\ pos + c + r - l # pos
          /\ pos + c + r - l \in (pos + o + 1 + r)..(pos + o + 1 + r + n - 1)
      BY <1>10
    <3>4. A1[pos + c + r - l] = area[pos + c]
      BY <1>7, <3>2
    <3> QED
      BY <1>7, <1>8, <1>9, <3>3, <3>4
  <2> QED
    BY <2>1, <2>2, <2>3 DEF StringMoved, Rewriting
<1>17. \A a \in DOMAIN area : (a < pos \/ pos + s + r - l <= a) => A3[a] = area[a]
  BY <1>13
<1> QED
  BY <1>1, <1>4, <1>11, <1>12, <1>14, <1>17, Zenon DEF BlockRewritten

(* What an element of a document is made of in the file when the document  *)
(* is inserted.                                                            *)
LEMMA WrittenCellOf ==
    ASSUME NEW d \in Documents, NEW k \in 1..Len(ContentOf[d]),
           NEW c \in 1..(1 + CalcElementSize(ContentOf[d][k]))
    PROVE  /\ ElementsSize(ContentOf[d], k - 1) + c + 1 \in 2..DocSize[d]
           /\ Written[d][ElementsSize(ContentOf[d], k - 1) + c + 1] =
                 ElementCells(ContentOf[d][k])[c]
<1>1. PICK els : els = ContentOf[d]
  OBVIOUS
<1>2. els \in Seq(ElementSet) /\ DocSize[d] = 1 + ElementsSize(els, Len(els))
  BY <1>1, StringUpdateAssumption
<1>3. k \in 1..Len(els) /\ c \in 1..(1 + CalcElementSize(els[k])) /\ Len(els) \in Nat
  BY <1>1, <1>2, LenProperties
<1>4. PICK s \in Nat : s = ElementsSize(els, k - 1)
  BY <1>2, <1>3, ElementInside
<1>5. PICK e \in Nat : e = CalcElementSize(els[k])
  BY <1>2, <1>3, ElementInside
<1>6. PICK n \in Nat : n = ElementsSize(els, Len(els))
  BY <1>2, <1>3, ElementInside
<1>7. ElementsSize(els, k) = s + 1 + e /\ s + 1 + e <= n
  BY <1>2, <1>3, <1>4, <1>5, <1>6, ElementInside
<1>8. PICK at : at = s + c + 1
  OBVIOUS
<1>9. at \in 2..(1 + n) /\ c \in 1..(1 + e) /\ at - 1 - s = c
  BY <1>3, <1>5, <1>7, <1>8
<1> DEFINE Holds(j) == 1 + ElementsSize(els, j - 1) < at /\ at <= 1 + ElementsSize(els, j)
<1>10. Holds(k)
  <2>1. 1 + s < at /\ at <= 1 + (s + 1 + e)
    BY <1>8, <1>9
  <2> QED
    BY <1>4, <1>7, <2>1
<1>11. ASSUME NEW j \in 1..Len(els), Holds(j)
       PROVE  j = k
  <2>1. PICK p \in Nat, q \in Nat : p = ElementsSize(els, j - 1) /\ q = ElementsSize(els, j)
    BY <1>2, ElementInside
  <2>2. 1 + p < at /\ at <= 1 + q
    BY <1>11, <2>1
  <2>3. j < k => q <= s
    BY <1>2, <1>3, <1>4, <2>1, ElementInside
  <2>4. j > k => s + 1 + e <= p
    BY <1>2, <1>3, <1>7, <2>1, ElementInside
  <2>5. ~(j < k)
    BY <1>8, <1>9, <2>2, <2>3
  <2>6. ~(j > k)
    BY <1>8, <1>9, <2>2, <2>4
  <2> QED
    BY <1>3, <2>5, <2>6
<1>12. DOMAIN els = 1..Len(els)
  BY <1>2, LenProperties
<1> HIDE DEF Holds
<1>13. (CHOOSE j \in DOMAIN els : Holds(j)) = k
  BY <1>3, <1>10, <1>11, <1>12
<1>14. at \in 2..DocSize[d]
  BY <1>2, <1>6, <1>9
<1>15. Written[d][at] = ElementCells(els[k])[at - 1 - ElementsSize(els, k - 1)]
  <2>1. Written[d] = [b \in 2..DocSize[d] |->
           LET j == CHOOSE j \in DOMAIN els :
                       1 + ElementsSize(els, j - 1) < b /\ b <= 1 + ElementsSize(els, j)
           IN  ElementCells(els[j])[b - 1 - ElementsSize(els, j - 1)]]
    BY <1>1 DEF Written
  <2>2. Written[d][at] =
           LET j == CHOOSE j \in DOMAIN els :
                       1 + ElementsSize(els, j - 1) < at /\ at <= 1 + ElementsSize(els, j)
           IN  ElementCells(els[j])[at - 1 - ElementsSize(els, j - 1)]
    BY <1>14, <2>1
  <2> QED
    BY <1>13, <2>2 DEF Holds
<1> QED
  BY <1>1, <1>4, <1>8, <1>9, <1>14, <1>15


-----------------------------------------------------------------------------
(* The cells of the data area are those of the blocks and of what belongs  *)
(* to nobody; no block but one in use or a gap is linked to.               *)
Layout ==
    /\ DOMAIN disk = DataArea
    /\ BlocksApart
    /\ \A i \in Placed : Child(i) \in Placed \cup {NoDoc}

(* The elements behind a block can be read back.                           *)
Readable(i) == ReadDocument(i) \in Seq(ElementSet) /\ HasElements(i, ReadDocument(i))

ContentsReadable == \A i \in Ids : inode[i].status = CLOSE => Readable(i)

(* A string is the last of the elements to write.  (The places of the      *)
(* others are those of the document as it was read: they are out of date   *)
(* when a string in front of them has changed its length.)                 *)
StringLast(els) == \A k \in 1..Len(els) : els[k].type = "STRING" => k = Len(els)
StringsLast == \A new \in Updates : StringLast(new)

(* The elements of the document by which an update finds its way are, as   *)
(* far as that goes, those in the file.                                    *)
Alike(e, f) == SameKeyAndType(e, f) /\ (e.type = "STRING" => e.val = f.val)

CurrentUpdates ==
    [id : Ids, meta : Metas, document : Seq(ElementSet), new : Updates, todo : Seq(ElementSet)]

UpdateValid ==
    Updating =>
        /\ Len(update) = 1 /\ Now \in CurrentUpdates
        /\ Idle /\ inode[Now.id].status = CLOSE
        /\ Now.meta = MetaOf(Now.id)
        /\ StringLast(Now.todo)
        /\ Now.todo # << >> =>
              /\ list # << >>
              /\ Len(Now.document) = Len(ReadDocument(Now.id))
              /\ \A k \in 1..Len(Now.document) : Alike(ReadDocument(Now.id)[k], Now.document[k])
              /\ \A k \in 1..Len(Now.todo) : IndexOf(Now.document, Now.todo[k]) # 0

(* The inductive invariant of updates, for updates in which a string comes *)
(* last.                                                                   *)
UInv ==
    /\ StringsLast
    /\ Bookkeeping
    /\ Layout
    /\ ContentsReadable
    /\ UpdateValid

-----------------------------------------------------------------------------
(* Where the block of an inode that has a place lies.                      *)
LEMMA BlockPlace ==
    ASSUME Bookkeeping, Layout, NEW i \in Placed
    PROVE  /\ i \in Ids /\ inode[i].pos \in Nat
           /\ MetaOf(i) \in Metas /\ MetaOf(i).id = i
           /\ MetaOf(i).size \in Nat \ {0}
           /\ Child(i) \in Placed \cup {NoDoc}
           /\ header.endPosition \in Nat /\ DataStart \in Nat
           /\ DataStart <= inode[i].pos
           /\ inode[i].pos + MetaOf(i).size <= header.endPosition
           /\ inode[i].pos \in BlockCells(i)
           /\ BlockCells(i) \subseteq DOMAIN disk
           /\ DOMAIN disk \subseteq Nat
<1>1. /\ i \in Ids /\ inode[i].pos \in Nat
      /\ MetaOf(i) \in Metas /\ MetaOf(i).id = i
      /\ MetaOf(i).size \in Nat \ {0}
      /\ header.endPosition \in Nat /\ DataStart \in Nat
  BY NamedBlock, BookBasics
<1>2. /\ Child(i) \in Placed \cup {NoDoc}
      /\ BlockCells(i) \subseteq DataArea /\ DOMAIN disk = DataArea
  BY DEF Layout, BlocksApart
<1>3. PICK p \in Nat, n \in Nat \ {0} : p = inode[i].pos /\ n = MetaOf(i).size
  BY <1>1
<1>4. BlockCells(i) = p..(p + n - 1)
  BY <1>3 DEF BlockCells
<1>5. p \in p..(p + n - 1) /\ p + n - 1 \in p..(p + n - 1)
  OBVIOUS
<1>6. p \in DataArea /\ p + n - 1 \in DataArea
  BY <1>2, <1>4, <1>5
<1>7. DataStart <= p /\ p + n <= header.endPosition
  BY <1>1, <1>6 DEF DataArea
<1>8. DataArea \subseteq Nat
  BY <1>1 DEF DataArea
<1> QED
  BY <1>1, <1>2, <1>3, <1>4, <1>5, <1>7, <1>8

(* Documents in use have a place.                                          *)
LEMMA InUsePlaced ==
    ASSUME Bookkeeping, NEW i \in Ids, inode[i].status = CLOSE
    PROVE  i \in Placed
  BY BookBasics DEF Placed

(* The cells behind the block of document i are all those the elements     *)
(* take: when they are copied, the elements go with them.                  *)
LEMMA ElementsMoved ==
    ASSUME Bookkeeping, Layout, NEW i \in Placed, NEW els \in Seq(ElementSet),
           HasElements(i, els), NEW j, NEW to \in Nat, to = inode'[j].pos,
           MetaOf(j)'.size = MetaOf(i).size, MetaOf(j)'.doc = MetaOf(i).doc,
           Copied(disk, inode[i].pos, disk', to, MetaOf(i).size - 1)
    PROVE  HasElements(j, els)'
<1>1. /\ Len(els) = Len(ContentOf[MetaOf(i).doc])
      /\ MetaOf(i).size = 1 + ElementsSize(els, Len(els))
      /\ Spells(disk, inode[i].pos, els)
  BY DEF HasElements
<1>2. ElementsSize(els, Len(els)) \in Nat /\ inode[i].pos \in Nat
  <2>1. Len(els) \in 0..Len(els)
    BY LenProperties
  <2> QED
    BY <2>1, ElementsSizeAdds, BlockPlace
<1>3. PICK n \in Nat : n = ElementsSize(els, Len(els))
  BY <1>2
<1>4. MetaOf(i).size - 1 = n
  BY <1>1, <1>3
<1>5. Copied(disk, inode[i].pos, disk', to, ElementsSize(els, Len(els)))
  BY <1>3, <1>4
<1>6. Spells(disk', to, els)
  BY <1>1, <1>2, <1>5, SpellsMoved
<1> QED
  BY <1>1, <1>6 DEF HasElements

(* A document whose cells nobody writes to but to relink its block.        *)
LEMMA BlockKept ==
    ASSUME Bookkeeping, Layout, NEW i \in Placed, inode'[i].pos = inode[i].pos,
           MetaOf(i)'.size = MetaOf(i).size, MetaOf(i)'.doc = MetaOf(i).doc,
           \A a \in BlockCells(i) :
              a # inode[i].pos => a \in DOMAIN disk' /\ disk'[a] = disk[a]
    PROVE  /\ BlockCells(i)' = BlockCells(i)
           /\ \A els \in Seq(ElementSet) : HasElements(i, els) => HasElements(i, els)'
<1>1. PICK p \in Nat, n \in Nat \ {0} : p = inode[i].pos /\ n = MetaOf(i).size
  BY BlockPlace
<1>2. BlockCells(i) = p..(p + n - 1)
  BY <1>1 DEF BlockCells
<1>3. BlockCells(i)' = BlockCells(i)
  BY DEF BlockCells
<1>4. \A c \in 1..(n - 1) : p + c \in DOMAIN disk' /\ disk'[p + c] = disk[p + c]
  <2>1. \A c \in 1..(n - 1) : p + c \in p..(p + n - 1) /\ p + c # p
    OBVIOUS
  <2> QED
    BY <1>1, <1>2, <2>1
<1>5. ASSUME NEW els \in Seq(ElementSet), HasElements(i, els)
      PROVE  HasElements(i, els)'
  <2>1. Copied(disk, inode[i].pos, disk', p, MetaOf(i).size - 1)
    BY <1>1, <1>4 DEF Copied
  <2>2. p = inode'[i].pos
    BY <1>1
  <2> QED
    BY <1>5, <2>1, <2>2, ElementsMoved
<1> QED
  BY <1>3, <1>5

(* A document whose elements are known in the next state is readable.      *)
LEMMA ReadableNext ==
    ASSUME NEW i, NEW els \in Seq(ElementSet), inode'[i].pos \in Nat, HasElements(i, els)'
    PROVE  ReadDocument(i)' = els /\ Readable(i)'
<1>1. ReadDocument(i)' = els
  BY DocumentsReadNext DEF ReadsAsWritten
<1> QED
  BY <1>1 DEF Readable


-----------------------------------------------------------------------------
(* Both insertions write document d for inode id at pos, where no other    *)
(* block has cells.                                                        *)
PlaceFor(d, pos) == pos..(pos + DocSize[d] - 1)

Inserts(id, pos, parent, d) ==
    /\ AcceptsParent(parent) /\ inode[id].status # CLOSE
    /\ \A i \in Placed \ {id} : BlockCells(i) \cap PlaceFor(d, pos) = {}
    /\ inode'[id].status = CLOSE /\ inode'[id].pos = pos
    /\ \A i \in Ids \ {id} : inode'[i] = inode[i]
    /\ disk' = WithDocument(NewMeta(id, parent, d), pos, parent)

(* What they leave: the new block, its elements behind it, every other     *)
(* block as it was but for the parent's child.                             *)
Inserted(id, pos, parent, d) ==
    /\ DOMAIN disk' = DOMAIN disk \cup PlaceFor(d, pos)
    /\ MetaOf(id)' = NewMeta(id, parent, d) /\ NewMeta(id, parent, d) \in Metas
    /\ \A k \in 2..DocSize[d] : disk'[pos + k - 1] = [doc |-> d, at |-> k]
    /\ \A i \in Placed \ {id} :
          /\ MetaOf(i)' = BlockAfter(i, parent, id)
          /\ \A a \in BlockCells(i) :
                a # inode[i].pos => a \in DOMAIN disk' /\ disk'[a] = disk[a]

LEMMA InsertWrites ==
    ASSUME Bookkeeping, Layout,
           NEW id \in Ids, NEW parent \in Links, NEW d \in Documents, NEW pos \in Nat,
           Inserts(id, pos, parent, d)
    PROVE  Inserted(id, pos, parent, d)
<1>1. PICK n \in Nat \ {0} : n = DocSize[d]
  BY BookBasics
<1>2. PICK meta : meta = NewMeta(id, parent, d)
  OBVIOUS
<1>3. parent # NoDoc => parent \in Placed /\ parent # id
  BY BookBasics DEF Inserts, AcceptsParent, Status, Placed, Links
<1>4. meta \in Metas /\ meta.size = n /\ meta.doc = d /\ meta.id = id
  <2>1. (IF parent = NoDoc THEN NoDoc ELSE MetaOf(parent).child) \in Links
    BY <1>3, NamedBlock DEF Links, Child
  <2> QED
    BY <1>1, <1>2, <2>1 DEF NewMeta, Metas, Links
<1> DEFINE plain == WriteAt(disk, pos, Image(meta))
<1>5. Len(Image(meta)) = n /\ Image(meta)[1] = meta
      /\ \A k \in 2..n : Image(meta)[k] = [doc |-> d, at |-> k]
  <2>1. Image(meta) = [k \in 1..n |-> IF k = 1 THEN meta ELSE [doc |-> d, at |-> k]]
    BY <1>4 DEF Image
  <2> QED
    BY <2>1
<1>6. Wrote(plain, disk, pos, Image(meta), n)
  BY <1>5, WriteAtCells
<1> HIDE DEF plain
<1>7. /\ DOMAIN plain = DOMAIN disk \cup pos..(pos + n - 1)
      /\ plain[pos] = meta
      /\ \A k \in 2..n : plain[pos + k - 1] = [doc |-> d, at |-> k]
      /\ \A a \in DOMAIN disk : a \notin pos..(pos + n - 1) => plain[a] = disk[a]
  <2>1. pos + 1 - 1 = pos /\ 1 \in 1..n /\ \A k \in 2..n : k \in 1..n
    OBVIOUS
  <2>2. plain[pos + 1 - 1] = Image(meta)[1]
    BY <1>6, <2>1 DEF Wrote
  <2> QED
    BY <1>5, <1>6, <2>1, <2>2 DEF Wrote
<1>8. disk' = IF parent = NoDoc THEN plain
              ELSE [plain EXCEPT ![inode[parent].pos] = [MetaOf(parent) EXCEPT !.child = id]]
  BY <1>2, <1>4 DEF Inserts, WithDocument, plain
<1>9. ASSUME NEW i \in Placed \ {id}
      PROVE  /\ i \in Ids /\ inode'[i] = inode[i]
             /\ inode[i].pos \in BlockCells(i) /\ BlockCells(i) \subseteq DOMAIN disk
             /\ \A a \in BlockCells(i) : a \notin pos..(pos + n - 1)
  BY <1>1, BlockPlace DEF Inserts, PlaceFor
<1>10. pos \in pos..(pos + n - 1) /\ \A k \in 2..n : pos + k - 1 \in pos..(pos + n - 1)
  OBVIOUS
<1>11. \A i \in Placed \ {id} : \A a \in BlockCells(i) : plain[a] = disk[a] /\ a \in DOMAIN plain
  BY <1>7, <1>9
<1>12. CASE parent = NoDoc
  <2>1. disk' = plain
    BY <1>8, <1>12
  <2>2. \A i \in Placed \ {id} : MetaOf(i)' = BlockAfter(i, parent, id)
    <3>1. \A i \in Placed \ {id} : i # parent /\ disk'[inode'[i].pos] = disk[inode[i].pos]
      BY <1>9, <1>11, <1>12, <2>1, BookBasics
    <3> QED
      BY <3>1 DEF MetaOf, BlockAfter
  <2>3. MetaOf(id)' = meta
    BY <1>7, <2>1 DEF MetaOf, Inserts
  <2> QED
    BY <1>1, <1>2, <1>4, <1>7, <1>9, <1>11, <2>1, <2>2, <2>3 DEF Inserted, PlaceFor
<1>13. CASE parent # NoDoc
  <2>1. PICK at : at = inode[parent].pos
    OBVIOUS
  <2>2. PICK block : block = [MetaOf(parent) EXCEPT !.child = id]
    OBVIOUS
  <2>3. disk' = [plain EXCEPT ![at] = block]
    BY <1>8, <1>13, <2>1, <2>2
  <2>4. at \in BlockCells(parent) /\ at \in DOMAIN disk /\ at \notin pos..(pos + n - 1)
    BY <1>3, <1>9, <1>13, <2>1
  <2>5. ASSUME NEW i \in Placed \ {id}, NEW a \in BlockCells(i), a # inode[i].pos \/ i # parent
        PROVE  a # at
    <3>1. i # parent => BlockCells(i) \cap BlockCells(parent) = {}
      BY <1>3, <1>13 DEF Layout, BlocksApart
    <3> QED
      BY <2>1, <2>4, <2>5, <3>1
  <2>6. DOMAIN disk' = DOMAIN plain /\ disk'[at] = block
        /\ \A a \in DOMAIN plain : a # at => disk'[a] = plain[a]
    BY <1>7, <2>3, <2>4
  <2>7. MetaOf(id)' = meta
    BY <1>7, <1>10, <2>4, <2>6 DEF MetaOf, Inserts
  <2>8. ASSUME NEW i \in Placed \ {id}
        PROVE  MetaOf(i)' = BlockAfter(i, parent, id)
    <3>1. CASE i = parent
      BY <1>9, <2>1, <2>2, <2>6, <3>1 DEF MetaOf, BlockAfter
    <3>2. CASE i # parent
      <4>1. inode[i].pos # at /\ inode[i].pos \in DOMAIN plain
            /\ plain[inode[i].pos] = disk[inode[i].pos] /\ inode'[i] = inode[i]
        BY <1>9, <1>11, <2>5, <3>2
      <4> QED
        BY <2>6, <3>2, <4>1 DEF MetaOf, BlockAfter
    <3> QED
      BY <3>1, <3>2
  <2>9. \A k \in 2..n : disk'[pos + k - 1] = [doc |-> d, at |-> k]
    <3>1. \A k \in 2..n : pos + k - 1 # at /\ pos + k - 1 \in DOMAIN plain
      BY <1>7, <1>10, <2>4
    <3> QED
      BY <1>7, <2>6, <3>1
  <2>10. \A i \in Placed \ {id} : \A a \in BlockCells(i) :
            a # inode[i].pos => a \in DOMAIN disk' /\ disk'[a] = disk[a]
    BY <1>11, <2>5, <2>6
  <2> QED
    BY <1>1, <1>2, <1>4, <1>7, <2>6, <2>7, <2>8, <2>9, <2>10 DEF Inserted, PlaceFor
<1> QED
  BY <1>12, <1>13

(* The new document has the elements it was inserted with.                 *)
LEMMA InsertedElements ==
    ASSUME Bookkeeping,
           NEW id \in Ids, NEW parent \in Links, NEW d \in Documents, NEW pos \in Nat,
           inode'[id].pos = pos, Inserted(id, pos, parent, d)
    PROVE  ContentOf[d] \in Seq(ElementSet) /\ HasElements(id, ContentOf[d])'
<1>1. PICK els \in Seq(ElementSet) : els = ContentOf[d]
  BY StringUpdateAssumption
<1>2. DocSize[d] = 1 + ElementsSize(els, Len(els))
  BY <1>1, StringUpdateAssumption
<1>3. PICK meta : meta = NewMeta(id, parent, d)
  OBVIOUS
<1>4. MetaOf(id)' = meta /\ meta.size = DocSize[d] /\ meta.doc = d
  BY <1>3 DEF Inserted, NewMeta
<1>5. ASSUME NEW k \in 1..Len(els), NEW c \in 1..(1 + CalcElementSize(els[k]))
      PROVE  /\ pos + ElementsSize(els, k - 1) + c \in DOMAIN disk'
             /\ Meaning(disk'[pos + ElementsSize(els, k - 1) + c]) = ElementCells(els[k])[c]
  <2>1. PICK s \in Nat : s = ElementsSize(els, k - 1)
    BY ElementInside
  <2>2. s + c + 1 \in 2..DocSize[d] /\ Written[d][s + c + 1] = ElementCells(els[k])[c]
    <3>1. /\ k \in 1..Len(ContentOf[d])
          /\ c \in 1..(1 + CalcElementSize(ContentOf[d][k]))
      BY <1>1
    <3>2. /\ ElementsSize(ContentOf[d], k - 1) + c + 1 \in 2..DocSize[d]
          /\ Written[d][ElementsSize(ContentOf[d], k - 1) + c + 1] =
                ElementCells(ContentOf[d][k])[c]
      BY <3>1, WrittenCellOf
    <3> QED
      BY <1>1, <2>1, <3>2
  <2>3. DocSize[d] \in Nat \ {0}
    BY BookBasics
  <2>4. CalcElementSize(els[k]) \in Nat
    BY ElementInside
  <2>5. PICK b \in Nat : b = c
    BY <2>4
  <2>6. pos + (s + b + 1) - 1 = pos + s + b
        /\ pos + s + b \in pos..(pos + DocSize[d] - 1)
    <3>1. PICK n \in Nat : n = DocSize[d]
      BY <2>3
    <3>2. s + b + 1 \in 2..n
      BY <2>2, <2>5, <3>1
    <3>3. pos + (s + b + 1) - 1 = pos + s + b /\ pos + s + b \in pos..(pos + n - 1)
      BY <3>2
    <3> QED
      BY <3>1, <3>3
  <2>7. disk'[pos + (s + b + 1) - 1] = [doc |-> d, at |-> s + b + 1]
    BY <2>2, <2>5 DEF Inserted
  <2>8. Meaning([doc |-> d, at |-> s + b + 1]) = Written[d][s + b + 1]
    <3>1. DOMAIN [doc |-> d, at |-> s + b + 1] = {"doc", "at"}
      OBVIOUS
    <3> QED
      BY <3>1 DEF Meaning
  <2>9. pos + s + b \in DOMAIN disk'
    BY <2>6 DEF Inserted, PlaceFor
  <2> QED
    BY <2>1, <2>2, <2>5, <2>6, <2>7, <2>8, <2>9
<1>6. Spells(disk', pos, els)
  BY <1>5 DEF Spells
<1>7. HasElements(id, els)'
  BY <1>1, <1>2, <1>4, <1>6 DEF HasElements
<1> QED
  BY <1>1, <1>7

(* An insertion leaves the blocks apart and every document readable.       *)
LEMMA InsertedFile ==
    ASSUME Bookkeeping, Layout, ContentsReadable, Bookkeeping',
           NEW id \in Ids, NEW parent \in Links, NEW d \in Documents, NEW pos \in Nat,
           Inserts(id, pos, parent, d),
           DataArea' = DataArea \cup PlaceFor(d, pos)
    PROVE  Layout' /\ ContentsReadable'
<1>1. Inserted(id, pos, parent, d)
  BY InsertWrites
<1>2. /\ inode'[id].status = CLOSE /\ inode'[id].pos = pos
      /\ \A i \in Ids \ {id} : inode'[i] = inode[i]
      /\ \A i \in Placed \ {id} : BlockCells(i) \cap PlaceFor(d, pos) = {}
  BY DEF Inserts
<1>3. Placed' = Placed \cup {id}
  BY <1>2, BookBasics DEF Placed
<1>4. DOMAIN disk' = DataArea'
  BY <1>1 DEF Layout, Inserted
<1>5. MetaOf(id)'.size = DocSize[d] /\ Child(id)' = NoDoc
  <2>1. MetaOf(id)' = NewMeta(id, parent, d)
    BY <1>1 DEF Inserted
  <2> QED
    BY <2>1 DEF NewMeta, Child
<1>6. BlockCells(id)' = PlaceFor(d, pos)
  BY <1>2, <1>5 DEF BlockCells, PlaceFor
<1>7. ASSUME NEW i \in Placed \ {id}
      PROVE  /\ i \in Ids /\ inode'[i] = inode[i]
             /\ BlockCells(i)' = BlockCells(i) /\ BlockCells(i) \subseteq DataArea
             /\ Child(i)' \in Placed \cup {id, NoDoc}
             /\ \A els \in Seq(ElementSet) : HasElements(i, els) => HasElements(i, els)'
  <2>1. i \in Ids /\ inode'[i] = inode[i] /\ MetaOf(i) \in Metas /\ BlockCells(i) \subseteq DataArea
        /\ Child(i) \in Placed \cup {NoDoc}
    BY <1>2, BlockPlace DEF Layout
  <2>2. MetaOf(i)' = BlockAfter(i, parent, id)
    BY <1>1 DEF Inserted
  <2>3. MetaOf(i)'.size = MetaOf(i).size /\ MetaOf(i)'.doc = MetaOf(i).doc
        /\ Child(i)' \in {Child(i), id}
    BY <2>1, <2>2 DEF BlockAfter, Metas, Child
  <2>4. \A a \in BlockCells(i) : a # inode[i].pos => a \in DOMAIN disk' /\ disk'[a] = disk[a]
    BY <1>1 DEF Inserted
  <2> QED
    BY <2>1, <2>3, <2>4, BlockKept
<1>8. BlocksApart'
  <2>1. \A i \in Placed' : MetaOf(i)'.id = i
    BY DEF Bookkeeping
  <2>2. \A i \in Placed' : BlockCells(i)' \subseteq DataArea'
    BY <1>3, <1>6, <1>7
  <2>3. ASSUME NEW i \in Placed', NEW j \in Placed', i # j
        PROVE  BlockCells(i)' \cap BlockCells(j)' = {}
    <3>1. CASE i = id
      BY <1>2, <1>3, <1>6, <1>7, <2>3, <3>1
    <3>2. CASE j = id
      BY <1>2, <1>3, <1>6, <1>7, <2>3, <3>2
    <3>3. CASE i # id /\ j # id
      <4>1. BlockCells(i) \cap BlockCells(j) = {}
        BY <1>3, <2>3, <3>3 DEF Layout, BlocksApart
      <4> QED
        BY <1>3, <1>7, <3>3, <4>1
    <3> QED
      BY <3>1, <3>2, <3>3
  <2> QED
    BY <2>1, <2>2, <2>3 DEF BlocksApart
<1>9. \A i \in Placed' : Child(i)' \in Placed' \cup {NoDoc}
  BY <1>3, <1>5, <1>7
<1>10. ASSUME NEW i \in Ids, inode'[i].status = CLOSE
       PROVE  Readable(i)'
  <2>1. CASE i = id
    <3>1. PICK els \in Seq(ElementSet) : HasElements(id, els)'
      BY <1>1, <1>2, InsertedElements
    <3> QED
      BY <1>2, <2>1, <3>1, ReadableNext
  <2>2. CASE i # id
    <3>1. i \in Placed \ {id} /\ inode[i].status = CLOSE /\ inode'[i].pos = inode[i].pos
      BY <1>2, <1>10, <2>2, InUsePlaced
    <3>2. PICK els \in Seq(ElementSet) : HasElements(i, els)
      BY <3>1 DEF ContentsReadable, Readable
    <3>3. HasElements(i, els)' /\ inode'[i].pos \in Nat
      BY <1>7, <3>1, <3>2, BookBasics
    <3> QED
      BY <3>3, ReadableNext
  <2> QED
    BY <2>1, <2>2
<1> QED
  BY <1>4, <1>8, <1>9, <1>10 DEF Layout, ContentsReadable

(* writeDocument puts a document into the gap at the front of the list.    *)
LEMMA InsertIntoGapKeeps ==
    ASSUME Bookkeeping, Layout, ContentsReadable,
           NEW parent \in Links, NEW d \in Documents, InsertIntoGap(parent, d)
    PROVE  Bookkeeping' /\ Layout' /\ ContentsReadable'
<1>0. PICK id : id = list[1].index
  OBVIOUS
<1>1. /\ Idle /\ AcceptsParent(parent) /\ list # << >> /\ list[1].size >= DocSize[d]
      /\ inode[id].status = REMOVE
      /\ inode' = [inode EXCEPT ![id].status = CLOSE]
      /\ list' = PopMaxSizeNode(list)
      /\ disk' = WithDocument(NewMeta(id, parent, d), inode[id].pos, parent)
      /\ header' = WithRoot(header, id)
      /\ diskHeader' = IF header.root = NoDoc THEN header' ELSE diskHeader
      /\ result' = TRUE /\ stack' = stack
  BY <1>0 DEF InsertIntoGap, FitsGap
<1>2. /\ inode \in [Ids -> Inodes] /\ header \in Headers /\ diskHeader \in Headers
      /\ stack = << >>
  BY <1>1 DEF Bookkeeping, Idle
<1>3. /\ id \in Ids /\ id \in Placed /\ inode[id].status # CLOSE
      /\ list[1].size \in Nat /\ NodeMatches(list[1])
      /\ list' \in Seq(Nodes(Ids)) /\ Once(list') /\ Sorted(list')
      /\ NodesOn(list') \subseteq NodesOn(list) /\ Indexes(list') = Indexes(list) \ {id}
  BY <1>0, <1>1, FrontTaken, BookBasics DEF Placed
<1>4. PICK pos \in Nat, n \in Nat \ {0} : pos = inode[id].pos /\ n = MetaOf(id).size
  BY <1>3, BlockPlace
<1>5. DocSize[d] \in Nat \ {0} /\ DocSize[d] <= n
  <2>1. list[1].size = n
    BY <1>0, <1>1, <1>3, <1>4, BookBasics DEF NodeMatches
  <2> QED
    BY <1>1, <2>1, BookBasics
<1>6. PlaceFor(d, pos) \subseteq BlockCells(id)
  <2>1. BlockCells(id) = pos..(pos + n - 1)
    BY <1>4 DEF BlockCells
  <2> QED
    BY <1>5, <2>1 DEF PlaceFor
<1>7. /\ inode' \in [Ids -> Inodes]
      /\ inode'[id].pos = pos /\ inode'[id].status = CLOSE
      /\ \A i \in Ids \ {id} : inode'[i] = inode[i]
  BY <1>1, <1>2, <1>3, <1>4 DEF Inodes
<1>8. Inserts(id, pos, parent, d)
  <2>1. \A i \in Placed \ {id} : BlockCells(i) \cap BlockCells(id) = {}
    BY <1>3 DEF Layout, BlocksApart
  <2> QED
    BY <1>1, <1>3, <1>4, <1>6, <1>7, <2>1 DEF Inserts
<1>9. /\ header' \in Headers /\ diskHeader' \in Headers
      /\ header'.endPosition = header.endPosition
  BY <1>1, <1>2, <1>3, RootKept
<1>10. Bookkeeping'
  <2>1. Inserted(id, pos, parent, d)
    BY <1>3, <1>8, InsertWrites
  <2>2. /\ MetaOf(id)' = NewMeta(id, parent, d) /\ NewMeta(id, parent, d) \in Metas
        /\ \A i \in Placed \ {id} : MetaOf(i)' = BlockAfter(i, parent, id)
    BY <2>1 DEF Inserted
  <2>3. MetaOf(id)' \in Metas /\ MetaOf(id)'.id = id /\ Child(id)' = NoDoc
    BY <2>2 DEF NewMeta, Child
  <2>4. DataStart <= header'.endPosition
    BY <1>9, BookBasics
  <2>5. \A i \in Ids \ {id} : inode'[i].status = inode[i].status
    BY <1>7
  <2> QED
    BY <1>1, <1>2, <1>3, <1>7, <1>9, <2>2, <2>3, <2>4, <2>5, InsertBooks
<1>11. DataArea' = DataArea \cup PlaceFor(d, pos)
  <2>1. DataArea' = DataArea
    BY <1>9 DEF DataArea
  <2> QED
    BY <1>3, <1>6, <2>1 DEF Layout, BlocksApart
<1> QED
  BY <1>3, <1>8, <1>10, <1>11, InsertedFile

(* writeDocument puts a document behind all the others.                    *)
LEMMA InsertAtEndKeeps ==
    ASSUME Bookkeeping, Layout, ContentsReadable,
           NEW parent \in Links, NEW d \in Documents, InsertAtEnd(parent, d)
    PROVE  Bookkeeping' /\ Layout' /\ ContentsReadable'
<1>0. PICK id : id = Last(list).index
  OBVIOUS
<1>00. PICK pos \in Nat : pos = header.endPosition
  BY BookBasics
<1>1. /\ Idle /\ AcceptsParent(parent) /\ list # << >> /\ Last(list).size = 0
      /\ inode' = [inode EXCEPT ![id] = [status |-> CLOSE, pos |-> pos, size |-> DocSize[d]]]
      /\ list' = PopMinSizeNode(list)
      /\ disk' = WithDocument(NewMeta(id, parent, d), pos, parent)
      /\ header' = WithRoot([header EXCEPT !.endPosition = pos + DocSize[d]], id)
      /\ diskHeader' = header' /\ result' = TRUE /\ stack' = stack
  BY <1>0, <1>00 DEF InsertAtEnd, FitsEnd, PlaceAtEnd
<1>2. inode \in [Ids -> Inodes] /\ header \in Headers /\ stack = << >>
  BY <1>1 DEF Bookkeeping, Idle
<1>3. /\ id \in Ids /\ inode[id].status = OPEN /\ inode[id].status # CLOSE
      /\ list' \in Seq(Nodes(Ids)) /\ Once(list') /\ Sorted(list')
      /\ NodesOn(list') \subseteq NodesOn(list) /\ Indexes(list') = Indexes(list) \ {id}
  BY <1>0, <1>1, BackTaken
<1>4. PICK n \in Nat \ {0} : n = DocSize[d]
  BY BookBasics
<1>5. /\ inode' \in [Ids -> Inodes]
      /\ inode'[id].status = CLOSE /\ inode'[id].pos = pos
      /\ \A i \in Ids \ {id} : inode'[i] = inode[i]
  <2>1. [status |-> CLOSE, pos |-> pos, size |-> DocSize[d]] \in Inodes
    BY <1>4 DEF Inodes
  <2> QED
    BY <1>1, <1>2, <1>3, <2>1
<1>6. /\ header' \in Headers /\ header'.endPosition = pos + n
  <2>1. [header EXCEPT !.endPosition = pos + DocSize[d]] \in Headers
        /\ [header EXCEPT !.endPosition = pos + DocSize[d]].endPosition = pos + n
    BY <1>2, <1>4 DEF Headers
  <2> QED
    BY <1>1, <1>3, <2>1, RootKept
<1>7. DataStart \in Nat /\ DataStart <= pos
  BY <1>00, BookBasics
<1>8. DataArea' = DataArea \cup PlaceFor(d, pos) /\ DataArea \cap PlaceFor(d, pos) = {}
  <2>1. DataArea = DataStart..(pos - 1) /\ DataArea' = DataStart..(pos + n - 1)
        /\ PlaceFor(d, pos) = pos..(pos + n - 1)
    BY <1>00, <1>4, <1>6 DEF DataArea, PlaceFor
  <2> QED
    BY <1>7, <2>1
<1>9. Inserts(id, pos, parent, d)
  <2>1. \A i \in Placed \ {id} : BlockCells(i) \subseteq DataArea
    BY DEF Layout, BlocksApart
  <2> QED
    BY <1>1, <1>3, <1>5, <1>8, <2>1 DEF Inserts
<1>10. Bookkeeping'
  <2>1. Inserted(id, pos, parent, d)
    BY <1>3, <1>9, InsertWrites
  <2>2. /\ MetaOf(id)' = NewMeta(id, parent, d) /\ NewMeta(id, parent, d) \in Metas
        /\ \A i \in Placed \ {id} : MetaOf(i)' = BlockAfter(i, parent, id)
    BY <2>1 DEF Inserted
  <2>3. MetaOf(id)' \in Metas /\ MetaOf(id)'.id = id /\ Child(id)' = NoDoc
    BY <2>2 DEF NewMeta, Child
  <2>4. DataStart <= header'.endPosition
    BY <1>6, <1>7
  <2>5. \A i \in Ids \ {id} : inode'[i].status = inode[i].status
    BY <1>5
  <2> QED
    BY <1>1, <1>2, <1>3, <1>5, <1>6, <2>2, <2>3, <2>4, <2>5, InsertBooks
<1> QED
  BY <1>3, <1>8, <1>9, <1>10, InsertedFile

(* A step that writes no cell and moves no document.                       *)
LEMMA FileKept ==
    ASSUME Bookkeeping, Layout, ContentsReadable, Bookkeeping',
           UNCHANGED <<header, disk>>, Placed' = Placed,
           \A i \in Ids : /\ inode'[i].pos = inode[i].pos
                          /\ inode'[i].status = CLOSE => inode[i].status = CLOSE
    PROVE  Layout' /\ ContentsReadable'
<1>1. ASSUME NEW i \in Placed
      PROVE  /\ i \in Ids /\ inode'[i].pos = inode[i].pos /\ MetaOf(i)' = MetaOf(i)
             /\ BlockCells(i)' = BlockCells(i) /\ Child(i)' = Child(i)
             /\ \A els \in Seq(ElementSet) : HasElements(i, els) => HasElements(i, els)'
  <2>1. i \in Ids /\ inode'[i].pos = inode[i].pos /\ BlockCells(i) \subseteq DOMAIN disk
    BY BlockPlace
  <2>2. MetaOf(i)' = MetaOf(i) /\ Child(i)' = Child(i)
    BY <2>1 DEF MetaOf, Child
  <2>3. \A a \in BlockCells(i) : a \in DOMAIN disk' /\ disk'[a] = disk[a]
    BY <2>1
  <2> QED
    BY <2>1, <2>2, <2>3, BlockKept
<1>2. DataArea' = DataArea
  BY DEF DataArea
<1>3. BlocksApart'
  <2>1. \A i \in Placed' : MetaOf(i)'.id = i
    BY DEF Bookkeeping
  <2>2. \A i \in Placed : BlockCells(i) \subseteq DataArea
        /\ \A j \in Placed : i # j => BlockCells(i) \cap BlockCells(j) = {}
    BY DEF Layout, BlocksApart
  <2>3. \A i \in Placed : BlockCells(i)' = BlockCells(i)
    BY <1>1
  <2> QED
    BY <1>2, <2>1, <2>2, <2>3 DEF BlocksApart
<1>4. \A i \in Placed' : Child(i)' \in Placed' \cup {NoDoc}
  BY <1>1 DEF Layout
<1>5. ASSUME NEW i \in Ids, inode'[i].status = CLOSE
      PROVE  Readable(i)'
  <2>1. i \in Placed /\ inode[i].status = CLOSE
    BY <1>5, InUsePlaced
  <2>2. PICK els \in Seq(ElementSet) : HasElements(i, els)
    BY <2>1 DEF ContentsReadable, Readable
  <2>3. HasElements(i, els)' /\ inode'[i].pos \in Nat
    BY <1>1, <2>1, <2>2, BookBasics
  <2> QED
    BY <2>3, ReadableNext
<1> QED
  BY <1>2, <1>3, <1>4, <1>5 DEF Layout, ContentsReadable

(* The queries between the updates keep the file in order.                 *)
LEMMA ClientKeeps ==
    ASSUME Bookkeeping, Layout, ContentsReadable, Client
    PROVE  Bookkeeping' /\ Layout' /\ ContentsReadable'
<1>1. header.root \in Links
  BY DEF Bookkeeping, Headers
<1>2. CASE \E d \in Documents : InsertIntoGap(header.root, d)
  BY <1>1, <1>2, InsertIntoGapKeeps
<1>3. CASE \E d \in Documents : InsertAtEnd(header.root, d)
  BY <1>1, <1>3, InsertAtEndKeeps
<1>4. CASE \E id \in Ids : DeleteDocument(id)
  <2>1. PICK id \in Ids : DeleteDocument(id)
    BY <1>4
  <2>2. Bookkeeping'
    BY <2>1, DeleteDocumentBooks
  <2>3. UNCHANGED <<header, inode, disk>>
    BY <2>1 DEF DeleteDocument
  <2>4. Placed' = Placed
    BY <2>3 DEF Placed
  <2> QED
    BY <2>2, <2>3, <2>4, FileKept
<1>5. CASE DeleteStep
  <2>1. Bookkeeping'
    BY <1>5, DeleteStepBooks
  <2>2. /\ UNCHANGED <<header, disk>> /\ Placed' = Placed
        /\ \A i \in Ids : /\ inode'[i].pos = inode[i].pos
                          /\ inode'[i].status = CLOSE => inode[i].status = CLOSE
    BY <1>5, DeleteStepKeeps
  <2> QED
    BY <2>1, <2>2, FileKept
<1> QED
  BY <1>2, <1>3, <1>4, <1>5 DEF Client

-----------------------------------------------------------------------------
(* getIndexForDocumentUpdate finds an element with the key and the type.   *)
LEMMA IndexFound ==
    ASSUME NEW els \in Seq(ElementSet), NEW e, IndexOf(els, e) # 0
    PROVE  IndexOf(els, e) \in 1..Len(els) /\ SameKeyAndType(els[IndexOf(els, e)], e)
<1> DEFINE I == {k \in 1..Len(els) : SameKeyAndType(els[k], e)}
<1>1. IndexOf(els, e) = IF I # {} THEN Min(I) ELSE 0
  BY DEF IndexOf, SelectInSeq
<1>2. I # {} /\ IndexOf(els, e) = Min(I)
  BY <1>1
<1>3. I \in SUBSET Nat
  BY LenProperties
<1>4. PICK k \in I : \A j \in I : k <= j
  BY <1>2, <1>3, LeastElement
<1> HIDE DEF I
<1>5. Min(I) \in I
  BY <1>4 DEF Min
<1> QED
  BY <1>2, <1>5 DEF I

(* The element an update writes next: the elements els of the document in  *)
(* the file, the element e to write, its place m among them and the offset *)
(* o of its value in the block.                                            *)
Writes(els, m, e, o) ==
    /\ els = ReadDocument(Now.id) /\ e = New /\ m = Index /\ o = Offset
    /\ els \in Seq(ElementSet) /\ HasElements(Now.id, els)
    /\ m \in 1..Len(els) /\ e \in ElementSet /\ SameKeyAndType(els[m], e)
    /\ o \in Nat \ {0} /\ o = ElementsSize(els, m - 1) + 2
    /\ e.type = "STRING" => Old.val = els[m].val

(* The places of the elements are still those of the document as it was    *)
(* read.                                                                   *)
LEMMA ElementToWrite ==
    ASSUME UInv, Updating, Now.todo # << >>
    PROVE  \E els, m, e, o : Writes(els, m, e, o)
<1>1. /\ Now.id \in Ids /\ inode[Now.id].status = CLOSE
      /\ Now.document \in Seq(ElementSet) /\ Now.todo \in Seq(ElementSet)
      /\ Len(Now.document) = Len(ReadDocument(Now.id))
      /\ \A k \in 1..Len(Now.document) : Alike(ReadDocument(Now.id)[k], Now.document[k])
      /\ \A k \in 1..Len(Now.todo) : IndexOf(Now.document, Now.todo[k]) # 0
  BY DEF UInv, UpdateValid, CurrentUpdates
<1>2. PICK els \in Seq(ElementSet) : els = ReadDocument(Now.id) /\ HasElements(Now.id, els)
  BY <1>1 DEF UInv, ContentsReadable, Readable
<1>3. PICK e \in ElementSet : e = New /\ IndexOf(Now.document, e) # 0
  <2>1. 1 \in 1..Len(Now.todo)
    BY <1>1, EmptySeq, LenProperties
  <2>2. New = Now.todo[1] /\ New \in ElementSet
    BY <1>1, HeadTailProperties DEF New
  <2> QED
    BY <1>1, <2>1, <2>2
<1>4. PICK old \in Seq(ElementSet) :
         /\ old = Now.document /\ Len(old) = Len(els)
         /\ \A k \in 1..Len(old) : Alike(els[k], old[k])
  BY <1>1, <1>2
<1>5. PICK m \in 1..Len(els) : m = Index /\ SameKeyAndType(old[m], e)
  BY <1>3, <1>4, IndexFound DEF Index
<1>6. /\ SameKeyAndType(els[m], e)
      /\ e.type = "STRING" => Old.val = els[m].val
  <2>1. Alike(els[m], old[m]) /\ Old = old[m]
    BY <1>4, <1>5 DEF Old
  <2> QED
    BY <1>5, <2>1 DEF Alike, SameKeyAndType
<1>7. PICK s \in Nat : s = ElementsSize(els, m - 1)
  BY ElementInside
<1>8. Offset = s + 2
  <2>1. \A k \in 1..Len(els) : CalcElementSize(old[k]) = CalcElementSize(els[k])
    <3> TAKE k \in 1..Len(els)
    <3>1. Alike(els[k], old[k]) /\ els[k] \in ElementSet /\ old[k] \in ElementSet
      BY <1>4, LenProperties
    <3> QED
      BY <3>1, ElementSpace DEF Alike, SameKeyAndType
  <2>2. m - 1 \in 0..Len(els)
    BY LenProperties
  <2>3. ElementsSize(old, m - 1) = s
    BY <1>4, <1>7, <2>1, <2>2, SameSizes
  <2>4. KeySize = 1
    BY StringUpdateAssumption
  <2>5. Offset = 1 + s + 1
    BY <1>4, <1>5, <2>3, <2>4 DEF Offset
  <2> QED
    BY <2>5
<1>9. Writes(els, m, e, s + 2)
  BY <1>2, <1>3, <1>5, <1>6, <1>7, <1>8 DEF Writes
<1> QED
  BY <1>9

(* What is left to write once an element has been written.                 *)
LEMMA TodoLeft ==
    ASSUME UInv, Updating, Now.todo # << >>
    PROVE  /\ Tail(Now.todo) \in Seq(ElementSet) /\ StringLast(Tail(Now.todo))
           /\ New.type = "STRING" => Tail(Now.todo) = << >>
           /\ \A k \in 1..Len(Tail(Now.todo)) : IndexOf(Now.document, Tail(Now.todo)[k]) # 0
<1>1. PICK todo \in Seq(ElementSet) :
         /\ todo = Now.todo /\ todo # << >> /\ StringLast(todo)
         /\ \A k \in 1..Len(todo) : IndexOf(Now.document, todo[k]) # 0
  BY DEF UInv, UpdateValid, CurrentUpdates
<1>0. /\ Tail(todo) \in Seq(ElementSet) /\ Len(Tail(todo)) = Len(todo) - 1
      /\ \A k \in 1..Len(Tail(todo)) : Tail(todo)[k] = todo[k + 1]
  BY <1>1, HeadTailProperties
<1>2. PICK rest \in Seq(ElementSet) :
         /\ rest = Tail(todo) /\ Len(rest) = Len(todo) - 1
         /\ \A k \in 1..Len(rest) : rest[k] = todo[k + 1]
  BY <1>0, Zenon
<1>3. Len(todo) \in Nat \ {0} /\ Len(rest) \in Nat
  BY <1>1, EmptySeq, LenProperties
<1>4. \A k \in 1..Len(rest) : k + 1 \in 1..Len(todo)
  BY <1>2, <1>3
<1>5. ASSUME NEW k \in 1..Len(rest), rest[k].type = "STRING"
      PROVE  k = Len(rest)
  <2>1. PICK j \in 1..Len(todo) : j = k + 1 /\ todo[j].type = "STRING"
    BY <1>2, <1>4, <1>5
  <2>2. j = Len(todo)
    BY <1>1, <2>1, Zenon DEF StringLast
  <2>3. Len(rest) = Len(todo) - 1 /\ j = k + 1
    BY <1>2, <2>1
  <2>4. k \in Int
    OBVIOUS
  <2> QED
    BY <1>3, <2>2, <2>3, <2>4
<1>7. StringLast(rest)
  BY <1>5 DEF StringLast
<1>6. New.type = "STRING" => rest = << >>
  <2> SUFFICES ASSUME New.type = "STRING" PROVE rest = << >>
    OBVIOUS
  <2>1. New = todo[1] /\ 1 \in 1..Len(todo)
    BY <1>1, <1>3, HeadTailProperties DEF New
  <2>2. Len(todo) = 1
    BY <1>1, <2>1 DEF StringLast
  <2>3. Len(rest) = 0
    BY <1>2, <2>2
  <2> QED
    BY <2>3, EmptySeq
<1>8. \A k \in 1..Len(rest) : IndexOf(Now.document, rest[k]) # 0
  BY <1>1, <1>2, <1>4
<1> QED
  BY <1>1, <1>2, <1>6, <1>7, <1>8

(* The document x that is updated has the elements new by now, and every   *)
(* other document those it had.                                            *)
ElementUpdated(x, new) ==
    /\ Next1(MetaOf(x)') /\ UNCHANGED stack
    /\ inode'[x].status = CLOSE
    /\ HasElements(x, new)'
    /\ \A i \in Ids \ {x} : inode'[i].status = CLOSE =>
          /\ inode[i].status = CLOSE
          /\ \A els \in Seq(ElementSet) : HasElements(i, els) => HasElements(i, els)'

(* What readDocument gives then.                                           *)
LEMMA DocumentsUpdated ==
    ASSUME UInv, Bookkeeping', NEW x \in Ids, NEW new \in Seq(ElementSet),
           ElementUpdated(x, new)
    PROVE  /\ ContentsReadable' /\ ReadDocument(x)' = new
           /\ \A i \in Ids \ {x} :
                 inode'[i].status = CLOSE => ReadDocument(i)' = ReadDocument(i)
<1>1. \A i \in Ids : inode'[i].pos \in Nat
  BY DEF Bookkeeping, Inodes
<1>2. ReadDocument(x)' = new /\ Readable(x)'
  BY <1>1, ReadableNext DEF ElementUpdated
<1>3. ASSUME NEW i \in Ids \ {x}, inode'[i].status = CLOSE
      PROVE  ReadDocument(i)' = ReadDocument(i) /\ Readable(i)'
  <2>1. PICK els \in Seq(ElementSet) : els = ReadDocument(i) /\ HasElements(i, els)
    BY <1>3 DEF ElementUpdated, UInv, ContentsReadable, Readable
  <2>2. HasElements(i, els)'
    BY <1>3, <2>1 DEF ElementUpdated
  <2> QED
    BY <1>1, <2>1, <2>2, ReadableNext
<1> QED
  BY <1>2, <1>3 DEF ContentsReadable

(* Where the next element of an update stands is known as long as one is   *)
(* left: only the value of an element of fixed size has changed.           *)
LEMMA StillAlike ==
    ASSUME NEW els \in Seq(ElementSet), NEW m \in 1..Len(els), NEW e \in ElementSet,
           SameKeyAndType(els[m], e), e.type # "STRING",
           NEW new \in Seq(ElementSet), new = els \/ Revalued(new, els, m, e.val)
    PROVE  Len(new) = Len(els) /\ \A k \in 1..Len(els) : Alike(new[k], els[k])
<1>1. CASE new = els
  BY <1>1 DEF Alike, SameKeyAndType
<1>2. CASE Revalued(new, els, m, e.val)
  <2>1. /\ Len(new) = Len(els) /\ \A k \in 1..Len(els) : k # m => new[k] = els[k]
        /\ new[m].key = els[m].key /\ new[m].type = els[m].type
    BY <1>2 DEF Revalued
  <2>2. new[m].type # "STRING"
    BY <2>1 DEF SameKeyAndType
  <2> QED
    BY <2>1, <2>2 DEF Alike, SameKeyAndType
<1> QED
  BY <1>1, <1>2

(* An element has been written: the invariant holds again.                 *)
LEMMA ElementDone ==
    ASSUME UInv, Updating, Now.todo # << >>, NEW x, x = Now.id,
           NEW els, NEW m, NEW e, NEW o, Writes(els, m, e, o),
           NEW new \in Seq(ElementSet), new = els \/ Revalued(new, els, m, e.val),
           Bookkeeping', Layout', ElementUpdated(x, new),
           New.type = "STRING" \/ list' = list
    PROVE  UInv'
<1>1. PICK u \in CurrentUpdates :
         /\ u = Now /\ u.id = x /\ inode[x].status = CLOSE /\ u.todo # << >> /\ Idle /\ list # << >>
         /\ Len(u.document) = Len(els)
         /\ \A k \in 1..Len(u.document) : Alike(els[k], u.document[k])
  BY DEF UInv, UpdateValid, Writes
<1>2. /\ x \in Ids /\ x \in Placed' /\ u.document \in Seq(ElementSet)
      /\ els \in Seq(ElementSet) /\ m \in 1..Len(els) /\ e \in ElementSet
      /\ SameKeyAndType(els[m], e) /\ e = New
  <2>1. inode'[x].status # OPEN
    BY BookBasics DEF ElementUpdated, UInv
  <2> QED
    BY <1>1, <2>1 DEF CurrentUpdates, Writes, Placed
<1>3. PICK rest \in Seq(ElementSet) :
         /\ rest = Tail(u.todo) /\ StringLast(rest)
         /\ New.type = "STRING" => rest = << >>
         /\ \A k \in 1..Len(rest) : IndexOf(u.document, rest[k]) # 0
  BY <1>1, TodoLeft
<1>4. PICK meta \in Metas : meta = MetaOf(x)'
  BY <1>2 DEF Bookkeeping
<1>5. ContentsReadable' /\ ReadDocument(x)' = new
  BY <1>2, DocumentsUpdated
<1>6. PICK w \in CurrentUpdates :
         /\ update' = <<w>> /\ w.id = x /\ w.meta = meta /\ w.document = u.document
         /\ w.todo = rest
  <2>1. update' = <<[u EXCEPT !.meta = meta, !.todo = rest]>>
    BY <1>1, <1>3, <1>4 DEF ElementUpdated, Next1
  <2>2. PICK w : w = [u EXCEPT !.meta = meta, !.todo = rest]
    OBVIOUS
  <2>3. /\ w \in CurrentUpdates /\ w.id = x /\ w.meta = meta /\ w.document = u.document
        /\ w.todo = rest
    BY <1>1, <2>2 DEF CurrentUpdates
  <2> QED
    BY <2>1, <2>2, <2>3
<1>7. ASSUME rest # << >>
      PROVE  /\ Len(u.document) = Len(new)
             /\ \A k \in 1..Len(u.document) : Alike(new[k], u.document[k])
  <2>1. Len(new) = Len(els) /\ \A k \in 1..Len(els) : Alike(new[k], els[k])
    BY <1>2, <1>3, <1>7, StillAlike
  <2>2. \A f, g, h : Alike(f, g) /\ Alike(g, h) => Alike(f, h)
    BY DEF Alike, SameKeyAndType
  <2> QED
    BY <1>1, <2>1, <2>2
<1>8. UpdateValid'
  <2>1. Now' = w /\ Len(update') = 1
    BY <1>6 DEF Now
  <2>2. Idle'
    BY <1>1 DEF Idle, ElementUpdated
  <2>3. inode'[x].status = CLOSE
    BY DEF ElementUpdated
  <2>4. w.meta = MetaOf(x)' /\ StringLast(w.todo)
    BY <1>3, <1>4, <1>6
  <2>5. ASSUME w.todo # << >>
        PROVE  /\ Len(w.document) = Len(ReadDocument(x)')
               /\ \A k \in 1..Len(w.document) : Alike(ReadDocument(x)'[k], w.document[k])
               /\ \A k \in 1..Len(w.todo) : IndexOf(w.document, w.todo[k]) # 0
               /\ list' # << >>
    BY <1>1, <1>3, <1>5, <1>6, <1>7, <2>5
  <2>6. /\ MetaOf(Now.id)' = MetaOf(x)' /\ ReadDocument(Now.id)' = ReadDocument(x)'
        /\ inode'[Now'.id] = inode'[x]
    BY <1>6, <2>1
  <2> QED
    BY <1>6, <2>1, <2>2, <2>3, <2>4, <2>5, <2>6 DEF UpdateValid
<1> QED
  BY <1>5, <1>8 DEF UInv, StringsLast

-----------------------------------------------------------------------------
(* The file is in order, and an update has changed no document but x, and  *)
(* no link.                                                                *)
OthersKept(x) ==
    /\ Bookkeeping' /\ Layout'
    /\ \A i \in Placed : Child(i)' = Child(i) /\ Brother(i)' = Brother(i)
    /\ \A i \in Ids : inode'[i].status = CLOSE <=> inode[i].status = CLOSE
    /\ \A i \in Placed \ {x} : \A els \in Seq(ElementSet) :
          HasElements(i, els) => HasElements(i, els)'

(* An update that leaves block x in its place, n cells long by now: it     *)
(* writes to the cells of the block, and to new ones at the end.           *)
UpdatedInPlace(x, n) ==
    /\ UNCHANGED <<inode, list, stack, result>>
    /\ header' \in Headers /\ diskHeader' \in Headers
    /\ header.endPosition <= header'.endPosition
    /\ n \in Nat \ {0} /\ MetaOf(x)' = [MetaOf(x) EXCEPT !.size = n]
    /\ DOMAIN disk' = DataArea' /\ DataArea \subseteq DataArea'
    /\ \A a \in DataArea \ BlockCells(x) : disk'[a] = disk[a]
    /\ inode[x].pos..(inode[x].pos + n - 1) \subseteq BlockCells(x) \cup (DataArea' \ DataArea)

LEMMA InPlaceKeeps ==
    ASSUME Bookkeeping, Layout, Idle, NEW x \in Placed, inode[x].status = CLOSE,
           NEW n, UpdatedInPlace(x, n)
    PROVE  OthersKept(x)
<1>1. /\ UNCHANGED <<inode, list, stack, result>>
      /\ header' \in Headers /\ diskHeader' \in Headers
      /\ header.endPosition <= header'.endPosition
      /\ n \in Nat \ {0} /\ MetaOf(x)' = [MetaOf(x) EXCEPT !.size = n]
      /\ DOMAIN disk' = DataArea' /\ DataArea \subseteq DataArea'
      /\ \A a \in DataArea \ BlockCells(x) : disk'[a] = disk[a]
  BY DEF UpdatedInPlace
<1>2. Placed' = Placed
  BY <1>1 DEF Placed
<1>3. ASSUME NEW i \in Placed \ {x}
      PROVE  /\ MetaOf(i)' = MetaOf(i) /\ BlockCells(i)' = BlockCells(i)
             /\ \A els \in Seq(ElementSet) : HasElements(i, els) => HasElements(i, els)'
  <2>1. /\ inode[i].pos \in BlockCells(i) /\ BlockCells(i) \subseteq DataArea
        /\ BlockCells(i) \cap BlockCells(x) = {}
    BY BlockPlace DEF Layout, BlocksApart
  <2>2. \A a \in BlockCells(i) : a \in DOMAIN disk' /\ disk'[a] = disk[a]
    BY <1>1, <2>1
  <2>3. MetaOf(i)' = MetaOf(i) /\ inode'[i].pos = inode[i].pos
    BY <1>1, <2>1, <2>2 DEF MetaOf
  <2> QED
    BY <2>2, <2>3, BlockKept
<1>4. /\ MetaOf(x)' \in Metas /\ MetaOf(x)'.id = x /\ MetaOf(x)'.size = n
      /\ Child(x)' = Child(x) /\ Brother(x)' = Brother(x)
  <2>1. MetaOf(x) \in Metas /\ MetaOf(x).id = x
    BY NamedBlock
  <2> QED
    BY <1>1, <2>1 DEF Metas, Child, Brother
<1>5. \A i \in Placed : /\ MetaOf(i)' \in Metas /\ MetaOf(i)'.id = i
                        /\ Child(i)' = Child(i) /\ Brother(i)' = Brother(i)
  BY <1>3, <1>4, NamedBlock DEF Child, Brother
<1>6. FreeListExact'
  <2>1. /\ Indexes(list) = {i \in Ids : inode[i].status # CLOSE}
        /\ \A m \in NodesOn(list) : NodeMatches(m) /\ m.index \in Indexes(list)
        /\ Once(list) /\ Sorted(list)
    BY DEF Bookkeeping, FreeListExact, Listed, Once, Indexes, NodesOn
  <2>2. ASSUME NEW m \in NodesOn(list) PROVE NodeMatches(m)'
    <3>1. m.index \in Ids \ {x} /\ NodeMatches(m)
      BY <2>1
    <3>2. inode[m.index].status = REMOVE => m.index \in Placed \ {x}
      BY <3>1, BookBasics DEF Placed
    <3> QED
      BY <1>1, <1>3, <3>1, <3>2 DEF NodeMatches
  <2> QED
    BY <1>1, <2>1, <2>2 DEF FreeListExact, Listed, Once, Indexes, NodesOn
<1>7. NoChildCycle'
  BY <1>2, <1>5 DEF Bookkeeping, NoChildCycle
<1>8. Bookkeeping'
  <2>1. StackChained' /\ DataStart <= header'.endPosition
    <3>1. header'.endPosition \in Nat
      BY <1>1 DEF Headers
    <3> QED
      BY <1>1, <3>1, BookBasics DEF StackChained, Idle
  <2> QED
    BY <1>1, <1>2, <1>5, <1>6, <1>7, <2>1 DEF Bookkeeping
<1>9. /\ BlockCells(x)' = inode[x].pos..(inode[x].pos + n - 1)
      /\ BlockCells(x)' \subseteq BlockCells(x) \cup (DataArea' \ DataArea)
  BY <1>1, <1>4 DEF BlockCells, UpdatedInPlace
<1>10. Layout'
  <2>1. \A i \in Placed : BlockCells(i) \subseteq DataArea
        /\ \A j \in Placed : i # j => BlockCells(i) \cap BlockCells(j) = {}
    BY DEF Layout, BlocksApart
  <2>5. BlockCells(x)' \subseteq DataArea'
    BY <1>1, <1>9, <2>1
  <2>6. \A i \in Placed \ {x} : BlockCells(i)' \subseteq DataArea'
    BY <1>1, <1>3, <2>1
  <2>2. \A i \in Placed' : MetaOf(i)'.id = i /\ BlockCells(i)' \subseteq DataArea'
    BY <1>2, <1>5, <2>5, <2>6
  <2>3. ASSUME NEW i \in Placed', NEW j \in Placed', i # j
        PROVE  BlockCells(i)' \cap BlockCells(j)' = {}
    <3>1. i # x => BlockCells(i)' = BlockCells(i) /\ BlockCells(i) \subseteq DataArea
      BY <1>2, <1>3, <2>1
    <3>2. j # x => BlockCells(j)' = BlockCells(j) /\ BlockCells(j) \subseteq DataArea
      BY <1>2, <1>3, <2>1
    <3>3. BlockCells(i) \cap BlockCells(j) = {}
      BY <1>2, <2>1, <2>3
    <3> QED
      BY <1>9, <2>3, <3>1, <3>2, <3>3
  <2>4. \A i \in Placed' : Child(i)' \in Placed' \cup {NoDoc}
    BY <1>2, <1>5 DEF Layout
  <2> QED
    BY <1>1, <2>2, <2>3, <2>4 DEF Layout, BlocksApart
<1> QED
  BY <1>1, <1>3, <1>5, <1>8, <1>10 DEF OthersKept

(* What is known of the document that is updated.                          *)
LEMMA UpdatedDocument ==
    ASSUME UInv, Updating, NEW x, x = Now.id
    PROVE  /\ x \in Ids /\ x \in Placed /\ inode[x].status = CLOSE /\ Idle
           /\ Pos = inode[x].pos /\ Now.meta = MetaOf(x)
<1>1. Now \in CurrentUpdates /\ inode[x].status = CLOSE /\ Idle /\ Now.meta = MetaOf(x)
  BY DEF UInv, UpdateValid
<1>2. x \in Ids
  BY <1>1 DEF CurrentUpdates
<1> QED
  BY <1>1, <1>2, InUsePlaced DEF UInv, Pos

(* The step of an update that leaves the others as they are has written    *)
(* the elements of x, if it has.                                           *)
LEMMA OthersHave ==
    ASSUME UInv, NEW x \in Ids, inode[x].status = CLOSE, OthersKept(x)
    PROVE  /\ inode'[x].status = CLOSE
           /\ \A i \in Ids \ {x} : inode'[i].status = CLOSE =>
                 /\ inode[i].status = CLOSE
                 /\ \A els \in Seq(ElementSet) : HasElements(i, els) => HasElements(i, els)'
<1>1. /\ \A i \in Ids : inode'[i].status = CLOSE <=> inode[i].status = CLOSE
      /\ \A i \in Placed \ {x} : \A els \in Seq(ElementSet) :
            HasElements(i, els) => HasElements(i, els)'
  BY DEF OthersKept
<1>2. \A i \in Ids : inode[i].status = CLOSE => i \in Placed
  BY InUsePlaced DEF UInv
<1> QED
  BY <1>1, <1>2

(* A value of fixed size is written over the old one.                      *)
LEMMA UpdateFixedKeeps ==
    ASSUME UInv, UpdateFixed, NEW x, x = Now.id,
           NEW els, NEW m, NEW e, NEW o, Writes(els, m, e, o)
    PROVE  OthersKept(x) /\ ElementUpdated(x, [els EXCEPT ![m].val = e.val])
<1>1. /\ Updating /\ Now.todo # << >> /\ New.type # "STRING"
      /\ disk' = WriteAt(disk, Pos + Offset, <<[val |-> New.val]>>)
      /\ Next1(Now.meta) /\ UNCHANGED <<header, diskHeader, inode, list, stack, result>>
  BY DEF UpdateFixed, WritesElement
<1>2. /\ x \in Ids /\ x \in Placed /\ inode[x].status = CLOSE /\ Idle
      /\ Pos = inode[x].pos /\ Now.meta = MetaOf(x)
  BY <1>1, UpdatedDocument
<1>3. /\ e = New /\ o = Offset /\ els \in Seq(ElementSet) /\ HasElements(x, els)
      /\ m \in 1..Len(els) /\ e \in ElementSet /\ SameKeyAndType(els[m], e)
      /\ o = ElementsSize(els, m - 1) + 2 /\ o \in Nat
      /\ els[m].type # "STRING"
  BY <1>1 DEF Writes, SameKeyAndType
<1>4. PICK pos \in Nat, n \in Nat \ {0} : pos = inode[x].pos /\ n = MetaOf(x).size
  BY <1>2, BlockPlace DEF UInv
<1>5. PICK at \in Nat : at = pos + o
  BY <1>3
<1>6. at \in pos..(pos + n - 1) /\ at # pos
  <2>1. PICK s \in Nat, c \in Nat \ {0}, t \in Nat :
           /\ s = ElementsSize(els, m - 1) /\ c = CalcElementSize(els[m])
           /\ t = ElementsSize(els, Len(els)) /\ s + 1 + c <= t
    BY <1>3, ElementSpan
  <2>2. n = 1 + t
    BY <1>3, <1>4, <2>1 DEF HasElements
  <2>3. o = s + 2
    BY <1>3, <2>1
  <2>4. s + 1 + c <= t
    BY <2>1
  <2>5. at = pos + s + 2 /\ s + 2 <= n - 1
    BY <1>5, <2>2, <2>3, <2>4
  <2> QED
    BY <2>5
<1>7. PICK new \in Seq(ElementSet) :
         new = [els EXCEPT ![m].val = e.val] /\ Revalued(new, els, m, e.val)
  BY <1>3, RevaluedElements
<1>8. BlockCells(x) = pos..(pos + n - 1) /\ DOMAIN disk = DataArea /\ BlockCells(x) \subseteq DOMAIN disk
  BY <1>2, <1>4, BlockPlace DEF BlockCells, UInv, Layout
<1>9. /\ DOMAIN disk' = DOMAIN disk /\ disk'[at] = [val |-> e.val]
      /\ \A a \in DOMAIN disk : a # at => disk'[a] = disk[a]
  <2>1. Len(<<[val |-> New.val]>>) = 1 /\ <<[val |-> New.val]>>[1] = [val |-> e.val]
    BY <1>3
  <2>2. disk' = WriteAt(disk, at, <<[val |-> New.val]>>)
    BY <1>1, <1>2, <1>3, <1>4, <1>5
  <2>3. Wrote(disk', disk, at, <<[val |-> New.val]>>, 1)
    BY <2>1, <2>2, WriteAtCells
  <2>4. at..(at + 1 - 1) = {at} /\ at + 1 - 1 = at /\ 1 \in 1..1
    OBVIOUS
  <2> QED
    BY <1>6, <1>8, <2>1, <2>3, <2>4 DEF Wrote
<1>10. MetaOf(x)' = MetaOf(x) /\ DataArea' = DataArea
  <2>1. pos \in DOMAIN disk
    BY <1>8
  <2> QED
    BY <1>1, <1>4, <1>6, <1>9, <2>1 DEF MetaOf, DataArea
<1>11. UpdatedInPlace(x, n)
  <2>1. MetaOf(x)' = [MetaOf(x) EXCEPT !.size = n]
    BY <1>2, <1>4, <1>10, NamedBlock DEF Metas, UInv
  <2>2. header' \in Headers /\ diskHeader' \in Headers /\ header.endPosition <= header'.endPosition
    BY <1>1, BookBasics DEF UInv, Bookkeeping
  <2> QED
    BY <1>1, <1>4, <1>6, <1>8, <1>9, <1>10, <2>1, <2>2 DEF UpdatedInPlace
<1>12. OthersKept(x)
  BY <1>2, <1>11, InPlaceKeeps DEF UInv
<1>13. HasElements(x, new)'
  <2>1. Spells(disk, pos, els)
    BY <1>3, <1>4 DEF HasElements
  <2>2. at = pos + ElementsSize(els, m - 1) + 2
    <3>1. PICK s \in Nat : s = ElementsSize(els, m - 1)
      BY <1>3, ElementInside
    <3> QED
      BY <1>3, <1>5, <3>1
  <2>5. ValueWritten(disk, disk', at, e.val)
    BY <1>9 DEF ValueWritten
  <2>3. Spells(disk', pos, new) /\ ElementsSize(new, Len(new)) = ElementsSize(els, Len(els))
    <3>1. PICK v : v = e.val /\ Revalued(new, els, m, v) /\ ValueWritten(disk, disk', at, v)
      BY <1>7, <2>5
    <3>2. els \in Seq(ElementSet) /\ m \in 1..Len(els) /\ els[m].type # "STRING"
      BY <1>3
    <3> QED
      BY <2>1, <2>2, <3>1, <3>2, ValueReplaced
  <2>4. Len(new) = Len(els) /\ inode'[x].pos = pos
    BY <1>1, <1>4, <1>7 DEF Revalued
  <2> QED
    BY <1>3, <1>10, <2>3, <2>4 DEF HasElements
<1>14. ElementUpdated(x, new)
  <2>1. Next1(MetaOf(x)')
    BY <1>1, <1>2, <1>10
  <2> QED
    BY <1>1, <1>2, <1>12, <1>13, <2>1, OthersHave DEF ElementUpdated
<1> QED
  BY <1>7, <1>12, <1>14

-----------------------------------------------------------------------------
(* The string of element m of document x is written: the block is s cells  *)
(* long, the string begins o cells behind it, is l characters long and     *)
(* will be r.                                                              *)
StringWritten(x, els, m, e, o, s, l, r) ==
    /\ Rewriting(s, o, l, e.val, r) /\ Delta = r - l
    /\ StringPlace(els, m, o, l, s - 1)
    /\ TailExists /\ o + 1 + l <= s
    /\ els[m].type = "STRING" /\ e.val \in DOMAIN StrLen
    /\ s = MetaOf(x).size

LEMMA StringToWrite ==
    ASSUME UInv, Updating, NEW x, x = Now.id,
           NEW els, NEW m, NEW e, NEW o, Writes(els, m, e, o), New.type = "STRING"
    PROVE  \E s \in Nat \ {0}, l \in Nat, r \in Nat : StringWritten(x, els, m, e, o, s, l, r)
<1>1. /\ x \in Placed /\ Now.meta = MetaOf(x)
      /\ e = New /\ o = Offset /\ els \in Seq(ElementSet) /\ HasElements(x, els)
      /\ m \in 1..Len(els) /\ e \in ElementSet /\ els[m].type = "STRING"
      /\ o = ElementsSize(els, m - 1) + 2 /\ o \in Nat /\ Old.val = els[m].val
      /\ e.type = "STRING"
  BY UpdatedDocument DEF Writes, SameKeyAndType
<1>2. PICK s \in Nat \ {0} : s = MetaOf(x).size
  BY <1>1, BlockPlace DEF UInv
<1>3. els[m] \in ElementSet /\ els[m].val \in DOMAIN StrLen /\ e.val \in DOMAIN StrLen
  <2>1. els[m] \in ElementSet
    BY <1>1, ElementInside
  <2> QED
    BY <1>1, <2>1 DEF ElementSet
<1>4. PICK l \in Nat, r \in Nat : l = StrLen[els[m].val] /\ r = StrLen[e.val]
  BY <1>3, ElementsAssumption
<1>5. PICK p \in Nat, c \in Nat, t \in Nat :
         /\ p = ElementsSize(els, m - 1) /\ c = CalcElementSize(els[m])
         /\ t = ElementsSize(els, Len(els)) /\ p + 1 + c <= t
  BY <1>1, ElementSpan
<1>6. c = 1 + l
  BY <1>1, <1>3, <1>4, <1>5, ElementSpace
<1>7. s = 1 + t
  BY <1>1, <1>2, <1>5 DEF HasElements
<1>8. o = p + 2
  BY <1>1, <1>5
<1>12. p + 1 + c <= t
  BY <1>5
<1>9. o + 1 + l <= s /\ t = s - 1
  BY <1>6, <1>7, <1>8, <1>12
<1>10. TailExists
  BY <1>1, <1>2, <1>4, <1>9 DEF TailExists
<1>11. StringPlace(els, m, o, l, s - 1)
  BY <1>1, <1>4, <1>5, <1>9 DEF StringPlace
<1> QED
  BY <1>1, <1>2, <1>3, <1>4, <1>9, <1>10, <1>11 DEF StringWritten, Rewriting, Delta

(* The end of updateString writes the string and moves what is behind it;  *)
(* the block spells the new elements then.                                 *)
StringRewritten(area, after, pos, x, els, m, e, o, s, l, r, new) ==
    /\ pos \in Nat /\ els \in Seq(ElementSet) /\ Spells(area, pos, els)
    /\ m \in 1..Len(els) /\ o \in Nat \ {0} /\ s \in Nat \ {0} /\ l \in Nat /\ r \in Nat
    /\ StringWritten(x, els, m, e, o, s, l, r)
    /\ BlockRewritten(after, area, pos, s, o, l, e.val, r)
    /\ new \in Seq(ElementSet) /\ Revalued(new, els, m, e.val)

LEMMA StringSpelled ==
    ASSUME NEW area, NEW after, NEW pos, NEW x, NEW els, NEW m, NEW e, NEW o, NEW s,
           NEW l, NEW r, NEW new,
           StringRewritten(area, after, pos, x, els, m, e, o, s, l, r, new)
    PROVE  Spells(after, pos, new) /\ s + (r - l) = 1 + ElementsSize(new, Len(new))
<1>0. /\ pos \in Nat /\ els \in Seq(ElementSet) /\ Spells(area, pos, els)
      /\ m \in 1..Len(els) /\ o \in Nat /\ s \in Nat \ {0} /\ l \in Nat /\ r \in Nat
      /\ new \in Seq(ElementSet)
  BY DEF StringRewritten
<1>1. PICK v \in DOMAIN StrLen :
         /\ v = e.val /\ Revalued(new, els, m, v)
         /\ BlockRewritten(after, area, pos, s, o, l, v, r)
  BY DEF StringRewritten, StringWritten
<1>2. els[m].type = "STRING"
  BY DEF StringRewritten, StringWritten
<1>3. PICK n \in Nat : n = s - 1
  BY <1>0
<1>4. StringPlace(els, m, o, l, n)
  BY <1>3 DEF StringRewritten, StringWritten
<1>5. StringMoved(area, pos, after, pos, o, l, n, v, r)
  BY <1>1, <1>3 DEF BlockRewritten
<1>6. Spells(after, pos, new) /\ ElementsSize(new, Len(new)) = n + r - l
  BY <1>0, <1>1, <1>2, <1>3, <1>4, <1>5, StringReplaced
<1>7. s + (r - l) = 1 + (n + r - l)
  BY <1>0, <1>3
<1> QED
  BY <1>6, <1>7

(* updateString without moving the block: the string does not grow, or the *)
(* block is the last of the file.                                          *)
StringInPlace ==
    /\ WritesElement("STRING")
    /\ \/ /\ Delta <= 0
          /\ header' = header /\ diskHeader' = diskHeader
       \/ /\ Delta > 0 /\ AtEnd
          /\ header' = [header EXCEPT !.endPosition = @ + Delta] /\ diskHeader' = header'
    /\ WriteString(disk, Pos)
    /\ UNCHANGED <<inode, list, stack, result>>

LEMMA StringInPlaceKeeps ==
    ASSUME UInv, StringInPlace, NEW x, x = Now.id,
           NEW els, NEW m, NEW e, NEW o, Writes(els, m, e, o)
    PROVE  OthersKept(x) /\ ElementUpdated(x, [els EXCEPT ![m].val = e.val])
<1>1. /\ Updating /\ New.type = "STRING" /\ UNCHANGED <<inode, list, stack, result>>
      /\ WriteString(disk, Pos)
  BY DEF StringInPlace, WritesElement
<1>2. /\ x \in Ids /\ x \in Placed /\ inode[x].status = CLOSE /\ Idle
      /\ Pos = inode[x].pos /\ Now.meta = MetaOf(x)
  BY <1>1, UpdatedDocument
<1>3. /\ els \in Seq(ElementSet) /\ HasElements(x, els) /\ m \in 1..Len(els)
      /\ e \in ElementSet /\ SameKeyAndType(els[m], e) /\ o \in Nat \ {0}
  BY DEF Writes
<1>4. PICK s \in Nat \ {0}, l \in Nat, r \in Nat : StringWritten(x, els, m, e, o, s, l, r)
  BY <1>1, StringToWrite
<1>5. /\ Rewriting(s, o, l, e.val, r) /\ Delta = r - l /\ o + 1 + l <= s /\ TailExists
      /\ e.val \in DOMAIN StrLen /\ s = MetaOf(x).size
  BY <1>4 DEF StringWritten
<1>6. PICK pos \in Nat, end \in Nat : pos = inode[x].pos /\ end = header.endPosition
  BY <1>2, BlockPlace DEF UInv
<1>7. /\ BlockCells(x) = pos..(pos + s - 1) /\ DOMAIN disk = DataArea
      /\ BlockCells(x) \subseteq DOMAIN disk /\ DOMAIN disk \subseteq Nat
      /\ DataArea = DataStart..(end - 1) /\ DataStart \in Nat /\ DataStart <= pos
      /\ pos + s <= end
  BY <1>2, <1>5, <1>6, BlockPlace DEF BlockCells, UInv, Layout, DataArea
<1>8. disk' = Rewritten(disk, pos) /\ Next1([Now.meta EXCEPT !.size = @ + Delta])
  BY <1>1, <1>2, <1>5, <1>6 DEF WriteString
<1>9. BlockRewritten(disk', disk, pos, s, o, l, e.val, r)
  <2>1. DOMAIN disk \subseteq Int /\ pos..(pos + s - 1) \subseteq DOMAIN disk
    BY <1>7
  <2> QED
    BY <1>3, <1>5, <1>8, <2>1, RewrittenCells
<1>10. PICK n \in Nat \ {0} : n = s + (r - l)
  <2>1. o + 1 + l <= s
    BY <1>5
  <2>2. s + (r - l) \in Nat \ {0}
    BY <1>3, <2>1
  <2> QED
    BY <2>2
<1>11. /\ DOMAIN disk' = DOMAIN disk \cup pos..(pos + n - 1)
       /\ MetaOf(x)' = [MetaOf(x) EXCEPT !.size = n]
       /\ \A a \in DOMAIN disk : (a < pos \/ pos + n <= a) => disk'[a] = disk[a]
  <2>1. pos + s + r - l = pos + n
    BY <1>10
  <2>2. inode'[x].pos = pos
    BY <1>1, <1>6
  <2>3. disk'[pos] = [Now.meta EXCEPT !.size = @ + (r - l)]
    BY <1>9 DEF BlockRewritten
  <2>4. [Now.meta EXCEPT !.size = @ + (r - l)] = [MetaOf(x) EXCEPT !.size = n]
    <3>1. PICK meta \in Metas : meta = Now.meta /\ meta.size = s
      BY <1>2, <1>5, NamedBlock DEF UInv
    <3>2. [meta EXCEPT !.size = @ + (r - l)] = [meta EXCEPT !.size = n]
      BY <1>10, <3>1 DEF Metas
    <3> QED
      BY <1>2, <3>1, <3>2
  <2> QED
    BY <1>9, <2>1, <2>2, <2>3, <2>4 DEF BlockRewritten, MetaOf
(* The file grows by what the block grows, if the block is the last. *)
<1>12. /\ header' \in Headers /\ diskHeader' \in Headers
       /\ \/ n <= s /\ header'.endPosition = end
          \/ pos + s = end /\ n > s /\ header'.endPosition = pos + n
  <2>0. header \in Headers /\ diskHeader \in Headers
    BY DEF UInv, Bookkeeping
  <2>1. CASE Delta <= 0 /\ header' = header /\ diskHeader' = diskHeader
    <3>1. n <= s
      BY <1>5, <1>10, <2>1
    <3> QED
      BY <1>6, <2>0, <2>1, <3>1
  <2>2. CASE /\ Delta > 0 /\ AtEnd
             /\ header' = [header EXCEPT !.endPosition = @ + Delta] /\ diskHeader' = header'
    <3>1. pos + s = end
      BY <1>2, <1>5, <1>6, <2>2 DEF AtEnd
    <3>2. n > s /\ end + Delta = pos + n
      BY <1>5, <1>10, <2>2, <3>1
    <3>3. header' = [header EXCEPT !.endPosition = pos + n]
      BY <1>6, <2>2, <3>2
    <3>4. pos + n \in Nat
      OBVIOUS
    <3> QED
      BY <2>0, <2>2, <3>1, <3>2, <3>3, <3>4 DEF Headers
  <2> QED
    BY <2>1, <2>2 DEF StringInPlace
<1>13. /\ DOMAIN disk' = DataArea' /\ DataArea \subseteq DataArea'
       /\ pos..(pos + n - 1) \subseteq BlockCells(x) \cup (DataArea' \ DataArea)
       /\ end <= header'.endPosition
  <2>1. CASE n <= s /\ header'.endPosition = end
    <3>1. DataArea' = DataArea /\ pos..(pos + n - 1) \subseteq pos..(pos + s - 1)
      BY <1>7, <2>1 DEF DataArea
    <3> QED
      BY <1>7, <1>11, <2>1, <3>1
  <2>2. CASE pos + s = end /\ n > s /\ header'.endPosition = pos + n
    <3>1. DataArea' = DataStart..(pos + n - 1) /\ DataArea = DataStart..(pos + s - 1)
      BY <1>7, <2>2 DEF DataArea
    <3>2. /\ DataStart..(pos + s - 1) \cup pos..(pos + n - 1) = DataStart..(pos + n - 1)
          /\ pos..(pos + n - 1) \subseteq
                pos..(pos + s - 1) \cup (DataStart..(pos + n - 1) \ DataStart..(pos + s - 1))
          /\ end <= pos + n
      BY <1>7, <2>2
    <3> QED
      BY <1>7, <1>11, <2>2, <3>1, <3>2
  <2> QED
    BY <1>12, <2>1, <2>2
<1>14. \A a \in DataArea \ BlockCells(x) : disk'[a] = disk[a]
  <2> TAKE a \in DataArea \ BlockCells(x)
  <2>1. a \in DOMAIN disk /\ a \in Nat /\ (a < pos \/ pos + s <= a) /\ a < end
    BY <1>7
  <2>2. a < pos \/ pos + n <= a
    BY <1>12, <2>1
  <2> QED
    BY <1>11, <2>1, <2>2
<1>15. UpdatedInPlace(x, n)
  BY <1>1, <1>6, <1>11, <1>12, <1>13, <1>14 DEF UpdatedInPlace
<1>16. OthersKept(x)
  BY <1>2, <1>15, InPlaceKeeps DEF UInv
<1>17. PICK new \in Seq(ElementSet) :
          new = [els EXCEPT ![m].val = e.val] /\ Revalued(new, els, m, e.val)
  BY <1>3, RevaluedElements
<1>18. HasElements(x, new)'
  <2>1. Spells(disk, pos, els)
    BY <1>3, <1>6 DEF HasElements
  <2>2. Spells(disk', pos, new) /\ s + (r - l) = 1 + ElementsSize(new, Len(new))
    <3>1. els \in Seq(ElementSet) /\ m \in 1..Len(els) /\ o \in Nat \ {0}
      BY <1>3
    <3>2. Revalued(new, els, m, e.val)
      BY <1>17
    <3>3. StringRewritten(disk, disk', pos, x, els, m, e, o, s, l, r, new)
      BY <1>4, <1>9, <2>1, <3>1, <3>2 DEF StringRewritten
    <3> QED
      BY <3>3, StringSpelled
  <2>3. MetaOf(x)'.size = n /\ MetaOf(x)'.doc = MetaOf(x).doc
    <3>1. MetaOf(x) \in Metas
      BY <1>2, NamedBlock DEF UInv
    <3> QED
      BY <1>11, <3>1 DEF Metas
  <2>4. Len(new) = Len(els) /\ inode'[x].pos = pos
    BY <1>1, <1>6, <1>17 DEF Revalued
  <2> QED
    BY <1>3, <1>10, <2>2, <2>3, <2>4 DEF HasElements
<1>19. ElementUpdated(x, new)
  <2>1. Next1(MetaOf(x)')
    <3>1. [Now.meta EXCEPT !.size = @ + Delta] = [MetaOf(x) EXCEPT !.size = n]
      BY <1>2, <1>5, <1>10
    <3> QED
      BY <1>8, <1>11, <3>1
  <2> QED
    BY <1>1, <1>2, <1>16, <1>18, <2>1, OthersHave DEF ElementUpdated
<1> QED
  BY <1>16, <1>17, <1>19

-----------------------------------------------------------------------------
(* The block of x, n cells long by now, has gone from pos to the end of    *)
(* the file, and its old place is the gap of the inode from the back of    *)
(* the list.                                                               *)
BlockMoved(x, gap, pos, end, n) ==
    /\ pos = inode[x].pos /\ end = header.endPosition
    /\ list # << >> /\ gap = Last(list).index /\ inode[gap].status = OPEN
    /\ inode' = [inode EXCEPT ![gap].status = REMOVE, ![gap].pos = pos, ![x].pos = end]
    /\ list' = InsertNode(PopMinSizeNode(list), CreateNode(gap, MetaOf(x).size))
    /\ header' = [header EXCEPT !.endPosition = end + n] /\ diskHeader' = header'
    /\ UNCHANGED <<stack, result>>
    /\ DOMAIN disk' = DOMAIN disk \cup end..(end + n - 1)
    /\ disk'[pos] = [MetaOf(x) EXCEPT !.id = gap]
    /\ disk'[end] = [MetaOf(x) EXCEPT !.size = n]
    /\ \A a \in DOMAIN disk : a # pos => disk'[a] = disk[a]

LEMMA MovedKeeps ==
    ASSUME Bookkeeping, Layout, Idle, NEW x \in Placed, inode[x].status = CLOSE,
           NEW gap, NEW pos \in Nat, NEW end \in Nat, NEW n \in Nat \ {0},
           BlockMoved(x, gap, pos, end, n)
    PROVE  OthersKept(x) /\ inode'[x].pos = end
<1>1. /\ pos = inode[x].pos /\ end = header.endPosition
      /\ list # << >> /\ gap = Last(list).index /\ inode[gap].status = OPEN
      /\ inode' = [inode EXCEPT ![gap].status = REMOVE, ![gap].pos = pos, ![x].pos = end]
      /\ list' = InsertNode(PopMinSizeNode(list), CreateNode(gap, MetaOf(x).size))
      /\ header' = [header EXCEPT !.endPosition = end + n] /\ diskHeader' = header'
      /\ UNCHANGED <<stack, result>>
      /\ DOMAIN disk' = DOMAIN disk \cup end..(end + n - 1)
      /\ disk'[pos] = [MetaOf(x) EXCEPT !.id = gap]
      /\ disk'[end] = [MetaOf(x) EXCEPT !.size = n]
      /\ \A a \in DOMAIN disk : a # pos => disk'[a] = disk[a]
  BY DEF BlockMoved
<1>2. /\ gap \in Ids /\ gap \notin Placed /\ gap # x /\ x \in Ids
  <2>1. gap \in Ids
    BY <1>1, BackTaken
  <2> QED
    BY <1>1, <2>1, NamedBlock DEF Placed
<1>3. /\ inode \in [Ids -> Inodes] /\ header \in Headers
      /\ OPEN # CLOSE /\ OPEN # REMOVE /\ CLOSE # REMOVE
  BY BookBasics DEF Bookkeeping
<1>4. /\ inode' \in [Ids -> Inodes]
      /\ inode'[gap].status = REMOVE /\ inode'[gap].pos = pos
      /\ inode'[x].status = CLOSE /\ inode'[x].pos = end
      /\ \A i \in Ids \ {x, gap} : inode'[i] = inode[i]
  <2>1. inode[gap] \in Inodes /\ inode[x] \in Inodes
    BY <1>2, <1>3
  <2>2. inode' = [i \in Ids |-> inode'[i]]
    BY <1>1, <1>3
  <2>3. /\ inode'[gap] \in Inodes /\ inode'[gap].status = REMOVE /\ inode'[gap].pos = pos
        /\ inode'[x] \in Inodes /\ inode'[x].status = inode[x].status /\ inode'[x].pos = end
    BY <1>1, <1>2, <1>3, <2>1 DEF Inodes
  <2>4. \A i \in Ids \ {x, gap} : inode'[i] = inode[i] /\ inode[i] \in Inodes
    BY <1>1, <1>2, <1>3
  <2>5. \A i \in Ids : inode'[i] \in Inodes
    BY <2>3, <2>4
  <2> QED
    BY <2>2, <2>3, <2>4, <2>5
<1>5. Placed' = Placed \cup {gap}
  BY <1>2, <1>3, <1>4 DEF Placed
<1>6. PICK s \in Nat \ {0} : s = MetaOf(x).size
  BY NamedBlock
<1>7. /\ BlockCells(x) = pos..(pos + s - 1) /\ pos \in BlockCells(x)
      /\ DOMAIN disk = DataStart..(end - 1) /\ DataArea = DOMAIN disk
      /\ DataStart \in Nat /\ DataStart <= end
      /\ DataArea' = DataStart..(end + n - 1) /\ header' \in Headers
  <2>1. header' \in Headers /\ header'.endPosition = end + n
    BY <1>1, <1>3 DEF Headers
  <2> QED
    BY <1>1, <1>6, <2>1, BlockPlace, BookBasics DEF BlockCells, Layout, DataArea
<1>8. DOMAIN disk' = DataArea' /\ DataArea \subseteq DataArea'
      /\ DataArea \cap end..(end + n - 1) = {} /\ end..(end + n - 1) \subseteq DataArea'
  <2>0. PICK start \in Nat : start = DataStart /\ start <= end
    BY <1>7
  <2>1. /\ start..(end - 1) \cup end..(end + n - 1) = start..(end + n - 1)
        /\ start..(end - 1) \cap end..(end + n - 1) = {}
    BY <2>0
  <2>2. DataArea = start..(end - 1) /\ DataArea' = start..(end + n - 1) /\ DOMAIN disk = DataArea
    BY <1>7, <2>0
  <2>3. DOMAIN disk' = DOMAIN disk \cup end..(end + n - 1)
    BY <1>1
  <2> QED
    BY <2>1, <2>2, <2>3
(* The old place, the new one, and the other blocks. *)
<1>9. MetaOf(x) \in Metas /\ MetaOf(x).id = x /\ Child(x) \in Placed \cup {NoDoc}
  BY BlockPlace
<1>10. /\ MetaOf(gap)' \in Metas /\ MetaOf(gap)'.id = gap /\ MetaOf(gap)'.size = s
       /\ Child(gap)' = Child(x) /\ BlockCells(gap)' = BlockCells(x)
  <2>1. MetaOf(gap)' = [MetaOf(x) EXCEPT !.id = gap]
    BY <1>1, <1>4 DEF MetaOf
  <2>2. /\ MetaOf(gap)' \in Metas /\ MetaOf(gap)'.id = gap /\ MetaOf(gap)'.size = s
        /\ MetaOf(gap)'.child = MetaOf(x).child
    BY <1>2, <1>6, <1>9, <2>1 DEF Metas
  <2> QED
    BY <1>4, <1>7, <2>2 DEF Child, BlockCells
<1>11. /\ MetaOf(x)' \in Metas /\ MetaOf(x)'.id = x
       /\ Child(x)' = Child(x) /\ Brother(x)' = Brother(x)
       /\ BlockCells(x)' = end..(end + n - 1)
  <2>1. MetaOf(x)' = [MetaOf(x) EXCEPT !.size = n]
    BY <1>1, <1>4 DEF MetaOf
  <2>2. /\ MetaOf(x)' \in Metas /\ MetaOf(x)'.id = x /\ MetaOf(x)'.size = n
        /\ MetaOf(x)'.child = MetaOf(x).child /\ MetaOf(x)'.brother = MetaOf(x).brother
    BY <1>9, <2>1 DEF Metas
  <2> QED
    BY <1>4, <2>2 DEF Child, Brother, BlockCells
<1>12. ASSUME NEW i \in Placed \ {x}
       PROVE  /\ MetaOf(i)' = MetaOf(i) /\ BlockCells(i)' = BlockCells(i)
              /\ \A els \in Seq(ElementSet) : HasElements(i, els) => HasElements(i, els)'
  <2>1. /\ inode[i].pos \in BlockCells(i) /\ BlockCells(i) \subseteq DOMAIN disk
        /\ BlockCells(i) \cap BlockCells(x) = {} /\ i \in Ids \ {x, gap}
    BY <1>2, BlockPlace DEF Layout, BlocksApart
  <2>2. \A a \in BlockCells(i) : a \in DOMAIN disk' /\ disk'[a] = disk[a]
    BY <1>1, <1>7, <2>1
  <2>3. MetaOf(i)' = MetaOf(i) /\ inode'[i].pos = inode[i].pos
    BY <1>4, <2>1, <2>2 DEF MetaOf
  <2> QED
    BY <2>2, <2>3, BlockKept
<1>13. \A i \in Placed' : MetaOf(i)' \in Metas /\ MetaOf(i)'.id = i
  BY <1>5, <1>10, <1>11, <1>12, NamedBlock
<1>14. \A i \in Placed : Child(i)' = Child(i) /\ Brother(i)' = Brother(i)
  BY <1>11, <1>12 DEF Child, Brother
(* The gap is listed with the size of the block that was there. *)
<1>15. list' \in Seq(Nodes(Ids)) /\ FreeListExact'
  <2> DEFINE rest == PopMinSizeNode(list)
             node == CreateNode(gap, s)
  <2>1. /\ rest \in Seq(Nodes(Ids)) /\ Once(rest) /\ Sorted(rest)
        /\ NodesOn(rest) \subseteq NodesOn(list) /\ Indexes(rest) = Indexes(list) \ {gap}
    BY <1>1, BackTaken
  <2>2. node \in Nodes(Ids) /\ node.index = gap /\ node.size = s
    BY <1>2 DEF CreateNode, Nodes
  <2>3. list' = InsertNode(rest, node)
    BY <1>1, <1>6
  <2>4. /\ Indexes(list) = {i \in Ids : inode[i].status # CLOSE}
        /\ \A m \in NodesOn(list) : NodeMatches(m)
        /\ \A m \in NodesOn(rest) : m.index \in Indexes(rest)
    BY DEF Bookkeeping, FreeListExact, Listed, Indexes, NodesOn
  <2> HIDE DEF rest, node
  <2>5. /\ list' \in Seq(Nodes(Ids)) /\ Once(list') /\ Sorted(list')
        /\ NodesOn(list') = NodesOn(rest) \cup {node}
        /\ Indexes(list') = Indexes(rest) \cup {gap}
    <3>1. list' \in Seq(Nodes(Ids)) /\ Sorted(list') /\ NodesOn(list') = NodesOn(rest) \cup {node}
      <4>1. rest \in Seq(Nodes(Ids)) /\ node \in Nodes(Ids) /\ Sorted(rest)
        BY <2>1, <2>2
      <4>2. InsertNode(rest, node) \in Seq(Nodes(Ids))
        BY <4>1, InsertNodeProperties
      <4>3. Sorted(InsertNode(rest, node))
        BY <4>1, InsertNodeSorted
      <4>4. NodesOn(InsertNode(rest, node)) = NodesOn(rest) \cup {node}
        BY <4>1, InsertNodeNodes
      <4> QED
        BY <2>3, <4>2, <4>3, <4>4
    <3>2. gap \notin Indexes(rest)
      BY <2>1
    <3>3. Once(list') /\ Indexes(list') = Indexes(rest) \cup {gap}
      BY <2>1, <2>2, <2>3, <3>2, InsertNodeIndexes
    <3> QED
      BY <3>1, <3>3
  <2>6. Indexes(list') = {i \in Ids : inode'[i].status # CLOSE}
    <3>1. gap \in Indexes(list)
      BY <1>1, <1>2, <1>3, <2>4
    <3>2. Indexes(list') = Indexes(list)
      BY <2>1, <2>5, <3>1
    <3>3. \A i \in Ids : inode'[i].status = CLOSE <=> inode[i].status = CLOSE
      BY <1>1, <1>3, <1>4
    <3> QED
      BY <2>4, <3>2, <3>3
  <2>7. ASSUME NEW m \in NodesOn(list') PROVE NodeMatches(m)'
    <3>1. CASE m = node
      BY <1>4, <1>10, <2>2, <3>1 DEF NodeMatches
    <3>2. CASE m \in NodesOn(rest)
      <4>1. NodeMatches(m) /\ m.index \in Ids \ {gap} /\ inode[m.index].status # CLOSE
        BY <2>1, <2>4, <3>2
      <4>2. m.index # x /\ inode'[m.index] = inode[m.index]
        BY <1>4, <4>1
      <4>3. inode[m.index].status = REMOVE => m.index \in Placed \ {x}
        BY <1>3, <4>1, <4>2 DEF Placed
      <4> QED
        BY <1>12, <4>1, <4>2, <4>3 DEF NodeMatches
    <3> QED
      BY <2>5, <3>1, <3>2
  <2> QED
    BY <2>5, <2>6, <2>7 DEF FreeListExact, Listed, Once, Indexes, NodesOn
(* No block is linked to the inode that was taken. *)
<1>16. NoChildCycle'
  <2> SUFFICES ASSUME NEW S \in SUBSET (Placed \cup {gap}), S # {}
               PROVE  \E i \in S : Child(i)' \notin S
    BY <1>5 DEF NoChildCycle
  <2>1. \A i \in Placed : Child(i) # gap
    <3>1. gap # NoDoc
      BY <1>2, BookBasics
    <3> QED
      BY <1>2, <3>1 DEF Layout
  <2>2. CASE S = {gap}
    BY <1>10, <2>1, <2>2
  <2>3. CASE S # {gap}
    <3>1. S \ {gap} \in SUBSET Placed /\ S \ {gap} # {}
      BY <2>3
    <3>2. PICK i \in S \ {gap} : Child(i) \notin S \ {gap}
      BY <3>1 DEF Bookkeeping, NoChildCycle
    <3> QED
      BY <1>14, <2>1, <3>1, <3>2
  <2> QED
    BY <2>2, <2>3
<1>17. Bookkeeping'
  <2>1. StackChained' /\ DataStart <= header'.endPosition /\ stack' \in Seq(Frames)
        /\ result' \in BOOLEAN
    <3>1. stack' \in Seq(Frames) /\ result' \in BOOLEAN /\ StackChained'
      BY <1>1 DEF Bookkeeping, StackChained, Idle
    <3>2. DataStart <= header'.endPosition
      BY <1>1, <1>3, <1>7 DEF Headers
    <3> QED
      BY <3>1, <3>2
  <2> QED
    BY <1>1, <1>4, <1>7, <1>13, <1>15, <1>16, <2>1 DEF Bookkeeping
<1>18. Layout'
  <2>1. \A i \in Placed : BlockCells(i) \subseteq DataArea
        /\ \A j \in Placed : i # j => BlockCells(i) \cap BlockCells(j) = {}
    BY DEF Layout, BlocksApart
  <2>2. \A i \in Placed' : BlockCells(i)' \subseteq DataArea'
    BY <1>5, <1>8, <1>10, <1>11, <1>12, <2>1
  <2>3. ASSUME NEW i \in Placed', NEW j \in Placed', i # j
        PROVE  BlockCells(i)' \cap BlockCells(j)' = {}
    (* The block whose cells those of block k were. *)
    <3> DEFINE Was(k) == IF k = gap THEN x ELSE k
    <3>1. ASSUME NEW k \in Placed', k # x
          PROVE  Was(k) \in Placed /\ BlockCells(k)' = BlockCells(Was(k))
      BY <1>5, <1>10, <1>12, <3>1
    <3>2. CASE i # x /\ j # x
      <4>1. Was(i) # Was(j)
        BY <2>3, <3>2
      <4> QED
        BY <2>1, <3>1, <3>2, <4>1
    <3>3. CASE i = x
      <4>1. BlockCells(j)' \subseteq DataArea
        BY <2>1, <2>3, <3>1, <3>3
      <4> QED
        BY <1>8, <1>11, <3>3, <4>1
    <3>4. CASE j = x
      <4>1. BlockCells(i)' \subseteq DataArea
        BY <2>1, <2>3, <3>1, <3>4
      <4> QED
        BY <1>8, <1>11, <3>4, <4>1
    <3> QED
      BY <3>2, <3>3, <3>4
  <2>4. \A i \in Placed' : Child(i)' \in Placed' \cup {NoDoc}
    BY <1>5, <1>9, <1>10, <1>14 DEF Layout
  <2> QED
    BY <1>8, <1>13, <2>2, <2>3, <2>4 DEF Layout, BlocksApart
<1>19. \A i \in Ids : inode'[i].status = CLOSE <=> inode[i].status = CLOSE
  BY <1>1, <1>3, <1>4
<1> QED
  BY <1>4, <1>12, <1>14, <1>17, <1>18, <1>19 DEF OthersKept

(* The area once the s cells of the block at pos have been copied to the   *)
(* end, and the old place has been given the block of a gap.               *)
Vacated(after, area, pos, end, s, vacant) ==
    /\ DOMAIN after = DOMAIN area \cup end..(end + s - 1)
    /\ after[pos] = vacant
    /\ Copied(area, pos, after, end, s - 1)
    /\ \A a \in DOMAIN area : a # pos => after[a] = area[a]

LEMMA VacatedCells ==
    ASSUME NEW area, NEW start \in Nat, NEW pos \in Nat, NEW end \in Nat, NEW s \in Nat \ {0},
           DOMAIN area = start..(end - 1), start <= pos, pos + s <= end,
           NEW block, block = [k \in 1..s |-> area[pos + k - 1]], NEW vacant
    PROVE  Vacated(WriteAt(WriteAt(area, end, block), pos, <<vacant>>), area, pos, end, s, vacant)
<1> DEFINE copy == WriteAt(area, end, block)
           after == WriteAt(copy, pos, <<vacant>>)
<1>1. Len(block) = s /\ \A k \in 1..s : block[k] = area[pos + k - 1]
  OBVIOUS
<1>2. Wrote(copy, area, end, block, s)
  BY <1>1, WriteAtCells
<1> HIDE DEF copy
<1>3. Len(<<vacant>>) = 1 /\ <<vacant>>[1] = vacant
  OBVIOUS
<1>4. Wrote(after, copy, pos, <<vacant>>, 1)
  BY <1>3, WriteAtCells
<1> HIDE DEF after
<1>5. /\ DOMAIN copy = DOMAIN area \cup end..(end + s - 1)
      /\ \A k \in 1..s : copy[end + k - 1] = block[k]
      /\ \A a \in DOMAIN area : a \notin end..(end + s - 1) => copy[a] = area[a]
  BY <1>2 DEF Wrote
<1>6. /\ DOMAIN after = DOMAIN copy \cup {pos} /\ after[pos] = vacant
      /\ \A a \in DOMAIN copy : a # pos => after[a] = copy[a]
  <2>1. pos..(pos + 1 - 1) = {pos} /\ pos + 1 - 1 = pos /\ 1 \in 1..1
    OBVIOUS
  <2> QED
    BY <1>3, <1>4, <2>1 DEF Wrote
<1>7. pos \in DOMAIN area /\ \A a \in DOMAIN area : a \notin end..(end + s - 1)
  OBVIOUS
<1>8. \A a \in DOMAIN area : a # pos => after[a] = area[a]
  BY <1>5, <1>6, <1>7
<1>9. ASSUME NEW c \in 1..(s - 1)
      PROVE  end + c \in DOMAIN after /\ after[end + c] = area[pos + c]
  <2>1. PICK k \in 1..s : k = c + 1
    OBVIOUS
  <2>2. end + k - 1 = end + c /\ pos + k - 1 = pos + c /\ end + c # pos
        /\ end + c \in end..(end + s - 1)
    BY <2>1
  <2>3. copy[end + c] = area[pos + c]
    BY <1>1, <1>5, <2>2
  <2> QED
    BY <1>5, <1>6, <2>2, <2>3
<1>10. Vacated(after, area, pos, end, s, vacant)
  BY <1>5, <1>6, <1>7, <1>8, <1>9 DEF Vacated, Copied
<1> QED
  BY <1>10 DEF after, copy

(* updateString when the block must move.                                  *)
LEMMA GrowByMovingKeeps ==
    ASSUME UInv, GrowByMoving, NEW x, x = Now.id,
           NEW els, NEW m, NEW e, NEW o, Writes(els, m, e, o)
    PROVE  OthersKept(x) /\ ElementUpdated(x, [els EXCEPT ![m].val = e.val])
<1>1. /\ Updating /\ Now.todo # << >> /\ New.type = "STRING" /\ Delta > 0
      /\ diskHeader' = header' /\ UNCHANGED <<stack, result>>
  BY DEF GrowByMoving, WritesElement
<1>2. /\ x \in Ids /\ x \in Placed /\ inode[x].status = CLOSE /\ Idle
      /\ Pos = inode[x].pos /\ Now.meta = MetaOf(x) /\ list # << >>
  BY <1>1, UpdatedDocument DEF UInv, UpdateValid
<1>3. /\ els \in Seq(ElementSet) /\ HasElements(x, els) /\ m \in 1..Len(els)
      /\ e \in ElementSet /\ SameKeyAndType(els[m], e) /\ o \in Nat \ {0}
  BY DEF Writes
<1>4. PICK s \in Nat \ {0}, l \in Nat, r \in Nat : StringWritten(x, els, m, e, o, s, l, r)
  BY <1>1, StringToWrite
<1>5. /\ Rewriting(s, o, l, e.val, r) /\ Delta = r - l /\ o + 1 + l <= s /\ TailExists
      /\ e.val \in DOMAIN StrLen /\ s = MetaOf(x).size
      /\ StringPlace(els, m, o, l, s - 1)
  BY <1>4 DEF StringWritten
<1>6. PICK pos \in Nat, end \in Nat : pos = inode[x].pos /\ end = header.endPosition
  BY <1>2, BlockPlace DEF UInv
<1>7. PICK start \in Nat :
         /\ DOMAIN disk = start..(end - 1) /\ start <= pos /\ pos + s <= end
  BY <1>2, <1>5, <1>6, BlockPlace DEF UInv, Layout, DataArea
<1>8. PICK gap, block, vacant :
         /\ gap = Last(list).index /\ inode[gap].status = OPEN
         /\ block = [k \in 1..s |-> disk[pos + k - 1]]
         /\ vacant = [MetaOf(x) EXCEPT !.id = gap]
  <2>1. inode[Last(list).index].status = OPEN
    BY DEF GrowByMoving
  <2> QED
    BY <2>1
<1>9. PICK before : before = WriteAt(WriteAt(disk, end, block), pos, <<vacant>>)
  OBVIOUS
<1>10. /\ inode' = [inode EXCEPT ![gap].status = REMOVE, ![gap].pos = pos, ![x].pos = end]
       /\ list' = InsertNode(PopMinSizeNode(list), CreateNode(gap, s))
       /\ header' = [header EXCEPT !.endPosition = @ + s + Delta]
       /\ WriteString(before, end)
  BY <1>2, <1>5, <1>6, <1>8, <1>9 DEF GrowByMoving
<1>11. disk' = Rewritten(before, end) /\ Next1([Now.meta EXCEPT !.size = @ + Delta])
  BY <1>5, <1>10 DEF WriteString
<1>12. Vacated(before, disk, pos, end, s, vacant)
  BY <1>7, <1>8, <1>9, VacatedCells
<1>13. /\ DOMAIN before = DOMAIN disk \cup end..(end + s - 1)
       /\ before[pos] = vacant
       /\ Copied(disk, pos, before, end, s - 1)
       /\ \A a \in DOMAIN disk : a # pos => before[a] = disk[a]
  BY <1>12 DEF Vacated
<1>14. BlockRewritten(disk', before, end, s, o, l, e.val, r)
  <2>1. DOMAIN before \subseteq Int /\ end..(end + s - 1) \subseteq DOMAIN before
    BY <1>7, <1>13
  <2> QED
    BY <1>3, <1>5, <1>11, <2>1, RewrittenCells
<1>15. PICK n \in Nat \ {0} : n = s + (r - l) /\ s < n
  <2>1. r - l > 0
    BY <1>1, <1>5
  <2>2. s + (r - l) \in Nat \ {0} /\ s < s + (r - l)
    BY <2>1
  <2> QED
    BY <2>2
<1>16. [Now.meta EXCEPT !.size = @ + (r - l)] = [MetaOf(x) EXCEPT !.size = n]
  <2>1. PICK meta \in Metas : meta = Now.meta /\ meta.size = s
    BY <1>2, <1>5, NamedBlock DEF UInv
  <2>2. [meta EXCEPT !.size = @ + (r - l)] = [meta EXCEPT !.size = n]
    BY <1>15, <2>1 DEF Metas
  <2> QED
    BY <1>2, <2>1, <2>2
<1>17. /\ DOMAIN disk' = DOMAIN disk \cup end..(end + n - 1)
       /\ disk'[end] = [MetaOf(x) EXCEPT !.size = n]
       /\ \A a \in DOMAIN before : a < end => disk'[a] = before[a]
  <2>1. end + s + r - l = end + n
    BY <1>15
  <2>2. DOMAIN disk' = DOMAIN before \cup end..(end + n - 1)
    BY <1>14, <2>1 DEF BlockRewritten
  <2>3. end..(end + s - 1) \subseteq end..(end + n - 1)
    BY <1>15
  <2>4. disk'[end] = [Now.meta EXCEPT !.size = @ + (r - l)]
        /\ \A a \in DOMAIN before : a < end => disk'[a] = before[a]
    BY <1>14 DEF BlockRewritten
  <2> QED
    BY <1>13, <1>16, <2>2, <2>3, <2>4
<1>18. /\ disk'[pos] = vacant
       /\ \A a \in DOMAIN disk : a # pos => disk'[a] = disk[a]
  <2>1. pos \in DOMAIN disk /\ \A a \in DOMAIN disk : a < end /\ a \in DOMAIN before
    BY <1>7, <1>13
  <2> QED
    BY <1>13, <1>17, <2>1
<1>19. BlockMoved(x, gap, pos, end, n)
  <2>1. header' = [header EXCEPT !.endPosition = end + n]
    <3>1. end + s + Delta = end + n
      BY <1>5, <1>15
    <3> QED
      BY <1>6, <1>10, <3>1
  <2> QED
    BY <1>1, <1>2, <1>5, <1>6, <1>8, <1>10, <1>17, <1>18, <2>1 DEF BlockMoved
<1>20. OthersKept(x) /\ inode'[x].pos = end
  <2>1. Bookkeeping /\ Layout
    BY DEF UInv
  <2> QED
    BY <1>2, <1>19, <2>1, MovedKeeps
<1>21. PICK new \in Seq(ElementSet) :
          new = [els EXCEPT ![m].val = e.val] /\ Revalued(new, els, m, e.val)
  BY <1>3, RevaluedElements
<1>22. MetaOf(x)' = [MetaOf(x) EXCEPT !.size = n]
  BY <1>17, <1>20 DEF MetaOf
<1>23. HasElements(x, new)'
  <2>1. Spells(disk, pos, els) /\ Copied(disk, pos, before, end, ElementsSize(els, Len(els)))
    BY <1>3, <1>5, <1>6, <1>13 DEF HasElements, StringPlace
  <2>2. Spells(before, end, els)
    BY <1>3, <2>1, SpellsMoved
  <2>3. Spells(disk', end, new) /\ s + (r - l) = 1 + ElementsSize(new, Len(new))
    <3>1. els \in Seq(ElementSet) /\ m \in 1..Len(els) /\ o \in Nat \ {0}
      BY <1>3
    <3>2. Revalued(new, els, m, e.val)
      BY <1>21
    <3>3. StringRewritten(before, disk', end, x, els, m, e, o, s, l, r, new)
      BY <1>4, <1>14, <2>2, <3>1, <3>2 DEF StringRewritten
    <3> QED
      BY <3>3, StringSpelled
  <2>4. MetaOf(x)'.size = n /\ MetaOf(x)'.doc = MetaOf(x).doc
    <3>1. MetaOf(x) \in Metas
      BY <1>2, NamedBlock DEF UInv
    <3> QED
      BY <1>22, <3>1 DEF Metas
  <2>5. Len(new) = Len(els)
    BY <1>21 DEF Revalued
  <2> QED
    BY <1>3, <1>15, <1>20, <2>3, <2>4, <2>5 DEF HasElements
<1>24. ElementUpdated(x, new)
  <2>1. Next1(MetaOf(x)')
    BY <1>5, <1>11, <1>16, <1>22
  <2> QED
    BY <1>1, <1>2, <1>20, <1>23, <2>1, OthersHave DEF ElementUpdated
<1> QED
  BY <1>20, <1>21, <1>24

-----------------------------------------------------------------------------
(* By how much a string grows is a number.                                 *)
LEMMA StringChange ==
    ASSUME UInv, Updating, NEW x, x = Now.id,
           NEW els, NEW m, NEW e, NEW o, Writes(els, m, e, o), New.type = "STRING"
    PROVE  Delta \in Int
<1>1. PICK s \in Nat \ {0}, l \in Nat, r \in Nat : StringWritten(x, els, m, e, o, s, l, r)
  BY StringToWrite
<1> QED
  BY <1>1 DEF StringWritten

(* updateString gives up: nothing is written but the next element is due.  *)
LEMMA NothingWritten ==
    ASSUME Bookkeeping, Layout, ContentsReadable, UNCHANGED vars
    PROVE  /\ Bookkeeping' /\ Layout' /\ ContentsReadable'
           /\ \A i \in Placed : /\ MetaOf(i)' = MetaOf(i)
                                /\ \A els \in Seq(ElementSet) :
                                      HasElements(i, els) => HasElements(i, els)'
           /\ \A i \in Ids : inode[i].status = CLOSE => ReadDocument(i)' = ReadDocument(i)
<1>1. UNCHANGED <<header, diskHeader, inode, disk, list, stack, result>>
  BY DEF vars
<1>2. Bookkeeping'
  <2>1. result' \in BOOLEAN
    BY <1>1 DEF Bookkeeping
  <2> QED
    BY <1>1, <2>1, QuietBooks
<1>3. Layout' /\ ContentsReadable'
  <2>1. Placed' = Placed
    BY <1>1 DEF Placed
  <2> QED
    BY <1>1, <1>2, <2>1, FileKept
<1>4. ASSUME NEW i \in Placed
      PROVE  /\ MetaOf(i)' = MetaOf(i)
             /\ \A els \in Seq(ElementSet) : HasElements(i, els) => HasElements(i, els)'
  <2>1. MetaOf(i)' = MetaOf(i)
    BY <1>1 DEF MetaOf
  <2>2. \A a \in BlockCells(i) : a \in DOMAIN disk' /\ disk'[a] = disk[a]
    BY <1>1, BlockPlace
  <2> QED
    BY <1>1, <2>1, <2>2, BlockKept
<1>5. ASSUME NEW i \in Ids, inode[i].status = CLOSE
      PROVE  ReadDocument(i)' = ReadDocument(i)
  <2>1. i \in Placed /\ inode'[i].pos \in Nat
    BY <1>1, <1>5, InUsePlaced, BookBasics
  <2>2. PICK els \in Seq(ElementSet) : els = ReadDocument(i) /\ HasElements(i, els)
    BY <1>5 DEF ContentsReadable, Readable
  <2>3. HasElements(i, els)'
    BY <1>4, <2>1, <2>2
  <2> QED
    BY <2>1, <2>2, <2>3, ReadableNext
<1> QED
  BY <1>2, <1>3, <1>4, <1>5

(* Each of the five ways an element is updated writes the new value for    *)
(* the old one, or is refused, and keeps the invariant.                    *)
LEMMA UpdateStepKeeps ==
    ASSUME UInv, UpdateStep
    PROVE  UInv' /\ (~GrowIntoGap => UpdatesElement)
<1>1. Updating /\ Now.todo # << >>
  BY DEF UpdateStep, UpdateFixed, UpdateInPlace, GrowAtEnd, GrowIntoGap, GrowByMoving, WritesElement
<1>2. PICK x : x = Now.id
  OBVIOUS
<1>3. x \in Ids /\ x \in Placed /\ inode[x].status = CLOSE /\ Now.meta = MetaOf(x)
  BY <1>1, <1>2, UpdatedDocument
<1>4. PICK els, m, e, o : Writes(els, m, e, o)
  BY <1>1, ElementToWrite
<1>5. /\ els = ReadDocument(x) /\ e = New /\ m = Index
      /\ els \in Seq(ElementSet) /\ HasElements(x, els) /\ m \in 1..Len(els)
      /\ e \in ElementSet /\ SameKeyAndType(els[m], e)
  BY <1>2, <1>4 DEF Writes
<1>6. \A i \in Ids : Status(i) = CLOSE <=> inode[i].status = CLOSE
  BY DEF Status
<1>7. \A i \in Ids : inode[i].status = CLOSE => i \in Placed
  BY InUsePlaced DEF UInv
<1>8. Bookkeeping /\ Layout /\ ContentsReadable
  BY DEF UInv
<1>9. CASE GrowIntoGap
  <2>1. Next1(Now.meta) /\ UNCHANGED vars /\ New.type = "STRING"
    BY <1>9 DEF GrowIntoGap, WritesElement
  <2>2. /\ Bookkeeping' /\ Layout'
        /\ \A i \in Placed : /\ MetaOf(i)' = MetaOf(i)
                             /\ \A f \in Seq(ElementSet) : HasElements(i, f) => HasElements(i, f)'
        /\ \A i \in Ids : inode[i].status = CLOSE => ReadDocument(i)' = ReadDocument(i)
    BY <1>8, <2>1, NothingWritten
  <2>3. UNCHANGED <<inode, list, stack>>
    BY <2>1 DEF vars
  <2>4. ElementUpdated(x, els)
    <3>1. Next1(MetaOf(x)')
      BY <1>3, <2>1, <2>2
    <3> QED
      BY <1>3, <1>5, <1>7, <2>2, <2>3, <3>1 DEF ElementUpdated
  <2>5. UInv'
    BY <1>1, <1>2, <1>4, <1>5, <2>1, <2>2, <2>4, ElementDone
  <2> QED
    BY <1>9, <2>5
<1>10. CASE ~GrowIntoGap
  <2>1. PICK new \in Seq(ElementSet) :
           new = [els EXCEPT ![m].val = e.val] /\ Revalued(new, els, m, e.val)
    BY <1>5, RevaluedElements
  <2>2. /\ OthersKept(x) /\ ElementUpdated(x, new)
        /\ New.type = "STRING" \/ list' = list
    <3>1. CASE UpdateFixed
      <4>1. New.type # "STRING" /\ list' = list
        BY <3>1 DEF UpdateFixed, WritesElement
      <4> QED
        BY <1>2, <1>4, <2>1, <3>1, <4>1, UpdateFixedKeeps
    <3>2. CASE UpdateInPlace
      <4>1. StringInPlace /\ New.type = "STRING"
        <5>1. ~(Delta > 0)
          <6>1. Delta <= 0
            BY <3>2 DEF UpdateInPlace
          <6>2. Delta \in Int
            BY <1>1, <1>2, <1>4, <3>2, StringChange DEF UpdateInPlace, WritesElement
          <6> QED
            BY <6>1, <6>2
        <5> QED
          BY <3>2, <5>1 DEF UpdateInPlace, StringInPlace, WritesElement
      <4> QED
        BY <1>2, <1>4, <2>1, <4>1, StringInPlaceKeeps
    <3>3. CASE GrowAtEnd
      <4>1. StringInPlace /\ New.type = "STRING"
        BY <3>3 DEF GrowAtEnd, StringInPlace, WritesElement
      <4> QED
        BY <1>2, <1>4, <2>1, <4>1, StringInPlaceKeeps
    <3>4. CASE GrowByMoving
      <4>1. New.type = "STRING"
        BY <3>4 DEF GrowByMoving, WritesElement
      <4> QED
        BY <1>2, <1>4, <2>1, <3>4, <4>1, GrowByMovingKeeps
    <3> QED
      BY <1>10, <3>1, <3>2, <3>3, <3>4 DEF UpdateStep
  <2>3. /\ Bookkeeping' /\ Layout'
        /\ \A i \in Placed : Child(i)' = Child(i) /\ Brother(i)' = Brother(i)
        /\ \A i \in Ids : inode'[i].status = CLOSE <=> inode[i].status = CLOSE
    BY <2>2 DEF OthersKept
  <2>4. UInv'
    BY <1>1, <1>2, <1>4, <2>1, <2>2, <2>3, ElementDone
  <2>5. /\ ReadDocument(x)' = new
        /\ \A i \in Ids \ {x} : inode'[i].status = CLOSE => ReadDocument(i)' = ReadDocument(i)
    BY <1>3, <2>2, <2>3, DocumentsUpdated
  <2>6. new = [ReadDocument(x) EXCEPT ![Index].val = New.val]
    BY <1>5, <2>1
  <2>7. UpdatesElement
    BY <1>2, <1>6, <1>7, <2>2, <2>3, <2>5, <2>6 DEF UpdatesElement
  <2> QED
    BY <2>4, <2>7
<1> QED
  BY <1>9, <1>10

(* An update begins when inodes without a place are left.                  *)
LEMMA BeginUpdateKeeps ==
    ASSUME UInv, NEW id \in Ids, NEW new \in Updates, BeginUpdate(id, new)
    PROVE  UInv'
<1>1. /\ Idle /\ Status(id) = CLOSE /\ Len(new) <= UnplacedInodes
      /\ \A k \in DOMAIN new : IndexOf(ReadDocument(id), new[k]) # 0
      /\ update' = <<[id |-> id, meta |-> MetaOf(id), document |-> ReadDocument(id),
                    new |-> new, todo |-> new]>>
      /\ UNCHANGED vars
  BY DEF BeginUpdate
<1>2. Bookkeeping /\ Layout /\ ContentsReadable
  BY DEF UInv
<1>3. inode[id].status = CLOSE /\ id \in Placed /\ MetaOf(id) \in Metas
  <2>1. inode[id].status = CLOSE
    BY <1>1 DEF Status
  <2> QED
    BY <1>2, <2>1, InUsePlaced, NamedBlock
<1>4. PICK els \in Seq(ElementSet) : els = ReadDocument(id)
  BY <1>2, <1>3 DEF ContentsReadable, Readable
<1>5. /\ Bookkeeping' /\ Layout' /\ ContentsReadable'
      /\ MetaOf(id)' = MetaOf(id) /\ ReadDocument(id)' = els
  BY <1>1, <1>2, <1>3, <1>4, NothingWritten
<1>6. new \in Seq(ElementSet) /\ StringLast(new)
  BY StringUpdateAssumption DEF UInv, StringsLast
<1>7. PICK w \in CurrentUpdates :
         /\ update' = <<w>> /\ w.id = id /\ w.meta = MetaOf(id) /\ w.document = els
         /\ w.todo = new
  <2>1. PICK w : w = [id |-> id, meta |-> MetaOf(id), document |-> els, new |-> new, todo |-> new]
    OBVIOUS
  <2>2. w \in CurrentUpdates
    BY <1>3, <1>6, <2>1 DEF CurrentUpdates
  <2> QED
    BY <1>1, <1>4, <2>1, <2>2
(* Something to write needs an inode without a place, so the list has one. *)
<1>8. new # << >> => list # << >>
  <2> SUFFICES ASSUME list = << >> PROVE new = << >>
    OBVIOUS
  <2>1. {k \in DOMAIN list : list[k].size = 0} = {}
    OBVIOUS
  <2>2. UnplacedInodes = 0
    BY <2>1, FS_EmptySet DEF UnplacedInodes
  <2>3. Len(new) = 0
    BY <1>1, <1>6, <2>2, LenProperties
  <2> QED
    BY <1>6, <2>3, EmptySeq
<1>9. \A k \in 1..Len(new) : IndexOf(els, new[k]) # 0
  BY <1>1, <1>4, <1>6, LenProperties
<1>10. \A k \in 1..Len(els) : Alike(els[k], els[k])
  BY DEF Alike, SameKeyAndType
<1>11. UpdateValid'
  <2>1. Now' = w /\ Len(update') = 1
    BY <1>7 DEF Now
  <2>2. /\ Idle' /\ inode'[id].status = CLOSE /\ list' = list
    BY <1>1, <1>3 DEF Idle, vars
  <2>3. /\ MetaOf(Now.id)' = MetaOf(id)' /\ ReadDocument(Now.id)' = ReadDocument(id)'
        /\ inode'[Now'.id] = inode'[id]
    BY <1>7, <2>1
  <2>4. StringLast(w.todo) /\ w.meta = MetaOf(id)'
    BY <1>5, <1>6, <1>7
  <2>5. w.todo # << >> =>
          /\ list' # << >>
          /\ Len(w.document) = Len(ReadDocument(id)')
          /\ \A k \in 1..Len(w.document) : Alike(ReadDocument(id)'[k], w.document[k])
          /\ \A k \in 1..Len(w.todo) : IndexOf(w.document, w.todo[k]) # 0
    BY <1>5, <1>7, <1>8, <1>9, <1>10, <2>2
  <2> QED
    BY <1>7, <2>1, <2>2, <2>3, <2>4, <2>5 DEF UpdateValid
<1> QED
  BY <1>5, <1>11 DEF UInv, StringsLast

-----------------------------------------------------------------------------
LEMMA UpdateInit_UInv ==
    ASSUME StringsLast, UpdateInit
    PROVE  UInv
<1>1. Bookkeeping /\ Placed = {} /\ DataArea = {}
  BY InitBooks DEF UpdateInit
<1>2. Layout
  <2>1. DOMAIN disk = {}
    BY DEF UpdateInit, Init
  <2> QED
    BY <1>1, <2>1 DEF Layout, BlocksApart
<1>3. ContentsReadable
  BY <1>1, InUsePlaced DEF ContentsReadable
<1>4. UpdateValid
  BY DEF UpdateInit, UpdateValid, Updating
<1> QED
  BY <1>1, <1>2, <1>3, <1>4 DEF UInv

(* Every step keeps the invariant, and a step of an update does what it is *)
(* to do.                                                                  *)
LEMMA UpdateNext_UInv ==
    ASSUME UInv, [UpdateNext]_updateVars
    PROVE  UInv' /\ (UpdateStep /\ ~GrowIntoGap => UpdatesElement)
<1>1. Bookkeeping /\ Layout /\ ContentsReadable /\ StringsLast
  BY DEF UInv
<1>2. CASE UpdateStep
  BY <1>2, UpdateStepKeeps
<1>3. CASE ~UpdateStep
  <2>1. CASE ~Updating /\ Client /\ UNCHANGED update
    <3>1. Bookkeeping' /\ Layout' /\ ContentsReadable'
      BY <1>1, <2>1, ClientKeeps
    <3>2. UpdateValid'
      BY <2>1 DEF UpdateValid, Updating
    <3> QED
      BY <1>1, <1>3, <3>1, <3>2 DEF UInv, StringsLast
  <2>2. CASE \E id \in Ids, new \in Updates : BeginUpdate(id, new)
    BY <1>3, <2>2, BeginUpdateKeeps
  <2>3. CASE EndUpdate
    <3>1. Bookkeeping' /\ Layout' /\ ContentsReadable'
      BY <1>1, <2>3, NothingWritten DEF EndUpdate
    <3>2. UpdateValid'
      BY <2>3 DEF EndUpdate, UpdateValid, Updating
    <3> QED
      BY <1>1, <1>3, <3>1, <3>2 DEF UInv, StringsLast
  <2>4. CASE UNCHANGED updateVars
    <3>1. UNCHANGED vars /\ update' = update
      BY <2>4 DEF updateVars
    <3>2. /\ Bookkeeping' /\ Layout' /\ ContentsReadable'
          /\ \A i \in Placed : MetaOf(i)' = MetaOf(i)
          /\ \A i \in Ids : inode[i].status = CLOSE => ReadDocument(i)' = ReadDocument(i)
      BY <1>1, <3>1, NothingWritten
    <3>3. UpdateValid'
      <4>1. CASE ~Updating
        BY <3>1, <4>1 DEF UpdateValid, Updating
      <4>2. CASE Updating
        <5>1. PICK w \in CurrentUpdates :
                 /\ w = Now /\ w.id \in Ids /\ inode[w.id].status = CLOSE /\ w.meta = MetaOf(w.id)
                 /\ w.id \in Placed
          <6>1. Now \in CurrentUpdates /\ inode[Now.id].status = CLOSE /\ Now.meta = MetaOf(Now.id)
            BY <4>2 DEF UInv, UpdateValid
          <6>2. Now.id \in Ids
            BY <6>1 DEF CurrentUpdates
          <6> QED
            BY <1>1, <6>1, <6>2, InUsePlaced
        <5>2. Now' = w /\ Idle' = Idle /\ inode' = inode /\ list' = list
          BY <3>1, <5>1 DEF Now, Idle, vars
        <5>3. /\ MetaOf(Now.id)' = MetaOf(w.id) /\ ReadDocument(Now.id)' = ReadDocument(w.id)
          <6>1. MetaOf(Now.id)' = MetaOf(w.id)' /\ ReadDocument(Now.id)' = ReadDocument(w.id)'
            BY <5>2
          <6> QED
            BY <3>2, <5>1, <6>1
        <5> QED
          BY <3>1, <4>2, <5>1, <5>2, <5>3 DEF UInv, UpdateValid
      <4> QED
        BY <4>1, <4>2
    <3> QED
      BY <1>1, <1>3, <3>2, <3>3 DEF UInv, StringsLast
  <2> QED
    BY <1>3, <2>1, <2>2, <2>3, <2>4 DEF UpdateNext
<1> QED
  BY <1>2, <1>3

(* The invariant of updates in which a string comes last.                  *)
THEOREM UpdateInvariant == StringsLast /\ UpdateSpec => []UInv
<1>1. StringsLast /\ UpdateInit => UInv
  BY UpdateInit_UInv
<1>2. UInv /\ [UpdateNext]_updateVars => UInv'
  BY UpdateNext_UInv
<1> QED
  BY <1>1, <1>2, PTL DEF UpdateSpec

(* The parts of the invariant that the runs check of updates.              *)
LEMMA UInvTypes ==
    ASSUME UInv
    PROVE  UpdateTypeOK
<1>1. /\ header \in Headers /\ diskHeader \in Headers /\ inode \in [Ids -> Inodes]
      /\ \A i \in Placed : MetaOf(i) \in Metas
      /\ list \in Seq([index : Ids, size : Nat]) /\ DOMAIN disk = DataArea
  BY DEF UInv, Bookkeeping, Nodes, Layout
<1>2. CASE ~Updating
  <2>1. Len(update) = 0
    BY <1>2 DEF Updating
  <2> QED
    BY <1>1, <1>2, <2>1 DEF UpdateTypeOK
<1>3. CASE Updating
  <2>1. Len(update) = 1
    BY <1>3 DEF UInv, UpdateValid
  <2>2. Now.meta = MetaOf(Now.id)
    BY <1>3 DEF UInv, UpdateValid
  <2> QED
    BY <1>1, <2>1, <2>2 DEF UpdateTypeOK
<1> QED
  BY <1>2, <1>3

(* updateDocument and updateString leave numbers, links and sizes such as  *)
(* the file can hold, and the meta_t in memory is the one in the file.     *)
THEOREM UpdateTypes == StringsLast /\ UpdateSpec => []UpdateTypeOK
  BY UpdateInvariant, UInvTypes, PTL

(* Wherever a string that has changed its length puts its block, the       *)
(* blocks and gaps of the file never overlap.                              *)
THEOREM UpdatesStayApart == StringsLast /\ UpdateSpec => []BlocksApart
<1>1. UInv => BlocksApart
  BY DEF UInv, Layout
<1> QED
  BY <1>1, UpdateInvariant, PTL

(* The free list names the place a moved block has left, once and with the *)
(* size it had.                                                            *)
THEOREM UpdatesKeepFreeList == StringsLast /\ UpdateSpec => []FreeListExact
<1>1. UInv => FreeListExact
  BY DEF UInv, Bookkeeping
<1> QED
  BY <1>1, UpdateInvariant, PTL

(* Whatever is updated has its new value when it is read back, the other   *)
(* elements and the documents beside it what they had: in place, at the    *)
(* end of the file and moved to its end.                                   *)
THEOREM UpdateStepsExact == StringsLast /\ UpdateSpec => WritesExact
<1>1. UInv /\ [UpdateNext]_updateVars
         => [UpdateStep /\ ~GrowIntoGap => UpdatesElement]_updateVars
  BY UpdateNext_UInv
<1> QED
  BY <1>1, UpdateInvariant, PTL DEF UpdateSpec, WritesExact

=============================================================================
