------------------------ MODULE HeapAllocatorProofs ------------------------
(***************************************************************************)
(* The heap allocator is sound for every size of the heap and of a word    *)
(* and for all layouts: blocks and free regions never overlap, list nodes  *)
(* always fit, and no byte disappears except as alignment padding.         *)
(***************************************************************************)
EXTENDS HeapAllocator, TLAPS

(* Sequences                                                               *)

\* What a sequence is made of.
LEMMA LenProperties ==
  ASSUME NEW S, NEW seq \in Seq(S)
  PROVE  /\ Len(seq) \in Nat
         /\ seq \in [1 .. Len(seq) -> S]
         /\ DOMAIN seq = 1 .. Len(seq)
OBVIOUS

\* The elements of a concatenation.
LEMMA ConcatProperties ==
  ASSUME NEW S, NEW s1 \in Seq(S), NEW s2 \in Seq(S)
  PROVE  /\ s1 \o s2 \in Seq(S)
         /\ Len(s1 \o s2) = Len(s1) + Len(s2)
         /\ \A i \in 1 .. Len(s1) + Len(s2) :
               (s1 \o s2)[i] = IF i <= Len(s1) THEN s1[i] ELSE s2[i - Len(s1)]
OBVIOUS

\* The elements of a part of a sequence.
LEMMA SubSeqProperties ==
  ASSUME NEW S, NEW s, NEW m \in Int, NEW n \in Int,
         \A i \in m .. n : s[i] \in S
  PROVE  /\ SubSeq(s, m, n) \in Seq(S)
         /\ Len(SubSeq(s, m, n)) = IF m <= n THEN n - m + 1 ELSE 0
         /\ \A i \in 1 .. (n - m + 1) : SubSeq(s, m, n)[i] = s[m + i - 1]
OBVIOUS


(* Arithmetic                                                              *)

\* Divisibility, in terms of multiples.
LEMMA Multiple ==
  ASSUME NEW a \in Nat, NEW n \in Nat \ {0}
  PROVE  /\ a % n = 0 => \E k \in Nat : a = k * n
         /\ \A k \in Nat : (k * n) % n = 0
OBVIOUS

\* Divisibility is transitive.
LEMMA DividesTransitive ==
  ASSUME NEW a \in Nat, NEW m \in Nat \ {0}, NEW n \in Nat \ {0},
         a % m = 0, m % n = 0
  PROVE  a % n = 0
<1>1. PICK j \in Nat : a = j * m
  BY Multiple, Zenon
<1>2. PICK k \in Nat : m = k * n
  BY Multiple, Zenon
<1>3. a = (j * k) * n /\ j * k \in Nat
  BY <1>1, <1>2
<1>. QED  BY <1>3, Multiple, Zenon

\* The sum of two multiples is a multiple.
LEMMA DividesSum ==
  ASSUME NEW a \in Nat, NEW b \in Nat, NEW n \in Nat \ {0},
         a % n = 0, b % n = 0
  PROVE  (a + b) % n = 0
<1>1. PICK j \in Nat : a = j * n
  BY Multiple, Zenon
<1>2. PICK k \in Nat : b = k * n
  BY Multiple, Zenon
<1>3. a + b = (j + k) * n /\ j + k \in Nat
  BY <1>1, <1>2
<1>4. ((j + k) * n) % n = 0
  BY <1>3, Multiple, Zenon
<1>. QED  BY <1>3, <1>4, Zenon

\* A multiple other than zero is no smaller than what it is a multiple of.
LEMMA MultipleIsLarger ==
  ASSUME NEW a \in Nat \ {0}, NEW n \in Nat \ {0}, a % n = 0
  PROVE  n <= a
<1>1. PICK k \in Nat : a = k * n
  BY Multiple, Zenon
<1>2. k >= 1
  BY <1>1
<1>. QED  BY <1>1, <1>2

\* RoundUp gives the least multiple that is not smaller.
LEMMA RoundUpFacts ==
  ASSUME NEW n \in Nat, NEW a \in Nat \ {0}
  PROVE  /\ RoundUp(n, a) \in Nat
         /\ n <= RoundUp(n, a)
         /\ RoundUp(n, a) % a = 0
         /\ \A m \in Nat : m % a = 0 /\ n <= m => RoundUp(n, a) <= m
<1>. DEFINE x == n + a - 1
            q == x \div a
            r == x % a
<1>1. x \in Nat
  OBVIOUS
<1>. HIDE DEF x
<1>2. q \in Nat /\ r \in 0 .. (a - 1) /\ x = q * a + r
  BY <1>1
<1>. HIDE DEF q, r
<1>3. RoundUp(n, a) = q * a
  BY Zenon DEF RoundUp, q, x
<1>4. q * a \in Nat /\ n <= q * a /\ q * a <= n + a - 1
  <2>1. q * a \in Nat
    BY <1>2
  <2>. QED  BY <2>1, <1>2 DEF x
<1>5. (q * a) % a = 0
  BY <1>2, Multiple, Zenon
<1>6. ASSUME NEW m \in Nat, m % a = 0, n <= m
      PROVE  q * a <= m
  <2>1. PICK k \in Nat : m = k * a
    BY <1>6, Multiple, Zenon
  <2>2. CASE q <= k
    <3>1. q * a <= k * a
      BY <2>2, <1>2
    <3>. QED  BY <3>1, <2>1, Zenon
  <2>3. CASE k < q
    <3>1. (k + 1) * a <= q * a
      BY <2>3, <1>2
    <3>2. (k + 1) * a = m + a
      BY <2>1
    <3>. QED  BY <3>1, <3>2, <1>4, <1>6
  <2>. QED  BY <2>2, <2>3, <1>2
<1>. QED  BY <1>3, <1>4, <1>5, <1>6, Zenon

\* The bytes and the alignment of a block: a whole number of words with room for a
\* node, at least what the caller asked for.  alloc and dealloc, which round along
\* different paths, agree on the size.
LEMMA LayoutFacts ==
  ASSUME NEW layout \in Layouts
  PROVE  /\ alloc_layout(layout).align \in Nat \ {0}
         /\ alloc_layout(layout).align % Word = 0
         /\ alloc_layout(layout).align % layout.align = 0
         /\ alloc_layout(layout).size \in Nat
         /\ alloc_layout(layout).size >= Node
         /\ alloc_layout(layout).size >= layout.size
         /\ alloc_layout(layout).size % Word = 0
         /\ align_to(layout).size = alloc_layout(layout).size
<1>0. /\ layout = [size |-> layout.size, align |-> layout.align]
      /\ layout.size \in Nat \ {0} /\ layout.align \in Nat \ {0}
      /\ Word \in Nat \ {0} /\ Node \in Nat \ {0} /\ Node = 2 * Word
      /\ Word % layout.align = 0 \/ layout.align % Node = 0
  BY HeapAssumption DEF Layout, Node
<1>. DEFINE A == Larger(layout.align, Word)
            L == Larger(layout.size, Node)
            U == RoundUp(L, A)
            V == RoundUp(layout.size, A)
<1>1. /\ alloc_layout(layout) = [size |-> Larger(U, Node), align |-> A]
      /\ align_to(layout).size = Larger(V, Node)
  BY <1>0, Zenon DEF alloc_layout, align_to
<1>2. /\ A \in Nat \ {0}
      /\ A % layout.align = 0
      /\ A = Word \/ A % Node = 0
  <2>1. CASE Word % layout.align = 0
    <3>1. layout.align <= Word
      BY <2>1, <1>0, MultipleIsLarger, Zenon
    <3>2. A = Word
      BY <3>1, <1>0 DEF Larger
    <3>. QED  BY <3>2, <2>1, <1>0, Zenon
  <2>2. CASE layout.align % Node = 0
    <3>1. Node <= layout.align
      BY <2>2, <1>0, MultipleIsLarger, Zenon
    <3>2. A = layout.align
      BY <3>1, <1>0 DEF Larger
    <3>3. layout.align % layout.align = 0
      BY <1>0
    <3>. QED  BY <3>2, <3>3, <2>2, <1>0, Zenon
  <2>. QED  BY <2>1, <2>2, <1>0, Zenon
<1>3. L \in Nat \ {0} /\ L >= Node /\ L >= layout.size /\ (L = Node \/ L = layout.size)
  BY <1>0 DEF Larger
<1>. HIDE DEF A, L
<1>4. /\ U \in Nat /\ L <= U /\ U % A = 0
      /\ \A m \in Nat : m % A = 0 /\ L <= m => U <= m
  BY <1>2, <1>3, RoundUpFacts, Zenon
<1>5. /\ V \in Nat /\ layout.size <= V /\ V % A = 0
      /\ \A m \in Nat : m % A = 0 /\ layout.size <= m => V <= m
  BY <1>0, <1>2, RoundUpFacts, Zenon
<1>. HIDE DEF U, V
<1>6. A % Word = 0
  <2>1. Node % Word = 0 /\ Word % Word = 0
    BY <1>0
  <2>. QED  BY <2>1, <1>0, <1>2, DividesTransitive, Zenon
<1>7. Larger(U, Node) = U
  BY <1>0, <1>3, <1>4 DEF Larger
<1>8. U % Word = 0
  BY <1>0, <1>2, <1>4, <1>6, DividesTransitive
<1>9. Larger(V, Node) = U
  <2>1. V <= U
    BY <1>0, <1>3, <1>4, <1>5
  <2>2. CASE V >= Node
    <3>1. L <= V
      BY <2>2, <1>0, <1>3, <1>5, Zenon
    <3>2. U <= V
      BY <3>1, <1>4, <1>5, Zenon
    <3>. QED  BY <2>1, <2>2, <3>2, <1>0, <1>4, <1>5 DEF Larger
  <2>3. CASE V < Node
    <3>1. A = Word
      <4>1. CASE A % Node = 0
        <5>1. Node <= A
          BY <4>1, <1>0, <1>2, MultipleIsLarger, Zenon
        <5>2. A <= V
          BY <1>0, <1>2, <1>5, MultipleIsLarger
        <5>. QED  BY <5>1, <5>2, <2>3, <1>0, <1>2, <1>5
      <4>. QED  BY <4>1, <1>2, Zenon
    <3>2. Node % A = 0
      BY <3>1, <1>0
    <3>3. L = Node
      BY <2>3, <1>0, <1>3, <1>5
    <3>4. U <= Node
      BY <3>2, <3>3, <1>0, <1>4
    <3>5. U = Node
      BY <3>4, <3>3, <1>0, <1>4
    <3>. QED  BY <3>5, <2>3, <1>0, <1>5, Zenon DEF Larger
  <2>. QED  BY <2>2, <2>3, <1>0, <1>5
<1>. QED  BY <1>0, <1>1, <1>2, <1>3, <1>4, <1>6, <1>7, <1>8, <1>9

------------------------------------------------------------------------------
(* The inductive invariant                                                 *)

\* A free region starts at a word and lies in the heap.
Region(r) ==
  /\ r \in [start : Nat, size : Nat]
  /\ r.start % Word = 0
  /\ r.start + r.size <= HeapSize

\* The size taken is the size dealloc computes again.
Block(b) ==
  /\ b \in [start : Nat, taken : Nat, layout : Layouts]
  /\ b.taken = align_to(b.layout).size
  /\ b.start % Word = 0
  /\ b.start % b.layout.align = 0
  /\ b.start + b.taken <= HeapSize

Apart(S, T) == S \cap T = {}
\* The bytes of a free region.
RegionBytes(r) == Bytes(r.start, r.size)

\* The free regions of a list are sound and do not overlap.
ListSound(list) ==
  /\ list \in Seq([start : Nat, size : Nat])
  /\ \A i \in DOMAIN list : Region(list[i])
  /\ \A i, j \in DOMAIN list : i # j => Apart(RegionBytes(list[i]), RegionBytes(list[j]))

\* So are the blocks.
BlocksSound(blocks) ==
  /\ \A b \in blocks : Block(b)
  /\ \A b, c \in blocks : b # c => Apart(BlockBytes(b), BlockBytes(c))

\* Neither overlaps the other, nor what was lost, and together they are the heap.
Partition(list, blocks, gone) ==
  /\ \A i \in DOMAIN list, b \in blocks : Apart(RegionBytes(list[i]), BlockBytes(b))
  /\ \A i \in DOMAIN list : Apart(RegionBytes(list[i]), gone)
  /\ \A b \in blocks : Apart(BlockBytes(b), gone)
  /\ gone \subseteq Bytes(0, HeapSize)
  /\ \A x \in Bytes(0, HeapSize) : \/ x \in gone
                                   \/ \E i \in DOMAIN list : x \in RegionBytes(list[i])
                                   \/ \E b \in blocks : x \in BlockBytes(b)

\* add_free_memory_region accepts every region it is given because regions and
\* blocks start at a word and blocks are as large as dealloc computes them: that is
\* what the invariant adds to the properties.
Inv ==
  /\ ListSound(free)
  /\ BlocksSound(allocated)
  /\ Partition(free, allocated, lost)
  /\ NodesAlwaysFit

\* A block has room for a node, and dealloc returns a sound region.
LEMMA BlockFacts ==
  ASSUME NEW b, Block(b)
  PROVE  /\ b.taken >= Node /\ Node \in Nat \ {0}
         /\ b.layout.size <= b.taken
         /\ b.layout \in Layouts /\ b.layout.align \in Nat \ {0}
         /\ BlockBytes(b) # {}
         /\ Region([start |-> b.start, size |-> align_to(b.layout).size])
         /\ RegionBytes([start |-> b.start, size |-> align_to(b.layout).size]) = BlockBytes(b)
         /\ AddPanics(b.start, align_to(b.layout).size) = "no"
<1>1. /\ b.start \in Nat /\ b.taken \in Nat /\ b.layout \in Layouts
      /\ b.taken = align_to(b.layout).size /\ b.start % Word = 0
      /\ b.start + b.taken <= HeapSize
  BY Zenon DEF Block
<1>2. b.layout.align \in Nat \ {0}
  BY <1>1, HeapAssumption, Zenon DEF Layout
<1>3. b.taken >= Node /\ b.taken >= b.layout.size
  BY <1>1, LayoutFacts, Zenon
<1>4. Node \in Nat \ {0}
  BY HeapAssumption DEF Node
<1>5. b.start \in BlockBytes(b)
  BY <1>1, <1>3, <1>4 DEF BlockBytes, Bytes
<1>6. AddPanics(b.start, align_to(b.layout).size) = "no"
  BY <1>1, <1>3, <1>4 DEF AddPanics
<1>7. b.layout.size \in Nat
  BY <1>1, HeapAssumption, Zenon DEF Layout
<1>8. Region([start |-> b.start, size |-> align_to(b.layout).size])
  BY <1>1, Zenon DEF Region
<1>9. RegionBytes([start |-> b.start, size |-> align_to(b.layout).size]) = BlockBytes(b)
  BY <1>1, Zenon DEF RegionBytes, BlockBytes
<1>. QED  BY <1>1, <1>2, <1>3, <1>4, <1>5, <1>6, <1>7, <1>8, <1>9, Zenon

\* A region is cut into the padding, the block and the rest.
LEMMA Cut ==
  ASSUME NEW s \in Nat, NEW a \in Nat, NEW n \in Nat, NEW e \in Nat,
         s <= a, a + n <= e
  PROVE  /\ \A x : x \in Bytes(s, e - s) <=> \/ x \in Bytes(s, a - s)
                                             \/ x \in Bytes(a, n)
                                             \/ x \in Bytes(a + n, e - (a + n))
         /\ Apart(Bytes(s, a - s), Bytes(a, n))
         /\ Apart(Bytes(s, a - s), Bytes(a + n, e - (a + n)))
         /\ Apart(Bytes(a, n), Bytes(a + n, e - (a + n)))
BY DEF Bytes, Apart

\* The list after region i was taken out and r put at the front.
Relink(list, i, r) ==
  <<r>> \o (SubSeq(list, 1, i - 1) \o SubSeq(list, i + 1, Len(list)))

\* Where the regions of that list come from.
IsRelinked(list2, R, list, i, r) ==
  /\ list2 \in Seq(R)
  /\ DOMAIN list2 = DOMAIN list
  /\ \A j \in DOMAIN list2 : \/ j = 1 /\ list2[j] = r
                             \/ j > 1 /\ j <= i /\ list2[j] = list[j - 1]
                             \/ j > 1 /\ j > i /\ list2[j] = list[j]

\* Relink keeps every region but the one taken out.
LEMMA Relinked ==
  ASSUME NEW R, NEW list \in Seq(R), NEW i \in DOMAIN list, NEW r \in R
  PROVE  IsRelinked(Relink(list, i, r), R, list, i, r)
<1>0. PICK list2 : list2 = Relink(list, i, r)
  BY Zenon
<1>. DEFINE Left == SubSeq(list, 1, i - 1)
            Right == SubSeq(list, i + 1, Len(list))
<1>1. i \in 1 .. Len(list) /\ Len(list) \in Nat /\ DOMAIN list = 1 .. Len(list)
  BY LenProperties, Zenon
<1>2. /\ Left \in Seq(R) /\ Len(Left) = i - 1
      /\ \A j \in 1 .. (i - 1) : Left[j] = list[j]
  BY <1>1, SubSeqProperties
<1>3. /\ Right \in Seq(R) /\ Len(Right) = Len(list) - i
      /\ \A j \in 1 .. (Len(list) - i) : Right[j] = list[i + j]
  BY <1>1, SubSeqProperties, SMTT(60)
<1>. HIDE DEF Left, Right
<1>4. PICK mid : mid = Left \o Right
  BY Zenon
<1>5. /\ mid \in Seq(R) /\ Len(mid) = Len(Left) + Len(Right)
      /\ \A j \in 1 .. (Len(Left) + Len(Right)) :
            mid[j] = IF j <= Len(Left) THEN Left[j] ELSE Right[j - Len(Left)]
  BY <1>2, <1>3, <1>4, ConcatProperties, ZenonT(60)
<1>6. Len(mid) = Len(list) - 1
  BY <1>1, <1>2, <1>3, <1>5
<1>7. PICK one : one = <<r>>
  BY Zenon
<1>a. one \in Seq(R) /\ Len(one) = 1 /\ one[1] = r
  BY <1>7
<1>b. list2 = one \o mid
  BY <1>0, <1>4, <1>7, Zenon DEF Relink, Left, Right
<1>c. /\ list2 \in Seq(R) /\ Len(list2) = Len(one) + Len(mid)
      /\ \A j \in 1 .. (Len(one) + Len(mid)) :
            list2[j] = IF j <= Len(one) THEN one[j] ELSE mid[j - Len(one)]
  <2>0. one \in Seq(R) /\ mid \in Seq(R)
    BY <1>5, <1>a, Zenon
  <2>1. /\ one \o mid \in Seq(R) /\ Len(one \o mid) = Len(one) + Len(mid)
        /\ \A j \in 1 .. (Len(one) + Len(mid)) :
              (one \o mid)[j] = IF j <= Len(one) THEN one[j] ELSE mid[j - Len(one)]
    BY <2>0, ConcatProperties, Zenon
  <2>. QED  BY <2>1, <1>b, Zenon
<1>8. /\ list2 \in Seq(R) /\ Len(list2) = Len(list)
      /\ \A j \in 1 .. Len(list) : list2[j] = IF j = 1 THEN r ELSE mid[j - 1]
  <2>1. Len(list2) = Len(list) /\ Len(one) + Len(mid) = Len(list)
    BY <1>1, <1>6, <1>a, <1>c
  <2>2. ASSUME NEW j \in 1 .. Len(list)
        PROVE  list2[j] = IF j = 1 THEN r ELSE mid[j - 1]
    <3>1. list2[j] = IF j <= Len(one) THEN one[j] ELSE mid[j - Len(one)]
      BY <2>1, <1>c, Zenon
    <3>2. j <= 1 <=> j = 1
      BY <1>1
    <3>. QED  BY <3>1, <3>2, <1>a, Zenon
  <2>. QED  BY <2>1, <2>2, <1>c, Zenon
<1>9. ASSUME NEW j \in 1 .. (Len(list) - 1)
      PROVE  mid[j] = IF j < i THEN list[j] ELSE list[j + 1]
  <2>0. j \in 1 .. (Len(Left) + Len(Right))
    BY <1>1, <1>2, <1>3, SMTT(60)
  <2>1. CASE j < i
    <3>1. j \in 1 .. (i - 1)
      BY <2>1, <1>1
    <3>2. mid[j] = Left[j]
      BY <2>0, <3>1, <1>1, <1>2, <1>5
    <3>. QED  BY <3>1, <3>2, <2>1, <1>2, Zenon
  <2>2. CASE j >= i
    <3>0. ~(j <= Len(Left)) /\ Len(Left) = i - 1
      BY <2>2, <1>1, <1>2
    <3>1. mid[j] = Right[j - (i - 1)]
      BY <2>0, <3>0, <1>5, Zenon
    <3>2. j - (i - 1) \in 1 .. (Len(list) - i) /\ i + (j - (i - 1)) = j + 1 /\ ~(j < i)
      BY <2>2, <1>1
    <3>3. Right[j - (i - 1)] = list[i + (j - (i - 1))]
      BY <3>2, <1>3, Zenon
    <3>. QED  BY <3>1, <3>2, <3>3, Zenon
  <2>. QED  BY <2>1, <2>2, <1>1
<1>10. DOMAIN list2 = 1 .. Len(list)
  BY <1>8, LenProperties, Zenon
<1>11. ASSUME NEW j \in DOMAIN list2
       PROVE  \/ j = 1 /\ list2[j] = r
              \/ j > 1 /\ j <= i /\ list2[j] = list[j - 1]
              \/ j > 1 /\ j > i /\ list2[j] = list[j]
  <2>1. CASE j = 1
    BY <2>1, <1>1, <1>8, <1>10, Zenon
  <2>2. CASE j > 1
    <3>1. j - 1 \in 1 .. (Len(list) - 1) /\ ((j - 1) + 1) = j
      BY <2>2, <1>1, <1>10
    <3>2. list2[j] = mid[j - 1]
      <4>1. j \in 1 .. Len(list) /\ j # 1
        BY <2>2, <1>10
      <4>. QED  BY <4>1, <1>8, Zenon
    <3>3. mid[j - 1] = IF j - 1 < i THEN list[j - 1] ELSE list[(j - 1) + 1]
      BY <3>1, <1>9, Zenon
    <3>4. (j - 1 < i) <=> (j <= i)
      BY <1>1, <1>10
    <3>. QED  BY <3>1, <3>2, <3>3, <3>4, <2>2
  <2>. QED  BY <2>1, <2>2, <1>1, <1>10
<1>. QED  BY <1>0, <1>1, <1>8, <1>10, <1>11, Zenon DEF IsRelinked

\* What alloc does: it cuts the region it finds into padding, a sound block and a
\* sound rest, and no assertion fails.
LEMMA AllocFacts ==
  ASSUME Inv, NEW layout \in Layouts, alloc(layout)
  PROVE  \E i, r, b, P :
           /\ i \in DOMAIN free
           /\ free' = Relink(free, i, r)
           /\ allocated' = allocated \cup {b}
           /\ lost' = lost \cup P
           /\ panicked' = "no"
           /\ Region(r) /\ Block(b)
           /\ \A x : x \in RegionBytes(free[i]) <=> \/ x \in P \/ x \in BlockBytes(b)
                                                    \/ x \in RegionBytes(r)
           /\ Apart(P, BlockBytes(b)) /\ Apart(P, RegionBytes(r))
           /\ Apart(BlockBytes(b), RegionBytes(r))
<1>1. PICK l : l = alloc_layout(layout)
  BY Zenon
<1>2. PICK i \in Fitting(l) :
         LET a == try_allocation(free[i], l) IN
         /\ add_free_memory_region(Unlinked(i), a.end, a.left)
         /\ allocated' = allocated \cup {[start |-> a.start, taken |-> l.size, layout |-> layout]}
         /\ lost' = lost \cup Bytes(free[i].start, a.start - free[i].start)
  BY <1>1, Zenon DEF alloc
<1>3. PICK a : a = try_allocation(free[i], l)
  BY Zenon
<1>4. PICK r : r = [start |-> a.end, size |-> a.left]
  BY Zenon
<1>5. PICK b : b = [start |-> a.start, taken |-> l.size, layout |-> layout]
  BY Zenon
<1>6. PICK P : P = Bytes(free[i].start, a.start - free[i].start)
  BY Zenon
<1>7. /\ panicked' = AddPanics(a.end, a.left)
      /\ free' = IF panicked' = "no" THEN <<r>> \o Unlinked(i) ELSE Unlinked(i)
      /\ allocated' = allocated \cup {b}
      /\ lost' = lost \cup P
  <2>1. /\ add_free_memory_region(Unlinked(i), a.end, a.left)
        /\ allocated' = allocated \cup {b}
        /\ lost' = lost \cup P
    BY <1>2, <1>3, <1>5, <1>6, Zenon
  <2>. QED  BY <2>1, <1>4, Zenon DEF add_free_memory_region
<1>8. i \in DOMAIN free /\ a.ok
  BY <1>2, <1>3, Zenon DEF Fitting
<1>9. /\ Region(free[i])
      /\ free[i].start \in Nat /\ free[i].size \in Nat
      /\ free[i].start % Word = 0
      /\ free[i].start + free[i].size <= HeapSize
  BY <1>8, Zenon DEF Inv, ListSound, Region
<1>10. /\ l.align \in Nat \ {0} /\ l.align % Word = 0 /\ l.align % layout.align = 0
       /\ l.size \in Nat /\ l.size >= Node /\ l.size % Word = 0
       /\ l.size = align_to(layout).size
       /\ layout.align \in Nat \ {0}
       /\ Word \in Nat \ {0} /\ Node \in Nat \ {0} /\ HeapSize \in Nat
  BY <1>1, LayoutFacts, HeapAssumption DEF Layout, Node
<1>11. PICK e : e = free[i].start + free[i].size
  BY Zenon
<1>12. /\ a.start = RoundUp(free[i].start, l.align)
       /\ a.end = a.start + l.size
       /\ a.left = e - a.end
       /\ a.end < e /\ (a.left = 0 \/ a.left >= Node)
  BY <1>3, <1>8, <1>11, Zenon DEF try_allocation
<1>13. /\ a.start \in Nat /\ free[i].start <= a.start
       /\ a.start % l.align = 0
  <2>1. free[i].start \in Nat /\ l.align \in Nat \ {0}
    BY <1>9, <1>10, Zenon
  <2>2. /\ RoundUp(free[i].start, l.align) \in Nat
        /\ free[i].start <= RoundUp(free[i].start, l.align)
        /\ RoundUp(free[i].start, l.align) % l.align = 0
    BY <2>1, RoundUpFacts, Zenon
  <2>. QED  BY <1>12, <2>2, Zenon
<1>14. a.start % Word = 0 /\ a.start % layout.align = 0
  BY <1>10, <1>13, DividesTransitive, Zenon
<1>15. a.end \in Nat /\ a.left \in Nat /\ a.left >= Node /\ e \in Nat /\ e <= HeapSize
  BY <1>9, <1>10, <1>11, <1>12, <1>13
<1>16. a.end % Word = 0
  BY <1>10, <1>12, <1>13, <1>14, DividesSum
<1>17. panicked' = "no"
  <2>1. AddPanics(a.end, a.left) = "no"
    BY <1>10, <1>15, <1>16 DEF AddPanics
  <2>. QED  BY <2>1, <1>7, Zenon
<1>18. free' = Relink(free, i, r)
  BY <1>7, <1>17, Zenon DEF Relink, Unlinked
<1>19. Region(r)
  BY <1>4, <1>12, <1>15, <1>16 DEF Region
<1>20. Block(b)
  <2>1. b.start + b.taken <= HeapSize
    BY <1>5, <1>10, <1>12, <1>13, <1>15
  <2>. QED  BY <2>1, <1>5, <1>10, <1>13, <1>14, Zenon DEF Block
<1>21. /\ \A x : x \in Bytes(free[i].start, e - free[i].start)
                   <=> \/ x \in Bytes(free[i].start, a.start - free[i].start)
                       \/ x \in Bytes(a.start, l.size)
                       \/ x \in Bytes(a.start + l.size, e - (a.start + l.size))
       /\ Apart(Bytes(free[i].start, a.start - free[i].start), Bytes(a.start, l.size))
       /\ Apart(Bytes(free[i].start, a.start - free[i].start),
                Bytes(a.start + l.size, e - (a.start + l.size)))
       /\ Apart(Bytes(a.start, l.size), Bytes(a.start + l.size, e - (a.start + l.size)))
  <2>1. a.start + l.size <= e
    BY <1>10, <1>12, <1>13, <1>15
  <2>. QED  BY <2>1, <1>9, <1>10, <1>13, <1>15, Cut, Zenon
<1>22. /\ RegionBytes(free[i]) = Bytes(free[i].start, e - free[i].start)
       /\ RegionBytes(r) = Bytes(a.start + l.size, e - (a.start + l.size))
       /\ BlockBytes(b) = Bytes(a.start, l.size)
  <2>1. e - free[i].start = free[i].size
    BY <1>9, <1>11
  <2>2. RegionBytes(r) = Bytes(a.end, a.left)
    BY <1>4, Zenon DEF RegionBytes
  <2>3. BlockBytes(b) = Bytes(a.start, l.size)
    BY <1>5, Zenon DEF BlockBytes
  <2>. QED  BY <2>1, <2>2, <2>3, <1>12, Zenon DEF RegionBytes
<1>. QED  BY <1>6, <1>7, <1>8, <1>17, <1>18, <1>19, <1>20, <1>21, <1>22, Zenon

\* Initially the heap is one free region.
LEMMA InitInv == Init => Inv
<1>. SUFFICES ASSUME Init PROVE Inv
  BY Zenon
<1>1. PICK r : r = [start |-> 0, size |-> HeapSize]
  BY Zenon
<1>2. free = <<r>> /\ allocated = {} /\ lost = {} /\ panicked = "no"
  BY <1>1, Zenon DEF Init
<1>3. Region(r) /\ r \in [start : Nat, size : Nat]
  BY <1>1, HeapAssumption DEF Region
<1>4. DOMAIN free = {1} /\ free[1] = r
  BY <1>2
<1>5. ListSound(free)
  BY <1>2, <1>3, <1>4 DEF ListSound
<1>6. RegionBytes(r) = Bytes(0, HeapSize)
  BY <1>1, Zenon DEF RegionBytes
<1>7. Partition(free, allocated, lost)
  BY <1>2, <1>4, <1>6, Zenon DEF Partition, Apart
<1>. QED  BY <1>2, <1>5, <1>7, Zenon DEF Inv, BlocksSound, NodesAlwaysFit

\* alloc keeps the invariant.
LEMMA AllocStep ==
  ASSUME Inv, NEW layout \in Layouts, alloc(layout)
  PROVE  Inv'
<1>1. PICK i, r, b, P :
           /\ i \in DOMAIN free
           /\ free' = Relink(free, i, r)
           /\ allocated' = allocated \cup {b}
           /\ lost' = lost \cup P
           /\ panicked' = "no"
           /\ Region(r) /\ Block(b)
           /\ \A x : x \in RegionBytes(free[i]) <=> \/ x \in P \/ x \in BlockBytes(b)
                                                    \/ x \in RegionBytes(r)
           /\ Apart(P, BlockBytes(b)) /\ Apart(P, RegionBytes(r))
           /\ Apart(BlockBytes(b), RegionBytes(r))
  BY AllocFacts, Zenon
<1>2. PICK f, g, A, B, G, H : f = free /\ g = free' /\ A = allocated /\ B = allocated'
                              /\ G = lost /\ H = lost'
  BY Zenon
<1>3. /\ ListSound(f) /\ BlocksSound(A) /\ Partition(f, A, G) /\ i \in DOMAIN f
      /\ f \in Seq([start : Nat, size : Nat])
  BY <1>1, <1>2, Zenon DEF Inv, ListSound
<1>4. /\ g = Relink(f, i, r) /\ B = A \cup {b} /\ H = G \cup P
      /\ \A x : x \in RegionBytes(f[i]) <=> \/ x \in P \/ x \in BlockBytes(b)
                                            \/ x \in RegionBytes(r)
  BY <1>1, <1>2, Zenon
<1>5. r \in [start : Nat, size : Nat]
  BY <1>1, Zenon DEF Region
<1>6. /\ g \in Seq([start : Nat, size : Nat])
      /\ DOMAIN g = DOMAIN f
      /\ \A j \in DOMAIN g : \/ j = 1 /\ g[j] = r
                             \/ j > 1 /\ j <= i /\ g[j] = f[j - 1]
                             \/ j > 1 /\ j > i /\ g[j] = f[j]
  <2>1. PICK R : R = [start : Nat, size : Nat]
    BY Zenon
  <2>2. g = Relink(f, i, r) /\ f \in Seq(R) /\ i \in DOMAIN f /\ r \in R
    BY <2>1, <1>3, <1>4, <1>5, Zenon
  <2>3. f \in Seq(R) /\ i \in DOMAIN f /\ r \in R
    BY <2>2, Zenon
  <2>4. IsRelinked(Relink(f, i, r), R, f, i, r)
    BY <2>3, Relinked, Zenon
  <2>. QED  BY <2>1, <2>2, <2>4, Zenon DEF IsRelinked
<1>7. DOMAIN f = 1 .. Len(f) /\ Len(f) \in Nat /\ i \in 1 .. Len(f)
  BY <1>3, LenProperties, Zenon
\* The region a place of the new list held in the old one.
<1>. DEFINE Src(j) == IF j <= i THEN j - 1 ELSE j
<1>8. ASSUME NEW j \in DOMAIN g, j # 1
      PROVE  Src(j) \in DOMAIN f /\ Src(j) # i /\ g[j] = f[Src(j)]
  <2>1. j \in 1 .. Len(f)
    BY <1>6, <1>7, Zenon
  <2>2. CASE j <= i
    BY <2>1, <2>2, <1>6, <1>7, <1>8, SMTT(60)
  <2>3. CASE j > i
    BY <2>1, <2>3, <1>6, <1>7, <1>8
  <2>. QED  BY <2>1, <2>2, <2>3, <1>7
<1>9. ASSUME NEW j \in DOMAIN g, NEW k \in DOMAIN g, j # 1, k # 1, j # k
      PROVE  Src(j) # Src(k)
  BY <1>6, <1>7, <1>9, SMTT(60)
<1>10. ASSUME NEW k \in DOMAIN f, k # i
       PROVE  \E j \in DOMAIN g : j # 1 /\ Src(j) = k
  <2>1. CASE k < i
    <3>1. k + 1 \in DOMAIN g /\ k + 1 # 1 /\ Src(k + 1) = k
      BY <2>1, <1>6, <1>7, SMTT(60)
    <3>. QED  BY <3>1, Zenon
  <2>2. CASE k > i
    <3>1. k \in DOMAIN g /\ k # 1 /\ Src(k) = k
      BY <2>2, <1>6, <1>7
    <3>. QED  BY <3>1, Zenon
  <2>. QED  BY <2>1, <2>2, <1>7, <1>10
<1>11. 1 \in DOMAIN g /\ g[1] = r
  BY <1>6, <1>7
<1>. HIDE DEF Src
<1>12. /\ \A j \in DOMAIN f : Region(f[j])
       /\ \A j, k \in DOMAIN f : j # k => Apart(RegionBytes(f[j]), RegionBytes(f[k]))
  BY <1>3, Zenon DEF ListSound
<1>13. \A j \in DOMAIN f : j # i => Apart(RegionBytes(f[j]), RegionBytes(r))
  BY <1>3, <1>4, <1>12, Zenon DEF Apart
<1>14. ListSound(g)
  <2>1. ASSUME NEW j \in DOMAIN g
        PROVE  Region(g[j])
    BY <1>1, <1>8, <1>11, <1>12, Zenon
  <2>2. ASSUME NEW j \in DOMAIN g, NEW k \in DOMAIN g, j # k
        PROVE  Apart(RegionBytes(g[j]), RegionBytes(g[k]))
    <3>1. CASE j = 1
      <4>1. Apart(RegionBytes(f[Src(k)]), RegionBytes(r)) /\ g[k] = f[Src(k)] /\ g[j] = r
        BY <2>2, <3>1, <1>8, <1>11, <1>13, Zenon
      <4>. QED  BY <4>1, Zenon DEF Apart
    <3>2. CASE k = 1
      <4>1. Apart(RegionBytes(f[Src(j)]), RegionBytes(r)) /\ g[j] = f[Src(j)] /\ g[k] = r
        BY <2>2, <3>2, <1>8, <1>11, <1>13, Zenon
      <4>. QED  BY <4>1, Zenon
    <3>3. CASE j # 1 /\ k # 1
      BY <2>2, <3>3, <1>8, <1>9, <1>12, Zenon
    <3>. QED  BY <3>1, <3>2, <3>3, Zenon
  <2>. QED  BY <2>1, <2>2, <1>6, Zenon DEF ListSound
<1>15. /\ \A c \in A : Block(c) /\ Apart(RegionBytes(f[i]), BlockBytes(c))
       /\ \A c, d \in A : c # d => Apart(BlockBytes(c), BlockBytes(d))
       /\ \A j \in DOMAIN f, c \in A : Apart(RegionBytes(f[j]), BlockBytes(c))
       /\ \A j \in DOMAIN f : Apart(RegionBytes(f[j]), G)
       /\ \A c \in A : Apart(BlockBytes(c), G)
       /\ G \subseteq Bytes(0, HeapSize)
  BY <1>3, Zenon DEF BlocksSound, Partition
<1>16. BlocksSound(B)
  <2>1. \A c \in A : Apart(BlockBytes(c), BlockBytes(b)) /\ Apart(BlockBytes(b), BlockBytes(c))
    BY <1>4, <1>15, Zenon DEF Apart
  <2>. QED  BY <2>1, <1>1, <1>4, <1>15, Zenon DEF BlocksSound
<1>17. \A j \in DOMAIN g, c \in B : Apart(RegionBytes(g[j]), BlockBytes(c))
  <2>1. ASSUME NEW j \in DOMAIN g, NEW c \in A
        PROVE  Apart(RegionBytes(g[j]), BlockBytes(c))
    <3>1. Apart(RegionBytes(r), BlockBytes(c))
      BY <1>4, <1>15, Zenon DEF Apart
    <3>. QED  BY <3>1, <1>8, <1>11, <1>15, Zenon
  <2>2. ASSUME NEW j \in DOMAIN g
        PROVE  Apart(RegionBytes(g[j]), BlockBytes(b))
    <3>1. \A k \in DOMAIN f : k # i => Apart(RegionBytes(f[k]), BlockBytes(b))
      BY <1>3, <1>4, <1>12, Zenon DEF Apart
    <3>2. Apart(RegionBytes(r), BlockBytes(b))
      BY <1>1, Zenon DEF Apart
    <3>. QED  BY <3>1, <3>2, <1>8, <1>11, Zenon
  <2>. QED  BY <2>1, <2>2, <1>4, Zenon
<1>18. \A j \in DOMAIN g : Apart(RegionBytes(g[j]), H)
  <2>1. \A k \in DOMAIN f : k # i => Apart(RegionBytes(f[k]), H)
    BY <1>3, <1>4, <1>12, <1>15, Zenon DEF Apart
  <2>2. Apart(RegionBytes(r), H)
    BY <1>1, <1>3, <1>4, <1>15, Zenon DEF Apart
  <2>. QED  BY <2>1, <2>2, <1>8, <1>11, Zenon
<1>19. \A c \in B : Apart(BlockBytes(c), H)
  <2>1. \A c \in A : Apart(BlockBytes(c), H)
    BY <1>4, <1>15, Zenon DEF Apart
  <2>2. Apart(BlockBytes(b), H)
    BY <1>1, <1>3, <1>4, <1>15, Zenon DEF Apart
  <2>. QED  BY <2>1, <2>2, <1>4, Zenon
<1>20. H \subseteq Bytes(0, HeapSize)
  <2>1. P \subseteq RegionBytes(f[i])
    BY <1>4, Zenon
  <2>2. Region(f[i]) /\ HeapSize \in Nat
    BY <1>3, <1>12, HeapAssumption, Zenon
  <2>3. RegionBytes(f[i]) \subseteq Bytes(0, HeapSize)
    BY <2>2 DEF Region, RegionBytes, Bytes
  <2>. QED  BY <2>1, <2>3, <1>4, <1>15, Zenon
<1>21. ASSUME NEW x \in Bytes(0, HeapSize)
       PROVE  \/ x \in H
              \/ \E j \in DOMAIN g : x \in RegionBytes(g[j])
              \/ \E c \in B : x \in BlockBytes(c)
  <2>1. \/ x \in G
        \/ \E k \in DOMAIN f : x \in RegionBytes(f[k])
        \/ \E c \in A : x \in BlockBytes(c)
    BY <1>3, Zenon DEF Partition
  <2>2. CASE \E k \in DOMAIN f : x \in RegionBytes(f[k])
    <3>1. PICK k \in DOMAIN f : x \in RegionBytes(f[k])
      BY <2>2, Zenon
    <3>2. CASE k = i
      BY <3>1, <3>2, <1>4, <1>11, Zenon
    <3>3. CASE k # i
      BY <3>1, <3>3, <1>8, <1>10, Zenon
    <3>. QED  BY <3>2, <3>3, Zenon
  <2>. QED  BY <2>1, <2>2, <1>4, Zenon
<1>22. Partition(g, B, H)
  BY <1>17, <1>18, <1>19, <1>20, <1>21, Zenon DEF Partition
<1>. QED  BY <1>1, <1>2, <1>14, <1>16, <1>22, Zenon DEF Inv, NodesAlwaysFit

\* dealloc keeps the invariant: the block becomes the first free region.
LEMMA DeallocStep ==
  ASSUME Inv, NEW b \in allocated, dealloc(b)
  PROVE  Inv'
<1>1. PICK r : r = [start |-> b.start, size |-> align_to(b.layout).size]
  BY Zenon
<1>2. Block(b)
  BY Zenon DEF Inv, BlocksSound
<1>3. /\ Region(r) /\ RegionBytes(r) = BlockBytes(b)
      /\ AddPanics(b.start, align_to(b.layout).size) = "no"
  BY <1>1, <1>2, BlockFacts, Zenon
<1>4. /\ panicked' = "no" /\ free' = <<r>> \o free
      /\ allocated' = allocated \ {b} /\ lost' = lost
  BY <1>1, <1>3, Zenon DEF dealloc, add_free_memory_region
<1>5. PICK f, g, A, B, G : f = free /\ g = free' /\ A = allocated /\ B = allocated' /\ G = lost
  BY Zenon
<1>6. /\ ListSound(f) /\ BlocksSound(A) /\ Partition(f, A, G) /\ b \in A
      /\ f \in Seq([start : Nat, size : Nat])
  BY <1>5, Zenon DEF Inv, ListSound
<1>7. r \in [start : Nat, size : Nat]
  BY <1>3, Zenon DEF Region
<1>8. /\ g \in Seq([start : Nat, size : Nat])
      /\ Len(g) = Len(f) + 1 /\ DOMAIN g = 1 .. (Len(f) + 1)
      /\ DOMAIN f = 1 .. Len(f) /\ Len(f) \in Nat
      /\ 1 \in DOMAIN g /\ g[1] = r
      /\ \A j \in DOMAIN g : j # 1 => j - 1 \in DOMAIN f /\ g[j] = f[j - 1]
      /\ \A j \in DOMAIN f : j + 1 \in DOMAIN g /\ j + 1 # 1 /\ g[j + 1] = f[j]
  <2>1. PICK R : R = [start : Nat, size : Nat]
    BY Zenon
  <2>2. f \in Seq(R) /\ r \in R /\ g = <<r>> \o f
    BY <2>1, <1>4, <1>5, <1>6, <1>7, Zenon
  <2>3. PICK one : one = <<r>>
    BY Zenon
  <2>4. one \in Seq(R) /\ Len(one) = 1 /\ one[1] = r
    BY <2>2, <2>3
  <2>5. g = one \o f
    BY <2>2, <2>3, Zenon
  <2>6. /\ one \o f \in Seq(R) /\ Len(one \o f) = Len(one) + Len(f)
        /\ \A j \in 1 .. (Len(one) + Len(f)) :
              (one \o f)[j] = IF j <= Len(one) THEN one[j] ELSE f[j - Len(one)]
    BY <2>2, <2>4, ConcatProperties, Zenon
  <2>7. DOMAIN f = 1 .. Len(f) /\ Len(f) \in Nat
    BY <2>2, LenProperties, Zenon
  <2>8. g \in Seq(R) /\ Len(g) = Len(f) + 1 /\ DOMAIN g = 1 .. (Len(f) + 1)
    BY <2>4, <2>5, <2>6, <2>7, LenProperties
  <2>9. \A j \in 1 .. (Len(f) + 1) : g[j] = IF j <= 1 THEN r ELSE f[j - 1]
    BY <2>4, <2>5, <2>6, <2>7
  <2>10. g \in Seq([start : Nat, size : Nat])
    BY <2>1, <2>8, Zenon
  <2>. QED  BY <2>7, <2>8, <2>9, <2>10, SMTT(60)
<1>9. /\ \A j \in DOMAIN f : Region(f[j])
      /\ \A j, k \in DOMAIN f : j # k => Apart(RegionBytes(f[j]), RegionBytes(f[k]))
      /\ \A c \in A : Block(c)
      /\ \A c, d \in A : c # d => Apart(BlockBytes(c), BlockBytes(d))
      /\ \A j \in DOMAIN f, c \in A : Apart(RegionBytes(f[j]), BlockBytes(c))
      /\ \A j \in DOMAIN f : Apart(RegionBytes(f[j]), G)
      /\ \A c \in A : Apart(BlockBytes(c), G)
      /\ G \subseteq Bytes(0, HeapSize)
  BY <1>6, Zenon DEF ListSound, BlocksSound, Partition
<1>10. ListSound(g)
  <2>1. \A j \in DOMAIN g : Region(g[j])
    BY <1>3, <1>8, <1>9, SMTT(60)
  <2>2. ASSUME NEW j \in DOMAIN g, NEW k \in DOMAIN g, j # k
        PROVE  Apart(RegionBytes(g[j]), RegionBytes(g[k]))
    <3>0. \A n \in DOMAIN f : Apart(RegionBytes(f[n]), RegionBytes(r))
                              /\ Apart(RegionBytes(r), RegionBytes(f[n]))
      BY <1>3, <1>6, <1>9 DEF Apart
    <3>1. CASE j = 1 \/ k = 1
      BY <2>2, <3>0, <3>1, <1>8, Zenon
    <3>2. CASE j # 1 /\ k # 1
      <4>1. /\ j - 1 \in DOMAIN f /\ k - 1 \in DOMAIN f /\ j - 1 # k - 1
            /\ g[j] = f[j - 1] /\ g[k] = f[k - 1]
        BY <2>2, <3>2, <1>8
      <4>. QED  BY <4>1, <1>9, Zenon
    <3>. QED  BY <3>1, <3>2, Zenon
  <2>. QED  BY <2>1, <2>2, <1>8, Zenon DEF ListSound
<1>11. B = A \ {b}
  BY <1>4, <1>5, Zenon
<1>12. BlocksSound(B)
  BY <1>9, <1>11, Zenon DEF BlocksSound
<1>13. \A j \in DOMAIN g, c \in B : Apart(RegionBytes(g[j]), BlockBytes(c))
  BY <1>3, <1>6, <1>8, <1>9, <1>11, Zenon
<1>14. \A j \in DOMAIN g : Apart(RegionBytes(g[j]), G)
  BY <1>3, <1>6, <1>8, <1>9, Zenon
<1>15. ASSUME NEW x \in Bytes(0, HeapSize)
       PROVE  \/ x \in G
              \/ \E j \in DOMAIN g : x \in RegionBytes(g[j])
              \/ \E c \in B : x \in BlockBytes(c)
  <2>1. \/ x \in G
        \/ \E k \in DOMAIN f : x \in RegionBytes(f[k])
        \/ \E c \in A : x \in BlockBytes(c)
    BY <1>6, Zenon DEF Partition
  <2>2. CASE \E k \in DOMAIN f : x \in RegionBytes(f[k])
    BY <2>2, <1>8, Zenon
  <2>3. CASE \E c \in A : x \in BlockBytes(c)
    BY <2>3, <1>3, <1>8, <1>11, ZenonT(60)
  <2>. QED  BY <2>1, <2>2, <2>3, Zenon
<1>16. Partition(g, B, G)
  BY <1>9, <1>11, <1>13, <1>14, <1>15, Zenon DEF Partition
<1>. QED  BY <1>4, <1>5, <1>10, <1>12, <1>16, Zenon DEF Inv, NodesAlwaysFit

LEMMA NextStep == Inv /\ [Next]_vars => Inv'
<1>. SUFFICES ASSUME Inv, [Next]_vars PROVE Inv'
  BY Zenon
<1>1. ASSUME NEW layout \in Layouts, alloc(layout) PROVE Inv'
  BY <1>1, AllocStep, Zenon
<1>2. ASSUME NEW layout \in Layouts, out_of_memory(layout) PROVE Inv'
  BY <1>2, Zenon DEF out_of_memory, Inv, NodesAlwaysFit
<1>3. ASSUME NEW b \in allocated, dealloc(b) PROVE Inv'
  BY <1>3, DeallocStep, Zenon
<1>4. CASE UNCHANGED vars
  BY <1>4, Zenon DEF vars, Inv, NodesAlwaysFit
<1>. QED  BY <1>1, <1>2, <1>3, <1>4, Zenon DEF Next

\* The invariant is inductive.
THEOREM Invariance == Spec => []Inv
BY InitInv, NextStep, PTL DEF Spec

\* A function on 1 .. n is a sequence.
LEMMA FunctionIsSeq ==
  ASSUME NEW T, NEW n \in Nat, NEW s \in [1 .. n -> T]
  PROVE  s \in Seq(T)
OBVIOUS

\* The invariant implies what the runs check.
LEMMA InvImplies ==
  ASSUME Inv
  PROVE  TypeOK /\ BlocksAreSound /\ NodesAlwaysFit /\ HeapIsConserved
<1>1. /\ free \in Seq([start : Nat, size : Nat])
      /\ \A i \in DOMAIN free : Region(free[i]) /\ RegionBytes(free[i]) = FreeBytes(i)
      /\ \A i, j \in DOMAIN free : i # j => Apart(RegionBytes(free[i]), RegionBytes(free[j]))
      /\ \A b \in allocated : Block(b)
      /\ \A b, c \in allocated : b # c => Apart(BlockBytes(b), BlockBytes(c))
      /\ \A i \in DOMAIN free, b \in allocated : Apart(RegionBytes(free[i]), BlockBytes(b))
      /\ \A i \in DOMAIN free : Apart(RegionBytes(free[i]), lost)
      /\ \A b \in allocated : Apart(BlockBytes(b), lost)
      /\ lost \subseteq Bytes(0, HeapSize)
  BY Zenon DEF Inv, ListSound, BlocksSound, Partition, RegionBytes, FreeBytes
<1>2. HeapSize \in Nat
  BY HeapAssumption, Zenon
<1>3. \A i \in DOMAIN free : /\ free[i] \in [start : 0 .. HeapSize, size : 0 .. HeapSize]
                             /\ FreeBytes(i) \subseteq Bytes(0, HeapSize)
  BY <1>1, <1>2, SMTT(60) DEF Region, RegionBytes, Bytes
<1>4. \A b \in allocated : /\ b.start \in 0 .. HeapSize /\ b.layout \in Layouts
                           /\ BlockBytes(b) \subseteq Bytes(0, HeapSize)
                           /\ b.start % b.layout.align = 0
  BY <1>1, <1>2 DEF Block, BlockBytes, Bytes
<1>5. \A b \in allocated : b.layout.size <= b.taken
  BY <1>1, BlockFacts, Zenon
<1>6. TypeOK
  <2>1. free \in Seq([start : 0 .. HeapSize, size : 0 .. HeapSize])
    <3>1. free \in [1 .. Len(free) -> [start : 0 .. HeapSize, size : 0 .. HeapSize]] /\ Len(free) \in Nat
      BY <1>1, <1>3
    <3>. QED  BY <3>1, FunctionIsSeq, Zenon
  <2>. QED  BY <2>1, <1>1, <1>4, Zenon DEF TypeOK, Inv, NodesAlwaysFit
<1>7. BlocksAreSound
  BY <1>1, <1>3, <1>4, <1>5, Zenon DEF BlocksAreSound, Apart
<1>8. ASSUME NEW x
      PROVE  x \in Bytes(0, HeapSize) \ lost <=> \/ \E i \in DOMAIN free : x \in FreeBytes(i)
                                                 \/ \E b \in allocated : x \in BlockBytes(b)
  <2>1. ASSUME x \in Bytes(0, HeapSize) \ lost
        PROVE  \/ \E i \in DOMAIN free : x \in FreeBytes(i)
               \/ \E b \in allocated : x \in BlockBytes(b)
    BY <2>1, <1>1, Zenon DEF Inv, Partition
  <2>2. ASSUME NEW i \in DOMAIN free, x \in FreeBytes(i)
        PROVE  x \in Bytes(0, HeapSize) \ lost
    BY <2>2, <1>1, <1>3, Zenon DEF Apart
  <2>3. ASSUME NEW b \in allocated, x \in BlockBytes(b)
        PROVE  x \in Bytes(0, HeapSize) \ lost
    BY <2>3, <1>1, <1>4, Zenon DEF Apart
  <2>. QED  BY <2>1, <2>2, <2>3, Zenon
<1>9. HeapIsConserved
  BY <1>8, Zenon DEF HeapIsConserved
<1>. QED  BY <1>6, <1>7, <1>9, Zenon DEF Inv

\* The free list, the blocks and the record of lost bytes keep their types: no
\* subtraction of try_allocation leaves a region with a negative size.
THEOREM TypeCorrectness == Spec => []TypeOK
<1>1. Inv => TypeOK
  BY InvImplies, Zenon
<1>. QED  BY <1>1, Invariance, PTL

\* alloc never hands out a byte that is in use or free, and gives every caller the
\* alignment and the size of its layout.
THEOREM AllocationSafety == Spec => []BlocksAreSound
<1>1. Inv => BlocksAreSound
  BY InvImplies, Zenon
<1>. QED  BY <1>1, Invariance, PTL

\* The assertions of add_free_memory_region never fail, for no layout and no order of
\* calls: alloc and dealloc agree on the size of a block.
THEOREM AssertionSafety == Spec => []NodesAlwaysFit
<1>1. Inv => NodesAlwaysFit
  BY InvImplies, Zenon
<1>. QED  BY <1>1, Invariance, PTL

\* No byte of the heap disappears but as padding in front of an aligned block.
THEOREM Conservation == Spec => []HeapIsConserved
<1>1. Inv => HeapIsConserved
  BY InvImplies, Zenon
<1>. QED  BY <1>1, Invariance, PTL
============================================================================
