------------------------- MODULE PageAllocatorProofs -------------------------
(***************************************************************************)
(* The page allocator is safe for every number of page sizes, every region *)
(* and all callers: no frame is in two tokens, tokens are where the code   *)
(* that uses them assumes, no data survives in a page that changes hands,  *)
(* and no frame is lost.                                                   *)
(*                                                                         *)
(* The inductive invariant Inv says of the tokens that the free ones are   *)
(* aligned, in the region and pairwise apart (two tokens of different size *)
(* cannot partly overlap, because sizes divide each other), that the same  *)
(* holds of the groups handed out, and, while the boot hart still adds the *)
(* region, that all tokens lie below its cursor.  Of the contents it says  *)
(* that a free page holds no owner's data and an allocated one no other's. *)
(***************************************************************************)
EXTENDS PageAllocator, SequenceTheorems, WellFoundedInduction, TLAPS

\* A non-empty set of natural numbers has a least element.
LEMMA LeastNumber ==
  ASSUME NEW T, T \subseteq Nat, T # {}
  PROVE  \E x \in T : \A y \in T : x <= y
<1>1. PICK x \in T : \A y \in T : ~(<<y, x>> \in OpToRel(<, Nat))
  BY NatLessThanWellFounded, WFMin, Zenon
<1>2. ASSUME NEW y \in T
      PROVE  x <= y
  <2>1. ~(<<y, x>> \in OpToRel(<, Nat))
    BY <1>1, Zenon
  <2>. QED  BY <2>1 DEF OpToRel
<1>. QED  BY <1>2, Zenon

\* What First promises: the smallest member of the set it is given.
LEMMA FirstIsLeast ==
  ASSUME NEW S, S \subseteq Nat, S # {}
  PROVE  /\ First(S) \in S
         /\ \A j \in S : First(S) <= j
BY LeastNumber, Zenon DEF First

\* Divisibility, in terms of multiples.
LEMMA Multiple ==
  ASSUME NEW a \in Nat, NEW n \in Nat \ {0}
  PROVE  /\ a % n = 0 => \E k \in Nat : a = k * n
         /\ \A k \in Nat : (k * n) % n = 0 /\ (k * n) \div n = k
OBVIOUS

\* Counting one more page.
LEMMA OneMore ==
  ASSUME NEW k \in Int, NEW n \in Int
  PROVE  /\ k * n \in Int
         /\ n * k = k * n
         /\ (k + 1) * n = k * n + n
         /\ n * (k + 1) = n * k + n
OBVIOUS

\* Divisibility is transitive.
LEMMA DividesTransitive ==
  ASSUME NEW a \in Nat, NEW m \in Nat \ {0}, NEW n \in Nat \ {0},
         a % m = 0, m % n = 0
  PROVE  a % n = 0
<1>1. PICK j \in Nat : a = j * m
  BY Multiple, Zenon
<1>2. PICK k \in Nat : m = k * n
  BY Multiple, Zenon
<1>3. a = (j * k) * n /\ j * k \in Nat
  BY <1>1, <1>2
<1>. QED  BY <1>3, Multiple, Zenon

\* Sums and differences of multiples are multiples.
LEMMA DividesSum ==
  ASSUME NEW a \in Nat, NEW b \in Nat, NEW n \in Nat \ {0},
         a % n = 0, b % n = 0
  PROVE  /\ (a + b) % n = 0
         /\ a >= b => (a - b) % n = 0
<1>1. PICK j \in Nat : a = j * n
  BY Multiple, Zenon
<1>2. PICK k \in Nat : b = k * n
  BY Multiple, Zenon
<1>3. a + b = (j + k) * n /\ j + k \in Nat
  BY <1>1, <1>2
<1>4. ASSUME a >= b
      PROVE  (a - b) % n = 0
  <2>1. j >= k
    BY <1>1, <1>2, <1>4
  <2>2. a - b = (j - k) * n /\ j - k \in Nat
    BY <1>1, <1>2, <2>1
  <2>. QED  BY <2>2, Multiple
<1>5. ((j + k) * n) % n = 0
  BY <1>3, Multiple, Zenon
<1>. QED  BY <1>3, <1>4, <1>5, Zenon

\* Sizes grow, and a page of any size is an exact number of pages of each
\* smaller size.
LEMMA SizesNest ==
  ASSUME NEW v \in PageSizes, NEW u \in 0 .. v
  PROVE  /\ InBytes[u] \in Nat \ {0} /\ InBytes[v] \in Nat \ {0}
         /\ InBytes[u] <= InBytes[v]
         /\ InBytes[v] % InBytes[u] = 0
<1>. DEFINE Bad == {w \in PageSizes : \E x \in 0 .. w :
                      ~(InBytes[x] <= InBytes[w] /\ InBytes[w] % InBytes[x] = 0)}
<1>1. \A x \in PageSizes : InBytes[x] \in Nat \ {0}
  BY PageSizesAssumption, Zenon
<1>2. Bad = {}
  <2>. SUFFICES ASSUME Bad # {} PROVE FALSE
    BY Zenon
  <2>1. Bad \subseteq Nat
    BY PageSizesAssumption DEF PageSizes
  <2>2. PICK w \in Bad : \A y \in Bad : w <= y
    BY <2>1, LeastNumber, Zenon
  <2>3. PICK x \in 0 .. w : ~(InBytes[x] <= InBytes[w] /\ InBytes[w] % InBytes[x] = 0)
    BY <2>2, Zenon
  <2>4. w \in Nat /\ w <= Top /\ Top \in Nat /\ x \in Nat /\ x \in PageSizes /\ w \in PageSizes
    BY PageSizesAssumption DEF PageSizes
  <2>5. x # w
    <3>1. InBytes[w] % InBytes[w] = 0
      BY <1>1, <2>4
    <3>. QED  BY <3>1, <2>3, <1>1, <2>4
  <2>6. w \in 1 .. Top /\ x \in 0 .. (w - 1) /\ w - 1 \in PageSizes
    BY <2>4, <2>5 DEF PageSizes
  <2>7. w - 1 \notin Bad
    BY <2>2, <2>4
  <2>8. InBytes[x] <= InBytes[w - 1] /\ InBytes[w - 1] % InBytes[x] = 0
    BY <2>6, <2>7, Zenon
  <2>9. InBytes[w] % InBytes[w - 1] = 0 /\ InBytes[w - 1] < InBytes[w]
    BY <2>6, PageSizesAssumption, Zenon
  <2>10. InBytes[w] % InBytes[x] = 0
    BY <1>1, <2>4, <2>6, <2>8, <2>9, DividesTransitive, Zenon
  <2>11. InBytes[x] <= InBytes[w]
    BY <1>1, <2>4, <2>6, <2>8, <2>9
  <2>. QED  BY <2>3, <2>10, <2>11, Zenon
<1>3. u \in PageSizes
  BY PageSizesAssumption DEF PageSizes
<1>. QED  BY <1>1, <1>2, <1>3, Zenon

\* The number of pages of the next smaller size that a page consists of.
Parts(u) == InBytes[u + 1] \div InBytes[u]

\* Page::divide cuts a page without remainder.
LEMMA PartsFill ==
  ASSUME NEW u \in PageSizes, u + 1 \in PageSizes
  PROVE  /\ Parts(u) \in Nat \ {0}
         /\ InBytes[u] \in Nat \ {0} /\ InBytes[u + 1] \in Nat \ {0}
         /\ Parts(u) * InBytes[u] = InBytes[u + 1]
<1>1. u \in Nat /\ u + 1 \in Nat /\ u \in 0 .. (u + 1)
  BY PageSizesAssumption DEF PageSizes
<1>2. InBytes[u] \in Nat \ {0} /\ InBytes[u + 1] \in Nat \ {0} /\ InBytes[u + 1] % InBytes[u] = 0
  BY <1>1, SizesNest, Zenon
<1>3. PICK k \in Nat : InBytes[u + 1] = k * InBytes[u]
  BY <1>2, Multiple, Zenon
<1>4. Parts(u) = k
  BY <1>2, <1>3, Multiple, Zenon DEF Parts
<1>5. k # 0
  BY <1>2, <1>3
<1>. QED  BY <1>2, <1>3, <1>4, <1>5, Zenon

------------------------------------------------------------------------------
(* Choosing the size of the next page: add_memory_region's inner loops *)

\* The loop that grows the page size ends with a size the address is aligned to.
LEMMA GrownSize ==
  ASSUME NEW a \in Nat, NEW s \in PageSizes, is_address_page_aligned(a, s)
  PROVE  /\ LargestAlignedSize(a, s) \in PageSizes
         /\ is_address_page_aligned(a, LargestAlignedSize(a, s))
<1>. DEFINE P(t) == /\ \A u \in (s + 1) .. t : is_address_page_aligned(a, u)
                    /\ t < Top => ~is_address_page_aligned(a, t + 1)
            Bad == {u \in (s + 1) .. Top : ~is_address_page_aligned(a, u)}
<1>0. Top \in Nat /\ s \in Nat /\ s <= Top
  BY PageSizesAssumption DEF PageSizes
<1>1. \E t \in s .. Top : P(t)
  <2>1. CASE Bad = {}
    <3>1. Top \in s .. Top /\ P(Top)
      BY <1>0, <2>1
    <3>. QED  BY <3>1, Zenon
  <2>2. CASE Bad # {}
    <3>1. Bad \subseteq Nat
      BY <1>0
    <3>2. PICK x \in Bad : \A y \in Bad : x <= y
      BY <2>2, <3>1, LeastNumber, Zenon
    <3>3. x - 1 \in s .. Top /\ x \in Int
      BY <1>0
    <3>4. P(x - 1)
      BY <1>0, <3>2, <3>3
    <3>. QED  BY <3>3, <3>4, Zenon
  <2>. QED  BY <2>1, <2>2, Zenon
<1>2. LET t == LargestAlignedSize(a, s) IN t \in s .. Top /\ P(t)
  BY <1>1, Zenon DEF LargestAlignedSize
<1>. QED  BY <1>0, <1>2 DEF PageSizes

\* The loop that shrinks the page size ends with a size that is not larger.
LEMMA ShrunkSizeExists ==
  ASSUME NEW a \in Nat, NEW s \in PageSizes
  PROVE  ShrunkSize(a, s) \in 0 .. s
<1>. DEFINE T == {t \in 0 .. s : \A u \in t .. (s - 1) : ~can_create_page(a, u)}
<1>0. s \in Nat
  BY PageSizesAssumption DEF PageSizes
<1>1. T \subseteq Nat /\ s \in T
  BY <1>0
<1>2. PICK t \in T : \A y \in T : t <= y
  BY <1>1, LeastNumber, Zenon
<1>3. t > 0 => can_create_page(a, t - 1)
  <2>. SUFFICES ASSUME t > 0, ~can_create_page(a, t - 1) PROVE FALSE
    BY Zenon
  <2>1. t - 1 \in T
    BY <1>0, <1>2
  <2>. QED  BY <2>1, <1>0, <1>2
<1>. QED  BY <1>2, <1>3, Zenon DEF ShrunkSize

\* A page of the size add_memory_region chooses is aligned at the cursor.
LEMMA ChosenSize ==
  ASSUME NEW a \in Nat, NEW s \in PageSizes, is_address_page_aligned(a, s)
  PROVE  /\ SizeAt(a, s) \in PageSizes
         /\ is_address_page_aligned(a, SizeAt(a, s))
<1>1. PICK l \in PageSizes : l = LargestAlignedSize(a, s) /\ is_address_page_aligned(a, l)
  BY GrownSize, Zenon
<1>2. SizeAt(a, s) \in 0 .. l
  BY <1>1, ShrunkSizeExists, Zenon DEF SizeAt
<1>3. PICK t \in 0 .. l : t = SizeAt(a, s)
  BY <1>2, Zenon
<1>4. /\ InBytes[t] \in Nat \ {0} /\ InBytes[l] \in Nat \ {0}
      /\ InBytes[l] % InBytes[t] = 0
  BY SizesNest, Zenon
<1>5. a % InBytes[t] = 0
  BY <1>1, <1>4, DividesTransitive, Zenon DEF is_address_page_aligned
<1>6. t \in PageSizes
  BY PageSizesAssumption DEF PageSizes
<1>. QED  BY <1>3, <1>5, <1>6, Zenon DEF is_address_page_aligned

------------------------------------------------------------------------------
(* The map of free tokens: where the tokens are and which frames they cover *)

MapType == [PageSizes -> Seq(Addresses)]

Placed(m) == \A s \in PageSizes : \A i \in DOMAIN m[s] : WellPlaced(m[s][i], s)

\* Two pages that share no frame.
Apart(a, s, b, t) == a + InBytes[s] <= b \/ b + InBytes[t] <= a

Separate(m) ==
  \A s, t \in PageSizes : \A i \in DOMAIN m[s], j \in DOMAIN m[t] :
    (s = t /\ i = j) \/ Apart(m[s][i], s, m[t][j], t)

Covers(m, f) == \E s \in PageSizes : \E i \in DOMAIN m[s] : f \in Frames(m[s][i], s)

\* How many tokens divide_pages adds to the vector of size u when it starts from
\* a page of size t.
Gain(s, t, u) == IF u = s THEN Parts(u)
                 ELSE IF u \in (s + 1) .. (t - 1) THEN Parts(u) - 1
                 ELSE IF u = t THEN -1 ELSE 0

\* The page of size u that is divided on the way down from the page of size t at p.
DividedAt(p, t, u) == p + InBytes[t] - InBytes[u]

\* The k-th part of size u.
PartAt(p, t, u, k) == DividedAt(p, t, u + 1) + (k - 1) * InBytes[u]

\* divide_pages, token by token: every vector keeps its tokens, except that size
\* t loses its last one, and the parts follow.
LEMMA DividedMap ==
  ASSUME NEW m \in MapType, NEW s \in PageSizes, Divisible(m, s) # {},
         NEW t, t = First(Divisible(m, s)), NEW p, p = m[t][Len(m[t])],
         NEW m2, m2 = divide_pages(m, s)
  PROVE  /\ t \in (s + 1) .. Top /\ t \in PageSizes
         /\ Len(m[t]) \in Nat \ {0} /\ p \in Addresses
         /\ m2 \in [PageSizes -> Seq(Int)]
         /\ \A u \in PageSizes : Gain(s, t, u) \in Int /\ Len(m2[u]) = Len(m[u]) + Gain(s, t, u)
         /\ \A u \in PageSizes : \A i \in 1 .. Len(m2[u]) :
              i <= Len(m[u]) => m2[u][i] = m[u][i]
         /\ \A u \in PageSizes : \A i \in 1 .. Len(m2[u]) :
              ~(i <= Len(m[u])) => m2[u][i] = PartAt(p, t, u, i - Len(m[u]))
<1>. DEFINE Added(u) == m[u] \o divide(p + InBytes[t] - InBytes[u + 1], u)
            New(u) == IF u = s THEN Added(u)
                      ELSE IF u \in (s + 1) .. (t - 1) THEN SubSeq(Added(u), 1, Len(Added(u)) - 1)
                      ELSE IF u = t THEN SubSeq(m[t], 1, Len(m[t]) - 1)
                      ELSE m[u]
<1>0. /\ Top \in Nat /\ s \in Nat /\ s <= Top /\ MaxAddress \in Nat
      /\ \A u \in PageSizes : u \in Nat /\ InBytes[u] \in Nat \ {0}
      /\ \A u \in Nat : u <= Top => u \in PageSizes
  BY PageSizesAssumption, MemoryAssumption DEF PageSizes
<1>1. /\ t \in (s + 1) .. Top /\ m[t] # <<>> 
  <2>1. Divisible(m, s) \subseteq Nat
    BY <1>0 DEF Divisible
  <2>2. t \in Divisible(m, s)
    BY <2>1, FirstIsLeast, Zenon
  <2>. QED  BY <2>2, Zenon DEF Divisible
<1>2. t \in PageSizes /\ t \in Nat /\ s < t
  BY <1>0, <1>1
<1>3. \A u \in PageSizes : m[u] \in Seq(Addresses) /\ Len(m[u]) \in Nat
  BY DEF MapType
<1>4. Len(m[t]) \in Nat \ {0} /\ p \in Addresses
  <2>1. Len(m[t]) \in Nat \ {0}
    BY <1>1, <1>2, <1>3
  <2>. QED  BY <2>1, <1>2, <1>3
<1>5. p \in Int /\ Addresses \subseteq Int
  BY <1>0, <1>4 DEF Addresses
<1>6. m2 = [u \in PageSizes |-> New(u)]
  BY Zenon DEF divide_pages
<1>7. ASSUME NEW u \in PageSizes, u < t, s <= u
      PROVE  /\ Added(u) \in Seq(Int)
             /\ Parts(u) \in Nat \ {0}
             /\ Len(Added(u)) = Len(m[u]) + Parts(u)
             /\ \A i \in 1 .. Len(Added(u)) :
                  Added(u)[i] = IF i <= Len(m[u]) THEN m[u][i]
                                ELSE DividedAt(p, t, u + 1) + (i - Len(m[u]) - 1) * InBytes[u]
  <2>. DEFINE d == divide(p + InBytes[t] - InBytes[u + 1], u)
  <2>0. u \in Nat /\ u + 1 \in Nat /\ u + 1 <= Top /\ Top \in Nat
    BY <1>0, <1>1, <1>2, <1>7
  <2>1. u + 1 \in PageSizes
    BY <2>0 DEF PageSizes
  <2>2. Parts(u) \in Nat \ {0}
    BY <2>1, PartsFill, Zenon
  <2>3. d = [i \in 1 .. Parts(u) |-> DividedAt(p, t, u + 1) + (i - 1) * InBytes[u]]
    BY Zenon DEF divide, Parts, DividedAt
  <2>4. \A i \in 1 .. Parts(u) : DividedAt(p, t, u + 1) + (i - 1) * InBytes[u] \in Int
    <3>1. InBytes[u] \in Int /\ InBytes[u + 1] \in Int /\ InBytes[t] \in Int
      BY <1>0, <1>2, <2>1
    <3>2. \A i \in 1 .. Parts(u) : (i - 1) * InBytes[u] \in Int
      BY <3>1, <2>2
    <3>3. DividedAt(p, t, u + 1) \in Int
      BY <3>1, <1>5 DEF DividedAt
    <3>. QED  BY <3>2, <3>3
  <2>5. d \in Seq(Int) /\ Len(d) = Parts(u)
    BY <2>2, <2>3, <2>4
  <2>6. m[u] \in Seq(Int)
    BY <1>3, <1>5, SeqMonotonic, Zenon
  <2>. HIDE DEF d
  <2>7. Added(u) = m[u] \o d
    BY Zenon DEF d
  <2>8. /\ m[u] \o d \in Seq(Int) /\ Len(m[u] \o d) = Len(m[u]) + Len(d)
        /\ \A i \in 1 .. (Len(m[u]) + Len(d)) :
             (m[u] \o d)[i] = IF i <= Len(m[u]) THEN m[u][i] ELSE d[i - Len(m[u])]
    BY <2>5, <2>6, ConcatProperties, Zenon
  <2>. HIDE DEF Added
  <2>9. ASSUME NEW i \in 1 .. Len(Added(u)), ~(i <= Len(m[u]))
        PROVE  d[i - Len(m[u])] = DividedAt(p, t, u + 1) + (i - Len(m[u]) - 1) * InBytes[u]
    <3>1. i - Len(m[u]) \in 1 .. Parts(u)
      BY <2>2, <2>5, <2>7, <2>8, <2>9, <1>3
    <3>. QED  BY <3>1, <2>3, Zenon
  <2>. QED  BY <2>2, <2>5, <2>7, <2>8, <2>9, Zenon
<1>8. ASSUME NEW u \in PageSizes
      PROVE  /\ New(u) \in Seq(Int)
             /\ Gain(s, t, u) \in Int
             /\ Len(New(u)) = Len(m[u]) + Gain(s, t, u)
             /\ \A i \in 1 .. Len(New(u)) :
                   New(u)[i] =
                     IF i <= Len(m[u]) THEN m[u][i]
                     ELSE DividedAt(p, t, u + 1) + (i - Len(m[u]) - 1) * InBytes[u]
  <2>0. m[u] \in Seq(Int)
    BY <1>3, <1>5, SeqMonotonic, Zenon
  <2>1. CASE u = s
    <3>1. u < t /\ s <= u
      BY <2>1, <1>0, <1>2
    <3>2. New(u) = Added(u) /\ Gain(s, t, u) = Parts(u)
      BY <2>1, Zenon DEF Gain
    <3>3. /\ Added(u) \in Seq(Int)
          /\ Parts(u) \in Nat \ {0}
          /\ Len(Added(u)) = Len(m[u]) + Parts(u)
          /\ \A i \in 1 .. Len(Added(u)) :
               Added(u)[i] = IF i <= Len(m[u]) THEN m[u][i]
                             ELSE DividedAt(p, t, u + 1) + (i - Len(m[u]) - 1) * InBytes[u]
      BY <1>7, <3>1, Zenon
    <3>. HIDE DEF Added, New
    <3>. QED  BY <3>2, <3>3
  <2>2. CASE u \in (s + 1) .. (t - 1)
    <3>1. u < t /\ s <= u /\ u # s
      BY <2>2, <1>0, <1>2
    <3>2. New(u) = SubSeq(Added(u), 1, Len(Added(u)) - 1)
      BY <2>2, <3>1, Zenon
    <3>3. Gain(s, t, u) = Parts(u) - 1
      BY <2>2, <3>1, Zenon DEF Gain
    <3>4. /\ Added(u) \in Seq(Int)
          /\ Parts(u) \in Nat \ {0}
          /\ Len(Added(u)) = Len(m[u]) + Parts(u)
          /\ \A i \in 1 .. Len(Added(u)) :
               Added(u)[i] = IF i <= Len(m[u]) THEN m[u][i]
                             ELSE DividedAt(p, t, u + 1) + (i - Len(m[u]) - 1) * InBytes[u]
      BY <1>7, <3>1, Zenon
    <3>. HIDE DEF Added, New
    <3>5. /\ New(u) \in Seq(Int) /\ Len(New(u)) = Len(Added(u)) - 1
          /\ \A i \in 1 .. Len(New(u)) : New(u)[i] = Added(u)[i]
      <4>. DEFINE l == Len(Added(u)) - 1
      <4>1. l \in Nat
        BY <3>4, <1>3
      <4>2. \A i \in 1 .. l : Added(u)[i] \in Int
        BY <3>4, <4>1, ElementOfSeq
      <4>. HIDE DEF l
      <4>3. /\ SubSeq(Added(u), 1, l) \in Seq(Int)
            /\ Len(SubSeq(Added(u), 1, l)) = IF 1 <= l THEN l - 1 + 1 ELSE 0
            /\ \A i \in 1 .. (l - 1 + 1) : SubSeq(Added(u), 1, l)[i] = Added(u)[1 + i - 1]
        BY <4>1, <4>2, SubSeqProperties
      <4>4. New(u) = SubSeq(Added(u), 1, l)
        BY <3>2, Zenon DEF l
      <4>5. Len(New(u)) = l
        BY <4>1, <4>3, <4>4
      <4>6. \A i \in 1 .. l : New(u)[i] = Added(u)[i]
        BY <4>1, <4>3, <4>4
      <4>. QED  BY <4>3, <4>4, <4>5, <4>6, Zenon DEF l
    <3>. QED  BY <3>3, <3>4, <3>5, <1>3, SMTT(60)
  <2>3. CASE u = t
    <3>0. u # s /\ u \notin (s + 1) .. (t - 1)
      BY <2>3, <1>0, <1>2
    <3>1. New(u) = SubSeq(m[u], 1, Len(m[u]) - 1) /\ Gain(s, t, u) = -1
      BY <2>3, <3>0, Zenon DEF Gain
    <3>. HIDE DEF New
    <3>2. Len(m[u]) \in Nat \ {0}
      BY <1>4, <2>3, Zenon
    <3>. QED  BY <3>1, <2>0, <3>2
  <2>4. CASE u # s /\ u # t /\ u \notin (s + 1) .. (t - 1)
    <3>1. New(u) = m[u] /\ Gain(s, t, u) = 0
      BY <2>4, Zenon DEF Gain
    <3>. HIDE DEF New
    <3>. QED  BY <3>1, <2>0
  <2>. QED  BY <2>1, <2>2, <2>3, <2>4, Zenon
<1>. HIDE DEF New
<1>9. /\ m2 \in [PageSizes -> Seq(Int)]
      /\ \A u \in PageSizes : m2[u] = New(u)
  BY <1>6, <1>8, Zenon
<1>10. ASSUME NEW u \in PageSizes, NEW i \in 1 .. Len(m2[u])
       PROVE  /\ i <= Len(m[u]) => m2[u][i] = m[u][i]
              /\ ~(i <= Len(m[u])) => m2[u][i] = PartAt(p, t, u, i - Len(m[u]))
  BY <1>8, <1>9, Zenon DEF PartAt
<1>11. \A u \in PageSizes : Gain(s, t, u) \in Int /\ Len(m2[u]) = Len(m[u]) + Gain(s, t, u)
  BY <1>8, <1>9, Zenon
<1>. QED  BY <1>1, <1>2, <1>4, <1>9, <1>10, <1>11, Zenon

\* A part lies in the page it is cut from: above the page of size u + 1 it is a
\* part of, and below the page of size u that is divided next.
LEMMA PartIsInside ==
  ASSUME NEW t \in PageSizes, NEW s \in 0 .. (t - 1), NEW u \in s .. (t - 1),
         NEW p \in Nat, p % InBytes[t] = 0, NEW k \in 1 .. Gain(s, t, u),
         NEW x, x = PartAt(p, t, u, k)
  PROVE  /\ x \in Nat /\ x % InBytes[u] = 0
         /\ p <= DividedAt(p, t, u + 1) /\ DividedAt(p, t, u + 1) <= x
         /\ x + InBytes[u] <= p + InBytes[t]
         /\ u # s => x + InBytes[u] <= DividedAt(p, t, u)
<1>0. /\ t \in Nat /\ s \in Nat /\ u \in Nat /\ u + 1 \in 0 .. t /\ u \in 0 .. t
      /\ u \in PageSizes /\ u + 1 \in PageSizes /\ Top \in Nat
  BY PageSizesAssumption, SMTT(60) DEF PageSizes
<1>1. /\ InBytes[u] \in Nat \ {0} /\ InBytes[u + 1] \in Nat \ {0} /\ InBytes[t] \in Nat \ {0}
      /\ InBytes[u + 1] <= InBytes[t] /\ InBytes[t] % InBytes[u + 1] = 0
      /\ InBytes[t] % InBytes[u] = 0
  BY <1>0, SizesNest, Zenon
<1>2. /\ Parts(u) \in Nat \ {0}
      /\ Parts(u) * InBytes[u] = InBytes[u + 1]
  BY <1>0, PartsFill, Zenon
<1>3. Gain(s, t, u) = IF u = s THEN Parts(u) ELSE Parts(u) - 1
  BY <1>0 DEF Gain
<1>4. k \in Nat /\ k - 1 \in Nat /\ k <= Parts(u) /\ (u # s => k + 1 <= Parts(u))
  BY <1>2, <1>3
<1>5. (k - 1) * InBytes[u] \in Nat
  BY <1>1, <1>4
<1>6. (k - 1) * InBytes[u] + InBytes[u] <= InBytes[u + 1]
  <2>1. (k - 1) * InBytes[u] + InBytes[u] = k * InBytes[u]
    BY <1>1, <1>4
  <2>2. k * InBytes[u] <= Parts(u) * InBytes[u]
    BY <1>1, <1>2, <1>4
  <2>. QED  BY <2>1, <2>2, <1>2, <1>1, <1>4, Zenon
<1>7. ASSUME u # s
      PROVE  (k - 1) * InBytes[u] + InBytes[u] + InBytes[u] <= InBytes[u + 1]
  <2>1. (k - 1) * InBytes[u] + InBytes[u] + InBytes[u] = (k + 1) * InBytes[u]
    <3>1. (k - 1) * InBytes[u] + InBytes[u] = k * InBytes[u]
      BY <1>1, <1>4
    <3>2. k \in Int /\ InBytes[u] \in Int
      BY <1>1, <1>4
    <3>3. k * InBytes[u] + InBytes[u] = (k + 1) * InBytes[u]
      BY <3>2, OneMore, Zenon
    <3>. QED  BY <3>1, <3>3, Zenon
  <2>2. (k + 1) * InBytes[u] <= Parts(u) * InBytes[u]
    BY <1>1, <1>2, <1>4, <1>7
  <2>. QED  BY <2>1, <2>2, <1>2, <1>1, <1>4, Zenon
<1>8. x % InBytes[u] = 0
  <2>1. p % InBytes[u] = 0
    BY <1>1, DividesTransitive, Zenon
  <2>2. (p + InBytes[t]) % InBytes[u] = 0
    BY <1>1, <2>1, DividesSum, Zenon
  <2>3. InBytes[u + 1] % InBytes[u] = 0
    BY <1>0, SizesNest
  <2>4. p + InBytes[t] \in Nat /\ p + InBytes[t] >= InBytes[u + 1]
    BY <1>1
  <2>5. (p + InBytes[t] - InBytes[u + 1]) % InBytes[u] = 0
    <3>. DEFINE q == p + InBytes[t]
    <3>1. q \in Nat /\ q >= InBytes[u + 1] /\ q % InBytes[u] = 0
      BY <2>2, <2>4, Zenon
    <3>. HIDE DEF q
    <3>2. (q - InBytes[u + 1]) % InBytes[u] = 0
      BY <1>1, <2>3, <3>1, DividesSum, Zenon
    <3>3. q - InBytes[u + 1] = p + InBytes[t] - InBytes[u + 1]
      BY <1>1 DEF q
    <3>. QED  BY <3>2, <3>3, Zenon
  <2>6. ((k - 1) * InBytes[u]) % InBytes[u] = 0
    BY <1>1, <1>4, Multiple, Zenon
  <2>7. p + InBytes[t] - InBytes[u + 1] \in Nat
    BY <1>1, <2>4
  <2>8. (p + InBytes[t] - InBytes[u + 1] + (k - 1) * InBytes[u]) % InBytes[u] = 0
    BY <1>1, <1>5, <2>5, <2>6, <2>7, DividesSum, Zenon
  <2>. QED  BY <2>8, Zenon DEF DividedAt, PartAt
<1>. QED  BY <1>1, <1>5, <1>6, <1>7, <1>8 DEF DividedAt, PartAt

\* Two parts of one divided page share no frame.
LEMMA PartsAreApart ==
  ASSUME NEW t \in PageSizes, NEW s \in 0 .. (t - 1),
         NEW u \in s .. (t - 1), NEW v \in s .. (t - 1), u <= v,
         NEW p \in Nat, p % InBytes[t] = 0,
         NEW k \in 1 .. Gain(s, t, u), NEW l \in 1 .. Gain(s, t, v), ~(u = v /\ k = l),
         NEW x, x = PartAt(p, t, u, k),
         NEW y, y = PartAt(p, t, v, l)
  PROVE  Apart(x, u, y, v)
<1>0. /\ t \in Nat /\ s \in Nat /\ u \in Nat /\ v \in Nat /\ v \in PageSizes
      /\ Top \in Nat
  BY PageSizesAssumption DEF PageSizes
<1>1. /\ x \in Nat /\ DividedAt(p, t, u + 1) <= x
  BY PartIsInside, Zenon
<1>2. /\ y \in Nat /\ y + InBytes[v] <= p + InBytes[t]
      /\ v # s => y + InBytes[v] <= DividedAt(p, t, v)
  BY PartIsInside, Zenon
<1>3. CASE u = v
  <2>1. u \in 0 .. t
    BY <1>0
  <2>2. InBytes[u] \in Nat \ {0}
    BY <2>1, SizesNest, Zenon
  <2>3. k \in Nat /\ l \in Nat /\ k # l
    <3>1. Gain(s, t, u) = IF u = s THEN Parts(u) ELSE Parts(u) - 1
      BY <1>0 DEF Gain
    <3>2. u \in PageSizes /\ u + 1 \in PageSizes
      <4>1. u + 1 <= t /\ t <= Top
        BY <1>0 DEF PageSizes
      <4>. QED  BY <1>0, <4>1 DEF PageSizes
    <3>3. Parts(u) \in Nat
      BY <3>2, PartsFill, Zenon
    <3>. QED  BY <1>3, <3>1, <3>3
  <2>. DEFINE kk == (k - 1) * InBytes[u]
              ll == (l - 1) * InBytes[u]
  <2>4. kk \in Int /\ ll \in Int
    BY <2>2, <2>3
  <2>5. kk + InBytes[u] <= ll \/ ll + InBytes[u] <= kk
    <3>1. CASE k < l
      <4>1. kk + InBytes[u] = k * InBytes[u]
        BY <2>2, <2>3
      <4>2. k * InBytes[u] <= ll
        BY <2>2, <2>3, <3>1
      <4>. QED  BY <4>1, <4>2, Zenon
    <3>2. CASE l < k
      <4>1. ll + InBytes[u] = l * InBytes[u]
        BY <2>2, <2>3
      <4>2. l * InBytes[u] <= kk
        BY <2>2, <2>3, <3>2
      <4>. QED  BY <4>1, <4>2, Zenon
    <3>. QED  BY <2>3, <3>1, <3>2
  <2>6. DividedAt(p, t, u + 1) \in Int
    <3>1. u + 1 \in 0 .. t
      BY <1>0
    <3>2. InBytes[u + 1] \in Nat /\ InBytes[t] \in Nat
      BY <3>1, SizesNest, Zenon
    <3>. QED  BY <3>2 DEF DividedAt
  <2>7. x = DividedAt(p, t, u + 1) + kk /\ y = DividedAt(p, t, u + 1) + ll
    BY <1>3, Zenon DEF PartAt
  <2>. HIDE DEF kk, ll
  <2>8. x + InBytes[u] <= y \/ y + InBytes[u] <= x
    BY <2>2, <2>4, <2>5, <2>6, <2>7
  <2>. QED  BY <2>8, <1>3, Zenon DEF Apart
<1>4. CASE u < v
  <2>1. v # s /\ u + 1 \in 0 .. v /\ v \in 0 .. t
    BY <1>0, <1>4
  <2>2. /\ InBytes[u + 1] \in Nat /\ InBytes[v] \in Nat /\ InBytes[t] \in Nat
        /\ InBytes[u + 1] <= InBytes[v]
    BY <1>0, <2>1, SizesNest, Zenon
  <2>3. DividedAt(p, t, v) <= DividedAt(p, t, u + 1)
    BY <2>2 DEF DividedAt
  <2>4. DividedAt(p, t, v) \in Int /\ DividedAt(p, t, u + 1) \in Int
    BY <2>2 DEF DividedAt
  <2>. QED  BY <1>1, <1>2, <2>1, <2>2, <2>3, <2>4 DEF Apart
<1>. QED  BY <1>0, <1>3, <1>4

\* Every frame of a divided page is in one of its parts.
LEMMA PartsCover ==
  ASSUME NEW t \in PageSizes, NEW s \in 0 .. (t - 1),
         NEW p \in Nat, NEW f \in p .. (p + InBytes[t] - 1)
  PROVE  \E u \in s .. (t - 1) : \E k \in 1 .. Gain(s, t, u) :
           f \in Frames(PartAt(p, t, u, k), u)
<1>0. /\ t \in Nat /\ s \in Nat /\ Top \in Nat
      /\ \A u \in 0 .. t : InBytes[u] \in Nat \ {0}
  BY PageSizesAssumption DEF PageSizes
<1>. DEFINE Above == {u \in s .. (t - 1) : DividedAt(p, t, u + 1) <= f}
<1>1. t - 1 \in Above
  <2>1. t - 1 + 1 = t
    BY <1>0
  <2>2. DividedAt(p, t, t) = p
    BY <1>0 DEF DividedAt
  <2>3. p <= f
    BY <1>0
  <2>. QED  BY <1>0, <2>1, <2>2, <2>3
<1>2. Above \subseteq Nat
  BY <1>0
<1>3. PICK u \in Above : \A v \in Above : u <= v
  BY <1>1, <1>2, LeastNumber, Zenon
<1>4. /\ u \in Nat /\ u \in 0 .. t /\ u + 1 \in 0 .. t /\ u \in s .. (t - 1)
      /\ u \in PageSizes /\ u + 1 \in PageSizes
  BY <1>0, <1>3 DEF PageSizes
<1>5. /\ Parts(u) \in Nat \ {0} /\ InBytes[u] \in Nat \ {0} /\ InBytes[u + 1] \in Nat \ {0}
      /\ Parts(u) * InBytes[u] = InBytes[u + 1] /\ InBytes[t] \in Nat \ {0}
  BY <1>0, <1>4, PartsFill
<1>6. f \in Int /\ f < p + InBytes[t] /\ DividedAt(p, t, u + 1) \in Int /\ DividedAt(p, t, u + 1) <= f
  BY <1>3, <1>5 DEF DividedAt
<1>7. u # s => f < DividedAt(p, t, u)
  <2>. SUFFICES ASSUME u # s, ~(f < DividedAt(p, t, u)) PROVE FALSE
    BY Zenon
  <2>1. u - 1 + 1 = u /\ u - 1 \in s .. (t - 1) /\ DividedAt(p, t, u) \in Int
    BY <1>0, <1>4, <1>5 DEF DividedAt
  <2>2. u - 1 \in Above
    BY <1>6, <2>1
  <2>. QED  BY <2>2, <1>3, <1>4
<1>. DEFINE d == f - DividedAt(p, t, u + 1)
            q == d \div InBytes[u]
<1>8. d \in Nat /\ d < InBytes[u + 1] /\ (u # s => d < InBytes[u + 1] - InBytes[u])
  BY <1>5, <1>6, <1>7 DEF DividedAt
<1>. HIDE DEF d
<1>9. q \in Nat /\ InBytes[u] * q <= d /\ d < InBytes[u] * (q + 1)
  BY <1>5, <1>8
<1>. HIDE DEF q
<1>10. q + 1 \in 1 .. Gain(s, t, u)
  <2>1. Gain(s, t, u) = IF u = s THEN Parts(u) ELSE Parts(u) - 1
    BY <1>0, <1>4 DEF Gain
  <2>2. q < Parts(u)
    <3>. SUFFICES ASSUME q >= Parts(u) PROVE FALSE
      BY <1>5, <1>9
    <3>1. InBytes[u] * q >= InBytes[u] * Parts(u)
      BY <1>5, <1>9
    <3>2. InBytes[u] * Parts(u) = InBytes[u + 1]
      BY <1>5
    <3>. QED  BY <3>1, <3>2, <1>5, <1>8, <1>9
  <2>3. u # s => q + 1 < Parts(u)
    <3>. SUFFICES ASSUME u # s, q + 1 >= Parts(u) PROVE FALSE
      BY <1>5, <1>9
    <3>1. InBytes[u] * (q + 1) >= InBytes[u] * Parts(u)
      BY <1>5, <1>9
    <3>2. InBytes[u] * Parts(u) = InBytes[u + 1]
      BY <1>5
    <3>3. InBytes[u] * q \in Int /\ InBytes[u] * (q + 1) = InBytes[u] * q + InBytes[u]
      <4>1. q \in Int /\ InBytes[u] \in Int
        BY <1>5, <1>9
      <4>. QED  BY <4>1, OneMore, Zenon
    <3>. QED  BY <3>1, <3>2, <3>3, <1>5, <1>8, <1>9
  <2>. QED  BY <1>5, <1>9, <2>1, <2>2, <2>3
<1>11. f \in Frames(PartAt(p, t, u, q + 1), u)
  <2>1. /\ InBytes[u] * q \in Int
        /\ InBytes[u] * (q + 1) = InBytes[u] * q + InBytes[u]
    <3>1. q \in Int /\ InBytes[u] \in Int
      BY <1>5, <1>9
    <3>2. /\ InBytes[u] * q = q * InBytes[u] /\ q * InBytes[u] \in Int
          /\ InBytes[u] * (q + 1) = InBytes[u] * q + InBytes[u]
      BY <3>1, OneMore, Zenon
    <3>. QED  BY <3>2, Zenon
  <2>0. ((q + 1) - 1) * InBytes[u] = InBytes[u] * q
    <3>1. (q + 1) - 1 = q
      BY <1>9
    <3>. QED  BY <3>1, <1>5, <1>9, OneMore
  <2>2. f = DividedAt(p, t, u + 1) + d
    BY <1>6 DEF d
  <2>. DEFINE r == InBytes[u] * q
              a == DividedAt(p, t, u + 1)
  <2>3. r \in Int /\ a \in Int /\ r <= d /\ d < r + InBytes[u] /\ f = a + d
    BY <2>1, <2>2, <1>6, <1>9, Zenon
  <2>. HIDE DEF r, a
  <2>4. f \in (a + r) .. (a + r + InBytes[u] - 1)
    BY <2>3, <1>5, <1>6, <1>8
  <2>5. PartAt(p, t, u, q + 1) = a + r
    BY <2>0, Zenon DEF PartAt, r, a
  <2>. QED  BY <2>4, <2>5, Zenon DEF Frames
<1>. QED  BY <1>4, <1>10, <1>11, Zenon

\* divide_pages keeps the map sound: the parts are aligned pages inside the
\* region, no two tokens share a frame, and the same frames are covered.
LEMMA DividePages ==
  ASSUME NEW m \in MapType, NEW s \in PageSizes, Placed(m), Separate(m),
         start \in Addresses, end \in Addresses
  PROVE  /\ divide_pages(m, s) \in MapType
         /\ Placed(divide_pages(m, s))
         /\ Separate(divide_pages(m, s))
         /\ \A f : Covers(divide_pages(m, s), f) <=> Covers(m, f)
<1>0. CASE Divisible(m, s) = {}
  BY <1>0, Zenon DEF divide_pages
<1>1. CASE Divisible(m, s) # {}
  <2>0. PICK t : t = First(Divisible(m, s))
    BY Zenon
  <2>1. PICK p : p = m[t][Len(m[t])]
    BY Zenon
  <2>. DEFINE Part(u, k) == PartAt(p, t, u, k)
  <2>a. PICK m2 : m2 = divide_pages(m, s)
    BY Zenon
  <2>2. /\ t \in (s + 1) .. Top /\ t \in PageSizes
        /\ Len(m[t]) \in Nat \ {0} /\ p \in Addresses
        /\ m2 \in [PageSizes -> Seq(Int)]
    BY <1>1, <2>0, <2>1, <2>a, DividedMap, Zenon
  <2>b. \A u \in PageSizes : Gain(s, t, u) \in Int /\ Len(m2[u]) = Len(m[u]) + Gain(s, t, u)
    BY <1>1, <2>0, <2>1, <2>a, DividedMap
  <2>c. \A u \in PageSizes : \A i \in 1 .. Len(m2[u]) : i <= Len(m[u]) => m2[u][i] = m[u][i]
    BY <1>1, <2>0, <2>1, <2>a, DividedMap
  <2>d. \A u \in PageSizes : \A i \in 1 .. Len(m2[u]) :
          ~(i <= Len(m[u])) => m2[u][i] = Part(u, i - Len(m[u]))
    BY <1>1, <2>0, <2>1, <2>a, DividedMap
  <2>. HIDE DEF Part
  <2>3. /\ Top \in Nat /\ MaxAddress \in Nat /\ s \in Nat /\ t \in Nat /\ s \in 0 .. (t - 1)
        /\ p \in Nat /\ start \in Nat /\ end \in Nat /\ end <= MaxAddress
    BY <2>2, PageSizesAssumption, MemoryAssumption DEF PageSizes, Addresses
  <2>e. /\ \A u \in PageSizes : u \in Nat /\ InBytes[u] \in Nat \ {0}
        /\ \A u \in s .. (t - 1) : u \in PageSizes
    BY <2>2, <2>3, PageSizesAssumption, SMTT(60) DEF PageSizes
  <2>4. \A u \in PageSizes : /\ m[u] \in Seq(Addresses) /\ Len(m[u]) \in Nat
                             /\ DOMAIN m[u] = 1 .. Len(m[u])
                             /\ m2[u] \in Seq(Int) /\ Len(m2[u]) \in Nat
                             /\ DOMAIN m2[u] = 1 .. Len(m2[u])
    BY <2>2 DEF MapType
  <2>5. WellPlaced(p, t)
    BY <2>1, <2>2, <2>4 DEF Placed
  <2>6. /\ p % InBytes[t] = 0 /\ start <= p /\ p + InBytes[t] <= end
    BY <2>5, Zenon DEF WellPlaced
  \* a token of the new map is an old one, other than the divided one, or a part
  <2>7. ASSUME NEW u \in PageSizes, NEW i \in DOMAIN m2[u]
        PROVE  \/ /\ i \in DOMAIN m[u] /\ m2[u][i] = m[u][i] /\ ~(u = t /\ i = Len(m[t]))
               \/ /\ u \in s .. (t - 1) /\ i - Len(m[u]) \in 1 .. Gain(s, t, u)
                  /\ m2[u][i] = Part(u, i - Len(m[u]))
    <3>1. /\ i \in 1 .. Len(m2[u]) /\ i \in Nat /\ Len(m2[u]) = Len(m[u]) + Gain(s, t, u)
          /\ Len(m[u]) \in Nat /\ Gain(s, t, u) \in Int
      BY <2>b, <2>4, SMTT(60)
    <3>2. CASE i <= Len(m[u])
      <4>1. i \in DOMAIN m[u] /\ m2[u][i] = m[u][i]
        BY <3>1, <3>2, <2>c, <2>4
      <4>2. u = t => Gain(s, t, u) = -1
        BY <2>3 DEF Gain
      <4>. QED  BY <4>1, <4>2, <3>1, <2>4
    <3>3. CASE ~(i <= Len(m[u]))
      <4>1. Gain(s, t, u) > 0 /\ Gain(s, t, u) \in Int /\ i - Len(m[u]) \in 1 .. Gain(s, t, u)
        BY <3>1, <3>3
      <4>2. u \in s .. (t - 1)
        BY <4>1, <2>3, <2>e DEF Gain
      <4>3. m2[u][i] = Part(u, i - Len(m[u]))
        BY <3>1, <3>3, <2>d, Zenon
      <4>. QED  BY <4>1, <4>2, <4>3, Zenon
    <3>. QED  BY <3>2, <3>3, Zenon
  <2>8. ASSUME NEW u \in s .. (t - 1), NEW k \in 1 .. Gain(s, t, u)
        PROVE  /\ Part(u, k) \in Nat /\ Part(u, k) % InBytes[u] = 0
               /\ p <= Part(u, k) /\ Part(u, k) + InBytes[u] <= p + InBytes[t]
    <3>1. /\ Part(u, k) \in Nat /\ Part(u, k) % InBytes[u] = 0
          /\ p <= DividedAt(p, t, u + 1) /\ DividedAt(p, t, u + 1) <= Part(u, k)
          /\ Part(u, k) + InBytes[u] <= p + InBytes[t]
      BY <2>2, <2>3, <2>6, PartIsInside DEF Part
    <3>2. DividedAt(p, t, u + 1) \in Int
      <4>1. u + 1 \in 0 .. t
        BY <2>3
      <4>2. InBytes[u + 1] \in Nat /\ InBytes[t] \in Nat
        BY <2>2, <4>1, SizesNest, Zenon
      <4>. QED  BY <4>2, <2>3 DEF DividedAt
    <3>. QED  BY <3>1, <3>2, <2>3
  <2>9. Placed(m2)
    <3>. SUFFICES ASSUME NEW u \in PageSizes, NEW i \in DOMAIN m2[u]
                  PROVE  WellPlaced(m2[u][i], u)
      BY Zenon DEF Placed
    <3>1. CASE i \in DOMAIN m[u] /\ m2[u][i] = m[u][i]
      BY <3>1, Zenon DEF Placed
    <3>2. CASE /\ u \in s .. (t - 1) /\ i - Len(m[u]) \in 1 .. Gain(s, t, u)
               /\ m2[u][i] = Part(u, i - Len(m[u]))
      <4>1. /\ m2[u][i] \in Nat /\ m2[u][i] % InBytes[u] = 0
            /\ p <= m2[u][i] /\ m2[u][i] + InBytes[u] <= p + InBytes[t]
        BY <2>8, <3>2, Zenon
      <4>2. InBytes[u] \in Nat /\ InBytes[t] \in Nat
        BY <2>2, <2>e, Zenon
      <4>. QED  BY <4>1, <4>2, <2>3, <2>6 DEF WellPlaced
    <3>. QED  BY <2>7, <3>1, <3>2, Zenon
  <2>10. m2 \in MapType
    <3>1. ASSUME NEW u \in PageSizes
          PROVE  m2[u] \in Seq(Addresses)
      <4>1. ASSUME NEW i \in 1 .. Len(m2[u])
            PROVE  m2[u][i] \in Addresses
        <5>1. m2[u][i] \in Int /\ i \in DOMAIN m2[u]
          BY <2>4
        <5>2. WellPlaced(m2[u][i], u)
          BY <2>9, <5>1, Zenon DEF Placed
        <5>3. InBytes[u] \in Nat
          BY <2>e, Zenon
        <5>. QED  BY <5>1, <5>2, <5>3, <2>3, SMTT(60) DEF WellPlaced, Addresses
      <4>2. m2[u] \in [1 .. Len(m2[u]) -> Addresses]
        BY <4>1, <2>4
      <4>3. Len(m2[u]) \in Nat
        BY <2>4, Zenon
      <4>. QED  BY <4>2, <4>3, SeqDef, Zenon
    <3>. QED  BY <3>1, <2>2, Zenon DEF MapType
  <2>11. Separate(m2)
    <3>. SUFFICES ASSUME NEW u \in PageSizes, NEW v \in PageSizes,
                         NEW i \in DOMAIN m2[u], NEW j \in DOMAIN m2[v], ~(u = v /\ i = j)
                  PROVE  Apart(m2[u][i], u, m2[v][j], v)
      BY Zenon DEF Separate
    <3>. DEFINE Old(x, y) == /\ y \in DOMAIN m[x] /\ m2[x][y] = m[x][y]
                             /\ ~(x = t /\ y = Len(m[t]))
                New(x, y) == /\ x \in s .. (t - 1) /\ y - Len(m[x]) \in 1 .. Gain(s, t, x)
                             /\ m2[x][y] = Part(x, y - Len(m[x]))
    <3>1. /\ Old(u, i) \/ New(u, i)
          /\ Old(v, j) \/ New(v, j)
      BY <2>7, Zenon
    <3>2. \A x \in PageSizes : \A y \in DOMAIN m2[x] : New(x, y) =>
            /\ m2[x][y] \in Nat /\ p <= m2[x][y] /\ m2[x][y] + InBytes[x] <= p + InBytes[t]
      BY <2>8, Zenon
    <3>3. \A x \in PageSizes : \A y \in DOMAIN m2[x] : Old(x, y) =>
            m2[x][y] \in Nat /\ Apart(m2[x][y], x, p, t)
      <4>. SUFFICES ASSUME NEW x \in PageSizes, NEW y \in DOMAIN m2[x], Old(x, y)
                    PROVE  m2[x][y] \in Nat /\ Apart(m2[x][y], x, p, t)
        BY Zenon
      <4>1. Len(m[t]) \in DOMAIN m[t] /\ p = m[t][Len(m[t])]
        <5>1. Len(m[t]) \in Nat \ {0} /\ DOMAIN m[t] = 1 .. Len(m[t])
          BY <2>2, <2>4, Zenon
        <5>. QED  BY <5>1, <2>1
      <4>2. Apart(m[x][y], x, m[t][Len(m[t])], t)
        BY <4>1, <2>2, Zenon DEF Separate
      <4>3. m[x][y] \in Addresses
        BY <2>4
      <4>. QED  BY <4>1, <4>2, <4>3, <2>3 DEF Addresses
    <3>4. CASE Old(u, i) /\ Old(v, j)
      BY <3>4, Zenon DEF Separate
    <3>5. CASE Old(u, i) /\ New(v, j)
      <4>1. /\ m2[v][j] \in Nat /\ p <= m2[v][j] /\ m2[v][j] + InBytes[v] <= p + InBytes[t]
            /\ m2[u][i] \in Nat /\ Apart(m2[u][i], u, p, t)
            /\ InBytes[u] \in Nat /\ InBytes[v] \in Nat /\ InBytes[t] \in Nat
        BY <3>5, <3>2, <3>3, <2>2, <2>e, Zenon
      <4>. QED  BY <4>1, <2>3 DEF Apart
    <3>6. CASE New(u, i) /\ Old(v, j)
      <4>1. /\ m2[u][i] \in Nat /\ p <= m2[u][i] /\ m2[u][i] + InBytes[u] <= p + InBytes[t]
            /\ m2[v][j] \in Nat /\ Apart(m2[v][j], v, p, t)
            /\ InBytes[u] \in Nat /\ InBytes[v] \in Nat /\ InBytes[t] \in Nat
        BY <3>6, <3>2, <3>3, <2>2, <2>e, Zenon
      <4>. QED  BY <4>1, <2>3 DEF Apart
    <3>7. CASE New(u, i) /\ New(v, j)
      <4>. DEFINE k == i - Len(m[u])
                  l == j - Len(m[v])
      <4>1. /\ u \in s .. (t - 1) /\ v \in s .. (t - 1)
            /\ k \in 1 .. Gain(s, t, u) /\ l \in 1 .. Gain(s, t, v)
            /\ m2[u][i] = Part(u, k) /\ m2[v][j] = Part(v, l)
        BY <3>7, Zenon
      <4>2. ~(u = v /\ k = l)
        <5>1. i \in Int /\ j \in Int
          BY <2>4
        <5>. QED  BY <5>1, <2>4
      <4>. HIDE DEF k, l
      <4>3. CASE u <= v
        <5>1. Apart(Part(u, k), u, Part(v, l), v)
          BY <4>1, <4>2, <4>3, <2>2, <2>3, <2>6, PartsAreApart, Zenon DEF Part
        <5>. QED  BY <5>1, <4>1, Zenon
      <4>4. CASE v <= u
        <5>1. Apart(Part(v, l), v, Part(u, k), u)
          BY <4>1, <4>2, <4>4, <2>2, <2>3, <2>6, PartsAreApart, Zenon DEF Part
        <5>. QED  BY <5>1, <4>1, Zenon DEF Apart
      <4>. QED  BY <4>3, <4>4, <2>e
    <3>. QED  BY <3>1, <3>4, <3>5, <3>6, <3>7, Zenon
  <2>12. ASSUME NEW f, Covers(m2, f)
         PROVE  Covers(m, f)
    <3>0. PICK u \in PageSizes : \E i \in DOMAIN m2[u] : f \in Frames(m2[u][i], u)
      BY <2>12, Zenon DEF Covers
    <3>1. PICK i \in DOMAIN m2[u] : f \in Frames(m2[u][i], u)
      BY <3>0, Zenon
    <3>2. CASE i \in DOMAIN m[u] /\ m2[u][i] = m[u][i]
      BY <3>1, <3>2, Zenon DEF Covers
    <3>3. CASE /\ u \in s .. (t - 1) /\ i - Len(m[u]) \in 1 .. Gain(s, t, u)
               /\ m2[u][i] = Part(u, i - Len(m[u]))
      <4>1. m2[u][i] \in Nat /\ p <= m2[u][i] /\ m2[u][i] + InBytes[u] <= p + InBytes[t]
        BY <2>8, <3>3, Zenon
      <4>2. f \in Frames(p, t)
        <5>1. InBytes[u] \in Nat /\ InBytes[t] \in Nat
          BY <2>2, <2>e, Zenon
        <5>. QED  BY <3>1, <4>1, <5>1, <2>3 DEF Frames
      <4>3. Len(m[t]) \in DOMAIN m[t]
        <5>1. Len(m[t]) \in Nat \ {0} /\ DOMAIN m[t] = 1 .. Len(m[t])
          BY <2>2, <2>4, Zenon
        <5>. QED  BY <5>1
      <4>. QED  BY <4>2, <4>3, <2>1, <2>2, Zenon DEF Covers
    <3>. QED  BY <2>7, <3>2, <3>3, Zenon
  <2>13. ASSUME NEW f, Covers(m, f)
         PROVE  Covers(m2, f)
    <3>0. PICK u \in PageSizes : \E i \in DOMAIN m[u] : f \in Frames(m[u][i], u)
      BY <2>13, Zenon DEF Covers
    <3>1. PICK i \in DOMAIN m[u] : f \in Frames(m[u][i], u)
      BY <3>0, Zenon
    <3>2. CASE u = t /\ i = Len(m[t])
      <4>1. f \in p .. (p + InBytes[t] - 1)
        BY <3>1, <3>2, <2>1, Zenon DEF Frames
      <4>a. PICK v \in s .. (t - 1) : \E k \in 1 .. Gain(s, t, v) : f \in Frames(Part(v, k), v)
        BY <4>1, <2>2, <2>3, PartsCover, Zenon DEF Part
      <4>2. PICK k \in 1 .. Gain(s, t, v) : f \in Frames(Part(v, k), v)
        BY <4>a, Zenon
      <4>3. /\ v \in PageSizes /\ Len(m[v]) \in Nat /\ Gain(s, t, v) \in Int
            /\ Len(m2[v]) = Len(m[v]) + Gain(s, t, v)
            /\ DOMAIN m2[v] = 1 .. Len(m2[v])
        BY <2>b, <2>e, <2>4, Zenon
      <4>4. /\ Len(m[v]) + k \in 1 .. Len(m2[v]) /\ ~(Len(m[v]) + k <= Len(m[v]))
            /\ Len(m[v]) + k - Len(m[v]) = k
        BY <4>3, SMTT(60)
      <4>5. m2[v][Len(m[v]) + k] = Part(v, k)
        <5>1. m2[v][Len(m[v]) + k] = Part(v, Len(m[v]) + k - Len(m[v]))
          BY <4>3, <4>4, <2>d, SMTT(30)
        <5>2. (Len(m[v]) + k) - Len(m[v]) = k
          BY <4>3
        <5>. QED  BY <4>3, <4>4, <5>1, <5>2, <2>d, Zenon
      <4>. QED  BY <4>2, <4>3, <4>4, <4>5, Zenon DEF Covers
    <3>3. CASE ~(u = t /\ i = Len(m[t]))
      <4>1. i \in 1 .. Len(m2[u])
        <5>1. u # t => Gain(s, t, u) >= 0
          <6>. SUFFICES ASSUME u \in s .. (t - 1) PROVE Parts(u) \in Nat \ {0}
            BY <2>3, <2>e DEF Gain
          <6>1. u + 1 \in PageSizes
            BY <2>2, <2>3 DEF PageSizes
          <6>. QED  BY <6>1, PartsFill, Zenon
        <5>2. u = t => Gain(s, t, u) = -1
          BY <2>3 DEF Gain
        <5>3. i \in 1 .. Len(m[u]) /\ Len(m2[u]) = Len(m[u]) + Gain(s, t, u) /\ Gain(s, t, u) \in Int
          BY <2>b, <2>4, Zenon
        <5>. QED  BY <5>1, <5>2, <5>3, <3>3, <2>4
      <4>2. m2[u][i] = m[u][i]
        <5>1. i <= Len(m[u])
          BY <2>4
        <5>. QED  BY <4>1, <5>1, <2>c, Zenon
      <4>. QED  BY <3>1, <4>1, <4>2, <2>4, Zenon DEF Covers
    <3>. QED  BY <3>2, <3>3, Zenon
  <2>. QED  BY <2>9, <2>10, <2>11, <2>12, <2>13, <2>a, Zenon
<1>. QED  BY <1>0, <1>1, Zenon

\* Pages share no frame exactly when one ends before the other begins.
LEMMA ApartIsDisjoint ==
  ASSUME NEW s \in PageSizes, NEW t \in PageSizes, NEW a \in Nat, NEW b \in Nat
  PROVE  Apart(a, s, b, t) <=> Frames(a, s) \cap Frames(b, t) = {}
<1>1. InBytes[s] \in Nat \ {0} /\ InBytes[t] \in Nat \ {0}
  BY PageSizesAssumption, Zenon
<1>2. ASSUME Apart(a, s, b, t)
      PROVE  Frames(a, s) \cap Frames(b, t) = {}
  BY <1>1, <1>2 DEF Apart, Frames
<1>3. ASSUME ~Apart(a, s, b, t)
      PROVE  Frames(a, s) \cap Frames(b, t) # {}
  <2>1. CASE a <= b
    <3>1. b \in Frames(a, s) /\ b \in Frames(b, t)
      BY <1>1, <1>3, <2>1 DEF Apart, Frames
    <3>. QED  BY <3>1, Zenon
  <2>2. CASE b <= a
    <3>1. a \in Frames(a, s) /\ a \in Frames(b, t)
      BY <1>1, <1>3, <2>2 DEF Apart, Frames
    <3>. QED  BY <3>1, Zenon
  <2>. QED  BY <2>1, <2>2
<1>. QED  BY <1>2, <1>3, Zenon

\* What the type of the map says of its vectors.
LEMMA MapFacts ==
  ASSUME NEW m \in MapType, NEW u \in PageSizes
  PROVE  /\ u \in Nat /\ InBytes[u] \in Nat \ {0}
         /\ m[u] \in Seq(Addresses) /\ Len(m[u]) \in Nat /\ DOMAIN m[u] = 1 .. Len(m[u])
         /\ \A i \in DOMAIN m[u] : m[u][i] \in Addresses /\ m[u][i] \in Nat
<1>1. u \in Nat /\ InBytes[u] \in Nat \ {0} /\ Addresses \subseteq Nat
  BY PageSizesAssumption, MemoryAssumption DEF PageSizes, Addresses
<1>2. m[u] \in Seq(Addresses)
  BY Zenon DEF MapType
<1>3. Len(m[u]) \in Nat /\ DOMAIN m[u] = 1 .. Len(m[u])
  BY <1>2, LenProperties, Zenon
<1>4. \A i \in DOMAIN m[u] : m[u][i] \in Addresses
  BY <1>2, <1>3, ElementOfSeq, Zenon
<1>. QED  BY <1>1, <1>2, <1>3, <1>4, Zenon

\* The map without n tokens of size s from index i on, and the pages of these.
Taken(m, s, i, n) == [m EXCEPT ![s] = Without(@, i, n)]
TakenPages(m, s, i, n) == SubSeq(m[s], i, i + n - 1)

\* m2 is m without the pages q of size s, and neither has a frame of the other.
Splits(m, s, m2, q) ==
  /\ m2 \in MapType /\ Placed(m2) /\ Separate(m2)
  /\ \A f : Covers(m, f) <=> (Covers(m2, f) \/ \E k \in DOMAIN q : f \in Frames(q[k], s))
  /\ \A f : Covers(m2, f) => \A k \in DOMAIN q : f \notin Frames(q[k], s)

\* Removing n consecutive tokens from a vector: the map stays sound, and the
\* frames it covered are now covered by the map or by the removed pages, never
\* by both.
LEMMA TakePages ==
  ASSUME NEW m \in MapType, Placed(m), Separate(m), NEW s \in PageSizes,
         NEW n \in Nat \ {0}, NEW i \in 1 .. (Len(m[s]) - n),
         NEW m2, m2 = Taken(m, s, i, n), NEW q, q = TakenPages(m, s, i, n)
  PROVE  /\ Splits(m, s, m2, q)
         /\ q \in Seq(Addresses) /\ Len(q) = n
         /\ \A k \in 1 .. n : q[k] = m[s][i + k - 1] /\ i + k - 1 \in DOMAIN m[s]
<1>. DEFINE Src(u, j) == IF u = s /\ j >= i THEN j + n ELSE j
            Left == SubSeq(m[s], 1, i - 1)
            Right == SubSeq(m[s], i + n, Len(m[s]))
<1>0. /\ m[s] \in Seq(Addresses) /\ Len(m[s]) \in Nat /\ DOMAIN m[s] = 1 .. Len(m[s])
      /\ i \in Nat /\ n \in Nat /\ i >= 1 /\ i + n <= Len(m[s])
  BY MapFacts
<1>1. /\ Left \in Seq(Addresses) /\ Len(Left) = i - 1
      /\ \A j \in 1 .. (i - 1) : Left[j] = m[s][j]
  BY <1>0
<1>2. /\ Right \in Seq(Addresses) /\ Len(Right) = Len(m[s]) - (i + n) + 1
      /\ \A j \in 1 .. (Len(m[s]) - (i + n) + 1) : Right[j] = m[s][i + n + j - 1]
  BY <1>0
<1>3. m2 = [m EXCEPT ![s] = Left \o Right]
  BY Zenon DEF Taken, Without
<1>. HIDE DEF Left, Right
<1>4. /\ Left \o Right \in Seq(Addresses) /\ Len(Left \o Right) = Len(m[s]) - n
      /\ \A j \in 1 .. (Len(m[s]) - n) : (Left \o Right)[j] = m[s][Src(s, j)]
  <2>1. /\ Left \o Right \in Seq(Addresses) /\ Len(Left \o Right) = Len(Left) + Len(Right)
        /\ \A j \in 1 .. (Len(Left) + Len(Right)) :
             (Left \o Right)[j] = IF j <= Len(Left) THEN Left[j] ELSE Right[j - Len(Left)]
    BY <1>1, <1>2, ConcatProperties, Zenon
  <2>2. Len(Left \o Right) = Len(m[s]) - n
    <3>1. Len(Left) = i - 1 /\ Len(Right) = Len(m[s]) - (i + n) + 1
      BY <1>1, <1>2, Zenon
    <3>2. Len(Left \o Right) = Len(Left) + Len(Right)
      BY <2>1, Zenon
    <3>3. (i - 1) + (Len(m[s]) - (i + n) + 1) = Len(m[s]) - n
      BY <1>0
    <3>. QED  BY <3>1, <3>2, <3>3, Zenon
  <2>3. ASSUME NEW j \in 1 .. (Len(m[s]) - n)
        PROVE  (Left \o Right)[j] = m[s][Src(s, j)]
    <3>1. CASE j < i
      BY <3>1, <2>1, <1>0, <1>1, <1>2
    <3>2. CASE j >= i
      <4>1. (Left \o Right)[j] = Right[j - (i - 1)]
        BY <3>2, <2>1, <2>2, <1>0, <1>1, SMTT(60)
      <4>2. j - (i - 1) \in 1 .. (Len(m[s]) - (i + n) + 1) /\ i + n + (j - (i - 1)) - 1 = j + n
        BY <3>2, <1>0
      <4>3. Right[j - (i - 1)] = m[s][i + n + (j - (i - 1)) - 1]
        BY <4>2, <1>2, Zenon
      <4>4. Src(s, j) = j + n
        BY <3>2, Zenon
      <4>5. (Left \o Right)[j] = m[s][j + n]
        BY <4>1, <4>2, <4>3, SMTT(30)
      <4>. HIDE DEF Src
      <4>. QED  BY <4>4, <4>5, Zenon
    <3>3. j < i \/ j >= i
      BY <1>0
    <3>. HIDE DEF Src
    <3>. QED  BY <3>1, <3>2, <3>3, Zenon
  <2>. QED  BY <2>1, <2>2, <2>3, Zenon
<1>5. /\ m2 \in MapType
      /\ \A u \in PageSizes : u # s => m2[u] = m[u]
      /\ m2[s] = Left \o Right
  BY <1>3, <1>4, Zenon DEF MapType
<1>6. ASSUME NEW u \in PageSizes, NEW j \in DOMAIN m2[u]
      PROVE  /\ Src(u, j) \in DOMAIN m[u] /\ m2[u][j] = m[u][Src(u, j)]
             /\ u = s => Src(u, j) \notin i .. (i + n - 1)
  <2>1. CASE u = s
    <3>1. j \in 1 .. (Len(m[s]) - n)
      BY <1>4, <1>5, <2>1
    <3>2. m2[u][j] = m[u][Src(u, j)]
      BY <1>4, <1>5, <2>1, <3>1, Zenon
    <3>. QED  BY <1>0, <2>1, <3>1, <3>2
  <2>2. CASE u # s
    BY <1>5, <2>2, Zenon
  <2>. QED  BY <2>1, <2>2, Zenon
<1>7. \A u, v \in PageSizes : \A j \in DOMAIN m2[u], k \in DOMAIN m2[v] :
        (u = v /\ Src(u, j) = Src(v, k)) => j = k
  <2>1. \A u \in PageSizes : \A j \in DOMAIN m2[u] : j \in Int
    BY <1>5, MapFacts
  <2>. QED  BY <2>1, <1>0
<1>8. /\ q \in Seq(Addresses) /\ Len(q) = n
      /\ \A k \in 1 .. n : q[k] = m[s][i + k - 1] /\ i + k - 1 \in DOMAIN m[s]
  <2>1. \A j \in i .. (i + n - 1) : m[s][j] \in Addresses
    BY <1>0, ElementOfSeq
  <2>2. /\ q \in Seq(Addresses) /\ Len(q) = IF i <= i + n - 1 THEN (i + n - 1) - i + 1 ELSE 0
        /\ \A k \in 1 .. ((i + n - 1) - i + 1) : q[k] = m[s][i + k - 1]
    BY <1>0, <2>1, SubSeqProperties DEF TakenPages
  <2>3. (i + n - 1) - i + 1 = n /\ i <= i + n - 1
    BY <1>0
  <2>4. \A k \in 1 .. n : i + k - 1 \in DOMAIN m[s]
    BY <1>0
  <2>. QED  BY <2>2, <2>3, <2>4, Zenon
<1>. HIDE DEF Src
<1>9. Placed(m2) /\ Separate(m2)
  BY <1>6, <1>7 DEF Placed, Separate
<1>10. ASSUME NEW f, Covers(m2, f)
       PROVE  Covers(m, f) /\ \A k \in 1 .. n : f \notin Frames(q[k], s)
  <2>1. PICK u \in PageSizes : \E j \in DOMAIN m2[u] : f \in Frames(m2[u][j], u)
    BY <1>10, Zenon DEF Covers
  <2>2. PICK j \in DOMAIN m2[u] : f \in Frames(m2[u][j], u)
    BY <2>1, Zenon
  <2>3. /\ Src(u, j) \in DOMAIN m[u] /\ m2[u][j] = m[u][Src(u, j)]
        /\ u = s => Src(u, j) \notin i .. (i + n - 1)
    BY <1>6, Zenon
  <2>4. Covers(m, f)
    BY <2>2, <2>3, Zenon DEF Covers
  <2>5. ASSUME NEW k \in 1 .. n
        PROVE  f \notin Frames(q[k], s)
    <3>1. i + k - 1 \in DOMAIN m[s] /\ q[k] = m[s][i + k - 1] /\ i + k - 1 \in i .. (i + n - 1)
      BY <1>8, <1>0
    <3>2. Apart(m[u][Src(u, j)], u, m[s][i + k - 1], s)
      BY <2>3, <3>1, Zenon DEF Separate
    <3>3. m[u][Src(u, j)] \in Nat /\ m[s][i + k - 1] \in Nat
      BY <2>3, <3>1, MapFacts, Zenon
    <3>4. Frames(m[u][Src(u, j)], u) \cap Frames(q[k], s) = {}
      BY <3>1, <3>2, <3>3, ApartIsDisjoint, Zenon
    <3>. QED  BY <2>2, <2>3, <3>4, Zenon
  <2>. QED  BY <2>4, <2>5, Zenon
<1>11. ASSUME NEW f, NEW k \in 1 .. n, f \in Frames(q[k], s)
       PROVE  Covers(m, f)
  BY <1>8, <1>11, Zenon DEF Covers
<1>12. ASSUME NEW f, Covers(m, f)
       PROVE  Covers(m2, f) \/ \E k \in 1 .. n : f \in Frames(q[k], s)
  <2>1. PICK u \in PageSizes : \E j \in DOMAIN m[u] : f \in Frames(m[u][j], u)
    BY <1>12, Zenon DEF Covers
  <2>2. PICK j \in DOMAIN m[u] : f \in Frames(m[u][j], u)
    BY <2>1, Zenon
  <2>3. CASE u # s
    BY <2>2, <2>3, <1>5, Zenon DEF Covers
  <2>4. CASE u = s
    <3>0. j \in 1 .. Len(m[s])
      BY <2>4, <1>0, Zenon
    <3>a. DOMAIN m2[s] = 1 .. (Len(m[s]) - n)
      <4>1. Len(m2[s]) = Len(m[s]) - n
        BY <1>4, <1>5, Zenon
      <4>. QED  BY <4>1, <1>5, MapFacts, Zenon
    <3>1. CASE j < i
      <4>1. j \in 1 .. (Len(m[s]) - n) /\ Src(s, j) = j
        BY <3>0, <3>1, <1>0 DEF Src
      <4>2. j \in DOMAIN m2[s] /\ m2[s][j] = m[s][j]
        BY <4>1, <3>a, <1>4, <1>5, Zenon
      <4>. QED  BY <4>2, <2>2, <2>4, Zenon DEF Covers
    <3>2. CASE j \in i .. (i + n - 1)
      <4>1. j - i + 1 \in 1 .. n /\ i + (j - i + 1) - 1 = j
        BY <3>0, <3>2, <1>0
      <4>2. q[j - i + 1] = m[s][j]
        BY <4>1, <1>8, Zenon
      <4>. QED  BY <4>1, <4>2, <2>2, <2>4, Zenon
    <3>3. CASE j >= i + n
      <4>1. j - n \in 1 .. (Len(m[s]) - n) /\ j - n >= i /\ (j - n) + n = j
        BY <3>0, <3>3, <1>0
      <4>2. Src(s, j - n) = j
        BY <4>1, Zenon DEF Src
      <4>3. j - n \in DOMAIN m2[s] /\ m2[s][j - n] = m[s][j]
        BY <4>1, <4>2, <3>a, <1>4, <1>5, Zenon
      <4>. QED  BY <4>3, <2>2, <2>4, Zenon DEF Covers
    <3>. QED  BY <3>0, <3>1, <3>2, <3>3, <1>0, SMTT(30)
  <2>. QED  BY <2>3, <2>4, Zenon
<1>13. DOMAIN q = 1 .. n
  BY <1>8, LenProperties, Zenon
<1>14. Splits(m, s, m2, q)
  BY <1>5, <1>9, <1>10, <1>11, <1>12, <1>13, Zenon DEF Splits
<1>. QED  BY <1>8, <1>14, Zenon

\* The map with the pages q appended to the vector of size s.
Given(m, s, q) == [m EXCEPT ![s] = @ \o q]

\* Appending pages to a vector: the map stays sound when the pages are well
\* placed, share no frame, and cover frames that the map does not cover.
LEMMA GivePages ==
  ASSUME NEW m \in MapType, Placed(m), Separate(m), NEW s \in PageSizes,
         NEW q \in Seq(Addresses),
         \A k \in DOMAIN q : WellPlaced(q[k], s),
         \A k, l \in DOMAIN q : k # l => Apart(q[k], s, q[l], s),
         \A k \in DOMAIN q : \A f \in Frames(q[k], s) : ~Covers(m, f),
         NEW m2, m2 = Given(m, s, q)
  PROVE  /\ m2 \in MapType /\ Placed(m2) /\ Separate(m2)
         /\ \A f : Covers(m2, f) <=> (Covers(m, f) \/ \E k \in DOMAIN q : f \in Frames(q[k], s))
<1>. DEFINE n == Len(m[s])
<1>0. /\ m[s] \in Seq(Addresses) /\ n \in Nat /\ DOMAIN m[s] = 1 .. n
      /\ Len(q) \in Nat /\ DOMAIN q = 1 .. Len(q)
  BY MapFacts
<1>1. /\ m[s] \o q \in Seq(Addresses) /\ Len(m[s] \o q) = n + Len(q)
      /\ \A j \in 1 .. (n + Len(q)) :
           (m[s] \o q)[j] = IF j <= n THEN m[s][j] ELSE q[j - n]
  BY <1>0, ConcatProperties, Zenon
<1>2. /\ m2 \in MapType
      /\ \A u \in PageSizes : u # s => m2[u] = m[u]
      /\ m2[s] = m[s] \o q
  BY <1>1, Zenon DEF MapType, Given
<1>. HIDE DEF n
<1>a. DOMAIN m2[s] = 1 .. (n + Len(q))
  BY <1>1, <1>2, LenProperties, Zenon
<1>3. \A u \in PageSizes : \A j \in DOMAIN m[u] : j \in DOMAIN m2[u] /\ m2[u][j] = m[u][j]
  <2>1. \A j \in DOMAIN m[s] : j \in DOMAIN m2[s] /\ m2[s][j] = m[s][j]
    BY <1>0, <1>1, <1>2, <1>a
  <2>. QED  BY <2>1, <1>2, Zenon
<1>4. \A k \in DOMAIN q : n + k \in DOMAIN m2[s] /\ m2[s][n + k] = q[k]
  BY <1>0, <1>1, <1>2, SMTT(30)
<1>5. ASSUME NEW u \in PageSizes, NEW j \in DOMAIN m2[u]
      PROVE  \/ j \in DOMAIN m[u] /\ m2[u][j] = m[u][j]
             \/ u = s /\ j - n \in DOMAIN q /\ m2[u][j] = q[j - n] /\ j \in Int
  <2>1. CASE u = s
    BY <2>1, <1>0, <1>1, <1>2, SMTT(30)
  <2>2. CASE u # s
    BY <2>2, <1>2, SMTT(30)
  <2>. QED  BY <2>1, <2>2, Zenon
<1>6. Placed(m2)
  BY <1>5, SMTT(30) DEF Placed
<1>7. ASSUME NEW u \in PageSizes, NEW j \in DOMAIN m[u], NEW k \in DOMAIN q
      PROVE  Apart(m[u][j], u, q[k], s) /\ Apart(q[k], s, m[u][j], u)
  <2>1. m[u][j] \in Nat /\ q[k] \in Nat
    <3>1. q[k] \in Addresses
      BY <1>0
    <3>. QED  BY <3>1, MapFacts, MemoryAssumption, SMTT(30) DEF Addresses
  <2>2. \A f \in Frames(m[u][j], u) : Covers(m, f)
    BY Zenon DEF Covers
  <2>3. Frames(m[u][j], u) \cap Frames(q[k], s) = {}
    BY <2>2, Zenon
  <2>4. Apart(m[u][j], u, q[k], s)
    BY <2>1, <2>3, ApartIsDisjoint, SMTT(30)
  <2>. QED  BY <2>4, Zenon DEF Apart
<1>8. Separate(m2)
  <2>. SUFFICES ASSUME NEW u \in PageSizes, NEW v \in PageSizes,
                       NEW i \in DOMAIN m2[u], NEW j \in DOMAIN m2[v], ~(u = v /\ i = j)
                PROVE  Apart(m2[u][i], u, m2[v][j], v)
    BY Zenon DEF Separate
  <2>. DEFINE Old(w, k) == k \in DOMAIN m[w] /\ m2[w][k] = m[w][k]
              New(w, k) == w = s /\ k - n \in DOMAIN q /\ m2[w][k] = q[k - n] /\ k \in Int
  <2>1. (Old(u, i) \/ New(u, i)) /\ (Old(v, j) \/ New(v, j))
    BY <1>5, Zenon
  <2>2. CASE Old(u, i) /\ Old(v, j)
    BY <2>2, Zenon DEF Separate
  <2>3. CASE Old(u, i) /\ New(v, j)
    BY <2>3, <1>7, Zenon
  <2>4. CASE New(u, i) /\ Old(v, j)
    BY <2>4, <1>7, Zenon
  <2>5. CASE New(u, i) /\ New(v, j)
    <3>1. i - n # j - n
      BY <2>5, <1>0
    <3>. QED  BY <2>5, <3>1, Zenon
  <2>. HIDE DEF Old, New
  <2>. QED  BY <2>1, <2>2, <2>3, <2>4, <2>5, Zenon
<1>9. ASSUME NEW f
      PROVE  Covers(m2, f) <=> (Covers(m, f) \/ \E k \in DOMAIN q : f \in Frames(q[k], s))
  <2>1. ASSUME Covers(m2, f)
        PROVE  Covers(m, f) \/ \E k \in DOMAIN q : f \in Frames(q[k], s)
    BY <2>1, <1>5, ZenonT(60) DEF Covers
  <2>2. ASSUME Covers(m, f)
        PROVE  Covers(m2, f)
    BY <2>2, <1>3, Zenon DEF Covers
  <2>3. ASSUME NEW k \in DOMAIN q, f \in Frames(q[k], s)
        PROVE  Covers(m2, f)
    BY <2>3, <1>4, Zenon DEF Covers
  <2>. QED  BY <2>1, <2>2, <2>3, Zenon
<1>. QED  BY <1>2, <1>6, <1>8, <1>9, Zenon

------------------------------------------------------------------------------
(* The inductive invariant *)

GroupSound(g) ==
  /\ Len(g.pages) > 0
  /\ \A i \in DOMAIN g.pages : WellPlaced(g.pages[i], g.size)
  /\ \A i, j \in DOMAIN g.pages : i # j => Apart(g.pages[i], g.size, g.pages[j], g.size)
  /\ \A i \in 1 .. (Len(g.pages) - 1) : g.pages[i + 1] = g.pages[i] + InBytes[g.size]

\* While the region is being added: the cursor is aligned to the current size,
\* every token lies below it, and nothing was acquired or written yet.
Adding ==
  /\ start <= memory_address /\ memory_address < end
  /\ is_address_page_aligned(memory_address, page_size)
  /\ \A s \in PageSizes : \A i \in DOMAIN map[s] : map[s][i] + InBytes[s] <= memory_address
  /\ Groups = {}
  /\ content = [f \in Addresses |-> "boot"]

TokensInv ==
  /\ Placed(map) /\ Separate(map)
  /\ \A g \in Groups : GroupSound(g)
  /\ held \cap leaked = {}
  /\ \A g, h \in Groups : g # h => FramesOf(g) \cap FramesOf(h) = {}
  /\ \A g \in Groups : \A f \in FramesOf(g) : ~Covers(map, f)

ContentInv ==
  /\ \A f \in Addresses : Covers(map, f) => content[f] \notin Owners
  /\ NoResidualData

Inv == TypeOK /\ TokensInv /\ ContentInv /\ (~Booted => Adding)

\* Soundness of the map and of a group depends on the bounds of the region, which
\* no step changes.
LEMMA MapIsKept ==
  ASSUME start' = start, end' = end,
         NEW m, m = map', Placed(m), Separate(m)
  PROVE  Placed(map)' /\ Separate(map)'
<1>1. Placed(map)'
  BY Zenon DEF Placed, WellPlaced
<1>2. Separate(map)'
  BY Zenon DEF Separate
<1>. QED  BY <1>1, <1>2, Zenon

LEMMA GroupIsKept ==
  ASSUME start' = start, end' = end,
         NEW g, GroupSound(g)
  PROVE  GroupSound(g)'
BY Zenon DEF GroupSound, WellPlaced

\* The frames of a sound group: some, all inside the confidential memory.
LEMMA GroupFacts ==
  ASSUME NEW g \in Group, GroupSound(g), start \in Addresses, end \in Addresses
  PROVE  /\ g.size \in PageSizes /\ g.pages \in Seq(Addresses)
         /\ Len(g.pages) \in Nat /\ DOMAIN g.pages = 1 .. Len(g.pages) /\ 1 \in DOMAIN g.pages
         /\ \A i \in DOMAIN g.pages : g.pages[i] \in Nat
         /\ FramesOf(g) \subseteq Addresses
         /\ FramesOf(g) # {}
<1>1. g.size \in PageSizes /\ g.pages \in Seq(Addresses)
  BY Zenon DEF Group
<1>2. Len(g.pages) \in Nat /\ DOMAIN g.pages = 1 .. Len(g.pages)
  BY <1>1, LenProperties, Zenon
<1>3. 1 \in DOMAIN g.pages
  BY <1>2 DEF GroupSound
<1>4. \A i \in DOMAIN g.pages : g.pages[i] \in Nat
  <2>1. \A i \in DOMAIN g.pages : g.pages[i] \in Addresses
    BY <1>1, <1>2, ElementOfSeq, Zenon
  <2>. QED  BY <2>1, MemoryAssumption DEF Addresses
<1>5. InBytes[g.size] \in Nat \ {0}
  BY <1>1, PageSizesAssumption, Zenon
<1>6. FramesOf(g) \subseteq Addresses
  <2>. SUFFICES ASSUME NEW i \in DOMAIN g.pages, NEW f \in Frames(g.pages[i], g.size)
                PROVE  f \in Addresses
    BY Zenon DEF FramesOf
  <2>1. WellPlaced(g.pages[i], g.size)
    BY Zenon DEF GroupSound
  <2>. QED  BY <2>1, <1>4, <1>5, MemoryAssumption DEF WellPlaced, Frames, Addresses
<1>7. FramesOf(g) # {}
  <2>1. g.pages[1] \in Frames(g.pages[1], g.size)
    BY <1>3, <1>4, <1>5 DEF Frames
  <2>. QED  BY <1>3, <2>1, Zenon DEF FramesOf
<1>. QED  BY <1>1, <1>2, <1>3, <1>4, <1>6, <1>7, Zenon

\* The free tokens of a map, as Free has them.
FreeOf(m) == UNION {{<<s, i>> : i \in DOMAIN m[s]} : s \in PageSizes}

\* A token of the map is an index of one of its vectors.
LEMMA FreeTokens ==
  ASSUME NEW m
  PROVE  /\ \A s \in PageSizes : \A i \in DOMAIN m[s] : <<s, i>> \in FreeOf(m)
         /\ \A x \in FreeOf(m) : x[1] \in PageSizes /\ x[2] \in DOMAIN m[x[1]] /\ x = <<x[1], x[2]>>
         /\ \A f : f \in UNION {Frames(m[x[1]][x[2]], x[1]) : x \in FreeOf(m)} <=> Covers(m, f)
<1>1. ASSUME NEW s \in PageSizes, NEW i \in DOMAIN m[s]
      PROVE  <<s, i>> \in FreeOf(m)
  BY DEF FreeOf
<1>2. ASSUME NEW x \in FreeOf(m)
      PROVE  x[1] \in PageSizes /\ x[2] \in DOMAIN m[x[1]] /\ x = <<x[1], x[2]>>
  <2>1. PICK s \in PageSizes : x \in {<<s, i>> : i \in DOMAIN m[s]}
    BY Zenon DEF FreeOf
  <2>2. PICK i \in DOMAIN m[s] : x = <<s, i>>
    BY <2>1, Zenon
  <2>. QED  BY <2>2, Zenon
<1>3. ASSUME NEW f, f \in UNION {Frames(m[x[1]][x[2]], x[1]) : x \in FreeOf(m)}
      PROVE  Covers(m, f)
  <2>1. PICK x \in FreeOf(m) : f \in Frames(m[x[1]][x[2]], x[1])
    BY <1>3, Zenon
  <2>. QED  BY <2>1, <1>2, Zenon DEF Covers
<1>4. ASSUME NEW f, Covers(m, f)
      PROVE  f \in UNION {Frames(m[x[1]][x[2]], x[1]) : x \in FreeOf(m)}
  <2>1. PICK s \in PageSizes : \E i \in DOMAIN m[s] : f \in Frames(m[s][i], s)
    BY <1>4, Zenon DEF Covers
  <2>2. PICK i \in DOMAIN m[s] : f \in Frames(m[s][i], s)
    BY <2>1, Zenon
  <2>3. PICK x \in FreeOf(m) : x = <<s, i>>
    BY <1>1, Zenon
  <2>4. f \in Frames(m[x[1]][x[2]], x[1])
    BY <2>2, <2>3, Zenon
  <2>. QED  BY <2>4, Zenon
<1>. QED  BY <1>1, <1>2, <1>3, <1>4, Zenon

\* The tokens cover the frames of the map and those of the groups.
LEMMA TokenFramesMeaning ==
  /\ \A f : f \in TokenFrames <=> (Covers(map, f) \/ \E g \in Groups : f \in FramesOf(g))
  /\ \A f : f \in TokenFrames' <=> (Covers(map', f) \/ \E g \in Groups' : f \in FramesOf(g))
<1>1. \A f : f \in UNION {Frames(map[x[1]][x[2]], x[1]) : x \in FreeOf(map)} <=> Covers(map, f)
  BY FreeTokens, Zenon
<1>2. \A f : f \in UNION {Frames(map'[x[1]][x[2]], x[1]) : x \in FreeOf(map')} <=> Covers(map', f)
  BY FreeTokens, Zenon
<1>3. \A f : f \in TokenFrames <=>
        \/ f \in UNION {Frames(map[x[1]][x[2]], x[1]) : x \in FreeOf(map)}
        \/ \E g \in Groups : f \in FramesOf(g)
  BY Zenon DEF TokenFrames, Free, FreeFrames, FreeOf
<1>4. \A f : f \in TokenFrames' <=>
        \/ f \in UNION {Frames(map'[x[1]][x[2]], x[1]) : x \in FreeOf(map')}
        \/ \E g \in Groups' : f \in FramesOf(g)
  BY Zenon DEF TokenFrames, Free, FreeFrames, FreeOf
<1>. QED  BY <1>1, <1>2, <1>3, <1>4, Zenon

\* The invariant holds initially.
LEMMA InitInv ==
  ASSUME Init
  PROVE  Inv
<1>. USE DEF Init
<1>0. /\ Top \in Nat /\ MaxAddress \in Nat /\ start \in Addresses /\ end \in Addresses
      /\ start \in Nat /\ 0 \in PageSizes /\ InBytes[0] = 1
  BY PageSizesAssumption, MemoryAssumption DEF PageSizes, Addresses
<1>1. map \in [PageSizes -> Seq(Addresses)] /\ \A s \in PageSizes : DOMAIN map[s] = {}
  OBVIOUS
<1>2. TypeOK
  BY <1>0, <1>1, Zenon DEF TypeOK, Addresses
<1>3. TokensInv /\ ContentInv
  BY <1>1, Zenon DEF TokensInv, ContentInv, Placed, Separate, Covers, Groups, NoResidualData
<1>4. Adding
  <2>1. start % 1 = 0
    BY <1>0
  <2>. QED  BY <1>0, <1>1, <2>1 DEF Adding, Groups, is_address_page_aligned, Addresses
<1>. QED  BY <1>2, <1>3, <1>4, Zenon DEF Inv

\* One iteration of add_memory_region: the new page lies at the cursor, above
\* every token, and the cursor moves past it.
LEMMA AddMemoryRegionStep ==
  ASSUME Inv, add_memory_region
  PROVE  Inv' /\ ~Booted
<1>. DEFINE a == memory_address
            s == SizeAt(memory_address, page_size)
<1>0. /\ ~Booted /\ Adding /\ TypeOK /\ TokensInv
      /\ start' = start /\ end' = end /\ held' = held /\ leaked' = leaked /\ content' = content
      /\ page_size' = s /\ memory_address' = NextAddress(a, s)
      /\ map' = IF memory_address' # None \/ can_create_page(a, s)
                THEN [map EXCEPT ![s] = Append(@, a)] ELSE map
  BY Zenon DEF Inv, add_memory_region
<1>1. /\ a \in Nat /\ start \in Nat /\ end \in Nat /\ a < end /\ start <= a /\ a \in Addresses
      /\ start \in Addresses /\ end \in Addresses /\ MaxAddress \in Nat
  BY <1>0, MemoryAssumption DEF TypeOK, Adding, Booted, None, Addresses
<1>2. s \in PageSizes /\ is_address_page_aligned(a, s)
  BY <1>0, <1>1, ChosenSize, Zenon DEF TypeOK, Adding
<1>3. InBytes[s] \in Nat \ {0}
  BY <1>2, PageSizesAssumption, Zenon
<1>4. map \in MapType /\ Placed(map) /\ Separate(map)
  BY <1>0, Zenon DEF TypeOK, TokensInv, MapType
<1>. HIDE DEF s
<1>5. Groups = {} /\ Groups' = {} /\ held = {} /\ leaked = {}
  BY <1>0, Zenon DEF Adding, Groups
<1>6. /\ map' \in MapType /\ Placed(map') /\ Separate(map')
      /\ \A u \in PageSizes : \A i \in DOMAIN map'[u] :
           map'[u][i] + InBytes[u] <= a \/ (map'[u][i] = a /\ u = s)
  <2>1. CASE map' = map
    BY <2>1, <1>0, <1>4, Zenon DEF Adding
  <2>2. CASE map' # map
    <3>1. map' = [map EXCEPT ![s] = Append(@, a)] /\ (memory_address' # None \/ can_create_page(a, s))
      BY <2>2, <1>0, Zenon
    <3>2. a + InBytes[s] <= end
      <4>1. CASE memory_address' # None
        BY <4>1, <1>0, <1>1, <1>3 DEF NextAddress
      <4>2. CASE can_create_page(a, s)
        BY <4>2, <1>1, <1>3 DEF can_create_page
      <4>. QED  BY <3>1, <4>1, <4>2, Zenon
    <3>3. WellPlaced(a, s)
      BY <1>1, <1>2, <3>2, Zenon DEF WellPlaced, is_address_page_aligned
    <3>. DEFINE q == <<a>>
    <3>4. map[s] \in Seq(Addresses)
      BY <1>2, <1>4, Zenon DEF MapType
    <3>5. map' = Given(map, s, q)
      BY <3>1, <3>4, <1>1, AppendIsConcat, Zenon DEF Given
    <3>6. q \in Seq(Addresses) /\ DOMAIN q = {1} /\ q[1] = a
      BY <1>1
    <3>. HIDE DEF q
    <3>7. \A f \in Frames(a, s) : ~Covers(map, f)
      <4>. SUFFICES ASSUME NEW f \in Frames(a, s), NEW u \in PageSizes, NEW i \in DOMAIN map[u],
                           f \in Frames(map[u][i], u)
                    PROVE  FALSE
        BY Zenon DEF Covers
      <4>1. map[u][i] + InBytes[u] <= a /\ map[u][i] \in Nat /\ InBytes[u] \in Nat
        BY <1>0, <1>4, MapFacts, Zenon DEF Adding
      <4>. QED  BY <4>1, <1>1, <1>3 DEF Frames
    <3>8. map' \in MapType /\ Placed(map') /\ Separate(map')
      BY <1>2, <1>4, <3>3, <3>5, <3>6, <3>7, GivePages, Zenon
    <3>9. ASSUME NEW u \in PageSizes, NEW i \in DOMAIN map'[u]
          PROVE  map'[u][i] + InBytes[u] <= a \/ (map'[u][i] = a /\ u = s)
      <4>1. CASE u = s
        <5>1. map'[u] = Append(map[u], a) /\ Len(map[u]) \in Nat
          BY <4>1, <3>1, <3>4, <1>4 DEF MapType
        <5>2. i \in 1 .. (Len(map[u]) + 1)
          BY <5>1, <3>4, <4>1, <1>1
        <5>3. CASE i = Len(map[u]) + 1
          BY <5>1, <5>3, <3>4, <4>1, <1>1, AppendProperties
        <5>4. CASE i \in 1 .. Len(map[u])
          <6>1. map'[u][i] = map[u][i] /\ i \in DOMAIN map[u]
            BY <5>1, <5>4, <3>4, <4>1, <1>1, AppendProperties
          <6>. QED  BY <6>1, <1>0, Zenon DEF Adding
        <5>. QED  BY <5>1, <5>2, <5>3, <5>4
      <4>2. CASE u # s
        <5>1. map'[u] = map[u]
          BY <4>2, <3>1, <1>4, Zenon DEF MapType
        <5>. QED  BY <5>1, <1>0, Zenon DEF Adding
      <4>. QED  BY <4>1, <4>2, Zenon
    <3>. QED  BY <3>8, <3>9, Zenon
  <2>. QED  BY <2>1, <2>2, Zenon
<1>7. memory_address' \in Addresses \cup {None}
  BY <1>0, <1>1, <1>3 DEF NextAddress, Addresses
<1>8. TypeOK'
  BY <1>0, <1>2, <1>6, <1>7, Zenon DEF TypeOK, MapType
<1>9. TokensInv'
  <2>1. Placed(map)' /\ Separate(map)'
    BY <1>0, <1>6, MapIsKept, Zenon
  <2>. QED  BY <1>0, <1>5, <2>1, Zenon DEF TokensInv
<1>10. ContentInv'
  <2>1. \A f \in Addresses : content'[f] \notin Owners
    BY <1>0, CallersAssumption, Zenon DEF Adding
  <2>. QED  BY <1>0, <1>5, <2>1, Zenon DEF ContentInv, NoResidualData
<1>11. ASSUME ~Booted' 
       PROVE  Adding'
  <2>1. memory_address' = a + InBytes[s] /\ a + InBytes[s] < end
    BY <1>0, <1>11, Zenon DEF NextAddress, Booted
  <2>2. is_address_page_aligned(memory_address', s)
    <3>1. InBytes[s] % InBytes[s] = 0
      BY <1>3
    <3>. QED  BY <1>1, <1>2, <1>3, <2>1, <3>1, DividesSum, Zenon DEF is_address_page_aligned
  <2>3. \A u \in PageSizes : \A i \in DOMAIN map'[u] : map'[u][i] + InBytes[u] <= memory_address'
    <3>. SUFFICES ASSUME NEW u \in PageSizes, NEW i \in DOMAIN map'[u]
                  PROVE  map'[u][i] + InBytes[u] <= memory_address'
      BY Zenon
    <3>1. map'[u][i] \in Nat /\ InBytes[u] \in Nat
      BY <1>6, MapFacts, Zenon
    <3>2. map'[u][i] + InBytes[u] <= a \/ (map'[u][i] = a /\ u = s)
      BY <1>6, Zenon
    <3>. QED  BY <1>1, <1>3, <2>1, <3>1, <3>2
  <2>4. start' <= memory_address' /\ memory_address' < end'
    BY <1>0, <1>1, <1>3, <2>1
  <2>5. content' = [f \in Addresses |-> "boot"]
    BY <1>0, Zenon DEF Adding
  <2>. QED  BY <1>0, <1>5, <2>2, <2>3, <2>4, <2>5, Zenon DEF Adding, is_address_page_aligned
<1>. QED  BY <1>0, <1>8, <1>9, <1>10, <1>11, Zenon DEF Inv

\* The parts of the invariant an operation after boot starts from.
LEMMA InvFacts ==
  ASSUME Inv
  PROVE  /\ start \in Addresses /\ end \in Addresses /\ held \subseteq Group /\ leaked \subseteq Group
         /\ map \in MapType /\ Placed(map) /\ Separate(map)
         /\ content \in [Addresses -> Owners \cup {"boot", "zero"}]
         /\ \A g \in Groups : g \in Group /\ GroupSound(g) /\ FramesOf(g) \subseteq Addresses
                              /\ FramesOf(g) # {}
         /\ held # {} => Booted
<1>1. TypeOK /\ TokensInv /\ (~Booted => Adding)
  BY Zenon DEF Inv
<1>2. /\ start \in Addresses /\ end \in Addresses /\ held \subseteq Group /\ leaked \subseteq Group
      /\ map \in MapType /\ content \in [Addresses -> Owners \cup {"boot", "zero"}]
  BY <1>1, Zenon DEF TypeOK, MapType
<1>3. \A g \in Groups : g \in Group /\ GroupSound(g)
  BY <1>1, <1>2, Zenon DEF TokensInv, Groups
<1>4. \A g \in Groups : FramesOf(g) \subseteq Addresses /\ FramesOf(g) # {}
  BY <1>2, <1>3, GroupFacts, Zenon
<1>5. held # {} => Booted
  BY <1>1, Zenon DEF Adding, Groups
<1>. QED  BY <1>1, <1>2, <1>3, <1>4, <1>5, Zenon DEF TokensInv

\* The map that acquire searches: as it is, or divided, it is sound and covers
\* the same frames.
LEMMA SearchedMap ==
  ASSUME Inv, NEW s \in PageSizes, NEW n, NEW m, m = Searched(map, s, n)
  PROVE  /\ m \in MapType /\ Placed(m) /\ Separate(m)
         /\ \A f : Covers(m, f) <=> Covers(map, f)
<1>1. /\ map \in MapType /\ Placed(map) /\ Separate(map)
      /\ start \in Addresses /\ end \in Addresses
  BY InvFacts, Zenon
<1>2. CASE m = map
  BY <1>1, <1>2, Zenon
<1>3. CASE m = divide_pages(map, s)
  BY <1>1, <1>3, DividePages, Zenon
<1>. QED  BY <1>2, <1>3, Zenon DEF Searched

\* acquire_continous_pages: the group takes frames that were covered by the map.
LEMMA AcquireStep ==
  ASSUME Inv, NEW o \in Owners, NEW n \in Counts, NEW s \in PageSizes,
         acquire_continous_pages(o, n, s)
  PROVE  Inv' /\ TokenFrames' = TokenFrames
<1>0. PICK m : m = Searched(map, s, n)
  BY Zenon
<1>1. PICK i : i = First(Candidates(m[s], s, n))
  BY Zenon
<1>2. PICK q : q = TakenPages(m, s, i, n)
  BY Zenon
<1>3. PICK g : g = [owner |-> o, size |-> s, state |-> "UnAllocated", pages |-> q]
  BY Zenon
<1>4. /\ Booted /\ Candidates(m[s], s, n) # {}
      /\ map' = Taken(m, s, i, n)
      /\ held' = held \cup {g}
      /\ start' = start /\ end' = end /\ memory_address' = memory_address
      /\ page_size' = page_size /\ leaked' = leaked /\ content' = content
  BY <1>0, <1>1, <1>2, <1>3, Zenon DEF acquire_continous_pages, Taken, TakenPages
<1>5. /\ m \in MapType /\ Placed(m) /\ Separate(m)
      /\ \A f : Covers(m, f) <=> Covers(map, f)
  BY <1>0, SearchedMap, Zenon
<1>6. n \in Nat \ {0}
  BY CallersAssumption, Zenon
<1>7. /\ i \in 1 .. (Len(m[s]) - n) /\ is_memory_region_continous(m[s], s, i, n)
  <2>1. Len(m[s]) \in Nat
    BY <1>5, MapFacts, Zenon
  <2>2. Candidates(m[s], s, n) \subseteq Nat
    BY <2>1, <1>6 DEF Candidates
  <2>3. i \in Candidates(m[s], s, n)
    BY <1>1, <1>4, <2>2, FirstIsLeast, Zenon
  <2>. QED  BY <2>3, Zenon DEF Candidates
<1>8. /\ Splits(m, s, map', q)
      /\ q \in Seq(Addresses) /\ Len(q) = n
      /\ \A k \in 1 .. n : q[k] = m[s][i + k - 1] /\ i + k - 1 \in DOMAIN m[s]
  <2>1. /\ m \in MapType /\ Placed(m) /\ Separate(m)
        /\ i \in 1 .. (Len(m[s]) - n)
    BY <1>5, <1>7, Zenon
  <2>2. PICK m2 : m2 = Taken(m, s, i, n)
    BY Zenon
  <2>3. Splits(m, s, m2, q)
    BY <2>1, <2>2, <1>2, <1>6, TakePages, Zenon
  <2>4. q \in Seq(Addresses) /\ Len(q) = n
    BY <2>1, <2>2, <1>2, <1>6, TakePages, SMTT(30)
  <2>5. \A k \in 1 .. n : q[k] = m[s][i + k - 1] /\ i + k - 1 \in DOMAIN m[s]
    BY <2>1, <2>2, <1>2, <1>6, TakePages, SMTT(30)
  <2>. QED  BY <2>2, <2>3, <2>4, <2>5, <1>4, Zenon
<1>a. DOMAIN q = 1 .. n
  BY <1>8, LenProperties, SMTT(30)
<1>9. /\ map' \in MapType /\ Placed(map') /\ Separate(map')
      /\ \A f : Covers(m, f) <=> (Covers(map', f) \/ \E k \in 1 .. n : f \in Frames(q[k], s))
      /\ \A f : Covers(map', f) => \A k \in 1 .. n : f \notin Frames(q[k], s)
  BY <1>8, <1>a, Zenon DEF Splits
<1>10. /\ g \in Group /\ g.pages = q /\ g.size = s /\ g.state = "UnAllocated"
       /\ DOMAIN q = 1 .. n
  BY <1>3, <1>8, <1>a, Zenon DEF Group
<1>11. \A f : f \in FramesOf(g) <=> \E k \in 1 .. n : f \in Frames(q[k], s)
  BY <1>10, Zenon DEF FramesOf
<1>12. GroupSound(g)
  <2>1. \A k \in 1 .. n : WellPlaced(q[k], s)
    BY <1>5, <1>8, Zenon DEF Placed
  <2>2. ASSUME NEW k \in 1 .. n, NEW l \in 1 .. n, k # l
        PROVE  Apart(q[k], s, q[l], s)
    <3>1. i + k - 1 # i + l - 1
      BY <1>6, <1>7, <2>2
    <3>2. i + k - 1 \in DOMAIN m[s] /\ i + l - 1 \in DOMAIN m[s]
      BY <1>8, Zenon
    <3>3. Apart(m[s][i + k - 1], s, m[s][i + l - 1], s)
      BY <1>5, <3>1, <3>2, Zenon DEF Separate
    <3>. QED  BY <1>8, <3>3, Zenon
  <2>3. ASSUME NEW k \in 1 .. (n - 1)
        PROVE  q[k + 1] = q[k] + InBytes[s]
    <3>1. k \in 1 .. n /\ k + 1 \in 1 .. n /\ i + (k + 1) - 1 = (i + k - 1) + 1
      BY <1>6, <1>7
    <3>2. i + k - 1 \in i .. (i + n - 2)
      BY <1>6, <1>7
    <3>3. m[s][i + k - 1] + InBytes[s] = m[s][(i + k - 1) + 1]
      BY <1>7, <3>2, SMTT(30) DEF is_memory_region_continous
    <3>4. q[k] = m[s][i + k - 1] /\ q[k + 1] = m[s][i + (k + 1) - 1]
      BY <1>8, <3>1, Zenon
    <3>. QED  BY <3>1, <3>3, <3>4, Zenon
  <2>. QED  BY <1>6, <1>8, <1>10, <2>1, <2>2, <2>3, SMTT(30) DEF GroupSound
<1>13. Groups' = Groups \cup {g}
  BY <1>4, Zenon DEF Groups
<1>14. \A f \in FramesOf(g) : Covers(map, f) /\ ~Covers(map', f)
  BY <1>5, <1>9, <1>11, Zenon
<1>15. /\ \A h \in Groups : \A f \in FramesOf(h) : ~Covers(map, f)
       /\ held \cap leaked = {}
       /\ \A h, k \in Groups : h # k => FramesOf(h) \cap FramesOf(k) = {}
       /\ \A h \in Groups : GroupSound(h)
  BY SMTT(30) DEF Inv, TokensInv
<1>16. FramesOf(g) # {} /\ start \in Addresses /\ end \in Addresses
  BY <1>10, <1>12, InvFacts, GroupFacts, Zenon
<1>17. g \notin Groups
  BY <1>14, <1>15, <1>16, Zenon
<1>18. \A f : Covers(map', f) => Covers(map, f)
  BY <1>5, <1>9, Zenon
<1>19. TokensInv'
  <2>1. Placed(map)' /\ Separate(map)'
    BY <1>4, <1>9, MapIsKept, Zenon
  <2>2. \A h \in Groups' : GroupSound(h)'
    BY <1>4, <1>12, <1>13, <1>15, GroupIsKept, Zenon
  <2>3. held' \cap leaked' = {}
    BY <1>4, <1>15, <1>17, Zenon DEF Groups
  <2>4. \A h, k \in Groups' : h # k => FramesOf(h) \cap FramesOf(k) = {}
    BY <1>13, <1>14, <1>15, Zenon
  <2>5. \A h \in Groups' : \A f \in FramesOf(h) : ~Covers(map', f)
    BY <1>13, <1>14, <1>15, <1>18, SMTT(30)
  <2>. QED  BY <2>1, <2>2, <2>3, <2>4, <2>5, SMTT(30) DEF TokensInv
<1>20. TypeOK'
  BY <1>4, <1>9, <1>10, Zenon DEF Inv, TypeOK, MapType
<1>21. ContentInv'
  <2>1. \A f \in Addresses : Covers(map', f) => content'[f] \notin Owners
    BY <1>4, <1>18, ZenonT(30) DEF Inv, ContentInv
  <2>2. NoResidualData'
    BY <1>4, <1>10, Zenon DEF Inv, ContentInv, NoResidualData
  <2>. QED  BY <2>1, <2>2, Zenon DEF ContentInv
<1>22. Booted'
  BY <1>4, Zenon DEF Booted
<1>23. TokenFrames' = TokenFrames
  <2>1. \A f : f \in TokenFrames' <=> f \in TokenFrames
    BY <1>5, <1>9, <1>11, <1>13, TokenFramesMeaning, Zenon
  <2>. QED  BY <2>1, Zenon
<1>. QED  BY <1>19, <1>20, <1>21, <1>22, <1>23, Zenon DEF Inv

\* A failed acquire leaves the divided map: the same frames, smaller pages.
LEMMA OutOfPagesStep ==
  ASSUME Inv, NEW n \in Counts, NEW s \in PageSizes, out_of_pages(n, s)
  PROVE  Inv' /\ TokenFrames' = TokenFrames
<1>1. /\ Booted /\ map' = Searched(map, s, n)
      /\ start' = start /\ end' = end /\ memory_address' = memory_address
      /\ page_size' = page_size /\ held' = held /\ leaked' = leaked /\ content' = content
  BY Zenon DEF out_of_pages
<1>2. /\ map' \in MapType /\ Placed(map') /\ Separate(map')
      /\ \A f : Covers(map', f) <=> Covers(map, f)
  BY <1>1, SearchedMap, Zenon
<1>3. Groups' = Groups
  BY <1>1, Zenon DEF Groups
<1>4. TokensInv'
  <2>1. Placed(map)' /\ Separate(map)'
    BY <1>1, <1>2, MapIsKept, Zenon
  <2>2. \A h \in Groups' : GroupSound(h)'
    BY <1>1, <1>3, GroupIsKept, Zenon DEF Inv, TokensInv
  <2>. QED  BY <1>1, <1>2, <1>3, <2>1, <2>2, SMTT(30) DEF Inv, TokensInv
<1>5. TypeOK'
  BY <1>1, <1>2, Zenon DEF Inv, TypeOK, MapType
<1>6. ContentInv'
  <2>1. \A f \in Addresses : Covers(map', f) => content'[f] \notin Owners
    BY <1>1, <1>2, Zenon DEF Inv, ContentInv
  <2>2. NoResidualData'
    BY <1>1, Zenon DEF Inv, ContentInv, NoResidualData
  <2>. QED  BY <2>1, <2>2, Zenon DEF ContentInv
<1>7. Booted'
  BY <1>1, Zenon DEF Booted
<1>8. TokenFrames' = TokenFrames
  <2>1. \A f : f \in TokenFrames' <=> f \in TokenFrames
    BY <1>2, <1>3, TokenFramesMeaning, Zenon
  <2>. QED  BY <2>1, Zenon
<1>. QED  BY <1>4, <1>5, <1>6, <1>7, <1>8, Zenon DEF Inv

\* The two ways from UnAllocated to Allocated, zeroize and
\* copy_from_non_confidential_memory: the group keeps its frames and every one
\* of them is overwritten.
LEMMA FillStep ==
  ASSUME Inv, NEW g \in held, NEW what \in {"zero", g.owner}, Become(g, "Allocated"),
         content' = Filled(g, what), UNCHANGED <<start, end, memory_address, page_size, map, leaked>>
  PROVE  Inv' /\ TokenFrames' = TokenFrames
<1>0. PICK g2 : g2 = [g EXCEPT !.state = "Allocated"]
  BY Zenon
<1>1. held' = (held \ {g}) \cup {g2}
  BY <1>0, Zenon DEF Become
<1>2. /\ g \in Groups /\ g \in Group /\ Booted /\ g \notin leaked
      /\ \A h \in Groups : h \in Group /\ GroupSound(h) /\ FramesOf(h) \subseteq Addresses
                           /\ FramesOf(h) # {}
      /\ \A h, k \in Groups : h # k => FramesOf(h) \cap FramesOf(k) = {}
      /\ \A h \in Groups : \A f \in FramesOf(h) : ~Covers(map, f)
      /\ held \cap leaked = {}
      /\ content \in [Addresses -> Owners \cup {"boot", "zero"}]
  <2>1. /\ held \cap leaked = {}
        /\ \A h, k \in Groups : h # k => FramesOf(h) \cap FramesOf(k) = {}
        /\ \A h \in Groups : \A f \in FramesOf(h) : ~Covers(map, f)
    BY Zenon DEF Inv, TokensInv
  <2>2. /\ \A h \in Groups : h \in Group /\ GroupSound(h) /\ FramesOf(h) \subseteq Addresses
                             /\ FramesOf(h) # {}
        /\ held # {} => Booted
        /\ content \in [Addresses -> Owners \cup {"boot", "zero"}]
    BY InvFacts, Zenon
  <2>. QED  BY <2>1, <2>2, Zenon DEF Groups
<1>3. /\ g2 \in Group /\ g2.pages = g.pages /\ g2.size = g.size /\ g2.owner = g.owner
      /\ g2.state = "Allocated"
  BY <1>0, <1>2, Zenon DEF Group
<1>4. FramesOf(g2) = FramesOf(g) /\ GroupSound(g2)
  <2>1. FramesOf(g2) = FramesOf(g)
    BY <1>3, Zenon DEF FramesOf
  <2>2. GroupSound(g)
    BY <1>2, Zenon
  <2>. QED  BY <1>3, <2>1, <2>2, Zenon DEF GroupSound
<1>5. g2 \notin leaked
  BY <1>2, <1>4, Zenon DEF Groups
<1>6. Groups' = (Groups \ {g}) \cup {g2}
  BY <1>1, <1>2, Zenon DEF Groups
<1>7. /\ \A f \in FramesOf(g) : content'[f] = what
      /\ \A f \in Addresses : f \notin FramesOf(g) => content'[f] = content[f]
  BY <1>2, Zenon DEF Filled
<1>8. TypeOK'
  <2>1. what \in Owners \cup {"boot", "zero"}
    BY <1>2, Zenon DEF Group
  <2>2. content' \in [Addresses -> Owners \cup {"boot", "zero"}]
    BY <1>2, <2>1, Zenon DEF Filled
  <2>. QED  BY <1>1, <1>3, <2>2, Zenon DEF Inv, TypeOK
<1>9. TokensInv'
  <2>1. Placed(map)' /\ Separate(map)'
    BY MapIsKept, Zenon DEF Inv, TokensInv
  <2>2. \A h \in Groups' : GroupSound(h)'
    BY <1>2, <1>4, <1>6, GroupIsKept, Zenon
  <2>3. held' \cap leaked' = {}
    BY <1>1, <1>2, <1>5, Zenon
  <2>4. \A h, k \in Groups' : h # k => FramesOf(h) \cap FramesOf(k) = {}
    BY <1>2, <1>4, <1>6, Zenon
  <2>5. \A h \in Groups' : \A f \in FramesOf(h) : ~Covers(map', f)
    BY <1>2, <1>4, <1>6, Zenon
  <2>. QED  BY <2>1, <2>2, <2>3, <2>4, <2>5, SMTT(30) DEF TokensInv
<1>10. ContentInv'
  <2>1. ASSUME NEW f \in Addresses, Covers(map', f)
        PROVE  content'[f] \notin Owners
    BY <1>2, <1>7, <2>1, Zenon DEF Inv, ContentInv
  <2>2. ASSUME NEW h \in held', h.state = "Allocated", NEW f \in FramesOf(h)
        PROVE  content'[f] \in {"zero", h.owner}
    <3>1. CASE h = g2
      BY <3>1, <1>3, <1>4, <1>7, <2>2, Zenon
    <3>2. CASE h # g2
      <4>1. h \in held /\ h # g /\ h \in Groups
        BY <3>2, <1>1, Zenon DEF Groups
      <4>2. f \notin FramesOf(g) /\ f \in Addresses
        BY <4>1, <1>2, <2>2, Zenon
      <4>3. content[f] \in {"zero", h.owner}
        BY <4>1, <2>2, Zenon DEF Inv, ContentInv, NoResidualData
      <4>. QED  BY <4>2, <4>3, <1>7, Zenon
    <3>. QED  BY <3>1, <3>2, Zenon
  <2>. QED  BY <2>1, <2>2, Zenon DEF ContentInv, NoResidualData
<1>11. TokenFrames' = TokenFrames
  <2>1. \A f : f \in TokenFrames' <=> f \in TokenFrames
    BY <1>2, <1>4, <1>6, TokenFramesMeaning, Zenon
  <2>. QED  BY <2>1, Zenon
<1>12. Booted'
  BY <1>2, Zenon DEF Booted
<1>. QED  BY <1>8, <1>9, <1>10, <1>11, <1>12, Zenon DEF Inv

\* The owner writes to its pages: only frames of its own group change.
LEMMA WriteStep ==
  ASSUME Inv, NEW g \in held, write(g)
  PROVE  Inv' /\ TokenFrames' = TokenFrames
<1>0. /\ content' = Filled(g, g.owner)
      /\ start' = start /\ end' = end /\ memory_address' = memory_address /\ map' = map
      /\ page_size' = page_size /\ held' = held /\ leaked' = leaked
  BY Zenon DEF write
<1>1. Groups' = Groups /\ g \in Groups
  BY <1>0, Zenon DEF Groups
<1>2. /\ \A h \in Groups : h \in Group /\ FramesOf(h) \subseteq Addresses
      /\ Booted /\ content \in [Addresses -> Owners \cup {"boot", "zero"}]
  BY InvFacts, Zenon
<1>3. /\ \A f \in FramesOf(g) : content'[f] = g.owner
      /\ \A f \in Addresses : f \notin FramesOf(g) => content'[f] = content[f]
  BY <1>0, <1>1, <1>2, Zenon DEF Filled
<1>4. TypeOK'
  <2>1. g.owner \in Owners
    BY <1>1, <1>2, Zenon DEF Group
  <2>2. content' \in [Addresses -> Owners \cup {"boot", "zero"}]
    BY <1>0, <1>2, <2>1, Zenon DEF Filled
  <2>. QED  BY <1>0, <2>2, Zenon DEF Inv, TypeOK
<1>5. TokensInv'
  <2>1. Placed(map)' /\ Separate(map)'
    BY <1>0, MapIsKept, Zenon DEF Inv, TokensInv
  <2>2. \A h \in Groups' : GroupSound(h)'
    BY <1>0, <1>1, GroupIsKept, Zenon DEF Inv, TokensInv
  <2>. QED  BY <1>0, <1>1, <2>1, <2>2, SMTT(30) DEF Inv, TokensInv
<1>6. ContentInv'
  <2>1. ASSUME NEW f \in Addresses, Covers(map', f)
        PROVE  content'[f] \notin Owners
    BY <1>0, <1>1, <1>3, <2>1, Zenon DEF Inv, ContentInv, TokensInv
  <2>2. ASSUME NEW h \in held', h.state = "Allocated", NEW f \in FramesOf(h)
        PROVE  content'[f] \in {"zero", h.owner}
    <3>1. CASE h = g
      BY <3>1, <1>3, Zenon
    <3>2. CASE h # g
      <4>1. h \in held /\ h \in Groups
        BY <1>0, Zenon DEF Groups
      <4>2. f \notin FramesOf(g) /\ f \in Addresses
        BY <3>2, <4>1, <1>1, <1>2, Zenon DEF Inv, TokensInv
      <4>3. content[f] \in {"zero", h.owner}
        BY <4>1, <2>2, Zenon DEF Inv, ContentInv, NoResidualData
      <4>. QED  BY <4>2, <4>3, <1>3, Zenon
    <3>. QED  BY <3>1, <3>2, Zenon
  <2>. QED  BY <2>1, <2>2, SMTT(30) DEF ContentInv, NoResidualData
<1>7. TokenFrames' = TokenFrames
  <2>1. \A f : f \in TokenFrames' <=> f \in TokenFrames
    BY <1>0, <1>1, TokenFramesMeaning, Zenon
  <2>. QED  BY <2>1, Zenon
<1>8. Booted'
  BY <1>0, <1>2, Zenon DEF Booted
<1>. QED  BY <1>4, <1>5, <1>6, <1>7, <1>8, Zenon DEF Inv

\* A failed copy: the group is dropped with what was copied so far.
LEMMA CopyFailsStep ==
  ASSUME Inv, NEW g \in held, copy_fails(g)
  PROVE  Inv' /\ TokenFrames' = TokenFrames
<1>0. /\ held' = held \ {g} /\ leaked' = leaked \cup {g}
      /\ start' = start /\ end' = end /\ memory_address' = memory_address /\ map' = map
      /\ page_size' = page_size
  BY Zenon DEF copy_fails
<1>1. PICK k \in Addresses :
        content' = [f \in Addresses |->
                      IF f \in FramesOf(g) /\ f < k THEN g.owner ELSE content[f]]
  BY Zenon DEF copy_fails
<1>2. Groups' = Groups /\ g \in Groups
  BY <1>0, Zenon DEF Groups
<1>3. /\ \A h \in Groups : h \in Group /\ FramesOf(h) \subseteq Addresses
      /\ Booted /\ content \in [Addresses -> Owners \cup {"boot", "zero"}]
  BY InvFacts, Zenon
<1>4. \A f \in Addresses : f \notin FramesOf(g) => content'[f] = content[f]
  BY <1>1, Zenon
<1>5. TypeOK'
  <2>1. g \in Group /\ g.owner \in Owners
    BY <1>2, <1>3, Zenon DEF Group
  <2>2. content' \in [Addresses -> Owners \cup {"boot", "zero"}]
    BY <1>1, <1>3, <2>1, Zenon
  <2>. QED  BY <1>0, <2>1, <2>2, Zenon DEF Inv, TypeOK
<1>6. TokensInv'
  <2>1. Placed(map)' /\ Separate(map)'
    BY <1>0, MapIsKept, Zenon DEF Inv, TokensInv
  <2>2. \A h \in Groups' : GroupSound(h)'
    BY <1>0, <1>2, GroupIsKept, Zenon DEF Inv, TokensInv
  <2>3. held' \cap leaked' = {}
    BY <1>0, Zenon DEF Inv, TokensInv
  <2>. QED  BY <1>0, <1>2, <2>1, <2>2, <2>3, SMTT(30) DEF Inv, TokensInv
<1>7. ContentInv'
  <2>1. ASSUME NEW f \in Addresses, Covers(map', f)
        PROVE  content'[f] \notin Owners
    BY <1>0, <1>2, <1>4, <2>1, Zenon DEF Inv, ContentInv, TokensInv
  <2>2. ASSUME NEW h \in held', h.state = "Allocated", NEW f \in FramesOf(h)
        PROVE  content'[f] \in {"zero", h.owner}
    <3>1. h \in held /\ h \in Groups /\ h # g
      BY <1>0, Zenon DEF Groups
    <3>2. f \notin FramesOf(g) /\ f \in Addresses
      BY <3>1, <1>2, <1>3, Zenon DEF Inv, TokensInv
    <3>3. content[f] \in {"zero", h.owner}
      BY <3>1, <2>2, Zenon DEF Inv, ContentInv, NoResidualData
    <3>. QED  BY <3>2, <3>3, <1>4, Zenon
  <2>. QED  BY <2>1, <2>2, SMTT(30) DEF ContentInv, NoResidualData
<1>8. TokenFrames' = TokenFrames
  <2>1. \A f : f \in TokenFrames' <=> f \in TokenFrames
    BY <1>0, <1>2, TokenFramesMeaning, Zenon
  <2>. QED  BY <2>1, Zenon
<1>9. Booted'
  BY <1>0, <1>3, Zenon DEF Booted
<1>. QED  BY <1>5, <1>6, <1>7, <1>8, <1>9, Zenon DEF Inv

\* release_pages: the pages of the group are cleared and appended to the map.
LEMMA ReleaseStep ==
  ASSUME Inv, NEW g \in held, release_pages(g)
  PROVE  Inv' /\ TokenFrames' = TokenFrames
<1>0. /\ held' = held \ {g} /\ map' = [map EXCEPT ![g.size] = @ \o g.pages]
      /\ content' = Filled(g, "zero")
      /\ start' = start /\ end' = end /\ memory_address' = memory_address
      /\ page_size' = page_size /\ leaked' = leaked
  BY Zenon DEF release_pages
<1>1. /\ g \in Groups /\ held \cap leaked = {}
      /\ \A h, k \in Groups : h # k => FramesOf(h) \cap FramesOf(k) = {}
      /\ \A h \in Groups : \A f \in FramesOf(h) : ~Covers(map, f)
  BY Zenon DEF Inv, TokensInv, Groups
<1>2. Groups' = Groups \ {g}
  BY <1>0, <1>1, Zenon DEF Groups
<1>3. /\ \A h \in Groups : h \in Group /\ GroupSound(h) /\ FramesOf(h) \subseteq Addresses
      /\ Booted /\ content \in [Addresses -> Owners \cup {"boot", "zero"}]
      /\ map \in MapType /\ Placed(map) /\ Separate(map)
      /\ start \in Addresses /\ end \in Addresses
  BY InvFacts, Zenon
<1>4. /\ g.size \in PageSizes /\ g.pages \in Seq(Addresses) /\ GroupSound(g)
  BY <1>1, <1>3, GroupFacts, Zenon
<1>5. \A f : f \in FramesOf(g) <=> \E k \in DOMAIN g.pages : f \in Frames(g.pages[k], g.size)
  BY Zenon DEF FramesOf
<1>6. PICK m2 : m2 = Given(map, g.size, g.pages)
  BY Zenon
<1>7. /\ m2 \in MapType /\ Placed(m2) /\ Separate(m2)
      /\ \A f : Covers(m2, f) <=> (Covers(map, f) \/ f \in FramesOf(g))
  <2>1. /\ \A k \in DOMAIN g.pages : WellPlaced(g.pages[k], g.size)
        /\ \A k, l \in DOMAIN g.pages : k # l => Apart(g.pages[k], g.size, g.pages[l], g.size)
    BY <1>4, Zenon DEF GroupSound
  <2>2. \A k \in DOMAIN g.pages : \A f \in Frames(g.pages[k], g.size) : ~Covers(map, f)
    BY <1>1, <1>5, Zenon
  <2>3. /\ m2 \in MapType /\ Placed(m2) /\ Separate(m2)
        /\ \A f : Covers(m2, f) <=>
             (Covers(map, f) \/ \E k \in DOMAIN g.pages : f \in Frames(g.pages[k], g.size))
    <3>1. map \in MapType /\ Placed(map) /\ Separate(map)
      BY <1>3, Zenon
    <3>2. PICK s, q : s = g.size /\ q = g.pages
      BY Zenon
    <3>3. /\ s \in PageSizes /\ q \in Seq(Addresses) /\ m2 = Given(map, s, q)
          /\ \A k \in DOMAIN q : WellPlaced(q[k], s)
          /\ \A k, l \in DOMAIN q : k # l => Apart(q[k], s, q[l], s)
          /\ \A k \in DOMAIN q : \A f \in Frames(q[k], s) : ~Covers(map, f)
      BY <1>4, <1>6, <2>1, <2>2, <3>2, Zenon
    <3>4. /\ m2 \in MapType /\ Placed(m2) /\ Separate(m2)
          /\ \A f : Covers(m2, f) <=> (Covers(map, f) \/ \E k \in DOMAIN q : f \in Frames(q[k], s))
      BY <3>1, <3>3, GivePages, Zenon
    <3>. QED  BY <3>2, <3>4, Zenon
  <2>. QED  BY <2>3, <1>5, SMTT(30)
<1>8. /\ map' \in MapType /\ Placed(map') /\ Separate(map')
      /\ \A f : Covers(map', f) <=> (Covers(map, f) \/ f \in FramesOf(g))
  BY <1>0, <1>6, <1>7, Zenon DEF Given
<1>9. /\ \A f \in FramesOf(g) : content'[f] = "zero"
      /\ \A f \in Addresses : f \notin FramesOf(g) => content'[f] = content[f]
  BY <1>0, <1>1, <1>3, Zenon DEF Filled
<1>10. TypeOK'
  <2>1. content' \in [Addresses -> Owners \cup {"boot", "zero"}]
    BY <1>0, <1>3, Zenon DEF Filled
  <2>. QED  BY <1>0, <1>8, <2>1, Zenon DEF Inv, TypeOK, MapType
<1>11. TokensInv'
  <2>1. Placed(map)' /\ Separate(map)'
    BY <1>0, <1>8, MapIsKept, Zenon
  <2>2. \A h \in Groups' : GroupSound(h)'
    BY <1>0, <1>2, <1>3, GroupIsKept, Zenon
  <2>3. held' \cap leaked' = {}
    BY <1>0, <1>1, Zenon
  <2>4. \A h, k \in Groups' : h # k => FramesOf(h) \cap FramesOf(k) = {}
    BY <1>1, <1>2, Zenon
  <2>5. \A h \in Groups' : \A f \in FramesOf(h) : ~Covers(map', f)
    BY <1>1, <1>2, <1>8, Zenon
  <2>. QED  BY <2>1, <2>2, <2>3, <2>4, <2>5, SMTT(30) DEF TokensInv
<1>12. ContentInv'
  <2>1. ASSUME NEW f \in Addresses, Covers(map', f)
        PROVE  content'[f] \notin Owners
    <3>1. CASE f \in FramesOf(g)
      BY <3>1, <1>9, CallersAssumption, ZenonT(30)
    <3>2. CASE f \notin FramesOf(g)
      BY <3>2, <1>8, <1>9, <2>1, Zenon DEF Inv, ContentInv
    <3>. QED  BY <3>1, <3>2, Zenon
  <2>2. ASSUME NEW h \in held', h.state = "Allocated", NEW f \in FramesOf(h)
        PROVE  content'[f] \in {"zero", h.owner}
    <3>1. h \in held /\ h \in Groups /\ h # g
      BY <1>0, Zenon DEF Groups
    <3>2. f \notin FramesOf(g) /\ f \in Addresses
      BY <3>1, <1>1, <1>3, Zenon
    <3>3. content[f] \in {"zero", h.owner}
      BY <3>1, <2>2, Zenon DEF Inv, ContentInv, NoResidualData
    <3>. QED  BY <3>2, <3>3, <1>9, Zenon
  <2>. QED  BY <2>1, <2>2, Zenon DEF ContentInv, NoResidualData
<1>13. TokenFrames' = TokenFrames
  <2>1. \A f : f \in TokenFrames' <=> f \in TokenFrames
    BY <1>1, <1>2, <1>8, TokenFramesMeaning, Zenon
  <2>. QED  BY <2>1, Zenon
<1>14. Booted'
  BY <1>0, <1>3, Zenon DEF Booted
<1>. QED  BY <1>10, <1>11, <1>12, <1>13, <1>14, Zenon DEF Inv

\* Every step keeps the invariant and, after boot, the frames that have a token.
LEMMA NextStep ==
  ASSUME Inv, [Next]_vars
  PROVE  Inv' /\ (Booted => TokenFrames' = TokenFrames)
<1>1. CASE add_memory_region
  BY <1>1, AddMemoryRegionStep, Zenon
<1>2. CASE acquire
  <2>1. PICK n \in Counts, s \in PageSizes :
          \/ \E o \in Owners : acquire_continous_pages(o, n, s)
          \/ out_of_pages(n, s)
    BY <1>2, Zenon DEF acquire
  <2>. QED  BY <2>1, AcquireStep, OutOfPagesStep, Zenon
<1>3. ASSUME NEW g \in held, zeroize(g) \/ copy_from_non_confidential_memory(g)
      PROVE  Inv' /\ TokenFrames' = TokenFrames
  <2>1. PICK what \in {"zero", g.owner} : content' = Filled(g, what)
    BY <1>3, Zenon DEF zeroize, copy_from_non_confidential_memory
  <2>2. /\ Become(g, "Allocated")
        /\ UNCHANGED <<start, end, memory_address, page_size, map, leaked>>
    BY <1>3, Zenon DEF zeroize, copy_from_non_confidential_memory
  <2>. QED  BY <2>1, <2>2, FillStep, Zenon
<1>4. ASSUME NEW g \in held, copy_fails(g) \/ write(g) \/ release_pages(g)
      PROVE  Inv' /\ TokenFrames' = TokenFrames
  BY <1>4, CopyFailsStep, WriteStep, ReleaseStep, Zenon
<1>5. CASE UNCHANGED vars
  <2>. USE <1>5 DEF vars
  <2>1. Groups' = Groups
    BY Zenon DEF Groups
  <2>2. TypeOK'
    BY Zenon DEF Inv, TypeOK
  <2>3. TokensInv'
    <3>1. Placed(map)' /\ Separate(map)'
      BY MapIsKept, Zenon DEF Inv, TokensInv
    <3>2. \A h \in Groups' : GroupSound(h)'
      BY <2>1, GroupIsKept, Zenon DEF Inv, TokensInv
    <3>. QED  BY <2>1, <3>1, <3>2, SMTT(30) DEF Inv, TokensInv
  <2>4. ContentInv'
    BY Zenon DEF Inv, ContentInv, NoResidualData
  <2>5. ~Booted' => Adding'
    BY <2>1, Zenon DEF Inv, Booted, Adding, is_address_page_aligned
  <2>6. \A f : f \in TokenFrames' <=> f \in TokenFrames
    BY <2>1, TokenFramesMeaning, Zenon
  <2>. QED  BY <2>2, <2>3, <2>4, <2>5, <2>6, Zenon DEF Inv
<1>. QED  BY <1>1, <1>2, <1>3, <1>4, <1>5, Zenon DEF Next

\* The invariant implies what the runs check.
LEMMA InvImplies ==
  ASSUME Inv
  PROVE  /\ TypeOK /\ NoResidualData /\ FreePagesAreScrubbed
         /\ PageTokensAreDisjoint /\ PageTokensAreWellPlaced /\ AcquiredPagesAreContinous
<1>1. TypeOK /\ NoResidualData
  BY Zenon DEF Inv, ContentInv
<1>2. /\ \A g \in Groups : g \in Group /\ GroupSound(g) /\ FramesOf(g) \subseteq Addresses
      /\ map \in MapType /\ Placed(map) /\ Separate(map)
      /\ start \in Addresses /\ end \in Addresses
  BY InvFacts, Zenon
<1>3. Free = FreeOf(map)
  BY Zenon DEF Free, FreeOf
<1>4. \A x \in Free : x[1] \in PageSizes /\ x[2] \in DOMAIN map[x[1]] /\ x = <<x[1], x[2]>>
  BY <1>3, FreeTokens, ZenonT(30)
<1>5. ASSUME NEW x \in Free, NEW f \in FreeFrames(x)
      PROVE  Covers(map, f) /\ f \in Addresses
  <2>1. f \in Frames(map[x[1]][x[2]], x[1])
    BY Zenon DEF FreeFrames
  <2>2. Covers(map, f)
    BY <1>4, <2>1, Zenon DEF Covers
  <2>3. WellPlaced(map[x[1]][x[2]], x[1])
    BY <1>2, <1>4, Zenon DEF Placed
  <2>4. map[x[1]][x[2]] \in Nat /\ InBytes[x[1]] \in Nat
    BY <1>2, <1>4, MapFacts, Zenon
  <2>. QED  BY <2>1, <2>2, <2>3, <2>4, <1>2, MemoryAssumption DEF WellPlaced, Frames, Addresses
<1>6. FreePagesAreScrubbed
  BY <1>5, Zenon DEF FreePagesAreScrubbed, Inv, ContentInv
<1>7. PageTokensAreDisjoint
  <2>1. ASSUME NEW x \in Free, NEW y \in Free, x # y
        PROVE  FreeFrames(x) \cap FreeFrames(y) = {}
    <3>1. ~(x[1] = y[1] /\ x[2] = y[2])
      BY <1>4, <2>1, Zenon
    <3>2. Apart(map[x[1]][x[2]], x[1], map[y[1]][y[2]], y[1])
      BY <1>2, <1>4, <3>1, Zenon DEF Separate
    <3>3. map[x[1]][x[2]] \in Nat /\ map[y[1]][y[2]] \in Nat
      BY <1>2, <1>4, MapFacts, Zenon
    <3>. QED  BY <1>4, <3>2, <3>3, ApartIsDisjoint, Zenon DEF FreeFrames
  <2>2. \A x \in Free, g \in Groups : FreeFrames(x) \cap FramesOf(g) = {}
    BY <1>5, SMTT(30) DEF Inv, TokensInv
  <2>3. ASSUME NEW g \in Groups, NEW i \in DOMAIN g.pages, NEW j \in DOMAIN g.pages, i # j
        PROVE  Frames(g.pages[i], g.size) \cap Frames(g.pages[j], g.size) = {}
    <3>1. Apart(g.pages[i], g.size, g.pages[j], g.size)
      BY <1>2, <2>3, SMTT(30) DEF GroupSound
    <3>2. g.size \in PageSizes /\ g.pages[i] \in Nat /\ g.pages[j] \in Nat
      BY <1>2, GroupFacts, Zenon
    <3>. QED  BY <3>1, <3>2, ApartIsDisjoint, Zenon
  <2>. QED  BY <2>1, <2>2, <2>3, Zenon DEF PageTokensAreDisjoint, Inv, TokensInv
<1>8. PageTokensAreWellPlaced
  BY <1>2, <1>4, Zenon DEF PageTokensAreWellPlaced, Placed, GroupSound
<1>9. AcquiredPagesAreContinous
  BY <1>2, Zenon DEF AcquiredPagesAreContinous, GroupSound
<1>. QED  BY <1>1, <1>6, <1>7, <1>8, <1>9, Zenon

------------------------------------------------------------------------------
(* Theorems *)

\* The inductive invariant holds in every reachable state of the allocator.
THEOREM Invariance == Spec => []Inv
<1>1. Init => Inv
  BY InitInv, Zenon
<1>2. Inv /\ [Next]_vars => Inv'
  BY NextStep, Zenon
<1>. QED  BY <1>1, <1>2, PTL DEF Spec

\* Every variable keeps its type: the sizes in the map of tokens, the frames, the
\* holders and what the frames hold.
THEOREM TypeCorrectness == Spec => []TypeOK
<1>1. Inv => TypeOK
  BY InvImplies, Zenon
<1>. QED  BY <1>1, Invariance, PTL

\* "It guarantees that a physical page is not allocated twice", for every memory
\* region, every number of page sizes and every sequence of operations: no frame
\* belongs to two page tokens.
THEOREM NoPageIsAllocatedTwice == Spec => []PageTokensAreDisjoint
<1>1. Inv => PageTokensAreDisjoint
  BY InvImplies, Zenon
<1>. QED  BY <1>1, Invariance, PTL

\* Every page token is aligned to its size and lies in the region that
\* add_memory_region was given.
THEOREM PagesAreWherePromised == Spec => []PageTokensAreWellPlaced
<1>1. Inv => PageTokensAreWellPlaced
  BY InvImplies, Zenon
<1>. QED  BY <1>1, Invariance, PTL

\* A group that acquire_continous_pages returns is one run of memory, although the
\* vectors it searches are not sorted.
THEOREM GroupsAreContinous == Spec => []AcquiredPagesAreContinous
<1>1. Inv => AcquiredPagesAreContinous
  BY InvImplies, Zenon
<1>. QED  BY <1>1, Invariance, PTL

\* An owner finds zeros or its own data in its pages, and never what an earlier owner
\* left there.
THEOREM NoDataIsInherited == Spec => []NoResidualData
<1>1. Inv => NoResidualData
  BY InvImplies, Zenon
<1>. QED  BY <1>1, Invariance, PTL

\* Between two owners a page holds nobody's data: what deallocation clears is every
\* frame that becomes free.
THEOREM FreePagesHoldNoData == Spec => []FreePagesAreScrubbed
<1>1. Inv => FreePagesAreScrubbed
  BY InvImplies, Zenon
<1>. QED  BY <1>1, Invariance, PTL

\* Dividing, acquiring, dropping and releasing pages never creates memory and
\* never loses it: the frames that have a token stay the same.
THEOREM NoMemoryIsLost == Spec => MemoryIsConserved
<1>1. Inv /\ [Next]_vars => [Booted => TokenFrames' = TokenFrames]_vars
  BY NextStep, Zenon
<1>. QED  BY <1>1, Invariance, PTL DEF Spec, MemoryIsConserved
=============================================================================
