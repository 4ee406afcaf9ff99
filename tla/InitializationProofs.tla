------------------------ MODULE InitializationProofs ------------------------
(***************************************************************************)
(* The boot splits the memory safely and puts every hart under the monitor *)
(* for any number of harts, any address space and any device tree.  The    *)
(* invariant follows the order in which the boot hart writes the statics   *)
(* (Statics, BootStage) and, per hart, the swap of mscratch with its saved *)
(* value (HartInv).  The work is in the arithmetic of SplitMemory:         *)
(* addresses wrap around, pointers are aligned up, and the distance of two *)
(* pointers overflows beyond half the address space.                       *)
(***************************************************************************)
EXTENDS Initialization, TLAPS

-----------------------------------------------------------------------------
(* Arithmetic                                                              *)

\* A sum of two addresses that stays in the address space is not cut.
LEMMA ModSmall ==
    ASSUME NEW x \in Nat, NEW a \in Nat \ {0}, x < a
    PROVE  x % a = x
OBVIOUS

\* A sum of two addresses that leaves the address space wraps once.
LEMMA ModWrap ==
    ASSUME NEW x \in Nat, NEW a \in Nat \ {0}, x >= a, x < 2 * a
    PROVE  x % a = x - a
OBVIOUS

\* What divides without rest is a multiple ...
LEMMA ModMultiple ==
    ASSUME NEW x \in Int, NEW a \in Nat \ {0}, x % a = 0
    PROVE  \E k \in Int : x = k * a
OBVIOUS

\* ... and the other way round.
LEMMA MultipleMod ==
    ASSUME NEW k \in Int, NEW a \in Nat \ {0}
    PROVE  (k * a) % a = 0
OBVIOUS

\* The whole units in a length.
LEMMA DivBounds ==
    ASSUME NEW x \in Nat, NEW a \in Nat \ {0}
    PROVE  /\ x \div a \in Nat /\ (x \div a) * a \in Nat
           /\ (x \div a) * a <= x /\ x < (x \div a) * a + a
<1>1. x \div a \in Nat /\ (x \div a) * a <= x /\ x < (x \div a) * a + a
  OBVIOUS
<1> QED
  BY <1>1

\* align_offset leads to the next multiple.
LEMMA AlignUp ==
    ASSUME NEW x \in Nat, NEW a \in Nat \ {0}
    PROVE  (-x) % a \in Nat /\ (-x) % a < a /\ (x + ((-x) % a)) % a = 0
<1>1. PICK k \in Int : x + ((-x) % a) = k * a
  <2>1. PICK y \in Int : y = -x
    OBVIOUS
  <2>2. y = ((y \div a) * a) + (y % a) /\ y \div a \in Int
    OBVIOUS
  <2>3. PICK k \in Int : y = (k * a) + (y % a)
    BY <2>2, Zenon
  <2>4. y % a \in Int /\ k * a \in Int /\ (-k) * a = -(k * a) /\ -k \in Int
    OBVIOUS
  <2>5. x + (y % a) = (-k) * a
    <3>1. PICK r \in Int, m \in Int : r = y % a /\ m = k * a
      BY <2>4, Zenon
    <3>2. x + r = -m
      BY <2>1, <2>3, <3>1
    <3> QED
      BY <2>4, <3>1, <3>2, Zenon
  <2>6. x + ((-x) % a) = (-k) * a
    BY <2>1, <2>5, Zenon
  <2> QED
    BY <2>4, <2>6, Zenon
<1>2. (x + ((-x) % a)) % a = 0
  BY <1>1, MultipleMod, Zenon
<1>3. (-x) % a \in Nat /\ (-x) % a < a
  OBVIOUS
<1> QED
  BY <1>2, <1>3, Zenon

\* Sums and differences of multiples are multiples.
LEMMA SumMultiples ==
    ASSUME NEW a \in Nat \ {0}, NEW x \in Int, NEW y \in Int, x % a = 0, y % a = 0
    PROVE  (x + y) % a = 0 /\ (x - y) % a = 0
<1>1. PICK k \in Int, j \in Int : x = k * a /\ y = j * a
  BY ModMultiple, Zenon
<1>2. x + y = (k + j) * a /\ x - y = (k - j) * a
  BY <1>1
<1> QED
  BY <1>2, MultipleMod, SMTT(60)

\* Two multiples of a are a apart.
LEMMA MultiplesApart ==
    ASSUME NEW a \in Nat \ {0}, NEW x \in Int, NEW y \in Int, x % a = 0, y % a = 0, x < y
    PROVE  x + a <= y
<1>1. PICK k \in Int, j \in Int : x = k * a /\ y = j * a
  BY ModMultiple, Zenon
<1>2. k < j
  BY <1>1
<1>3. PICK d \in Nat : j = k + 1 + d
  <2>1. j - k - 1 \in Nat /\ j = k + 1 + (j - k - 1)
    BY <1>2
  <2> QED
    BY <2>1, Zenon
<1>4. j * a = k * a + a + d * a /\ d * a >= 0
  BY <1>3
<1> QED
  BY <1>1, <1>4

\* A page is a whole number of words.
LEMMA MultipleOfMultiple ==
    ASSUME NEW a \in Nat \ {0}, NEW b \in Nat \ {0}, NEW x \in Int, x % a = 0, a % b = 0
    PROVE  x % b = 0
<1>1. PICK k \in Int, j \in Int : x = k * a /\ a = j * b
  BY ModMultiple
<1>2. x = (k * j) * b /\ k * j \in Int
  BY <1>1
<1> QED
  BY <1>2, MultipleMod, Zenon

-----------------------------------------------------------------------------
(* Pointers                                                                *)

\* The address space has a middle.
LEMMA Halves ==
    ASSUME AddressSpace # 0
    PROVE  /\ AddressSpace \in Nat \ {0} /\ AddressSpace \div 2 \in Nat
           /\ AddressSpace = 2 * (AddressSpace \div 2)
<1>1. AddressSpace \in Nat \ {0} /\ AddressSpace % (2 * PageBytes) = 0 /\ 2 * PageBytes \in Nat \ {0}
  BY AddressAssumption
<1>2. PICK a \in Nat \ {0} : a = 2 * PageBytes
  BY <1>1, Zenon
<1>3. \E k \in Int : AddressSpace = k * a
  <2>1. AddressSpace \in Int /\ AddressSpace % a = 0
    BY <1>1, <1>2
  <2> QED
    BY <2>1, ModMultiple, Zenon
<1>4. PICK k \in Int : AddressSpace = k * a
  BY <1>3, Zenon
<1>5. AddressSpace = 2 * (k * PageBytes) /\ k * PageBytes \in Int
  BY <1>2, <1>4, AddressAssumption
<1>6. PICK m \in Int : AddressSpace = 2 * m
  BY <1>5, Zenon
<1> QED
  BY <1>1, <1>6

\* ptr_byte_add_mut answers the sum, or the error when the sum leaves the region
\* or the address space.
LEMMA AddStays ==
    ASSUME NEW p \in Pointers, NEW n \in Nat, n <= AddressSpace, NEW end \in Pointers
    PROVE  ptr_byte_add_mut(p, n, end) = IF p + n < end THEN p + n ELSE Error
<1>0. AddressSpace \in Nat \ {0} /\ p \in Nat /\ end \in Nat /\ p < AddressSpace /\ end < AddressSpace
  BY AddressAssumption DEF Pointers
<1> DEFINE q == wrapping_byte_add(p, n)
<1>1. CASE p + n < AddressSpace
  <2>1. q = p + n
    BY <1>0, <1>1, ModSmall DEF wrapping_byte_add
  <2> HIDE DEF q
  <2>2. n > 0 => q > p
    BY <1>0, <2>1
  <2> QED
    BY <1>0, <2>1, <2>2 DEF ptr_byte_add_mut, q
<1>2. CASE p + n >= AddressSpace
  <2>1. q = (p + n) - AddressSpace
    <3>1. PICK x : x = p + n
      BY Zenon
    <3>2. x \in Nat /\ x >= AddressSpace /\ x < 2 * AddressSpace
      BY <3>1, <1>0, <1>2
    <3>3. x % AddressSpace = x - AddressSpace
      BY <1>0, <3>2, ModWrap, Zenon
    <3>4. (p + n) % AddressSpace = (p + n) - AddressSpace
      BY <3>1, <3>3, Zenon
    <3> QED
      BY <3>4, Zenon DEF wrapping_byte_add
  <2> HIDE DEF q
  <2>2. n > 0 /\ q <= p /\ ~(p + n < end)
    BY <1>0, <1>2, <2>1
  <2>3. ptr_byte_add_mut(p, n, end) = Error
    BY <2>2, Zenon DEF ptr_byte_add_mut, q
  <2> QED
    BY <2>2, <2>3, Zenon
<1> QED
  BY <1>0, <1>1, <1>2

\* The distance of two pointers less than half an address space apart, when the
\* subtraction does not panic.
LEMMA OffsetIs ==
    ASSUME NEW p \in Pointers, NEW q \in Pointers, q <= p, p - q < AddressSpace \div 2,
           ~ptr_byte_offset(p, q).panics
    PROVE  ptr_byte_offset(p, q).value = p - q
<1>0. p \in Nat /\ q \in Nat /\ p < AddressSpace
  BY AddressAssumption DEF Pointers
<1>1. PICK m : m = AddressSpace \div 2
  BY Zenon
<1>a. AddressSpace # 0
  BY <1>0
<1>b. m \in Nat /\ AddressSpace = 2 * m
  BY <1>1, <1>a, Halves, Zenon
<1> DEFINE d == isize(p) - isize(q)
<1>2. ptr_byte_offset(p, q).value = d /\ d \in -m .. m - 1
  BY <1>1, <1>b, Zenon DEF ptr_byte_offset
<1>3. isize(p) = (IF p < m THEN p ELSE p - 2 * m) /\ isize(q) = (IF q < m THEN q ELSE q - 2 * m)
  BY <1>1, <1>b, Zenon DEF isize
<1>4. p - q < m
  BY <1>1, Zenon
<1> QED
  BY <1>0, <1>b, <1>2, <1>3, <1>4

\* A page fits into an address space that is not empty.
LEMMA PageFits ==
    ASSUME NEW p \in Pointers
    PROVE  PageBytes <= AddressSpace
<1>0. PageBytes \in Nat \ {0} /\ AddressSpace \in Nat \ {0}
  BY AddressAssumption DEF Pointers
<1>1. PICK a \in Nat \ {0} : a = 2 * PageBytes
  BY <1>0
<1>2. AddressSpace % a = 0 /\ AddressSpace \in Int
  BY <1>0, <1>1, AddressAssumption
<1>3. PICK k \in Int : AddressSpace = k * a
  BY <1>2, ModMultiple, Zenon
<1>4. AddressSpace = 2 * (k * PageBytes) /\ k * PageBytes \in Int /\ k >= 1
  BY <1>0, <1>1, <1>3
<1> QED
  BY <1>0, <1>4

-----------------------------------------------------------------------------
(* The split of the memory                                                 *)

\* What the boot hart makes of the memory of the device tree: whole pages behind it.
GoodLayout(l) ==
    /\ l \in Layout
    /\ fdt.base \in Nat /\ fdt.size \in Nat \ {0} /\ fdt.base + 2 * fdt.size < AddressSpace
    /\ l.non_confidential_memory_start = fdt.base
    /\ l.non_confidential_memory_end = fdt.base + fdt.size
    /\ l.confidential_memory_start % PageBytes = 0 /\ l.confidential_memory_end % PageBytes = 0
    /\ fdt.base + fdt.size <= l.confidential_memory_start
    /\ l.confidential_memory_start <= l.confidential_memory_end
    /\ l.confidential_memory_end <= fdt.base + 2 * fdt.size

\* The end of the last whole page of a region that starts on a page.
LEMMA LastPage ==
    ASSUME NEW start \in Pointers, NEW end \in Pointers, start < end, start % PageBytes = 0,
           end - start < AddressSpace \div 2,
           NEW nc_start \in Pointers, NEW nc_end \in Pointers,
           LayoutFrom(nc_start, nc_end, start, end).outcome = "ok"
    PROVE  LET l == LayoutFrom(nc_start, nc_end, start, end).layout IN
           /\ l \in Layout
           /\ l.non_confidential_memory_start = nc_start /\ l.non_confidential_memory_end = nc_end
           /\ l.confidential_memory_start = start /\ l.confidential_memory_end % PageBytes = 0
           /\ start <= l.confidential_memory_end /\ l.confidential_memory_end <= end
<1>0. /\ start \in Nat /\ end \in Nat /\ PageBytes \in Nat \ {0} /\ AddressSpace \in Nat
      /\ start < AddressSpace /\ end < AddressSpace
  BY AddressAssumption DEF Pointers
<1>1. PICK size, whole : size = ptr_byte_offset(end, start) /\ whole = (size.value \div PageBytes) * PageBytes
  BY Zenon
<1>2. ~size.panics
  BY <1>1, Zenon DEF LayoutFrom, Failed
<1>3. size.value = end - start /\ size.value \in Nat
  BY <1>0, <1>1, <1>2, OffsetIs
<1>4. PICK n \in Nat : n = end - start /\ size.value = n
  BY <1>3, Zenon
<1>5. whole \in Nat /\ whole <= n /\ whole % PageBytes = 0
  <2>1. n \div PageBytes \in Nat /\ whole = (n \div PageBytes) * PageBytes
    BY <1>0, <1>1, <1>4, DivBounds, Zenon
  <2>2. whole \in Nat /\ whole <= n
    BY <1>0, <2>1, DivBounds, Zenon
  <2>3. PICK k \in Nat : k = n \div PageBytes
    BY <2>1, Zenon
  <2>4. (k * PageBytes) % PageBytes = 0
    BY <1>0, MultipleMod
  <2> QED
    BY <2>1, <2>2, <2>3, <2>4, Zenon
<1>6. PICK last : last = IF size.value > whole THEN ptr_byte_add_mut(start, whole, end) ELSE end
  BY Zenon
<1>7. LayoutFrom(nc_start, nc_end, start, end).layout =
         [non_confidential_memory_start |-> nc_start, non_confidential_memory_end |-> nc_end,
          confidential_memory_start |-> start, confidential_memory_end |-> last]
  BY <1>1, <1>2, <1>6, Zenon DEF LayoutFrom
<1>8. last = start + whole
  <2>1. CASE n > whole
    <3>1. whole <= AddressSpace /\ start + whole < end
      BY <1>0, <1>4, <1>5, <2>1
    <3> QED
      BY <1>4, <1>5, <1>6, <2>1, <3>1, AddStays, Zenon
  <2>2. CASE ~(n > whole)
    BY <1>0, <1>4, <1>5, <1>6, <2>2
  <2> QED
    BY <2>1, <2>2, Zenon
<1>9. last \in Pointers /\ start <= last /\ last <= end
  BY <1>0, <1>4, <1>5, <1>8 DEF Pointers
<1>10. last % PageBytes = 0
  <2>1. start \in Int /\ whole \in Int
    BY <1>0, <1>5
  <2>2. (start + whole) % PageBytes = 0
    BY <1>0, <1>5, <2>1, SumMultiples, Zenon
  <2> QED
    BY <2>2, <1>8, Zenon
<1> QED
  BY <1>7, <1>9, <1>10 DEF Layout

\* MemoryLayout_init for memory that lies in the lower or the upper half of the
\* address space; whether it does is what the panics are about.
LEMMA LayoutIs ==
    ASSUME NEW base \in Pointers, NEW middle \in Pointers, NEW end \in Pointers,
           end - middle < AddressSpace \div 2,
           MemoryLayout_init(base, middle, middle, end).outcome = "ok"
    PROVE  LET l == MemoryLayout_init(base, middle, middle, end).layout IN
           /\ l \in Layout
           /\ l.non_confidential_memory_start = base /\ l.non_confidential_memory_end = middle
           /\ l.confidential_memory_start % PageBytes = 0 /\ l.confidential_memory_end % PageBytes = 0
           /\ middle <= l.confidential_memory_start
           /\ l.confidential_memory_start <= l.confidential_memory_end
           /\ l.confidential_memory_end <= end
<1>0. /\ middle \in Nat /\ end \in Nat /\ PageBytes \in Nat \ {0} /\ AddressSpace \in Nat
      /\ middle < AddressSpace /\ end < AddressSpace /\ AddressSpace \div 2 \in Int
  BY AddressAssumption DEF Pointers
<1>1. PICK start : start = ptr_align(middle, PageBytes, end)
  BY Zenon
<1>2. /\ start # Panic /\ start # Error
      /\ MemoryLayout_init(base, middle, middle, end) = LayoutFrom(base, middle, start, end)
  <2>1. Failed("panic").outcome # "ok" /\ Failed("NotEnoughMemory").outcome # "ok"
    BY Zenon DEF Failed
  <2>2. base < middle /\ middle <= middle /\ middle < end
    BY <2>1, Zenon DEF MemoryLayout_init
  <2>3. start # Panic
    BY <1>1, <2>1, <2>2, Zenon DEF MemoryLayout_init
  <2>4. start # Error
    BY <1>1, <2>1, <2>2, <2>3, Zenon DEF MemoryLayout_init
  <2> QED
    BY <1>1, <2>2, <2>3, <2>4, Zenon DEF MemoryLayout_init
<1>3. PICK n : n = (-middle) % PageBytes
  BY Zenon
<1>4. n \in Nat /\ n < PageBytes /\ (middle + n) % PageBytes = 0
  <2>1. /\ (-middle) % PageBytes \in Nat /\ (-middle) % PageBytes < PageBytes
        /\ (middle + ((-middle) % PageBytes)) % PageBytes = 0
    BY <1>0, AlignUp, Zenon
  <2> QED
    BY <1>3, <2>1, Zenon
<1>5. start = ptr_byte_add_mut(middle, n, end)
  BY <1>1, <1>2, <1>3, Zenon DEF ptr_align
<1>6. n <= AddressSpace
  BY <1>0, <1>4, PageFits
<1>7. start = middle + n /\ middle + n < end
  BY <1>0, <1>2, <1>4, <1>5, <1>6, AddStays, Zenon
<1>8. start \in Pointers /\ start < end /\ start % PageBytes = 0 /\ end - start < AddressSpace \div 2
  <2>1. start \in Pointers /\ start < end
    BY <1>0, <1>4, <1>7 DEF Pointers
  <2>2. start % PageBytes = 0
    BY <1>4, <1>7, Zenon
  <2>3. end - start < AddressSpace \div 2
    BY <1>0, <1>4, <1>7
  <2> QED
    BY <2>1, <2>2, <2>3, Zenon
<1>9. LayoutFrom(base, middle, start, end).outcome = "ok"
  BY <1>2, Zenon
<1>10. LET l == LayoutFrom(base, middle, start, end).layout IN
       /\ l \in Layout
       /\ l.non_confidential_memory_start = base /\ l.non_confidential_memory_end = middle
       /\ l.confidential_memory_start = start /\ l.confidential_memory_end % PageBytes = 0
       /\ start <= l.confidential_memory_end /\ l.confidential_memory_end <= end
  BY <1>8, <1>9, LastPage, Zenon
<1>11. middle <= start
  BY <1>0, <1>4, <1>7
<1> QED
  BY <1>2, <1>8, <1>10, <1>11, Zenon

\* A device tree whose memory wraps around is refused, any other is split.
LEMMA SplitIs ==
    ASSUME fdt \in Fdts, SplitMemory.outcome = "ok"
    PROVE  GoodLayout(SplitMemory.layout)
<1>0. fdt.base \in Pointers /\ fdt.size \in Pointers
  BY BootAssumption, Zenon
<1>1. PICK base, size : base = fdt.base /\ size = fdt.size
  BY Zenon
<1>2. /\ base \in Pointers /\ base \in Nat /\ base < AddressSpace
      /\ size \in Nat /\ size < AddressSpace /\ AddressSpace \in Nat \ {0}
  BY <1>0, <1>1, AddressAssumption DEF Pointers
<1>3. PICK end, middle : /\ end = wrapping_byte_add(base, 2 * size)
                         /\ middle = ptr_byte_add_mut(base, size, end)
  BY Zenon
<1>4. /\ ~(2 * size >= AddressSpace) /\ middle # Error
      /\ SplitMemory = MemoryLayout_init(base, middle, middle, end)
  BY <1>1, <1>3, Zenon DEF SplitMemory, Failed
<1>5. 2 * size < AddressSpace /\ 2 * size \in Nat /\ size <= AddressSpace
  BY <1>2, <1>4
<1>6. end \in Pointers /\ end = IF base + 2 * size < AddressSpace THEN base + 2 * size
                                                                ELSE (base + 2 * size) - AddressSpace
  <2>1. PICK x : x = base + 2 * size
    BY Zenon
  <2>2. x \in Nat /\ x < 2 * AddressSpace
    BY <1>2, <1>5, <2>1
  <2>3. x % AddressSpace = IF x < AddressSpace THEN x ELSE x - AddressSpace
    <3>1. CASE x < AddressSpace
      BY <1>2, <2>2, <3>1, ModSmall, Zenon
    <3>2. CASE ~(x < AddressSpace)
      <4>1. x >= AddressSpace
        BY <1>2, <2>2, <3>2
      <4> QED
        BY <1>2, <2>2, <3>2, <4>1, ModWrap, Zenon
    <3> QED
      BY <3>1, <3>2, Zenon
  <2>4. end = x % AddressSpace
    BY <1>3, <2>1, Zenon DEF wrapping_byte_add
  <2>5. end \in Nat /\ end < AddressSpace
    BY <1>2, <2>2, <2>3, <2>4
  <2> QED
    BY <1>2, <2>1, <2>3, <2>4, <2>5 DEF Pointers
<1>7. middle = base + size /\ base + size < end
  BY <1>2, <1>3, <1>4, <1>5, <1>6, AddStays, Zenon
<1>8. base + 2 * size < AddressSpace /\ size > 0 /\ end = base + 2 * size
  BY <1>2, <1>5, <1>6, <1>7
<1>9. middle \in Pointers
  BY <1>2, <1>7, <1>8 DEF Pointers
<1>10. end - middle < AddressSpace \div 2
  <2>1. end - middle = size
    BY <1>2, <1>7, <1>8
  <2>2. size < AddressSpace \div 2
    BY <1>2, <1>5, Halves
  <2> QED
    BY <2>1, <2>2, Zenon
<1>11. LET l == SplitMemory.layout IN
       /\ l \in Layout
       /\ l.non_confidential_memory_start = base /\ l.non_confidential_memory_end = middle
       /\ l.confidential_memory_start % PageBytes = 0 /\ l.confidential_memory_end % PageBytes = 0
       /\ middle <= l.confidential_memory_start
       /\ l.confidential_memory_start <= l.confidential_memory_end
       /\ l.confidential_memory_end <= end
  BY <1>2, <1>4, <1>6, <1>9, <1>10, LayoutIs
<1> HIDE DEF SplitMemory
<1> QED
  BY <1>1, <1>2, <1>7, <1>8, <1>11 DEF GoodLayout

-----------------------------------------------------------------------------
(* The inductive invariant                                                 *)

\* Where only the boot hart is, before it joins the others.
Booting == {"initialize_memory_layout", "initalize_security_monitor_state", "verify_harts", "prepare_harts"}

\* Where any hart may be: spinning for HARTS_STATES, under the monitor, in OpenSBI
\* on behalf of the hypervisor, or stopped.
Entered == {"setup", "hypervisor", "sbi_trap_handler", "panic"}

\* What mscratch may point to.
Scratch == {"opensbi", "HardwareHart", "zero"} \X Nat

\* One element of HARTS_STATES: the stack and the saved mscratch.
Area == [stack : Pointers, previous_mscratch : Scratch]

\* The types of the parts that never depend on the statics.
Types ==
    /\ fdt \in Fdts
    /\ pc \in [Harts -> Booting \cup Entered]
    /\ control_data \in BOOLEAN
    /\ mscratch \in [Harts -> Scratch]
    /\ mtvec \in [Harts -> {"opensbi", "monitor"}]
    /\ medeleg \in [Harts -> BOOLEAN]
    /\ pmp \in [Harts -> [start : Pointers, end : Pointers, tor : BOOLEAN, rwx : BOOLEAN]]

\* The heap starts the confidential memory, the page allocator ends it.
GoodRegions ==
    /\ heap[1] \in Regions /\ page_allocator[1] \in Regions
    /\ heap[1].start = memory_layout[1].confidential_memory_start
    /\ heap[1].end = page_allocator[1].start
    /\ page_allocator[1].end = memory_layout[1].confidential_memory_end
    /\ heap[1].start <= heap[1].end /\ heap[1].end <= page_allocator[1].end

\* Every hart has a stack of its own, a page of the page allocator.
GoodStacks(areas) ==
    /\ \A i \in DOMAIN areas : areas[i].stack \in StackPages
    /\ \A i, j \in DOMAIN areas : i # j => areas[i].stack # areas[j].stack

\* The statics are written in their order, each at most once.
Statics ==
    /\ memory_layout = <<>> \/ (memory_layout = <<memory_layout[1]>> /\ GoodLayout(memory_layout[1]))
    /\ \/ heap = <<>> /\ page_allocator = <<>>
       \/ /\ heap = <<heap[1]>> /\ page_allocator = <<page_allocator[1]>> /\ memory_layout # <<>>
          /\ GoodRegions /\ control_data
    /\ \/ harts_states = <<>>
       \/ /\ harts_states = <<harts_states[1]>> /\ heap # <<>> /\ error = "none"
          /\ harts_states[1] \in [0 .. Len(fdt.harts) - 1 -> Area] /\ GoodStacks(harts_states[1])

\* Only the boot hart writes them, and it has done so when it enters setup.
BootStage ==
    /\ BootHart \in Harts /\ \A h \in Harts : h # BootHart => pc[h] \in Entered
    /\ pc[BootHart] \in Booting => harts_states = <<>> /\ error = "none"
    /\ pc[BootHart] = "initialize_memory_layout" => memory_layout = <<>> /\ heap = <<>>
    /\ pc[BootHart] = "initalize_security_monitor_state" => memory_layout # <<>> /\ heap = <<>>
    /\ pc[BootHart] \in {"verify_harts", "prepare_harts"} => heap # <<>>

\* The hart is under the monitor: its traps lead there and its memory is closed.
UnderMonitor(h) ==
    /\ harts_states # <<>> /\ h \in DOMAIN harts_states[1]
    /\ mtvec[h] = "monitor" /\ ~medeleg[h]
    /\ pmp[h].start = memory_layout[1].confidential_memory_start
    /\ pmp[h].end = memory_layout[1].confidential_memory_end
    /\ ~pmp[h].rwx

\* mscratch and its saved value are swapped whenever OpenSBI is entered or left.
HartInv(h) ==
    /\ pc[h] \in Booting \cup {"setup", "sbi_trap_handler"} => mscratch[h] = opensbi_scratch(h)
    /\ pc[h] \in {"hypervisor", "sbi_trap_handler"} => UnderMonitor(h)
    /\ pc[h] = "hypervisor" =>
          /\ mscratch[h] = address(h)
          /\ harts_states[1][h].previous_mscratch = opensbi_scratch(h)
    /\ pc[h] = "sbi_trap_handler" => harts_states[1][h].previous_mscratch = address(h)

\* The inductive invariant of the boot.
Inv == Types /\ Statics /\ BootStage /\ \A h \in Harts : HartInv(h)

\* Sequences of at most one element.
LEMMA OneElement ==
    /\ \A x : <<x>>[1] = x /\ <<x>> # <<>> /\ DOMAIN <<x>> = {1} /\ <<x>> = << <<x>>[1] >>
    /\ DOMAIN <<>> = {}
    /\ \A x, y : [<<x>> EXCEPT ![1] = y] = <<y>>
<1>1. ASSUME NEW x PROVE <<x>>[1] = x /\ <<x>> # <<>> /\ DOMAIN <<x>> = {1} /\ <<x>> = << <<x>>[1] >>
  OBVIOUS
<1>2. DOMAIN <<>> = {}
  OBVIOUS
<1>3. ASSUME NEW x, NEW y PROVE [<<x>> EXCEPT ![1] = y] = <<y>>
  OBVIOUS
<1> QED
  BY <1>1, <1>2, <1>3, Zenon

-----------------------------------------------------------------------------
(* The boot hart                                                           *)

\* Before the boot no static is written and every hart has the mscratch of OpenSBI.
LEMMA InitInv == Init => Inv
<1> SUFFICES ASSUME Init PROVE Inv
  BY Zenon
<1>1. fdt \in Fdts /\ fdt.base \in Pointers /\ 0 \in Pointers
  BY BootAssumption, AddressAssumption DEF Init, Pointers
<1>2. Types
  BY <1>1, BootAssumption, Zenon DEF Init, Types, Booting, Entered, Scratch, opensbi_scratch
<1>3. Statics
  BY Zenon DEF Init, Statics
<1>4. BootStage
  BY BootAssumption, Zenon DEF Init, BootStage, Booting, Entered
<1>5. ASSUME NEW h \in Harts PROVE HartInv(h)
  BY Zenon DEF Init, HartInv, Booting
<1> QED
  BY <1>2, <1>3, <1>4, <1>5, Zenon DEF Inv

\* Until the states of the harts exist every other hart waits in setup.
LEMMA BootMoves ==
    ASSUME Inv, pc[BootHart] \in Booting, NEW w \in Booting \cup {"setup", "panic"},
           GoTo(BootHart, w), UNCHANGED <<fdt, registers>>, control_data' \in BOOLEAN
    PROVE  /\ Types' /\ \A h \in Harts : HartInv(h)'
           /\ pc'[BootHart] = w /\ BootHart \in Harts /\ \A h \in Harts : h # BootHart => pc'[h] \in Entered
           /\ harts_states = <<>> /\ error = "none"
<1>1. /\ BootHart \in Harts /\ \A h \in Harts : h # BootHart => pc[h] \in Entered
      /\ harts_states = <<>> /\ error = "none" /\ pc \in [Harts -> Booting \cup Entered]
  BY Zenon DEF Inv, BootStage, Types
<1>2. /\ pc'[BootHart] = w /\ \A h \in Harts : h # BootHart => pc'[h] = pc[h]
      /\ pc' \in [Harts -> Booting \cup Entered]
  BY <1>1, Zenon DEF GoTo, Entered
<1>3. Types'
  BY <1>2, Zenon DEF Inv, Types, registers
<1>4. ASSUME NEW h \in Harts PROVE HartInv(h)'
  <2>1. /\ pc[h] \in Booting \cup {"setup", "sbi_trap_handler"} => mscratch'[h] = opensbi_scratch(h)
        /\ pc[h] \notin {"hypervisor", "sbi_trap_handler"}
    BY <1>1, Zenon DEF Inv, HartInv, UnderMonitor, registers
  <2>2. /\ pc'[h] \notin {"hypervisor", "sbi_trap_handler"}
        /\ pc'[h] \in Booting \cup {"setup"} => pc[h] \in Booting \cup {"setup"}
    BY <1>2, <2>1, Zenon DEF Booting
  <2> QED
    BY <2>1, <2>2, Zenon DEF HartInv
<1> QED
  BY <1>1, <1>2, <1>3, <1>4, Zenon

\* initialize_memory_layout.
LEMMA LayoutStep ==
    ASSUME Inv, initialize_memory_layout
    PROVE  Inv'
<1>1. PICK split : split = SplitMemory
  BY Zenon
<1> HIDE DEF SplitMemory
<1>2. /\ pc[BootHart] = "initialize_memory_layout" /\ pc[BootHart] \in Booting
      /\ UNCHANGED <<fdt, heap, page_allocator, control_data, harts_states, registers>>
  BY Zenon DEF initialize_memory_layout, Booting
<1>3. /\ fdt \in Fdts /\ memory_layout = <<>> /\ heap = <<>> /\ page_allocator = <<>> /\ harts_states = <<>>
      /\ control_data' \in BOOLEAN
  BY <1>2, Zenon DEF Inv, Types, BootStage, Statics
<1>4. CASE split.outcome = "ok"
  <2>1. memory_layout' = <<split.layout>> /\ GoTo(BootHart, "initalize_security_monitor_state") /\ error' = error
    BY <1>1, <1>4, Zenon DEF initialize_memory_layout
  <2>2. GoodLayout(split.layout)'
    BY <1>1, <1>2, <1>3, <1>4, <2>1, SplitIs, Zenon DEF GoodLayout
  <2>3. memory_layout' = <<memory_layout'[1]>> /\ GoodLayout(memory_layout[1])' /\ memory_layout' # <<>>
    BY <2>1, <2>2, OneElement, Zenon
  <2> QED
    BY <1>2, <1>3, <2>1, <2>3, BootMoves, Zenon DEF Inv, Statics, BootStage, Booting
<1>5. CASE split.outcome # "ok"
  <2>1. PICK w \in {"setup", "panic"} :
            GoTo(BootHart, w) /\ memory_layout' = memory_layout
    BY <1>1, <1>5, Zenon DEF initialize_memory_layout, gives_up
  <2> QED
    BY <1>2, <1>3, <2>1, BootMoves, Zenon DEF Inv, Statics, BootStage, Booting
<1> QED
  BY <1>4, <1>5, Zenon

\* The heap takes whole pages from the start of the memory and leaves at least one.
LEMMA RegionsAre ==
    ASSUME NEW l, GoodLayout(l), NEW size, size = l.confidential_memory_end - l.confidential_memory_start,
           NEW pages, pages = size \div PageBytes, pages > heap_pages(pages),
           NEW bytes, bytes = heap_pages(pages) * PageBytes
    PROVE  /\ bytes \in Nat /\ l.confidential_memory_start + bytes \in Pointers
           /\ l.confidential_memory_start <= l.confidential_memory_start + bytes
           /\ l.confidential_memory_start + bytes < l.confidential_memory_end
           /\ page_allocator_start_address(l, bytes) = l.confidential_memory_start + bytes
<1>1. PICK s, e : s = l.confidential_memory_start /\ e = l.confidential_memory_end
  BY Zenon
<1>2. /\ s \in Pointers /\ e \in Pointers /\ s <= e /\ s \in Nat /\ e \in Nat /\ e < AddressSpace
      /\ AddressSpace \in Nat /\ PageBytes \in Nat \ {0}
  BY <1>1, AddressAssumption DEF GoodLayout, Layout, Pointers
<1>3. size \in Nat /\ size = e - s
  BY <1>1, <1>2
<1>4. pages \in Nat /\ pages * PageBytes <= size
  BY <1>2, <1>3, DivBounds, Zenon
<1>5. heap_pages(pages) \in Nat
  <2>1. pages * TokenBytes \in Nat /\ HeapPages \in Nat
    BY <1>4, BootAssumption
  <2>2. (pages * TokenBytes) \div PageBytes \in Nat
    BY <1>2, <2>1, DivBounds, Zenon
  <2> QED
    BY <2>1, <2>2 DEF heap_pages
<1>6. PICK k \in Nat : k = heap_pages(pages)
  BY <1>5, Zenon
<1>7. bytes \in Nat /\ bytes < size
  <2>1. bytes = k * PageBytes /\ k < pages
    BY <1>6, Zenon
  <2>2. bytes \in Nat /\ k * PageBytes < pages * PageBytes
    BY <1>2, <1>4, <2>1
  <2>3. pages * PageBytes \in Int
    BY <1>2, <1>4
  <2>4. PICK b \in Int : b = pages * PageBytes
    BY <2>3, Zenon
  <2>5. b <= size /\ bytes < b
    BY <1>4, <2>1, <2>2, <2>4, Zenon
  <2> QED
    BY <1>3, <2>2, <2>5
<1>8. s + bytes \in Pointers /\ s <= s + bytes /\ s + bytes < e /\ bytes <= AddressSpace
  BY <1>2, <1>3, <1>7 DEF Pointers
<1>9. ptr_byte_add_mut(s, bytes, e) = s + bytes
  BY <1>2, <1>7, <1>8, AddStays, Zenon
<1> QED
  BY <1>1, <1>7, <1>8, <1>9, Zenon DEF page_allocator_start_address, confidential_address_at_offset

\* initalize_security_monitor_state.
LEMMA StateStep ==
    ASSUME Inv, initalize_security_monitor_state
    PROVE  Inv'
<1>1. PICK l : l = memory_layout[1]
  BY Zenon
<1>2. PICK size : size = l.confidential_memory_end - l.confidential_memory_start
  BY Zenon
<1>3. PICK pages : pages = size \div PageBytes
  BY Zenon
<1>4. PICK bytes : bytes = heap_pages(pages) * PageBytes
  BY Zenon
<1>5. /\ pc[BootHart] = "initalize_security_monitor_state" /\ pc[BootHart] \in Booting
      /\ UNCHANGED <<fdt, memory_layout, harts_states, registers>>
  BY Zenon DEF initalize_security_monitor_state, Booting
<1>6. /\ memory_layout # <<>> /\ memory_layout = <<l>> /\ GoodLayout(l) /\ heap = <<>> /\ page_allocator = <<>>
      /\ harts_states = <<>> /\ control_data \in BOOLEAN
  BY <1>1, <1>5 DEF Inv, Types, BootStage, Statics
<1>7. GoodLayout(l)'
  BY <1>5, <1>6, Zenon DEF GoodLayout
<1>8. CASE pages > heap_pages(pages)
  <2>1. /\ heap' = <<Region(l.confidential_memory_start, l.confidential_memory_start + bytes)>>
        /\ page_allocator' = <<Region(page_allocator_start_address(l, bytes), l.confidential_memory_end)>>
        /\ control_data' = TRUE /\ GoTo(BootHart, "verify_harts") /\ error' = error
    BY <1>1, <1>2, <1>3, <1>4, <1>8, Zenon DEF initalize_security_monitor_state
  <2>2. PICK m : /\ m = l.confidential_memory_start + bytes /\ m = page_allocator_start_address(l, bytes)
                 /\ m \in Pointers /\ l.confidential_memory_start <= m /\ m < l.confidential_memory_end
    BY <1>2, <1>3, <1>4, <1>6, <1>8, RegionsAre, Zenon
  <2>3. /\ heap' = <<heap'[1]>> /\ heap' # <<>> /\ page_allocator' = <<page_allocator'[1]>>
        /\ heap'[1] = [start |-> l.confidential_memory_start, end |-> m]
        /\ page_allocator'[1] = [start |-> m, end |-> l.confidential_memory_end]
    BY <2>1, <2>2, OneElement, Zenon DEF Region
  <2>4. m <= l.confidential_memory_end /\ l \in Layout
    BY <1>6, <2>2, AddressAssumption DEF GoodLayout, Layout, Pointers
  <2>5. GoodRegions'
    BY <1>1, <1>5, <2>2, <2>3, <2>4 DEF GoodRegions, Regions, Layout
  <2>6. Statics'
    BY <1>1, <1>5, <1>6, <1>7, <2>1, <2>3, <2>5, Zenon DEF Statics
  <2> QED
    BY <1>5, <1>6, <2>1, <2>3, <2>6, BootMoves DEF Inv, BootStage, Booting
<1>9. CASE ~(pages > heap_pages(pages))
  <2>1. GoTo(BootHart, "setup") /\ UNCHANGED <<heap, page_allocator, control_data>>
    BY <1>1, <1>2, <1>3, <1>4, <1>9, Zenon DEF initalize_security_monitor_state, gives_up
  <2>2. Statics'
    BY <1>1, <1>5, <1>6, <1>7, <2>1, Zenon DEF Statics
  <2> QED
    BY <1>5, <1>6, <2>1, <2>2, BootMoves DEF Inv, BootStage, Booting
<1> QED
  BY <1>8, <1>9, Zenon

\* Statics that were written stay good while they are unchanged.
LEMMA StaticsStay ==
    ASSUME Statics, UNCHANGED <<fdt, memory_layout, heap, page_allocator, control_data, harts_states>>,
           harts_states = <<>> \/ error' = error
    PROVE  Statics'
<1>1. ASSUME NEW l PROVE GoodLayout(l)' <=> GoodLayout(l)
  BY Zenon DEF GoodLayout
<1>2. GoodRegions' <=> GoodRegions
  BY Zenon DEF GoodRegions
<1>3. ASSUME NEW a PROVE GoodStacks(a)' <=> GoodStacks(a)
  BY Zenon DEF GoodStacks, StackPages
<1>4. /\ memory_layout'[1] = memory_layout[1] /\ heap'[1] = heap[1] /\ page_allocator'[1] = page_allocator[1]
      /\ harts_states'[1] = harts_states[1]
  BY Zenon
<1>5. GoodLayout(memory_layout[1])' <=> GoodLayout(memory_layout[1])
  BY Zenon DEF GoodLayout
<1>6. GoodStacks(harts_states[1])' <=> GoodStacks(harts_states[1])
  BY ZenonT(60) DEF GoodStacks, StackPages
<1> QED
  BY <1>2, <1>4, <1>5, <1>6, Zenon DEF Statics

\* verify_harts, and prepare_harts when a stack cannot be had.
LEMMA VerifyStep ==
    ASSUME Inv, verify_harts \/ prepare_harts_fails
    PROVE  Inv'
<1>1. PICK w \in {"prepare_harts", "setup", "panic"} : GoTo(BootHart, w) /\ (w = "prepare_harts" => error' = error)
  BY Zenon DEF verify_harts, prepare_harts_fails, gives_up
<1>2. /\ pc[BootHart] \in {"verify_harts", "prepare_harts"} /\ pc[BootHart] \in Booting
      /\ UNCHANGED <<fdt, memory_layout, heap, page_allocator, control_data, harts_states, registers>>
  BY Zenon DEF verify_harts, prepare_harts_fails, Booting
<1>3. heap # <<>> /\ harts_states = <<>> /\ Statics /\ control_data' \in BOOLEAN
  BY <1>2, Zenon DEF Inv, BootStage, Types
<1>4. Statics'
  BY <1>2, <1>3, StaticsStay, Zenon
<1>5. w \in Booting \cup {"setup", "panic"}
  BY Zenon DEF Booting
<1> QED
  BY <1>1, <1>2, <1>3, <1>4, <1>5, BootMoves, Zenon DEF Inv, BootStage, Booting

\* prepare_harts.
LEMMA PrepareStep ==
    ASSUME Inv, prepare_harts
    PROVE  Inv'
<1>1. PICK areas \in HartAreas(Len(fdt.harts)) :
          /\ \A i, j \in DOMAIN areas : i # j => areas[i].stack # areas[j].stack
          /\ harts_states' = <<areas>>
  BY Zenon DEF prepare_harts
<1>2. /\ pc[BootHart] = "prepare_harts" /\ pc[BootHart] \in Booting /\ GoTo(BootHart, "setup")
      /\ UNCHANGED <<fdt, memory_layout, heap, page_allocator, control_data, error>>
      /\ UNCHANGED <<fdt, registers>>
  BY Zenon DEF prepare_harts, Booting, boot_vars
<1>3. heap # <<>> /\ harts_states = <<>> /\ error = "none" /\ Statics /\ control_data' \in BOOLEAN
  BY <1>2, Zenon DEF Inv, BootStage, Types
<1>4. harts_states' = <<harts_states'[1]>> /\ harts_states'[1] = areas /\ harts_states' # <<>>
  BY <1>1, OneElement, Zenon
<1>5. areas \in [0 .. Len(fdt.harts) - 1 -> Area] /\ GoodStacks(areas)
  BY <1>1 DEF HartAreas, Area, GoodStacks, StackPages, Scratch, Nowhere
<1>6. GoodStacks(harts_states[1])' /\ harts_states'[1] \in [0 .. Len(fdt'.harts) - 1 -> Area]
  BY <1>2, <1>4, <1>5, Zenon DEF GoodStacks, StackPages
<1>7. GoodLayout(memory_layout[1])' <=> GoodLayout(memory_layout[1])
  BY <1>2, Zenon DEF GoodLayout
<1>8. GoodRegions' <=> GoodRegions
  BY <1>2, Zenon DEF GoodRegions
<1>9. Statics'
  BY <1>2, <1>3, <1>4, <1>6, <1>7, <1>8, Zenon DEF Statics
<1> QED
  BY <1>2, <1>3, <1>9, BootMoves DEF Inv, BootStage, Booting

-----------------------------------------------------------------------------
(* Every hart                                                              *)

\* A step of one hart after the boot changes only its registers and its saved
\* mscratch.
LEMMA HartMoves ==
    ASSUME Inv, NEW h \in Harts, NEW w \in Entered, GoTo(h, w),
           UNCHANGED boot_vars, harts_states # <<>>,
           Types', harts_states' = <<harts_states'[1]>>, harts_states' # <<>>,
           harts_states'[1] \in [0 .. Len(fdt.harts) - 1 -> Area],
           \A i \in 0 .. Len(fdt.harts) - 1 :
              /\ harts_states'[1][i].stack = harts_states[1][i].stack
              /\ i # h => harts_states'[1][i] = harts_states[1][i],
           \A g \in Harts : g # h => /\ mscratch'[g] = mscratch[g] /\ mtvec'[g] = mtvec[g]
                                     /\ medeleg'[g] = medeleg[g] /\ pmp'[g] = pmp[g],
           HartInv(h)'
    PROVE  Inv'
<1>1. /\ fdt' = fdt /\ error' = error /\ memory_layout' = memory_layout /\ heap' = heap
      /\ page_allocator' = page_allocator /\ control_data' = control_data
  BY Zenon DEF boot_vars
<1>2. /\ Statics /\ heap # <<>> /\ error = "none" /\ harts_states[1] \in [0 .. Len(fdt.harts) - 1 -> Area]
      /\ GoodStacks(harts_states[1])
  BY Zenon DEF Inv, Statics
<1>3. pc'[h] = w /\ \A g \in Harts : g # h => pc'[g] = pc[g]
  BY Zenon DEF Inv, Types, GoTo
<1>4. GoodStacks(harts_states[1])'
  <2>1. StackPages' = StackPages
    BY <1>1, Zenon DEF StackPages
  <2>2. /\ DOMAIN harts_states'[1] = 0 .. Len(fdt.harts) - 1
        /\ DOMAIN harts_states[1] = 0 .. Len(fdt.harts) - 1
    BY <1>2, Zenon
  <2> QED
    BY <1>2, <2>1, <2>2, ZenonT(60) DEF GoodStacks
<1>5. GoodLayout(memory_layout[1])' <=> GoodLayout(memory_layout[1])
  BY <1>1, Zenon DEF GoodLayout
<1>6. GoodRegions' <=> GoodRegions
  BY <1>1, Zenon DEF GoodRegions
<1>7. Statics'
  BY <1>1, <1>2, <1>4, <1>5, <1>6, Zenon DEF Statics
<1>8. BootStage'
  <2>1. BootHart \in Harts /\ pc[BootHart] \notin Booting /\ \A g \in Harts : g # BootHart => pc[g] \in Entered
    BY Zenon DEF Inv, BootStage
  <2>2. pc'[BootHart] \notin Booting /\ \A g \in Harts : g # BootHart => pc'[g] \in Entered
    BY <1>3, <2>1, Zenon DEF Booting, Entered
  <2> QED
    BY <2>1, <2>2, Zenon DEF BootStage, Booting
<1>9. ASSUME NEW g \in Harts, g # h PROVE HartInv(g)'
  <2>1. HartInv(g) /\ DOMAIN harts_states[1] = 0 .. Len(fdt.harts) - 1 /\ DOMAIN harts_states'[1] = 0 .. Len(fdt.harts) - 1
    BY <1>2, Zenon DEF Inv
  <2>2. UnderMonitor(g) => UnderMonitor(g)' /\ harts_states'[1][g] = harts_states[1][g]
    BY <1>1, <1>9, <2>1, Zenon DEF UnderMonitor
  <2> QED
    BY <1>3, <1>9, <2>1, <2>2, Zenon DEF HartInv
<1> QED
  BY <1>7, <1>8, <1>9, Zenon DEF Inv

\* The states of the harts once they exist.
LEMMA StatesAre ==
    ASSUME Inv, harts_states # <<>>
    PROVE  /\ harts_states = <<harts_states[1]>> /\ harts_states[1] \in [0 .. Len(fdt.harts) - 1 -> Area]
           /\ Len(fdt.harts) \in Int /\ memory_layout # <<>> /\ memory_layout[1] \in Layout
           /\ control_data /\ error = "none"
<1>1. fdt.harts \in Seq({"rv64ah", "rv64a", "rv32", "missing"})
  BY BootAssumption, Zenon DEF Inv, Types
<1>2. Len(fdt.harts) \in Int
  BY <1>1
<1> QED
  BY <1>2, Zenon DEF Inv, Statics, GoodLayout

\* One hart's saved mscratch is replaced.
LEMMA StatesStep ==
    ASSUME Inv, harts_states # <<>>, NEW h \in DOMAIN harts_states[1], NEW m \in Scratch,
           harts_states' = [harts_states EXCEPT ![1][h].previous_mscratch = m]
    PROVE  /\ harts_states' = <<harts_states'[1]>> /\ harts_states' # <<>>
           /\ harts_states'[1] \in [0 .. Len(fdt.harts) - 1 -> Area]
           /\ h \in DOMAIN harts_states'[1] /\ harts_states'[1][h].previous_mscratch = m
           /\ \A i \in 0 .. Len(fdt.harts) - 1 :
                 /\ harts_states'[1][i].stack = harts_states[1][i].stack
                 /\ i # h => harts_states'[1][i] = harts_states[1][i]
<1>1. PICK s, t, n : s = harts_states /\ t = harts_states' /\ n = Len(fdt.harts)
  BY Zenon
<1>2. s = <<s[1]>> /\ n \in Int /\ s[1] \in [0 .. n - 1 -> Area] /\ h \in DOMAIN s[1]
  BY <1>1, StatesAre, Zenon
<1>3. t = [s EXCEPT ![1][h].previous_mscratch = m]
  BY <1>1, Zenon
<1>4. /\ t = <<t[1]>> /\ t # <<>> /\ t[1] \in [0 .. n - 1 -> Area]
      /\ t[1][h].previous_mscratch = m
      /\ \A i \in 0 .. n - 1 : /\ t[1][i].stack = s[1][i].stack
                               /\ i # h => t[1][i] = s[1][i]
  <2>1. PICK a : a = s[1]
    BY Zenon
  <2>2. PICK b : b = [a EXCEPT ![h] = [a[h] EXCEPT !.previous_mscratch = m]]
    BY Zenon
  <2>3. t = <<b>>
    <3>1. t = [<<a>> EXCEPT ![1] = b]
      BY <1>2, <1>3, <2>1, <2>2, Zenon
    <3> QED
      BY <3>1, OneElement, Zenon
  <2>4. /\ b \in [0 .. n - 1 -> Area] /\ b[h].previous_mscratch = m
        /\ \A i \in 0 .. n - 1 : b[i].stack = a[i].stack /\ (i # h => b[i] = a[i])
    BY <1>2, <2>1, <2>2, Zenon DEF Area
  <2>5. t[1] = b /\ t # <<>>
    BY <2>3, OneElement, Zenon
  <2> QED
    BY <2>1, <2>3, <2>4, <2>5, Zenon
<1>5. h \in DOMAIN t[1]
  BY <1>2, <1>4, Zenon
<1> QED
  BY <1>1, <1>4, <1>5, Zenon

\* ace_setup_this_hart.
LEMMA SetupStep ==
    ASSUME Inv, NEW h \in Harts, ace_setup_this_hart(h)
    PROVE  Inv'
<1>1. /\ pc[h] = "setup" /\ harts_states # <<>> /\ h \in DOMAIN harts_states[1]
      /\ harts_states' = [harts_states EXCEPT ![1][h].previous_mscratch = mscratch[h]]
      /\ mscratch' = [mscratch EXCEPT ![h] = address(h)] /\ setup(h)
      /\ medeleg' = [medeleg EXCEPT ![h] = FALSE] /\ mtvec' = [mtvec EXCEPT ![h] = "monitor"]
      /\ GoTo(h, "hypervisor") /\ UNCHANGED boot_vars
  BY Zenon DEF ace_setup_this_hart
<1>2. mscratch[h] \in Scratch /\ mscratch[h] = opensbi_scratch(h) /\ address(h) \in Scratch /\ "hypervisor" \in Entered
  BY <1>1, BootAssumption, Zenon DEF Inv, Types, HartInv, address, Scratch, Entered
<1>3. /\ harts_states' = <<harts_states'[1]>> /\ harts_states' # <<>>
      /\ harts_states'[1] \in [0 .. Len(fdt.harts) - 1 -> Area]
      /\ h \in DOMAIN harts_states'[1] /\ harts_states'[1][h].previous_mscratch = mscratch[h]
      /\ \A i \in 0 .. Len(fdt.harts) - 1 :
            /\ harts_states'[1][i].stack = harts_states[1][i].stack
            /\ i # h => harts_states'[1][i] = harts_states[1][i]
  BY <1>1, <1>2, StatesStep, Zenon
<1>4. memory_layout[1] \in Layout
  BY <1>1, StatesAre, Zenon
<1>5. Types'
  BY <1>1, <1>2, <1>4, Zenon DEF Inv, Types, boot_vars, setup, Layout, GoTo, Entered
<1>6. /\ mscratch'[h] = address(h) /\ mtvec'[h] = "monitor" /\ ~medeleg'[h] /\ pc'[h] = "hypervisor"
      /\ pmp'[h].start = memory_layout'[1].confidential_memory_start
      /\ pmp'[h].end = memory_layout'[1].confidential_memory_end /\ ~pmp'[h].rwx
      /\ \A g \in Harts : g # h => /\ mscratch'[g] = mscratch[g] /\ mtvec'[g] = mtvec[g]
                                   /\ medeleg'[g] = medeleg[g] /\ pmp'[g] = pmp[g]
  BY <1>1, Zenon DEF Inv, Types, boot_vars, setup, GoTo
<1>7. HartInv(h)'
  BY <1>2, <1>3, <1>6, Zenon DEF HartInv, UnderMonitor, Booting
<1> QED
  BY <1>1, <1>2, <1>3, <1>5, <1>6, <1>7, HartMoves, Zenon

\* A delegated call enters OpenSBI or returns from it.
LEMMA DelegateStep ==
    ASSUME Inv, NEW h \in Harts, delegate_to_opensbi(h) \/ delegate_to_opensbi_returns(h)
    PROVE  Inv'
<1>1. PICK w : w = IF pc[h] = "hypervisor" THEN "sbi_trap_handler" ELSE "hypervisor"
  BY Zenon
<1>2. /\ pc[h] \in {"hypervisor", "sbi_trap_handler"} /\ UnderMonitor(h) /\ w \in Entered
      /\ harts_states # <<>> /\ h \in DOMAIN harts_states[1]
      /\ pc[h] = "hypervisor" => mscratch[h] = address(h)
  BY <1>1, Zenon DEF delegate_to_opensbi, delegate_to_opensbi_returns, Inv, HartInv, UnderMonitor, Entered
<1>3. swap_mscratch(h, h) /\ GoTo(h, w) /\ UNCHANGED <<boot_vars, mtvec, medeleg, pmp>>
  <2>1. CASE delegate_to_opensbi(h)
    <3>1. pc[h] = "hypervisor" /\ mscratch[h][2] = h
      BY <1>2, <2>1 DEF delegate_to_opensbi, address
    <3> QED
      BY <1>1, <2>1, <3>1, Zenon DEF delegate_to_opensbi
  <2>2. CASE delegate_to_opensbi_returns(h)
    BY <1>1, <2>2, Zenon DEF delegate_to_opensbi_returns
  <2> QED
    BY <2>1, <2>2, Zenon
<1>4. PICK m, p : m = mscratch[h] /\ p = harts_states[1][h].previous_mscratch
  BY Zenon
<1>5. /\ m \in Scratch /\ p \in Scratch
      /\ mscratch' = [mscratch EXCEPT ![h] = p]
      /\ harts_states' = [harts_states EXCEPT ![1][h].previous_mscratch = m]
  <2>1. m \in Scratch
    BY <1>4, Zenon DEF Inv, Types
  <2>2. p \in Scratch
    BY <1>2, <1>4, StatesAre, Zenon DEF Area
  <2> QED
    BY <1>3, <1>4, <2>1, <2>2, Zenon DEF swap_mscratch
<1>6. /\ harts_states' = <<harts_states'[1]>> /\ harts_states' # <<>>
      /\ harts_states'[1] \in [0 .. Len(fdt.harts) - 1 -> Area]
      /\ h \in DOMAIN harts_states'[1] /\ harts_states'[1][h].previous_mscratch = m
      /\ \A i \in 0 .. Len(fdt.harts) - 1 :
            /\ harts_states'[1][i].stack = harts_states[1][i].stack
            /\ i # h => harts_states'[1][i] = harts_states[1][i]
  BY <1>2, <1>5, StatesStep, Zenon
<1>7. /\ Types' /\ mscratch'[h] = p /\ pc'[h] = w /\ memory_layout' = memory_layout
      /\ mtvec' = mtvec /\ medeleg' = medeleg /\ pmp' = pmp
      /\ \A g \in Harts : g # h => mscratch'[g] = mscratch[g]
  BY <1>2, <1>3, <1>5, Zenon DEF Inv, Types, boot_vars, GoTo
<1>8. UnderMonitor(h)'
  BY <1>2, <1>6, <1>7, Zenon DEF UnderMonitor
<1>9. IF w = "hypervisor" THEN p = address(h) /\ m = opensbi_scratch(h)
      ELSE w = "sbi_trap_handler" /\ p = opensbi_scratch(h) /\ m = address(h)
  BY <1>1, <1>2, <1>4, Zenon DEF Inv, HartInv, Booting
<1>10. HartInv(h)'
  BY <1>6, <1>7, <1>8, <1>9, Zenon DEF HartInv, Booting
<1> QED
  BY <1>2, <1>3, <1>6, <1>7, <1>10, HartMoves, Zenon

\* A panic, and a hart that the firmware starts over.
LEMMA RestartStep ==
    ASSUME Inv, NEW h \in Harts, ace_setup_this_hart_panics(h) \/ firmware_restarts_hart(h)
    PROVE  Inv'
<1>1. PICK w \in {"panic", "setup"} : GoTo(h, w) /\ (w = "setup" => mscratch' = [mscratch EXCEPT ![h] = opensbi_scratch(h)])
  BY Zenon DEF ace_setup_this_hart_panics, firmware_restarts_hart
<1>2. UNCHANGED boot_vars /\ harts_states' = harts_states /\ harts_states # <<>> /\ pmp' = pmp
  BY Zenon DEF ace_setup_this_hart_panics, firmware_restarts_hart, registers, Inv, HartInv, UnderMonitor
<1>3. /\ mscratch' = mscratch \/ mscratch' = [mscratch EXCEPT ![h] = opensbi_scratch(h)]
      /\ mtvec' = mtvec \/ mtvec' = [mtvec EXCEPT ![h] = "opensbi"]
      /\ medeleg' = medeleg \/ medeleg' = [medeleg EXCEPT ![h] = TRUE]
  BY Zenon DEF ace_setup_this_hart_panics, firmware_restarts_hart, registers
<1>4. opensbi_scratch(h) \in Scratch
  BY BootAssumption, Zenon DEF opensbi_scratch, Scratch
<1>5. /\ Types' /\ pc'[h] = w /\ w \in Entered
      /\ \A g \in Harts : g # h => /\ mscratch'[g] = mscratch[g] /\ mtvec'[g] = mtvec[g]
                                   /\ medeleg'[g] = medeleg[g] /\ pmp'[g] = pmp[g]
  <2>1. /\ pc' \in [Harts -> Booting \cup Entered] /\ pc'[h] = w /\ w \in Entered
        /\ mscratch' \in [Harts -> Scratch] /\ \A g \in Harts : g # h => mscratch'[g] = mscratch[g]
    BY <1>1, <1>3, <1>4 DEF Inv, Types, GoTo, Entered
  <2>2. /\ mtvec' \in [Harts -> {"opensbi", "monitor"}] /\ medeleg' \in [Harts -> BOOLEAN]
        /\ \A g \in Harts : g # h => mtvec'[g] = mtvec[g] /\ medeleg'[g] = medeleg[g]
    BY <1>3, Zenon DEF Inv, Types
  <2> QED
    BY <1>2, <2>1, <2>2, Zenon DEF Inv, Types, boot_vars
<1>6. HartInv(h)'
  BY <1>1, <1>5, Zenon DEF HartInv, Booting, Inv, Types
<1>7. harts_states' = <<harts_states'[1]>> /\ harts_states'[1] \in [0 .. Len(fdt.harts) - 1 -> Area]
  BY <1>2, StatesAre, Zenon
<1> QED
  BY <1>1, <1>2, <1>5, <1>6, <1>7, HartMoves, Zenon

\* Every step of the boot hart, of the other harts and of the firmware keeps it.
LEMMA NextInv == Inv /\ [Next]_vars => Inv'
<1> SUFFICES ASSUME Inv, [Next]_vars PROVE Inv'
  BY Zenon
<1>1. CASE UNCHANGED vars
  <2>1. Statics'
    BY <1>1, StaticsStay, Zenon DEF Inv, vars, boot_vars
  <2>2. ASSUME NEW h \in Harts PROVE HartInv(h)'
    BY <1>1, Zenon DEF Inv, HartInv, UnderMonitor, vars, boot_vars, registers
  <2> QED
    BY <1>1, <2>1, <2>2, Zenon DEF Inv, Types, BootStage, vars, boot_vars, registers
<1> QED
  BY <1>1, LayoutStep, StateStep, VerifyStep, PrepareStep, SetupStep, DelegateStep, RestartStep, Zenon
     DEF Next, BootStep

-----------------------------------------------------------------------------
(* What the invariant says of the memory                                   *)

\* No page shared with the hypervisor reaches into the confidential memory.
LEMMA SharedPagesStay ==
    ASSUME NEW l, GoodLayout(l), NEW p \in SharedPages(l)
    PROVE  p .. p + PageBytes - 1 \subseteq fdt.base .. fdt.base + fdt.size - 1
<1>1. PICK end : end = l.non_confidential_memory_end
  BY Zenon
<1>2. /\ p \in Pointers /\ p \in Nat /\ end \in Pointers /\ PageBytes - 1 \in Nat /\ AddressSpace \in Nat
      /\ fdt.base \in Nat /\ fdt.size \in Nat /\ end = fdt.base + fdt.size /\ fdt.base <= p
  BY <1>1, AddressAssumption DEF SharedPages, GoodLayout, Layout, is_in_non_confidential_range, Pointers
<1>3. ptr_byte_add_mut(p, PageBytes - 1, end) # Error
  BY <1>1, Zenon DEF SharedPages, non_confidential_address_at_offset
<1>4. PageBytes - 1 <= AddressSpace
  BY <1>2, PageFits, AddressAssumption
<1>5. p + (PageBytes - 1) < end
  BY <1>2, <1>3, <1>4, AddStays, Zenon
<1> QED
  BY <1>2, <1>5, AddressAssumption

\* clear_confidential_memory reaches every word of the confidential memory.
LEMMA AllWordsAreCleared ==
    ASSUME NEW l, GoodLayout(l)
    PROVE  ClearedWords(l) = {p \in Confidential(l) : p % WordBytes = 0}
<1>1. PICK s, e : s = l.confidential_memory_start /\ e = l.confidential_memory_end
  BY Zenon
<1>2. /\ s \in Pointers /\ e \in Pointers /\ s \in Nat /\ e \in Nat /\ s <= e /\ e < AddressSpace
      /\ WordBytes \in Nat \ {0} /\ AddressSpace \in Nat
  BY <1>1, AddressAssumption DEF GoodLayout, Layout, Pointers
<1>3. s % WordBytes = 0
  <2>1. s % PageBytes = 0 /\ PageBytes % WordBytes = 0 /\ PageBytes \in Nat \ {0} /\ s \in Int
    BY <1>1, <1>2, AddressAssumption DEF GoodLayout
  <2> QED
    BY <1>2, <2>1, MultipleOfMultiple, Zenon
<1>4. ASSUME NEW n \in 0 .. e - s - 1
      PROVE  ptr_byte_add_mut(s, n, e) = s + n /\ (n % WordBytes = 0 <=> (s + n) % WordBytes = 0)
  <2>1. n \in Nat /\ n <= AddressSpace /\ s + n < e /\ n \in Int /\ s \in Int /\ s + n \in Int
    BY <1>2
  <2>2. ptr_byte_add_mut(s, n, e) = s + n
    BY <1>2, <2>1, AddStays, Zenon
  <2>3. n % WordBytes = 0 => (s + n) % WordBytes = 0
    BY <1>2, <1>3, <2>1, SumMultiples, Zenon
  <2>4. ASSUME (s + n) % WordBytes = 0 PROVE n % WordBytes = 0
    <3>1. PICK x \in Int : x = s + n
      BY <2>1, Zenon
    <3>2. (x - s) % WordBytes = 0
      BY <1>2, <1>3, <2>1, <2>4, <3>1, SumMultiples, Zenon
    <3>3. x - s = n
      BY <2>1, <3>1
    <3> QED
      BY <3>2, <3>3, Zenon
  <2> QED
    BY <2>2, <2>3, <2>4, Zenon
<1>5. ClearedWords(l) = {ptr_byte_add_mut(s, n, e) : n \in {m \in 0 .. e - s - 1 : m % WordBytes = 0}}
  BY <1>1, Zenon DEF ClearedWords
<1>6. Confidential(l) = s .. e - 1
  BY <1>1, Zenon DEF Confidential
<1>7. ASSUME NEW p \in ClearedWords(l) PROVE p \in s .. e - 1 /\ p % WordBytes = 0
  <2>1. PICK n \in 0 .. e - s - 1 : n % WordBytes = 0 /\ p = ptr_byte_add_mut(s, n, e)
    BY <1>5, Zenon
  <2>2. p = s + n /\ p % WordBytes = 0
    BY <1>4, <2>1, Zenon
  <2> QED
    BY <1>2, <2>2
<1>8. ASSUME NEW p \in s .. e - 1, p % WordBytes = 0 PROVE p \in ClearedWords(l)
  <2>1. PICK n \in 0 .. e - s - 1 : p = s + n
    <3>1. p - s \in 0 .. e - s - 1 /\ p = s + (p - s)
      BY <1>2
    <3> QED
      BY <3>1, Zenon
  <2>2. n % WordBytes = 0 /\ p = ptr_byte_add_mut(s, n, e)
    BY <1>4, <1>8, <2>1, Zenon
  <2> QED
    BY <1>5, <2>2, Zenon
<1> QED
  BY <1>6, <1>7, <1>8, Zenon

\* Distinct stacks are distinct pages inside the region of the allocator.
LEMMA StacksStay ==
    ASSUME Inv, harts_states # <<>>, NEW a \in DOMAIN harts_states[1], NEW b \in DOMAIN harts_states[1]
    PROVE  LET Stack(x) == harts_states[1][x].stack .. harts_states[1][x].stack + StackBytes - 1 IN
           /\ Stack(a) \subseteq Bytes(page_allocator[1])
           /\ a # b => Stack(a) \cap Stack(b) = {}
<1>1. PICK p, q, s, e : /\ p = harts_states[1][a].stack /\ q = harts_states[1][b].stack
                        /\ s = page_allocator[1].start /\ e = page_allocator[1].end
  BY Zenon
<1>2. GoodStacks(harts_states[1]) /\ GoodRegions /\ StackBytes \in Nat \ {0} /\ AddressSpace \in Nat
  BY BootAssumption, AddressAssumption, Zenon DEF Inv, Statics
<1>3. /\ p \in Pointers /\ q \in Pointers /\ p % StackBytes = 0 /\ q % StackBytes = 0
      /\ s <= p /\ p + StackBytes <= e
      /\ a # b => p # q
  BY <1>1, <1>2, Zenon DEF GoodStacks, StackPages
<1>4. p \in Int /\ q \in Int /\ s \in Int /\ e \in Int
  BY <1>1, <1>2, <1>3 DEF Pointers, GoodRegions, Regions
<1>5. p .. p + StackBytes - 1 \subseteq s .. e - 1
  BY <1>2, <1>3, <1>4
<1>6. ASSUME a # b PROVE (p .. p + StackBytes - 1) \cap (q .. q + StackBytes - 1) = {}
  <2>1. p # q
    BY <1>3, <1>6, Zenon
  <2>2. CASE p < q
    <3>1. p + StackBytes <= q
      BY <1>2, <1>3, <1>4, <2>2, MultiplesApart, Zenon
    <3> QED
      BY <1>2, <1>4, <3>1
  <2>3. CASE q < p
    <3>1. q + StackBytes <= p
      BY <1>2, <1>3, <1>4, <2>3, MultiplesApart, Zenon
    <3> QED
      BY <1>2, <1>4, <3>1
  <2> QED
    BY <1>4, <2>1, <2>2, <2>3
<1> QED
  BY <1>1, <1>5, <1>6, Zenon DEF Bytes

\* The invariant implies that the memory is split as MemoryLayout promises.
LEMMA InvPartition == Inv => ConfidentialMemoryIsPartitioned
<1> SUFFICES ASSUME Inv, NEW i \in DOMAIN memory_layout
             PROVE  LET l == memory_layout[i] IN
       /\ l.confidential_memory_start % PageBytes = 0 /\ l.confidential_memory_end % PageBytes = 0
       /\ Confidential(l) \subseteq fdt.base + fdt.size .. fdt.base + 2 * fdt.size - 1
       /\ \A p \in SharedPages(l) : p .. p + PageBytes - 1 \subseteq fdt.base .. fdt.base + fdt.size - 1
       /\ ClearedWords(l) = {p \in Confidential(l) : p % WordBytes = 0}
       /\ \A j \in DOMAIN heap :
             /\ Bytes(heap[j]) \cap Bytes(page_allocator[j]) = {}
             /\ Bytes(heap[j]) \cup Bytes(page_allocator[j]) = Confidential(l)
       /\ \A j \in DOMAIN harts_states : \A a, b \in DOMAIN harts_states[j] :
             LET Stack(x) == harts_states[j][x].stack .. harts_states[j][x].stack + StackBytes - 1 IN
             /\ Stack(a) \subseteq Bytes(page_allocator[1])
             /\ a # b => Stack(a) \cap Stack(b) = {}
  BY Zenon DEF ConfidentialMemoryIsPartitioned
<1>1. PICK l : l = memory_layout[i]
  BY Zenon
<1>2. i = 1 /\ l = memory_layout[1] /\ GoodLayout(l)
  BY <1>1, OneElement DEF Inv, Statics
<1>3. l.confidential_memory_start % PageBytes = 0 /\ l.confidential_memory_end % PageBytes = 0
  BY <1>2, Zenon DEF GoodLayout
<1>4. PICK s, e : s = l.confidential_memory_start /\ e = l.confidential_memory_end
  BY Zenon
<1>5. s \in Int /\ e \in Int /\ s <= e /\ fdt.base + fdt.size <= s /\ e <= fdt.base + 2 * fdt.size
      /\ fdt.base \in Nat /\ fdt.size \in Nat
  BY <1>2, <1>4, AddressAssumption DEF GoodLayout, Layout, Pointers
<1>6. Confidential(l) = s .. e - 1
  BY <1>4, Zenon DEF Confidential
<1>7. Confidential(l) \subseteq fdt.base + fdt.size .. fdt.base + 2 * fdt.size - 1
  BY <1>5, <1>6
<1>8. ASSUME NEW j \in DOMAIN heap
      PROVE  /\ Bytes(heap[j]) \cap Bytes(page_allocator[j]) = {}
             /\ Bytes(heap[j]) \cup Bytes(page_allocator[j]) = Confidential(l)
  <2>1. j = 1 /\ GoodRegions
    BY OneElement DEF Inv, Statics
  <2>2. PICK m : m = heap[1].end
    BY Zenon
  <2>3. /\ Bytes(heap[j]) = s .. m - 1 /\ Bytes(page_allocator[j]) = m .. e - 1
        /\ s <= m /\ m <= e /\ m \in Int
    BY <1>2, <1>4, <2>1, <2>2, AddressAssumption DEF GoodRegions, Regions, Bytes, Pointers
  <2> QED
    BY <1>5, <1>6, <2>3, SMTT(60)
<1>9. ASSUME NEW j \in DOMAIN harts_states PROVE j = 1 /\ harts_states # <<>>
  BY OneElement DEF Inv, Statics
<1>10. \A j \in DOMAIN harts_states : \A a, b \in DOMAIN harts_states[j] :
             LET Stack(x) == harts_states[j][x].stack .. harts_states[j][x].stack + StackBytes - 1 IN
             /\ Stack(a) \subseteq Bytes(page_allocator[1])
             /\ a # b => Stack(a) \cap Stack(b) = {}
  BY <1>9, StacksStay, Zenon
<1> QED
  BY <1>1, <1>2, <1>3, <1>7, <1>8, <1>10, SharedPagesStay, AllWordsAreCleared, Zenon

-----------------------------------------------------------------------------
(* Theorems                                                                *)

\* The invariant of the boot holds for every device tree, readable or not, and any
\* interleaving of the harts.
THEOREM Invariance == Spec => []Inv
<1> QED
  BY InitInv, NextInv, PTL DEF Spec

\* The statics hold at most one value each and the registers keep their types.
THEOREM TypeCorrectness == Spec => []TypeOK
<1>1. Inv => TypeOK
  BY OneElement DEF Inv, Types, Statics, GoodLayout, GoodRegions, TypeOK, Booting, Entered
<1> QED
  BY <1>1, Invariance, PTL

\* For every device tree, page size and number of harts, the boot splits the memory into
\* ordinary memory, heap, page allocator and stacks that do not overlap, and what the
\* monitor later computes with the layout (share_page_with_hypervisor's check,
\* clear_confidential_memory) respects that split.
THEOREM PartitionSafety == Spec => []ConfidentialMemoryIsPartitioned
BY InvPartition, Invariance, PTL

\* A hart executes the hypervisor only after ace_setup_this_hart put it under the monitor:
\* its traps enter the monitor with its own HardwareHart, the PMP closes the confidential
\* memory, and OpenSBI gets its own mscratch back whenever it runs, restarts included.
THEOREM TrapSafety == Spec => []HypervisorTrapsIntoMonitor
<1>1. Inv => HypervisorTrapsIntoMonitor
  <2> SUFFICES ASSUME Inv, NEW h \in Harts
               PROVE  /\ pc[h] = "hypervisor" =>
                            /\ mtvec[h] = "monitor" /\ ~medeleg[h]
                            /\ mscratch[h] = address(h)
                            /\ harts_states[1][h].previous_mscratch = opensbi_scratch(h)
                            /\ control_data /\ error = "none"
                            /\ pmp[h].start = memory_layout[1].confidential_memory_start
                            /\ pmp[h].end = memory_layout[1].confidential_memory_end
                            /\ ~pmp[h].rwx
                      /\ pc[h] \in {"setup", "sbi_trap_handler"} => mscratch[h] = opensbi_scratch(h)
    BY Zenon DEF HypervisorTrapsIntoMonitor
  <2>1. HartInv(h)
    BY Zenon DEF Inv
  <2>2. pc[h] = "hypervisor" => UnderMonitor(h) /\ harts_states # <<>>
    BY <2>1, Zenon DEF HartInv, UnderMonitor
  <2> QED
    BY <2>1, <2>2, StatesAre, Zenon DEF HartInv, UnderMonitor
<1> QED
  BY <1>1, Invariance, PTL
=============================================================================
