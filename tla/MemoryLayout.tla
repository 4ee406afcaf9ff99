---------------------------- MODULE MemoryLayout ----------------------------
(***************************************************************************)
(* The address arithmetic of the security monitor: the pointer helpers of  *)
(* rust-crates/pointers_utility and core/memory_layout, which splits the   *)
(* physical memory and keeps every address inside its part.  A pointer is  *)
(* a number below AddressSpace; usize arithmetic that does not ask for     *)
(* wrapping panics when it overflows (overflow-checks in Cargo.toml).      *)
(***************************************************************************)
EXTENDS Integers

CONSTANTS
    AddressSpace,   \* 2^64
    PageBytes,      \* PageSize::smallest().in_bytes()
    WordBytes       \* size_of::<usize>()

ASSUME AddressAssumption ==
    /\ AddressSpace \in Nat /\ PageBytes \in Nat \ {0} /\ WordBytes \in Nat \ {0}
    /\ PageBytes % WordBytes = 0 /\ AddressSpace % (2 * PageBytes) = 0

Pointers == 0 .. AddressSpace - 1

\* What a computation returns besides a pointer.
Error == -1
Panic == -2

isize(p) == IF p < AddressSpace \div 2 THEN p ELSE p - AddressSpace

\* The subtraction of two isize values, which panics when it overflows.
ptr_byte_offset(p, q) ==
    LET d == isize(p) - isize(q)
    IN [panics |-> d \notin -(AddressSpace \div 2) .. (AddressSpace \div 2) - 1, value |-> d]

\* Faulty variant: the sum is not cut to the width of a pointer.
wrapping_byte_add_Unbounded(p, n) == p + n

wrapping_byte_add(p, n) == (p + n) % AddressSpace

\* Faulty variant: the one-past-the-end address is accepted.
ptr_byte_add_mut_Inclusive(p, n, end) ==
    LET q == wrapping_byte_add(p, n)
    IN IF q > end \/ (n > 0 /\ q <= p) THEN Error ELSE q

ptr_byte_add_mut(p, n, end) ==
    LET q == wrapping_byte_add(p, n)
    IN IF q >= end \/ (n > 0 /\ q <= p) THEN Error ELSE q

\* Faulty variant: a pointer that is aligned already moves to the next page.
ptr_align_Next(p, align, end) ==
    IF p % WordBytes # 0 THEN Panic ELSE ptr_byte_add_mut(p, align - (p % align), end)

\* align_offset counts words, and answers usize::MAX when no number of words
\* aligns the pointer; the multiplication that follows then overflows.
ptr_align(p, align, end) ==
    IF p % WordBytes # 0 THEN Panic ELSE ptr_byte_add_mut(p, (-p) % align, end)

-----------------------------------------------------------------------------
(* MemoryLayout                                                            *)

Layout == [non_confidential_memory_start : Pointers, non_confidential_memory_end : Pointers,
           confidential_memory_start : Pointers, confidential_memory_end : Pointers]

Failed(outcome) == [outcome |-> outcome]

\* The end is moved down to the last whole page behind the aligned start, which
\* lies before it, so the addition cannot fail.
LayoutFrom(nc_start, nc_end, start, end) ==
    LET size == ptr_byte_offset(end, start)
        whole == (size.value \div PageBytes) * PageBytes
    IN IF size.panics THEN Failed("panic")
       ELSE [outcome |-> "ok",
             layout |-> [non_confidential_memory_start |-> nc_start,
                         non_confidential_memory_end |-> nc_end,
                         confidential_memory_start |-> start,
                         confidential_memory_end |->
                             IF size.value > whole THEN ptr_byte_add_mut(start, whole, end)
                                                   ELSE end]]

MemoryLayout_init(nc_start, nc_end, c_start, c_end) ==
    LET start == ptr_align(c_start, PageBytes, c_end)
    IN CASE ~(nc_start < nc_end /\ nc_end <= c_start /\ c_start < c_end) -> Failed("panic")
         [] start = Panic -> Failed("panic")
         [] start = Error -> Failed("NotEnoughMemory")
         [] OTHER -> LayoutFrom(nc_start, nc_end, start, c_end)

confidential_address_at_offset(l, p, n) == ptr_byte_add_mut(p, n, l.confidential_memory_end)

non_confidential_address_at_offset(l, p, n) == ptr_byte_add_mut(p, n, l.non_confidential_memory_end)

is_in_non_confidential_range(l, p) ==
    l.non_confidential_memory_start <= p /\ p < l.non_confidential_memory_end

\* The addresses SharedPage::new accepts: the first and the last byte of the
\* page are looked at.
SharedPages(l) ==
    {p \in Pointers : /\ is_in_non_confidential_range(l, p)
                      /\ non_confidential_address_at_offset(l, p, PageBytes - 1) # Error}

\* The words clear_confidential_memory writes.
ClearedWords(l) ==
    LET offsets == {n \in 0 .. l.confidential_memory_end - l.confidential_memory_start - 1 :
                       n % WordBytes = 0}
    IN {ptr_byte_add_mut(l.confidential_memory_start, n, l.confidential_memory_end) : n \in offsets}
=============================================================================
