--------------------------- MODULE MCHeapAllocator ---------------------------
(* Instances of HeapAllocator for TLC: words of two bytes, so that a layout *)
(* can be smaller than a word, than a node, and unaligned.                  *)
EXTENDS HeapAllocator

MCLayouts == {[size |-> 1, align |-> 1], [size |-> 3, align |-> 8],
              [size |-> 5, align |-> 2], [size |-> 6, align |-> 4]}
=============================================================================
