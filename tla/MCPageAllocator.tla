--------------------------- MODULE MCPageAllocator ---------------------------
(* Instances of PageAllocator for TLC: page sizes of 1, 2 and 4 frames. *)
EXTENDS PageAllocator, TLC

MCInBytes == 0 :> 1 @@ 1 :> 2 @@ 2 :> 4
=============================================================================
