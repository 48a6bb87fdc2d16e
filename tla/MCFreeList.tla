----------------------------- MODULE MCFreeList -----------------------------
(***************************************************************************)
(* A heap of 200 bytes that starts at an unaligned address, with requests  *)
(* that need padding, requests that are rounded up, and one whose          *)
(* alignment leaves a usable block on its left.                            *)
(***************************************************************************)
EXTENDS FreeListAllocator

MCLayouts == { [size |-> 1,  align |-> 1],
               [size |-> 20, align |-> 8],
               [size |-> 8,  align |-> 64] }
=============================================================================
