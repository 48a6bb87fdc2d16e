----------------------------- MODULE PageFrames ------------------------------
(***************************************************************************)
(* The page frame allocator (src/page_frame_allocator.rs): an arena with a *)
(* bitmap over each range of usable memory.                                *)
(*                                                                         *)
(* alloc_frame is called by whoever builds page tables or stacks, and      *)
(* free_frame with any address at all; neither before init, where both     *)
(* unwrap a None.                                                          *)
(***************************************************************************)
EXTENDS Pages, Bitmap

CONSTANTS Usable,      \* what usable_memory_ranges may return: range sequences
          FreeArgs     \* addresses passed to free_frame

(* usable_memory_ranges returns complete pages, in ascending order.        *)
ASSUME UsableAssumption ==
  \A u \in Usable :
    /\ u \in Seq([start : Nat, end : Nat])
    /\ \A k \in 1 .. Len(u) :
         PageAligned(u[k].start) /\ PageAligned(u[k].end) /\ u[k].start < u[k].end
    /\ \A j, k \in 1 .. Len(u) : j < k => u[j].end <= u[k].start

ASSUME FreeArgsAssumption == FreeArgs \subseteq Nat

VARIABLES ready,   \* init has run
          arenas,  \* PageFrameAllocator::arenas: range and used bits
          held     \* history: the frames handed out and not freed since

frame_vars == <<ready, arenas, held>>
------------------------------------------------------------------------------
NumPages(r) == (r.end - r.start) \div PAGE_SIZE
EmptyBitmap(r) == new(NumPages(r))
Arena(r) == [start |-> r.start, end |-> r.end, used |-> EmptyBitmap(r)]
Bits(a) == 0 .. a.used.len - 1
Frame(a, i) == a.start + i * PAGE_SIZE
contains(a, addr) == a.start <= addr /\ addr < a.end
IndexOf(a, addr) == (addr - a.start) \div PAGE_SIZE
------------------------------------------------------------------------------
(* A second init only logs an error.                                       *)
init(u) ==
  /\ ready' = TRUE
  /\ arenas' = IF ready THEN arenas ELSE [k \in 1 .. Len(u) |-> Arena(u[k])]
  /\ UNCHANGED held

(* The first free frame of the first arena that has one.                   *)
IsNextFree(as, k, i) ==
  /\ finds_free(as[k].used, i)
  /\ \A j \in 1 .. k - 1 : finds_none(as[j].used)

SetBit_forgotten(as, k, i) == as
SetBit(as, k, i) == [as EXCEPT ![k].used = set(@, i)]

alloc_frame(f) ==
  /\ ready
  /\ \E k \in 1 .. Len(arenas) : \E i \in Bits(arenas[k]) :
       /\ IsNextFree(arenas, k, i)
       /\ f = Frame(arenas[k], i)
       /\ arenas' = SetBit(arenas, k, i)
  /\ held' = held \cup {f}
  /\ UNCHANGED ready

(* None, for the caller to unwrap.                                         *)
OutOfFrames == ready /\ \A k \in 1 .. Len(arenas) : finds_none(arenas[k].used)
alloc_none == OutOfFrames /\ UNCHANGED frame_vars

IsArenaOf(k, addr) ==
  contains(arenas[k], addr) /\ \A j \in 1 .. k - 1 : ~ contains(arenas[j], addr)

Freeable_unaligned(k, addr) ==
  IsArenaOf(k, addr) /\ is_set(arenas[k].used, IndexOf(arenas[k], addr))
Freeable(k, addr) ==
  /\ IsArenaOf(k, addr)
  /\ PageAligned(addr)
  /\ is_set(arenas[k].used, IndexOf(arenas[k], addr))

free_frame(addr) ==
  /\ ready
  /\ \E k \in 1 .. Len(arenas) :
       /\ Freeable(k, addr)
       /\ arenas' = [arenas EXCEPT ![k].used = unset(@, IndexOf(arenas[k], addr))]
  /\ held' = held \ {addr}
  /\ UNCHANGED ready

(* free logs an error and returns false.                                   *)
free_refused(addr) ==
  /\ ready /\ \A k \in 1 .. Len(arenas) : ~ Freeable(k, addr)
  /\ UNCHANGED frame_vars
------------------------------------------------------------------------------
Init == ready = FALSE /\ arenas = << >> /\ held = {}

Managed(a) == {Frame(a, i) : i \in Bits(a)}
Frames == UNION {Managed(arenas[k]) : k \in 1 .. Len(arenas)}

Next == \/ \E u \in Usable : init(u)
        \/ \E f \in Frames : alloc_frame(f)
        \/ alloc_none
        \/ \E addr \in FreeArgs : free_frame(addr) \/ free_refused(addr)

Spec == Init /\ [][Next]_frame_vars
------------------------------------------------------------------------------
(* A bit of an arena's bitmap belongs to a page of the arena, so that no   *)
(* frame lies outside of it (FrameArena::new sizes the bitmap).            *)
TypeOK == /\ ready \in BOOLEAN
          /\ arenas \in Seq([start : Nat, end : Nat, used : Bitmaps])
          /\ \A k \in 1 .. Len(arenas) : \A i \in Bits(arenas[k]) :
               Frame(arenas[k], i) + PAGE_SIZE <= arenas[k].end
          /\ held \subseteq Nat

InUse(a) == {Frame(a, i) : i \in Ones(a.used)}

(* The bitmaps say exactly who holds what: a frame's bit is set as long as *)
(* the frame is handed out, and no stray free clears the bit of another    *)
(* frame.                                                                  *)
BitsMatchHeld ==
  held = UNION {InUse(arenas[k]) : k \in 1 .. Len(arenas)}

(* alloc_frame never returns a frame that somebody still holds, whichever  *)
(* arena it comes from.                                                    *)
FreshFrames == [][\A f \in Frames : alloc_frame(f) => f \notin held]_frame_vars
==============================================================================
