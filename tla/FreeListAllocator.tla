-------------------------- MODULE FreeListAllocator --------------------------
(***************************************************************************)
(* The kernel heap: the first-fit free list of allocator/src/lib.rs.       *)
(*                                                                         *)
(* The intrusive linked list (head plus the next pointers stored inside    *)
(* the free blocks) is the sequence `free`, in LIST order: nothing here    *)
(* assumes that this is address order, which is one of the results.  The   *)
(* AllocationMetaData records that lie in front of the pointers handed out *)
(* are the start_addr and size fields of the elements of `live`.  Because  *)
(* headers and metadata live inside the heap itself, keeping them in       *)
(* variables of their own is only right if no two owners ever share a byte *)
(* (NoOverlap) and every header fits its block (HeadersFit).               *)
(*                                                                         *)
(* Addresses are byte addresses.  The callers are the users of             *)
(* GlobalAlloc: they ask for non-empty layouts and free each pointer once. *)
(***************************************************************************)
EXTENDS Integers, Sequences

CONSTANTS HeapStart,   \* HeapBounds.start, any address
          HeapEnd,     \* HeapBounds.end, one past the heap
          Layouts      \* the core::alloc::Layout values callers ask for

MinAlign == 8           \* AlignedPtr::MIN_ALIGN
SizeOfFreeBlock == 24   \* usize + Option of a raw pointer, which has no niche
SizeOfMetaData == 16    \* two usize

ASSUME HeapAssumption ==
  /\ HeapStart \in Nat
  /\ HeapEnd \in Nat
  /\ HeapEnd - HeapStart >= 2 * SizeOfFreeBlock

(* Layout promises a power of two; the argument only needs that an         *)
(* alignment above 8 is a multiple of 8.  A zero size is not a legal       *)
(* request to GlobalAlloc.                                                 *)
ASSUME LayoutsAssumption ==
  \A l \in Layouts : /\ l \in [size : Nat \ {0}, align : Nat \ {0}]
                     /\ l.align \in {1, 2, 4} \/ l.align % MinAlign = 0

VARIABLES free,   \* Seq([addr, size]): the list that starts at `head`
          live    \* the allocations handed out and not yet freed

vars == <<free, live>>

Block == [addr : Nat, size : Nat]
Allocation == [ptr : Nat, size : Nat, align : Nat, start_addr : Nat, len : Nat]
------------------------------------------------------------------------------
align_up(addr, align) == ((addr + align - 1) \div align) * align

AtLeast(n, m) == IF n >= m THEN n ELSE m

End(b) == b.addr + b.size

(* s with its elements i .. j replaced by the sequence r: every update of  *)
(* the list unlinks a run of neighbours (perhaps none) and links r there.  *)
Splice(s, i, j, r) ==
  LET shift == Len(r) - (j - i + 1)
  IN  [k \in 1 .. Len(s) + shift |-> IF k < i THEN s[k]
                                     ELSE IF k < i + Len(r) THEN r[k - i + 1]
                                     ELSE s[k - shift]]

total_size == HeapEnd - HeapStart - SizeOfFreeBlock

HeapBlock == [addr |-> align_up(HeapStart, MinAlign), size |-> total_size]

------------------------------------------------------------------------------
(* The address FreeBlock::can_allocate proposes in block b.                *)
AllocAddr(b, align) == align_up(b.addr + SizeOfMetaData, align)

can_allocate_forgets_metadata(b, align, size) ==
  End(b) >= align_up(b.addr, align) + size

can_allocate_ignores_padding(b, align, size) ==
  b.size >= SizeOfMetaData + size

can_allocate(b, align, size) == End(b) >= AllocAddr(b, align) + size

required_size_too_small == 8

required_size == SizeOfFreeBlock

(* What is left of block b on either side of an allocation at p that needs *)
(* `size` bytes is a block of its own when a FreeBlock fits there, and     *)
(* otherwise becomes part of the allocation.                               *)
BytesLeft(b, p) == (p - SizeOfMetaData) - b.addr
BytesRight(b, p, size) == End(b) - (p + size)

LeftBlockOverMetaData(b, p) ==
  IF BytesLeft(b, p) >= required_size
  THEN << [addr |-> b.addr, size |-> p - b.addr] >> ELSE << >>

LeftBlock(b, p) ==
  IF BytesLeft(b, p) >= required_size
  THEN << [addr |-> b.addr, size |-> BytesLeft(b, p)] >> ELSE << >>

RightBlock(b, p, size) ==
  IF BytesRight(b, p, size) >= required_size
  THEN << [addr |-> p + size, size |-> BytesRight(b, p, size)] >> ELSE << >>

AllocStartSkipsPadding(b, p) == p - SizeOfMetaData

AllocStart(b, p) ==
  IF BytesLeft(b, p) >= required_size THEN b.addr + BytesLeft(b, p) ELSE b.addr

AllocEndKeepsSlack(b, p, size) == p + size

AllocEnd(b, p, size) ==
  IF BytesRight(b, p, size) >= required_size THEN p + size ELSE End(b)

RequestSize(l) == align_up(l.size, 8)
RequestAlign(l) == AtLeast(l.align, MinAlign)

Fits(l, i) == can_allocate(free[i], RequestAlign(l), RequestSize(l))

(* walk_list stops at the first block that fits. *)
Alloc(l) ==
  \E i \in 1 .. Len(free) :
    /\ Fits(l, i)
    /\ \A k \in 1 .. i - 1 : ~ Fits(l, k)
    /\ LET b == free[i]
           p == AllocAddr(b, RequestAlign(l))
           n == RequestSize(l)
       IN  /\ free' = Splice(free, i, i, LeftBlock(b, p) \o RightBlock(b, p, n))
           /\ live' = live \cup
                {[ptr |-> p, size |-> l.size, align |-> l.align,
                  start_addr |-> AllocStart(b, p),
                  len |-> AllocEnd(b, p, n) - AllocStart(b, p)]}

(* No block fits: alloc returns a null pointer and changes nothing.        *)
AllocOutOfMemory(l) ==
  /\ \A i \in 1 .. Len(free) : ~ Fits(l, i)
  /\ UNCHANGED vars
------------------------------------------------------------------------------
(* The memory of allocation a, padding and metadata included, as the block *)
(* that dealloc rebuilds from the metadata.                                *)
Extent(a) == [addr |-> a.start_addr, size |-> a.len]

Touches(b, c) == End(b) = c.addr

Merged(b, c) == [addr |-> b.addr, size |-> b.size + c.size]

InsertIntoEmpty(s, b) == Splice(s, 1, 0, << b >>)

InsertBeforeHeadUnmerged(s, b) == Splice(s, 1, 0, << b >>)

InsertBeforeHead(s, b) ==
  IF Touches(b, s[1]) THEN Splice(s, 1, 1, << Merged(b, s[1]) >>)
                      ELSE Splice(s, 1, 0, << b >>)

(* The element after which the walk of dealloc stops.                      *)
IsPrev(s, b, p) ==
  /\ p < Len(s) => s[p + 1].addr >= b.addr
  /\ \A k \in 2 .. p : s[k].addr < b.addr

MergeRightIgnored(s, b, p) == FALSE

MergeRight(s, b, p) == p < Len(s) /\ Touches(b, s[p + 1])

WithRight(s, b, p) == IF MergeRight(s, b, p) THEN Merged(b, s[p + 1]) ELSE b

LastUnlinked(s, b, p) == IF MergeRight(s, b, p) THEN p + 1 ELSE p

InsertAfter(s, b, p) ==
  IF Touches(s[p], b)
  THEN Splice(s, p, LastUnlinked(s, b, p), << Merged(s[p], WithRight(s, b, p)) >>)
  ELSE Splice(s, p + 1, LastUnlinked(s, b, p), << WithRight(s, b, p) >>)

Dealloc(a) ==
  LET b == Extent(a)
  IN  /\ live' = live \ {a}
      /\ \/ free = << >> /\ free' = InsertIntoEmpty(free, b)
         \/ free # << >> /\ b.addr < free[1].addr /\ free' = InsertBeforeHead(free, b)
         \/ /\ free # << >> /\ b.addr >= free[1].addr
            /\ \E p \in 1 .. Len(free) :
                 IsPrev(free, b, p) /\ free' = InsertAfter(free, b, p)
------------------------------------------------------------------------------
Init == /\ free = << HeapBlock >>
        /\ live = {}

Next == \/ \E l \in Layouts : Alloc(l) \/ AllocOutOfMemory(l)
        \/ \E a \in live : Dealloc(a)

Spec == Init /\ [][Next]_vars
------------------------------------------------------------------------------
TypeOK == /\ free \in Seq(Block)
          /\ live \subseteq Allocation

Within(b, c) == c.addr <= b.addr /\ End(b) <= End(c)
Apart(b, c) == End(b) <= c.addr \/ End(c) <= b.addr
InBlock(x, b) == b.addr <= x /\ x < End(b)

(* free() and used(): the sizes found by walking the list, and the rest.   *)
free_bytes(s) ==
  LET sum[n \in 0 .. Len(s)] == IF n = 0 THEN 0 ELSE sum[n - 1] + s[n].size
  IN  sum[Len(s)]
used_bytes(s) == AtLeast(total_size - free_bytes(s), 0)

(* The list is in address order and no two of its blocks touch: dealloc    *)
(* coalesces completely, in whatever order allocations are freed.          *)
SortedAndCoalesced ==
  \A i, j \in 1 .. Len(free) : i < j => End(free[i]) < free[j].addr

(* alloc never hands out memory twice: a live allocation, its metadata and *)
(* padding included, shares no byte with another one or with a free block. *)
NoOverlap ==
  \A a \in live :
    /\ \A c \in live : a # c => Apart(Extent(a), Extent(c))
    /\ \A i \in 1 .. Len(free) : Apart(Extent(a), free[i])

(* No byte is lost: every byte that init put on the list is free or part   *)
(* of a live allocation, and nothing outside the heap is either.           *)
HeapIsTiled ==
  /\ \A i \in 1 .. Len(free) : Within(free[i], HeapBlock)
  /\ \A a \in live : Within(Extent(a), HeapBlock)
  /\ \A x \in HeapBlock.addr .. End(HeapBlock) - 1 :
       \/ \E i \in 1 .. Len(free) : InBlock(x, free[i])
       \/ \E a \in live : InBlock(x, Extent(a))

(* The FreeBlock headers that alloc and dealloc write through raw pointers *)
(* are aligned and fit the memory they are written to, for the blocks on   *)
(* the list and for the ones that freeing a live allocation will create.   *)
HeadersFit ==
  /\ \A i \in 1 .. Len(free) :
       free[i].addr % MinAlign = 0 /\ free[i].size >= SizeOfFreeBlock
  /\ \A a \in live : a.start_addr % MinAlign = 0 /\ a.len >= SizeOfFreeBlock

(* What the caller of alloc gets: an aligned pointer with the requested    *)
(* bytes after it and the metadata before it inside the allocation.        *)
PayloadFits ==
  \A a \in live : /\ a.ptr % a.align = 0
                  /\ a.start_addr + SizeOfMetaData <= a.ptr
                  /\ a.ptr + a.size <= a.start_addr + a.len

(* Once everything is freed the heap is one block again, as after init:    *)
(* no sequence of calls fragments it for good.                             *)
IdleHeapIsWhole == live = {} => free = << HeapBlock >>

(* used() reports exactly what the live allocations take from the heap.    *)
UsedIsLive ==
  LET lens[S \in SUBSET live] ==
        IF S = {} THEN 0
        ELSE LET a == CHOOSE a \in S : TRUE IN a.len + lens[S \ {a}]
  IN  used_bytes(free) = lens[live]
==============================================================================
