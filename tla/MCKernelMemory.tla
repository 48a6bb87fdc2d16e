--------------------------- MODULE MCKernelMemory ----------------------------
(***************************************************************************)
(* Machines with pages of 4 bytes and tables of 4 entries.  RAM starts at  *)
(* 32, with the firmware at its start and the kernel behind it; devices    *)
(* lie below.  Regions overlap, touch, nest and end inside pages.  For the *)
(* allocator by itself, what usable_memory_ranges leaves of small          *)
(* memories: up to three arenas and seven frames.  The assumption on       *)
(* Usable is checked of every one of these results.                        *)
(***************************************************************************)
EXTENDS KernelMemory

Region(address, size) == [address |-> address, size |-> size]

Memories == {<< Region(32, 112) >>,
             << Region(31, 60), Region(98, 45) >>,
             << Region(88, 50), Region(32, 40), Region(68, 24) >>,
             << Region(32, 44) >>}
Reservations == {<< >>,
                 << Region(32, 8) >>,
                 << Region(106, 3), Region(32, 6), Region(98, 9) >>,
                 << Region(94, 20), Region(96, 4), Region(28, 12) >>}
Fdts == {Region(78, 7), Region(128, 8), Region(252, 2)}
Mmios == {<< Region(9, 2), Region(12, 9) >>, << Region(20, 4) >>}

MCMachines ==
  [memory : Memories, reserved : Reservations, fdt : Fdts, mmio : Mmios,
   kernel : {Span(40, 52)}, complete : {TRUE}]
  \cup [memory : {<< Region(32, 112) >>}, reserved : {<< >>, << Region(48, 0) >>},
         fdt : {Region(78, 7)}, mmio : {<< Region(20, 4) >>}, kernel : {Span(40, 52)},
         complete : {FALSE, TRUE}]

Ends == {0, 3, 8, 14, 20, 28}
Spans == {r \in [start : Ends, end : Ends] : r.start < r.end}
SmallMemories == {<< Span(0, 28) >>, << Span(12, 31), Span(3, 12) >>,
                  << Span(0, 8), Span(2, 6), Span(10, 29) >>}
SmallReservations == {<< >>} \cup {<< r >> : r \in Spans} \cup {<< r, q >> : r, q \in Spans}

MCUsable == {usable_memory_ranges(m, r) : m \in SmallMemories, r \in SmallReservations}
==============================================================================
