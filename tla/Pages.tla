-------------------------------- MODULE Pages --------------------------------
(* Addresses and pages (virtual_memory/src).                               *)
EXTENDS Integers

CONSTANTS PAGE_SIZE,
          USIZE_MAX    \* the last address

ASSUME PagesAssumption == PAGE_SIZE \in Nat \ {0} /\ USIZE_MAX \in Nat

PageAligned(addr) == addr % PAGE_SIZE = 0

align_down(addr) == (addr \div PAGE_SIZE) * PAGE_SIZE
align_up(addr) == align_down(addr + PAGE_SIZE - 1)

(* checked_add returns None.                                               *)
AlignUpOverflows(addr) == addr + PAGE_SIZE - 1 > USIZE_MAX
==============================================================================
