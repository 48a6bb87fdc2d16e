---------------------------- MODULE KernelMemory -----------------------------
(***************************************************************************)
(* The boot of the kernel's memory: the regions of the device tree, the    *)
(* frames that are left, and the page table that maps kernel, frames, the  *)
(* device tree and the devices before paging is switched on.               *)
(*                                                                         *)
(* A table lies at the address of its frame.  The flags of an entry are a  *)
(* set, and V is its valid bit.  KERNEL_PAGE_TABLE lies in the image, in   *)
(* its first page.                                                         *)
(***************************************************************************)
EXTENDS PhysicalRanges, PageFrames, FiniteSets, TLC

CONSTANTS ENTRIES,             \* entries of a page table: 512
          upper_half_offset,
          Machines             \* what device trees and kernel images describe

VARIABLES machine,  \* the regions of the device tree, and the image
          status,   \* how far the boot is
          info,     \* SYSINFO and the kernel layout
          tables,   \* the page tables by address
          todo      \* the maps page_table::init has still to make

vars == <<ready, arenas, held, machine, status, info, tables, todo>>
------------------------------------------------------------------------------
(* PhysRange::from_start_size of a region [address, size].                 *)
Malformed(g) == g.size = 0 \/ g.address + g.size > USIZE_MAX
from_start_size(g) == Span(g.address, g.address + g.size)
Ranges(gs) == [k \in 1 .. Len(gs) |-> from_start_size(gs[k])]

covering(rs) == [k \in 1 .. Len(rs) |-> covering_pages(rs[k])]

(* SystemInfo::new fails on an empty or overflowing region, and without    *)
(* memory or devices.  m.complete stands for all that it looks up besides: *)
(* the sizes of regions, a CPU and a block device.                         *)
DeviceTreeError(m) ==
  \/ ~ m.complete
  \/ \E g \in Range(m.memory \o m.reserved \o m.mmio \o << m.fdt >>) : Malformed(g)
  \/ m.memory = << >> \/ m.mmio = << >>
  \/ \E g \in Range(m.mmio) : AlignUpOverflows(g.address + g.size)

SystemInfo(m) ==
  [memory |-> normalize_ranges(Ranges(m.memory)),
   reserved |-> normalize_ranges(Ranges(m.reserved)),
   mmio |-> normalize_ranges(covering(Ranges(m.mmio))),
   fdt |-> from_start_size(m.fdt),
   kernel |-> m.kernel]

fixup_without_fdt(i) == i.reserved \o << i.kernel >>
fixup_reserved_memory_regions(i) == i.reserved \o << i.fdt, i.kernel >>
------------------------------------------------------------------------------
NoEntry == [ppn |-> 0, flags |-> {}]
is_valid(e) == "V" \in e.flags
new_leaf(addr, flags) == [ppn |-> align_down(addr), flags |-> flags \cup {"V"}]
new_branch(addr) == new_leaf(addr, {})
is_leaf(e) == e.flags \cap {"R", "W", "X"} # {}

vpn(virt, level) == ((virt \div PAGE_SIZE) \div ENTRIES ^ level) % ENTRIES

Zeroed == [e \in 0 .. ENTRIES - 1 |-> NoEntry]

KERNEL_PAGE_TABLE == info.kernel.start

(* The state of a call of map; at is the table it has reached.             *)
HasFrame(as) == \E k \in 1 .. Len(as) : ~ finds_none(as[k].used)
NextFree(as) == CHOOSE x \in UNION {{k} \X Bits(as[k]) : k \in 1 .. Len(as)} :
                  IsNextFree(as, x[1], x[2])

new_table(s) ==
  LET x == NextFree(s.arenas)
      f == Frame(s.arenas[x[1]], x[2])
  IN  [s EXCEPT !.arenas = SetBit(@, x[1], x[2]), !.held = @ \cup {f},
                !.tables = (f :> Zeroed) @@ @, !.at = f]

(* To the next level through entry e of the present table.                 *)
descend(s, e) ==
  IF s.is # "Ok" THEN s
  ELSE IF is_valid(s.tables[s.at][e]) THEN [s EXCEPT !.at = s.tables[s.at][e].ppn]
  ELSE IF ~ HasFrame(s.arenas) THEN [s EXCEPT !.is = "OutOfFrames"]
  ELSE LET t == new_table(s) IN [t EXCEPT !.tables[s.at][e] = new_branch(t.at)]

map(m) ==
  LET s == [arenas |-> arenas, held |-> held, tables |-> tables,
            at |-> KERNEL_PAGE_TABLE, is |-> "Ok"]
      t == descend(descend(s, vpn(m.virt, 2)), vpn(m.virt, 1))
      e == vpn(m.virt, 0)
  IN  IF t.is # "Ok" THEN t
      ELSE IF is_valid(t.tables[t.at][e]) THEN [t EXCEPT !.is = "AlreadyMapped"]
      ELSE [t EXCEPT !.tables[t.at][e] = new_leaf(m.phys, m.flags)]

(* The maps of the pages from r.start on, in steps of a page.              *)
id_map_region(r, flags) ==
  [k \in 1 .. (r.end - r.start + PAGE_SIZE - 1) \div PAGE_SIZE |->
     [virt |-> r.start + (k - 1) * PAGE_SIZE, phys |-> r.start + (k - 1) * PAGE_SIZE,
      flags |-> flags]]

id_map_regions(rs, flags) ==
  FoldLeft(LAMBDA ms, r : ms \o id_map_region(r, flags), << >>, rs)

KernelFlags == {"R", "W", "X"}
kernel_maps(r) ==
  FoldLeft(LAMBDA ms, m : ms \o << m, [m EXCEPT !.virt = @ + upper_half_offset] >>, << >>,
           id_map_region(r, KernelFlags))

managed_ranges == [k \in 1 .. Len(arenas) |-> Span(arenas[k].start, arenas[k].end)]
------------------------------------------------------------------------------
(* device_tree::init(...).expect(...)                                      *)
device_tree_init ==
  /\ status = "off"
  /\ IF DeviceTreeError(machine) THEN status' = "DeviceTreeError" /\ UNCHANGED info
     ELSE status' = "device tree" /\ info' = SystemInfo(machine)
  /\ UNCHANGED <<ready, arenas, held, machine, tables, todo>>

page_frame_allocator_init ==
  /\ status = "device tree" /\ status' = "frames"
  /\ init(usable_memory_ranges(info.memory, fixup_reserved_memory_regions(info)))
  /\ UNCHANGED <<machine, info, tables, todo>>

(* The kernel twice, the frames, and if its end can be aligned the device  *)
(* tree and then the devices.                                              *)
FdtOverflows == AlignUpOverflows(info.fdt.end)

page_table_init ==
  /\ status = "frames" /\ status' = "mapping"
  /\ tables' = (KERNEL_PAGE_TABLE :> Zeroed)
  /\ todo' = kernel_maps(info.kernel)
             \o id_map_regions(managed_ranges, {"R", "W"})
             \o (IF FdtOverflows THEN << >>
                 ELSE id_map_region(covering_pages(info.fdt), {"R"})
                      \o id_map_regions(info.mmio, {"R", "W"}))
  /\ UNCHANGED <<ready, arenas, held, machine, info>>

map_next ==
  /\ status = "mapping" /\ todo # << >>
  /\ LET s == map(Head(todo))
     IN  /\ arenas' = s.arenas /\ held' = s.held /\ tables' = s.tables
         /\ status' = IF s.is = "Ok" THEN status ELSE s.is
  /\ todo' = Tail(todo)
  /\ UNCHANGED <<ready, machine, info>>

(* write_satp_and_flush_tlb, and the jump into the upper half.             *)
switch_on ==
  /\ status = "mapping" /\ todo = << >>
  /\ status' = IF FdtOverflows THEN "FdtOverflow" ELSE "running"
  /\ UNCHANGED <<ready, arenas, held, machine, info, tables, todo>>

(* The page frame allocator by itself: frames taken and given back in any  *)
(* order, which no boot does but every later user of it will.              *)
use_frames ==
  /\ status = "frames only"
  /\ Next
  /\ UNCHANGED <<machine, status, info, tables, todo>>

BootInit == /\ Init /\ tables = << >> /\ todo = << >> /\ info = << >>
            /\ \/ status = "off" /\ machine \in Machines
               \/ status = "frames only" /\ machine = << >>

BootNext == \/ device_tree_init \/ page_frame_allocator_init \/ page_table_init
            \/ map_next \/ switch_on \/ use_frames

BootSpec == BootInit /\ [][BootNext]_vars
------------------------------------------------------------------------------
Bytes(r) == r.start .. r.end - 1
BytesOf(rs) == UNION {Bytes(r) : r \in Range(rs)}
PageOf(addr) == Bytes(Span(addr, addr + PAGE_SIZE))
PagesOf(rs) == {align_down(x) : x \in BytesOf(rs)}

Ram == Ranges(machine.memory)
Fdt == << from_start_size(machine.fdt) >>
Reserved == Ranges(machine.reserved) \o Fdt \o << machine.kernel >>
Kernel == PagesOf(<< machine.kernel >>)
Devices == PagesOf(Ranges(machine.mmio))

(* The frames are exactly the complete pages of RAM that touch no          *)
(* reservation, neither the device tree nor the kernel: memory regions may *)
(* overlap, touch and nest in any way, and no page is managed twice.       *)
ManagesWhatIsLeft ==
  ready /\ status # "frames only" =>
    /\ Frames = {f \in PagesOf(Ram) : PageOf(f) \subseteq BytesOf(Ram) \ BytesOf(Reserved)}
    /\ \A j, k \in 1 .. Len(arenas) :
         j # k => Managed(arenas[j]) \cap Managed(arenas[k]) = {}

(* The walk of the hardware: the leaf for a virtual page.                  *)
Walk(virt) ==
  LET l2 == tables[KERNEL_PAGE_TABLE][vpn(virt, 2)]
      l1 == tables[l2.ppn][vpn(virt, 1)]
  IN  IF ~ is_valid(l2) THEN NoEntry
      ELSE IF ~ is_valid(l1) THEN NoEntry
      ELSE tables[l1.ppn][vpn(virt, 0)]

(* What the kernel needs of an address once paging is on.                  *)
Wanted(virt) ==
  IF virt >= upper_half_offset
  THEN IF virt - upper_half_offset \in Kernel
       THEN new_leaf(virt - upper_half_offset, KernelFlags) ELSE NoEntry
  ELSE IF virt \in Kernel THEN new_leaf(virt, KernelFlags)
  ELSE IF virt \in Frames \cup Devices THEN new_leaf(virt, {"R", "W"})
  ELSE IF virt \in PagesOf(Fdt) THEN new_leaf(virt, {"R"})
  ELSE NoEntry

VirtualPages == {n * PAGE_SIZE : n \in 0 .. ENTRIES ^ 3 - 1}

(* When paging is switched on, every page the kernel uses is mapped to     *)
(* itself with its permissions, the kernel also in the upper half, and no  *)
(* hole or firmware reservation is mapped.                                 *)
MapsWhatIsWanted ==
  status = "running" => \A v \in VirtualPages : Walk(v) = Wanted(v)

(* The frames page tables are made of are taken, so that nobody gets one   *)
(* as memory, and no two tables share a frame: each is reached through one *)
(* entry, and from the kernel's own table.                                 *)
TablesOwnTheirFrames ==
  tables # << >> =>
    LET branches == {x \in (DOMAIN tables) \X (0 .. ENTRIES - 1) :
                       LET e == tables[x[1]][x[2]] IN is_valid(e) /\ ~ is_leaf(e)}
    IN  /\ DOMAIN tables = held \cup {KERNEL_PAGE_TABLE}
        /\ \A f \in held :
             Cardinality({x \in branches : tables[x[1]][x[2]].ppn = f}) = 1

(* map is never asked for a page that it has mapped: the kernel, the       *)
(* frames, the device tree and the devices have no page in common.         *)
NeverMappedTwice == status # "AlreadyMapped"
==============================================================================
