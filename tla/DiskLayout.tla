------------------------------ MODULE DiskLayout -----------------------------
(***************************************************************************)
(* Which block is what (filesystem/src/layout.rs), and the superblock that *)
(* records it: Layout::new searches for a data bitmap that is just large   *)
(* enough, format writes the superblock, and mounting validates it against *)
(* the device and against a second search.                                 *)
(*                                                                         *)
(* The search is a loop without a bound, so each turn of it is a step.     *)
(***************************************************************************)
EXTENDS Integers

CONSTANTS BITS_PER_BLOCK,     \* 8 * BLOCK_SIZE
          BITS_PER_WORD,      \* a Bitmap is read and written in words
          INODES_PER_BLOCK,
          MAX_INODES,
          Sizes               \* block counts of devices, all below 2^32

ASSUME LayoutAssumption ==
  /\ BITS_PER_WORD \in Nat \ {0}
  /\ BITS_PER_BLOCK \in Nat \ {0} /\ BITS_PER_BLOCK % BITS_PER_WORD = 0
  /\ INODES_PER_BLOCK \in Nat \ {0}
  /\ MAX_INODES \in Nat \ {0}
  /\ Sizes \subseteq Nat

VARIABLES device_blocks,       \* BlockDevice::total_blocks
          superblock,          \* block 0
          call,                \* what runs Layout::new, or "idle"
          data_bitmap_blocks,  \* the loop's variable
          outcome              \* of the last call

vars == <<device_blocks, superblock, call, data_bitmap_blocks, outcome>>

div_ceil(n, b) == (n + b - 1) \div b

inode_bitmap_blocks == div_ceil(MAX_INODES, BITS_PER_BLOCK)
inode_table_blocks == div_ceil(MAX_INODES, INODES_PER_BLOCK)
fixed == 1 + inode_bitmap_blocks + inode_table_blocks

(* The layout the loop ends with.                                          *)
Layout(total, bitmap) ==
  [inode_bitmap_start |-> 1,
   inode_bitmap_blocks |-> inode_bitmap_blocks,
   data_bitmap_start |-> 1 + inode_bitmap_blocks,
   data_bitmap_blocks |-> bitmap,
   inode_table_start |-> 1 + inode_bitmap_blocks + bitmap,
   inode_table_blocks |-> inode_table_blocks,
   data_start |-> fixed + bitmap,
   data_blocks |-> total - (fixed + bitmap)]

inode_to_block_rounds_up(layout, i) ==
  [block |-> layout.inode_table_start + div_ceil(i, INODES_PER_BLOCK), slot |-> i % INODES_PER_BLOCK]
inode_to_block(layout, i) ==
  [block |-> layout.inode_table_start + i \div INODES_PER_BLOCK, slot |-> i % INODES_PER_BLOCK]

data_block(layout, k) == layout.data_start + k

(* A superblock; magic stands for the magic number and the version.        *)
from_layout(total, layout) ==
  [magic |-> TRUE, total_blocks |-> total, inode_count |-> MAX_INODES, layout |-> layout]
Blank == [from_layout(0, Layout(fixed, 0)) EXCEPT !.magic = FALSE]
------------------------------------------------------------------------------
(* One turn of the loop.                                                   *)
Room == device_blocks - (fixed + data_bitmap_blocks)
NextBitmapByHand == Room \div BITS_PER_BLOCK + 1
NextBitmap == div_ceil(Room, BITS_PER_BLOCK)

Begin(c) == /\ call' = c
            /\ data_bitmap_blocks' = div_ceil(device_blocks - fixed, BITS_PER_BLOCK)
            /\ outcome' = "none"
            /\ UNCHANGED <<device_blocks, superblock>>

End(is) == /\ call' = "idle"
           /\ outcome' = is
           /\ data_bitmap_blocks' = 0
           /\ UNCHANGED device_blocks

Refused(c) == IF c = "format" THEN "DeviceTooSmall" ELSE "InvalidSuperblock"

NoRoom == /\ call # "idle" /\ Room <= 0
          /\ End(Refused(call)) /\ UNCHANGED superblock

Iterate == /\ call # "idle" /\ Room > 0 /\ NextBitmap # data_bitmap_blocks
           /\ data_bitmap_blocks' = NextBitmap
           /\ UNCHANGED <<device_blocks, superblock, call, outcome>>

Found == Room > 0 /\ NextBitmap = data_bitmap_blocks
------------------------------------------------------------------------------
FormatUnchecked == call = "idle" /\ outcome # "mounted" /\ Begin("format")
Format == /\ call = "idle" /\ outcome # "mounted"
          /\ IF device_blocks < fixed
             THEN End("DeviceTooSmall") /\ UNCHANGED superblock
             ELSE Begin("format")

(* format ends with a flush, which writes the superblock.                  *)
FormatDone ==
  /\ call = "format" /\ Found
  /\ superblock' = from_layout(device_blocks, Layout(device_blocks, data_bitmap_blocks))
  /\ End("formatted")

(* read_bitmap: as many whole words as len bits need fit in the region.    *)
BitmapReadableUnlessFull(blocks, len) ==
  div_ceil(len, BITS_PER_WORD) * BITS_PER_WORD < blocks * BITS_PER_BLOCK
BitmapReadable(blocks, len) ==
  div_ceil(len, BITS_PER_WORD) * BITS_PER_WORD <= blocks * BITS_PER_BLOCK

(* SuperBlock::validate, up to its call of Layout::new.                    *)
validate(sb, total) ==
  LET l == sb.layout IN
  /\ sb.magic
  /\ sb.total_blocks = total
  /\ l.inode_bitmap_start = 1
  /\ l.data_bitmap_start = l.inode_bitmap_start + l.inode_bitmap_blocks
  /\ l.inode_table_start = l.data_bitmap_start + l.data_bitmap_blocks
  /\ l.data_start = l.inode_table_start + l.inode_table_blocks
  /\ l.data_start + l.data_blocks = total
  /\ sb.inode_count # 0
  /\ l.inode_bitmap_blocks * BITS_PER_BLOCK >= sb.inode_count
  /\ l.data_bitmap_blocks * BITS_PER_BLOCK >= l.data_blocks
  /\ l.inode_table_blocks * INODES_PER_BLOCK >= sb.inode_count

Mount ==
  /\ call = "idle" /\ outcome # "mounted"
  /\ IF device_blocks = 0 \/ ~ validate(superblock, device_blocks) \/ device_blocks < fixed
     THEN End("InvalidSuperblock") /\ UNCHANGED superblock
     ELSE Begin("mount")

MountDone ==
  /\ call = "mount" /\ Found
  /\ LET l == superblock.layout IN
     IF /\ l = Layout(device_blocks, data_bitmap_blocks)
        /\ BitmapReadable(l.inode_bitmap_blocks, superblock.inode_count)
        /\ BitmapReadable(l.data_bitmap_blocks, l.data_blocks)
     THEN End("mounted") ELSE End("InvalidSuperblock")
  /\ UNCHANGED superblock

(* Between uses the image may be copied to a device of another size.       *)
Copy == /\ call = "idle"
        /\ device_blocks' \in Sizes
        /\ outcome' = "none"
        /\ UNCHANGED <<superblock, call, data_bitmap_blocks>>

Init == /\ device_blocks \in Sizes
        /\ superblock = Blank
        /\ call = "idle"
        /\ data_bitmap_blocks = 0
        /\ outcome = "none"

Search == NoRoom \/ Iterate \/ FormatDone \/ MountDone
Next == Search \/ Format \/ Mount \/ Copy

Spec == Init /\ [][Next]_vars

(* A call that has started keeps running.                                  *)
FairSpec == Spec /\ WF_vars(Search)
------------------------------------------------------------------------------
LayoutType ==
  [inode_bitmap_start : Nat, inode_bitmap_blocks : Nat,
   data_bitmap_start : Nat, data_bitmap_blocks : Nat,
   inode_table_start : Nat, inode_table_blocks : Nat,
   data_start : Nat, data_blocks : Nat]

(* The values of the device, its superblock and the search; no count that  *)
(* is computed by a subtraction drops below zero (they are usize).         *)
TypeOK ==
  /\ device_blocks \in Sizes
  /\ superblock \in [magic : BOOLEAN, total_blocks : Nat, inode_count : Nat,
                     layout : LayoutType]
  /\ call \in {"idle", "format", "mount"}
  /\ data_bitmap_blocks \in Nat
  /\ outcome \in {"none", "formatted", "mounted", "DeviceTooSmall", "InvalidSuperblock"}

(* What a mounted filesystem relies on.  The regions follow each other to  *)
(* the end of the device; every inode has a place of its own inside the    *)
(* inode table, every bit of the data bitmap a block inside the data       *)
(* region, and every inode and data block a bit; and no block is spent on  *)
(* a bitmap that could do without it.                                      *)
RegionsFit ==
  outcome = "mounted" =>
    LET l == superblock.layout
        table == l.inode_table_start .. l.data_start - 1
    IN  /\ 1 < l.data_bitmap_start /\ l.data_bitmap_start < l.inode_table_start
        /\ l.data_start + l.data_blocks = device_blocks
        /\ \A i \in 0 .. MAX_INODES - 1 : inode_to_block(l, i).block \in table
        /\ \A i, j \in 0 .. MAX_INODES - 1 :
             inode_to_block(l, i) = inode_to_block(l, j) => i = j
        /\ \A k \in 0 .. l.data_blocks - 1 : data_block(l, k) \in l.data_start .. device_blocks - 1
        /\ MAX_INODES <= (l.data_bitmap_start - 1) * BITS_PER_BLOCK
        /\ l.data_blocks <= l.data_bitmap_blocks * BITS_PER_BLOCK
        /\ (l.data_bitmap_blocks - 1) * BITS_PER_BLOCK < l.data_blocks

(* A device mounts exactly if it was formatted at its present size: the    *)
(* search of the mount finds the layout that the search of the format      *)
(* found, and a copy of the image to a smaller or larger device is         *)
(* refused.                                                                *)
MountsWhatWasFormatted ==
  /\ outcome = "mounted" => superblock.magic /\ superblock.total_blocks = device_blocks
  /\ outcome = "InvalidSuperblock" =>
       ~ (superblock.magic /\ superblock.total_blocks = device_blocks)

(* The sizes at which two bitmap sizes alternate for ever: one block       *)
(* beyond a whole number of bitmap blocks with the data they can map.      *)
Alternates ==
  LET n == device_blocks - fixed IN n > 1 /\ (n - 1) % (BITS_PER_BLOCK + 1) = 0

(* At every other size the loop of Layout::new ends.                       *)
SearchEndsUnlessItAlternates == call # "idle" /\ ~ Alternates ~> call = "idle"
==============================================================================
