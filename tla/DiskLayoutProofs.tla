--------------------------- MODULE DiskLayoutProofs --------------------------
(***************************************************************************)
(* Proofs about DiskLayout for every device size, block size and number of *)
(* inodes.  The search may go on for ever, but whenever it stops it stops  *)
(* at the only bitmap size that fits, which is why the search of a mount   *)
(* agrees with the search of the format.                                   *)
(***************************************************************************)
EXTENDS DiskLayout, TLAPS

Bits == BITS_PER_BLOCK

(* Bitmap size d maps the r - d blocks it leaves of r, and no size smaller *)
(* than d would.                                                           *)
Fits(r, d) == d \in Nat /\ d < r /\ div_ceil(r - d, Bits) = d

(* The first bitmap size that the search tries.                            *)
FirstTry(r) == div_ceil(r, Bits)

(* What a superblock that was written says.                                *)
SuperblockOK ==
  superblock.magic =>
    LET total == superblock.total_blocks
        bitmap == superblock.layout.data_bitmap_blocks
    IN  /\ superblock = from_layout(total, Layout(total, bitmap))
        /\ total >= fixed
        /\ Fits(total - fixed, bitmap)
        /\ FirstTry(total - fixed) < total - fixed

(* The search never goes above its first try, and once past the first turn *)
(* it knows that the first try left room.                                  *)
SearchOK ==
  call # "idle" =>
    LET r == device_blocks - fixed IN
    /\ device_blocks >= fixed
    /\ data_bitmap_blocks <= FirstTry(r)
    /\ data_bitmap_blocks = FirstTry(r) \/ FirstTry(r) < r
    /\ call = "mount" => superblock.magic /\ superblock.total_blocks = device_blocks

LayoutInv == TypeOK /\ SuperblockOK /\ SearchOK /\ MountsWhatWasFormatted
------------------------------------------------------------------------------
(* Division with remainder, as the provers need it spelled out.            *)
LEMMA Division ==
  \A a \in Nat, b \in Nat \ {0} :
    a \div b \in Nat /\ a % b \in 0 .. b - 1 /\ a = b * (a \div b) + (a % b)
OBVIOUS

(* usize::div_ceil rounds up: the result times b covers n by less than b.  *)
LEMMA DivCeil ==
  \A n \in Nat, b \in Nat \ {0} :
    div_ceil(n, b) \in Nat /\ n <= b * div_ceil(n, b) /\ b * div_ceil(n, b) < n + b
<1> SUFFICES ASSUME NEW n \in Nat, NEW b \in Nat \ {0}
             PROVE  div_ceil(n, b) \in Nat /\ n <= b * div_ceil(n, b)
                      /\ b * div_ceil(n, b) < n + b
  OBVIOUS
<1> DEFINE a == n + b - 1
           p == b * (a \div b)
<1>1. a \in Nat
  OBVIOUS
<1>2. a \div b \in Nat /\ a % b \in 0 .. b - 1 /\ a = b * (a \div b) + (a % b)
  BY <1>1, Division
<1>3. p \in Nat /\ a = p + (a % b) /\ a % b \in 0 .. b - 1
  BY <1>2
<1> HIDE DEF p
<1>4. n <= p /\ p < n + b
  BY <1>3
<1> QED
  BY <1>2, <1>4 DEF div_ceil, p

(* A larger number does not need fewer blocks.                             *)
LEMMA DivCeilMonotone ==
  \A m, n \in Nat, b \in Nat \ {0} : m <= n => div_ceil(m, b) <= div_ceil(n, b)
<1> SUFFICES ASSUME NEW m \in Nat, NEW n \in Nat, NEW b \in Nat \ {0}, m <= n,
                    div_ceil(n, b) < div_ceil(m, b)
             PROVE  FALSE
  BY DivCeil
<1> DEFINE c == div_ceil(m, b)
           d == div_ceil(n, b)
<1>1. c \in Nat /\ d \in Nat /\ b * c < m + b /\ n <= b * d
  BY DivCeil
<1> HIDE DEF c, d
<1>2. d + 1 <= c
  BY <1>1 DEF c, d
<1>3. \A x, y \in Nat : x + 1 <= y => b * x + b <= b * y
  OBVIOUS
<1>4. b * d + b <= b * c
  BY <1>1, <1>2, <1>3
<1> QED
  BY <1>1, <1>4

(* Two bitmap sizes that fit the same device are the same size.            *)
LEMMA FitsOnce ==
  \A r, d, e \in Nat : Fits(r, d) /\ Fits(r, e) => d = e
<1>1. \A r, d, e \in Nat : Fits(r, d) /\ Fits(r, e) /\ d < e => FALSE
  <2> SUFFICES ASSUME NEW r \in Nat, NEW d \in Nat, NEW e \in Nat,
                      Fits(r, d), Fits(r, e), d < e
               PROVE  FALSE
    OBVIOUS
  <2>1. r - e \in Nat /\ r - d \in Nat /\ r - e <= r - d
    BY DEF Fits
  <2>2. div_ceil(r - e, Bits) <= div_ceil(r - d, Bits)
    BY <2>1, DivCeilMonotone, LayoutAssumption DEF Bits
  <2> QED
    BY <2>2 DEF Fits
<1> QED
  BY <1>1
------------------------------------------------------------------------------
(* The blocks before the data bitmap and the inode table can hold all      *)
(* inodes, and there is at least one of each.                              *)
LEMMA FixedRegions ==
  /\ inode_bitmap_blocks \in Nat /\ 1 <= inode_bitmap_blocks
  /\ inode_table_blocks \in Nat /\ 1 <= inode_table_blocks
  /\ fixed \in Nat
  /\ MAX_INODES <= inode_bitmap_blocks * Bits
  /\ MAX_INODES <= inode_table_blocks * INODES_PER_BLOCK
<1> DEFINE c == inode_bitmap_blocks
           d == inode_table_blocks
<1>1. c \in Nat /\ MAX_INODES <= Bits * c
  BY DivCeil, LayoutAssumption DEF inode_bitmap_blocks, Bits
<1>2. d \in Nat /\ MAX_INODES <= INODES_PER_BLOCK * d
  BY DivCeil, LayoutAssumption DEF inode_table_blocks
<1> HIDE DEF c, d
<1>3. c # 0 /\ d # 0
  BY <1>1, <1>2, LayoutAssumption DEF Bits
<1>4. Bits * c = c * Bits /\ INODES_PER_BLOCK * d = d * INODES_PER_BLOCK
  BY <1>1, <1>2, LayoutAssumption DEF Bits
<1> QED
  BY <1>1, <1>2, <1>3, <1>4 DEF c, d, fixed

(* A layout with a bitmap that fits has natural numbers in its fields.     *)
LEMMA LayoutTyped ==
  \A total, d \in Nat : fixed + d <= total => Layout(total, d) \in LayoutType
BY FixedRegions DEF Layout, LayoutType

(* A bitmap that fits can be read back: len bits are padded to whole words *)
(* and a block is a whole number of words.                                 *)
LEMMA PaddedFits ==
  \A len, blocks \in Nat : len <= blocks * Bits => BitmapReadable(blocks, len)
<1> SUFFICES ASSUME NEW len \in Nat, NEW blocks \in Nat, len <= blocks * Bits
             PROVE  div_ceil(len, BITS_PER_WORD) * BITS_PER_WORD <= blocks * Bits
  BY DEF BitmapReadable, Bits
<1> DEFINE w == BITS_PER_WORD
           k == Bits \div w
           c == div_ceil(len, w)
<1>1. w \in Nat \ {0} /\ Bits \in Nat /\ Bits % w = 0
  BY LayoutAssumption DEF Bits
<1>2. k \in Nat /\ Bits = w * k
  BY <1>1, Division
<1>3. c \in Nat /\ w * c < len + w
  BY <1>1, DivCeil
<1> HIDE DEF w, k, c
<1>4. blocks * Bits = w * (blocks * k) /\ blocks * k \in Nat
  BY <1>1, <1>2
<1>5. c <= blocks * k
  <2> DEFINE e == blocks * k
  <2>1. e \in Nat /\ len <= w * e
    BY <1>4
  <2> HIDE DEF e
  <2>2. ASSUME e < c PROVE FALSE
    <3>1. \A x, y \in Nat : x + 1 <= y => w * x + w <= w * y
      BY <1>1
    <3>2. w * e + w <= w * c
      BY <3>1, <2>1, <2>2, <1>3
    <3> QED
      BY <3>2, <2>1, <1>3, <1>1
  <2> QED
    BY <2>1, <2>2, <1>3 DEF e
<1>6. w * c <= w * (blocks * k)
  <2>1. \A x, y \in Nat : x <= y => w * x <= w * y
    BY <1>1
  <2> QED
    BY <2>1, <1>3, <1>4, <1>5
<1> QED
  BY <1>1, <1>3, <1>4, <1>6 DEF w, c
------------------------------------------------------------------------------
(* A bitmap that fits has a bit for every block it leaves, and with one    *)
(* block less it would not.                                                *)
LEMMA FitsMaps ==
  \A r, d \in Nat : Fits(r, d) => r - d <= d * Bits /\ (d - 1) * Bits < r - d
<1> SUFFICES ASSUME NEW r \in Nat, NEW d \in Nat, Fits(r, d)
             PROVE  r - d <= d * Bits /\ (d - 1) * Bits < r - d
  OBVIOUS
<1>1. r - d \in Nat /\ div_ceil(r - d, Bits) = d
  BY DEF Fits
<1>2. r - d <= Bits * d /\ Bits * d < (r - d) + Bits /\ Bits \in Nat
  BY <1>1, DivCeil, LayoutAssumption DEF Bits
<1>3. Bits * d = d * Bits /\ (d - 1) * Bits = d * Bits - Bits
  BY <1>2
<1> QED
  BY <1>1, <1>2, <1>3

(* validate and read_bitmap accept any superblock that format wrote, on a  *)
(* device of the same size.                                                *)
LEMMA WrittenIsValid ==
  ASSUME LayoutInv, superblock.magic
  PROVE  /\ validate(superblock, superblock.total_blocks)
         /\ superblock.total_blocks >= fixed /\ superblock.total_blocks # 0
         /\ BitmapReadable(superblock.layout.inode_bitmap_blocks, superblock.inode_count)
         /\ BitmapReadable(superblock.layout.data_bitmap_blocks, superblock.layout.data_blocks)
<1> DEFINE total == superblock.total_blocks
           d == superblock.layout.data_bitmap_blocks
           l == Layout(total, d)
<1>1. /\ superblock = from_layout(total, l)
      /\ total >= fixed /\ Fits(total - fixed, d)
  BY DEF LayoutInv, SuperblockOK
<1>2. total \in Nat /\ d \in Nat
  BY DEF LayoutInv, TypeOK, LayoutType
<1>3. /\ superblock.inode_count = MAX_INODES /\ superblock.layout = l
  BY <1>1 DEF from_layout
<1> HIDE DEF total, d
<1>4. total - fixed \in Nat
  BY <1>1, <1>2, FixedRegions
<1>5. (total - fixed) - d <= d * Bits /\ d < total - fixed
  BY <1>1, <1>2, <1>4, FitsMaps DEF Fits
<1>6. total - (fixed + d) \in Nat /\ total - (fixed + d) <= d * Bits
  BY <1>2, <1>5, FixedRegions
<1>7. /\ l.inode_bitmap_start = 1 /\ l.inode_bitmap_blocks = inode_bitmap_blocks
      /\ l.data_bitmap_start = 1 + inode_bitmap_blocks /\ l.data_bitmap_blocks = d
      /\ l.inode_table_start = 1 + inode_bitmap_blocks + d
      /\ l.inode_table_blocks = inode_table_blocks
      /\ l.data_start = fixed + d /\ l.data_blocks = total - (fixed + d)
  BY DEF Layout
<1> HIDE DEF l
<1>8. validate(superblock, total)
  <2>1. superblock.magic /\ superblock.total_blocks = total /\ superblock.inode_count # 0
    BY <1>3, LayoutAssumption DEF total
  <2>2. /\ l.inode_table_start = l.data_bitmap_start + l.data_bitmap_blocks
        /\ l.data_start = l.inode_table_start + l.inode_table_blocks
        /\ l.data_start + l.data_blocks = total
    BY <1>2, <1>7, FixedRegions DEF fixed
  <2>3. /\ l.inode_bitmap_blocks * BITS_PER_BLOCK >= superblock.inode_count
        /\ l.inode_table_blocks * INODES_PER_BLOCK >= superblock.inode_count
    BY <1>3, <1>7, FixedRegions, LayoutAssumption DEF Bits
  <2>4. l.data_bitmap_blocks * BITS_PER_BLOCK >= l.data_blocks
    BY <1>2, <1>6, <1>7, LayoutAssumption DEF Bits
  <2> QED
    BY <1>3, <1>7, <2>1, <2>2, <2>3, <2>4 DEF validate
<1>9. BitmapReadable(inode_bitmap_blocks, MAX_INODES)
  BY FixedRegions, PaddedFits, LayoutAssumption
<1>10. BitmapReadable(d, total - (fixed + d))
  BY <1>2, <1>6, PaddedFits
<1>11. total # 0
  BY <1>1, <1>2, FixedRegions DEF fixed
<1> QED
  BY <1>1, <1>3, <1>7, <1>8, <1>9, <1>10, <1>11 DEF total
------------------------------------------------------------------------------
(* What the search knows of its device at every turn.                      *)
LEMMA SearchFacts ==
  ASSUME LayoutInv, call # "idle"
  PROVE  /\ device_blocks - fixed \in Nat /\ data_bitmap_blocks \in Nat
         /\ FirstTry(device_blocks - fixed) \in Nat
         /\ data_bitmap_blocks <= FirstTry(device_blocks - fixed)
         /\ Room = (device_blocks - fixed) - data_bitmap_blocks
         /\ Room > 0 => FirstTry(device_blocks - fixed) < device_blocks - fixed
<1> DEFINE r == device_blocks - fixed
<1>1. device_blocks \in Nat /\ data_bitmap_blocks \in Nat
  BY LayoutAssumption DEF LayoutInv, TypeOK
<1>2. r \in Nat
  BY <1>1, FixedRegions DEF LayoutInv, SearchOK
<1>3. FirstTry(r) \in Nat
  BY <1>2, DivCeil, LayoutAssumption DEF FirstTry, Bits
<1>4. data_bitmap_blocks <= FirstTry(r) /\ (data_bitmap_blocks = FirstTry(r) \/ FirstTry(r) < r)
  BY DEF LayoutInv, SearchOK
<1>5. Room = r - data_bitmap_blocks
  BY <1>1, FixedRegions DEF Room
<1> HIDE DEF r
<1>6. Room > 0 => FirstTry(r) < r
  BY <1>1, <1>2, <1>3, <1>4, <1>5
<1> QED
  BY <1>1, <1>2, <1>3, <1>4, <1>5, <1>6 DEF r

(* When the search stops with a result, the result fits.                   *)
LEMMA FoundFits ==
  ASSUME LayoutInv, call # "idle", Found
  PROVE  Fits(device_blocks - fixed, data_bitmap_blocks)
<1> DEFINE r == device_blocks - fixed
<1>1. r \in Nat /\ data_bitmap_blocks \in Nat /\ Room = r - data_bitmap_blocks
  BY SearchFacts
<1>2. Room > 0 /\ div_ceil(Room, Bits) = data_bitmap_blocks
  BY DEF Found, NextBitmap, Bits
<1> HIDE DEF r
<1>3. data_bitmap_blocks < r
  BY <1>1, <1>2
<1> QED
  BY <1>1, <1>2, <1>3 DEF Fits, r

(* Begin starts the search at its first try.                               *)
LEMMA BeginOK ==
  ASSUME LayoutInv, NEW c \in {"format", "mount"}, Begin(c), device_blocks >= fixed,
         c = "mount" => superblock.magic /\ superblock.total_blocks = device_blocks
  PROVE  LayoutInv'
<1> DEFINE r == device_blocks - fixed
<1>1. r \in Nat
  BY FixedRegions, LayoutAssumption DEF LayoutInv, TypeOK
<1>2. data_bitmap_blocks' = FirstTry(r) /\ FirstTry(r) \in Nat
  BY <1>1, DivCeil, LayoutAssumption DEF Begin, FirstTry, Bits
<1>3. TypeOK'
  BY <1>2 DEF LayoutInv, TypeOK, Begin
<1>4. SuperblockOK'
  BY DEF LayoutInv, SuperblockOK, Begin
<1>5. SearchOK'
  BY <1>2 DEF SearchOK, Begin
<1>6. MountsWhatWasFormatted'
  BY DEF MountsWhatWasFormatted, Begin
<1> QED
  BY <1>3, <1>4, <1>5, <1>6 DEF LayoutInv

(* A call that ends without touching the superblock only has to report the *)
(* truth about it.                                                         *)
LEMMA EndOK ==
  ASSUME LayoutInv, UNCHANGED superblock,
         NEW is \in {"mounted", "DeviceTooSmall", "InvalidSuperblock"}, End(is),
         is = "mounted" => superblock.magic /\ superblock.total_blocks = device_blocks,
         is = "InvalidSuperblock" =>
           ~ (superblock.magic /\ superblock.total_blocks = device_blocks)
  PROVE  LayoutInv'
<1>1. TypeOK'
  BY DEF LayoutInv, TypeOK, End
<1>2. SuperblockOK'
  BY DEF LayoutInv, SuperblockOK, End
<1>3. SearchOK'
  BY DEF SearchOK, End
<1>4. MountsWhatWasFormatted'
  BY DEF MountsWhatWasFormatted, End
<1> QED
  BY <1>1, <1>2, <1>3, <1>4 DEF LayoutInv
------------------------------------------------------------------------------
(* The mount and the format agree on the layout.                           *)
LEMMA MountAgrees ==
  ASSUME LayoutInv, call = "mount", Found
  PROVE  superblock.layout = Layout(device_blocks, data_bitmap_blocks)
<1> DEFINE r == device_blocks - fixed
           d == superblock.layout.data_bitmap_blocks
<1>1. superblock.magic /\ superblock.total_blocks = device_blocks
  BY DEF LayoutInv, SearchOK
<1>2. Fits(r, d) /\ superblock = from_layout(device_blocks, Layout(device_blocks, d))
  BY <1>1 DEF LayoutInv, SuperblockOK
<1>3. Fits(r, data_bitmap_blocks) /\ r \in Nat /\ data_bitmap_blocks \in Nat
  BY SearchFacts, FoundFits
<1>4. d \in Nat
  BY DEF LayoutInv, TypeOK, LayoutType
<1> HIDE DEF d, r
<1>5. d = data_bitmap_blocks
  BY <1>2, <1>3, <1>4, FitsOnce
<1> QED
  BY <1>2, <1>5 DEF from_layout

(* The superblock that format writes.                                      *)
LEMMA FormatDoneOK ==
  ASSUME LayoutInv, FormatDone
  PROVE  LayoutInv'
<1> DEFINE r == device_blocks - fixed
           l == Layout(device_blocks, data_bitmap_blocks)
<1>1. call # "idle" /\ Found
  BY DEF FormatDone
<1>2. /\ Fits(r, data_bitmap_blocks) /\ r \in Nat /\ data_bitmap_blocks \in Nat
      /\ FirstTry(r) < r
  BY <1>1, SearchFacts, FoundFits DEF Found
<1>3. device_blocks \in Nat /\ device_blocks >= fixed /\ fixed + data_bitmap_blocks <= device_blocks
  BY <1>1, <1>2, FixedRegions, LayoutAssumption DEF LayoutInv, TypeOK, SearchOK, Fits
<1>4. l \in LayoutType /\ l.data_bitmap_blocks = data_bitmap_blocks
  BY <1>2, <1>3, LayoutTyped DEF Layout
<1> HIDE DEF r, l
<1>5. /\ superblock' = from_layout(device_blocks, l) /\ device_blocks' = device_blocks
      /\ call' = "idle" /\ outcome' = "formatted" /\ data_bitmap_blocks' = 0
  BY DEF FormatDone, End, l
<1>6. superblock'.total_blocks = device_blocks /\ superblock'.layout = l
  BY <1>5 DEF from_layout
<1>7. TypeOK'
  BY <1>3, <1>4, <1>5, LayoutAssumption DEF LayoutInv, TypeOK, from_layout
<1>8. SuperblockOK'
  BY <1>2, <1>3, <1>4, <1>5, <1>6 DEF SuperblockOK, r, l
<1>9. SearchOK' /\ MountsWhatWasFormatted'
  BY <1>5 DEF SearchOK, MountsWhatWasFormatted
<1> QED
  BY <1>7, <1>8, <1>9 DEF LayoutInv

(* A turn of the loop stays at or below the first try.                     *)
LEMMA IterateOK ==
  ASSUME LayoutInv, Iterate
  PROVE  LayoutInv'
<1> DEFINE r == device_blocks - fixed
<1>1. /\ r \in Nat /\ data_bitmap_blocks \in Nat /\ Room = r - data_bitmap_blocks
      /\ Room > 0 /\ FirstTry(r) < r
  BY SearchFacts DEF Iterate
<1>2. Room \in Nat /\ Room <= r
  BY <1>1
<1>3. NextBitmap \in Nat /\ NextBitmap <= FirstTry(r)
  BY <1>1, <1>2, DivCeil, DivCeilMonotone, LayoutAssumption DEF NextBitmap, FirstTry, Bits
<1>4. TypeOK'
  BY <1>3 DEF LayoutInv, TypeOK, Iterate
<1>5. SuperblockOK' /\ MountsWhatWasFormatted'
  BY DEF LayoutInv, SuperblockOK, MountsWhatWasFormatted, Iterate
<1>6. SearchOK'
  BY <1>1, <1>3 DEF LayoutInv, SearchOK, Iterate
<1> QED
  BY <1>4, <1>5, <1>6 DEF LayoutInv
------------------------------------------------------------------------------
(* The blank device satisfies the invariant.                               *)
LEMMA InitOK == Init => LayoutInv
<1> SUFFICES ASSUME Init PROVE LayoutInv
  OBVIOUS
<1> DEFINE l == Layout(fixed, 0)
<1>1. l \in LayoutType
  BY LayoutTyped, FixedRegions
<1> HIDE DEF l
<1>2. superblock = [magic |-> FALSE, total_blocks |-> 0, inode_count |-> MAX_INODES, layout |-> l]
  BY DEF Init, Blank, from_layout, l
<1>3. TypeOK
  BY <1>1, <1>2, LayoutAssumption DEF Init, TypeOK
<1> QED
  BY <1>2, <1>3 DEF Init, LayoutInv, SuperblockOK, SearchOK, MountsWhatWasFormatted

(* Every step of format, mount, the search and the environment keeps it.   *)
LEMMA NextOK == LayoutInv /\ [Next]_vars => LayoutInv'
<1> SUFFICES ASSUME LayoutInv, [Next]_vars PROVE LayoutInv'
  OBVIOUS
<1>1. CASE NoRoom
  <2>1. ASSUME call = "mount" PROVE FALSE
    <3>1. superblock.magic /\ superblock.total_blocks = device_blocks
      BY <2>1 DEF LayoutInv, SearchOK
    <3>2. FirstTry(device_blocks - fixed) < device_blocks - fixed
      BY <3>1 DEF LayoutInv, SuperblockOK
    <3>3. /\ device_blocks - fixed \in Nat /\ data_bitmap_blocks \in Nat
          /\ FirstTry(device_blocks - fixed) \in Nat
          /\ data_bitmap_blocks <= FirstTry(device_blocks - fixed)
          /\ Room = (device_blocks - fixed) - data_bitmap_blocks
      BY <2>1, SearchFacts
    <3> QED
      BY <1>1, <3>2, <3>3 DEF NoRoom
  <2>2. End("DeviceTooSmall") /\ UNCHANGED superblock
    BY <1>1, <2>1 DEF NoRoom, Refused, LayoutInv, TypeOK
  <2> QED
    BY <2>2, EndOK
<1>2. CASE Iterate
  BY <1>2, IterateOK
<1>3. CASE FormatDone
  BY <1>3, FormatDoneOK
<1>4. CASE MountDone
  <2>1. call = "mount" /\ Found /\ UNCHANGED superblock
    BY <1>4 DEF MountDone
  <2>2. superblock.magic /\ superblock.total_blocks = device_blocks
    BY <2>1 DEF LayoutInv, SearchOK
  <2>3. End("mounted")
    BY <1>4, <2>1, <2>2, MountAgrees, WrittenIsValid DEF MountDone
  <2> QED
    BY <2>1, <2>2, <2>3, EndOK
<1>5. CASE Format
  <2>1. CASE device_blocks < fixed
    BY <1>5, <2>1, EndOK DEF Format
  <2>2. CASE ~ (device_blocks < fixed)
    <3>1. device_blocks >= fixed
      BY <2>2, FixedRegions, LayoutAssumption DEF LayoutInv, TypeOK
    <3> QED
      BY <1>5, <2>2, <3>1, BeginOK DEF Format
  <2> QED
    BY <2>1, <2>2
<1>6. CASE Mount
  <2> DEFINE refused == \/ device_blocks = 0 \/ ~ validate(superblock, device_blocks)
                        \/ device_blocks < fixed
  <2>1. CASE refused
    <3>1. ~ (superblock.magic /\ superblock.total_blocks = device_blocks)
      BY <2>1, WrittenIsValid, FixedRegions, LayoutAssumption DEF LayoutInv, TypeOK
    <3> QED
      BY <1>6, <2>1, <3>1, EndOK DEF Mount
  <2>2. CASE ~ refused
    <3>1. device_blocks >= fixed
      BY <2>2, FixedRegions, LayoutAssumption DEF LayoutInv, TypeOK
    <3>2. superblock.magic /\ superblock.total_blocks = device_blocks
      BY <2>2 DEF validate
    <3> QED
      BY <1>6, <2>2, <3>1, <3>2, BeginOK DEF Mount
  <2> QED
    BY <2>1, <2>2
<1>7. CASE Copy
  BY <1>7 DEF Copy, LayoutInv, TypeOK, SuperblockOK, SearchOK, MountsWhatWasFormatted
<1>8. CASE UNCHANGED vars
  BY <1>8 DEF vars, LayoutInv, TypeOK, SuperblockOK, SearchOK, MountsWhatWasFormatted
<1> QED
  BY <1>1, <1>2, <1>3, <1>4, <1>5, <1>6, <1>7, <1>8 DEF Next, Search
------------------------------------------------------------------------------
(* An index below the capacity of n blocks of b slots is in one of them.   *)
LEMMA SlotInside ==
  \A i, c, n \in Nat, b \in Nat \ {0} :
    i < c /\ c <= n * b => i \div b \in 0 .. n - 1
<1> SUFFICES ASSUME NEW i \in Nat, NEW c \in Nat, NEW n \in Nat, NEW b \in Nat \ {0},
                    i < c, c <= n * b
             PROVE  i \div b \in 0 .. n - 1
  OBVIOUS
<1>1. i \div b \in Nat /\ i % b \in 0 .. b - 1 /\ i = b * (i \div b) + (i % b)
  BY Division
<1>2. ASSUME n <= i \div b PROVE FALSE
  <2>1. n * b <= b * (i \div b)
    BY <1>1, <1>2
  <2> QED
    BY <1>1, <2>1
<1> QED
  BY <1>1, <1>2

(* The invariant is strong enough for what a mounted filesystem needs.     *)
LEMMA InvRegionsFit == LayoutInv => RegionsFit
<1> SUFFICES ASSUME LayoutInv, outcome = "mounted" PROVE RegionsFit
  BY DEF RegionsFit
<1> DEFINE l == superblock.layout
           d == l.data_bitmap_blocks
           n == inode_table_blocks
<1>1. superblock.magic /\ superblock.total_blocks = device_blocks
  BY DEF LayoutInv, MountsWhatWasFormatted
<1>2. /\ l = Layout(device_blocks, d)
      /\ device_blocks >= fixed /\ Fits(device_blocks - fixed, d)
  BY <1>1 DEF LayoutInv, SuperblockOK, from_layout
<1>3. device_blocks \in Nat /\ d \in Nat
  BY LayoutAssumption DEF LayoutInv, TypeOK, LayoutType
<1>4. /\ l.data_bitmap_start = 1 + inode_bitmap_blocks
      /\ l.inode_table_start = 1 + inode_bitmap_blocks + d
      /\ l.data_start = fixed + d /\ l.data_blocks = device_blocks - (fixed + d)
  BY <1>2 DEF Layout
<1> HIDE DEF l, d
<1>5. /\ device_blocks - fixed \in Nat /\ d < device_blocks - fixed
      /\ (device_blocks - fixed) - d <= d * Bits
      /\ (d - 1) * Bits < (device_blocks - fixed) - d
  <2>1. device_blocks - fixed \in Nat
    BY <1>2, <1>3, FixedRegions
  <2>2. /\ (device_blocks - fixed) - d <= d * Bits
        /\ (d - 1) * Bits < (device_blocks - fixed) - d
    BY <1>2, <1>3, <2>1, FitsMaps
  <2> QED
    BY <1>2, <2>1, <2>2 DEF Fits
<1>6. d # 0
  BY <1>3, <1>5, FixedRegions, LayoutAssumption DEF Bits
<1>7. /\ l.data_blocks \in Nat /\ l.data_blocks <= d * Bits /\ (d - 1) * Bits < l.data_blocks
      /\ l.data_start + l.data_blocks = device_blocks
  BY <1>3, <1>4, <1>5, FixedRegions, LayoutAssumption DEF Bits
<1>8. 1 < l.data_bitmap_start /\ l.data_bitmap_start < l.inode_table_start
  BY <1>3, <1>4, <1>6, FixedRegions
<1>9. l.inode_table_start \in Nat /\ l.inode_table_start + n = l.data_start /\ n \in Nat
  BY <1>3, <1>4, FixedRegions DEF fixed
<1>10. \A i \in 0 .. MAX_INODES - 1 : i \div INODES_PER_BLOCK \in 0 .. n - 1
  BY SlotInside, FixedRegions, LayoutAssumption
<1>11. \A i \in 0 .. MAX_INODES - 1 :
         inode_to_block(l, i).block \in l.inode_table_start .. l.data_start - 1
  <2> SUFFICES ASSUME NEW i \in 0 .. MAX_INODES - 1
               PROVE  l.inode_table_start + i \div INODES_PER_BLOCK
                        \in l.inode_table_start .. l.data_start - 1
    BY DEF inode_to_block
  <2> DEFINE q == i \div INODES_PER_BLOCK
  <2>1. q \in 0 .. n - 1
    BY <1>10
  <2> HIDE DEF q, n
  <2>2. l.inode_table_start + q \in l.inode_table_start .. l.data_start - 1
    BY <1>9, <2>1
  <2> QED
    BY <2>2 DEF q
<1>12. \A i, j \in 0 .. MAX_INODES - 1 : inode_to_block(l, i) = inode_to_block(l, j) => i = j
  <2> SUFFICES ASSUME NEW i \in 0 .. MAX_INODES - 1, NEW j \in 0 .. MAX_INODES - 1,
                      inode_to_block(l, i) = inode_to_block(l, j)
               PROVE  i = j
    OBVIOUS
  <2> DEFINE b == INODES_PER_BLOCK
  <2>1. i \in Nat /\ j \in Nat /\ b \in Nat \ {0}
    BY LayoutAssumption
  <2>2. /\ i \div b \in Nat /\ i = b * (i \div b) + (i % b)
        /\ j \div b \in Nat /\ j = b * (j \div b) + (j % b)
    BY <2>1, Division
  <2>3. l.inode_table_start + i \div b = l.inode_table_start + j \div b /\ i % b = j % b
    BY DEF inode_to_block
  <2>4. i \div b = j \div b
    BY <1>9, <2>2, <2>3
  <2> QED
    BY <2>2, <2>3, <2>4
<1>13. \A k \in 0 .. l.data_blocks - 1 :
         data_block(l, k) \in l.data_start .. device_blocks - 1
  BY <1>3, <1>4, <1>7, FixedRegions DEF data_block
<1>14. MAX_INODES <= (l.data_bitmap_start - 1) * BITS_PER_BLOCK
  <2>1. l.data_bitmap_start - 1 = inode_bitmap_blocks
    BY <1>4, FixedRegions
  <2> QED
    BY <2>1, FixedRegions DEF Bits
<1> QED
  BY <1>7, <1>8, <1>11, <1>12, <1>13, <1>14 DEF RegionsFit, l, d, Bits
------------------------------------------------------------------------------
(* The values of Layout::new and of the superblock are natural numbers: no *)
(* subtraction in them goes below zero, at any device size.                *)
THEOREM LayoutTypeCorrect == Spec => []TypeOK
<1>1. LayoutInv => TypeOK
  BY DEF LayoutInv
<1> QED
  BY <1>1, InitOK, NextOK, PTL DEF Spec

(* However format, mount and copies of the image interleave, the regions   *)
(* of a mounted filesystem tile the device and have room for every inode,  *)
(* every data block and every bit.                                         *)
THEOREM RegionsAlwaysFit == Spec => []RegionsFit
BY InitOK, NextOK, InvRegionsFit, PTL DEF Spec

(* A device mounts exactly if it was formatted at its present size.        *)
THEOREM MountAcceptsFormatted == Spec => []MountsWhatWasFormatted
<1>1. LayoutInv => MountsWhatWasFormatted
  BY DEF LayoutInv
<1> QED
  BY <1>1, InitOK, NextOK, PTL DEF Spec
==============================================================================
