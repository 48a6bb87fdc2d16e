---------------------------- MODULE LemonFSCalls -----------------------------
(***************************************************************************)
(* The LemonShark filesystem (filesystem/src): superblock, two bitmaps,    *)
(* inodes and data blocks on a block device, in front of them the bitmaps  *)
(* and the inode cache in memory.                                          *)
(*                                                                         *)
(* What goes where is what the properties are about, so the model keeps    *)
(* which writes go to the device at once (directory entries, file bytes,   *)
(* new inodes) and which only at the next flush (bitmaps, changed inodes). *)
(* Every operation is an operator on the state of a call: the device, the  *)
(* memory, the outcome so far and the device after each write made, which  *)
(* is what a crash in the middle of the call can leave behind.  The kernel *)
(* (LemonFS) and the image builder (Mkfs) make their calls with them.      *)
(*                                                                         *)
(* A block is a row of cells.  A file byte takes one cell, a DirEntry two  *)
(* (name, inode), so BLOCK_SIZE need not be a multiple of the entry size   *)
(* (512 is not a multiple of 28 either).  Cell 0 is a zeroed cell.         *)
(***************************************************************************)
EXTENDS Integers, FiniteSets, SequencesExt, TLC

CONSTANTS BLOCK_SIZE,    \* cells in a block
          INODE_BLOCKS,  \* block slots in an inode
          MAX_INODES,    \* inodes on the device
          DATA_BLOCKS,   \* data blocks on the device, numbered from 1
          Dot, DotDot,   \* the names "." and ".."
          LongNames      \* names above 24 bytes

DIR_ENTRY_SIZE == 2
DIR_ENTRY_PER_BLOCK == BLOCK_SIZE \div DIR_ENTRY_SIZE

Empty == 0                        \* an empty block slot, and an empty name
INodes == 0 .. MAX_INODES - 1
Blocks == 1 .. DATA_BLOCKS
Root == 0

INode == [size : Nat, blocks : [1 .. INODE_BLOCKS -> Blocks \cup {Empty}],
          is_directory : BOOLEAN]

Errors == {"EmptyName", "NameTooLong", "NotFound", "NotADirectory", "IsDirectory",
           "EntryExists", "NoFreeInodes", "NoFreeInodeBlocks", "NoSpaceLeft",
           "FileTooLarge", "OperationNotSupported", "CorruptedRoot"}
------------------------------------------------------------------------------
(* The state of a call.                                                    *)
Begin(d, m) == [dev |-> d, mem |-> m, res |-> "Ok", cur |-> Root, found |-> Root,
                log |-> << d >>]

Fail(s, err) == [s EXCEPT !.res = err]
IsOk(s) == s.res = "Ok"
Unwrap(s) == IF IsOk(s) THEN s ELSE Fail(s, "Panic")

Written(s, d) == [s EXCEPT !.dev = d, !.log = Append(@, d)]

(* modify_block on a data block, and write_inode_to_disk.                  *)
write_block(s, b, cells) == Written(s, [s.dev EXCEPT !.data[b] = cells])
write_inode_to_disk(s, i, inode) == Written(s, [s.dev EXCEPT !.inode[i] = inode])

ZeroBlock == [c \in 0 .. BLOCK_SIZE - 1 |-> 0]

(* Bitmap::find_free: the lowest clear bit.                                *)
IsLowest(x, S) == x \in S /\ \A y \in S : x <= y
------------------------------------------------------------------------------
(* INodeCache: cache is a function on the inodes that have been read.      *)
get(s, i) ==
  IF i \in DOMAIN s.mem.cache THEN s
  ELSE [s EXCEPT !.mem.cache = @ @@ (i :> s.dev.inode[i])]

get_mut_not_dirty(s, i) == get(s, i)
get_mut(s, i) == [get(s, i) EXCEPT !.mem.dirty = @ \cup {i}]

CacheWithout(cache, i) == [j \in DOMAIN cache \ {i} |-> cache[j]]

remove_keeps_dirty(s, i) == [s EXCEPT !.mem.cache = CacheWithout(@, i)]
remove(s, i) == [s EXCEPT !.mem.cache = CacheWithout(@, i),
                          !.mem.dirty = @ \ {i}]

register_new_inode(s, i, inode) ==
  [s EXCEPT !.mem.cache = (i :> inode) @@ @]
------------------------------------------------------------------------------
NoBlocks == [k \in 1 .. INODE_BLOCKS |-> Empty]
new_empty(is_dir) == [size |-> 0, blocks |-> NoBlocks, is_directory |-> is_dir]

used_blocks(inode) == SelectSeq(inode.blocks, LAMBDA b : b # Empty)
has_space(inode) == \E k \in 1 .. INODE_BLOCKS : inode.blocks[k] = Empty
current_dir_entries(inode) == inode.size \div DIR_ENTRY_SIZE

(* The block and the offset of a directory's k-th entry.                   *)
EntryBlock(inode, k) == used_blocks(inode)[(k - 1) \div DIR_ENTRY_PER_BLOCK + 1]
EntryOffset(k) == ((k - 1) % DIR_ENTRY_PER_BLOCK) * DIR_ENTRY_SIZE

EntryAt(cells, off) == [name |-> cells[off], inode |-> cells[off + 1]]
WithEntry(cells, off, e) == [cells EXCEPT ![off] = e.name, ![off + 1] = e.inode]
NoEntry == [name |-> Empty, inode |-> 0]

Smaller(a, b) == IF a <= b THEN a ELSE b

(* read_dir_entry, and the entries DirEntryReader walks.                   *)
DirEntries(data, inode) ==
  IF ~ inode.is_directory THEN << >>
  ELSE [k \in 1 .. Smaller(current_dir_entries(inode),
                           Len(used_blocks(inode)) * DIR_ENTRY_PER_BLOCK) |->
          EntryAt(data[EntryBlock(inode, k)], EntryOffset(k))]

read_dir_entry(s, i) == DirEntries(s.dev.data, s.mem.cache[i])

(* The inode and the directory entries as a call will find them.           *)
NodeIn(d, m, i) == IF i \in DOMAIN m.cache THEN m.cache[i] ELSE d.inode[i]
EntriesIn(d, m, i) == DirEntries(d.data, NodeIn(d, m, i))

(* The positions of a name among entries; callers take the first.          *)
Found(entries, name) == {k \in 1 .. Len(entries) : entries[k].name = name}
First(entries, name) == CHOOSE k \in Found(entries, name) : IsLowest(k, Found(entries, name))
INodeNamed(entries, name) == entries[First(entries, name)].inode
------------------------------------------------------------------------------
NonEmpty(parts) == SelectSeq(parts, LAMBDA n : n # Empty)

(* One component of a path: from directory s.cur into the next one.        *)
into_directory(s, i) ==
  IF s.mem.cache[i].is_directory THEN [s EXCEPT !.cur = i] ELSE Fail(s, "NotADirectory")

into_anything(s, entries, part) ==
  IF Found(entries, part) = {} THEN Fail(s, "NotFound")
  ELSE [s EXCEPT !.cur = INodeNamed(entries, part)]
into_entry(s, entries, part) ==
  IF Found(entries, part) = {} THEN Fail(s, "NotFound")
  ELSE into_directory(get(s, INodeNamed(entries, part)), INodeNamed(entries, part))

walk_into(s, part) ==
  IF IsOk(s) THEN into_entry(get(s, s.cur), read_dir_entry(get(s, s.cur), s.cur), part)
             ELSE s

walk(s, parts) == FoldLeft(walk_into, s, parts)

(* In the directory that has been reached: s.found is the inode.           *)
find_entry(s, entries, name) ==
  IF Found(entries, name) = {} THEN Fail(s, "NotFound")
  ELSE [s EXCEPT !.found = INodeNamed(entries, name)]

lookup(s, name) ==
  IF IsOk(s) THEN find_entry(get(s, s.cur), read_dir_entry(get(s, s.cur), s.cur), name)
             ELSE s

(* s.cur is the parent afterwards.                                         *)
resolve_path(s, path) == lookup(walk(s, NonEmpty(Front(path))), Last(path))
------------------------------------------------------------------------------
FreeINodes(s) == INodes \ s.mem.inode_bitmap
FreeBlocks(s) == Blocks \ s.mem.data_bitmap

(* s.cur is the new inode afterwards.                                      *)
new_inode(s, inode) ==
  IF FreeINodes(s) = {} THEN Fail(s, "NoFreeInodes") ELSE
  LET i == CHOOSE i \in FreeINodes(s) : IsLowest(i, FreeINodes(s))
      t == [s EXCEPT !.mem.inode_bitmap = @ \cup {i}, !.cur = i]
  IN  register_new_inode(write_inode_to_disk(t, i, inode), i, inode)

(* write_slot, and the data block that an empty slot gets.                 *)
Slot_rounds_up(inode) == (inode.size + BLOCK_SIZE - 1) \div BLOCK_SIZE + 1
Slot(inode) == inode.size \div BLOCK_SIZE + 1
Offset(inode) == inode.size % BLOCK_SIZE

fill_slot(s, i) ==
  LET k == Slot(s.mem.cache[i])
      b == CHOOSE b \in FreeBlocks(s) : IsLowest(b, FreeBlocks(s))
  IN  IF s.mem.cache[i].blocks[k] # Empty THEN s
      ELSE IF FreeBlocks(s) = {} THEN Fail(s, "NoSpaceLeft")
      ELSE [s EXCEPT !.mem.cache[i].blocks[k] = b, !.mem.data_bitmap = @ \cup {b}]

advance(s, i, by) == [s EXCEPT !.mem.cache[i].size = @ + by]

(* An entry that does not fit behind the offset is out of the range of the *)
(* block buffer, which panics.                                             *)
put_entry(s, entry, i) ==
  LET inode == s.mem.cache[i]
      off == Offset(inode)
      b == inode.blocks[Slot(inode)]
  IN  IF ~ IsOk(s) THEN s
      ELSE IF off + DIR_ENTRY_SIZE > BLOCK_SIZE THEN Fail(s, "Panic")
      ELSE advance(write_block(s, b, WithEntry(s.dev.data[b], off, entry)),
                   i, DIR_ENTRY_SIZE)

write_to_directory(s, entry, i) ==
  IF ~ s.mem.cache[i].is_directory THEN Fail(s, "NotADirectory")
  ELSE IF Slot(s.mem.cache[i]) > INODE_BLOCKS THEN Fail(s, "NoFreeInodeBlocks")
  ELSE put_entry(fill_slot(s, i), entry, i)

write_dir_entry(s, entry, i) == write_to_directory(get_mut(s, i), entry, i)

link_entry(s, name, inode, dir) ==
  IF IsOk(s) THEN Unwrap(write_dir_entry(s, [name |-> name, inode |-> inode], dir)) ELSE s

(* The end of new_dir_entry: the entry, and "." and ".." in a new          *)
(* directory.                                                              *)
link_new_inode(s, parent, name, is_dir) ==
  LET linked == link_entry(s, name, s.cur, parent)
  IN  IF ~ IsOk(s) THEN s
      ELSE IF ~ is_dir THEN linked
      ELSE link_entry(link_entry(linked, Dot, s.cur, s.cur), DotDot, parent, s.cur)

add_entry(s, name, is_dir) ==
  IF ~ has_space(s.mem.cache[s.cur]) THEN Fail(s, "NoFreeInodeBlocks")
  ELSE IF Found(read_dir_entry(s, s.cur), name) # {} THEN Fail(s, "EntryExists")
  ELSE link_new_inode(new_inode(s, new_empty(is_dir)), s.cur, name, is_dir)

new_entry_in(s, name, is_dir) ==
  IF IsOk(s) THEN add_entry(get(s, s.cur), name, is_dir) ELSE s

new_dir_entry(s, path, is_dir) ==
  LET parts == NonEmpty(path)
  IN  IF parts = << >> THEN Fail(s, "EmptyName")
      ELSE IF Last(parts) \in LongNames THEN Fail(s, "NameTooLong")
      ELSE new_entry_in(walk(s, Front(parts)), Last(parts), is_dir)
------------------------------------------------------------------------------
(* The copy loop of append_to_file: x.call writes another block of x.rest. *)
copy_block(x, i) ==
  LET s == x.call
      off == Offset(s.mem.cache[i])
      n == Smaller(Len(x.rest), BLOCK_SIZE - off)
      t == fill_slot(s, i)
      b == t.mem.cache[i].blocks[Slot(s.mem.cache[i])]
      cells == [c \in 0 .. BLOCK_SIZE - 1 |->
                  IF c \in off .. off + n - 1 THEN x.rest[c - off + 1] ELSE t.dev.data[b][c]]
  IN  IF x.rest = << >> \/ ~ IsOk(s) THEN x
      ELSE IF Slot(s.mem.cache[i]) > INODE_BLOCKS
      THEN [x EXCEPT !.call = Fail(s, "FileTooLarge")]
      ELSE IF ~ IsOk(t) THEN [x EXCEPT !.call = t]
      ELSE [call |-> advance(write_block(t, b, cells), i, n),
            rest |-> SubSeq(x.rest, n + 1, Len(x.rest))]

(* No slot is left after INODE_BLOCKS rounds.                              *)
append_bytes(s, i, bytes) ==
  LET copied[n \in 0 .. INODE_BLOCKS + 1] ==
        IF n = 0 THEN [call |-> s, rest |-> bytes] ELSE copy_block(copied[n - 1], i)
  IN  copied[INODE_BLOCKS + 1].call

append_to_found(s, bytes) ==
  LET u == get_mut(s, s.found)
      inode == u.mem.cache[s.found]
  IN  IF ~ IsOk(s) THEN s
      ELSE IF inode.is_directory THEN Fail(u, "IsDirectory")
      ELSE IF inode.size + Len(bytes) > INODE_BLOCKS * BLOCK_SIZE THEN Fail(u, "FileTooLarge")
      ELSE append_bytes(u, s.found, bytes)

append_to_file(s, path, bytes) == append_to_found(resolve_path(s, path), bytes)

(* The two bytes of one character; every other byte is a character.        *)
Lead == 194
Cont == 160

IsUtf8(bytes) ==
  \A c \in 1 .. Len(bytes) :
    /\ bytes[c] = Lead => c < Len(bytes) /\ bytes[c + 1] = Cont
    /\ bytes[c] = Cont => c > 1 /\ bytes[c - 1] = Lead

Content(data, inode) ==
  [c \in 1 .. Smaller(inode.size, Len(used_blocks(inode)) * BLOCK_SIZE) |->
     data[used_blocks(inode)[(c - 1) \div BLOCK_SIZE + 1]][(c - 1) % BLOCK_SIZE]]

(* What read_file decodes at a time: the valid bytes of the k-th block.    *)
Chunk(content, k) == SubSeq(content, (k - 1) * BLOCK_SIZE + 1,
                            Smaller(k * BLOCK_SIZE, Len(content)))

FoundContent(s) == Content(s.dev.data, s.mem.cache[s.found])

read_found(s) ==
  IF s.mem.cache[s.found].is_directory THEN Fail(s, "IsDirectory")
  ELSE IF \E k \in 1 .. INODE_BLOCKS : ~ IsUtf8(Chunk(FoundContent(s), k)) THEN Fail(s, "Panic")
  ELSE s

open_found(s) == IF IsOk(s) THEN read_found(get_mut(s, s.found)) ELSE s
read_file(s, path) == open_found(resolve_path(s, path))
------------------------------------------------------------------------------
clear_block_keeps_bit(s, b) == write_block(s, b, ZeroBlock)
clear_block(s, b) ==
  [write_block(s, b, ZeroBlock) EXCEPT !.mem.data_bitmap = @ \ {b}]

(* The swap: the last entry of the directory goes to the device twice,     *)
(* first as a zeroed slot and then, unless it is the one removed, into the *)
(* slot of the removed entry k.                                            *)
swap_remove_drops_last(s, dir, k, n) ==
  LET b == dir.blocks[(n - 1) \div DIR_ENTRY_PER_BLOCK + 1]
  IN  write_block(s, b, WithEntry(s.dev.data[b], EntryOffset(n), NoEntry))
swap_remove_off_by_one(s, dir, k, n) ==
  LET b == dir.blocks[(n - 1) \div DIR_ENTRY_PER_BLOCK + 1]
      last_entry == EntryAt(s.dev.data[b], EntryOffset(n))
      t == write_block(s, b, WithEntry(s.dev.data[b], EntryOffset(n - 1), NoEntry))
      hole == EntryBlock(dir, k)
  IN  IF k = n THEN t
      ELSE write_block(t, hole, WithEntry(t.dev.data[hole], EntryOffset(k), last_entry))
swap_remove(s, dir, k, n) ==
  LET b == dir.blocks[(n - 1) \div DIR_ENTRY_PER_BLOCK + 1]
      last_entry == EntryAt(s.dev.data[b], EntryOffset(n))
      t == write_block(s, b, WithEntry(s.dev.data[b], EntryOffset(n), NoEntry))
      hole == EntryBlock(dir, k)
  IN  IF k = n THEN t
      ELSE write_block(t, hole, WithEntry(t.dev.data[hole], EntryOffset(k), last_entry))

(* The parent's inode gives up a block with no entry left, then 28 bytes.  *)
shrink_parent_keeps_block(s, parent, dir, n) ==
  [get_mut(s, parent) EXCEPT !.mem.cache[parent].size = @ - DIR_ENTRY_SIZE]
shrink_parent(s, parent, dir, n) ==
  LET slot == (n - 1) \div DIR_ENTRY_PER_BLOCK + 1
      t == get_mut(s, parent)
      u == IF (n - 1) % DIR_ENTRY_PER_BLOCK # 0 THEN t
           ELSE [t EXCEPT !.mem.data_bitmap = @ \ {dir.blocks[slot]},
                          !.mem.cache[parent].blocks[slot] = Empty]
  IN  [u EXCEPT !.mem.cache[parent].size = @ - DIR_ENTRY_SIZE]

remove_file(s, name) ==
  LET dir == s.mem.cache[s.cur]
      n == current_dir_entries(dir)
      k == First(read_dir_entry(s, s.cur), name)
      shrunk == shrink_parent(swap_remove(s, dir, k, n), s.cur, dir, n)
      cleared == FoldLeft(clear_block, shrunk, used_blocks(s.mem.cache[s.found]))
  IN  remove([cleared EXCEPT !.mem.inode_bitmap = @ \ {s.found}], s.found)

remove_found(s, name) ==
  LET u == get(s, s.found)
  IN  IF ~ IsOk(s) THEN s
      ELSE IF u.mem.cache[s.found].is_directory THEN Fail(u, "OperationNotSupported")
      ELSE remove_file(u, name)

remove_dir_entry(s, path) == remove_found(resolve_path(s, path), Last(path))
------------------------------------------------------------------------------
(* dump_dir and tree print, and read inodes into the cache to do so.       *)
list_found(s) ==
  LET u == get(s, s.found)
  IN  IF ~ IsOk(s) THEN s
      ELSE IF ~ u.mem.cache[s.found].is_directory THEN Fail(u, "NotADirectory")
      ELSE FoldLeft(LAMBDA v, e : IF e.name = Empty THEN v ELSE get(v, e.inode),
                    u, read_dir_entry(u, s.found))

(* The path "/" is the root, where s.found is at the beginning of a call.  *)
dump_dir(s, path) == list_found(IF path = << Empty >> THEN s ELSE resolve_path(s, path))

Children(entries) == SelectSeq(entries, LAMBDA e : e.name \notin {Dot, DotDot})

(* The inodes tree prints at depth n below the root.  A directory below    *)
(* itself is printed at every depth: the recursion runs out of the stack.  *)
load_tree(s) ==
  LET below(i) == {e.inode : e \in Range(Children(EntriesIn(s.dev, s.mem, i)))}
      depth[n \in 0 .. MAX_INODES] ==
        IF n = 0 THEN {Root} ELSE UNION {below(i) : i \in depth[n - 1]}
      printed == UNION {depth[n] : n \in 0 .. MAX_INODES}
  IN  IF depth[MAX_INODES] # {} THEN Fail(s, "Panic")
      ELSE [s EXCEPT !.mem.cache = [i \in DOMAIN @ \cup printed |-> NodeIn(s.dev, s.mem, i)]]
------------------------------------------------------------------------------
(* drain_ones yields the dirty inodes in ascending order.                  *)
write_dirty(s, i) == write_inode_to_disk(s, i, s.mem.cache[i])

write_inode_bitmap(s) == Written(s, [s.dev EXCEPT !.inode_bitmap = s.mem.inode_bitmap])
write_data_bitmap(s) == Written(s, [s.dev EXCEPT !.data_bitmap = s.mem.data_bitmap])
write_inodes(s) == FoldLeft(write_dirty, s, SetToSortSeq(s.mem.dirty, <))

flush(s) ==
  [write_data_bitmap(write_inode_bitmap(write_inodes(s))) EXCEPT !.mem.dirty = {}]

(* Filesystem::new, of a device that carries a superblock.                 *)
Mounted(d) == [inode_bitmap |-> d.inode_bitmap, data_bitmap |-> d.data_bitmap,
               cache |-> << >>, dirty |-> {}]

validate_root_inode(d) == d.inode[Root].is_directory

BlankDevice == [inode |-> [i \in INodes |-> new_empty(FALSE)],
                data |-> [b \in Blocks |-> ZeroBlock],
                inode_bitmap |-> {}, data_bitmap |-> {}]

create_empty_root(s) ==
  LET t == new_inode(s, new_empty(TRUE))
  IN  link_entry(link_entry(t, Dot, Root, Root), DotDot, Root, Root)

format == flush(create_empty_root(Begin(BlankDevice, Mounted(BlankDevice)))).dev
------------------------------------------------------------------------------
NamedEntries(d, m, i) ==
  SelectSeq(EntriesIn(d, m, i), LAMBDA e : e.name \notin {Dot, DotDot, Empty})

(* The tree of names below directory i: paths to directories and contents. *)
TreeBelow(d, m, i) ==
  LET NodeAt(j) == [dir |-> NodeIn(d, m, j).is_directory,
                    bytes |-> IF NodeIn(d, m, j).is_directory THEN << >>
                              ELSE Content(d.data, NodeIn(d, m, j))]
      Under(name, sub) == [q \in {<< name >> \o r : r \in DOMAIN sub} |-> sub[Tail(q)]]
      below[n \in 0 .. MAX_INODES, j \in INodes] ==
        IF n = 0 THEN << >>
        ELSE FoldLeft(LAMBDA f, e : f @@ (<< e.name >> :> NodeAt(e.inode))
                                      @@ Under(e.name, below[n - 1, e.inode]),
                      << >>, NamedEntries(d, m, j))
  IN  below[MAX_INODES, i]
==============================================================================
