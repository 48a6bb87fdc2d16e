------------------------------- MODULE LemonFS -------------------------------
(***************************************************************************)
(* The kernel's use of LemonFS: a mounted filesystem, called by the shell, *)
(* flushed and left by exit and mounted again by the next boot.            *)
(***************************************************************************)
EXTENDS LemonFSCalls

CONSTANTS Paths,         \* the paths callers use: what follows the first '/'
          Writes         \* the byte strings callers append

Cells == [0 .. BLOCK_SIZE - 1 -> Nat \cup {Dot, DotDot} \cup LongNames
                                   \cup UNION {Range(p) : p \in Paths}]

VARIABLES device,   \* inode table, data blocks and the two bitmaps on disk
          memory,   \* Filesystem: the bitmaps, and INodeCache
          last      \* the last call and how it ended

vars == <<device, memory, last>>
------------------------------------------------------------------------------
(* What a call was, and how it ended.                                      *)
Outcome(op, path, arg, is, bytes) ==
  [op |-> op, path |-> path, arg |-> arg, is |-> is, bytes |-> bytes]

Call == Begin(device, memory)

Return(s, op, path, arg, bytes) ==
  /\ device' = s.dev
  /\ memory' = s.mem
  /\ last' = Outcome(op, path, arg, s.res, bytes)

(* The panic handler loops for ever, and without a mount there is no       *)
(* filesystem to call.                                                     *)
Running == last.is \notin {"Panic", "CorruptedRoot"}

mkdir(p) == Running /\ Return(new_dir_entry(Call, p, TRUE), "mkdir", p, << >>, << >>)
create_file(p) == Running /\ Return(new_dir_entry(Call, p, FALSE), "create", p, << >>, << >>)
write_to_file(p, w) == Running /\ Return(append_to_file(Call, p, w), "write", p, w, << >>)
rm(p) == Running /\ Return(remove_dir_entry(Call, p), "rm", p, << >>, << >>)
ls(p) == Running /\ Return(dump_dir(Call, p), "ls", p, << >>, << >>)
tree == Running /\ Return(load_tree(Call), "tree", << >>, << >>, << >>)
Flush == Running /\ Return(flush(Call), "flush", << >>, << >>, << >>)

Show(s, path) ==
  Return(s, "cat", path, << >>, IF IsOk(s) THEN FoundContent(s) ELSE << >>)
cat(p) == Running /\ Show(read_file(Call, p), p)

(* The shell's exit flushes and leaves; the next boot mounts the device.   *)
ExitAndBoot ==
  /\ Running
  /\ device' = flush(Call).dev
  /\ memory' = Mounted(device')
  /\ last' = Outcome("boot", << >>, << >>,
                     IF validate_root_inode(device') THEN "Ok" ELSE "CorruptedRoot", << >>)

Init == /\ device = format
        /\ memory = Mounted(device)
        /\ last = Outcome("boot", << >>, << >>, "Ok", << >>)

Next == \/ \E p \in Paths : \/ mkdir(p) \/ create_file(p) \/ rm(p) \/ cat(p) \/ ls(p)
                            \/ \E w \in Writes : write_to_file(p, w)
        \/ tree \/ Flush \/ ExitAndBoot

Spec == Init /\ [][Next]_vars
------------------------------------------------------------------------------
TypeOK ==
  /\ device.inode \in [INodes -> INode]
  /\ device.data \in [Blocks -> Cells]
  /\ device.inode_bitmap \subseteq INodes /\ memory.inode_bitmap \subseteq INodes
  /\ device.data_bitmap \subseteq Blocks /\ memory.data_bitmap \subseteq Blocks
  /\ memory.dirty \subseteq DOMAIN memory.cache
  /\ \A i \in DOMAIN memory.cache : memory.cache[i] \in INode
  /\ last.is \in {"Ok", "Panic"} \cup Errors

Node(i) == NodeIn(device, memory, i)
Directories == {i \in memory.inode_bitmap : Node(i).is_directory}

(* A block is in use exactly when one slot of one allocated inode holds    *)
(* it: no two files share a block, and none is lost when a call fails half *)
(* way or a file is removed.                                               *)
BlocksOwnedOnce ==
  Running =>
    \A b \in Blocks :
      Cardinality({x \in memory.inode_bitmap \X (1 .. INODE_BLOCKS) :
                     Node(x[1]).blocks[x[2]] = b})
        = IF b \in memory.data_bitmap THEN 1 ELSE 0

(* An inode is in use exactly when it is the root or one entry of one      *)
(* directory names it, and a directory names its parent and itself.        *)
INodesLinkedOnce ==
  LET entries == [i \in Directories |-> EntriesIn(device, memory, i)]
      named == [i \in Directories |-> NamedEntries(device, memory, i)]
      links == UNION {{[dir |-> i, k |-> k, to |-> named[i][k].inode] :
                         k \in DOMAIN named[i]} : i \in Directories}
  IN  Running =>
        /\ \A i \in INodes \ {Root} :
             Cardinality({l \in links : l.to = i})
               = IF i \in memory.inode_bitmap THEN 1 ELSE 0
        /\ \A l \in links : l.to \in Directories => entries[l.to][2].inode = l.dir
        /\ \A i \in Directories : /\ entries[i][1] = [name |-> Dot, inode |-> i]
                                  /\ entries[i][2].name = DotDot

(* An inode the cache does not hold as dirty is on disk as it is in memory *)
(* if it is allocated, so that dropping it or skipping it at the flush     *)
(* loses nothing.                                                          *)
CacheCoherent ==
  \A i \in memory.inode_bitmap \cap DOMAIN memory.cache :
    i \notin memory.dirty => memory.cache[i] = device.inode[i]

(* read_file and read_dir_entry walk the used slots and trust the size:    *)
(* the slots in use are the first ones, as many as the size needs.         *)
SlotsMatchSize ==
  Running =>
    \A i \in memory.inode_bitmap : \A k \in 1 .. INODE_BLOCKS :
      Node(i).blocks[k] # Empty <=> (k - 1) * BLOCK_SIZE < Node(i).size
------------------------------------------------------------------------------
(* mkdir and create_file report a directory or a disk that is full as an   *)
(* error.                                                                  *)
CreateNeverPanics == last.op \in {"mkdir", "create"} => last.is # "Panic"
==============================================================================
