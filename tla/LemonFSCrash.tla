---------------------------- MODULE LemonFSCrash -----------------------------
(***************************************************************************)
(* LemonFS on a machine that can lose power: between two calls, after a    *)
(* panic, or after any device write of a call.  What is left is the device *)
(* as that write left it, and the next boot mounts it.  A write of one     *)
(* block is atomic, and the device does not reorder writes (virtio waits   *)
(* for each request, the ramdisk copies).                                  *)
(***************************************************************************)
EXTENDS LemonFS

VARIABLES flushed,  \* history: the tree when the last flush or boot ended
          gone,     \* history: paths removed since then
          crash,    \* "none", or what lost power: an "rm" or another "call"
          moved     \* history: the entry that rm was to move

cvars == <<device, memory, last, flushed, gone, crash, moved>>

Saved == last'.op \in {"flush", "boot"}

(* The calls that write.  cat, ls and tree only fill the cache with what   *)
(* is on the device, and change nothing that a crash could lose.           *)
Changes == \/ \E p \in Paths : \/ mkdir(p) \/ create_file(p) \/ rm(p)
                               \/ \E w \in Writes : write_to_file(p, w)
           \/ Flush \/ ExitAndBoot

(* A call that runs to its end.                                            *)
Complete ==
  /\ crash = "none" /\ Changes
  /\ flushed' = IF Saved THEN TreeBelow(device', memory', Root) ELSE flushed
  /\ gone' = IF Saved THEN {}
             ELSE IF last'.op = "rm" /\ last'.is = "Ok" THEN gone \cup {NonEmpty(last'.path)}
             ELSE gone
  /\ UNCHANGED <<crash, moved>>

(* The last entry of the directory that holds path.                        *)
LastEntry(s, path) ==
  IF IsOk(s) THEN Front(path) \o << Last(read_dir_entry(s, s.cur)).name >> ELSE path

(* Power fails in call s, before it or after one of its writes.            *)
PowerFails(op, s, removing, moving) ==
  \E d \in Range(s.log) :
    /\ device' = d
    /\ memory' = Mounted(d)
    /\ last' = Outcome("boot", << >>, << >>,
                       IF validate_root_inode(d) THEN "Ok" ELSE "CorruptedRoot", << >>)
    /\ crash' = op
    /\ gone' = gone \cup removing /\ moved' = moving
    /\ UNCHANGED flushed

Crash ==
  /\ crash = "none"
  /\ \/ PowerFails("call", Call, {}, moved)
     \/ /\ Running
        /\ \/ PowerFails("call", flush(Call), {}, moved)
           \/ \E p \in Paths :
                \/ PowerFails("call", new_dir_entry(Call, p, TRUE), {}, moved)
                \/ PowerFails("call", new_dir_entry(Call, p, FALSE), {}, moved)
                \/ PowerFails("rm", remove_dir_entry(Call, p), {NonEmpty(p)},
                              LastEntry(resolve_path(Call, p), p))
                \/ \E w \in Writes : PowerFails("call", append_to_file(Call, p, w), {}, moved)

(* Files created and written after the crash, on what the boot found.      *)
Resume ==
  /\ crash # "none"
  /\ \E p \in Paths : create_file(p) \/ \E w \in Writes : write_to_file(p, w)
  /\ UNCHANGED <<flushed, gone, crash, moved>>

CrashInit == Init /\ flushed = << >> /\ gone = {} /\ crash = "none"
             /\ moved = << >>

CrashSpec == CrashInit /\ [][Complete \/ Crash]_cvars
ResumeSpec == CrashInit /\ [][Complete \/ Crash \/ Resume]_cvars
------------------------------------------------------------------------------
Nowhere == MAX_INODES

(* The inode a path leads to on a device that has just been mounted.       *)
INodeOf(d, path) ==
  LET into(i, name) ==
        LET entries == DirEntries(d.data, d.inode[i]) IN
        IF Found(entries, name) = {} THEN Nowhere ELSE entries[First(entries, name)].inode
  IN  FoldLeft(LAMBDA i, name : IF i = Nowhere THEN i ELSE into(i, name), Root, path)

Readable(d, path, node) ==
  LET i == INodeOf(d, path) IN
  /\ i # Nowhere
  /\ d.inode[i].is_directory = node.dir
  /\ IsPrefix(node.bytes, Content(d.data, d.inode[i]))

Lost == {p \in DOMAIN flushed \ gone : ~ Readable(device, p, flushed[p])}

(* What a flush has saved survives a crash.  Outside remove_dir_entry,     *)
(* wherever power fails, the device mounts again and every path that was   *)
(* in the tree at the last flush and has not been removed since is there,  *)
(* with at least the bytes it had then.  Entries, file bytes and blocks    *)
(* written at once must never overwrite what the inodes on disk refer to.  *)
FlushedDataSurvives ==
  crash \notin {"none", "rm"} => last.is = "Ok" /\ Lost = {}

(* The swap in remove_dir_entry takes the last entry off the device before *)
(* it writes it over the removed one: power lost in between loses that     *)
(* entry too, but only that one and what is below it, whether or not the   *)
(* two are in one block.                                                   *)
RemoveLosesOneEntry == crash = "rm" => \A p \in Lost : IsPrefix(moved, p)
------------------------------------------------------------------------------
RootFiles == {i \in {e.inode : e \in Range(NamedEntries(device, memory, Root))} :
                ~ NodeIn(device, memory, i).is_directory}

(* A block is assigned to a single file, also after a crash.               *)
BlockInOneFile ==
  \A i, j \in RootFiles : \A k, l \in 1 .. INODE_BLOCKS :
    i # j /\ NodeIn(device, memory, i).blocks[k] # Empty =>
      NodeIn(device, memory, i).blocks[k] # NodeIn(device, memory, j).blocks[l]
==============================================================================
