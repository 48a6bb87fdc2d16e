---------------------------- MODULE LemonFSTree ------------------------------
(***************************************************************************)
(* LemonFS with a history variable: the tree of names that a caller could  *)
(* read at this moment.  It is what FileTree's variable is mapped to.      *)
(***************************************************************************)
EXTENDS LemonFS

VARIABLE shown

tvars == <<device, memory, last, shown>>

(* After a panic there is no filesystem to read.                           *)
Shown(d, m, l) == IF l.is = "Panic" THEN << >> ELSE TreeBelow(d, m, Root)

TreeInit == Init /\ shown = Shown(device, memory, last)
TreeNext == Next /\ shown' = Shown(device', memory', last')
TreeSpec == TreeInit /\ [][TreeNext]_tvars

FS == INSTANCE FileTree WITH tree <- shown, MaxFileSize <- INODE_BLOCKS * BLOCK_SIZE

(* The filesystem does what a tree of named files does: each call returns  *)
(* the error its path deserves or has its whole effect, nothing else in    *)
(* the tree moves, cat returns what was appended, and a flush followed by  *)
(* a boot shows the same tree.                                             *)
RefinesFileTree == FS!Spec
==============================================================================
