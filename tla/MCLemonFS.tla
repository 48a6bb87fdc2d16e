------------------------------ MODULE MCLemonFS ------------------------------
(***************************************************************************)
(* Small devices for LemonFSTree.  Files: entries leave a gap at the end   *)
(* of a block, as 28-byte entries do in 512.  Dirs: entries fill blocks,   *)
(* so that directories grow into a second block and give it back.          *)
(***************************************************************************)
EXTENDS LemonFSTree

CONSTANTS nameA, nameB, nameC, longName

(* The outcome of the last call decides nothing but whether the kernel     *)
(* still runs.                                                             *)
MCView == <<device, memory, Running>>

FilesPaths == {<< nameA >>, << nameB >>, << nameA, nameB >>, << Empty >>}
FilesWrites == {<< 1, 2, 3, 4, 5, 6 >>}

(* Three files and "." and ".." are one entry more than block 1 holds.     *)
GapPaths == {<< nameA >>, << nameB >>, << nameC >>}

DirsPaths == {<< nameA >>, << nameB >>, << nameC >>, << nameA, nameB >>, << nameA, Empty >>, << longName >>}
DirsWrites == {<< Lead, Cont, 1, 2, 3 >>}
==============================================================================
