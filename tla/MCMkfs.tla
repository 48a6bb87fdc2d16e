------------------------------- MODULE MCMkfs --------------------------------
(***************************************************************************)
(* Two builds of one output.  A block takes four directory entries and has *)
(* a byte left over, as one of 512 bytes has eight: the fifth entry of a   *)
(* directory, the third besides "." and "..", does not fit.  An inode has  *)
(* two blocks, so a file has up to eighteen bytes.                         *)
(***************************************************************************)
EXTENDS Mkfs

CONSTANTS nameA, nameB, nameC, longName, badName

MCNames == << nameA, nameB, nameC, longName, badName >>
MCHostDirs == {<< >>, << "rootfs" >>, << "img" >>}

InImg == << << "--output" >>, << "img", "disk" >> >>
MCCommandLines ==
  {<< >>, InImg, InImg \o << << "--blocks" >>, << "small" >> >>,
   InImg \o << << "--blocks" >>, << "above u32" >> >>,
   << << "--blocks" >> >>, << << "--help" >> >>,
   << << "--output" >>, << "rootfs", "disk" >> >>}

Bytes(n) == [k \in 1 .. n |-> k]
Dir == [kind |-> "dir", bytes |-> << >>]
FileOf(n) == [kind |-> "file", bytes |-> Bytes(n)]
Link == [kind |-> "other", bytes |-> << >>]

MCTrees == {
  (<< nameA >> :> Dir) @@ (<< nameA, nameB >> :> FileOf(5)) @@ (<< nameB >> :> FileOf(0)),
  (<< nameA >> :> Dir) @@ (<< nameA, nameB >> :> FileOf(18)) @@ (<< nameB >> :> FileOf(0)),
  (<< nameA >> :> Link) @@ (<< nameB >> :> FileOf(18)) @@ (<< nameC >> :> FileOf(0)),
  (<< nameB >> :> FileOf(19)),
  (<< nameA >> :> FileOf(18)) @@ (<< nameB >> :> FileOf(18)),
  (<< nameA >> :> FileOf(10)) @@ (<< nameB >> :> Dir) @@ (<< nameB, nameC >> :> Dir),
  (<< nameA >> :> FileOf(0)) @@ (<< nameB >> :> FileOf(0)) @@ (<< nameC >> :> FileOf(0)),
  (<< nameA >> :> Dir) @@ (<< nameA, nameB >> :> Dir) @@ (<< nameA, nameC >> :> FileOf(1))
     @@ (<< nameB >> :> FileOf(1)),
  (<< nameA >> :> FileOf(1)) @@ (<< longName >> :> Dir),
  (<< nameA >> :> FileOf(1)) @@ (<< badName >> :> FileOf(1)) }

MCEdits == {Bytes(19), << 9 >>}
MCSymmetry == Permutations(Builds) \cup Permutations(Pids)
==============================================================================
