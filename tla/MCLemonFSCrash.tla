--------------------------- MODULE MCLemonFSCrash ----------------------------
(***************************************************************************)
(* A block takes four directory entries and has a byte left over, as one   *)
(* of 512 bytes has eight; a file grows within a block and into its second *)
(* and last one.                                                           *)
(***************************************************************************)
EXTENDS LemonFSCrash

CONSTANTS nameA, nameB

MCView == <<device, memory, Running, flushed, gone, crash, moved>>

MCPaths == {<< nameA >>, << nameB >>, << nameA, nameB >>}
MCWrites == {<< 1, 2, 3, 4, 5, 6 >>}

RootPaths == {<< nameA >>, << nameB >>}
==============================================================================
