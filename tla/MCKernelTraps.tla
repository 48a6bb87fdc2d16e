---------------------------- MODULE MCKernelTraps ----------------------------
(***************************************************************************)
(* Boot and up to three commands, of any kind, with every outcome of an    *)
(* allocation, a device and a mount, MAX_LOST transmissions to the console *)
(* that fail, and the timer at any instruction.                            *)
(***************************************************************************)
EXTENDS KernelTraps
==============================================================================
