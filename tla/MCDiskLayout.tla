----------------------------- MODULE MCDiskLayout ----------------------------
EXTENDS DiskLayout

(* From no block to seven bitmap blocks, beyond the six sizes at which     *)
(* the search alternates.                                                  *)
MCSizes == 0 .. 50
==============================================================================
