--------------------------- MODULE MCParallelScan ---------------------------
(***************************************************************************)
(* Instance of ParallelScan for TLC: every section of four bytes, two      *)
(* workers in the same or in different buckets, chunks of two bytes and a  *)
(* lookahead of one byte, so that functions touch, overlap across chunks   *)
(* and overlap in chains, and the last prologue is too close to the end.   *)
(***************************************************************************)
EXTENDS ParallelScan
=============================================================================
