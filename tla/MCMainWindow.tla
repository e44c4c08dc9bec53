---------------------------- MODULE MCMainWindow ----------------------------
(***************************************************************************)
(* Instance of MainWindow for TLC: two files that have a function at the   *)
(* same address, so that a text of the wrong file shows; two analyses and  *)
(* two selections, which may overlap; one change of the options or of the  *)
(* settings, at any moment; at most four commands in all, so that any one  *)
(* of these may be missing, but not all five are there together.           *)
(***************************************************************************)
EXTENDS MainWindow
=============================================================================
