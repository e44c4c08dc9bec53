------------------------- MODULE MCDisassemblyCache -------------------------
(***************************************************************************)
(* Instance of DisassemblyCache for TLC: two processes and two blocks of   *)
(* different files.  The low bytes of the count 1 are all of it, those of  *)
(* the count 2 are worth nothing.                                          *)
(***************************************************************************)
EXTENDS DisassemblyCache

CONSTANTS p1, p2, k1, k2

MCProcesses == {p1, p2}
MCKeys == {k1, k2}
MCLow == [size \in Sizes |-> size % 2]
MCFileOf == [k \in MCKeys |-> k]
Symmetric == Permutations(MCProcesses) \cup Permutations(MCKeys)
=============================================================================
