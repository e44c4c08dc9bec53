------------------------- MODULE MCRevngDecompiler -------------------------
(***************************************************************************)
(* Instance of RevngDecompiler for TLC: two binaries, two lifts (the       *)
(* second may supersede the first), and at one address an asynchronous and *)
(* a synchronous request for pseudocode and a request for the CFG.         *)
(***************************************************************************)
EXTENDS RevngDecompiler, TLC

CONSTANTS async, sync, cfg, rva

MCKind == (async :> "async") @@ (sync :> "sync") @@ (cfg :> "cfg")
MCRva  == (async :> rva) @@ (sync :> rva) @@ (cfg :> rva)
=============================================================================
