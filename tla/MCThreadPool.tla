---------------------------- MODULE MCThreadPool ----------------------------
(***************************************************************************)
(* Instance of ThreadPool for TLC: two workers and three calls.  Call a    *)
(* has two chunks (indices 0..1 and 2), b one chunk; the first chunk of a  *)
(* makes the nested call n, which has two chunks.  With a worker busy in   *)
(* the nested call the other one has to do everything else.                *)
(***************************************************************************)
EXTENDS ThreadPool, TLC

CONSTANTS a, b, n       \* the calls

MCTotal == (a :> 3) @@ (b :> 1) @@ (n :> 3)
MCMin   == (a :> 1) @@ (b :> 1) @@ (n :> 2)
MCHost  == (a :> NoTask) @@ (b :> NoTask) @@ (n :> <<a, 0>>)
=============================================================================
