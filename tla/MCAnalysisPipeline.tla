------------------------- MODULE MCAnalysisPipeline -------------------------
(***************************************************************************)
(* Instance of AnalysisPipeline for TLC.  LoadBinary (0) is registered by  *)
(* the client only and ParsePE (1) is not cached, as in the source.  2     *)
(* tracks the binary; 3 is cached but always stale; 4 takes what it gets;  *)
(* 1 and 3 are inputs of 4 and 5 both directly and by way of another.      *)
(***************************************************************************)
EXTENDS AnalysisPipeline

MCDeps == [s \in Stages |->
    CASE s = 0 -> << >>
      [] s = 1 -> << 0 >>
      [] s = 2 -> << 0 >>
      [] s = 3 -> << 2, 1 >>
      [] s = 4 -> << 1, 3 >>
      [] s = 5 -> << 3, 4 >>]
=============================================================================
