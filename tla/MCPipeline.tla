---------------------------- MODULE MCPipeline ----------------------------
(* The deployment for TLC. *)
EXTENDS Pipeline, TLC

SinkSymmetry == Permutations(Sinks)
=============================================================================
