-------------------------- MODULE MCOpensearchSink --------------------------
(* The OpenSearch sink for TLC. *)
EXTENDS OpensearchSink
=============================================================================
