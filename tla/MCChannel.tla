----------------------------- MODULE MCChannel -----------------------------
(* The channel of a sink lane (one handle) and of the request lane         *)
(* (several), for TLC.                                                     *)
EXTENDS Channel
=============================================================================
