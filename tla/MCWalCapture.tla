---------------------------- MODULE MCWalCapture ----------------------------
(* The WAL capture for TLC. *)
EXTENDS WalCapture
=============================================================================
