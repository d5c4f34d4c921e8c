----------------------------- MODULE MCCodeSync -----------------------------
(* Code mode for TLC: "u" is an unfinished schema that YAML writes as "s".   *)
EXTENDS CodeSync, TLC

Prune(s) == IF s = "u" THEN "s" ELSE s
=============================================================================
