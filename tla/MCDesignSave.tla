---------------------------- MODULE MCDesignSave ----------------------------
(* The designer's document and save flow for TLC. *)
EXTENDS DesignSave, TLC

OneRow == <<[name |-> "a", path |-> "a"]>>
TwoRows == <<[name |-> "a", path |-> "a"], [name |-> "b", path |-> "p"]>>
=============================================================================
