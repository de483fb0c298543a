---------------------------- MODULE MCSessionMemory ----------------------------
(* Small instances of SessionMemory: batches of two messages.              *)
EXTENDS SessionMemory, TLC

(* Turns differ in nothing but their name.                                 *)
Anyone == Permutations(Writers)
================================================================================
