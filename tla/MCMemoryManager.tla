---------------------------- MODULE MCMemoryManager ----------------------------
(* Small instances of MemoryManager: the builtin provider and one external *)
(* provider, a handful of turns.                                           *)
EXTENDS MemoryManager
================================================================================
