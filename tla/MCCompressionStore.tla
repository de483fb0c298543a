------------------------- MODULE MCCompressionStore -------------------------
(***************************************************************************)
(* Instances of CompressionStore for TLC.                                  *)
(***************************************************************************)
EXTENDS CompressionStore, TLC

\* One process in memory, or two that share a smaller file.
Capacity == [b \in {"memory", "sqlite"} |-> IF b = "memory" THEN 2 ELSE 1]

Bounds ==
  [b \in {"memory", "sqlite"} |->
     IF b = "memory" THEN [clock |-> 3, wait |-> 1, stores |-> 6, mishaps |-> 1,
                          refusals |-> 0]
                     ELSE [clock |-> 2, wait |-> 0, stores |-> 3, mishaps |-> 1,
                          refusals |-> 2]]

Symmetry == Permutations(Proc) \cup Permutations(Key)
=============================================================================
