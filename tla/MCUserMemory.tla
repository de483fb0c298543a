------------------------------ MODULE MCUserMemory ------------------------------
(* A small instance of UserMemory: two bullets to migrate, one of which a  *)
(* review or the user may also come up with, and two facts.                *)
EXTENDS UserMemory, TLC

CONSTANTS m1, m2, f1, f2

Bullets == <<m1, m2>>
Found   == {[facts |-> {f1}, memories |-> {m1}], [facts |-> {f2}, memories |-> {}]}
Anyone  == Permutations(Threads) \cup Permutations(Procs)
================================================================================
