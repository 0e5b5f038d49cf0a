--------------------------- MODULE MCExtentStore ---------------------------
(* Instances of ExtentStore for TLC. *)
EXTENDS ExtentInvariant, TLC

CONSTANTS t1, t2

TasksSymmetry == Permutations({t1, t2})

AllOfThem == [t \in {t1, t2} |-> {"write", "rewrite", "append", "delete"}]
(* One chain grows while the other is replaced, in one pool. *)
Appender == [t \in {t1, t2} |->
  IF t = t1 THEN {"append"} ELSE {"rewrite", "delete"}]
=============================================================================
