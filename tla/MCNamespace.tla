---------------------------- MODULE MCNamespace ----------------------------
EXTENDS NamespaceInvariant, TLC
CONSTANTS t1, t2, n1, n2, n3
NoDirs == <<>>
TwoDirs == <<n1, n2>>
AtRoot == [t \in Tasks |-> <<>>]
OwnDirs == [t \in Tasks |-> IF t = t1 THEN <<n1>> ELSE <<n2>>]
NameSymmetry == Permutations(Names \ Unstorable)
=============================================================================
