-------------------------- MODULE MCConnectionPool --------------------------
(* Instances of ConnectionPool for TLC: the threads are model values.      *)
EXTENDS ConnectionPool, TLC

CONSTANTS t1, t2

OneThread == {t1}
TwoThreads == {t1, t2}
Symmetric == Permutations(TwoThreads)
=============================================================================
