------------------------------ MODULE MCSync ------------------------------
(* Three tasks (two processes and a thread) sharing two locks and one of  *)
(* each other primitive, so a task can wait on a condition with one lock  *)
(* while it holds the other.                                              *)
EXTENDS Sync, TLC

CONSTANTS t1, t2, t3, l1, l2, c1, s1, b1

MCTaskSeq == <<t1, t2, t3>>
MCThreads == {t3}
MCSemInit == [s \in {s1} |-> 0]
MCReach == [b \in {b1} |-> 2]

=============================================================================
