--------------------------- MODULE MCExecutorEnv ---------------------------
(* The calls TLC gives the constants of ExecutorEnv.                       *)
EXTENDS ExecutorEnv

CONSTANTS p1, p2, s1, s2, x1, x2
=============================================================================
