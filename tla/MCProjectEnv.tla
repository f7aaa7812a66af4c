---------------------------- MODULE MCProjectEnv ----------------------------
(* A client machine l, another machine r, and the connections between them. *)
EXTENDS ProjectEnv, TLC

CONSTANTS l, r, n1, n2, i1, i2, f1, f2, x1, x2

ToR == n1 :> r @@ n2 :> r
=============================================================================
