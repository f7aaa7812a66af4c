----------------------------- MODULE MCDispatch -----------------------------
(* The values TLC gives the constants of Dispatch: a client machine l with *)
(* its own executor, and a remote executor r.                              *)
EXTENDS Dispatch, TLC

CONSTANTS c1, c2, k1, k2, l, r, lw1, lw2, rw1

OneKeyEach == c1 :> k1 @@ c2 :> k2
OneKey     == c1 :> k1
SameKey    == c1 :> k1 @@ c2 :> k1

(* Worker pools: two workers on l and one on r; one on each; one on l.     *)
TwoAndOne  == lw1 :> l @@ lw2 :> l @@ rw1 :> r
OneAndOne  == lw1 :> l @@ rw1 :> r
OneOnLocal == lw1 :> l
=============================================================================
