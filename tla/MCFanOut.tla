------------------------------ MODULE MCFanOut ------------------------------
(* Three executors: one may succeed, one fail and one be late.             *)
EXTENDS FanOut

CONSTANTS e1, e2, e3
=============================================================================
