---------------------------- MODULE CommandLease ----------------------------
(***************************************************************************)
(* What the claim protocol promises about one submitted command, free of   *)
(* stores, queues, messages and failures: a command is leased to at most   *)
(* one worker at a time, and once a worker has run it to success nobody    *)
(* is ever leased it again.                                                *)
(***************************************************************************)
CONSTANTS Keys, Workers

VARIABLES
  holders,   (* holders[k]: the workers that hold the lease of command k.   *)
  finished   (* The commands some holder has run to success.                *)

vars == <<holders, finished>>

Init ==
  /\ holders = [k \in Keys |-> {}]
  /\ finished = {}

(* The lease is granted only while it is free and the command unfinished.   *)
Acquire(k, w) ==
  /\ holders[k] = {}
  /\ k \notin finished
  /\ holders' = [holders EXCEPT ![k] = {w}]
  /\ UNCHANGED finished

(* The holder, and only the holder, reports success.                        *)
Complete(k, w) ==
  /\ holders[k] = {w}
  /\ finished' = finished \cup {k}
  /\ UNCHANGED holders

Release(k, w) ==
  /\ holders[k] = {w}
  /\ holders' = [holders EXCEPT ![k] = {}]
  /\ UNCHANGED finished

Next == \E k \in Keys, w \in Workers :
          Acquire(k, w) \/ Complete(k, w) \/ Release(k, w)

Spec == Init /\ [][Next]_vars
=============================================================================
