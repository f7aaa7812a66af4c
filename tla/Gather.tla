------------------------------- MODULE Gather -------------------------------
(***************************************************************************)
(* What collecting the executors' replies to one request promises: success *)
(* as soon as some executor has replied "ok", "exhausted" (which sends the *)
(* command to the local executor once more) only when every executor has   *)
(* replied and none of the replies is "ok".  The client may give up while  *)
(* the matter is open; a verdict is never changed.                         *)
(***************************************************************************)
CONSTANT Executors

VARIABLES
  reply,    (* reply[e]: what executor e replied, or "none".                *)
  verdict

vars == <<reply, verdict>>

Init ==
  /\ reply = [e \in Executors |-> "none"]
  /\ verdict = "open"

Reply(e) ==
  /\ reply[e] = "none"
  /\ \E answer \in {"ok", "bad"} : reply' = [reply EXCEPT ![e] = answer]
  /\ UNCHANGED verdict

Decide(v) == verdict = "open" /\ verdict' = v /\ UNCHANGED reply

Succeed == (\E e \in Executors : reply[e] = "ok") /\ Decide("success")
Exhaust == (\A e \in Executors : reply[e] = "bad") /\ Decide("exhausted")
GiveUp  == Decide("cancelled")

Next == (\E e \in Executors : Reply(e)) \/ Succeed \/ Exhaust \/ GiveUp

Spec == Init /\ [][Next]_vars
=============================================================================
