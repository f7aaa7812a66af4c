------------------------------- MODULE Session -------------------------------
(***************************************************************************)
(* What the proxy promises a client about one project, free of caches,     *)
(* connections, concurrent calls and peers that come and go: one build     *)
(* session after the other, in which executors are prepared one by one,    *)
(* every command goes to exactly the prepared ones, and each of them is    *)
(* cleaned up, once, before the session closes.                            *)
(***************************************************************************)
CONSTANT PeerIDs

VARIABLES
  phase,     (* Where the session is.                                       *)
  members,   (* The executors prepared and not yet cleaned up.              *)
  env,       (* env[p]: what executor p has of the project, as in module    *)
             (* ProjectEnv.                                                 *)
  sent       (* <<e, p>>: a command for e went to p.                        *)

vars == <<phase, members, env, sent>>

Init ==
  /\ phase = "closed"
  /\ members = {}
  /\ env = [p \in PeerIDs |-> "none"]
  /\ sent = {}

Begin ==
  /\ phase = "closed"
  /\ phase' = "preparing"
  /\ UNCHANGED <<members, env, sent>>

(* An executor joins once, and may be wrong about being ready.             *)
Prepare(p) ==
  /\ phase = "preparing" /\ p \notin members
  /\ members' = members \cup {p}
  /\ env' \in {env, [env EXCEPT ![p] = "ready"]}
  /\ UNCHANGED <<phase, sent>>

Open ==
  /\ phase = "preparing" /\ members # {}
  /\ phase' = "open"
  /\ UNCHANGED <<members, env, sent>>

(* A command goes to all members, and to each as itself.                   *)
Forward ==
  /\ phase = "open"
  /\ sent' = sent \cup {<<p, p>> : p \in members}
  /\ UNCHANGED <<phase, members, env>>

BeginClear ==
  /\ phase = "open"
  /\ phase' = "clearing"
  /\ UNCHANGED <<members, env, sent>>

(* A member leaves once, also when it could not clean up.                   *)
Clean(p) ==
  /\ phase = "clearing" /\ p \in members
  /\ members' = members \ {p}
  /\ \E left \in {"none", "stuck"} : env' = [env EXCEPT ![p] = left]
  /\ UNCHANGED <<phase, sent>>

Close ==
  /\ phase = "clearing" /\ members = {}
  /\ phase' = "closed"
  /\ UNCHANGED <<members, env, sent>>

Next ==
  \/ Begin \/ Open \/ Forward \/ BeginClear \/ Close
  \/ \E p \in PeerIDs : Prepare(p) \/ Clean(p)

Spec == Init /\ [][Next]_vars
=============================================================================
