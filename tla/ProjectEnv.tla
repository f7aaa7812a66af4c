----------------------------- MODULE ProjectEnv -----------------------------
(***************************************************************************)
(* What the proxy keeps of one project: the executors it was given and the *)
(* connections to them, in two maps that are filled and read separately    *)
(* and correspond by index.  The handlers InitializeBuildEnv,              *)
(* ForwardAndExecute and ClearBuildEnv, cut at each access to the maps and *)
(* at each call to an executor.                                            *)
(*                                                                         *)
(* A connection is named by the peer it leads to.                          *)
(***************************************************************************)
EXTENDS Peers, Integers, Sequences, FiniteSets, FiniteSetsExt, Functions

CONSTANTS
  Inits, Forwards, Clears,   (* The client's calls of the three handlers.   *)
  WorkerNum,                 (* Executors the client asks for.              *)
  Faulty,                    (* How calls to executors may fail.            *)
  None

Calls == Inits \cup Forwards \cup Clears

ASSUME ProjectEnvAssumption ==
  /\ IsFiniteSet(PeerIDs)
  /\ WorkerNum \in Nat
  /\ Faulty \subseteq {"unreachable", "mount", "status", "umount"}
  /\ None \notin PeerIDs
  /\ Inits \cap Forwards = {} /\ Inits \cap Clears = {} /\ Forwards \cap Clears = {}

VARIABLES
  projectToExecutors,  (* The executors of the project, or None.            *)
  grpcClients,         (* The cached connections of the project, or None.   *)
  pc,                  (* Where each call is, or how it ended.              *)
  executors, conns,    (* The call's executors and connections.             *)
  next,                (* The index its loop over the connections is at.    *)
  ready,               (* The executors prepareEnvironments counts.         *)
  env,                 (* env[p]: the project's environment at executor p:  *)
                       (* a runner with its mount is "ready", without one   *)
                       (* "bare", one that could not be cleaned up "stuck". *)
  sent,                (* <<e, p>>: a command for e went to p.              *)
  daemon               (* The proxy is up, or why it is not.                *)

local == <<executors, conns, next, ready>>

vars == <<peers, conn, projectToExecutors, grpcClients, pc, local, env, sent, daemon>>

(* Lists of different peers.                                               *)
Lists == UNION {{q \in [1..n -> PeerIDs] : IsInjective(q)} : n \in 0..Cardinality(PeerIDs)}

ASSUME NoneAssumption == None \notin Lists

TypeOK ==
  /\ PeersTypeOK
  /\ projectToExecutors \in Lists \cup {None}
  /\ grpcClients \in Lists \cup {None}
  /\ pc \in [Calls -> {"idle", "connecting", "dialing", "calling", "forgetting", "dropping",
                       "ok", "failed", "refused"}]
  /\ executors \in [Calls -> Lists] /\ conns \in [Calls -> Lists] /\ ready \in [Calls -> Lists]
  /\ next \in [Calls -> 1..Cardinality(PeerIDs) + 1]
  /\ env \in [PeerIDs -> {"none", "bare", "ready", "stuck"}]
  /\ sent \subseteq PeerIDs \X PeerIDs
  /\ daemon \in {"up", "panicked", "fatal"}

Init ==
  /\ PeersInit
  /\ projectToExecutors = None /\ grpcClients = None
  /\ pc = [a \in Calls |-> "idle"]
  /\ executors = [a \in Calls |-> <<>>] /\ conns = [a \in Calls |-> <<>>]
  /\ next = [a \in Calls |-> 1] /\ ready = [a \in Calls |-> <<>>]
  /\ env = [p \in PeerIDs |-> "none"]
  /\ sent = {}
  /\ daemon = "up"

(* A step of a handler: the process is up, and the peers are not its matter. *)
Handles == daemon = "up" /\ UNCHANGED peerVars

Goto(a, place) == pc' = [pc EXCEPT ![a] = place]

Die(why) == daemon' = why

Pending == {a \in Calls : pc[a] \notin {"idle", "ok", "failed", "refused"}}

-----------------------------------------------------------------------------
(* The client builds in sessions: it initialises, forwards commands         *)
(* concurrently, and clears when they have been answered.                  *)

MayInitialize(a) == pc[a] = "idle" /\ Pending = {} /\ projectToExecutors = None
MayForward(a)    == pc[a] = "idle" /\ Pending \subseteq Forwards
MayClear(a)      == pc[a] = "idle" /\ Pending = {}

-----------------------------------------------------------------------------
(* getOrCreateGrpcConnsForProject: a look-up, and a store when it missed.   *)

LoadConns(a) ==
  /\ Handles /\ pc[a] = "connecting"
  /\ IF grpcClients = None
     THEN Goto(a, "dialing") /\ UNCHANGED conns
     ELSE Goto(a, "calling") /\ conns' = [conns EXCEPT ![a] = grpcClients]
  /\ UNCHANGED <<projectToExecutors, grpcClients, executors, next, ready, env, sent, daemon>>

(* The connections are dialled without blocking, in the executors' order.  *)
StoreConns(a) ==
  /\ Handles /\ pc[a] = "dialing"
  /\ conns' = [conns EXCEPT ![a] = executors[a]]
  /\ grpcClients' = executors[a]
  /\ Goto(a, "calling")
  /\ UNCHANGED <<projectToExecutors, executors, next, ready, env, sent, daemon>>

-----------------------------------------------------------------------------
(* InitializeBuildEnv.                                                     *)

(* The first WorkerNum of the active peers, in the random order in which    *)
(* List walks its map.                                                     *)
PickActiveExecutors ==
  {q \in Lists : Range(q) \in kSubset(Min({WorkerNum, Cardinality(peers)}), peers)}

InitializeBuildEnv(a) ==
  /\ Handles /\ MayInitialize(a)
  /\ \E picked \in PickActiveExecutors :
       IF picked = <<>>
       THEN Goto(a, "failed") /\ UNCHANGED executors
       ELSE Goto(a, "connecting") /\ executors' = [executors EXCEPT ![a] = picked]
  /\ UNCHANGED <<projectToExecutors, grpcClients, conns, next, ready, env, sent, daemon>>

(* Mutant: the executor named is not the one at the loop's index.          *)
ReadyWithFirst(a, i) == [ready EXCEPT ![a] = Append(@, executors[a][1])]

ReadyWith(a, i) == [ready EXCEPT ![a] = Append(@, executors[a][i])]

(* What one PrepareLocalEnv call does: it is not reached, its mount fails   *)
(* and leaves a runner without one, or no runner is made, which it says in  *)
(* a status nobody reads.                                                  *)
Prepared == [ok |-> "ready", mount |-> "bare"]

PrepareEnvironments(a) ==
  LET i == next[a]
      p == conns[a][i]
  IN
  /\ Handles /\ pc[a] = "calling" /\ i <= Len(conns[a])
  /\ \E outcome \in {"ok"} \cup (Faulty \ {"umount"}) :
       /\ env' = IF outcome \in DOMAIN Prepared THEN [env EXCEPT ![p] = Prepared[outcome]] ELSE env
       /\ IF i > Len(executors[a])
          THEN Die("panicked") /\ UNCHANGED <<next, ready>>
          ELSE /\ next' = [next EXCEPT ![a] = i + 1]
               /\ ready' = IF outcome \in {"ok", "status"} THEN ReadyWith(a, i) ELSE ready
               /\ UNCHANGED daemon
  /\ UNCHANGED <<projectToExecutors, grpcClients, pc, executors, conns, sent>>

EnvironmentsPrepared(a) ==
  /\ Handles /\ pc[a] = "calling" /\ next[a] > Len(conns[a])
  /\ IF ready[a] = <<>>
     THEN Goto(a, "failed") /\ UNCHANGED projectToExecutors
     ELSE Goto(a, "ok") /\ projectToExecutors' = ready[a]
  /\ UNCHANGED <<grpcClients, local, env, sent, daemon>>

-----------------------------------------------------------------------------
(* ForwardAndExecute, as far as it chooses where commands go.              *)

LoadExecutors(a) ==
  /\ IF projectToExecutors = None
     THEN Goto(a, "refused") /\ UNCHANGED executors
     ELSE Goto(a, "connecting") /\ executors' = [executors EXCEPT ![a] = projectToExecutors]
  /\ UNCHANGED <<projectToExecutors, grpcClients, conns, next, ready, env, sent, daemon>>

ForwardAndExecute(a) == Handles /\ MayForward(a) /\ LoadExecutors(a)

(* tryExecuteWithRetry looks for the local executor, without which it exits *)
(* the process, and calls every executor over the connection at its index. *)
TryExecuteWithRetry(a) ==
  LET es == executors[a]
      cs == conns[a]
  IN
  /\ Handles /\ pc[a] = "calling"
  /\ IF Self \notin Range(es)
     THEN Die("fatal") /\ UNCHANGED <<pc, sent>>
     ELSE IF Len(cs) < Len(es)
     THEN Die("panicked") /\ UNCHANGED <<pc, sent>>
     ELSE /\ sent' = sent \cup {<<es[i], cs[i]>> : i \in DOMAIN es}
          /\ Goto(a, "ok")
          /\ UNCHANGED daemon
  /\ UNCHANGED <<projectToExecutors, grpcClients, local, env>>

-----------------------------------------------------------------------------
(* ClearBuildEnv.                                                          *)

ClearBuildEnv(a) == Handles /\ MayClear(a) /\ LoadExecutors(a)

(* One CleanupLocalEnv call, whose failure is passed over; the log line     *)
(* that follows names the executor with the same index.                    *)
CleanupEnvironments(a) ==
  LET i == next[a]
      p == conns[a][i]
  IN
  /\ Handles /\ pc[a] = "calling" /\ i <= Len(conns[a])
  /\ \/ env' = [env EXCEPT ![p] = "none"]
     \/ "umount" \in Faulty /\ env[p] # "none" /\ env' = [env EXCEPT ![p] = "stuck"]
  /\ IF i > Len(executors[a])
     THEN Die("panicked") /\ UNCHANGED next
     ELSE next' = [next EXCEPT ![a] = i + 1] /\ UNCHANGED daemon
  /\ UNCHANGED <<projectToExecutors, grpcClients, pc, executors, conns, ready, sent>>

(* Mutant: the loop stops one connection short.                            *)
EnvironmentsCleanedEarly(a) ==
  /\ Handles /\ pc[a] = "calling" /\ next[a] >= Len(conns[a])
  /\ Goto(a, "forgetting")
  /\ UNCHANGED <<projectToExecutors, grpcClients, local, env, sent, daemon>>

EnvironmentsCleaned(a) ==
  /\ Handles /\ pc[a] = "calling" /\ next[a] > Len(conns[a])
  /\ Goto(a, "forgetting")
  /\ UNCHANGED <<projectToExecutors, grpcClients, local, env, sent, daemon>>

(* Mutant: the project keeps its executors.                                *)
KeepExecutors(a) ==
  /\ Handles /\ pc[a] = "forgetting"
  /\ Goto(a, "dropping")
  /\ UNCHANGED <<projectToExecutors, grpcClients, local, env, sent, daemon>>

ForgetExecutors(a) ==
  /\ Handles /\ pc[a] = "forgetting"
  /\ projectToExecutors' = None
  /\ Goto(a, "dropping")
  /\ UNCHANGED <<grpcClients, local, env, sent, daemon>>

(* Mutant: the connections are kept for the next session.                  *)
KeepConns(a) ==
  /\ Handles /\ pc[a] = "dropping"
  /\ Goto(a, "ok")
  /\ UNCHANGED <<projectToExecutors, grpcClients, local, env, sent, daemon>>

DropConns(a) ==
  /\ Handles /\ pc[a] = "dropping"
  /\ grpcClients' = None
  /\ Goto(a, "ok")
  /\ UNCHANGED <<projectToExecutors, local, env, sent, daemon>>

-----------------------------------------------------------------------------

PeersStep ==
  /\ daemon = "up" /\ PeersNext
  /\ UNCHANGED <<projectToExecutors, grpcClients, pc, local, env, sent, daemon>>

Next ==
  \/ \E a \in Calls : LoadConns(a) \/ StoreConns(a)
  \/ \E a \in Inits : InitializeBuildEnv(a) \/ PrepareEnvironments(a) \/ EnvironmentsPrepared(a)
  \/ \E a \in Forwards : ForwardAndExecute(a) \/ TryExecuteWithRetry(a)
  \/ \E a \in Clears : \/ ClearBuildEnv(a) \/ CleanupEnvironments(a) \/ EnvironmentsCleaned(a)
                       \/ ForgetExecutors(a) \/ DropConns(a)
  \/ PeersStep

Spec == Init /\ [][Next]_vars

-----------------------------------------------------------------------------
(* Properties.                                                             *)

(* The connection at an executor's index leads to that executor: commands,  *)
(* and the retry on the local executor, go where the proxy says they go.   *)
RoutedByName == \A route \in sent : route[1] = route[2]

(* No sequence of sessions ends the proxy: no index beyond the shorter of   *)
(* the two lists, no project without the local executor.                   *)
NeverDies == daemon = "up"

(* After a session nothing of it is left on any executor, except where the  *)
(* executor's own clean-up failed.                                         *)
LeavesNothingBehind ==
  projectToExecutors = None /\ Pending = {} => \A p \in PeerIDs : env[p] \in {"none", "stuck"}

-----------------------------------------------------------------------------
(* The session these handlers make, as module Session describes it.  It     *)
(* closes when the executors are forgotten; the connections are dropped in  *)
(* its own time.                                                           *)

Preparing == Inits \cap Pending

Cleaning == {a \in Clears \cap Pending : pc[a] # "dropping"}

Phase ==
  CASE Preparing # {} -> "preparing"
    [] Cleaning # {} -> "clearing"
    [] OTHER -> IF projectToExecutors = None THEN "closed" ELSE "open"

(* The executors a clean-up has still to call.                              *)
Uncleaned(a) == {executors[a][i] : i \in {j \in DOMAIN executors[a] : j >= next[a]}}

Members ==
  CASE Phase = "preparing" -> UNION {Range(ready[a]) : a \in Preparing}
    [] Phase = "clearing" -> UNION {Uncleaned(a) : a \in Cleaning}
    [] Phase = "open" -> Range(projectToExecutors)
    [] Phase = "closed" -> {}

S == INSTANCE Session WITH phase <- Phase, members <- Members

(* The two maps, their loops by index and the concurrent commands make one  *)
(* session after the other: each executor is prepared once, no command is  *)
(* sent before all are ready or after the clean-up has begun, every command *)
(* goes to exactly the prepared executors, and each of them, though it was  *)
(* found by index in another list, is called once to clean up before the   *)
(* project is forgotten.                                                   *)
SessionSpec == S!Spec
=============================================================================
