----------------------------- MODULE ExecutorEnv -----------------------------
(***************************************************************************)
(* The build environment of one project on one executor: the RPC handlers  *)
(* PrepareLocalEnv, SubmitAndExecute and CleanupLocalEnv, which run         *)
(* concurrently, the runners they create and stop with their worker pools, *)
(* the NFS mount, and the graceful stop of the daemon.                     *)
(*                                                                         *)
(* What a worker does with a task is module Dispatch; here it works on it  *)
(* and answers it.                                                         *)
(***************************************************************************)
EXTENDS Naturals, Sequences

CONSTANTS
  Prepares,   (* The PrepareLocalEnv calls; each creates a runner, which we  *)
              (* call by the name of the call.                              *)
  Submits,    (* The SubmitAndExecute calls.                                *)
  Cleanups,   (* The CleanupLocalEnv calls.                                 *)
  PoolSize,   (* Workers of a runner.                                       *)
  QueueSize,  (* Capacity of a runner's task channel.                       *)
  OnClient,   (* The client's own machine, without a container: no mount.   *)
  Faulty,     (* What may fail: connecting to the store, mount, umount.     *)
  Orderly,    (* The proxy makes one call after the other, as one client    *)
              (* session does when no copy of a command is left behind.     *)
  None

ASSUME ExecutorEnvAssumption ==
  /\ PoolSize \in Nat \ {0}
  /\ QueueSize \in Nat
  /\ OnClient \in BOOLEAN
  /\ Faulty \subseteq {"store", "mount", "umount"}
  /\ Orderly \in BOOLEAN
  /\ None \notin Prepares \cup Submits
  /\ Submits \cap Prepares = {} /\ Submits \cap Cleanups = {}

Workers == Prepares \X (1..PoolSize)

RunnerOf(w) == w[1]

VARIABLES
  projectRunner,  (* The entry of ProjectRunners for the project.           *)
  prepare,        (* prepare[p]: the state of PrepareLocalEnv call p.       *)
  submit,         (* submit[s]: the state of SubmitAndExecute call s.       *)
  cleanup,        (* cleanup[x]: the state of CleanupLocalEnv call x.       *)
  found,          (* found[a]: the runner call a got from the map.          *)
  cleanErr,       (* cleanErr[x]: the base runner's Cleanup failed.         *)
  started,        (* started[p]: workers startWorkers has started.          *)
  stopped,        (* The runners whose stopChan is closed.                  *)
  queue,          (* queue[p]: the task channel of runner p.                *)
  pc, task,       (* Where worker w is, and the task it has.                *)
  mounted,        (* The project is mounted on this machine.                *)
  daemon

vars == <<projectRunner, prepare, submit, cleanup, found, cleanErr, started,
          stopped, queue, pc, task, mounted, daemon>>

poolVars == <<started, stopped, queue, pc, task>>

TypeOK ==
  /\ projectRunner \in Prepares \cup {None}
  /\ prepare \in [Prepares -> {"idle", "preparing", "ok", "failed", "refused"}]
  /\ submit \in [Submits -> {"idle", "submitting", "waiting", "answered", "refused"}]
  /\ cleanup \in [Cleanups -> {"idle", "unmounting", "stopping", "waiting", "deleting",
                               "ok", "failed", "refused"}]
  /\ found \in [Submits \cup Cleanups -> Prepares \cup {None}]
  /\ cleanErr \in [Cleanups -> BOOLEAN]
  /\ started \in [Prepares -> 0..PoolSize]
  /\ stopped \subseteq Prepares
  /\ queue \in [Prepares -> Seq(Submits)]
  /\ \A p \in Prepares : Len(queue[p]) <= QueueSize
  /\ pc \in [Workers -> {"unborn", "polling", "taking", "working", "gone"}]
  /\ task \in [Workers -> Submits \cup {None}]
  /\ mounted \in BOOLEAN
  /\ daemon \in {"serving", "stopping", "stopped", "crashed"}

Init ==
  /\ projectRunner = None
  /\ prepare = [p \in Prepares |-> "idle"]
  /\ submit = [s \in Submits |-> "idle"]
  /\ cleanup = [x \in Cleanups |-> "idle"]
  /\ found = [a \in Submits \cup Cleanups |-> None]
  /\ cleanErr = [x \in Cleanups |-> FALSE]
  /\ started = [p \in Prepares |-> 0]
  /\ stopped = {}
  /\ queue = [p \in Prepares |-> <<>>]
  /\ pc = [w \in Workers |-> "unborn"]
  /\ task = [w \in Workers |-> None]
  /\ mounted = FALSE
  /\ daemon = "serving"

Up == daemon \in {"serving", "stopping"}

(* The calls that have begun and not returned.                              *)
Pending ==
  {p \in Prepares : prepare[p] = "preparing"}
    \cup {s \in Submits : submit[s] \in {"submitting", "waiting"}}
    \cup {x \in Cleanups : cleanup[x] \in {"unmounting", "stopping", "waiting", "deleting"}}

(* A new call reaches the daemon while it serves.  An orderly proxy waits   *)
(* for its earlier calls first.                                            *)
Admitted == daemon = "serving" /\ (Orderly => Pending = {})

-----------------------------------------------------------------------------
(* PrepareLocalEnv.                                                        *)

(* No client for the store: the handler returns a status, not an error.    *)
RefusePrepare(p) ==
  /\ Admitted /\ prepare[p] = "idle"
  /\ "store" \in Faulty
  /\ prepare' = [prepare EXCEPT ![p] = "refused"]
  /\ UNCHANGED <<projectRunner, submit, cleanup, found, cleanErr, poolVars, mounted, daemon>>

(* A runner is created and stored over the one the map may hold, which is  *)
(* not stopped, before its environment is prepared.                        *)
PrepareLocalEnv(p) ==
  /\ Admitted /\ prepare[p] = "idle"
  /\ prepare' = [prepare EXCEPT ![p] = "preparing"]
  /\ projectRunner' = p
  /\ UNCHANGED <<submit, cleanup, found, cleanErr, poolVars, mounted, daemon>>

(* Mutant: the error of the mount is not passed on.                        *)
PrepareEnvironmentUnchecked(p) ==
  /\ Up /\ prepare[p] = "preparing"
  /\ prepare' = [prepare EXCEPT ![p] = "ok"]
  /\ mounted' \in IF OnClient THEN {mounted} ELSE {TRUE} \cup {mounted : f \in Faulty \cap {"mount"}}
  /\ UNCHANGED <<projectRunner, submit, cleanup, found, cleanErr, poolVars, daemon>>

(* The base runner mounts the project.  A directory that has the mount     *)
(* already is refused by mount.                                            *)
PrepareEnvironment(p) ==
  /\ Up /\ prepare[p] = "preparing"
  /\ \/ /\ OnClient \/ ~mounted
        /\ prepare' = [prepare EXCEPT ![p] = "ok"]
        /\ mounted' = ~OnClient
     \/ /\ ~OnClient /\ (mounted \/ "mount" \in Faulty)
        /\ prepare' = [prepare EXCEPT ![p] = "failed"]
        /\ UNCHANGED mounted
  /\ UNCHANGED <<projectRunner, submit, cleanup, found, cleanErr, poolVars, daemon>>

(* The goroutine startWorkers: one wg.Add and one worker at a time, at any  *)
(* time after the runner was created, even after its Stop.                 *)
StartWorker(p) ==
  /\ Up
  /\ prepare[p] \in {"preparing", "ok", "failed"}
  /\ started[p] < PoolSize
  /\ started' = [started EXCEPT ![p] = @ + 1]
  /\ pc' = [pc EXCEPT ![<<p, started'[p]>>] = "polling"]
  /\ UNCHANGED <<projectRunner, prepare, submit, cleanup, found, cleanErr, stopped,
                 queue, task, mounted, daemon>>

-----------------------------------------------------------------------------
(* SubmitAndExecute.                                                       *)

MaySubmit(s) ==
  /\ daemon = "serving" /\ submit[s] = "idle"
  /\ Orderly => /\ Pending \subseteq Submits
                /\ projectRunner # None => prepare[projectRunner] = "ok"

SubmitAndExecute(s) ==
  /\ MaySubmit(s)
  /\ found' = [found EXCEPT ![s] = projectRunner]
  /\ submit' = [submit EXCEPT ![s] = IF projectRunner = None THEN "refused" ELSE "submitting"]
  /\ UNCHANGED <<projectRunner, prepare, cleanup, cleanErr, poolVars, mounted, daemon>>

(* Mutant: the channel is taken to have room.                              *)
EnqueueUnbounded(s) ==
  /\ Up /\ submit[s] = "submitting"
  /\ queue' = [queue EXCEPT ![found[s]] = Append(@, s)]
  /\ submit' = [submit EXCEPT ![s] = "waiting"]
  /\ UNCHANGED <<projectRunner, prepare, cleanup, found, cleanErr, started, stopped,
                 pc, task, mounted, daemon>>

(* Mutant: a handler that finds the channel full waits for a result.       *)
EnqueueUnanswered(s) ==
  LET q == queue[found[s]] IN
  /\ Up /\ submit[s] = "submitting"
  /\ submit' = [submit EXCEPT ![s] = "waiting"]
  /\ queue' = [queue EXCEPT ![found[s]] = IF Len(q) < QueueSize THEN Append(q, s) ELSE q]
  /\ UNCHANGED <<projectRunner, prepare, cleanup, found, cleanErr, started, stopped,
                 pc, task, mounted, daemon>>

(* The handler sends to the channel of the runner it found, without        *)
(* blocking and without looking whether that runner has been stopped.      *)
Enqueue(s) ==
  LET q == queue[found[s]] IN
  /\ Up /\ submit[s] = "submitting"
  /\ \/ /\ Len(q) < QueueSize
        /\ queue' = [queue EXCEPT ![found[s]] = Append(q, s)]
        /\ submit' = [submit EXCEPT ![s] = "waiting"]
     \/ /\ Len(q) >= QueueSize
        /\ submit' = [submit EXCEPT ![s] = "refused"]
        /\ UNCHANGED queue
  /\ UNCHANGED <<projectRunner, prepare, cleanup, found, cleanErr, started, stopped,
                 pc, task, mounted, daemon>>

-----------------------------------------------------------------------------
(* The workers.                                                            *)

Goto(w, place) == pc' = [pc EXCEPT ![w] = place]

(* Mutant: the stop signal is one case of the select that takes the task.  *)
PollUnchecked(w) ==
  /\ Up /\ pc[w] = "polling"
  /\ Goto(w, "taking")
  /\ UNCHANGED <<projectRunner, prepare, submit, cleanup, found, cleanErr, started,
                 stopped, queue, task, mounted, daemon>>

(* The stop signal is looked at before, not together with, the queue.      *)
Poll(w) ==
  /\ Up /\ pc[w] = "polling"
  /\ Goto(w, IF RunnerOf(w) \in stopped THEN "gone" ELSE "taking")
  /\ UNCHANGED <<projectRunner, prepare, submit, cleanup, found, cleanErr, started,
                 stopped, queue, task, mounted, daemon>>

(* Mutant: the stop signal is looked at once more with the task in hand.   *)
TakeTaskOrQuit(w) ==
  LET q == queue[RunnerOf(w)]
      quit == RunnerOf(w) \in stopped
  IN
  /\ Up /\ pc[w] = "taking"
  /\ \/ /\ q # <<>>
        /\ task' = IF quit THEN task ELSE [task EXCEPT ![w] = Head(q)]
        /\ queue' = [queue EXCEPT ![RunnerOf(w)] = Tail(q)]
        /\ Goto(w, IF quit THEN "gone" ELSE "working")
     \/ /\ q = <<>>
        /\ Goto(w, "polling")
        /\ UNCHANGED <<task, queue>>
  /\ UNCHANGED <<projectRunner, prepare, submit, cleanup, found, cleanErr, started,
                 stopped, mounted, daemon>>

(* A task, or a second's sleep.                                            *)
TakeTask(w) ==
  LET q == queue[RunnerOf(w)] IN
  /\ Up /\ pc[w] = "taking"
  /\ \/ /\ q # <<>>
        /\ task' = [task EXCEPT ![w] = Head(q)]
        /\ queue' = [queue EXCEPT ![RunnerOf(w)] = Tail(q)]
        /\ Goto(w, "working")
     \/ /\ q = <<>>
        /\ Goto(w, "polling")
        /\ UNCHANGED <<task, queue>>
  /\ UNCHANGED <<projectRunner, prepare, submit, cleanup, found, cleanErr, started,
                 stopped, mounted, daemon>>

Answer(w) ==
  /\ Up /\ pc[w] = "working"
  /\ submit' = [submit EXCEPT ![task[w]] = "answered"]
  /\ task' = [task EXCEPT ![w] = None]
  /\ Goto(w, "polling")
  /\ UNCHANGED <<projectRunner, prepare, cleanup, found, cleanErr, started, stopped,
                 queue, mounted, daemon>>

-----------------------------------------------------------------------------
(* CleanupLocalEnv: umount, stop the workers, forget the runner.           *)

CleanupLocalEnv(x) ==
  /\ Admitted /\ cleanup[x] = "idle"
  /\ found' = [found EXCEPT ![x] = projectRunner]
  /\ cleanup' = [cleanup EXCEPT ![x] = IF projectRunner = None THEN "refused" ELSE "unmounting"]
  /\ UNCHANGED <<projectRunner, prepare, submit, cleanErr, poolVars, mounted, daemon>>

(* The umount may succeed where the project is mounted.  It may fail where *)
(* it is not, where a command has the directory open, and where it races   *)
(* with the PrepareEnvironment that tells the runner its directory.        *)
Unmount(x) ==
  LET racing == prepare[found[x]] = "preparing"
      busy   == \E w \in Workers : pc[w] = "working"
  IN
  /\ Up /\ cleanup[x] = "unmounting"
  /\ \/ /\ OnClient \/ mounted
        /\ mounted' = FALSE
        /\ UNCHANGED cleanErr
     \/ /\ racing \/ (~OnClient /\ (~mounted \/ busy \/ "umount" \in Faulty))
        /\ cleanErr' = [cleanErr EXCEPT ![x] = TRUE]
        /\ UNCHANGED mounted
  /\ cleanup' = [cleanup EXCEPT ![x] = "stopping"]
  /\ UNCHANGED <<projectRunner, prepare, submit, found, poolVars, daemon>>

(* Stop, whether the umount succeeded or not.  Closing a closed channel     *)
(* panics, and no interceptor recovers.                                    *)
CloseStopChan(x) ==
  /\ Up /\ cleanup[x] = "stopping"
  /\ IF found[x] \in stopped
     THEN daemon' = "crashed" /\ UNCHANGED <<stopped, cleanup>>
     ELSE /\ stopped' = stopped \cup {found[x]}
          /\ cleanup' = [cleanup EXCEPT ![x] = "waiting"]
          /\ UNCHANGED daemon
  /\ UNCHANGED <<projectRunner, prepare, submit, found, cleanErr, started, queue, pc,
                 task, mounted>>

(* Mutant: a worker that goes does not count itself out of the WaitGroup.  *)
WaitWithoutDone(x) ==
  /\ Up /\ cleanup[x] = "waiting"
  /\ started[found[x]] = 0
  /\ cleanup' = [cleanup EXCEPT ![x] = IF cleanErr[x] THEN "failed" ELSE "deleting"]
  /\ UNCHANGED <<projectRunner, prepare, submit, found, cleanErr, poolVars, mounted, daemon>>

(* wg.Wait(): the workers started so far have gone.                        *)
WaitForWorkers(x) ==
  /\ Up /\ cleanup[x] = "waiting"
  /\ \A w \in Workers : RunnerOf(w) = found[x] => pc[w] \in {"unborn", "gone"}
  /\ cleanup' = [cleanup EXCEPT ![x] = IF cleanErr[x] THEN "failed" ELSE "deleting"]
  /\ UNCHANGED <<projectRunner, prepare, submit, found, cleanErr, poolVars, mounted, daemon>>

(* Mutant: the runner stays in the map, for the next session to replace.    *)
DeleteNothing(x) ==
  /\ Up /\ cleanup[x] = "deleting"
  /\ cleanup' = [cleanup EXCEPT ![x] = "ok"]
  /\ UNCHANGED <<projectRunner, prepare, submit, found, cleanErr, poolVars, mounted, daemon>>

(* The entry of the project is deleted, whichever runner it holds by now.   *)
DeleteRunner(x) ==
  /\ Up /\ cleanup[x] = "deleting"
  /\ projectRunner' = None
  /\ cleanup' = [cleanup EXCEPT ![x] = "ok"]
  /\ UNCHANGED <<prepare, submit, found, cleanErr, poolVars, mounted, daemon>>

-----------------------------------------------------------------------------
(* The daemon is told to terminate and stops serving gracefully.           *)

Terminate ==
  /\ daemon = "serving"
  /\ daemon' = "stopping"
  /\ UNCHANGED <<projectRunner, prepare, submit, cleanup, found, cleanErr, poolVars, mounted>>

GracefulStop ==
  /\ daemon = "stopping" /\ Pending = {}
  /\ daemon' = "stopped"
  /\ UNCHANGED <<projectRunner, prepare, submit, cleanup, found, cleanErr, poolVars, mounted>>

-----------------------------------------------------------------------------

CleanupStep(x) ==
  Unmount(x) \/ CloseStopChan(x) \/ WaitForWorkers(x) \/ DeleteRunner(x)

WorkerStep(w) == Poll(w) \/ TakeTask(w) \/ Answer(w)

Next ==
  \/ \E p \in Prepares : RefusePrepare(p) \/ PrepareLocalEnv(p) \/ PrepareEnvironment(p)
                           \/ StartWorker(p)
  \/ \E s \in Submits : SubmitAndExecute(s) \/ Enqueue(s)
  \/ \E x \in Cleanups : CleanupLocalEnv(x) \/ CleanupStep(x)
  \/ \E w \in Workers : WorkerStep(w)
  \/ Terminate
  \/ GracefulStop

Spec == Init /\ [][Next]_vars

(* Handlers, workers and startWorkers are scheduled, and what they call     *)
(* ends: mount, umount and commands run under timeouts, except the umount of *)
(* a container runner, which is taken to end by itself.                     *)
Fairness ==
  /\ \A p \in Prepares : WF_vars(PrepareEnvironment(p)) /\ WF_vars(StartWorker(p))
  /\ \A s \in Submits : WF_vars(Enqueue(s))
  /\ \A x \in Cleanups : WF_vars(CleanupStep(x))
  /\ \A w \in Workers : WF_vars(WorkerStep(w))
  /\ WF_vars(GracefulStop)

FairSpec == Spec /\ Fairness

-----------------------------------------------------------------------------
(* Properties.                                                             *)

(* The Stop of runner p has returned in some CleanupLocalEnv call.         *)
Swept(p) ==
  \E x \in Cleanups : found[x] = p /\ cleanup[x] \in {"deleting", "ok", "failed"}

(* When a runner's Stop has returned, no worker of it has a task or can     *)
(* take one, although startWorkers may start workers after that: wg.Wait    *)
(* can return before they are counted.                                     *)
NoRunAfterStop ==
  \A w \in Workers : Swept(RunnerOf(w)) => pc[w] \notin {"taking", "working"}

(* The runner a submission waits at has it in its queue or at one of its    *)
(* workers, exactly once, so it is answered by that runner or not at all.  *)
WaitingIsSomewhere ==
  \A s \in Submits :
    submit[s] = "waiting" =>
      LET p == found[s]
          places == {i \in 1..Len(queue[p]) : queue[p][i] = s}
          hands  == {w \in Workers : task[w] = s}
      IN \/ \E i \in places : places = {i} /\ hands = {}
         \/ \E w \in hands : hands = {w} /\ places = {} /\ RunnerOf(w) = p

(* In an orderly session no worker has a task while the project is not      *)
(* mounted: not before the mount, not after the umount, not when it failed. *)
WorkNeedsMount ==
  ~OnClient => \A w \in Workers : pc[w] = "working" => mounted

(* When clean-ups come one after the other, however many, the daemon panics *)
(* in the Stop of a second one only if the first failed to umount: one that *)
(* succeeded leaves no stopped runner in the map, also when a preparation   *)
(* that was refused or failed comes between.                                *)
CrashNeedsFailedUmount ==
  daemon = "crashed" =>
    \E x, y \in Cleanups : x # y /\ found[x] = found[y] /\ cleanup[y] = "failed"

(* Every SubmitAndExecute call returns.                                    *)
EverySubmitReturns ==
  \A s \in Submits :
    submit[s] = "submitting" ~> (submit[s] \in {"answered", "refused"} \/ daemon = "crashed")

(* A daemon that was told to terminate does terminate.                     *)
ShutdownCompletes == daemon = "stopping" ~> daemon \in {"stopped", "crashed"}
=============================================================================
