------------------------------ MODULE Dispatch ------------------------------
(***************************************************************************)
(* The dispatch of commands for one project: the proxy stores a command,   *)
(* submits a copy of it to every executor of the project, the worker pools *)
(* of the executors race for it through the claim script of the shared     *)
(* store, the winner runs it, and the proxy answers its client from what   *)
(* the executors report, after one more try on the local executor when     *)
(* nobody succeeded.                                                       *)
(*                                                                         *)
(* One daemon hosts an executor and, on the client's machine, the proxy:   *)
(* alive[Local] is the daemon of the proxy and of the local executor.      *)
(***************************************************************************)
EXTENDS TaskStore, Sequences

CONSTANTS
  Calls,       (* The ForwardAndExecute requests of the client.             *)
  TaskKey,     (* TaskKey[c]: the task key request c stores.                *)
  Executors,   (* The executors the project was given.                      *)
  Local,       (* The one that runs beside the proxy.                       *)
  Prepared,    (* The executors that hold a runner for the project.         *)
  Blank,       (* The keys whose command text is empty.                     *)
  Workers,     (* The worker goroutines of all runners.                     *)
  Host,        (* Host[w]: the executor whose pool worker w belongs to.     *)
  QueueSize,   (* Capacity of a runner's task channel.                      *)
  MaxRetries,  (* Attempts TryClaimTask makes while Redis errs.             *)
  Faulty,      (* The store operations that may return an error.            *)
  Cancellable, (* The requests whose client may go away.                    *)
  Crashable,   (* The executors whose daemon may die on its own.            *)
  NoTask

ASSUME DispatchAssumption ==
  /\ TaskKey \in [Calls -> Keys]
  /\ Local \in Executors
  /\ Prepared \subseteq Executors
  /\ Blank \subseteq Keys
  /\ Host \in [Workers -> Executors]
  /\ QueueSize \in Nat
  /\ MaxRetries \in Nat \ {0}
  /\ Faulty \subseteq {"store", "claim", "hget", "settle"}
  /\ Cancellable \subseteq Calls
  /\ Crashable \subseteq Executors

(* The copies of a command: one to each executor in the first round, and   *)
(* the one the local executor may be sent afterwards.                      *)
Batch(c, e) == [call |-> c, at |-> e, round |-> "batch"]
Retry(c)    == [call |-> c, at |-> Local, round |-> "retry"]

Tasks == {Batch(c, e) : c \in Calls, e \in Executors} \cup {Retry(c) : c \in Calls}

ASSUME NoTaskAssumption == NoTask \notin Tasks

KeyOf(t) == TaskKey[t.call]

VARIABLES
  call,     (* call[c]: where request c stands, or how it was answered.     *)
  rpc,      (* rpc[t]: the SubmitAndExecute call that carries copy t.       *)
  queue,    (* queue[e]: the task channel of e's runner.                    *)
  pc,       (* pc[w]: where worker w is in its loop.                        *)
  task,     (* task[w]: the copy worker w took from the channel.            *)
  tries,    (* tries[w]: failed attempts of w in TryClaimTask.              *)
  taskRes,  (* taskRes[w]: the result w is about to send.                   *)
  exit,     (* exit[t]: whether RunTask ran copy t, and how it ended.       *)
  alive     (* alive[e]: the daemon of e is up.                             *)

vars == <<store, call, rpc, queue, pc, task, tries, taskRes, exit, alive>>

workerVars == <<pc, task, tries, taskRes>>

Answers  == {"ok", "all_failed", "cancelled", "kv_failed"}
Replies  == {"ok", "failed", "rejected"}
InFlight == {"sent", "waiting"}

TypeOK ==
  /\ StoreTypeOK
  /\ call \in [Calls -> {"idle", "gathering", "retrying"} \cup Answers]
  /\ rpc \in [Tasks -> {"none"} \cup InFlight \cup Replies]
  /\ queue \in [Executors -> Seq(Tasks)]
  /\ pc \in [Workers -> {"idle", "claiming", "fetching", "running", "settling", "reporting"}]
  /\ task \in [Workers -> Tasks \cup {NoTask}]
  /\ tries \in [Workers -> 0..MaxRetries]
  /\ taskRes \in [Workers -> {"none"} \cup Replies]
  /\ exit \in [Tasks -> {"none", "zero", "nonzero"}]
  /\ alive \in [Executors -> BOOLEAN]

Init ==
  /\ StoreInit
  /\ call = [c \in Calls |-> "idle"]
  /\ rpc = [t \in Tasks |-> "none"]
  /\ queue = [e \in Executors |-> <<>>]
  /\ pc = [w \in Workers |-> "idle"]
  /\ task = [w \in Workers |-> NoTask]
  /\ tries = [w \in Workers |-> 0]
  /\ taskRes = [w \in Workers |-> "none"]
  /\ exit = [t \in Tasks |-> "none"]
  /\ alive = [e \in Executors |-> TRUE]

-----------------------------------------------------------------------------
(* The proxy.                                                              *)

(* A client has one request at a time open for a command.                  *)
MayCall(c) ==
  /\ alive[Local]
  /\ call[c] = "idle"
  /\ \A d \in Calls \ {c} : TaskKey[d] = TaskKey[c] => call[d] \in {"idle"} \cup Answers

(* The command is stored as unclaimed, and one goroutine per executor      *)
(* calls SubmitAndExecute there.                                           *)
ForwardAndExecute(c) ==
  /\ MayCall(c)
  /\ HSetWithTTL(TaskKey[c])
  /\ call' = [call EXCEPT ![c] = "gathering"]
  /\ rpc' = [t \in Tasks |-> IF \E e \in Executors : t = Batch(c, e) THEN "sent" ELSE rpc[t]]
  /\ UNCHANGED <<queue, workerVars, exit, alive>>

(* Storing the command errs, before or after Redis executed the pipeline.  *)
StoreCommandFails(c) ==
  /\ "store" \in Faulty
  /\ MayCall(c)
  /\ HSetWithTTL(TaskKey[c]) \/ UNCHANGED store
  /\ call' = [call EXCEPT ![c] = "kv_failed"]
  /\ UNCHANGED <<rpc, queue, workerVars, exit, alive>>

(* The first success answers the client; the other calls are not awaited.  *)
ReturnSuccess(c) ==
  /\ alive[Local]
  /\ call[c] = "gathering"
  /\ \E e \in Executors : rpc[Batch(c, e)] = "ok"
  /\ call' = [call EXCEPT ![c] = "ok"]
  /\ UNCHANGED <<store, rpc, queue, workerVars, exit, alive>>

(* The client went away; the goroutines run on with a background context.  *)
ReturnCancelled(c) ==
  /\ alive[Local]
  /\ c \in Cancellable
  /\ call[c] = "gathering"
  /\ call' = [call EXCEPT ![c] = "cancelled"]
  /\ UNCHANGED <<store, rpc, queue, workerVars, exit, alive>>

(* Mutant: the retry is sent as soon as one executor has failed.           *)
RetryOnFirstFailure(c) ==
  /\ alive[Local]
  /\ call[c] = "gathering"
  /\ \E e \in Executors : rpc[Batch(c, e)] \in Replies \ {"ok"}
  /\ call' = [call EXCEPT ![c] = "retrying"]
  /\ rpc' = [rpc EXCEPT ![Retry(c)] = "sent"]
  /\ UNCHANGED <<store, queue, workerVars, exit, alive>>

(* Every executor has answered and none succeeded.                         *)
RetryOnLocal(c) ==
  /\ alive[Local]
  /\ call[c] = "gathering"
  /\ \A e \in Executors : rpc[Batch(c, e)] \in Replies \ {"ok"}
  /\ call' = [call EXCEPT ![c] = "retrying"]
  /\ rpc' = [rpc EXCEPT ![Retry(c)] = "sent"]
  /\ UNCHANGED <<store, queue, workerVars, exit, alive>>

ReturnRetryResult(c) ==
  /\ alive[Local]
  /\ call[c] = "retrying"
  /\ rpc[Retry(c)] \in Replies
  /\ call' = [call EXCEPT ![c] = IF rpc[Retry(c)] = "ok" THEN "ok" ELSE "all_failed"]
  /\ UNCHANGED <<store, rpc, queue, workerVars, exit, alive>>

(* A call that ends in an RPC error is logged with Fatalw, which exits.    *)
(* The goroutine does so even when the request was answered long ago.      *)
SubmitErrorIsFatal(t) ==
  /\ alive[Local]
  /\ rpc[t] \in InFlight
  /\ ~alive[t.at]
  /\ alive' = [alive EXCEPT ![Local] = FALSE]
  /\ UNCHANGED <<store, call, rpc, queue, workerVars, exit>>

-----------------------------------------------------------------------------
(* The executor's handler: submit without blocking, then wait for a result *)
(* with no deadline of its own.                                            *)

(* Mutant: a submission the channel has no room for gets no answer.        *)
SubmitAndExecuteUnanswered(t) ==
  LET e == t.at IN
  /\ alive[e]
  /\ rpc[t] = "sent"
  /\ \/ /\ e \notin Prepared
        /\ rpc' = [rpc EXCEPT ![t] = "rejected"]
        /\ UNCHANGED queue
     \/ /\ e \in Prepared
        /\ rpc' = [rpc EXCEPT ![t] = "waiting"]
        /\ queue' = IF Len(queue[e]) < QueueSize THEN [queue EXCEPT ![e] = Append(@, t)] ELSE queue
  /\ UNCHANGED <<store, call, workerVars, exit, alive>>

SubmitAndExecute(t) ==
  LET e == t.at IN
  /\ alive[e]
  /\ rpc[t] = "sent"
  /\ \/ /\ e \notin Prepared
        /\ rpc' = [rpc EXCEPT ![t] = "rejected"]
        /\ UNCHANGED queue
     \/ /\ e \in Prepared
        /\ Len(queue[e]) >= QueueSize
        /\ rpc' = [rpc EXCEPT ![t] = "failed"]
        /\ UNCHANGED queue
     \/ /\ e \in Prepared
        /\ Len(queue[e]) < QueueSize
        /\ rpc' = [rpc EXCEPT ![t] = "waiting"]
        /\ queue' = [queue EXCEPT ![e] = Append(@, t)]
  /\ UNCHANGED <<store, call, workerVars, exit, alive>>

-----------------------------------------------------------------------------
(* The workers.                                                            *)

At(w, place) == alive[Host[w]] /\ pc[w] = place

Goto(w, place) == pc' = [pc EXCEPT ![w] = place]

Conclude(w, result) ==
  /\ Goto(w, "reporting")
  /\ taskRes' = [taskRes EXCEPT ![w] = result]

Die(e) == alive' = [alive EXCEPT ![e] = FALSE]

TakeTask(w) ==
  LET e == Host[w] IN
  /\ At(w, "idle")
  /\ queue[e] # <<>>
  /\ task' = [task EXCEPT ![w] = Head(queue[e])]
  /\ queue' = [queue EXCEPT ![e] = Tail(@)]
  /\ tries' = [tries EXCEPT ![w] = 0]
  /\ Goto(w, "claiming")
  /\ UNCHANGED <<store, call, rpc, taskRes, exit, alive>>

(* TryClaimTask, its reply received: claimed, or lost to another worker.   *)
TryClaimTask(w) ==
  LET code == ClaimCode(KeyOf(task[w]), "unclaimed") IN
  /\ At(w, "claiming")
  /\ ClaimCmd(KeyOf(task[w]), "unclaimed", "claimed")
  /\ \/ code = 0 /\ Goto(w, "fetching") /\ UNCHANGED taskRes
     \/ code = 1 /\ Conclude(w, "rejected")
  /\ UNCHANGED <<call, rpc, queue, task, tries, exit, alive>>

(* Mutant: the retry loop makes one attempt more than maxRetries.          *)
ClaimAttemptFailsOneMore(w) ==
  /\ "claim" \in Faulty
  /\ At(w, "claiming")
  /\ ClaimCmd(KeyOf(task[w]), "unclaimed", "claimed") \/ UNCHANGED store
  /\ tries' = [tries EXCEPT ![w] = @ + 1]
  /\ \/ tries[w] + 1 <= MaxRetries /\ UNCHANGED <<pc, taskRes>>
     \/ tries[w] + 1 = MaxRetries + 1 /\ Conclude(w, "failed")
  /\ UNCHANGED <<call, rpc, queue, task, exit, alive>>

(* An attempt errs.  The script may have run although its reply was lost.  *)
ClaimAttemptFails(w) ==
  /\ "claim" \in Faulty
  /\ At(w, "claiming")
  /\ ClaimCmd(KeyOf(task[w]), "unclaimed", "claimed") \/ UNCHANGED store
  /\ tries' = [tries EXCEPT ![w] = @ + 1]
  /\ \/ tries[w] + 1 < MaxRetries /\ UNCHANGED <<pc, taskRes>>
     \/ tries[w] + 1 = MaxRetries /\ Conclude(w, "failed")
  /\ UNCHANGED <<call, rpc, queue, task, exit, alive>>

(* The record is gone.  The worker sends its result and then logs with     *)
(* Fatalw: the process exits, before or after the handler has replied.     *)
TaskNotFound(w) ==
  /\ At(w, "claiming")
  /\ ClaimCode(KeyOf(task[w]), "unclaimed") = -1
  /\ \/ rpc' = [rpc EXCEPT ![task[w]] = "rejected"]
     \/ UNCHANGED rpc
  /\ Die(Host[w])
  /\ UNCHANGED <<store, call, queue, workerVars, exit>>

FetchContent(w) ==
  /\ At(w, "fetching")
  /\ store[KeyOf(task[w])] # Absent
  /\ KeyOf(task[w]) \notin Blank
  /\ Goto(w, "running")
  /\ UNCHANGED <<store, call, rpc, queue, task, tries, taskRes, exit, alive>>

(* Mutant: a failed HGet is not reported.                                  *)
FetchContentFailsSilently(w) ==
  /\ At(w, "fetching")
  /\ "hget" \in Faulty \/ store[KeyOf(task[w])] = Absent
  /\ Goto(w, "idle")
  /\ UNCHANGED <<store, call, rpc, queue, task, tries, taskRes, exit, alive>>

(* HGet errs, or finds no record.  The claim is not given back.            *)
FetchContentFails(w) ==
  /\ At(w, "fetching")
  /\ "hget" \in Faulty \/ store[KeyOf(task[w])] = Absent
  /\ Conclude(w, "failed")
  /\ UNCHANGED <<store, call, rpc, queue, task, tries, exit, alive>>

(* An empty command is logged with Fatalw: the process exits.              *)
EmptyContentIsFatal(w) ==
  /\ At(w, "fetching")
  /\ store[KeyOf(task[w])] # Absent
  /\ KeyOf(task[w]) \in Blank
  /\ Die(Host[w])
  /\ UNCHANGED <<store, call, rpc, queue, workerVars, exit>>

RunTask(w) ==
  /\ At(w, "running")
  /\ \E code \in {"zero", "nonzero"} : exit' = [exit EXCEPT ![task[w]] = code]
  /\ Goto(w, "settling")
  /\ UNCHANGED <<store, call, rpc, queue, task, tries, taskRes, alive>>

(* TryFinishTask and UnclaimTask are called once; their error is ignored.  *)
Settle(w, new) ==
  \/ ClaimCmd(KeyOf(task[w]), "claimed", new)
  \/ "settle" \in Faulty /\ UNCHANGED store

(* Mutant: a finished task is set back to unclaimed.                       *)
TryFinishTaskAsUnclaimed(w) ==
  /\ At(w, "settling")
  /\ exit[task[w]] = "zero"
  /\ Settle(w, "unclaimed")
  /\ Conclude(w, "ok")
  /\ UNCHANGED <<call, rpc, queue, task, tries, exit, alive>>

(* Mutant: the store is not told of a finished task.                       *)
TryFinishTaskUnrecorded(w) ==
  /\ At(w, "settling")
  /\ exit[task[w]] = "zero"
  /\ Conclude(w, "ok")
  /\ UNCHANGED <<store, call, rpc, queue, task, tries, exit, alive>>

TryFinishTask(w) ==
  /\ At(w, "settling")
  /\ exit[task[w]] = "zero"
  /\ Settle(w, "done")
  /\ Conclude(w, "ok")
  /\ UNCHANGED <<call, rpc, queue, task, tries, exit, alive>>

(* Mutant: a failed task keeps its claim.                                  *)
UnclaimTaskForgotten(w) ==
  /\ At(w, "settling")
  /\ exit[task[w]] = "nonzero"
  /\ Conclude(w, "failed")
  /\ UNCHANGED <<store, call, rpc, queue, task, tries, exit, alive>>

UnclaimTask(w) ==
  /\ At(w, "settling")
  /\ exit[task[w]] = "nonzero"
  /\ Settle(w, "unclaimed")
  /\ Conclude(w, "failed")
  /\ UNCHANGED <<call, rpc, queue, task, tries, exit, alive>>

(* Mutant: the handlers of an executor share one result channel.           *)
SendResultOnSharedChannel(w) ==
  /\ At(w, "reporting")
  /\ \E t \in Tasks : /\ t.at = Host[w]
                     /\ rpc[t] = "waiting"
                     /\ rpc' = [rpc EXCEPT ![t] = taskRes[w]]
  /\ task' = [task EXCEPT ![w] = NoTask]
  /\ taskRes' = [taskRes EXCEPT ![w] = "none"]
  /\ Goto(w, "idle")
  /\ UNCHANGED <<store, call, queue, tries, exit, alive>>

(* The result goes through the task's own channel to the waiting handler,  *)
(* which replies to the proxy.                                             *)
SendResult(w) ==
  /\ At(w, "reporting")
  /\ rpc' = [rpc EXCEPT ![task[w]] = taskRes[w]]
  /\ task' = [task EXCEPT ![w] = NoTask]
  /\ taskRes' = [taskRes EXCEPT ![w] = "none"]
  /\ Goto(w, "idle")
  /\ UNCHANGED <<store, call, queue, tries, exit, alive>>

-----------------------------------------------------------------------------
(* The environment.                                                        *)

ExpireRecord(k) ==
  /\ Expire(k)
  /\ UNCHANGED <<call, rpc, queue, workerVars, exit, alive>>

Crash(e) ==
  /\ e \in Crashable
  /\ alive[e]
  /\ Die(e)
  /\ UNCHANGED <<store, call, rpc, queue, workerVars, exit>>

-----------------------------------------------------------------------------

ProxyReturns(c) ==
  ReturnSuccess(c) \/ RetryOnLocal(c) \/ ReturnRetryResult(c)

WorkerStep(w) ==
  \/ TakeTask(w) \/ TryClaimTask(w) \/ ClaimAttemptFails(w) \/ TaskNotFound(w)
  \/ FetchContent(w) \/ FetchContentFails(w) \/ EmptyContentIsFatal(w) \/ RunTask(w)
  \/ TryFinishTask(w) \/ UnclaimTask(w) \/ SendResult(w)

Next ==
  \/ \E c \in Calls : ForwardAndExecute(c) \/ StoreCommandFails(c)
                        \/ ReturnCancelled(c) \/ ProxyReturns(c)
  \/ \E t \in Tasks : SubmitAndExecute(t) \/ SubmitErrorIsFatal(t)
  \/ \E w \in Workers : WorkerStep(w)
  \/ \E k \in Keys : ExpireRecord(k)
  \/ \E e \in Executors : Crash(e)

Spec == Init /\ [][Next]_vars

(* Handlers, workers and proxy goroutines of a live daemon are scheduled;   *)
(* RunTask and every store operation end, both run under a timeout.  The   *)
(* client, crashes, cancellations and the TTL promise nothing.             *)
Fairness ==
  /\ \A c \in Calls : WF_vars(ProxyReturns(c))
  /\ \A t \in Tasks : WF_vars(SubmitAndExecute(t)) /\ WF_vars(SubmitErrorIsFatal(t))
  /\ \A w \in Workers : WF_vars(WorkerStep(w))

FairSpec == Spec /\ Fairness

-----------------------------------------------------------------------------
(* Properties.                                                             *)

(* Worker w has claimed command k and not yet settled the claim.           *)
Holds(w, k) ==
  /\ pc[w] \in {"fetching", "running", "settling"}
  /\ KeyOf(task[w]) = k

(* The commands some copy of which has been run to exit code 0.            *)
Succeeded == {k \in Keys : \E t \in Tasks : KeyOf(t) = k /\ exit[t] = "zero"}

(* The claim script admits one worker per command: between the claim and   *)
(* the settling of it (worker_busy_wait, case 0) no worker of any executor *)
(* holds the same command, whatever Redis calls err, records expire,       *)
(* daemons die or clients leave, unless a request stores a held command.   *)
OneHolder ==
  \A w, x \in Workers, k \in Keys : Holds(w, k) /\ Holds(x, k) => w = x

(* The whole race (store, queues, workers, faults) implements the lease:   *)
(* one holder at a time, and a command that was run to success is never    *)
(* claimed again, not even when TryFinishTask was lost.                    *)
Lease == INSTANCE CommandLease WITH
           holders  <- [k \in Keys |-> {w \in Workers : Holds(w, k)}],
           finished <- Succeeded

LeaseSpec == Lease!Spec

(* What tryExecuteWithRetry tells the client is what happened: "OK" means  *)
(* some copy of this request ran to exit code 0, "all executors failed"    *)
(* that none did, wherever the copies are and in whatever order they ended.*)
AnswerMatchesOutcome ==
  \A c \in Calls :
    LET ran == {t \in Tasks : t.call = c /\ exit[t] = "zero"} IN
    /\ call[c] = "ok" => ran # {}
    /\ call[c] = "all_failed" => ran = {}

(* One success per command: of all the copies of a command, those of other *)
(* requests for it included, one at most is answered "ok", so the result   *)
(* the client gets is the only one (successChan is never found full).      *)
OneSuccess ==
  \A s, t \in Tasks :
    rpc[s] = "ok" /\ rpc[t] = "ok" /\ KeyOf(s) = KeyOf(t) => s = t

(* What executor e replied to request c, and what the proxy made of all    *)
(* the replies.                                                            *)
ReplyOf(c, e) ==
  CASE rpc[Batch(c, e)] = "ok"              -> "ok"
    [] rpc[Batch(c, e)] \in Replies \ {"ok"} -> "bad"
    [] OTHER                                -> "none"

VerdictOn(c) ==
  IF rpc[Retry(c)] # "none"
  THEN "exhausted"
  ELSE CASE call[c] = "ok"        -> "success"
         [] call[c] = "cancelled" -> "cancelled"
         [] OTHER                 -> "open"

Gathering(c) == INSTANCE Gather WITH
                  reply   <- [e \in Executors |-> ReplyOf(c, e)],
                  verdict <- VerdictOn(c)

(* Each request, whatever happens to the others, goes through a gathering  *)
(* of replies as module Gather specifies it: no reply ever changes, and    *)
(* the local executor is asked again only when all have replied in vain.   *)
GatherSpec ==
  /\ \A c \in Calls : Gathering(c)!Init
  /\ [][\A c \in Calls : [Gathering(c)!Next]_(Gathering(c)!vars)]_vars

(* The last resort really happens: when the client is told that all        *)
(* executors failed, the local executor was sent the command again, got    *)
(* the claim, ran the command and saw it fail.                             *)
AllFailedMeansLocalRan ==
  \A c \in Calls : call[c] = "all_failed" => exit[Retry(c)] = "nonzero"

(* A worker was at command k when its daemon died.                         *)
DiedAtIt(k) ==
  \E w \in Workers : ~alive[Host[w]] /\ pc[w] # "idle" /\ KeyOf(task[w]) = k

(* A copy of command k was answered "failed" without having been run.      *)
GivenUp(k) ==
  \E t \in Tasks : KeyOf(t) = k /\ rpc[t] = "failed" /\ exit[t] = "none"

(* Claims come back before the replies: when every copy of a command that  *)
(* live executors were sent has been answered, its record is not claimed,  *)
(* so a retry, or the next request, can have it.  There are two exceptions, *)
(* and a claim left by them stays until the record expires: the daemon of  *)
(* an executor died while a worker there was at the command, or a worker   *)
(* gave the command up after the claim because HGet failed (a path of      *)
(* worker_busy_wait that does not unclaim).                                *)
ClaimsAreGivenBack ==
  \A k \in Keys :
    /\ store[k] = "claimed"
    /\ \A t \in Tasks : KeyOf(t) = k /\ alive[t.at] => rpc[t] \notin InFlight
    => DiedAtIt(k) \/ GivenUp(k)

(* The copy is in the channel of the executor it was sent to, or with one  *)
(* of that executor's workers.                                             *)
Placed(t) ==
  \/ \E i \in 1..Len(queue[t.at]) : queue[t.at][i] = t
  \/ \E w \in Workers : Host[w] = t.at /\ pc[w] # "idle" /\ task[w] = t

(* Nobody waits in vain: a handler waits on its result channel only while  *)
(* its copy is queued at that executor or a worker there is at it, and the *)
(* proxy only for calls it has made.  Every path of a worker must therefore *)
(* report, the error paths of claim and HGet included.                     *)
NoCopyIsLost ==
  /\ \A t \in Tasks : rpc[t] = "waiting" => Placed(t)
  /\ \A c \in Calls :
       /\ call[c] = "gathering" => \A e \in Executors : rpc[Batch(c, e)] # "none"
       /\ call[c] = "retrying" => rpc[Retry(c)] # "none"

(* Every request is answered as long as the proxy's daemon is up.          *)
EveryCallAnswered ==
  \A c \in Calls : call[c] = "gathering" ~> (call[c] \in Answers \/ ~alive[Local])

(* Every SubmitAndExecute call comes back, those whose request has already *)
(* been answered included, unless a daemon dies: no handler waits forever. *)
EveryRpcReturns ==
  \A t \in Tasks : rpc[t] = "sent" ~> (rpc[t] \in Replies \/ ~alive[t.at] \/ ~alive[Local])

(* Requests with distinct commands.                                        *)
UniqueKeys == \A c, d \in Calls : TaskKey[c] = TaskKey[d] => c = d
=============================================================================
