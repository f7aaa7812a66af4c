# p2pbuild: TLA+ models, model checking and proofs

p2pbuild (Go, `src/`) executes the commands of a build on several machines. A
daemon runs on every machine. It is an *executor*, it discovers other daemons,
and on the client's machine it is also the *proxy* that `ninja` talks to. A
Redis on the client's machine carries the commands and arbitrates who runs
which.

This directory holds TLA+ modules that model the program, TLC configurations
that check them on small instances, and TLAPS proofs for instances of every
size. `PROJECT.json` lists the components, runs, mutants, findings, hazards and
theorems, and maps every definition to the lines it models.

## 1. The system

| component | source | state it keeps | operations |
|---|---|---|---|
| Proxy: command dispatch | `internal/service/sharebuild_proxy.go` 187-390 | per request: goroutines, `resultChan`, `successChan`, `doneChan`, WaitGroup | `ForwardAndExecute`, `tryExecuteWithRetry` |
| Proxy: project environment | same file, 45-185 and 421-454 | `projectToExecutors`, `grpcClients` (two `sync.Map`s) | `InitializeBuildEnv`, `prepareEnvironments`, `getOrCreateGrpcConnsForProject`, `ClearBuildEnv` |
| Task store | `internal/store/redis_client.go` | Redis hash per command: status, content, last_modifier, TTL | `HSetWithTTL`, `HGet`, claim script (`ClaimCmd`), expiry |
| Executor: environment | `internal/service/sharebuild_executor.go`, `internal/runner/project_runner.go` 36-139, 401-474 | `ProjectRunners`, the NFS mount, per runner `stopChan`, WaitGroup, workers | `PrepareLocalEnv`, `CleanupLocalEnv`, `Stop`, `startWorkers` |
| Executor: tasks | `sharebuild_executor.go` 80-109, `project_runner.go` 584-742 | task channels, one result channel per task, workers | `SubmitAndExecute`, `worker_busy_wait`, `TryClaimTask`, `UnclaimTask`, `TryFinishTask` |
| Command execution | `pkg/utils/command.go`, `LocalProjectRunner` (`project_runner.go` 64-139) | process, result, retry count | `ExecCommand`, `RunTask`, mount and umount |
| Container execution | `ContainerProjectRunner` (`project_runner.go` 141-398), docker helpers of `pkg/utils/utils.go` | image, pulling goroutine, container, deadline | `PullImageIfNecessary`, `RunTask` |
| Peer discovery | `internal/network/network_manager.go`, `peer_discovery.go` | `ActivePeerStore.peers` | `Connected`, `Disconnected`, `HandlePeerFound`, `PeerList`, `DiscoverPeers` |
| Store factory | `internal/store/factory.go` | `clients` under a mutex | `CreateKVStoreClient`, `CloseAllClients` |
| Daemon | `cmd/server/main.go` | gRPC server, signal channel | start-up, graceful stop |
| The rest | `pkg/`, `cmd/*cli`, `api/*.pb.go`, MySQL stub | none the protocol depends on | |

How they interact. The client calls `InitializeBuildEnv` at the proxy, which
picks active peers and calls `PrepareLocalEnv` at each: the executor makes a
runner (queue, worker pool, store client) and mounts the project. For every
build command the client calls `ForwardAndExecute`: the proxy writes the command
to Redis as `unclaimed` and calls `SubmitAndExecute` at *every* executor
concurrently. Each executor queues its copy; workers race for the command with
a compare-and-set script; the winner reads the text, runs it and marks the
command `done`, or `unclaimed` when it failed; losers answer "already claimed".
The first success answers the client. When all have answered and none
succeeded, the proxy sends the command to the executor on its own machine once
more. `ClearBuildEnv` calls `CleanupLocalEnv` at every executor.

What is hard about it: the race of workers on several machines for one record
that also expires; errors of the store with and without effect, and what is
retried or ignored after them; copies that outlive the request they belong to;
Go channels of fixed capacity with readers that leave early; `log.Fatalw`, which
exits the process on paths written as if they returned; handlers for one project
that run concurrently with its start, its stop and each other; two caches of the
proxy that must correspond by index. The hazards in `PROJECT.json` list these at
their lines.

What makes each component correct:

* dispatch: a command is held by one worker at a time, is not run again after a
  success, is answered truthfully and always answered, and the last resort on
  the local executor is a real execution;
* goroutines of a request: no send on a closed channel, no success overlooked,
  nothing blocked for ever;
* executor environment: no work after `Stop`, no command without its mount, no
  submission lost, every handler returns, no sequence of calls ends the daemon;
* project environment: connection `i` belongs to executor `i`, the local executor
  is among them, and a session leaves nothing behind;
* discovery: a peer that is gone leaves the active set, and both ends of a pair
  come to know each other;
* command execution: attempts one after the other, success only of a command that
  ended with 0, a result even of a command that never ends, and nothing left at
  work on the project except after a deadline;
* a run of a worker, in a shell or a container: the command's record outlives the
  run that holds it, says `done` only of a command that succeeded, and lets a
  second executor work beside the first only when the first gave its run up.

## 2. Modules

```
Gather ........ promise: collecting replies          CommandLease . promise: the claim protocol
   ^ implemented by                                     ^ implemented by
FanOut ........ goroutines/channels of a request     Dispatch ..... requests, queues, workers, faults
   (also by the proxy of Dispatch)                      EXTENDS TaskStore . the Redis hash, claim script

ExecutorEnv ... RPC handlers, runners, pools, mount, graceful stop of one executor

Session ....... promise: one build session after the other
   ^ implemented by
ProjectEnv .... the proxy's executors and connections of one project
   EXTENDS Peers .. the active peers of one daemon

BaseRunner .... a worker's run of a command under a record with a life: shell or container
   EXTENDS ExecCommand .. one execution of a command: attempts, deadline, kill, processes
   EXTENDS ContainerRun . the pull of an image, one container under a deadline
```

`MC*.tla` name the nodes, requests and functions that the `.cfg` files use;
`*Proofs.tla` hold the theorems. A definition whose comment begins with
"Mutant" is no part of a specification: it is the changed form of the definition
after it that `PROJECT.json` uses to show that a property can fail.

### TaskStore and Dispatch

`TaskStore` has one variable, `store[k]`: the status field of the record of task
key `k`, or `Absent`. `ClaimCode` is the claim script's return code and
`ClaimCmd` its effect. The script is atomic in Redis, hence one step.

`Dispatch` composes the store with the proxy and all worker pools of a project.

| module | code |
|---|---|
| `call[c]` | where request `c` is in `ForwardAndExecute` / `tryExecuteWithRetry`, or its answer |
| `rpc[t]` | the `SubmitAndExecute` call for copy `t`: `sent`, `waiting` (in `SubmitAndWaitTaskRes`), or its reply; `failed` is any execution error, `rejected` any other refusal |
| `queue[e]` | the runner's task channel. A runner has two channels, but a project's tasks all use the same one (the prefix test of line 720 is the same for all of them) |
| `pc`, `task`, `tries`, `taskRes` | the locals of `worker_busy_wait` and `TryClaimTask` |
| `exit[t]` | how `RunTask` ended for copy `t`: what really happened, kept for the properties |
| `alive[e]` | the daemon. `log.Fatalw` is `Die` |

One action per step of the worker: the reads and writes of Redis are separate
steps, so every interleaving of workers between claim, fetch, run, settle and
report is covered. A Redis call that errs (`Faulty`) may have taken effect or
not. A daemon in `Crashable` may die at any time; the death of the proxy's host
is the death of the local executor, since they are one process. Records of the
statuses in `Expiring` may vanish at any time: the TTL (20 minutes) is shorter
than the 30 minutes a container command may take.

`SubmitErrorIsFatal` is the consequence of line 286 of the proxy: an RPC error is
logged with `Fatalw`, so the proxy dies with it.

### CommandLease, Gather, Session

Abstract specifications. `CommandLease`: a lease per command, acquired only when
free and unfinished, completed or released by its holder. `Gather`: replies
never change; success only when a reply is a success; "exhausted" only when all
have replied in vain. `Session`: executors join one by one, a session opens with at
least one, every command goes to exactly the members and to each as itself, each
member leaves once, and the session closes when none is left.

### FanOut

The goroutines of one request at the granularity of channel operations, which
`Dispatch` abstracts into `ReturnSuccess` and `RetryOnLocal`. Both implement
`Gather`: that is what ties the two levels. `ScanResult` is one iteration of the
`range resultChan` loop.

### ExecutorEnv

The state of one project on one executor. `Prepares`, `Submits` and `Cleanups`
are the RPC calls; a runner is named by the `PrepareLocalEnv` call that made it.
Each handler is cut where the code calls out or blocks: look-up of the runner,
send to its channel, wait; umount, close of `stopChan`, `wg.Wait`, delete from
the map. `startWorkers` is a goroutine of its own and starts a worker at a time
(`StartWorker`), also after `Stop`. `Answer` stands for the whole handling of a
task, which is `Dispatch`'s business. `GracefulStop` returns when no handler is
pending. `Orderly` restricts the environment to what one client session does
through the proxy when no copy of a command is left behind: one call after the
other, submissions in parallel, none before the preparation succeeded.

Assumed of the operating system: `mount` refuses a directory that carries the
mount already, `umount` fails on one that does not or that is in use.

### Peers and ProjectEnv

`Peers`: `peers` is the key set of `ActivePeerStore`, `conn[n]` the life of a
libp2p connection. `Connected(n)` and `Disconnected(n)` are the notifications;
`closed` is the time between the end of a connection and its notification.

`ProjectEnv`: `projectToExecutors` and `grpcClients` are the proxy's two
`sync.Map`s at the key of the project; a connection is named by the peer it
leads to. `pc`, `executors`, `conns`, `next`, `ready` are the locals of the
handlers, which are cut at each access to a map and at each call to an executor,
so that concurrent requests interleave between `Load` and `Store` of the cache,
and peers may come and go between any two steps. `env[p]` is the outcome of the
calls at executor `p`, and `sent` records for every command the executor it was
meant for and the one its connection leads to.

`SessionSpec` maps this to `Session`: the phase is `preparing` while an
initialisation is pending, `clearing` while a clean-up has executors to forget,
else `open` or `closed` by whether `projectToExecutors` has the project; the
members are those prepared so far, those still to be cleaned, or those listed. It
is the proxy's half of what `ExecutorEnv` assumes of its callers (`Orderly`): an
executor is called to prepare once, then to run commands, then once to clean up.

Assumed of the client (`MayInitialize`, `MayForward`, `MayClear`): it builds in
sessions, that is, it initialises a project that has no session, sends commands
concurrently, and clears when they have been answered. Assumed of addresses: the
only executor whose address begins with the proxy's own is the local one
(`IsLocalExecutor` compares a prefix), and `Addresses[0]` of the local peer is
that address.

### ExecCommand

One call. `proc[k]` is what is alive of attempt `k`: the shell, or only what the
shell started. `waiter[k]` is the goroutine in `Wait`, which returns when the
shell has exited and nobody holds the output pipes; whatever the shell started
is taken to hold them. `ctx` is the context of the call, and `Deadline` its end.
`Kill` and `exec.CommandContext` kill the shell alone. Nothing obliges a command,
its children or the goroutine in `Wait` to end.

### ContainerRun

| variable | code |
|---|---|
| `address` | the image the request names: none (then `LocalProjectRunner` is made instead), only the prefix `docker://`, a text that does not parse, or an address |
| `image`, `pull` | the image on this machine, and the goroutine of `PrepareEnvironment` that pulls it (lines 220-230) |
| `place`, `container` | where `RunTask` is, and its container |
| `ended` | which of the returns of `RunTask` was taken |
| `left` | time to the deadline of `RunTask`'s context |

One action per call to the docker daemon, with its success and its error. The
daemon is external: a call whose answer is an error may have had its effect
(`NoStart` leaves the container created or running), no call succeeds under a
context that is done, and a pull whose stream carries an error may be reported
ready without an image. `cleanupContainer` is commented out in the code, so no
action stops or removes a container.

### BaseRunner

One worker, one command and its record. `use` says what the one call of
`ExecCommand` is for: the command itself (`LocalProjectRunner`), the mount that
precedes image and tasks of `ContainerProjectRunner`, or an umount.
`RunnerInit` combines them as the code does: the client's own machine mounts
nothing unless commands run in containers, and a container request has its
tasks in ContainerRun, not in ExecCommand.

`record` and `ttl` are the Redis hash and the time to its expiry, which every
change renews. `ClaimAndRun` is the claim, the fetch and the start of `RunTask`'s
clock; `Settle` is `TryFinishTask` or `UnclaimTask`. `other` is a worker of
another executor, which may take the command whenever its record is unclaimed.
Store errors are `Dispatch`'s matter; here the store is reliable and time passes,
which is what `Dispatch` leaves out.

`Tick` passes one unit of time. A run whose deadline has passed is settled before
the next tick, since every call it makes ends with its context; the seconds
between claim and `RunTask` are not counted. The failures before `ExecCommand`
is reached (`MkdirAll`, not being root) are not told apart from a command that
failed.

## 3. What the runs show

All passing runs finish; `CHECK_DEADLOCK FALSE` is set because every instance
has finitely many requests and rightly stops when they are done. That nothing
stops too early is what the liveness runs check.

| run | bounds | shows |
|---|---|---|
| `dispatch_reliable` | 2 commands, 2 executors, 3 workers; storing may fail, clients leave, the remote daemon die (and the proxy's with it), but workers lose no reply of the store | `AllFailedMeansLocalRan`, `ClaimsAreGivenBack`, `AnswerMatchesOutcome`, `GatherSpec`: the last resort really runs, claims come back before the replies (see the two leaks below), answers are not mixed up, the proxy concludes what `Gather` allows |
| `dispatch_faults` | 1 command, 2 executors, 3 workers, every store error with and without effect, client gone, either daemon dying, expiry in every status | `TypeOK`, `OneHolder`, `OneSuccess`, `AnswerMatchesOutcome`, `NoCopyIsLost`, `LeaseSpec` |
| `dispatch_live` | 2 commands, one with empty text, channel of 1, an executor without runner, store errors, remote crash, expiry in every status, fair | `EveryCallAnswered`, `EveryRpcReturns` |
| `fanout` | 3 executors: one may succeed, one fail, one be late; fair | `TypeOK`, `NoSendAfterClose`, `GatherSpec`, `GoroutinesEnd`, `HandlerReturns` |
| `executor_races` | 2 preparations, 2 submissions, 1 clean-up in any order, pools of 2, channel of 1, all faults | `TypeOK`, `NoRunAfterStop`, `WaitingIsSomewhere` |
| `executor_session` | one client session with a repeated preparation, 2 submissions and 2 clean-ups, fair | `WorkNeedsMount`, `CrashNeedsFailedUmount`, `EverySubmitReturns`, `ShutdownCompletes` |
| `project_sessions` | 2 daemons, 2 connections between them, 2 sessions, 2 concurrent commands, silent failures of preparation, failing clean-ups | `TypeOK`, `NoGhosts`, `RoutedByName`, `NeverDies`, `LeavesNothingBehind`, `SessionSpec` |
| `exec_command` | module `BaseRunner`: every use of `ExecCommand` with the code's 3 retries, every image address, both executors, time in units of 5 minutes, fair | of the call `TypeOK`, `AttemptsDoNotOverlap`, `SuccessIsReal`, `OnlyTimeoutsLeaveWork`, `AlwaysReturns`; of the run `RunnerTypeOK`, `WorkIsExclusive`, `ClaimOutlivesRun`, `RecordIsTrue`, `EveryRunSettles` |

Two leaks are in the code, and `ClaimsAreGivenBack` names them as exceptions. The
claim of an executor that dies with a command in a worker stays `claimed`, and
nobody can take the command, until the record expires; so does the claim of a
worker whose `HGet` fails after the claim (`project_runner.go` 658), where the
worker answers "failed" and does not unclaim. The property says that there is no
third way while the replies to claims arrive: in particular a command that was
run, or a copy on a machine that is up, leaves no claim once it was answered. The
run has crashes and no `HGet` failure (with one, `AllFailedMeansLocalRan` would
fail in the same instance); the theorem has both. A lost reply of a claim, or a
settlement that failed, leaves a claim too (`dispatch_lost_claim`).

Why the bounds are enough. Commands share nothing but the queue and the worker
pool, so two commands show every interference; three workers on two executors
give both a race inside a pool and one across machines; a channel of one place
is full with two copies. Three goroutines distinguish an early, a late and a
failing executor. Two preparations give the replaced runner, two submissions
fill a channel of one, a pool of two gives a worker that starts after the stop.
Two executors are the least that can be out of step in two lists, two
connections the least for the notifications of one peer to interleave, two
sessions the least for something to be left from the first. The proofs below
remove the bounds for the properties they cover.

In `exec_command` nothing is scaled down but the unit of time. Its constants are
the code's durations in units of 5 minutes, rounded up: a shell command has 15
minutes on the client's machine (3) and 2 elsewhere (1), a container 30 (6), a
record 20 (4). So the record outlives every shell command and a container may
outlive its record, which is the order that matters. `OnlyTimeoutsLeaveWork` and
`WorkIsExclusive` do not say that nothing is left behind, since the code kills
only the shell and stops no container: they say which paths leave it, and that no
other does.

`executor_session` allows a second clean-up, which a client makes when the first
reported an error. `CrashNeedsFailedUmount` says when that is fatal.

`project_sessions` lets a preparation fail only in the way that the proxy does
not see, and asks for as many executors as there are daemons. The failures it
does see are `project_partial`; with fewer executors than daemons, the local one
may not be picked and the first command ends the proxy (line 256).

Runs that end in a violation, each a finding:

| run | property | what happens |
|---|---|---|
| `dispatch_overlap` | `OneHolder` | a cancelled request and its repetition: storing the command resets a live claim, two workers run it |
| `dispatch_lost_claim` | `AllFailedMeansLocalRan` | a lost reply of the claim script, retried, is refused by the worker's own claim; nobody runs the command |
| `executor_abandoned` | `EverySubmitReturns` | a task left in the channel of a stopped runner is never answered; its handler, and a graceful stop, wait for ever |
| `project_partial` | `RoutedByName` | an executor that failed to prepare leaves the list of executors but not that of connections; the command for the local executor goes to it |

Three further behaviours are in the models without a violation run of their own:
an RPC error takes the proxy down with `Fatalw` (`SubmitErrorIsFatal`), a
clean-up repeated after a failed umount closes the closed `stopChan`
(`CloseStopChan`; `CrashNeedsFailedUmount` says that nothing else does in a
session), and after `project_partial`'s failure `ClearBuildEnv` indexes past the
executors (`CleanupEnvironments`).

Every property of a passing run has a mutant: a definition changed the way a
plausible bug would, under which TLC finds the property violated.

### Fairness

Weak fairness only. `Dispatch`: the proxy's handler goroutine, the delivery of
an RPC that was sent (or its error), and each worker's step are scheduled by the
Go runtime; commands end because `RunTask` has a timeout. There is no fairness
for faults, cancellation or crashes. `FanOut`: goroutines run; calls come back,
which `EveryRpcReturns` is about. `ExecutorEnv`: handlers, workers and
`startWorkers` run; mount and umount end by their timeouts. `WF` of
`WorkerStep(w)` suffices, because a worker is one sequential loop of which one
step is enabled at a time. `BaseRunner` (`RunnerFairness`): the worker and the
caller of `ExecCommand` are scheduled, time passes, and calls to the docker
daemon end once their context is done. Nothing is assumed of the command, of its
children, of the goroutine in `Wait`, of the container, of the pull or of the
other executor. `AlwaysReturns` and `EveryRunSettles` there are what justifies
that commands end in `Dispatch`, and mounts in `ExecutorEnv`. One call has no
deadline, the umount of `ContainerProjectRunner` (`project_runner.go` 390), which
`AlwaysReturns` excepts (`HasDeadline`).

## 4. What is proved

`tlapm` checks, for any number of executors, workers, requests, calls, retries,
peers and connections, any capacities and any durations:

| theorem | states |
|---|---|
| `DispatchProofs!TypeCorrect` | `Spec => []TypeOK` |
| `DispatchProofs!AnswersAreTrue` | `Spec => []AnswerMatchesOutcome`, with all faults and with reused command ids |
| `DispatchProofs!OverlapNeedsOverwrite` | `Spec /\ [][NoOverwrite]_vars => []OneHolder`: a second holder takes a request that stores a held command |
| `DispatchProofs!LeaseHoldsForNewCommands` | `Spec /\ [][NoOverwrite /\ NoRevival]_vars => LeaseSpec /\ []OneSuccess` |
| `DispatchProofs!FailedCommandsMayBeRepeated` | `Spec /\ [][RepeatsFailures]_vars => LeaseSpec /\ []OneHolder /\ []OneSuccess` |
| `DispatchProofs!OneHolderHolds`, `DispatchImplementsLease`, `OneSuccessHolds` | `Spec => []OneHolder`, `Spec => LeaseSpec`, `Spec => []OneSuccess`, under `UniqueKeys` |
| `DispatchReplyProofs!DispatchImplementsGather` | `Spec => GatherSpec`, with all faults |
| `DispatchReplyProofs!ClaimsAreAlwaysGivenBack` | `Spec => []ClaimsAreGivenBack`, under `ClaimsArrive` |
| `DispatchReplyProofs!CopiesAreNotLost` | `Spec => []NoCopyIsLost`, with all faults |
| `DispatchReplyProofs!LastResortIsReal` | `Spec /\ [][RepeatsFailures]_vars => []AllFailedMeansLocalRan`, under `Benign` |
| `DispatchReplyProofs!LastResortIsRealForUniqueKeys` | `Spec => []AllFailedMeansLocalRan`, under `Benign` and `UniqueKeys` |
| `FanOutProofs!FanTypeCorrect`, `NoSendAfterCloseHolds`, `SendNeverBlocks`, `WaitIsExact` | types, no send on a closed channel, none that blocks, and `wg.Wait` returns exactly when all goroutines have ended |
| `FanOutProofs!FanOutImplementsGather` | `Spec => GatherSpec` |
| `ExecutorEnvProofs!TypeCorrect`, `NoRunAfterStopHolds` | `Spec => []TypeOK`, `Spec => []NoRunAfterStop` |
| `ExecutorSessionProofs!WaitingIsAlwaysSomewhere` | `Spec => []WaitingIsSomewhere`, calls in any order |
| `ExecutorSessionProofs!WorkAlwaysHasMount`, `CrashAlwaysNeedsFailedUmount` | the two invariants of a session, under `Orderly` |
| `ProjectEnvProofs!ProjectTypeCorrect`, `NoGhostsEver` | `Spec => []TypeOK`, `Spec => []NoGhosts` |
| `ProjectEnvProofs!AlwaysRoutedByName`, `AlwaysLeavesNothingBehind` | `RoutedByName`, `LeavesNothingBehind`, under `Silent` |
| `ProjectEnvProofs!ProjectImplementsSession` | `Spec => SessionSpec`, under `Silent` |
| `ProjectEnvProofs!ProxyNeverDies` | `Spec => []NeverDies`, under `Silent` and `AllAsked` |
| `ExecCommandProofs!CallTypeCorrect`, `AttemptsNeverOverlap`, `SuccessIsAlwaysReal`, `OnlyTimeoutsEverLeaveWork` | the invariants of one call |
| `BaseRunnerProofs!RunnerTypeCorrect`, `WorkIsAlwaysExclusive`, `ClaimAlwaysOutlivesRun`, `RecordIsAlwaysTrue` | the invariants of a worker's run |
| `BaseRunnerProofs!RunnerMakesCalls` | `RunnerSpec => Spec` of `ExecCommand` |

Assumptions: the named `ASSUME`s of the modules, which TLC evaluates in every
run, and where the table says so

* of the requests, from the weakest: `NoOverwrite`, none stores a command that a
  worker holds at that moment; `NoRevival`, none stores a command that was run to
  success; `RepeatsFailures`, a command is submitted again only when the client
  was told that all executors failed or that it could not be stored;
  `UniqueKeys`, every request has a command of its own. They restrict the
  behaviours of the client, not the faults; `dispatch_overlap` violates
  `OneHolder` with a client that keeps none of them;
* `ClaimsArrive`, no reply of the store to a claim or a settlement is lost, but
  reading the text of a claimed command may fail; `RepliesArrive`, no reply of
  the store to a worker is lost; `Benign`, in addition that
  records last, the local executor has a runner, and its channel has a place per
  request. `dispatch_lost_claim` violates
  `AllFailedMeansLocalRan` without `RepliesArrive`. Daemons that die, clients that
  leave and a failure to store the command are allowed;
* `Orderly`, the executor is called as one client session calls it;
* `Silent`, no preparation fails in a way the proxy sees; `project_partial`
  violates `RoutedByName` without it;
* `AllAsked`, the client asks for at least as many executors as there are
  daemons; otherwise the local one may not be picked.

**Dispatch.** The argument has three layers. `CopyInv`: a copy is in one place
(proxy, one slot of its executor's channel, one worker) and its RPC waits
meanwhile. `OutcomeInv`: what proxy and workers were told is what was run. The
answer is truthful by these two, whatever the store does. `ClaimInv`: the record
of a held command is `claimed` or gone, and the record of a command that was run
to success is never `unclaimed`. None of the three follows from the properties
alone: `OneHolder` is not inductive without `Recorded`, since a second claim is
excluded only by the status in the record, and the refinement needs `Settled`,
since `finished` must exclude `Acquire` also when `TryFinishTask` was lost.
`StepKinds` sorts the actions by what they do to the claims, for any keys: a step
grants, advances or drops one worker's claim, or leaves all claims alone and then
overwrites a record only if it stores a command. So `OneHolder` fails in one way
only (`HolderStep`, `OverlapNeedsOverwrite`), and the lease in one more, a command
stored again after its success (`SettledStep`). `FailedLeavesNothing` is why a
command may be repeated after a failure: an answer "all failed" means that every
copy of the request has been refused, hence none is in a channel or at a worker,
and none succeeded; after "could not be stored" no copy was ever sent.

**Replies.** `GatherSpec` needs only `CopyInv`: the lemmas `Steady`,
`CallComesBack`, `ProxyConcludes` and `RequestBegins` are the four things a step
can be to a request. `NoCopyIsLost` is inductive together with `CopyInv` (`PlacedStep`): a copy
leaves the channel only into a worker of the same executor, and a worker only by
reporting. `ClaimsAreGivenBack` follows from `Accounted`, which says where a claim
can come from (a worker that holds the command, or a copy failed without having
been run), and `Unrun`, without which a copy whose `HGet` failed might have been
run before; `NoCopyIsLost` puts the worker on the machine its copy was sent to.
The last resort adds
`RetryInv`: the proxy waits for a retry on its way (`Awaited`), of the requests
for one command one at most is neither to come nor failed (`Alone`), the retry is sent when the whole batch was refused (`Retried`), the
record of a command that was sent is there (`Stored`) and says `done` only of a
success (`Finished`), and a refused retry was run and failed (`Tried`). `Room`
counts: the copies in the local channel belong to different other requests, so
there is a place left. `RetryIsClaimed` is the heart: a worker that claims for
the retry finds the record `unclaimed`, because `claimed` would need a holder and
`done` a success, both among the copies the proxy has seen refused.

**FanOut.** `FanInv`: the WaitGroup counts the goroutines that run and the channel
holds no more than those that sent (`Counted`), the channels are closed after the
last of them (`ClosedLast`), and an `ok` that was sent stays in `resultChan` until
the handler returns (`Received`), which is why "exhausted" is a true conclusion.

**ExecutorEnv.** `TypeOK` is inductive together with `Found` (a handler past its
look-up has a runner). `NoRunAfterStop` needs `Halted`: a clean-up past the close
of `stopChan` left it closed, so a worker started after `wg.Wait` returned still
finds it closed at its first look. `SweepFrame` covers all steps that do not move
a clean-up. `WaitingIsSomewhere` rests on `Handed` (a worker has a task exactly
while it works), `Placed` (what is in a channel or at a worker waits there and
nowhere else) and `Kept` (what waits is there). For a session, `Alone` says that
handlers do not overlap, `Begun` that nobody has a runner that was never made,
`StoppedBy` that a stopped runner still in the map is being cleaned up or its
clean-up failed, and `Mounted` that the project is mounted under a prepared runner.

**ProjectEnv.** `Fresh`, `Listed` and `Alone` say which handlers can be running at
a time and what their locals hold; `Initialising`, `Forwarding` and `Clearing`
follow each handler through its loop; `Matched` is the correspondence by index of
the two caches, `Held` and `Present` tie them to what the executors have. Without
`Silent`, `Matched` is false: that is `project_partial`.

The refinement of `Session` needs no further invariant. `Mapped` reads the phase
and the members off the one call that can be pending besides commands, and there
is a lemma for each kind of step (`SessionBegins` to `SessionCloses`). The loop of
`ClearBuildEnv` runs over connections and cleans the executor at the same index;
that each member leaves exactly once rests on `Matched` and on the lists having no
repetition.

**ExecCommand and BaseRunner.** The attempts are ordered (`InOrder`: those before
the current one are over, those after it have not begun), and a goroutine that
hands over an exit code has seen its attempt end (`Reaped`); without the second, a
retry could not be known to begin after the attempt before it. `RetryStep` and
`ProcessStep` deal with the actions that share an effect. `RunnerInv` adds that the
claim is held and the record's life is ahead of the run's deadline (`ClaimHeld`,
an inequality between the two clocks), what a run has started by where it is
(`InPlace`), and what a settled run left in the record (`Recorded`).

Only model-checked: the liveness properties (`EveryCallAnswered`,
`EveryRpcReturns`, `GoroutinesEnd`, `HandlerReturns`, `EverySubmitReturns`,
`ShutdownCompletes`, `AlwaysReturns`, `EveryRunSettles`), because liveness under
fairness and `ENABLED` are beyond the installed provers. Every safety property of
a passing run is proved.

## 5. What is not modelled

* Code without callers: `worker`, the older worker loop, `ExecCommandWithStdio`,
  `cleanupContainer`, `RemoveImageAndContainers`, `MapWorkspace`,
  `ClearWorkspace`, `HSet`, `Expire`, `FlushDB`.
* The docker daemon, Redis, libp2p and the operating system, except by what the
  code sees of them: their calls with every outcome.
* Who dials whom (`HandlePeerFound`), and the peer store of the other side.
* The text of commands and results, logging, metrics, configuration files.
* The store factory: a map under one mutex, of which get-or-create is one
  critical section.
* The MySQL client (a stub), the command-line probes, generated code.
* Key construction (`GenTaskKey`, `GenProjectKey`) beyond "requests have keys":
  requests that map to one key are the run with `SameKey`.

## 6. Plan

Done: all modules of section 2, their runs, and the proofs of section 4.

Next models, in this order:

1. A session composed of `ProjectEnv` and `ExecutorEnv`, so that the outcome of
   `PrepareLocalEnv` and `CleanupLocalEnv` is not assumed but comes from the
   runners, and `Orderly` follows from the proxy (whose half is `SessionSpec`)
   instead of being a constant.
2. `Peers` for both ends of a pair with mDNS: whoever discovers, one side dials,
   and both come to list each other.
3. `Dispatch` with the run of a command as long as `BaseRunner` makes it, so that
   the work a timeout leaves behind meets the retry on the local executor.

Next theorems: the refinements between those compositions and the modules they
are made of.
