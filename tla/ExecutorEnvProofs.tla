-------------------------- MODULE ExecutorEnvProofs --------------------------
(***************************************************************************)
(* Theorems about ExecutorEnv, for any number of calls, any pool size and   *)
(* queue size, and any interleaving of the handlers.                       *)
(***************************************************************************)
EXTENDS ExecutorEnv, TLAPS

(* A call that goes on has found a runner.                                 *)
Found ==
  /\ \A s \in Submits : submit[s] \in {"submitting", "waiting"} => found[s] \in Prepares
  /\ \A x \in Cleanups : cleanup[x] \notin {"idle", "refused"} => found[x] \in Prepares

(* A clean-up that is past the close of stopChan left it closed.           *)
Halted ==
  \A x \in Cleanups :
    cleanup[x] \in {"waiting", "deleting", "ok", "failed"} => found[x] \in stopped

SweepInv == Halted /\ NoRunAfterStop

-----------------------------------------------------------------------------
(* Calls and workers are what their names say, and their sets are apart.   *)
LEMMA WorkerFacts ==
  /\ \A w \in Workers : RunnerOf(w) \in Prepares
  /\ \A p \in Prepares, i \in 1..PoolSize : <<p, i>> \in Workers /\ RunnerOf(<<p, i>>) = p
  BY DEF Workers, RunnerOf

(* The type invariant is kept, together with what the handlers found.      *)
LEMMA TypeStep == TypeOK /\ Found /\ [Next]_vars => TypeOK'
<1> SUFFICES ASSUME TypeOK, Found, [Next]_vars PROVE TypeOK'
  OBVIOUS
<1> USE ExecutorEnvAssumption, WorkerFacts DEF TypeOK, poolVars
<1>1. ASSUME NEW p \in Prepares, RefusePrepare(p) PROVE TypeOK'
  BY <1>1 DEF RefusePrepare
<1>2. ASSUME NEW p \in Prepares, PrepareLocalEnv(p) PROVE TypeOK'
  BY <1>2 DEF PrepareLocalEnv
<1>3. ASSUME NEW p \in Prepares, PrepareEnvironment(p) PROVE TypeOK'
  BY <1>3 DEF PrepareEnvironment
<1>4. ASSUME NEW p \in Prepares, StartWorker(p) PROVE TypeOK'
  BY <1>4 DEF StartWorker
<1>5. ASSUME NEW s \in Submits, SubmitAndExecute(s) PROVE TypeOK'
  BY <1>5 DEF SubmitAndExecute
<1>6. ASSUME NEW s \in Submits, Enqueue(s) PROVE TypeOK'
  <2>1. found[s] \in Prepares
    BY <1>6 DEF Enqueue, Found
  <2>2. Append(queue[found[s]], s) \in Seq(Submits)
        /\ Len(Append(queue[found[s]], s)) = Len(queue[found[s]]) + 1
    BY <2>1
  <2>3. CASE queue' = queue /\ submit' = [submit EXCEPT ![s] = "refused"]
    BY <1>6, <2>3 DEF Enqueue
  <2>4. CASE /\ Len(queue[found[s]]) < QueueSize
             /\ queue' = [queue EXCEPT ![found[s]] = Append(queue[found[s]], s)]
             /\ submit' = [submit EXCEPT ![s] = "waiting"]
    <3>1. Len(queue[found[s]]) \in Nat /\ Len(queue[found[s]]) + 1 <= QueueSize
      BY <2>1, <2>4
    <3>2. queue' \in [Prepares -> Seq(Submits)]
      BY <2>1, <2>2, <2>4
    <3>3. \A p \in Prepares : Len(queue'[p]) <= QueueSize
      BY <2>1, <2>2, <2>4, <3>1
    <3>4. submit' \in [Submits -> {"idle", "submitting", "waiting", "answered", "refused"}]
      BY <2>4
    <3>5. QED
      BY <1>6, <3>2, <3>3, <3>4 DEF Enqueue
  <2>5. QED
    BY <1>6, <2>3, <2>4 DEF Enqueue
<1>7. ASSUME NEW x \in Cleanups, CleanupLocalEnv(x) PROVE TypeOK'
  BY <1>7 DEF CleanupLocalEnv
<1>8. ASSUME NEW x \in Cleanups, Unmount(x) PROVE TypeOK'
  BY <1>8 DEF Unmount
<1>9. ASSUME NEW x \in Cleanups, CloseStopChan(x) PROVE TypeOK'
  <2>1. found[x] \in Prepares
    BY <1>9 DEF CloseStopChan, Found
  <2>2. cleanup' = cleanup \/ cleanup' = [cleanup EXCEPT ![x] = "waiting"]
    BY <1>9 DEF CloseStopChan
  <2>3. stopped' = stopped \/ stopped' = stopped \cup {found[x]}
    BY <1>9 DEF CloseStopChan
  <2>4. daemon' = daemon \/ daemon' = "crashed"
    BY <1>9 DEF CloseStopChan
  <2>5. UNCHANGED <<projectRunner, prepare, submit, found, cleanErr, started, queue, pc, task, mounted>>
    BY <1>9 DEF CloseStopChan
  <2>6. QED
    BY <2>1, <2>2, <2>3, <2>4, <2>5
<1>10. ASSUME NEW x \in Cleanups, WaitForWorkers(x) PROVE TypeOK'
  BY <1>10 DEF WaitForWorkers
<1>11. ASSUME NEW x \in Cleanups, DeleteRunner(x) PROVE TypeOK'
  BY <1>11 DEF DeleteRunner
<1>12. ASSUME NEW w \in Workers, Poll(w) PROVE TypeOK'
  BY <1>12 DEF Poll, Goto
<1>13. ASSUME NEW w \in Workers, TakeTask(w) PROVE TypeOK'
  <2> DEFINE q == queue[RunnerOf(w)]
  <2>1. q \in Seq(Submits) /\ Len(q) \in Nat /\ Len(q) <= QueueSize
    OBVIOUS
  <2>2. q # <<>> => /\ Head(q) \in Submits /\ Tail(q) \in Seq(Submits)
                    /\ Len(Tail(q)) = Len(q) - 1
    BY <2>1
  <2>3. CASE q # <<>> /\ task' = [task EXCEPT ![w] = Head(q)]
             /\ queue' = [queue EXCEPT ![RunnerOf(w)] = Tail(q)] /\ Goto(w, "working")
    <3>1. queue' \in [Prepares -> Seq(Submits)]
      BY <2>2, <2>3
    <3>2. \A p \in Prepares : Len(queue'[p]) <= QueueSize
      BY <2>1, <2>2, <2>3
    <3>3. task' \in [Workers -> Submits \cup {None}]
      BY <2>2, <2>3
    <3>4. pc' \in [Workers -> {"unborn", "polling", "taking", "working", "gone"}]
      BY <2>3 DEF Goto
    <3>5. QED
      BY <1>13, <3>1, <3>2, <3>3, <3>4 DEF TakeTask
  <2>4. CASE Goto(w, "polling") /\ UNCHANGED <<task, queue>>
    BY <1>13, <2>4 DEF TakeTask, Goto
  <2>5. QED
    BY <1>13, <2>3, <2>4 DEF TakeTask
<1>14. ASSUME NEW w \in Workers, Answer(w) PROVE TypeOK'
  BY <1>14 DEF Answer, Goto
<1>15. ASSUME Terminate \/ GracefulStop PROVE TypeOK'
  BY <1>15 DEF Terminate, GracefulStop
<1>16. CASE UNCHANGED vars
  BY <1>16 DEF vars
<1>17. QED
  BY <1>1, <1>2, <1>3, <1>4, <1>5, <1>6, <1>7, <1>8, <1>9, <1>10, <1>11, <1>12, <1>13,
     <1>14, <1>15, <1>16 DEF Next, CleanupStep, WorkerStep

(* What a handler found stays with it until it returns.                    *)
LEMMA FoundStep == TypeOK /\ Found /\ [Next]_vars => Found'
<1> SUFFICES ASSUME TypeOK, Found, [Next]_vars PROVE Found'
  OBVIOUS
<1> USE DEF TypeOK, Found
<1>1. ASSUME UNCHANGED <<submit, cleanup, found>> PROVE Found'
  BY <1>1
<1>2. ASSUME NEW s \in Submits, SubmitAndExecute(s) PROVE Found'
  <2>1. found'[s] = projectRunner /\ \A a \in Submits \cup Cleanups : a # s => found'[a] = found[a]
    BY <1>2 DEF SubmitAndExecute
  <2>2. \A r \in Submits : submit'[r] \in {"submitting", "waiting"} => found'[r] \in Prepares
    BY <1>2, <2>1 DEF SubmitAndExecute
  <2>3. \A x \in Cleanups : cleanup'[x] \notin {"idle", "refused"} => found'[x] \in Prepares
    BY <1>2, <2>1, ExecutorEnvAssumption DEF SubmitAndExecute, MaySubmit
  <2>4. QED
    BY <2>2, <2>3
<1>3. ASSUME NEW s \in Submits, Enqueue(s) PROVE Found'
  BY <1>3 DEF Enqueue
<1>4. ASSUME NEW x \in Cleanups, CleanupLocalEnv(x) PROVE Found'
  BY <1>4, ExecutorEnvAssumption DEF CleanupLocalEnv
<1>5. ASSUME NEW x \in Cleanups, CleanupStep(x) PROVE Found'
  BY <1>5 DEF CleanupStep, Unmount, CloseStopChan, WaitForWorkers, DeleteRunner
<1>6. ASSUME NEW w \in Workers, Answer(w) PROVE Found'
  BY <1>6 DEF Answer
<1>7. QED
  BY <1>1, <1>2, <1>3, <1>4, <1>5, <1>6
  DEF Next, WorkerStep, RefusePrepare, PrepareLocalEnv, PrepareEnvironment, StartWorker, Poll,
      TakeTask, Terminate, GracefulStop, vars

-----------------------------------------------------------------------------
(* The initial state has the types, and no handler has begun.              *)
LEMMA TypeInit == Init => TypeOK /\ Found
<1> SUFFICES ASSUME Init PROVE TypeOK /\ Found
  OBVIOUS
<1> USE ExecutorEnvAssumption DEF Init
<1>1. Found
  BY DEF Found
<1>2. /\ queue \in [Prepares -> Seq(Submits)]
      /\ \A p \in Prepares : Len(queue[p]) <= QueueSize
  <2>1. <<>> \in Seq(Submits) /\ Len(<<>>) = 0 /\ 0 <= QueueSize
    OBVIOUS
  <2>2. QED
    BY <2>1
<1>3. started \in [Prepares -> 0..PoolSize]
  <2>1. 0 \in 0..PoolSize
    OBVIOUS
  <2>2. QED
    BY <2>1
<1>4. QED
  BY <1>1, <1>2, <1>3 DEF TypeOK

(* Every variable keeps its type: in particular no task channel ever holds *)
(* more than its capacity, whatever handlers and workers do to it.         *)
THEOREM TypeCorrect == Spec => []TypeOK
<1>1. Init => TypeOK /\ Found
  BY TypeInit
<1>2. TypeOK /\ Found /\ [Next]_vars => (TypeOK /\ Found)'
  BY TypeStep, FoundStep
<1>3. QED
  BY <1>1, <1>2, PTL DEF Spec

(* The same for what the handlers found.                                   *)
LEMMA FoundCorrect == Spec => []Found
<1>1. Init => TypeOK /\ Found
  BY TypeInit
<1>2. TypeOK /\ Found /\ [Next]_vars => (TypeOK /\ Found)'
  BY TypeStep, FoundStep
<1>3. QED
  BY <1>1, <1>2, PTL DEF Spec

-----------------------------------------------------------------------------
(* A step that starts no clean-up, moves none and closes nothing leaves     *)
(* Halted alone; and if it puts no worker of a swept runner to work, it     *)
(* keeps NoRunAfterStop.                                                   *)
LEMMA SweepFrame ==
  ASSUME SweepInv, UNCHANGED <<cleanup, stopped>>,
         \A x \in Cleanups : found'[x] = found[x],
         \A w \in Workers : \/ pc'[w] = pc[w]
                            \/ pc'[w] \notin {"taking", "working"}
                            \/ RunnerOf(w) \notin stopped
                            \/ pc[w] \in {"taking", "working"}
  PROVE  SweepInv'
<1>1. Halted'
  BY DEF SweepInv, Halted
<1>2. \A p : Swept(p)' => Swept(p) /\ p \in stopped
  BY DEF SweepInv, Halted, Swept
<1>3. NoRunAfterStop'
  <2> SUFFICES ASSUME NEW w \in Workers, Swept(RunnerOf(w))', pc'[w] \in {"taking", "working"}
               PROVE FALSE
    BY DEF NoRunAfterStop
  <2>1. Swept(RunnerOf(w)) /\ RunnerOf(w) \in stopped
    BY <1>2
  <2>2. pc[w] \notin {"taking", "working"}
    BY <2>1 DEF SweepInv, NoRunAfterStop
  <2>3. QED
    BY <2>1, <2>2
<1>4. QED
  BY <1>1, <1>3 DEF SweepInv

(* One step, whichever handler or worker takes it, keeps SweepInv.          *)
LEMMA SweepStep == TypeOK /\ Found /\ SweepInv /\ [Next]_vars => SweepInv'
<1> SUFFICES ASSUME TypeOK, Found, SweepInv, [Next]_vars PROVE SweepInv'
  OBVIOUS
<1> DEFINE Past == {"waiting", "deleting", "ok", "failed"}
<1>1. ASSUME UNCHANGED <<cleanup, stopped, found, pc>> PROVE SweepInv'
  BY <1>1, SweepFrame
<1>2. ASSUME NEW p \in Prepares, StartWorker(p) PROVE SweepInv'
  <2>1. \A w \in Workers : pc'[w] = pc[w] \/ pc'[w] = "polling"
    BY <1>2 DEF StartWorker, TypeOK
  <2>2. QED
    BY <1>2, <2>1, SweepFrame DEF StartWorker
<1>3. ASSUME NEW s \in Submits, SubmitAndExecute(s) PROVE SweepInv'
  <2>1. \A x \in Cleanups : found'[x] = found[x]
    BY <1>3, ExecutorEnvAssumption DEF SubmitAndExecute, TypeOK
  <2>2. QED
    BY <1>3, <2>1, SweepFrame DEF SubmitAndExecute, poolVars
<1>4. ASSUME NEW x \in Cleanups, CleanupLocalEnv(x) PROVE SweepInv'
  <2>1. /\ cleanup'[x] \in {"refused", "unmounting"}
        /\ \A y \in Cleanups : y # x => cleanup'[y] = cleanup[y] /\ found'[y] = found[y]
        /\ UNCHANGED <<stopped, pc>>
    BY <1>4 DEF CleanupLocalEnv, TypeOK, poolVars
  <2>2. Halted'
    BY <2>1 DEF SweepInv, Halted
  <2>3. \A p : Swept(p)' => Swept(p)
    BY <2>1 DEF Swept
  <2>4. QED
    BY <2>1, <2>2, <2>3 DEF SweepInv, NoRunAfterStop
<1>5. ASSUME NEW x \in Cleanups, Unmount(x) PROVE SweepInv'
  <2>1. /\ cleanup'[x] = "stopping"
        /\ \A y \in Cleanups : y # x => cleanup'[y] = cleanup[y]
        /\ UNCHANGED <<found, stopped, pc>>
    BY <1>5 DEF Unmount, TypeOK, poolVars
  <2>2. Halted' /\ \A p : Swept(p)' => Swept(p)
    BY <2>1 DEF SweepInv, Halted, Swept
  <2>3. QED
    BY <2>1, <2>2 DEF SweepInv, NoRunAfterStop
<1>6. ASSUME NEW x \in Cleanups, CloseStopChan(x) PROVE SweepInv'
  <2>1. UNCHANGED <<found, pc>>
    BY <1>6 DEF CloseStopChan
  <2>2. CASE UNCHANGED <<cleanup, stopped>>
    BY <2>1, <2>2, <1>1
  <2>3. CASE /\ stopped' = stopped \cup {found[x]}
             /\ cleanup' = [cleanup EXCEPT ![x] = "waiting"]
    <3>1. cleanup'[x] = "waiting" /\ \A y \in Cleanups : y # x => cleanup'[y] = cleanup[y]
      BY <2>3 DEF TypeOK
    <3>2. Halted' /\ \A p : Swept(p)' => Swept(p)
      BY <2>1, <2>3, <3>1 DEF SweepInv, Halted, Swept
    <3>3. QED
      BY <2>1, <3>2 DEF SweepInv, NoRunAfterStop
  <2>4. QED
    BY <1>6, <2>2, <2>3 DEF CloseStopChan
<1>7. ASSUME NEW x \in Cleanups, WaitForWorkers(x) PROVE SweepInv'
  <2>1. /\ cleanup[x] = "waiting" /\ cleanup'[x] \in {"failed", "deleting"}
        /\ \A y \in Cleanups : y # x => cleanup'[y] = cleanup[y]
        /\ \A w \in Workers : RunnerOf(w) = found[x] => pc[w] \in {"unborn", "gone"}
        /\ UNCHANGED <<found, stopped, pc>>
    BY <1>7 DEF WaitForWorkers, TypeOK, poolVars
  <2>2. Halted'
    BY <2>1 DEF SweepInv, Halted
  <2>3. \A p : Swept(p)' => Swept(p) \/ p = found[x]
    BY <2>1 DEF Swept
  <2>4. QED
    BY <2>1, <2>2, <2>3 DEF SweepInv, NoRunAfterStop
<1>8. ASSUME NEW x \in Cleanups, DeleteRunner(x) PROVE SweepInv'
  <2>1. /\ cleanup[x] = "deleting" /\ cleanup'[x] = "ok"
        /\ \A y \in Cleanups : y # x => cleanup'[y] = cleanup[y]
        /\ UNCHANGED <<found, stopped, pc>>
    BY <1>8 DEF DeleteRunner, TypeOK, poolVars
  <2>2. Halted' /\ \A p : Swept(p)' => Swept(p)
    BY <2>1 DEF SweepInv, Halted, Swept
  <2>3. QED
    BY <2>1, <2>2 DEF SweepInv, NoRunAfterStop
<1>9. ASSUME NEW w \in Workers, Poll(w) PROVE SweepInv'
  <2>1. /\ \A v \in Workers : v # w => pc'[v] = pc[v]
        /\ pc'[w] = IF RunnerOf(w) \in stopped THEN "gone" ELSE "taking"
    BY <1>9 DEF Poll, Goto, TypeOK
  <2>2. QED
    BY <1>9, <2>1, SweepFrame DEF Poll
<1>10. ASSUME NEW w \in Workers, TakeTask(w) \/ Answer(w) PROVE SweepInv'
  <2>1. /\ \A v \in Workers : v # w => pc'[v] = pc[v]
        /\ pc[w] \in {"taking", "working"}
    BY <1>10 DEF TakeTask, Answer, Goto, TypeOK
  <2>2. QED
    BY <1>10, <2>1, SweepFrame DEF TakeTask, Answer
<1>11. QED
  BY <1>1, <1>2, <1>3, <1>4, <1>5, <1>6, <1>7, <1>8, <1>9, <1>10
  DEF Next, CleanupStep, WorkerStep, RefusePrepare, PrepareLocalEnv, PrepareEnvironment,
      Enqueue, Terminate, GracefulStop, vars, poolVars

(* Once a runner's Stop has returned, none of its workers has a task or can *)
(* take one, however late startWorkers started them: the clean-up left      *)
(* stopChan closed behind it, and a worker looks there before it takes.     *)
THEOREM NoRunAfterStopHolds == Spec => []NoRunAfterStop
<1>1. Init => SweepInv
  BY DEF Init, SweepInv, Halted, NoRunAfterStop
<1>2. TypeOK /\ Found /\ SweepInv /\ [Next]_vars => SweepInv'
  BY SweepStep
<1>3. SweepInv => NoRunAfterStop
  BY DEF SweepInv
<1>4. QED
  BY <1>1, <1>2, <1>3, TypeCorrect, FoundCorrect, PTL DEF Spec
=============================================================================
