------------------------ MODULE ExecutorSessionProofs -------------------------
(***************************************************************************)
(* Theorems about the submissions of ExecutorEnv and about its orderly      *)
(* sessions, for any number of calls and any sizes of pool and channel.     *)
(***************************************************************************)
EXTENDS ExecutorEnvProofs

(* A worker has a task exactly while it works on it, and one that has not   *)
(* been started has none.                                                  *)
Handed ==
  /\ \A w \in Workers : task[w] # None <=> pc[w] = "working"
  /\ \A p \in Prepares, i \in 1..PoolSize : i > started[p] => pc[<<p, i>>] = "unborn"

(* A submission in a channel or at a worker waits at that runner, and is at *)
(* no other place.                                                         *)
Placed ==
  /\ \A w \in Workers :
       task[w] # None => submit[task[w]] = "waiting" /\ found[task[w]] = RunnerOf(w)
  /\ \A v, w \in Workers : task[v] # None /\ task[v] = task[w] => v = w
  /\ \A p \in Prepares : \A i \in 1..Len(queue[p]) :
       /\ submit[queue[p][i]] = "waiting" /\ found[queue[p][i]] = p
       /\ \A j \in 1..Len(queue[p]) : queue[p][i] = queue[p][j] => i = j
       /\ \A w \in Workers : task[w] # queue[p][i]

(* A submission that waits is in a channel or at a worker.                  *)
Kept ==
  \A s \in Submits :
    submit[s] = "waiting" =>
      \/ \E i \in 1..Len(queue[found[s]]) : queue[found[s]][i] = s
      \/ \E w \in Workers : task[w] = s

SubmitInv == TypeOK /\ Found /\ Handed /\ Placed /\ Kept

-----------------------------------------------------------------------------
(* What holds of a channel's submissions when one is appended or taken.     *)
LEMMA AppendFacts ==
  ASSUME NEW S, NEW q \in Seq(S), NEW e \in S
  PROVE  /\ Len(Append(q, e)) = Len(q) + 1
         /\ \A i \in 1..Len(q) : Append(q, e)[i] = q[i]
         /\ Append(q, e)[Len(q) + 1] = e
         /\ Append(q, e) \in Seq(S)
         /\ Len(q) \in Nat
OBVIOUS

LEMMA TailFacts ==
  ASSUME NEW S, NEW q \in Seq(S), q # <<>>
  PROVE  /\ Len(q) \in Nat /\ Len(q) >= 1
         /\ Len(Tail(q)) = Len(q) - 1
         /\ \A i \in 1..Len(Tail(q)) : Tail(q)[i] = q[i + 1]
         /\ Head(q) = q[1] /\ Head(q) \in S
OBVIOUS

LEMMA HandedStep == SubmitInv /\ [Next]_vars => Handed'
<1> SUFFICES ASSUME SubmitInv, [Next]_vars PROVE Handed'
  OBVIOUS
<1> USE ExecutorEnvAssumption, WorkerFacts DEF SubmitInv, TypeOK, Handed
<1>1. CASE UNCHANGED <<started, pc, task>>
  BY <1>1
<1>2. ASSUME NEW p \in Prepares, StartWorker(p) PROVE Handed'
  <2> DEFINE n == started[p] + 1
  <2>1. n \in 1..PoolSize /\ n > started[p] /\ <<p, n>> \in Workers
    BY <1>2 DEF StartWorker
  <2>2. pc[<<p, n>>] = "unborn"
    BY <2>1
  <2>3. started' = [started EXCEPT ![p] = n] /\ pc' = [pc EXCEPT ![<<p, n>>] = "polling"]
    BY <1>2 DEF StartWorker
  <2>4. \A w \in Workers : pc'[w] = IF w = <<p, n>> THEN "polling" ELSE pc[w]
    BY <2>1, <2>3
  <2>5. \A r \in Prepares : started'[r] = IF r = p THEN n ELSE started[r]
    BY <2>3
  <2> HIDE DEF n
  <2>6. \A w \in Workers : task'[w] # None <=> pc'[w] = "working"
    BY <1>2, <2>2, <2>4 DEF StartWorker
  <2>7. ASSUME NEW r \in Prepares, NEW i \in 1..PoolSize, i > started'[r]
        PROVE  pc'[<<r, i>>] = "unborn"
    <3>1. <<r, i>> # <<p, n>>
      BY <2>1, <2>5, <2>7
    <3>2. i \in Nat /\ n \in Nat /\ started[r] \in Nat
      BY <2>1
    <3>3. i > started[r]
      BY <2>1, <2>5, <2>7, <3>2
    <3>4. QED
      BY <2>4, <3>1, <3>3
  <2>8. QED
    BY <2>6, <2>7
<1>3. ASSUME NEW w \in Workers, Poll(w) PROVE Handed'
  BY <1>3 DEF Poll, Goto
<1>4. ASSUME NEW w \in Workers, Answer(w) PROVE Handed'
  BY <1>4 DEF Answer, Goto
<1>5. ASSUME NEW w \in Workers, TakeTask(w) PROVE Handed'
  <2>1. CASE Goto(w, "polling") /\ UNCHANGED <<started, task>>
    BY <1>5, <2>1 DEF TakeTask, Goto
  <2>2. ASSUME NEW e \in Submits, task' = [task EXCEPT ![w] = e], Goto(w, "working")
        PROVE  Handed'
    BY <1>5, <2>2 DEF TakeTask, Goto
  <2>3. queue[RunnerOf(w)] # <<>> => Head(queue[RunnerOf(w)]) \in Submits
    BY TailFacts
  <2>4. QED
    BY <1>5, <2>1, <2>2, <2>3 DEF TakeTask
<1>6. QED
  BY <1>1, <1>2, <1>3, <1>4, <1>5
  DEF Next, vars, poolVars, CleanupStep, WorkerStep, RefusePrepare, PrepareLocalEnv,
      PrepareEnvironment, SubmitAndExecute, Enqueue, CleanupLocalEnv, Unmount,
      CloseStopChan, WaitForWorkers, DeleteRunner, Terminate, GracefulStop

(* A step that leaves channels, tasks and waiting submissions where they are *)
LEMMA PlaceFrame ==
  ASSUME SubmitInv, UNCHANGED <<queue, task>>,
         \A s \in Submits : submit[s] = "waiting" <=> submit'[s] = "waiting",
         \A s \in Submits : submit[s] = "waiting" => found'[s] = found[s]
  PROVE  Placed' /\ Kept'
<1>1. \A p \in Prepares : \A i \in 1..Len(queue[p]) : queue[p][i] \in Submits
  BY DEF SubmitInv, TypeOK
<1>2. Placed'
  BY <1>1 DEF SubmitInv, Placed, TypeOK
<1>3. Kept'
  BY DEF SubmitInv, Kept
<1>4. QED
  BY <1>2, <1>3

LEMMA PlacedStep == SubmitInv /\ [Next]_vars => Placed' /\ Kept'
<1> SUFFICES ASSUME SubmitInv, [Next]_vars PROVE Placed' /\ Kept'
  OBVIOUS
<1>1. CASE UNCHANGED <<submit, found, queue, task>>
  BY <1>1, PlaceFrame
<1>2. ASSUME NEW s \in Submits, SubmitAndExecute(s) PROVE Placed' /\ Kept'
  <2>1. \A r \in Submits : submit[r] = "waiting" <=> submit'[r] = "waiting"
    BY <1>2 DEF SubmitAndExecute, MaySubmit, SubmitInv, TypeOK
  <2>2. \A r \in Submits : submit[r] = "waiting" => found'[r] = found[r]
    BY <1>2 DEF SubmitAndExecute, MaySubmit, SubmitInv, TypeOK
  <2>3. QED
    BY <1>2, <2>1, <2>2, PlaceFrame DEF SubmitAndExecute, poolVars
<1>3. ASSUME NEW s \in Submits, Enqueue(s) PROVE Placed' /\ Kept'
  <2> DEFINE p == found[s]
             q == queue[p]
  <2>1. p \in Prepares /\ submit[s] = "submitting"
    BY <1>3 DEF Enqueue, SubmitInv, Found
  <2>2. CASE submit' = [submit EXCEPT ![s] = "refused"] /\ UNCHANGED queue
    <3>1. \A r \in Submits : submit[r] = "waiting" <=> submit'[r] = "waiting"
      BY <2>1, <2>2 DEF SubmitInv, TypeOK
    <3>2. QED
      BY <1>3, <2>2, <3>1, PlaceFrame DEF Enqueue
  <2>3. CASE /\ queue' = [queue EXCEPT ![p] = Append(q, s)]
             /\ submit' = [submit EXCEPT ![s] = "waiting"]
    <3>1. q \in Seq(Submits)
      BY <2>1 DEF SubmitInv, TypeOK
    <3> DEFINE a == Append(q, s)
    <3>2. /\ Len(a) = Len(q) + 1 /\ Len(q) \in Nat
          /\ \A i \in 1..Len(q) : a[i] = q[i]
          /\ a[Len(q) + 1] = s
      BY <3>1, AppendFacts
    <3>3. UNCHANGED <<found, task>>
      BY <1>3 DEF Enqueue
    <3>4. \A r \in Prepares : queue'[r] = IF r = p THEN a ELSE queue[r]
      BY <2>3, <2>1 DEF SubmitInv, TypeOK
    <3> HIDE DEF a
    <3>5. \A r \in Submits : submit'[r] = IF r = s THEN "waiting" ELSE submit[r]
      BY <2>3 DEF SubmitInv, TypeOK
    <3>6. \A w \in Workers : task[w] # s
      <4>1. s # None
        BY ExecutorEnvAssumption
      <4>2. QED
        BY <2>1, <4>1 DEF SubmitInv, Placed
    <3>7. \A r \in Prepares : \A i \in 1..Len(queue[r]) : queue[r][i] \in Submits /\ queue[r][i] # s
      BY <2>1 DEF SubmitInv, Placed, TypeOK
    <3>8. \A r \in Prepares : \A i \in 1..Len(queue'[r]) :
            \/ i \in 1..Len(queue[r]) /\ queue'[r][i] = queue[r][i]
            \/ r = p /\ i = Len(q) + 1 /\ queue'[r][i] = s
      <4>1. \A i \in 1..Len(a) : i \in 1..Len(q) \/ i = Len(q) + 1
        BY <3>2
      <4>2. QED
        BY <2>1, <3>2, <3>4, <4>1
    <3>9. \A w \in Workers :
            task[w] # None => submit'[task[w]] = "waiting" /\ found[task[w]] = RunnerOf(w)
      BY <3>5 DEF SubmitInv, Placed, TypeOK
    <3>10. ASSUME NEW r \in Prepares, NEW i \in 1..Len(queue'[r])
           PROVE  /\ submit'[queue'[r][i]] = "waiting" /\ found[queue'[r][i]] = r
                  /\ \A j \in 1..Len(queue'[r]) : queue'[r][i] = queue'[r][j] => i = j
                  /\ \A w \in Workers : task[w] # queue'[r][i]
      BY <3>5, <3>6, <3>7, <3>8 DEF SubmitInv, Placed
    <3>11. Placed'
      BY <3>3, <3>9, <3>10 DEF SubmitInv, Placed
    <3>12. ASSUME NEW r \in Submits, submit'[r] = "waiting"
           PROVE  \/ \E i \in 1..Len(queue'[found[r]]) : queue'[found[r]][i] = r
                  \/ \E w \in Workers : task[w] = r
      <4>1. CASE r = s
        <5>1. Len(q) + 1 \in 1..Len(queue'[p]) /\ queue'[p][Len(q) + 1] = s
          BY <2>1, <3>2, <3>4
        <5>2. QED
          BY <4>1, <5>1
      <4>2. CASE r # s
        <5>1. submit[r] = "waiting" /\ found[r] \in Prepares
          BY <3>12, <3>5, <4>2 DEF SubmitInv, Found
        <5>2. \A i \in 1..Len(queue[found[r]]) :
                i \in 1..Len(queue'[found[r]]) /\ queue'[found[r]][i] = queue[found[r]][i]
          BY <3>2, <3>4, <5>1
        <5>3. QED
          BY <5>1, <5>2 DEF SubmitInv, Kept
      <4>3. QED
        BY <4>1, <4>2
    <3>13. Kept'
      BY <3>3, <3>12 DEF Kept
    <3>14. QED
      BY <3>11, <3>13
  <2>4. QED
    BY <1>3, <2>2, <2>3 DEF Enqueue
<1>4. ASSUME NEW x \in Cleanups, CleanupLocalEnv(x) PROVE Placed' /\ Kept'
  <2>1. \A r \in Submits : found'[r] = found[r]
    BY <1>4, ExecutorEnvAssumption DEF CleanupLocalEnv, SubmitInv, TypeOK
  <2>2. QED
    BY <1>4, <2>1, PlaceFrame DEF CleanupLocalEnv, poolVars
<1>5. ASSUME NEW w \in Workers, TakeTask(w) PROVE Placed' /\ Kept'
  <2> DEFINE p == RunnerOf(w)
             q == queue[p]
  <2>1. p \in Prepares /\ q \in Seq(Submits) /\ UNCHANGED <<submit, found>>
    BY <1>5, WorkerFacts DEF TakeTask, SubmitInv, TypeOK
  <2>2. CASE UNCHANGED <<task, queue>>
    BY <1>1, <2>1, <2>2
  <2>3. CASE /\ q # <<>>
             /\ task' = [task EXCEPT ![w] = Head(q)]
             /\ queue' = [queue EXCEPT ![p] = Tail(q)]
    <3> DEFINE t == Tail(q)
    <3>1. /\ Len(q) \in Nat /\ Len(q) >= 1
          /\ Len(t) = Len(q) - 1
          /\ \A i \in 1..Len(t) : t[i] = q[i + 1]
          /\ Head(q) = q[1] /\ Head(q) \in Submits
      BY <2>1, <2>3, TailFacts
    <3> DEFINE h == q[1]
    <3>2. \A v \in Workers : task'[v] = IF v = w THEN h ELSE task[v]
      BY <2>3, <3>1 DEF SubmitInv, TypeOK
    <3>3. \A r \in Prepares : queue'[r] = IF r = p THEN t ELSE queue[r]
      BY <2>1, <2>3 DEF SubmitInv, TypeOK
    <3> HIDE DEF t
    <3>4. task[w] = None
      BY <1>5 DEF TakeTask, SubmitInv, Handed
    <3>5. /\ 1 \in 1..Len(q) /\ h \in Submits /\ submit[h] = "waiting" /\ found[h] = p
          /\ \A v \in Workers : task[v] # h
          /\ \A i \in 1..Len(q) : q[i] = h => i = 1
      BY <2>1, <3>1 DEF SubmitInv, Placed
    <3>6. \A r \in Prepares : \A i \in 1..Len(queue'[r]) :
            /\ r = p => i + 1 \in 1..Len(q) /\ queue'[r][i] = q[i + 1]
            /\ r # p => i \in 1..Len(queue[r]) /\ queue'[r][i] = queue[r][i]
      BY <2>1, <3>1, <3>3
    <3> HIDE DEF h
    <3>7. \A v \in Workers :
            task'[v] # None => submit[task'[v]] = "waiting" /\ found[task'[v]] = RunnerOf(v)
      BY <3>2, <3>5 DEF SubmitInv, Placed
    <3>8. \A u, v \in Workers : task'[u] # None /\ task'[u] = task'[v] => u = v
      BY <3>2, <3>5 DEF SubmitInv, Placed
    <3>9. ASSUME NEW r \in Prepares, NEW i \in 1..Len(queue'[r])
          PROVE  /\ submit[queue'[r][i]] = "waiting" /\ found[queue'[r][i]] = r
                 /\ \A j \in 1..Len(queue'[r]) : queue'[r][i] = queue'[r][j] => i = j
                 /\ \A v \in Workers : task'[v] # queue'[r][i]
      <4>1. CASE r = p
        <5>1. i + 1 \in 1..Len(q) /\ queue'[r][i] = q[i + 1]
          BY <3>6, <4>1
        <5>2. \A j \in 1..Len(queue'[r]) : j + 1 \in 1..Len(q) /\ queue'[r][j] = q[j + 1]
          BY <3>6, <4>1
        <5>3. q[i + 1] # h
          BY <3>5, <5>1
        <5>4. QED
          BY <2>1, <3>2, <4>1, <5>1, <5>2, <5>3 DEF SubmitInv, Placed
      <4>2. CASE r # p
        <5>1. /\ i \in 1..Len(queue[r]) /\ queue'[r][i] = queue[r][i]
              /\ \A j \in 1..Len(queue'[r]) :
                   j \in 1..Len(queue[r]) /\ queue'[r][j] = queue[r][j]
          BY <3>6, <4>2
        <5>2. queue[r][i] # h
          BY <3>5, <4>2, <5>1 DEF SubmitInv, Placed
        <5>3. QED
          BY <3>2, <5>1, <5>2 DEF SubmitInv, Placed
      <4>3. QED
        BY <4>1, <4>2
    <3>10. Placed'
      BY <2>1, <3>7, <3>8, <3>9 DEF Placed
    <3>11. ASSUME NEW r \in Submits, submit[r] = "waiting"
           PROVE  \/ \E i \in 1..Len(queue'[found[r]]) : queue'[found[r]][i] = r
                  \/ \E v \in Workers : task'[v] = r
      <4>1. CASE r = h
        BY <3>2, <4>1
      <4>2. CASE \E v \in Workers : task[v] = r
        <5>1. PICK v \in Workers : task[v] = r
          BY <4>2
        <5>2. v # w
          BY <3>4, <5>1, ExecutorEnvAssumption
        <5>3. QED
          BY <3>2, <5>1, <5>2
      <4>3. CASE r # h /\ \E i \in 1..Len(queue[found[r]]) : queue[found[r]][i] = r
        <5>1. PICK i \in 1..Len(queue[found[r]]) : queue[found[r]][i] = r
          BY <4>3
        <5>2. found[r] \in Prepares
          BY <3>11 DEF SubmitInv, Found
        <5>3. CASE found[r] = p
          <6>1. i # 1
            BY <4>3, <5>1, <5>3 DEF h
          <6>2. i - 1 \in 1..Len(t) /\ t[i - 1] = q[i]
            BY <3>1, <5>1, <5>3, <6>1
          <6>3. QED
            BY <2>1, <3>3, <5>1, <5>3, <6>2
        <5>4. CASE found[r] # p
          BY <3>3, <5>1, <5>2, <5>4
        <5>5. QED
          BY <5>3, <5>4
      <4>4. QED
        BY <3>11, <4>1, <4>2, <4>3 DEF SubmitInv, Kept
    <3>12. Kept'
      BY <2>1, <3>11 DEF Kept
    <3>13. QED
      BY <3>10, <3>12
  <2>4. QED
    BY <1>5, <2>2, <2>3 DEF TakeTask
<1>6. ASSUME NEW w \in Workers, Answer(w) PROVE Placed' /\ Kept'
  <2> DEFINE t == task[w]
  <2>1. t \in Submits /\ UNCHANGED <<found, queue>>
    BY <1>6, ExecutorEnvAssumption DEF Answer, SubmitInv, Handed, TypeOK
  <2>2. \A s \in Submits : submit'[s] = IF s = t THEN "answered" ELSE submit[s]
    BY <1>6 DEF Answer, SubmitInv, TypeOK
  <2>3. \A v \in Workers : task'[v] = IF v = w THEN None ELSE task[v]
    BY <1>6 DEF Answer, SubmitInv, TypeOK
  <2>4. \A v \in Workers : v # w => task[v] # t
    BY <2>1, ExecutorEnvAssumption DEF SubmitInv, Placed
  <2>5. \A p \in Prepares : \A i \in 1..Len(queue[p]) : queue[p][i] \in Submits /\ queue[p][i] # t
    BY DEF SubmitInv, Placed, TypeOK
  <2> HIDE DEF t
  <2>6. \A v \in Workers :
          task'[v] # None => submit'[task'[v]] = "waiting" /\ found[task'[v]] = RunnerOf(v)
    BY <2>2, <2>3, <2>4 DEF SubmitInv, Placed, TypeOK
  <2>7. \A p \in Prepares : \A i \in 1..Len(queue[p]) :
          /\ submit'[queue[p][i]] = "waiting" /\ found[queue[p][i]] = p
          /\ \A j \in 1..Len(queue[p]) : queue[p][i] = queue[p][j] => i = j
          /\ \A v \in Workers : task'[v] # queue[p][i]
    BY <2>2, <2>3, <2>5, ExecutorEnvAssumption DEF SubmitInv, Placed
  <2>8. Placed'
    BY <2>1, <2>3, <2>6, <2>7 DEF SubmitInv, Placed
  <2>9. Kept'
    BY <2>1, <2>2, <2>3 DEF SubmitInv, Kept, t
  <2>10. QED
    BY <2>8, <2>9
<1>7. QED
  BY <1>1, <1>2, <1>3, <1>4, <1>5, <1>6
  DEF Next, vars, poolVars, CleanupStep, WorkerStep, RefusePrepare, PrepareLocalEnv,
      PrepareEnvironment, StartWorker, Poll, Unmount, CloseStopChan, WaitForWorkers,
      DeleteRunner, Terminate, GracefulStop

(* The invariant is one of the specification.                              *)
LEMMA SubmitCorrect == Spec => []SubmitInv
<1>1. Init => SubmitInv
  <2> SUFFICES ASSUME Init PROVE SubmitInv
    OBVIOUS
  <2>1. Handed
    BY ExecutorEnvAssumption, WorkerFacts DEF Init, Handed
  <2>2. Placed /\ Kept
    BY ExecutorEnvAssumption DEF Init, Placed, Kept
  <2>3. QED
    BY <2>1, <2>2, TypeInit DEF SubmitInv
<1>2. SubmitInv /\ [Next]_vars => SubmitInv'
  BY TypeStep, FoundStep, HandedStep, PlacedStep DEF SubmitInv
<1>3. QED
  BY <1>1, <1>2, PTL DEF Spec

(* A submission that waits is in the channel of the runner it was made to   *)
(* or at one of its workers, at one place only, in every order of calls:    *)
(* replaced and stopped runners lose nothing and hand nothing over.         *)
THEOREM WaitingIsAlwaysSomewhere == Spec => []WaitingIsSomewhere
<1>1. SubmitInv => WaitingIsSomewhere
  <2> SUFFICES ASSUME SubmitInv, NEW s \in Submits, submit[s] = "waiting"
               PROVE  LET p == found[s]
                          places == {i \in 1..Len(queue[p]) : queue[p][i] = s}
                          hands  == {w \in Workers : task[w] = s}
                      IN \/ \E i \in places : places = {i} /\ hands = {}
                         \/ \E w \in hands : hands = {w} /\ places = {} /\ RunnerOf(w) = p
    BY DEF WaitingIsSomewhere
  <2> DEFINE p == found[s]
             places == {i \in 1..Len(queue[p]) : queue[p][i] = s}
             hands  == {w \in Workers : task[w] = s}
  <2>1. p \in Prepares /\ s # None
    BY ExecutorEnvAssumption DEF SubmitInv, Found
  <2>2. CASE \E i \in 1..Len(queue[p]) : queue[p][i] = s
    <3>1. PICK i \in 1..Len(queue[p]) : queue[p][i] = s
      BY <2>2
    <3>2. places = {i}
      BY <2>1, <3>1 DEF SubmitInv, Placed
    <3>3. hands = {}
      BY <2>1, <3>1 DEF SubmitInv, Placed
    <3>4. QED
      BY <3>2, <3>3
  <2>3. CASE \E w \in Workers : task[w] = s
    <3>1. PICK w \in Workers : task[w] = s
      BY <2>3
    <3>2. hands = {w} /\ RunnerOf(w) = p
      BY <2>1, <3>1 DEF SubmitInv, Placed
    <3>3. places = {}
      BY <2>1, <3>1 DEF SubmitInv, Placed
    <3>4. QED
      BY <3>2, <3>3
  <2>4. QED
    BY <2>2, <2>3 DEF SubmitInv, Kept
<1>2. QED
  BY <1>1, SubmitCorrect, PTL

-----------------------------------------------------------------------------
(* Orderly sessions.                                                       *)

Busy == {"unmounting", "stopping", "waiting", "deleting"}

(* A clean-up in progress is the only call in progress, and it is about the *)
(* runner in the map.  Submissions do not meet a preparation.               *)
Alone ==
  /\ \A x \in Cleanups : cleanup[x] \in Busy =>
       /\ found[x] = projectRunner
       /\ \A y \in Cleanups : cleanup[y] \in Busy => y = x
       /\ \A p \in Prepares : prepare[p] # "preparing"
       /\ \A s \in Submits : submit[s] \notin {"submitting", "waiting"}
  /\ \A s \in Submits : submit[s] \in {"submitting", "waiting"} =>
       \A p \in Prepares : prepare[p] # "preparing"

(* Nobody has a runner that was never made.                                *)
Begun ==
  \A p \in Prepares : prepare[p] \in {"idle", "refused"} =>
    projectRunner # p /\ p \notin stopped /\ \A x \in Cleanups : found[x] # p

(* A stopped runner in the map is being cleaned up, or its clean-up failed. *)
StoppedBy ==
  projectRunner \in stopped =>
    \E y \in Cleanups : /\ found[y] = projectRunner
                        /\ cleanup[y] \in {"waiting", "deleting", "failed"}

(* While a prepared runner is in the map the project is mounted, unless the *)
(* clean-up that has unmounted it is about to delete the runner.            *)
Mounted ==
  /\ projectRunner # None /\ prepare[projectRunner] = "ok" /\ ~OnClient =>
       \/ mounted
       \/ \E x \in Cleanups : cleanup[x] \in {"stopping", "waiting", "deleting"} /\ ~cleanErr[x]
  /\ \A x \in Cleanups : cleanup[x] \in {"idle", "unmounting"} => ~cleanErr[x]
  /\ \A s \in Submits : submit[s] \in {"submitting", "waiting"} /\ ~OnClient => mounted

SessionInv == Alone /\ Begun /\ StoppedBy /\ Mounted /\ CrashNeedsFailedUmount

(* Steps that touch none of what the invariant is about.                    *)
LEMMA SessionFrame ==
  ASSUME SessionInv,
         UNCHANGED <<projectRunner, prepare, cleanup, cleanErr, stopped, mounted>>,
         \A x \in Cleanups : found'[x] = found[x],
         daemon' = "crashed" => daemon = "crashed",
         \A s \in Submits : submit'[s] \in {"submitting", "waiting"} =>
                             submit[s] \in {"submitting", "waiting"}
  PROVE  SessionInv'
<1>1. Alone'
  BY DEF SessionInv, Alone
<1>2. Begun' /\ StoppedBy'
  BY DEF SessionInv, Begun, StoppedBy
<1>3. Mounted'
  BY DEF SessionInv, Mounted
<1>4. CrashNeedsFailedUmount'
  BY DEF SessionInv, CrashNeedsFailedUmount
<1>5. QED
  BY <1>1, <1>2, <1>3, <1>4 DEF SessionInv

(* What an orderly proxy waits for before its next call.                    *)
LEMMA OrderlyCalls ==
  ASSUME TypeOK, Orderly
  PROVE  /\ Admitted =>
              /\ \A p \in Prepares : prepare[p] # "preparing"
              /\ \A x \in Cleanups : cleanup[x] \notin Busy
              /\ \A s \in Submits : submit[s] \notin {"submitting", "waiting"}
         /\ \A s \in Submits : MaySubmit(s) =>
              /\ \A p \in Prepares : prepare[p] # "preparing"
              /\ \A x \in Cleanups : cleanup[x] \notin Busy
BY ExecutorEnvAssumption DEF Admitted, MaySubmit, Pending, Busy

LEMMA SessionStep ==
  ASSUME Orderly
  PROVE  TypeOK /\ Found /\ SessionInv /\ [Next]_vars => SessionInv'
<1> SUFFICES ASSUME TypeOK, Found, SessionInv, [Next]_vars PROVE SessionInv'
  OBVIOUS
<1> USE DEF TypeOK, poolVars
<1>1. CASE UNCHANGED vars \/ Terminate \/ GracefulStop
  BY <1>1, SessionFrame DEF vars, Terminate, GracefulStop
<1>2. ASSUME NEW p \in Prepares, RefusePrepare(p) PROVE SessionInv'
  <2>1. daemon # "crashed" /\ prepare[p] = "idle"
    BY <1>2 DEF RefusePrepare, Admitted
  <2>2. \A r \in Prepares : prepare'[r] = IF r = p THEN "refused" ELSE prepare[r]
    BY <1>2 DEF RefusePrepare
  <2>3. Alone' /\ Begun' /\ StoppedBy'
    BY <1>2, <2>1, <2>2 DEF RefusePrepare, SessionInv, Alone, Begun, StoppedBy
  <2>4. Mounted' /\ CrashNeedsFailedUmount'
    BY <1>2, <2>1, <2>2 DEF RefusePrepare, SessionInv, Mounted, CrashNeedsFailedUmount
  <2>5. QED
    BY <2>3, <2>4 DEF SessionInv
<1>3. ASSUME NEW p \in Prepares, PrepareLocalEnv(p) PROVE SessionInv'
  <2>1. /\ \A x \in Cleanups : cleanup[x] \notin Busy
        /\ \A s \in Submits : submit[s] \notin {"submitting", "waiting"}
    BY <1>3, OrderlyCalls DEF PrepareLocalEnv
  <2>2. daemon # "crashed" /\ prepare[p] = "idle"
    BY <1>3 DEF PrepareLocalEnv, Admitted
  <2>3. \A r \in Prepares : prepare'[r] = IF r = p THEN "preparing" ELSE prepare[r]
    BY <1>3 DEF PrepareLocalEnv
  <2>4. Alone' /\ Begun' /\ StoppedBy'
    BY <1>3, <2>1, <2>2, <2>3 DEF PrepareLocalEnv, SessionInv, Alone, Begun, StoppedBy
  <2>5. Mounted' /\ CrashNeedsFailedUmount'
    BY <1>3, <2>1, <2>2, <2>3 DEF PrepareLocalEnv, SessionInv, Mounted, CrashNeedsFailedUmount
  <2>6. QED
    BY <2>4, <2>5 DEF SessionInv
<1>4. ASSUME NEW p \in Prepares, PrepareEnvironment(p) PROVE SessionInv'
  <2>1. /\ prepare[p] = "preparing" /\ daemon # "crashed"
        /\ \A r \in Prepares : r # p => prepare'[r] = prepare[r]
        /\ prepare'[p] \in {"ok", "failed"}
        /\ ~OnClient /\ (mounted \/ prepare'[p] = "ok") => mounted'
    <3>1. CASE prepare' = [prepare EXCEPT ![p] = "ok"] /\ mounted' = ~OnClient
      BY <1>4, <3>1, Zenon DEF PrepareEnvironment, Up
    <3>2. CASE prepare' = [prepare EXCEPT ![p] = "failed"] /\ mounted' = mounted
      BY <1>4, <3>2 DEF PrepareEnvironment, Up
    <3>3. QED
      BY <1>4, <3>1, <3>2, Zenon DEF PrepareEnvironment
  <2>2. Alone' /\ Begun' /\ StoppedBy'
    BY <1>4, <2>1 DEF PrepareEnvironment, SessionInv, Alone, Begun, StoppedBy
  <2>3. Mounted' /\ CrashNeedsFailedUmount'
    BY <1>4, <2>1 DEF PrepareEnvironment, SessionInv, Mounted, CrashNeedsFailedUmount
  <2>4. QED
    BY <2>2, <2>3 DEF SessionInv
<1>5. ASSUME NEW p \in Prepares, StartWorker(p) PROVE SessionInv'
  BY <1>5, SessionFrame DEF StartWorker
<1>6. ASSUME NEW s \in Submits, SubmitAndExecute(s) PROVE SessionInv'
  <2>1. /\ \A p \in Prepares : prepare[p] # "preparing"
        /\ \A x \in Cleanups : cleanup[x] \notin Busy
    BY <1>6, OrderlyCalls DEF SubmitAndExecute
  <2>2. /\ daemon # "crashed"
        /\ projectRunner # None => prepare[projectRunner] = "ok"
    BY <1>6 DEF SubmitAndExecute, MaySubmit
  <2>3. /\ \A x \in Cleanups : found'[x] = found[x]
        /\ \A r \in Submits : r # s => submit'[r] = submit[r]
        /\ submit'[s] = "submitting" => projectRunner # None
    BY <1>6, ExecutorEnvAssumption DEF SubmitAndExecute
  <2>4. Alone' /\ Begun' /\ StoppedBy'
    BY <1>6, <2>1, <2>3 DEF SubmitAndExecute, SessionInv, Alone, Begun, StoppedBy
  <2>5. submit'[s] \in {"submitting", "waiting"} /\ ~OnClient => mounted
    BY <1>6, <2>1, <2>2 DEF SubmitAndExecute, SessionInv, Mounted, Busy
  <2>6. Mounted' /\ CrashNeedsFailedUmount'
    BY <1>6, <2>2, <2>3, <2>5 DEF SubmitAndExecute, SessionInv, Mounted, CrashNeedsFailedUmount
  <2>7. QED
    BY <2>4, <2>6 DEF SessionInv
<1>7. ASSUME NEW s \in Submits, Enqueue(s) PROVE SessionInv'
  BY <1>7, SessionFrame DEF Enqueue
<1>8. ASSUME NEW x \in Cleanups, CleanupLocalEnv(x) PROVE SessionInv'
  <2>1. /\ \A p \in Prepares : prepare[p] # "preparing"
        /\ \A y \in Cleanups : cleanup[y] \notin Busy
        /\ \A s \in Submits : submit[s] \notin {"submitting", "waiting"}
        /\ daemon # "crashed" /\ cleanup[x] = "idle"
    BY <1>8, OrderlyCalls DEF CleanupLocalEnv, Admitted
  <2>2. /\ \A y \in Cleanups : found'[y] = IF y = x THEN projectRunner ELSE found[y]
        /\ \A y \in Cleanups : y # x => cleanup'[y] = cleanup[y]
        /\ cleanup'[x] \in {"refused", "unmounting"}
    BY <1>8 DEF CleanupLocalEnv
  <2>3. Alone' /\ Begun' /\ StoppedBy'
    BY <1>8, <2>1, <2>2 DEF CleanupLocalEnv, SessionInv, Alone, Begun, StoppedBy
  <2>4. Mounted' /\ CrashNeedsFailedUmount'
    BY <1>8, <2>1, <2>2 DEF CleanupLocalEnv, SessionInv, Mounted, CrashNeedsFailedUmount, Busy
  <2>5. QED
    BY <2>3, <2>4 DEF SessionInv
<1>9. ASSUME NEW x \in Cleanups, Unmount(x) PROVE SessionInv'
  <2>1. /\ cleanup[x] = "unmounting" /\ daemon # "crashed"
        /\ \A y \in Cleanups : cleanup'[y] = IF y = x THEN "stopping" ELSE cleanup[y]
        /\ \A y \in Cleanups : y # x => cleanErr'[y] = cleanErr[y]
        /\ mounted' = mounted \/ cleanErr'[x] = cleanErr[x]
    BY <1>9 DEF Unmount, Up
  <2>2. \A s \in Submits : submit[s] \notin {"submitting", "waiting"}
    BY <2>1 DEF SessionInv, Alone, Busy
  <2>3. Alone' /\ Begun' /\ StoppedBy'
    BY <1>9, <2>1 DEF Unmount, SessionInv, Alone, Begun, StoppedBy, Busy
  <2>4. Mounted' /\ CrashNeedsFailedUmount'
    BY <1>9, <2>1, <2>2 DEF Unmount, SessionInv, Mounted, CrashNeedsFailedUmount, Alone, Busy
  <2>5. QED
    BY <2>3, <2>4 DEF SessionInv
<1>10. ASSUME NEW x \in Cleanups, CloseStopChan(x) PROVE SessionInv'
  <2>1. cleanup[x] = "stopping" /\ daemon # "crashed" /\ found[x] = projectRunner
    BY <1>10 DEF CloseStopChan, Up, SessionInv, Alone, Busy
  <2>2. CASE found[x] \in stopped
    <3>1. PICK y \in Cleanups : /\ found[y] = projectRunner
                               /\ cleanup[y] \in {"waiting", "deleting", "failed"}
      BY <2>1, <2>2 DEF SessionInv, StoppedBy
    <3>2. y # x /\ cleanup[y] = "failed"
      BY <2>1, <3>1 DEF SessionInv, Alone, Busy
    <3>3. UNCHANGED <<projectRunner, prepare, submit, cleanup, found, cleanErr, stopped, mounted>>
      BY <1>10, <2>2 DEF CloseStopChan
    <3>4. CrashNeedsFailedUmount'
      BY <2>1, <3>1, <3>2, <3>3 DEF CrashNeedsFailedUmount
    <3>5. QED
      BY <3>3, <3>4 DEF SessionInv, Alone, Begun, StoppedBy, Mounted
  <2>3. CASE found[x] \notin stopped
    <3>1. /\ stopped' = stopped \cup {found[x]}
          /\ \A y \in Cleanups : cleanup'[y] = IF y = x THEN "waiting" ELSE cleanup[y]
          /\ UNCHANGED <<projectRunner, prepare, submit, found, cleanErr, mounted, daemon>>
      BY <1>10, <2>3 DEF CloseStopChan
    <3>2. Alone' /\ StoppedBy'
      BY <2>1, <3>1 DEF SessionInv, Alone, StoppedBy, Busy
    <3>3. Begun'
      BY <2>1, <3>1 DEF SessionInv, Begun
    <3>4. Mounted' /\ CrashNeedsFailedUmount'
      BY <2>1, <3>1 DEF SessionInv, Mounted, CrashNeedsFailedUmount
    <3>5. QED
      BY <3>2, <3>3, <3>4 DEF SessionInv
  <2>4. QED
    BY <2>2, <2>3
<1>11. ASSUME NEW x \in Cleanups, WaitForWorkers(x) PROVE SessionInv'
  <2>1. /\ cleanup[x] = "waiting" /\ daemon # "crashed"
        /\ \A y \in Cleanups : y # x => cleanup'[y] = cleanup[y]
        /\ cleanup'[x] = IF cleanErr[x] THEN "failed" ELSE "deleting"
    BY <1>11 DEF WaitForWorkers, Up
  <2>2. Alone' /\ Begun' /\ StoppedBy'
    BY <1>11, <2>1 DEF WaitForWorkers, SessionInv, Alone, Begun, StoppedBy, Busy
  <2>3. Mounted' /\ CrashNeedsFailedUmount'
    BY <1>11, <2>1 DEF WaitForWorkers, SessionInv, Mounted, CrashNeedsFailedUmount
  <2>4. QED
    BY <2>2, <2>3 DEF SessionInv
<1>12. ASSUME NEW x \in Cleanups, DeleteRunner(x) PROVE SessionInv'
  <2>1. /\ cleanup[x] = "deleting" /\ daemon # "crashed" /\ projectRunner' = None
        /\ \A y \in Cleanups : cleanup'[y] = IF y = x THEN "ok" ELSE cleanup[y]
    BY <1>12 DEF DeleteRunner, Up
  <2>2. None \notin stopped /\ None \notin Prepares
    BY ExecutorEnvAssumption
  <2>3. Alone' /\ Begun' /\ StoppedBy'
    BY <1>12, <2>1, <2>2 DEF DeleteRunner, SessionInv, Alone, Begun, StoppedBy, Busy
  <2>4. Mounted' /\ CrashNeedsFailedUmount'
    BY <1>12, <2>1 DEF DeleteRunner, SessionInv, Mounted, CrashNeedsFailedUmount
  <2>5. QED
    BY <2>3, <2>4 DEF SessionInv
<1>13. ASSUME NEW w \in Workers, WorkerStep(w) PROVE SessionInv'
  BY <1>13, SessionFrame DEF WorkerStep, Poll, TakeTask, Answer
<1>14. QED
  BY <1>1, <1>2, <1>3, <1>4, <1>5, <1>6, <1>7, <1>8, <1>9, <1>10, <1>11, <1>12, <1>13
  DEF Next, CleanupStep

(* The invariant is one of every orderly specification.                     *)
LEMMA SessionCorrect ==
  ASSUME Orderly
  PROVE  Spec => []SessionInv
<1>1. Init => SessionInv
  BY ExecutorEnvAssumption
  DEF Init, SessionInv, Alone, Begun, StoppedBy, Mounted, CrashNeedsFailedUmount, Busy
<1>2. TypeOK /\ Found /\ SessionInv /\ [Next]_vars => SessionInv'
  BY SessionStep
<1>3. QED
  BY <1>1, <1>2, TypeCorrect, FoundCorrect, PTL DEF Spec

(* In an orderly session of any length no command runs while the project is *)
(* not mounted: not before the mount, not after the umount, and not after a *)
(* preparation that failed.                                                *)
THEOREM WorkAlwaysHasMount ==
  ASSUME Orderly
  PROVE  Spec => []WorkNeedsMount
<1>1. SubmitInv /\ SessionInv => WorkNeedsMount
  BY DEF SubmitInv, Handed, Placed, TypeOK, SessionInv, Mounted, WorkNeedsMount
<1>2. QED
  BY <1>1, SubmitCorrect, SessionCorrect, PTL

(* When clean-ups come one after the other, any number of them, the daemon   *)
(* closes a closed stopChan only after a clean-up whose umount failed.       *)
THEOREM CrashAlwaysNeedsFailedUmount ==
  ASSUME Orderly
  PROVE  Spec => []CrashNeedsFailedUmount
<1>1. SessionInv => CrashNeedsFailedUmount
  BY DEF SessionInv
<1>2. QED
  BY <1>1, SessionCorrect, PTL
=============================================================================
