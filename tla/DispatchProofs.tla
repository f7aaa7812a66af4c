--------------------------- MODULE DispatchProofs ---------------------------
(***************************************************************************)
(* Theorems about Dispatch, for every value of its constants.              *)
(*                                                                         *)
(* The inductive invariants come in three layers.  CopyInv says where the  *)
(* one copy of a command that each executor was sent can be; OutcomeInv    *)
(* ties what the proxy and the workers have been told to what was run;     *)
(* ClaimInv ties the shared record to the workers that hold it.  The first *)
(* two hold always, the third of the requests that store no command over a *)
(* claim or a success (NoOverwrite, NoRevival): those with keys of their   *)
(* own, and those that repeat what has failed (RepeatsFailures).           *)
(***************************************************************************)
EXTENDS Dispatch, TLAPS

Refused == {"failed", "rejected"}

(* A copy is in one place: with the proxy, in one slot of its executor's   *)
(* channel, or with one worker, and meanwhile its RPC waits.  Only a worker *)
(* whose process exited on a missing record keeps an answered copy.        *)
Unsent ==
  /\ \A t \in Tasks : call[t.call] \in {"idle", "kv_failed"} => rpc[t] = "none"
  /\ \A c \in Calls : call[c] = "gathering" => rpc[Retry(c)] = "none"
  /\ \A t \in Tasks : rpc[t] = "none" => exit[t] = "none"

Queued ==
  /\ \A e \in Executors : \A i \in 1..Len(queue[e]) :
       queue[e][i].at = e /\ rpc[queue[e][i]] = "waiting"
  /\ \A e \in Executors : \A i, j \in 1..Len(queue[e]) :
       queue[e][i] = queue[e][j] => i = j

Taken ==
  /\ \A w \in Workers : pc[w] # "idle" =>
       /\ task[w] \in Tasks
       /\ \/ rpc[task[w]] = "waiting"
          \/ rpc[task[w]] = "rejected" /\ pc[w] = "claiming" /\ ~alive[Host[w]]
       /\ pc[w] = "reporting" => taskRes[w] \in Replies
       /\ \A e \in Executors : \A i \in 1..Len(queue[e]) : queue[e][i] # task[w]
  /\ \A w, x \in Workers :
       pc[w] # "idle" /\ pc[x] # "idle" /\ task[w] = task[x] => w = x

CopyInv == Unsent /\ Queued /\ Taken

(* Worker w has run its copy to exit code 0 and not yet reported it.       *)
Succeeding(w) == pc[w] = "settling" \/ (pc[w] = "reporting" /\ taskRes[w] = "ok")

Answered ==
  /\ \A c \in Calls : call[c] \in {"retrying", "all_failed"} =>
       \A e \in Executors : rpc[Batch(c, e)] \in Refused
  /\ \A c \in Calls : call[c] = "all_failed" => rpc[Retry(c)] \in Refused
  /\ \A c \in Calls : call[c] = "ok" => \E t \in Tasks : t.call = c /\ exit[t] = "zero"

Ran ==
  /\ \A t \in Tasks : rpc[t] = "ok" => exit[t] = "zero"
  /\ \A w \in Workers :
       pc[w] = "reporting" /\ taskRes[w] = "ok" => exit[task[w]] = "zero"
  /\ \A t \in Tasks : exit[t] = "zero" =>
       rpc[t] = "ok" \/ \E w \in Workers : task[w] = t /\ Succeeding(w)

OutcomeInv == Answered /\ Ran

(* The record of a held command is claimed, or has expired; a command that *)
(* was run to success is not claimable, and its holder is about to finish. *)
Recorded ==
  \A w \in Workers, k \in Keys : Holds(w, k) => store[k] \in {"claimed", Absent}

Settled ==
  \A k \in Succeeded :
    /\ store[k] # "unclaimed"
    /\ \A w \in Workers : Holds(w, k) => pc[w] = "settling" /\ exit[task[w]] = "zero"

ClaimInv == OneHolder /\ Recorded /\ Settled

-----------------------------------------------------------------------------
(* The copies of a command are tasks, and a task is one of the copies.     *)
LEMMA TaskFacts ==
  /\ \A t \in Tasks : t.call \in Calls /\ t.at \in Executors /\ KeyOf(t) \in Keys
  /\ \A c \in Calls, e \in Executors :
       Batch(c, e) \in Tasks /\ Batch(c, e).call = c /\ Batch(c, e).at = e
  /\ \A c \in Calls : Retry(c) \in Tasks /\ Retry(c).call = c /\ Retry(c).at = Local
  /\ \A c, d \in Calls, e \in Executors : Batch(c, e) # Retry(d)
  /\ \A t \in Tasks : t = Retry(t.call) \/ \E e \in Executors : t = Batch(t.call, e)
  BY DispatchAssumption DEF Tasks, Batch, Retry, KeyOf

(* The claim script changes the record to a status, or nothing.            *)
LEMMA ClaimCmdType ==
  ASSUME StoreTypeOK, NEW k, NEW expected, NEW new \in Status, ClaimCmd(k, expected, new)
  PROVE  StoreTypeOK'
<1>1. store' = store \/ store' = [store EXCEPT ![k] = new]
  BY DEF ClaimCmd
<1>2. QED
  BY <1>1 DEF StoreTypeOK

(* TypeOK holds in every reachable state: every action keeps every variable *)
(* within its type, the store operators included.                          *)
THEOREM TypeCorrect == Spec => []TypeOK
<1> USE DEF TypeOK, StoreTypeOK, Answers, Replies, InFlight, Status
<1>1. Init => TypeOK
  BY DispatchAssumption DEF Init, StoreInit
<1>2. TypeOK /\ [Next]_vars => TypeOK'
  <2> SUFFICES ASSUME TypeOK, [Next]_vars PROVE TypeOK'
    OBVIOUS
  <2>1. ASSUME NEW c \in Calls, ForwardAndExecute(c) PROVE TypeOK'
    BY TaskFacts, <2>1 DEF ForwardAndExecute, MayCall, HSetWithTTL, workerVars
  <2>2. ASSUME NEW c \in Calls, StoreCommandFails(c) PROVE TypeOK'
    BY TaskFacts, <2>2 DEF StoreCommandFails, MayCall, HSetWithTTL, workerVars
  <2>3. ASSUME NEW c \in Calls, ReturnSuccess(c) PROVE TypeOK'
    BY TaskFacts, <2>3 DEF ReturnSuccess, workerVars
  <2>4. ASSUME NEW c \in Calls, ReturnCancelled(c) PROVE TypeOK'
    BY TaskFacts, <2>4 DEF ReturnCancelled, workerVars
  <2>5. ASSUME NEW c \in Calls, RetryOnLocal(c) PROVE TypeOK'
    BY TaskFacts, <2>5 DEF RetryOnLocal, workerVars
  <2>6. ASSUME NEW c \in Calls, ReturnRetryResult(c) PROVE TypeOK'
    BY TaskFacts, <2>6 DEF ReturnRetryResult, workerVars
  <2>7. ASSUME NEW t \in Tasks, SubmitErrorIsFatal(t) PROVE TypeOK'
    BY TaskFacts, <2>7 DEF SubmitErrorIsFatal, workerVars
  <2>8. ASSUME NEW t \in Tasks, SubmitAndExecute(t) PROVE TypeOK'
    <3>1. t.at \in Executors /\ Append(queue[t.at], t) \in Seq(Tasks)
      BY TaskFacts
    <3>2. queue' \in [Executors -> Seq(Tasks)]
      BY <2>8, <3>1 DEF SubmitAndExecute
    <3>3. PICK v \in {"rejected", "failed", "waiting"} : rpc' = [rpc EXCEPT ![t] = v]
      BY <2>8 DEF SubmitAndExecute
    <3>4. QED
      BY <2>8, <3>2, <3>3 DEF SubmitAndExecute, workerVars
  <2>9. ASSUME NEW w \in Workers, TakeTask(w) PROVE TypeOK'
    BY DispatchAssumption, <2>9 DEF TakeTask, At, Goto
  <2>10. ASSUME NEW w \in Workers, TryClaimTask(w) PROVE TypeOK'
    <3>1. StoreTypeOK'
      BY <2>10, ClaimCmdType DEF TryClaimTask
    <3>2. pc' \in [Workers -> {"idle", "claiming", "fetching", "running", "settling", "reporting"}]
      BY <2>10 DEF TryClaimTask, Goto, Conclude
    <3>3. taskRes' \in [Workers -> {"none"} \cup Replies]
      BY <2>10 DEF TryClaimTask, Conclude
    <3>4. QED
      BY <2>10, <3>1, <3>2, <3>3 DEF TryClaimTask
  <2>11. ASSUME NEW w \in Workers, ClaimAttemptFails(w) PROVE TypeOK'
    <3>1. StoreTypeOK'
      BY <2>11, ClaimCmdType DEF ClaimAttemptFails
    <3>2. tries' \in [Workers -> 0..MaxRetries]
      BY <2>11, DispatchAssumption DEF ClaimAttemptFails
    <3>3. pc' \in [Workers -> {"idle", "claiming", "fetching", "running", "settling", "reporting"}]
      BY <2>11 DEF ClaimAttemptFails, Goto, Conclude
    <3>4. taskRes' \in [Workers -> {"none"} \cup Replies]
      BY <2>11 DEF ClaimAttemptFails, Conclude
    <3>5. QED
      BY <2>11, <3>1, <3>2, <3>3, <3>4 DEF ClaimAttemptFails
  <2>12. ASSUME NEW w \in Workers, TaskNotFound(w) PROVE TypeOK'
    BY <2>12 DEF TaskNotFound, At, Die, workerVars
  <2>13. ASSUME NEW w \in Workers, FetchContent(w) PROVE TypeOK'
    BY <2>13 DEF FetchContent, At, Goto
  <2>14. ASSUME NEW w \in Workers, FetchContentFails(w) PROVE TypeOK'
    BY <2>14 DEF FetchContentFails, At, Goto, Conclude
  <2>15. ASSUME NEW w \in Workers, EmptyContentIsFatal(w) PROVE TypeOK'
    BY <2>15 DEF EmptyContentIsFatal, At, Die, workerVars
  <2>16. ASSUME NEW w \in Workers, RunTask(w) PROVE TypeOK'
    <3>1. PICK code \in {"zero", "nonzero"} : exit' = [exit EXCEPT ![task[w]] = code]
      BY <2>16 DEF RunTask
    <3>2. QED
      BY <2>16, <3>1 DEF RunTask, At, Goto, workerVars
  <2>17. ASSUME NEW w \in Workers, TryFinishTask(w) PROVE TypeOK'
    <3>1. StoreTypeOK'
      BY <2>17, ClaimCmdType DEF TryFinishTask, Settle
    <3>2. QED
      BY <2>17, <3>1 DEF TryFinishTask, Settle, At, Goto, Conclude
  <2>18. ASSUME NEW w \in Workers, UnclaimTask(w) PROVE TypeOK'
    <3>1. StoreTypeOK'
      BY <2>18, ClaimCmdType DEF UnclaimTask, Settle
    <3>2. QED
      BY <2>18, <3>1 DEF UnclaimTask, Settle, At, Goto, Conclude
  <2>19. ASSUME NEW w \in Workers, SendResult(w) PROVE TypeOK'
    BY <2>19 DEF SendResult, At, Goto
  <2>20. ASSUME NEW k \in Keys, ExpireRecord(k) PROVE TypeOK'
    BY <2>20 DEF ExpireRecord, Expire, workerVars
  <2>21. ASSUME NEW e \in Executors, Crash(e) PROVE TypeOK'
    BY <2>21 DEF Crash, Die, workerVars
  <2>22. CASE UNCHANGED vars
    BY <2>22 DEF vars, workerVars
  <2>q. QED
    BY <2>1, <2>2, <2>3, <2>4, <2>5, <2>6, <2>7, <2>8, <2>9, <2>10, <2>11, <2>12, <2>13, <2>14, <2>15, <2>16, <2>17, <2>18, <2>19, <2>20, <2>21, <2>22 DEF Next, ProxyReturns, WorkerStep
<1>3. QED
  BY <1>1, <1>2, PTL DEF Spec

(* Where the copies are is an invariant of every step.                     *)
LEMMA CopyStep == TypeOK /\ CopyInv /\ [Next]_vars => CopyInv'
<1> SUFFICES ASSUME TypeOK, Unsent, Queued, Taken, [Next]_vars PROVE Unsent' /\ Queued' /\ Taken'
  BY DEF CopyInv
<1> DEFINE P == Unsent' /\ Queued' /\ Taken'
<1>0. \A e \in Executors : \A i \in 1..Len(queue[e]) : queue[e][i] \in Tasks
  BY DEF TypeOK
<1>f. ASSUME UNCHANGED queue, \A t \in Tasks : rpc[t] = "waiting" => rpc'[t] = "waiting"
      PROVE  Queued'
  BY <1>0, <1>f DEF Queued
<1>g. ASSUME UNCHANGED <<queue, workerVars, alive>>,
             \A t \in Tasks : rpc[t] \in {"waiting", "rejected"} => rpc'[t] = rpc[t]
      PROVE  Taken'
  BY <1>g DEF Taken, workerVars
<1>h. ASSUME UNCHANGED <<call, rpc, exit>> PROVE Unsent'
  BY <1>h DEF Unsent
<1>m. ASSUME NEW w \in Workers, NEW place \in {"claiming", "fetching", "running", "settling"},
             alive[Host[w]], pc[w] # "idle", Goto(w, place),
             UNCHANGED <<rpc, queue, task, taskRes, alive>>
      PROVE  Queued' /\ Taken'
  <2>1. rpc[task[w]] = "waiting"
    BY <1>m DEF Taken
  <2>2. Taken'
    BY <1>m, <2>1 DEF Taken, Goto, TypeOK
  <2>3. QED
    BY <1>f, <1>m, <2>2
<1>r. ASSUME NEW w \in Workers, NEW result \in Replies,
             alive[Host[w]], pc[w] # "idle", Conclude(w, result),
             UNCHANGED <<rpc, queue, task, alive>>
      PROVE  Queued' /\ Taken'
  <2>1. rpc[task[w]] = "waiting"
    BY <1>r DEF Taken
  <2>2. Taken'
    BY <1>r, <2>1 DEF Taken, Conclude, Goto, TypeOK
  <2>3. QED
    BY <1>f, <1>r, <2>2
<1>1. ASSUME NEW c \in Calls, ForwardAndExecute(c) PROVE P
  <2>1. call' = [call EXCEPT ![c] = "gathering"] /\ call[c] = "idle"
    BY <1>1 DEF ForwardAndExecute, MayCall
  <2>2. \A t \in Tasks : t.call # c \/ t = Retry(c) => rpc'[t] = rpc[t]
    BY <1>1, TaskFacts DEF ForwardAndExecute
  <2>3. \A t \in Tasks : t.call = c => rpc[t] = "none"
    BY <2>1 DEF Unsent
  <2>4. \A t \in Tasks : rpc[t] # "none" => rpc'[t] = rpc[t]
    BY <2>2, <2>3
  <2>5. Unsent'
    BY <1>1, <2>1, <2>2, <2>3, <2>4, TaskFacts DEF ForwardAndExecute, Unsent, TypeOK
  <2>6. QED
    BY <1>1, <1>f, <1>g, <2>4, <2>5 DEF ForwardAndExecute
<1>2. ASSUME NEW c \in Calls, StoreCommandFails(c) PROVE P
  <2>1. /\ call[c] = "idle" /\ call' = [call EXCEPT ![c] = "kv_failed"]
        /\ UNCHANGED <<rpc, exit>>
    BY <1>2 DEF StoreCommandFails, MayCall
  <2>2. \A d \in Calls : call'[d] = call[d] \/ (d = c /\ call'[d] = "kv_failed")
    BY <2>1 DEF TypeOK
  <2>3. Unsent'
    BY <2>1, <2>2, TaskFacts DEF Unsent
  <2>4. QED
    BY <1>2, <1>f, <1>g, <2>3 DEF StoreCommandFails
<1>3. ASSUME NEW c \in Calls, ReturnSuccess(c) PROVE P
  <2>1. Unsent'
    BY <1>3 DEF ReturnSuccess, Unsent, TypeOK
  <2>2. QED
    BY <1>3, <1>f, <1>g, <2>1 DEF ReturnSuccess
<1>4. ASSUME NEW c \in Calls, ReturnCancelled(c) PROVE P
  <2>1. Unsent'
    BY <1>4 DEF ReturnCancelled, Unsent, TypeOK
  <2>2. QED
    BY <1>4, <1>f, <1>g, <2>1 DEF ReturnCancelled
<1>5. ASSUME NEW c \in Calls, RetryOnLocal(c) PROVE P
  <2>1. /\ Retry(c) \in Tasks /\ rpc[Retry(c)] = "none"
        /\ call' = [call EXCEPT ![c] = "retrying"] /\ rpc' = [rpc EXCEPT ![Retry(c)] = "sent"]
        /\ UNCHANGED exit
    BY <1>5, TaskFacts DEF RetryOnLocal, Unsent
  <2>2. Unsent'
    <3>1. \A t \in Tasks : t.call # c => rpc'[t] = rpc[t]
      BY <2>1, TaskFacts DEF TypeOK
    <3>2. \A t \in Tasks : rpc'[t] = "none" => rpc[t] = "none"
      BY <2>1 DEF TypeOK
    <3>3. QED
      BY <2>1, <3>1, <3>2, TaskFacts DEF Unsent, TypeOK
  <2>3. QED
    BY <1>5, <1>f, <1>g, <2>1, <2>2 DEF RetryOnLocal, TypeOK
<1>6. ASSUME NEW c \in Calls, ReturnRetryResult(c) PROVE P
  <2>1. Unsent'
    BY <1>6 DEF ReturnRetryResult, Unsent, TypeOK
  <2>2. QED
    BY <1>6, <1>f, <1>g, <2>1 DEF ReturnRetryResult
<1>7. ASSUME NEW t \in Tasks, SubmitErrorIsFatal(t) PROVE P
  <2>1. Taken'
    BY <1>7, DispatchAssumption DEF SubmitErrorIsFatal, Taken, TypeOK, workerVars
  <2>2. QED
    BY <1>7, <1>f, <1>h, <2>1 DEF SubmitErrorIsFatal
<1>8. ASSUME NEW t \in Tasks, SubmitAndExecute(t) PROVE P
  <2> DEFINE e == t.at
  <2>1. e \in Executors /\ rpc[t] = "sent" /\ UNCHANGED <<call, exit, workerVars, alive>>
    BY <1>8, TaskFacts DEF SubmitAndExecute
  <2>2. PICK v \in {"rejected", "failed", "waiting"} : rpc' = [rpc EXCEPT ![t] = v]
    BY <1>8 DEF SubmitAndExecute
  <2>3. Unsent'
    BY <2>1, <2>2 DEF Unsent, TypeOK
  <2>4. CASE UNCHANGED queue
    BY <1>f, <1>g, <2>1, <2>2, <2>3, <2>4 DEF TypeOK
  <2>5. CASE /\ queue' = [queue EXCEPT ![e] = Append(queue[e], t)]
             /\ rpc' = [rpc EXCEPT ![t] = "waiting"]
    <3>1. \A f \in Executors : \A i \in 1..Len(queue'[f]) :
            \/ i \in 1..Len(queue[f]) /\ queue'[f][i] = queue[f][i]
            \/ f = e /\ i = Len(queue[e]) + 1 /\ queue'[f][i] = t
      BY <2>1, <2>5 DEF TypeOK
    <3>2. \A f \in Executors : \A i \in 1..Len(queue[f]) : queue[f][i] # t
      BY <2>1 DEF Queued
    <3>3. Queued'
      BY <1>0, <2>1, <2>5, <3>1, <3>2 DEF Queued, TypeOK
    <3>4. \A w \in Workers : pc[w] # "idle" => task[w] # t /\ rpc'[task[w]] = rpc[task[w]]
      BY <2>1, <2>5 DEF Taken
    <3>5. Taken'
      BY <2>1, <3>1, <3>4 DEF Taken, workerVars
    <3>6. QED
      BY <2>3, <3>3, <3>5
  <2>6. QED
    BY <1>8, <2>4, <2>5 DEF SubmitAndExecute
<1>9. ASSUME NEW w \in Workers, TakeTask(w) PROVE P
  <2> DEFINE e == Host[w]
  <2>1. e \in Executors /\ queue[e] # <<>> /\ queue[e] \in Seq(Tasks)
    BY <1>9, DispatchAssumption DEF TakeTask, TypeOK
  <2> DEFINE t == queue[e][1]
  <2>2. queue' = [queue EXCEPT ![e] = Tail(queue[e])] /\ task' = [task EXCEPT ![w] = t]
    BY <1>9 DEF TakeTask
  <2>3. \A f \in Executors : \A i \in 1..Len(queue'[f]) :
          \E j \in 1..Len(queue[f]) :
            queue'[f][i] = queue[f][j] /\ j = i + (IF f = e THEN 1 ELSE 0)
    BY <2>1, <2>2 DEF TypeOK
  <2>4. 1 \in 1..Len(queue[e]) /\ t \in Tasks
    BY <2>1
  <2>5. Unsent'
    BY <1>9, <1>h DEF TakeTask
  <2>6. Queued'
    <3>1. rpc' = rpc
      BY <1>9 DEF TakeTask
    <3>2. ASSUME NEW f \in Executors, NEW i \in 1..Len(queue'[f])
          PROVE  queue'[f][i].at = f /\ rpc'[queue'[f][i]] = "waiting"
      BY <2>3, <3>1 DEF Queued
    <3>3. ASSUME NEW f \in Executors, NEW i \in 1..Len(queue'[f]), NEW j \in 1..Len(queue'[f]),
                 queue'[f][i] = queue'[f][j]
          PROVE  i = j
      BY <2>3, <3>3 DEF Queued
    <3>4. QED
      BY <3>2, <3>3 DEF Queued
  <2>7. Taken'
    <3>1. ASSUME NEW f \in Executors, NEW i \in 1..Len(queue'[f]) PROVE queue'[f][i] # t
      <4>1. PICK j \in 1..Len(queue[f]) :
              queue'[f][i] = queue[f][j] /\ j = i + (IF f = e THEN 1 ELSE 0)
        BY <2>3
      <4>2. CASE f = e
        <5>1. j # 1
          BY <4>1, <4>2
        <5>2. QED
          BY <2>1, <2>4, <4>1, <4>2, <5>1 DEF Queued
      <4>3. CASE f # e
        <5>1. queue[f][j].at = f /\ t.at = e
          BY <2>1, <2>4 DEF Queued
        <5>2. QED
          BY <4>1, <4>3, <5>1
      <4>4. QED
        BY <4>2, <4>3
    <3>2. \A x \in Workers \ {w} : task'[x] = task[x] /\ pc'[x] = pc[x]
      BY <1>9, <2>2 DEF TakeTask, Goto, TypeOK
    <3>3. task'[w] = t /\ pc'[w] = "claiming" /\ rpc[t] = "waiting"
      BY <1>9, <2>1, <2>2, <2>4 DEF TakeTask, Goto, TypeOK, Queued
    <3>4. \A x \in Workers \ {w} : pc[x] # "idle" => task[x] # t
      BY <2>1, <2>4 DEF Taken
    <3>5. rpc' = rpc /\ taskRes' = taskRes /\ alive' = alive
      BY <1>9 DEF TakeTask
    <3>6. ASSUME NEW x \in Workers, pc'[x] # "idle", x # w
          PROVE  /\ \/ rpc'[task'[x]] = "waiting"
                    \/ rpc'[task'[x]] = "rejected" /\ pc'[x] = "claiming" /\ ~alive'[Host[x]]
                 /\ pc'[x] = "reporting" => taskRes'[x] \in Replies
                 /\ task'[x] \in Tasks /\ task'[x] # t
                 /\ \A f \in Executors : \A i \in 1..Len(queue'[f]) : queue'[f][i] # task'[x]
      <4>1. pc[x] # "idle" /\ task'[x] = task[x] /\ pc'[x] = pc[x]
        BY <3>2, <3>6
      <4>2. \A f \in Executors : \A i \in 1..Len(queue'[f]) : queue'[f][i] # task[x]
        BY <2>3, <4>1 DEF Taken
      <4>3. QED
        BY <3>4, <3>5, <3>6, <4>1, <4>2 DEF Taken
    <3>7. \A x, y \in Workers :
            pc'[x] # "idle" /\ pc'[y] # "idle" /\ task'[x] = task'[y] => x = y
      BY <3>2, <3>3, <3>6 DEF Taken
    <3>8. QED
      BY <2>4, <3>1, <3>3, <3>5, <3>6, <3>7 DEF Taken
  <2>8. QED
    BY <2>5, <2>6, <2>7
<1>10. ASSUME NEW w \in Workers, TryClaimTask(w) PROVE P
  BY <1>10, <1>h, <1>m, <1>r DEF TryClaimTask, At, Replies
<1>11. ASSUME NEW w \in Workers, ClaimAttemptFails(w) PROVE P
  <2>1. pc[w] = "claiming" /\ alive[Host[w]] /\ UNCHANGED <<rpc, queue, task, alive, call, exit>>
    BY <1>11 DEF ClaimAttemptFails, At
  <2>2. CASE UNCHANGED <<pc, taskRes>>
    BY <1>f, <1>h, <2>1, <2>2 DEF Taken
  <2>3. CASE Conclude(w, "failed")
    BY <1>h, <1>r, <2>1, <2>3 DEF Replies
  <2>4. QED
    BY <1>11, <2>2, <2>3 DEF ClaimAttemptFails
<1>12. ASSUME NEW w \in Workers, TaskNotFound(w) PROVE P
  <2>1. pc[w] = "claiming" /\ task[w] \in Tasks /\ rpc[task[w]] = "waiting"
    BY <1>12 DEF TaskNotFound, At, Taken
  <2>2. /\ \A t \in Tasks \ {task[w]} : rpc'[t] = rpc[t]
        /\ rpc'[task[w]] \in {"waiting", "rejected"}
    BY <1>12, <2>1 DEF TaskNotFound, TypeOK
  <2>3. ~alive'[Host[w]] /\ \A x \in Workers : ~alive[Host[x]] => ~alive'[Host[x]]
    BY <1>12, DispatchAssumption DEF TaskNotFound, Die, TypeOK
  <2>4. UNCHANGED <<call, queue, pc, task, taskRes, exit>>
    BY <1>12 DEF TaskNotFound, workerVars
  <2>5. Unsent'
    <3>1. \A t \in Tasks : rpc'[t] = "none" <=> rpc[t] = "none"
      BY <2>1, <2>2
    <3>2. QED
      BY <2>4, <3>1, TaskFacts DEF Unsent
  <2>6. Queued'
    <3>1. \A e \in Executors : \A i \in 1..Len(queue[e]) : queue[e][i] # task[w]
      BY <2>1 DEF Taken
    <3>2. QED
      BY <1>0, <2>2, <2>4, <3>1 DEF Queued
  <2>7. \A x \in Workers \ {w} : pc[x] # "idle" => task[x] # task[w]
    BY <2>1 DEF Taken
  <2>8. Taken'
    BY <2>1, <2>2, <2>3, <2>4, <2>7 DEF Taken, TypeOK
  <2>9. QED
    BY <2>5, <2>6, <2>8
<1>13. ASSUME NEW w \in Workers, FetchContent(w) PROVE P
  BY <1>13, <1>h, <1>m DEF FetchContent, At, Goto
<1>14. ASSUME NEW w \in Workers, FetchContentFails(w) PROVE P
  BY <1>14, <1>h, <1>r DEF FetchContentFails, At, Replies
<1>15. ASSUME NEW w \in Workers, EmptyContentIsFatal(w) PROVE P
  <2>1. Taken'
    BY <1>15, DispatchAssumption DEF EmptyContentIsFatal, Die, Taken, TypeOK, workerVars
  <2>2. QED
    BY <1>15, <1>f, <1>h, <2>1 DEF EmptyContentIsFatal
<1>16. ASSUME NEW w \in Workers, RunTask(w) PROVE P
  <2>1. pc[w] = "running" /\ alive[Host[w]] /\ task[w] \in Tasks /\ rpc[task[w]] = "waiting"
    BY <1>16 DEF RunTask, At, Taken
  <2>2. Unsent'
    BY <1>16, <2>1 DEF RunTask, Unsent, TypeOK
  <2>3. QED
    BY <1>16, <1>m, <2>1, <2>2 DEF RunTask
<1>17. ASSUME NEW w \in Workers, TryFinishTask(w) PROVE P
  BY <1>17, <1>h, <1>r DEF TryFinishTask, At, Replies
<1>18. ASSUME NEW w \in Workers, UnclaimTask(w) PROVE P
  BY <1>18, <1>h, <1>r DEF UnclaimTask, At, Replies
<1>19. ASSUME NEW w \in Workers, SendResult(w) PROVE P
  <2>1. task[w] \in Tasks /\ rpc[task[w]] = "waiting" /\ taskRes[w] \in Replies
    BY <1>19 DEF SendResult, At, Taken
  <2>2. rpc' = [rpc EXCEPT ![task[w]] = taskRes[w]] /\ UNCHANGED <<call, queue, exit, alive>>
    BY <1>19 DEF SendResult
  <2>3. pc[w] # "idle" /\ pc'[w] = "idle"
        /\ \A x \in Workers \ {w} : pc'[x] = pc[x] /\ task'[x] = task[x] /\ taskRes'[x] = taskRes[x]
    BY <1>19 DEF SendResult, At, Goto, TypeOK
  <2>4. Unsent'
    BY <2>1, <2>2 DEF Unsent, TypeOK, Replies
  <2>5. Queued'
    BY <1>0, <2>1, <2>2, <2>3 DEF Queued, Taken, TypeOK
  <2>6. Taken'
    <3>1. \A x \in Workers \ {w} : pc[x] # "idle" => task[x] # task[w]
      BY <2>3 DEF Taken
    <3>2. \A t \in Tasks \ {task[w]} : rpc'[t] = rpc[t]
      BY <2>2 DEF TypeOK
    <3>3. QED
      BY <2>2, <2>3, <3>1, <3>2 DEF Taken
  <2>7. QED
    BY <2>4, <2>5, <2>6
<1>20. ASSUME NEW k \in Keys, ExpireRecord(k) PROVE P
  BY <1>20, <1>f, <1>g, <1>h DEF ExpireRecord
<1>21. ASSUME NEW e \in Executors, Crash(e) PROVE P
  <2>1. Taken'
    BY <1>21, DispatchAssumption DEF Crash, Die, Taken, TypeOK, workerVars
  <2>2. QED
    BY <1>21, <1>f, <1>h, <2>1 DEF Crash
<1>22. CASE UNCHANGED vars
  BY <1>22, <1>f, <1>g, <1>h DEF vars, workerVars
<1>23. QED
  BY <1>1, <1>2, <1>3, <1>4, <1>5, <1>6, <1>7, <1>8, <1>9, <1>10, <1>11, <1>12, <1>13, <1>14, <1>15, <1>16, <1>17, <1>18, <1>19, <1>20, <1>21, <1>22 DEF Next, ProxyReturns, WorkerStep

(* What the proxy and the workers were told agrees with what was run.      *)
LEMMA OutcomeStep == TypeOK /\ CopyInv /\ OutcomeInv /\ [Next]_vars => OutcomeInv'
<1> SUFFICES ASSUME TypeOK, Unsent, Queued, Taken, Answered, Ran, [Next]_vars
             PROVE  Answered' /\ Ran'
  BY DEF CopyInv, OutcomeInv
<1> DEFINE P == Answered' /\ Ran'
           RepliesStand == \A t \in Tasks : rpc[t] \in Replies => rpc'[t] = rpc[t]
<1>0. \A t \in Tasks : rpc[t] \in Refused => exit[t] # "zero"
  BY DEF Ran, Taken, Succeeding, Refused
<1>a. ASSUME UNCHANGED call, RepliesStand, \A t \in Tasks : exit[t] = "zero" => exit'[t] = "zero"
      PROVE  Answered'
  BY <1>a, TaskFacts DEF Answered, Refused, Replies
<1>b. ASSUME UNCHANGED <<workerVars, exit>>, \A t \in Tasks : rpc'[t] = "ok" <=> rpc[t] = "ok"
      PROVE  Ran'
  BY <1>b DEF Ran, Succeeding, workerVars
<1>m. ASSUME NEW w \in Workers, pc[w] \notin {"settling", "reporting"},
             NEW place \in {"claiming", "fetching", "running"}, Goto(w, place),
             UNCHANGED <<call, rpc, task, taskRes, exit>>
      PROVE  P
  <2>1. Ran'
    BY <1>m DEF Ran, Succeeding, Goto, TypeOK
  <2>2. QED
    BY <1>a, <1>m, <2>1
<1>r. ASSUME NEW w \in Workers, pc[w] \notin {"settling", "reporting"},
             NEW result \in Refused, Conclude(w, result), UNCHANGED <<call, rpc, task, exit>>
      PROVE  P
  <2>1. Ran'
    BY <1>r DEF Ran, Succeeding, Conclude, Goto, TypeOK, Refused
  <2>2. QED
    BY <1>a, <1>r, <2>1
<1>1. ASSUME NEW c \in Calls, ForwardAndExecute(c) PROVE P
  <2>1. \A t \in Tasks : rpc[t] = "none" \/ rpc'[t] = rpc[t]
    <3>1. \A t \in Tasks : t.call # c => rpc'[t] = rpc[t]
      BY <1>1, TaskFacts DEF ForwardAndExecute
    <3>2. \A t \in Tasks : t.call = c => rpc[t] = "none"
      BY <1>1 DEF ForwardAndExecute, MayCall, Unsent
    <3>3. QED
      BY <3>1, <3>2
  <2>2. \A t \in Tasks : rpc'[t] # rpc[t] => rpc'[t] = "sent"
    BY <1>1 DEF ForwardAndExecute
  <2>3. call' = [call EXCEPT ![c] = "gathering"] /\ exit' = exit
    BY <1>1 DEF ForwardAndExecute
  <2>4. Answered'
    <3>1. \A t \in Tasks : rpc[t] \in Refused => rpc'[t] \in Refused
      BY <2>1 DEF Refused
    <3>2. \A d \in Calls : call'[d] # "gathering" => call'[d] = call[d]
      BY <2>3 DEF TypeOK
    <3>3. QED
      BY <2>3, <3>1, <3>2, TaskFacts DEF Answered
  <2>5. QED
    BY <1>1, <1>b, <2>1, <2>2, <2>4 DEF ForwardAndExecute
<1>2. ASSUME NEW c \in Calls, StoreCommandFails(c) PROVE P
  <2>1. Answered'
    BY <1>2 DEF StoreCommandFails, Answered, TypeOK
  <2>2. QED
    BY <1>2, <1>b, <2>1 DEF StoreCommandFails
<1>3. ASSUME NEW c \in Calls, ReturnSuccess(c) PROVE P
  <2>1. \E t \in Tasks : t.call = c /\ exit[t] = "zero"
    BY <1>3, TaskFacts DEF ReturnSuccess, Ran
  <2>2. Answered'
    BY <1>3, <2>1 DEF ReturnSuccess, Answered, TypeOK
  <2>3. QED
    BY <1>3, <1>b, <2>2 DEF ReturnSuccess
<1>4. ASSUME NEW c \in Calls, ReturnCancelled(c) PROVE P
  <2>1. Answered'
    BY <1>4 DEF ReturnCancelled, Answered, TypeOK
  <2>2. QED
    BY <1>4, <1>b, <2>1 DEF ReturnCancelled
<1>5. ASSUME NEW c \in Calls, RetryOnLocal(c) PROVE P
  <2>1. /\ Retry(c) \in Tasks /\ rpc[Retry(c)] = "none"
        /\ call' = [call EXCEPT ![c] = "retrying"] /\ rpc' = [rpc EXCEPT ![Retry(c)] = "sent"]
        /\ UNCHANGED <<workerVars, exit>>
        /\ \A e \in Executors : rpc[Batch(c, e)] \in Refused
    BY <1>5, TaskFacts DEF RetryOnLocal, Unsent, Refused, Replies
  <2>2. \A t \in Tasks : t # Retry(c) => rpc'[t] = rpc[t]
    BY <2>1 DEF TypeOK
  <2>3. Answered'
    BY <2>1, <2>2, TaskFacts DEF Answered, TypeOK, Refused
  <2>4. QED
    BY <1>b, <2>1, <2>2, <2>3 DEF TypeOK
<1>6. ASSUME NEW c \in Calls, ReturnRetryResult(c) PROVE P
  <2>1. rpc[Retry(c)] = "ok" => \E t \in Tasks : t.call = c /\ exit[t] = "zero"
    BY TaskFacts DEF Ran
  <2>2. /\ call[c] = "retrying" /\ UNCHANGED <<rpc, exit>>
        /\ \/ rpc[Retry(c)] = "ok" /\ call' = [call EXCEPT ![c] = "ok"]
           \/ rpc[Retry(c)] \in Refused /\ call' = [call EXCEPT ![c] = "all_failed"]
    BY <1>6 DEF ReturnRetryResult, Refused, Replies
  <2>3. Answered'
    <3>1. \A d \in Calls \ {c} : call'[d] = call[d]
      BY <2>2 DEF TypeOK
    <3>2. \/ rpc[Retry(c)] = "ok" /\ call'[c] = "ok"
          \/ rpc[Retry(c)] \in Refused /\ call'[c] = "all_failed"
      BY <2>2 DEF TypeOK
    <3>3. QED
      BY <2>1, <2>2, <3>1, <3>2 DEF Answered
  <2>4. QED
    BY <1>6, <1>b, <2>3 DEF ReturnRetryResult
<1>7. ASSUME NEW t \in Tasks, SubmitErrorIsFatal(t) PROVE P
  BY <1>7, <1>a, <1>b DEF SubmitErrorIsFatal
<1>8. ASSUME NEW t \in Tasks, SubmitAndExecute(t) PROVE P
  <2>1. rpc[t] = "sent" /\ UNCHANGED <<call, exit, workerVars>>
    BY <1>8 DEF SubmitAndExecute
  <2>2. PICK v \in {"rejected", "failed", "waiting"} : rpc' = [rpc EXCEPT ![t] = v]
    BY <1>8 DEF SubmitAndExecute
  <2>3. QED
    BY <1>a, <1>b, <2>1, <2>2 DEF Replies, TypeOK
<1>9. ASSUME NEW w \in Workers, TakeTask(w) PROVE P
  <2>1. Ran'
    BY <1>9 DEF TakeTask, At, Goto, Ran, Succeeding, TypeOK
  <2>2. QED
    BY <1>9, <1>a, <2>1 DEF TakeTask
<1>10. ASSUME NEW w \in Workers, TryClaimTask(w) PROVE P
  BY <1>10, <1>m, <1>r DEF TryClaimTask, At, Refused
<1>11. ASSUME NEW w \in Workers, ClaimAttemptFails(w) PROVE P
  <2>1. pc[w] = "claiming" /\ UNCHANGED <<call, rpc, task, exit>>
    BY <1>11 DEF ClaimAttemptFails, At
  <2>2. CASE UNCHANGED <<pc, taskRes>>
    BY <1>a, <2>1, <2>2 DEF Ran, Succeeding
  <2>3. CASE Conclude(w, "failed")
    BY <1>r, <2>1, <2>3 DEF Refused
  <2>4. QED
    BY <1>11, <2>2, <2>3 DEF ClaimAttemptFails
<1>12. ASSUME NEW w \in Workers, TaskNotFound(w) PROVE P
  <2>1. task[w] \in Tasks /\ rpc[task[w]] = "waiting" /\ UNCHANGED <<call, workerVars, exit>>
    BY <1>12 DEF TaskNotFound, At, Taken
  <2>2. /\ \A t \in Tasks \ {task[w]} : rpc'[t] = rpc[t]
        /\ rpc'[task[w]] \in {"waiting", "rejected"}
    BY <1>12, <2>1 DEF TaskNotFound, TypeOK
  <2>3. QED
    BY <1>a, <1>b, <2>1, <2>2 DEF Replies
<1>13. ASSUME NEW w \in Workers, FetchContent(w) PROVE P
  BY <1>13, <1>m DEF FetchContent, At
<1>14. ASSUME NEW w \in Workers, FetchContentFails(w) PROVE P
  BY <1>14, <1>r DEF FetchContentFails, At, Refused
<1>15. ASSUME NEW w \in Workers, EmptyContentIsFatal(w) PROVE P
  BY <1>15, <1>a, <1>b DEF EmptyContentIsFatal
<1>16. ASSUME NEW w \in Workers, RunTask(w) PROVE P
  <2>1. pc[w] = "running" /\ task[w] \in Tasks /\ rpc[task[w]] = "waiting"
    BY <1>16 DEF RunTask, At, Taken
  <2>2. \A x \in Workers \ {w} : pc[x] # "idle" => task[x] # task[w]
    BY <2>1 DEF Taken
  <2>3. exit[task[w]] # "zero"
    BY <2>1, <2>2 DEF Ran, Succeeding
  <2>4. PICK code \in {"zero", "nonzero"} : exit' = [exit EXCEPT ![task[w]] = code]
    BY <1>16 DEF RunTask
  <2>5. pc' = [pc EXCEPT ![w] = "settling"] /\ UNCHANGED <<call, rpc, task, taskRes>>
    BY <1>16 DEF RunTask, Goto
  <2>6. Answered'
    BY <1>a, <2>3, <2>4, <2>5 DEF TypeOK
  <2>7. Ran'
    BY <2>1, <2>2, <2>3, <2>4, <2>5 DEF Ran, Succeeding, TypeOK
  <2>8. QED
    BY <2>6, <2>7
<1>17. ASSUME NEW w \in Workers, TryFinishTask(w) PROVE P
  <2>1. /\ pc[w] = "settling" /\ exit[task[w]] = "zero" /\ UNCHANGED <<call, rpc, task, exit>>
        /\ pc' = [pc EXCEPT ![w] = "reporting"] /\ taskRes' = [taskRes EXCEPT ![w] = "ok"]
    BY <1>17 DEF TryFinishTask, At, Conclude, Goto
  <2>2. Ran'
    BY <2>1 DEF Ran, Succeeding, TypeOK
  <2>3. QED
    BY <1>a, <2>1, <2>2
<1>18. ASSUME NEW w \in Workers, UnclaimTask(w) PROVE P
  <2>1. /\ pc[w] = "settling" /\ exit[task[w]] = "nonzero" /\ UNCHANGED <<call, rpc, task, exit>>
        /\ pc' = [pc EXCEPT ![w] = "reporting"] /\ taskRes' = [taskRes EXCEPT ![w] = "failed"]
    BY <1>18 DEF UnclaimTask, At, Conclude, Goto
  <2>2. Ran'
    BY <2>1 DEF Ran, Succeeding, TypeOK
  <2>3. QED
    BY <1>a, <2>1, <2>2
<1>19. ASSUME NEW w \in Workers, SendResult(w) PROVE P
  <2>1. /\ pc[w] = "reporting" /\ task[w] \in Tasks /\ rpc[task[w]] = "waiting"
        /\ taskRes[w] \in Replies
    BY <1>19 DEF SendResult, At, Taken
  <2>2. /\ rpc' = [rpc EXCEPT ![task[w]] = taskRes[w]] /\ UNCHANGED <<call, exit>>
        /\ pc'[w] = "idle"
        /\ \A x \in Workers \ {w} : pc'[x] = pc[x] /\ task'[x] = task[x] /\ taskRes'[x] = taskRes[x]
    BY <1>19 DEF SendResult, At, Goto, TypeOK
  <2>3. /\ \A t \in Tasks \ {task[w]} : rpc'[t] = rpc[t]
        /\ rpc'[task[w]] = taskRes[w]
    BY <2>1, <2>2 DEF TypeOK
  <2>4. Answered'
    BY <1>a, <2>1, <2>2, <2>3 DEF Replies
  <2>5. Ran'
    BY <2>1, <2>2, <2>3 DEF Ran, Succeeding
  <2>6. QED
    BY <2>4, <2>5
<1>20. ASSUME NEW k \in Keys, ExpireRecord(k) PROVE P
  BY <1>20, <1>a, <1>b DEF ExpireRecord
<1>21. ASSUME NEW e \in Executors, Crash(e) PROVE P
  BY <1>21, <1>a, <1>b DEF Crash
<1>22. CASE UNCHANGED vars
  BY <1>22, <1>a, <1>b DEF vars, workerVars
<1>23. QED
  BY <1>1, <1>2, <1>3, <1>4, <1>5, <1>6, <1>7, <1>8, <1>9, <1>10, <1>11, <1>12, <1>13, <1>14, <1>15, <1>16, <1>17, <1>18, <1>19, <1>20, <1>21, <1>22 DEF Next, ProxyReturns, WorkerStep

(* AnswerMatchesOutcome: "OK" means that a copy of the request ran to exit *)
(* code 0, "all executors failed" that no copy did.  The proxy has it only *)
(* from the executors' replies, so it rests on each copy being answered    *)
(* once, by the worker that ran it.                                        *)
THEOREM AnswersAreTrue == Spec => []AnswerMatchesOutcome
<1>1. Init => CopyInv /\ OutcomeInv
  BY DispatchAssumption, TaskFacts
     DEF Init, CopyInv, Unsent, Queued, Taken, OutcomeInv, Answered, Ran, Succeeding
<1>2. TypeOK /\ CopyInv /\ OutcomeInv /\ [Next]_vars => CopyInv' /\ OutcomeInv'
  BY CopyStep, OutcomeStep
<1>3. TypeOK /\ CopyInv /\ OutcomeInv => AnswerMatchesOutcome
  <2> SUFFICES ASSUME TypeOK, Taken, Answered, Ran, NEW c \in Calls
               PROVE  /\ call[c] = "ok" => {t \in Tasks : t.call = c /\ exit[t] = "zero"} # {}
                      /\ call[c] = "all_failed" => {t \in Tasks : t.call = c /\ exit[t] = "zero"} = {}
    BY DEF AnswerMatchesOutcome, CopyInv, OutcomeInv
  <2>1. \A t \in Tasks : rpc[t] \in Refused => exit[t] # "zero"
    BY DEF Ran, Taken, Succeeding, Refused
  <2>2. ASSUME call[c] = "all_failed", NEW t \in Tasks, t.call = c PROVE rpc[t] \in Refused
    BY <2>2, TaskFacts DEF Answered
  <2>3. QED
    BY <2>1, <2>2 DEF Answered
<1>4. QED
  BY <1>1, <1>2, <1>3, TypeCorrect, PTL DEF Spec

-----------------------------------------------------------------------------
(* What a step can do to the holders of a command and to its record.       *)

Holding(w) == pc[w] \in {"fetching", "running", "settling"}

Same(w) ==
  /\ Holding(w)' <=> Holding(w)
  /\ Holding(w) => pc'[w] = pc[w] /\ task'[w] = task[w]

OthersSame(w) == \A x \in Workers \ {w} : Same(x)

(* Request c stores its command over whatever record its key has.          *)
Stores(c) == ForwardAndExecute(c) \/ StoreCommandFails(c)

(* Nobody's claim changes; a record is overwritten only by a request.       *)
Quiet ==
  /\ exit' = exit
  /\ \A w \in Workers : Same(w)
  /\ \A k \in Keys : \/ store'[k] \in {store[k], Absent, "claimed"}
                     \/ \E c \in Calls : Stores(c) /\ TaskKey[c] = k

Granted(w) ==
  LET k == KeyOf(task[w]) IN
  /\ ~Holding(w) /\ task[w] \in Tasks /\ store[k] = "unclaimed"
  /\ store' = [store EXCEPT ![k] = "claimed"]
  /\ pc'[w] = "fetching" /\ task'[w] = task[w]
  /\ exit' = exit
  /\ OthersSame(w)

Fetched(w) ==
  /\ pc[w] = "fetching" /\ pc'[w] = "running" /\ task'[w] = task[w]
  /\ UNCHANGED <<store, exit>>
  /\ OthersSame(w)

Executed(w) ==
  /\ pc[w] = "running" /\ pc'[w] = "settling" /\ task'[w] = task[w]
  /\ \E code \in {"zero", "nonzero"} : exit' = [exit EXCEPT ![task[w]] = code]
  /\ store' = store
  /\ OthersSame(w)

Dropped(w) ==
  /\ Holding(w) /\ ~Holding(w)'
  /\ exit' = exit
  /\ \A k \in Keys : \/ store'[k] = store[k]
                     \/ k = KeyOf(task[w]) /\ store'[k] = "done"
                     \/ /\ k = KeyOf(task[w]) /\ store'[k] = "unclaimed"
                        /\ pc[w] = "settling" /\ exit[task[w]] = "nonzero"
  /\ OthersSame(w)

(* Every step is one of these.                                             *)
LEMMA StepKinds ==
  ASSUME TypeOK, CopyInv, [Next]_vars
  PROVE  \/ Quiet
         \/ \E w \in Workers : Granted(w) \/ Fetched(w) \/ Executed(w) \/ Dropped(w)
<1> DEFINE P == Quiet \/ \E w \in Workers : Granted(w) \/ Fetched(w) \/ Executed(w) \/ Dropped(w)
<1>0. \A w \in Workers : Holding(w) => task[w] \in Tasks /\ KeyOf(task[w]) \in Keys
  BY TaskFacts DEF Holding, CopyInv, Taken
<1>a. ASSUME UNCHANGED <<store, pc, task, exit>> PROVE Quiet
  BY <1>a DEF Quiet, Same, Holding
<1>1. ASSUME NEW c \in Calls, Stores(c) PROVE P
  <2>1. /\ UNCHANGED <<pc, task, exit>>
        /\ \A k \in Keys \ {TaskKey[c]} : store'[k] = store[k]
    BY <1>1 DEF Stores, ForwardAndExecute, StoreCommandFails, HSetWithTTL, workerVars, TypeOK, StoreTypeOK
  <2>2. QED
    BY <1>1, <2>1 DEF Quiet, Same, Holding
<1>2. ASSUME NEW c \in Calls, ReturnSuccess(c) \/ ReturnCancelled(c) \/ RetryOnLocal(c) \/ ReturnRetryResult(c)
      PROVE  P
  BY <1>2, <1>a DEF ReturnSuccess, ReturnCancelled, RetryOnLocal, ReturnRetryResult, workerVars
<1>3. ASSUME NEW t \in Tasks, SubmitErrorIsFatal(t) \/ SubmitAndExecute(t) PROVE P
  BY <1>3, <1>a DEF SubmitErrorIsFatal, SubmitAndExecute, workerVars
<1>4. ASSUME NEW w \in Workers, TakeTask(w) \/ SendResult(w) PROVE P
  BY <1>4 DEF TakeTask, SendResult, At, Goto, Quiet, Same, Holding, TypeOK
<1>5. ASSUME NEW w \in Workers, TryClaimTask(w) PROVE P
  <2> DEFINE k == KeyOf(task[w])
  <2>1. pc[w] = "claiming" /\ task[w] \in Tasks /\ k \in Keys /\ UNCHANGED <<task, exit>>
    BY <1>5, TaskFacts DEF TryClaimTask, At, CopyInv, Taken
  <2>2. CASE ClaimCode(k, "unclaimed") = 0
    <3>1. store[k] = "unclaimed" /\ store' = [store EXCEPT ![k] = "claimed"]
      BY <1>5, <2>2 DEF TryClaimTask, ClaimCmd, ClaimCode
    <3>2. pc' = [pc EXCEPT ![w] = "fetching"]
      BY <1>5, <2>2 DEF TryClaimTask, Goto
    <3>3. Granted(w)
      BY <2>1, <3>1, <3>2 DEF Granted, OthersSame, Same, Holding, TypeOK
    <3>4. QED
      BY <3>3
  <2>3. CASE ClaimCode(k, "unclaimed") # 0
    <3>1. store' = store /\ pc' = [pc EXCEPT ![w] = "reporting"]
      BY <1>5, <2>3 DEF TryClaimTask, ClaimCmd, Conclude, Goto
    <3>2. QED
      BY <2>1, <3>1 DEF Quiet, Same, Holding, TypeOK
  <2>4. QED
    BY <2>2, <2>3
<1>6. ASSUME NEW w \in Workers, ClaimAttemptFails(w) PROVE P
  <2>1. pc[w] = "claiming" /\ UNCHANGED <<task, exit>>
        /\ (pc' = pc \/ pc' = [pc EXCEPT ![w] = "reporting"])
    BY <1>6 DEF ClaimAttemptFails, At, Conclude, Goto
  <2>2. \A k \in Keys : store'[k] = store[k] \/ store'[k] = "claimed"
    BY <1>6 DEF ClaimAttemptFails, ClaimCmd, TypeOK, StoreTypeOK
  <2>3. QED
    BY <2>1, <2>2 DEF Quiet, Same, Holding, TypeOK
<1>7. ASSUME NEW w \in Workers, TaskNotFound(w) \/ EmptyContentIsFatal(w) PROVE P
  BY <1>7, <1>a DEF TaskNotFound, EmptyContentIsFatal, workerVars
<1>8. ASSUME NEW w \in Workers, FetchContent(w) PROVE P
  <2>1. Fetched(w)
    BY <1>8 DEF FetchContent, At, Goto, Fetched, OthersSame, Same, Holding, TypeOK
  <2>2. QED
    BY <2>1
<1>9. ASSUME NEW w \in Workers, FetchContentFails(w) PROVE P
  <2>1. Dropped(w)
    BY <1>9 DEF FetchContentFails, At, Conclude, Goto, Dropped, OthersSame, Same, Holding, TypeOK
  <2>2. QED
    BY <2>1
<1>10. ASSUME NEW w \in Workers, RunTask(w) PROVE P
  <2>1. Executed(w)
    BY <1>10 DEF RunTask, At, Goto, Executed, OthersSame, Same, Holding, TypeOK
  <2>2. QED
    BY <2>1
<1>11. ASSUME NEW w \in Workers, TryFinishTask(w) PROVE P
  <2>1. \A k \in Keys : store'[k] = store[k] \/ (k = KeyOf(task[w]) /\ store'[k] = "done")
    BY <1>11 DEF TryFinishTask, Settle, ClaimCmd, TypeOK, StoreTypeOK
  <2>2. Dropped(w)
    BY <1>11, <2>1 DEF TryFinishTask, At, Conclude, Goto, Dropped, OthersSame, Same, Holding, TypeOK
  <2>3. QED
    BY <2>2
<1>12. ASSUME NEW w \in Workers, UnclaimTask(w) PROVE P
  <2>1. \A k \in Keys : store'[k] = store[k] \/ (k = KeyOf(task[w]) /\ store'[k] = "unclaimed")
    BY <1>12 DEF UnclaimTask, Settle, ClaimCmd, TypeOK, StoreTypeOK
  <2>2. Dropped(w)
    BY <1>12, <2>1 DEF UnclaimTask, At, Conclude, Goto, Dropped, OthersSame, Same, Holding, TypeOK
  <2>3. QED
    BY <2>2
<1>13. ASSUME NEW k \in Keys, ExpireRecord(k) PROVE P
  BY <1>13 DEF ExpireRecord, Expire, workerVars, Quiet, Same, Holding, TypeOK, StoreTypeOK
<1>14. ASSUME NEW e \in Executors, Crash(e) PROVE P
  BY <1>14, <1>a DEF Crash, workerVars
<1>15. CASE UNCHANGED vars
  BY <1>15, <1>a DEF vars, workerVars
<1>16. QED
  BY <1>1, <1>2, <1>3, <1>4, <1>5, <1>6, <1>7, <1>8, <1>9, <1>10, <1>11, <1>12, <1>13, <1>14, <1>15 DEF Next, ProxyReturns, WorkerStep, Stores

-----------------------------------------------------------------------------
(* What is asked of the requests.                                          *)

(* No request stores a command that a worker holds at that moment.          *)
NoOverwrite == \A c \in Calls : Stores(c) => \A w \in Workers : ~Holds(w, TaskKey[c])

(* No request stores a command that has been run to success.                *)
NoRevival == \A c \in Calls : Stores(c) => TaskKey[c] \notin Succeeded

(* A command is submitted again only by a client that was told that all     *)
(* executors failed, or that it could not be stored.                       *)
RepeatsFailures ==
  \A c \in Calls : Stores(c) =>
    \A d \in Calls \ {c} :
      TaskKey[d] = TaskKey[c] => call[d] \in {"idle", "all_failed", "kv_failed"}

LEMMA StoringIsAStep ==
  ASSUME TypeOK, NEW c \in Calls, Stores(c)
  PROVE  call[c] = "idle" /\ ~UNCHANGED vars
BY DEF Stores, ForwardAndExecute, StoreCommandFails, MayCall, TypeOK, vars

(* A request that has not been made, or failed, has left no copy behind.    *)
LEMMA FailedLeavesNothing ==
  ASSUME TypeOK, CopyInv, OutcomeInv, [RepeatsFailures]_vars
  PROVE  NoOverwrite /\ NoRevival
<1> SUFFICES ASSUME NEW c \in Calls, Stores(c)
             PROVE  TaskKey[c] \notin Succeeded /\ \A w \in Workers : ~Holds(w, TaskKey[c])
  BY DEF NoOverwrite, NoRevival
<1>1. \A d \in Calls : TaskKey[d] = TaskKey[c] => call[d] \in {"idle", "all_failed", "kv_failed"}
  BY StoringIsAStep DEF RepeatsFailures
<1>2. ASSUME NEW t \in Tasks, KeyOf(t) = TaskKey[c] PROVE rpc[t] \in {"none"} \cup Refused
  <2>1. t.call \in Calls /\ call[t.call] \in {"idle", "all_failed", "kv_failed"}
    BY <1>1, <1>2, TaskFacts DEF KeyOf
  <2>2. CASE call[t.call] = "all_failed"
    BY <2>1, <2>2, TaskFacts DEF OutcomeInv, Answered
  <2>3. CASE call[t.call] \in {"idle", "kv_failed"}
    BY <2>3 DEF CopyInv, Unsent
  <2>4. QED
    BY <2>1, <2>2, <2>3
<1>3. ASSUME NEW w \in Workers, Holds(w, TaskKey[c]) PROVE FALSE
  <2>1. task[w] \in Tasks /\ rpc[task[w]] = "waiting" /\ KeyOf(task[w]) = TaskKey[c]
    BY <1>3 DEF Holds, CopyInv, Taken
  <2>2. QED
    BY <1>2, <2>1 DEF Refused
<1>4. ASSUME NEW t \in Tasks, KeyOf(t) = TaskKey[c] PROVE exit[t] # "zero"
  <2>1. rpc[t] \in {"none"} \cup Refused
    BY <1>2, <1>4
  <2>2. CASE rpc[t] = "none"
    BY <2>2 DEF CopyInv, Unsent
  <2>3. CASE rpc[t] \in Refused
    BY <2>3 DEF CopyInv, Taken, OutcomeInv, Ran, Succeeding, Refused
  <2>4. QED
    BY <2>1, <2>2, <2>3
<1>5. QED
  BY <1>3, <1>4 DEF Succeeded

(* Requests with distinct keys repeat nothing.                              *)
LEMMA OwnKeys == UniqueKeys => RepeatsFailures
BY DEF UniqueKeys, RepeatsFailures

-----------------------------------------------------------------------------
(* The claims stay exclusive and recorded, whatever kind of step it is.    *)
LEMMA HolderStep ==
  ASSUME TypeOK, CopyInv, OneHolder, Recorded, NoOverwrite, [Next]_vars
  PROVE  OneHolder' /\ Recorded'
<1>0. \A w \in Workers : Holding(w) => task[w] \in Tasks /\ KeyOf(task[w]) \in Keys
  BY TaskFacts DEF Holding, CopyInv, Taken
<1>1. CASE Quiet
  <2>1. \A w \in Workers, k \in Keys : Holds(w, k)' <=> Holds(w, k)
    BY <1>1 DEF Quiet, Same, Holding, Holds
  <2>2. OneHolder'
    BY <2>1 DEF OneHolder
  <2>3. Recorded'
    BY <1>1, <2>1 DEF Recorded, Quiet, NoOverwrite
  <2>4. QED
    BY <2>2, <2>3
<1>2. ASSUME NEW w \in Workers, Granted(w) PROVE OneHolder' /\ Recorded'
  <2> DEFINE k == KeyOf(task[w])
  <2>1. k \in Keys /\ \A x \in Workers : ~Holds(x, k)
    BY <1>2, TaskFacts DEF Granted, Recorded, Absent
  <2>2. \A x \in Workers, j \in Keys : Holds(x, j)' <=> Holds(x, j) \/ (x = w /\ j = k)
    BY <1>2 DEF Granted, OthersSame, Same, Holding, Holds
  <2>3. OneHolder'
    BY <2>1, <2>2 DEF OneHolder
  <2>4. Recorded'
    BY <1>2, <2>1, <2>2 DEF Recorded, Granted, TypeOK, StoreTypeOK
  <2>5. QED
    BY <2>3, <2>4
<1>3. ASSUME NEW w \in Workers, Fetched(w) \/ Executed(w) PROVE OneHolder' /\ Recorded'
  <2>1. \A x \in Workers, j \in Keys : Holds(x, j)' <=> Holds(x, j)
    BY <1>3 DEF Fetched, Executed, OthersSame, Same, Holding, Holds
  <2>2. QED
    BY <1>3, <2>1 DEF OneHolder, Recorded, Fetched, Executed
<1>4. ASSUME NEW w \in Workers, Dropped(w) PROVE OneHolder' /\ Recorded'
  <2> DEFINE k == KeyOf(task[w])
  <2>1. task[w] \in Tasks /\ k \in Keys /\ Holds(w, k)
    BY <1>0, <1>4 DEF Dropped, Holding, Holds
  <2>2. \A x \in Workers, j \in Keys : Holds(x, j)' <=> Holds(x, j) /\ x # w
    BY <1>4 DEF Dropped, OthersSame, Same, Holding, Holds
  <2>3. \A x \in Workers, j \in Keys : Holds(x, j)' => j # k
    BY <2>1, <2>2 DEF OneHolder
  <2>4. OneHolder'
    BY <2>2 DEF OneHolder
  <2>5. Recorded'
    BY <1>4, <2>2, <2>3 DEF Recorded, Dropped
  <2>6. QED
    BY <2>4, <2>5
<1>5. QED
  BY <1>1, <1>2, <1>3, <1>4, StepKinds

(* A finished command stays unclaimable, and its holder about to finish.    *)
LEMMA SettledStep ==
  ASSUME TypeOK, CopyInv, ClaimInv, NoRevival, [Next]_vars
  PROVE  Settled'
<1>0. \A w \in Workers : Holding(w) => task[w] \in Tasks /\ KeyOf(task[w]) \in Keys
  BY TaskFacts DEF Holding, CopyInv, Taken
<1>1. CASE Quiet
  <2>1. \A w \in Workers, k \in Keys : Holds(w, k)' <=> Holds(w, k)
    BY <1>1 DEF Quiet, Same, Holding, Holds
  <2>2. Succeeded' = Succeeded
    BY <1>1 DEF Quiet, Succeeded
  <2>3. \A k \in Succeeded : store'[k] # "unclaimed"
    BY <1>1 DEF ClaimInv, Settled, Quiet, Absent, Succeeded, NoRevival
  <2>4. QED
    BY <1>1, <2>1, <2>2, <2>3 DEF ClaimInv, Settled, Quiet, Same, Holding, Holds, Succeeded
<1>2. ASSUME NEW w \in Workers, Granted(w) PROVE Settled'
  <2> DEFINE k == KeyOf(task[w])
  <2>1. k \in Keys
    BY <1>2, TaskFacts DEF Granted
  <2>2. Succeeded' = Succeeded /\ k \notin Succeeded
    BY <1>2 DEF Granted, ClaimInv, Settled, Succeeded
  <2>3. \A x \in Workers, j \in Keys : Holds(x, j)' <=> Holds(x, j) \/ (x = w /\ j = k)
    BY <1>2 DEF Granted, OthersSame, Same, Holding, Holds
  <2>4. QED
    BY <1>2, <2>2, <2>3 DEF ClaimInv, Settled, Granted, OthersSame, Same, Holding, Holds, TypeOK, StoreTypeOK, Succeeded
<1>3. ASSUME NEW w \in Workers, Fetched(w) PROVE Settled'
  <2>1. \A x \in Workers, j \in Keys : Holds(x, j)' <=> Holds(x, j)
    BY <1>3 DEF Fetched, OthersSame, Same, Holding, Holds
  <2>2. Succeeded' = Succeeded /\ \A k \in Succeeded : ~Holds(w, k)
    BY <1>3 DEF Fetched, ClaimInv, Settled, Succeeded
  <2>3. QED
    BY <1>3, <2>1, <2>2 DEF ClaimInv, Settled, Fetched, OthersSame, Same, Holding, Holds, Succeeded
<1>4. ASSUME NEW w \in Workers, Executed(w) PROVE Settled'
  <2> DEFINE k == KeyOf(task[w])
  <2>1. task[w] \in Tasks /\ k \in Keys /\ Holds(w, k)
    BY <1>0, <1>4 DEF Executed, Holding, Holds
  <2>2. \A x \in Workers, j \in Keys : Holds(x, j)' <=> Holds(x, j)
    BY <1>4 DEF Executed, OthersSame, Same, Holding, Holds
  <2>3. k \notin Succeeded /\ \A x \in Workers : Holds(x, k) => x = w
    BY <1>4, <2>1 DEF Executed, ClaimInv, Settled, OneHolder
  <2>4. PICK code \in {"zero", "nonzero"} : exit' = [exit EXCEPT ![task[w]] = code]
    BY <1>4 DEF Executed
  <2>5. exit'[task[w]] = code /\ \A t \in Tasks \ {task[w]} : exit'[t] = exit[t]
    BY <2>1, <2>4 DEF TypeOK
  <2>6. Succeeded' = IF code = "zero" THEN Succeeded \cup {k} ELSE Succeeded
    BY <2>1, <2>3, <2>5 DEF Succeeded
  <2>7. ASSUME NEW j \in Succeeded' PROVE store'[j] # "unclaimed"
    BY <1>4, <2>1, <2>6 DEF ClaimInv, Settled, Recorded, Executed, Absent
  <2>8. ASSUME NEW j \in Succeeded', NEW x \in Workers, Holds(x, j)'
        PROVE  pc'[x] = "settling" /\ exit'[task'[x]] = "zero"
    <3>1. j \in Keys /\ Holds(x, j)
      BY <2>2, <2>8 DEF Succeeded
    <3>2. CASE j = k
      BY <1>4, <2>3, <2>5, <2>6, <3>1, <3>2 DEF Executed
    <3>3. CASE j # k
      <4>1. j \in Succeeded /\ x # w
        BY <2>6, <3>1, <3>3 DEF Holds
      <4>2. task[x] # task[w] /\ task[x] \in Tasks
        BY <1>0, <3>1, <3>3 DEF Holds, Holding
      <4>3. QED
        BY <1>4, <2>5, <3>1, <4>1, <4>2 DEF ClaimInv, Settled, Executed, OthersSame, Same, Holding, Holds
    <3>4. QED
      BY <3>2, <3>3
  <2>9. QED
    BY <2>7, <2>8 DEF Settled
<1>5. ASSUME NEW w \in Workers, Dropped(w) PROVE Settled'
  <2> DEFINE k == KeyOf(task[w])
  <2>1. task[w] \in Tasks /\ k \in Keys /\ Holds(w, k)
    BY <1>0, <1>5 DEF Dropped, Holding, Holds
  <2>2. \A x \in Workers, j \in Keys : Holds(x, j)' <=> Holds(x, j) /\ x # w
    BY <1>5 DEF Dropped, OthersSame, Same, Holding, Holds
  <2>3. Succeeded' = Succeeded
    BY <1>5 DEF Dropped, Succeeded
  <2>4. ASSUME NEW j \in Succeeded PROVE store'[j] # "unclaimed"
    BY <1>5, <2>1, <2>4 DEF ClaimInv, Settled, Dropped, Succeeded
  <2>5. ASSUME NEW j \in Succeeded, NEW x \in Workers, Holds(x, j)'
        PROVE  pc'[x] = "settling" /\ exit'[task'[x]] = "zero"
    BY <1>5, <2>2, <2>5 DEF ClaimInv, Settled, Dropped, OthersSame, Same, Holding, Holds, Succeeded
  <2>6. QED
    BY <2>3, <2>4, <2>5 DEF Settled
<1>6. QED
  BY <1>1, <1>2, <1>3, <1>4, <1>5, StepKinds

LEMMA ClaimStep ==
  ASSUME TypeOK, CopyInv, ClaimInv, NoOverwrite, NoRevival, [Next]_vars
  PROVE  ClaimInv'
BY HolderStep, SettledStep DEF ClaimInv

(* At first nothing has been sent, taken, run or recorded.                *)
LEMMA ClaimsInitially == Init => CopyInv /\ ClaimInv
<1> SUFFICES ASSUME Init PROVE CopyInv /\ ClaimInv
  OBVIOUS
<1>1. CopyInv
  BY TaskFacts DEF Init, CopyInv, Unsent, Queued, Taken
<1>2. Succeeded = {} /\ \A w \in Workers : pc[w] = "idle"
  BY DEF Init, Succeeded
<1>3. ClaimInv
  BY <1>2 DEF ClaimInv, OneHolder, Recorded, Settled, Holds
<1>4. QED
  BY <1>1, <1>3

(* What a step does to the claims it does to the lease.                     *)
LEMMA LeaseStep ==
  ASSUME TypeOK, CopyInv, ClaimInv, [Next]_vars
  PROVE  [Lease!Next]_(Lease!vars)
<1> DEFINE holders == [k \in Keys |-> {w \in Workers : Holds(w, k)}]
<1>0. \A w \in Workers : Holding(w) => KeyOf(task[w]) \in Keys /\ task[w] \in Tasks
  BY TaskFacts DEF Holding, CopyInv, Taken
<1>1. CASE Quiet
  <2>1. \A w \in Workers, k \in Keys : Holds(w, k)' <=> Holds(w, k)
    BY <1>1 DEF Quiet, Same, Holding, Holds
  <2>2. holders' = holders /\ Succeeded' = Succeeded
    BY <1>1, <2>1 DEF Quiet, Succeeded
  <2>3. QED
    BY <2>2 DEF Lease!vars
<1>2. ASSUME NEW w \in Workers, Granted(w) PROVE Lease!Next
  <2>1. PICK k \in Keys : k = KeyOf(task[w])
    BY <1>2, TaskFacts DEF Granted
  <2>2. \A x \in Workers, j \in Keys : Holds(x, j)' <=> Holds(x, j) \/ (x = w /\ j = k)
    BY <1>2, <2>1 DEF Granted, OthersSame, Same, Holding, Holds
  <2>3. k \notin Succeeded /\ \A x \in Workers : ~Holds(x, k)
    BY <1>2, <2>1 DEF Granted, ClaimInv, Recorded, Settled, Absent
  <2>4. Succeeded' = Succeeded
    BY <1>2 DEF Granted, Succeeded
  <2>5. holders[k] = {} /\ holders' = [holders EXCEPT ![k] = {w}]
    BY <2>2, <2>3
  <2>6. Lease!Acquire(k, w)
    BY <2>3, <2>4, <2>5 DEF Lease!Acquire
  <2>7. QED
    BY <2>6 DEF Lease!Next
<1>3. ASSUME NEW w \in Workers, Fetched(w) PROVE UNCHANGED Lease!vars
  <2>1. \A x \in Workers, j \in Keys : Holds(x, j)' <=> Holds(x, j)
    BY <1>3 DEF Fetched, OthersSame, Same, Holding, Holds
  <2>2. holders' = holders /\ Succeeded' = Succeeded
    BY <1>3, <2>1 DEF Fetched, Succeeded
  <2>3. QED
    BY <2>2 DEF Lease!vars
<1>4. ASSUME NEW w \in Workers, Executed(w) PROVE [Lease!Next]_(Lease!vars)
  <2>1. PICK k \in Keys : k = KeyOf(task[w]) /\ task[w] \in Tasks /\ Holds(w, k)
    BY <1>0, <1>4 DEF Executed, Holding, Holds
  <2>2. \A x \in Workers, j \in Keys : Holds(x, j)' <=> Holds(x, j)
    BY <1>4 DEF Executed, OthersSame, Same, Holding, Holds
  <2>3. holders' = holders /\ holders[k] = {w}
    BY <2>1, <2>2 DEF ClaimInv, OneHolder
  <2>4. k \notin Succeeded
    BY <1>4, <2>1 DEF Executed, ClaimInv, Settled
  <2>5. PICK code \in {"zero", "nonzero"} : exit' = [exit EXCEPT ![task[w]] = code]
    BY <1>4 DEF Executed
  <2>6. exit'[task[w]] = code /\ \A t \in Tasks \ {task[w]} : exit'[t] = exit[t]
    BY <2>1, <2>5 DEF TypeOK
  <2>7. Succeeded' = IF code = "zero" THEN Succeeded \cup {k} ELSE Succeeded
    BY <2>1, <2>4, <2>6 DEF Succeeded
  <2>8. CASE code = "zero"
    <3>1. Lease!Complete(k, w)
      BY <2>3, <2>7, <2>8 DEF Lease!Complete
    <3>2. QED
      BY <3>1 DEF Lease!Next
  <2>9. CASE code # "zero"
    BY <2>3, <2>7, <2>9 DEF Lease!vars
  <2>10. QED
    BY <2>8, <2>9
<1>5. ASSUME NEW w \in Workers, Dropped(w) PROVE Lease!Next
  <2>1. PICK k \in Keys : k = KeyOf(task[w]) /\ Holds(w, k)
    BY <1>0, <1>5 DEF Dropped, Holding, Holds
  <2>2. \A x \in Workers, j \in Keys : Holds(x, j)' <=> Holds(x, j) /\ x # w
    BY <1>5 DEF Dropped, OthersSame, Same, Holding, Holds
  <2>3. \A j \in Keys \ {k} : ~Holds(w, j)
    BY <2>1 DEF Holds
  <2>4. \A x \in Workers : Holds(x, k) <=> x = w
    BY <2>1 DEF ClaimInv, OneHolder
  <2>5. \A x \in Workers, j \in Keys : Holds(x, j)' <=> Holds(x, j) /\ j # k
    BY <2>2, <2>3, <2>4
  <2>6. holders[k] = {w} /\ holders' = [holders EXCEPT ![k] = {}]
    BY <2>4, <2>5
  <2>7. Succeeded' = Succeeded
    BY <1>5 DEF Dropped, Succeeded
  <2>8. Lease!Release(k, w)
    BY <2>6, <2>7 DEF Lease!Release
  <2>9. QED
    BY <2>8 DEF Lease!Next
<1>6. QED
  BY <1>1, <1>2, <1>3, <1>4, <1>5, StepKinds

(* Of the copies of a command one at most has been run to exit code 0.     *)
Once ==
  \A s, t \in Tasks :
    exit[s] = "zero" /\ exit[t] = "zero" /\ KeyOf(s) = KeyOf(t) => s = t

(* Only the holder of a command that nobody finished runs it.              *)
LEMMA OnceStep ==
  ASSUME TypeOK, CopyInv, ClaimInv, Once, [Next]_vars
  PROVE  Once'
<1>1. CASE exit' = exit
  BY <1>1 DEF Once
<1>2. ASSUME NEW w \in Workers, Executed(w) PROVE Once'
  <2>1. task[w] \in Tasks /\ KeyOf(task[w]) \in Keys /\ Holds(w, KeyOf(task[w]))
    BY <1>2, TaskFacts DEF Executed, Holds, CopyInv, Taken
  <2>2. \A t \in Tasks : KeyOf(t) = KeyOf(task[w]) => exit[t] # "zero"
    BY <1>2, <2>1 DEF Executed, ClaimInv, Settled, Succeeded
  <2>3. \A t \in Tasks \ {task[w]} : exit'[t] = exit[t]
    BY <1>2, <2>1 DEF Executed, TypeOK
  <2>4. QED
    BY <2>2, <2>3 DEF Once
<1>3. QED
  BY <1>1, <1>2, StepKinds DEF Quiet, Granted, Fetched, Dropped

LEMMA CopiesCorrect == Spec => [](CopyInv /\ OutcomeInv)
<1>1. Init => CopyInv /\ OutcomeInv
  BY ClaimsInitially DEF Init, OutcomeInv, Answered, Ran
<1>2. TypeOK /\ CopyInv /\ OutcomeInv /\ [Next]_vars => CopyInv' /\ OutcomeInv'
  BY CopyStep, OutcomeStep
<1>3. QED
  BY <1>1, <1>2, TypeCorrect, PTL DEF Spec

-----------------------------------------------------------------------------
(* Two workers come to hold one command in one way only: a request stores   *)
(* the command while a worker holds it.  Nothing else that the stores, the  *)
(* queues, crashed daemons, expiring records or clients do, alone or        *)
(* together, breaks OneHolder, whichever keys the requests use.             *)
THEOREM OverlapNeedsOverwrite == Spec /\ [][NoOverwrite]_vars => []OneHolder
<1>1. Init => CopyInv /\ OneHolder /\ Recorded
  BY ClaimsInitially DEF ClaimInv
<1>2. TypeOK /\ CopyInv /\ OneHolder /\ Recorded /\ [NoOverwrite]_vars /\ [Next]_vars
        => CopyInv' /\ OneHolder' /\ Recorded'
  <2>1. TypeOK /\ [NoOverwrite]_vars => NoOverwrite
    BY StoringIsAStep DEF NoOverwrite
  <2>2. QED
    BY <2>1, CopyStep, HolderStep
<1>3. QED
  BY <1>1, <1>2, TypeCorrect, PTL DEF Spec

(* The race implements the lease, and one copy of a command at most is      *)
(* answered "ok", as long as no request stores a command that is held or    *)
(* has been run to success: every step grants a free lease of an unfinished *)
(* command, completes it or releases it in its holder's name, or leaves all *)
(* leases alone.                                                           *)
THEOREM LeaseHoldsForNewCommands ==
  Spec /\ [][NoOverwrite /\ NoRevival]_vars => LeaseSpec /\ []OneSuccess
<1>1. Init => Lease!Init /\ CopyInv /\ ClaimInv /\ Once
  BY ClaimsInitially DEF Init, Succeeded, Holds, Lease!Init, Once
<1>2. TypeOK /\ CopyInv /\ ClaimInv /\ Once /\ [NoOverwrite /\ NoRevival]_vars /\ [Next]_vars
        => CopyInv' /\ ClaimInv' /\ Once'
  <2>1. TypeOK /\ [NoOverwrite /\ NoRevival]_vars => NoOverwrite /\ NoRevival
    BY StoringIsAStep DEF NoOverwrite, NoRevival
  <2>2. QED
    BY <2>1, CopyStep, ClaimStep, OnceStep
<1>3. TypeOK /\ CopyInv /\ ClaimInv /\ [Next]_vars => [Lease!Next]_(Lease!vars)
  BY LeaseStep
<1>4. OutcomeInv /\ Once => OneSuccess
  BY DEF OutcomeInv, Ran, Once, OneSuccess
<1>5. QED
  BY <1>1, <1>2, <1>3, <1>4, TypeCorrect, CopiesCorrect, PTL DEF Spec, LeaseSpec, Lease!Spec

(* A client that repeats a command only after it was told that all failed,  *)
(* or that the command could not be stored, keeps the lease: such an answer *)
(* means that no copy is left anywhere to claim, run or settle a later      *)
(* request's record.                                                       *)
THEOREM FailedCommandsMayBeRepeated ==
  Spec /\ [][RepeatsFailures]_vars => LeaseSpec /\ []OneHolder /\ []OneSuccess
<1>1. TypeOK /\ CopyInv /\ OutcomeInv /\ [RepeatsFailures]_vars => NoOverwrite /\ NoRevival
  BY FailedLeavesNothing
<1>2. Spec /\ [][RepeatsFailures]_vars => [][NoOverwrite /\ NoRevival]_vars /\ [][NoOverwrite]_vars
  BY <1>1, TypeCorrect, CopiesCorrect, PTL
<1>3. QED
  BY <1>2, OverlapNeedsOverwrite, LeaseHoldsForNewCommands, PTL

(* OneHolder: between a claim and its settling no other worker, of any     *)
(* executor, holds the same command, whatever errs, expires, dies or       *)
(* leaves.  The assumption is that no two requests use one task key.       *)
THEOREM OneHolderHolds == ASSUME UniqueKeys PROVE Spec => []OneHolder
<1>1. RepeatsFailures
  BY OwnKeys
<1>2. QED
  BY <1>1, FailedCommandsMayBeRepeated, PTL

(* The race implements the lease: every step grants a free lease of an     *)
(* unfinished command, completes it or releases it in its holder's name,   *)
(* or leaves all leases alone, for requests with commands of their own.    *)
THEOREM DispatchImplementsLease == ASSUME UniqueKeys PROVE Spec => LeaseSpec
<1>1. RepeatsFailures
  BY OwnKeys
<1>2. QED
  BY <1>1, FailedCommandsMayBeRepeated, PTL

(* OneSuccess: no two copies of a command are answered "ok", for requests  *)
(* with distinct keys and under every fault of the model.                  *)
THEOREM OneSuccessHolds == ASSUME UniqueKeys PROVE Spec => []OneSuccess
<1>1. RepeatsFailures
  BY OwnKeys
<1>2. QED
  BY <1>1, FailedCommandsMayBeRepeated, PTL
=============================================================================
