------------------------- MODULE DispatchReplyProofs -------------------------
(***************************************************************************)
(* Theorems about what becomes of the replies to a request: for every      *)
(* value of the constants they are gathered as module Gather specifies and *)
(* no copy is lost between the proxy, the channels and the workers; while  *)
(* the replies to claims arrive, a claim comes back before the replies but *)
(* for the two leaks the code has; and when the others arrive too, the     *)
(* last resort on the local executor is a real execution.                  *)
(***************************************************************************)
EXTENDS DispatchProofs, FiniteSetTheorems

(* The gathering of request c does not notice a step that changes neither   *)
(* where the request stands nor the calls for it.                           *)
LEMMA Steady ==
  ASSUME NEW c \in Calls, call'[c] = call[c],
         \A t \in Tasks : t.call = c => rpc'[t] = rpc[t]
  PROVE  UNCHANGED Gathering(c)!vars
<1>1. \A e \in Executors : rpc'[Batch(c, e)] = rpc[Batch(c, e)]
  BY TaskFacts
<1>2. rpc'[Retry(c)] = rpc[Retry(c)]
  BY TaskFacts
<1>3. \A e \in Executors : ReplyOf(c, e)' = ReplyOf(c, e)
  BY <1>1 DEF ReplyOf
<1>4. VerdictOn(c)' = VerdictOn(c)
  BY <1>2 DEF VerdictOn
<1>5. [e \in Executors |-> ReplyOf(c, e)]' = [e \in Executors |-> ReplyOf(c, e)]
  BY <1>3
<1>6. QED
  BY <1>4, <1>5 DEF Gathering!vars

LEMMA ReplyFacts ==
  ASSUME NEW c \in Calls, NEW e \in Executors
  PROVE  /\ rpc[Batch(c, e)] = "ok" => ReplyOf(c, e) = "ok"
         /\ rpc[Batch(c, e)] \in Replies \ {"ok"} => ReplyOf(c, e) = "bad"
         /\ rpc[Batch(c, e)] \notin Replies => ReplyOf(c, e) = "none"
         /\ rpc'[Batch(c, e)] = "ok" => ReplyOf(c, e)' = "ok"
         /\ rpc'[Batch(c, e)] \in Replies \ {"ok"} => ReplyOf(c, e)' = "bad"
         /\ rpc'[Batch(c, e)] \notin Replies => ReplyOf(c, e)' = "none"
BY DEF ReplyOf, Replies

LEMMA VerdictFacts ==
  ASSUME NEW c \in Calls
  PROVE  /\ rpc[Retry(c)] # "none" => VerdictOn(c) = "exhausted"
         /\ rpc[Retry(c)] = "none" /\ call[c] \notin {"ok", "cancelled"} => VerdictOn(c) = "open"
         /\ rpc'[Retry(c)] # "none" => VerdictOn(c)' = "exhausted"
         /\ rpc'[Retry(c)] = "none" /\ call'[c] = "ok" => VerdictOn(c)' = "success"
         /\ rpc'[Retry(c)] = "none" /\ call'[c] = "cancelled" => VerdictOn(c)' = "cancelled"
         /\ rpc'[Retry(c)] = "none" /\ call'[c] \notin {"ok", "cancelled"} => VerdictOn(c)' = "open"
<1>1. rpc[Retry(c)] # "none" => VerdictOn(c) = "exhausted"
  BY DEF VerdictOn
<1>2. rpc[Retry(c)] = "none" /\ call[c] \notin {"ok", "cancelled"} => VerdictOn(c) = "open"
  BY DEF VerdictOn
<1>3. rpc'[Retry(c)] # "none" => VerdictOn(c)' = "exhausted"
  BY DEF VerdictOn
<1>4. rpc'[Retry(c)] = "none" /\ call'[c] = "ok" => VerdictOn(c)' = "success"
  BY DEF VerdictOn
<1>5. rpc'[Retry(c)] = "none" /\ call'[c] = "cancelled" => VerdictOn(c)' = "cancelled"
  BY DEF VerdictOn
<1>6. rpc'[Retry(c)] = "none" /\ call'[c] \notin {"ok", "cancelled"} => VerdictOn(c)' = "open"
  BY DEF VerdictOn
<1>7. QED
  BY <1>1, <1>2, <1>3, <1>4, <1>5, <1>6

(* A call that comes back replies once; the call of the retry is none of    *)
(* the gathering's.                                                        *)
LEMMA CallComesBack ==
  ASSUME TypeOK, NEW c \in Calls, NEW t \in Tasks, rpc[t] \in InFlight, rpc'[t] \in InFlight \cup Replies,
         \A s \in Tasks : s # t => rpc'[s] = rpc[s], UNCHANGED call
  PROVE  [Gathering(c)!Next]_(Gathering(c)!vars)
<1>1. CASE t.call # c
  BY <1>1, Steady
<1>2. CASE t = Retry(c)
  <2>1. VerdictOn(c) = "exhausted" /\ VerdictOn(c)' = "exhausted"
    BY <1>2, VerdictFacts DEF InFlight, Replies
  <2>2. \A e \in Executors : rpc'[Batch(c, e)] = rpc[Batch(c, e)]
    BY <1>2, TaskFacts
  <2>3. \A e \in Executors : ReplyOf(c, e)' = ReplyOf(c, e)
    BY <2>2 DEF ReplyOf
  <2>4. [e \in Executors |-> ReplyOf(c, e)]' = [e \in Executors |-> ReplyOf(c, e)]
    BY <2>3
  <2>5. QED
    BY <2>1, <2>4 DEF Gathering!vars
<1>3. ASSUME NEW e \in Executors, t = Batch(c, e) PROVE [Gathering(c)!Next]_(Gathering(c)!vars)
  <2>1. rpc'[Retry(c)] = rpc[Retry(c)]
    BY <1>3, TaskFacts
  <2>2. VerdictOn(c)' = VerdictOn(c)
    BY <2>1 DEF VerdictOn
  <2>3. \A f \in Executors : f # e => rpc'[Batch(c, f)] = rpc[Batch(c, f)]
    BY <1>3, TaskFacts DEF Batch
  <2>4. \A f \in Executors : f # e => ReplyOf(c, f)' = ReplyOf(c, f)
    BY <2>3 DEF ReplyOf
  <2>5. ReplyOf(c, e) = "none"
    BY <1>3, ReplyFacts DEF InFlight, Replies
  <2>6. CASE rpc'[t] \in InFlight
    <3>1. ReplyOf(c, e)' = "none"
      BY <1>3, <2>6, ReplyFacts DEF InFlight, Replies
    <3>2. [f \in Executors |-> ReplyOf(c, f)]' = [f \in Executors |-> ReplyOf(c, f)]
      BY <2>4, <2>5, <3>1
    <3>3. QED
      BY <2>2, <3>2 DEF Gathering!vars
  <2>7. CASE rpc'[t] \in Replies
    <3>1. ReplyOf(c, e)' \in {"ok", "bad"}
      BY <1>3, <2>7, ReplyFacts DEF Replies
    <3>2. [f \in Executors |-> ReplyOf(c, f)]'
            = [[f \in Executors |-> ReplyOf(c, f)] EXCEPT ![e] = ReplyOf(c, e)']
      BY <2>4
    <3>3. Gathering(c)!Reply(e)
      BY <2>2, <2>5, <3>1, <3>2 DEF Gathering!Reply
    <3>4. QED
      BY <3>3 DEF Gathering!Next
  <2>8. QED
    BY <2>6, <2>7
<1>4. QED
  BY <1>1, <1>2, <1>3, TaskFacts

(* The proxy makes something of the replies, none of which changes.         *)
LEMMA ProxyConcludes ==
  ASSUME TypeOK, CopyInv, NEW c \in Calls, call[c] = "gathering",
         \A t \in Tasks : t # Retry(c) => rpc'[t] = rpc[t],
         \/ rpc'[Retry(c)] = "none" /\ call'[c] = "ok" /\ \E e \in Executors : rpc[Batch(c, e)] = "ok"
         \/ rpc'[Retry(c)] = "none" /\ call'[c] = "cancelled"
         \/ rpc'[Retry(c)] # "none" /\ \A e \in Executors : rpc[Batch(c, e)] \in Replies \ {"ok"}
  PROVE  Gathering(c)!Next
<1>1. VerdictOn(c) = "open"
  BY VerdictFacts DEF CopyInv, Unsent
<1>2. \A e \in Executors : ReplyOf(c, e)' = ReplyOf(c, e)
  BY TaskFacts DEF ReplyOf
<1>3. [e \in Executors |-> ReplyOf(c, e)]' = [e \in Executors |-> ReplyOf(c, e)]
  BY <1>2
<1>4. ASSUME rpc'[Retry(c)] = "none", call'[c] = "ok", NEW e \in Executors, rpc[Batch(c, e)] = "ok"
      PROVE  Gathering(c)!Succeed
  <2>1. VerdictOn(c)' = "success" /\ ReplyOf(c, e) = "ok"
    BY <1>4, VerdictFacts, ReplyFacts
  <2>2. QED
    BY <1>1, <1>3, <2>1 DEF Gathering!Succeed, Gathering!Decide
<1>5. ASSUME rpc'[Retry(c)] = "none", call'[c] = "cancelled" PROVE Gathering(c)!GiveUp
  <2>1. VerdictOn(c)' = "cancelled"
    BY <1>5, VerdictFacts
  <2>2. QED
    BY <1>1, <1>3, <2>1 DEF Gathering!GiveUp, Gathering!Decide
<1>6. ASSUME rpc'[Retry(c)] # "none", \A e \in Executors : rpc[Batch(c, e)] \in Replies \ {"ok"}
      PROVE  Gathering(c)!Exhaust
  <2>1. VerdictOn(c)' = "exhausted" /\ \A e \in Executors : ReplyOf(c, e) = "bad"
    BY <1>6, VerdictFacts, ReplyFacts
  <2>2. QED
    BY <1>1, <1>3, <2>1 DEF Gathering!Exhaust, Gathering!Decide
<1>7. QED
  BY <1>4, <1>5, <1>6 DEF Gathering!Next

(* The request begins, or ends before it has begun: nothing was replied.    *)
LEMMA RequestBegins ==
  ASSUME TypeOK, CopyInv, NEW c \in Calls, call[c] = "idle", call'[c] \in {"gathering", "kv_failed"},
         rpc'[Retry(c)] = rpc[Retry(c)],
         \A e \in Executors : rpc'[Batch(c, e)] \in {"none", "sent"}
  PROVE  UNCHANGED Gathering(c)!vars
<1>1. \A t \in Tasks : t.call = c => rpc[t] = "none"
  BY DEF CopyInv, Unsent
<1>2. VerdictOn(c) = "open" /\ VerdictOn(c)' = "open"
  BY <1>1, TaskFacts, VerdictFacts
<1>3. \A e \in Executors : ReplyOf(c, e) = "none" /\ ReplyOf(c, e)' = "none"
  BY <1>1, TaskFacts, ReplyFacts DEF Replies
<1>4. [e \in Executors |-> ReplyOf(c, e)]' = [e \in Executors |-> ReplyOf(c, e)]
  BY <1>3
<1>5. QED
  BY <1>2, <1>4 DEF Gathering!vars

LEMMA GatheringStep ==
  ASSUME TypeOK, CopyInv, [Next]_vars, NEW c \in Calls
  PROVE  [Gathering(c)!Next]_(Gathering(c)!vars)
<1> DEFINE G == [Gathering(c)!Next]_(Gathering(c)!vars)
<1>1. ASSUME UNCHANGED <<call, rpc>> PROVE G
  BY <1>1, Steady
<1>2. ASSUME NEW d \in Calls, ForwardAndExecute(d) \/ StoreCommandFails(d) PROVE G
  <2>1. /\ call[d] = "idle" /\ call'[d] \in {"gathering", "kv_failed"}
        /\ \A b \in Calls : b # d => call'[b] = call[b]
    BY <1>2 DEF ForwardAndExecute, StoreCommandFails, MayCall, TypeOK
  <2>2. \A t \in Tasks : t.call # d \/ t = Retry(d) => rpc'[t] = rpc[t]
    BY <1>2, TaskFacts DEF ForwardAndExecute, StoreCommandFails
  <2>3. \A t \in Tasks : t.call = d => rpc[t] = "none"
    BY <2>1 DEF CopyInv, Unsent
  <2>4. \A e \in Executors : rpc'[Batch(d, e)] \in {"none", "sent"}
    BY <1>2, <2>3, TaskFacts DEF ForwardAndExecute, StoreCommandFails
  <2>5. CASE d = c
    BY <2>1, <2>2, <2>4, <2>5, RequestBegins, TaskFacts
  <2>6. CASE d # c
    BY <2>1, <2>2, <2>6, Steady
  <2>7. QED
    BY <2>5, <2>6
<1>3. ASSUME NEW d \in Calls, ReturnSuccess(d) \/ ReturnCancelled(d) \/ RetryOnLocal(d) PROVE G
  <2>1. /\ call[d] = "gathering" /\ \A b \in Calls : b # d => call'[b] = call[b]
        /\ \A t \in Tasks : t # Retry(d) => rpc'[t] = rpc[t]
    BY <1>3, TaskFacts DEF ReturnSuccess, ReturnCancelled, RetryOnLocal, TypeOK
  <2>2. rpc[Retry(d)] = "none"
    BY <2>1 DEF CopyInv, Unsent
  <2>3. CASE d = c
    <3>1. \/ rpc'[Retry(c)] = "none" /\ call'[c] = "ok" /\ \E e \in Executors : rpc[Batch(c, e)] = "ok"
          \/ rpc'[Retry(c)] = "none" /\ call'[c] = "cancelled"
          \/ rpc'[Retry(c)] # "none" /\ \A e \in Executors : rpc[Batch(c, e)] \in Replies \ {"ok"}
      BY <1>3, <2>2, <2>3, TaskFacts DEF ReturnSuccess, ReturnCancelled, RetryOnLocal, TypeOK
    <3>2. QED
      BY <2>1, <2>3, <3>1, ProxyConcludes
  <2>4. CASE d # c
    <3>1. \A t \in Tasks : t.call = c => rpc'[t] = rpc[t]
      BY <2>1, <2>4, TaskFacts
    <3>2. QED
      BY <2>1, <2>4, <3>1, Steady
  <2>5. QED
    BY <2>3, <2>4
<1>4. ASSUME NEW d \in Calls, ReturnRetryResult(d) PROVE G
  <2>1. UNCHANGED rpc /\ rpc[Retry(d)] # "none" /\ \A b \in Calls : b # d => call'[b] = call[b]
    BY <1>4 DEF ReturnRetryResult, TypeOK, Replies
  <2>2. CASE d = c
    <3>1. VerdictOn(c) = "exhausted" /\ VerdictOn(c)' = "exhausted"
      BY <2>1, <2>2, VerdictFacts
    <3>2. \A e \in Executors : ReplyOf(c, e)' = ReplyOf(c, e)
      BY <2>1 DEF ReplyOf
    <3>3. [e \in Executors |-> ReplyOf(c, e)]' = [e \in Executors |-> ReplyOf(c, e)]
      BY <3>2
    <3>4. QED
      BY <3>1, <3>3 DEF Gathering!vars
  <2>3. CASE d # c
    BY <2>1, <2>3, Steady
  <2>4. QED
    BY <2>2, <2>3
<1>5. ASSUME NEW t \in Tasks, SubmitAndExecute(t) PROVE G
  <2>1. /\ rpc[t] \in InFlight /\ UNCHANGED call
        /\ \E v \in {"rejected", "failed", "waiting"} : rpc' = [rpc EXCEPT ![t] = v]
    BY <1>5 DEF SubmitAndExecute, InFlight
  <2>2. rpc'[t] \in InFlight \cup Replies /\ \A s \in Tasks : s # t => rpc'[s] = rpc[s]
    BY <2>1 DEF TypeOK, InFlight, Replies
  <2>3. QED
    BY <2>1, <2>2, CallComesBack
<1>6. ASSUME NEW w \in Workers, TaskNotFound(w) \/ SendResult(w) PROVE G
  <2>1. pc[w] \in {"claiming", "reporting"} /\ alive[Host[w]] /\ UNCHANGED call
    BY <1>6 DEF TaskNotFound, SendResult, At
  <2>2. task[w] \in Tasks /\ rpc[task[w]] = "waiting"
    BY <2>1 DEF CopyInv, Taken
  <2>3. SendResult(w) => taskRes[w] \in Replies
    BY DEF SendResult, At, CopyInv, Taken
  <2>4. /\ rpc'[task[w]] \in InFlight \cup Replies
        /\ \A s \in Tasks : s # task[w] => rpc'[s] = rpc[s]
    BY <1>6, <2>2, <2>3 DEF TaskNotFound, SendResult, TypeOK, InFlight, Replies
  <2>5. rpc[task[w]] \in InFlight
    BY <2>2 DEF InFlight
  <2>6. QED
    BY <2>1, <2>2, <2>4, <2>5, CallComesBack
<1>7. ASSUME NEW w \in Workers,
             \/ TakeTask(w) \/ TryClaimTask(w) \/ ClaimAttemptFails(w) \/ FetchContent(w)
             \/ FetchContentFails(w) \/ EmptyContentIsFatal(w) \/ RunTask(w)
             \/ TryFinishTask(w) \/ UnclaimTask(w)
      PROVE  UNCHANGED <<call, rpc>>
  BY <1>7
  DEF TakeTask, TryClaimTask, ClaimAttemptFails, FetchContent, FetchContentFails,
      EmptyContentIsFatal, RunTask, TryFinishTask, UnclaimTask
<1>8. ASSUME \/ \E t \in Tasks : SubmitErrorIsFatal(t)
             \/ \E k \in Keys : ExpireRecord(k)
             \/ \E e \in Executors : Crash(e)
             \/ UNCHANGED vars
      PROVE  UNCHANGED <<call, rpc>>
  BY <1>8 DEF SubmitErrorIsFatal, ExpireRecord, Crash, vars
<1>9. QED
  BY <1>1, <1>2, <1>3, <1>4, <1>5, <1>6, <1>7, <1>8 DEF Next, ProxyReturns, WorkerStep

(* Each request of a project, whatever the others do and whatever fails,    *)
(* goes through a gathering as module Gather specifies it: no reply is ever *)
(* changed, and the local executor is asked again only when every executor  *)
(* has replied and none of them with success.                               *)
THEOREM DispatchImplementsGather == Spec => GatherSpec
<1>1. Init => CopyInv
  BY DispatchAssumption, TaskFacts DEF Init, CopyInv, Unsent, Queued, Taken
<1>2. ASSUME Init, NEW c \in Calls PROVE Gathering(c)!Init
  <2>1. \A e \in Executors : ReplyOf(c, e) = "none"
    BY <1>2, TaskFacts, ReplyFacts DEF Init, Replies
  <2>2. VerdictOn(c) = "open"
    BY <1>2, TaskFacts, VerdictFacts DEF Init
  <2>3. QED
    BY <2>1, <2>2 DEF Gathering!Init
<1>3. Init => \A c \in Calls : Gathering(c)!Init
  BY <1>2
<1>4. TypeOK /\ CopyInv /\ [Next]_vars => CopyInv'
  BY CopyStep
<1>5. TypeOK /\ CopyInv /\ [Next]_vars
        => [\A c \in Calls : [Gathering(c)!Next]_(Gathering(c)!vars)]_vars
  BY GatheringStep
<1>6. QED
  BY <1>1, <1>3, <1>4, <1>5, TypeCorrect, PTL DEF Spec, GatherSpec

-----------------------------------------------------------------------------
(* A store whose replies all arrive.  Storing a command may still fail, and *)
(* daemons may die, clients leave and records expire.                      *)
RepliesArrive == Faulty \subseteq {"store"}

(* The same, but that a worker may fail to read the command it has claimed. *)
ClaimsArrive == Faulty \subseteq {"store", "hget"}

(* A copy that was run is with the worker that ran it, or was replied to.   *)
Unrun ==
  \A t \in Tasks : exit[t] # "none" =>
    \/ rpc[t] \in Replies
    \/ \E w \in Workers : task[w] = t /\ pc[w] \in {"settling", "reporting"}

(* Copy t was failed, or is about to be, without having been run.           *)
Forsaken(t) ==
  /\ exit[t] = "none"
  /\ \/ rpc[t] = "failed"
     \/ \E w \in Workers : task[w] = t /\ pc[w] = "reporting" /\ taskRes[w] = "failed"

(* Where a claim comes from: a worker that holds the command, whether its   *)
(* daemon is up or died meanwhile, or one that gave it up after a failed    *)
(* HGet.  By itself this does not say that the claim ever goes away.        *)
Accounted ==
  \A k \in Keys : store[k] = "claimed" =>
    \/ \E w \in Workers : Holds(w, k)
    \/ "hget" \in Faulty /\ \E t \in Tasks : KeyOf(t) = k /\ Forsaken(t)

(* How the call for a copy moves in one step.                               *)
LEMMA RpcMoves ==
  ASSUME TypeOK, CopyInv, [Next]_vars, NEW t \in Tasks
  PROVE  \/ rpc'[t] = rpc[t]
         \/ ForwardAndExecute(t.call) /\ t # Retry(t.call)
         \/ RetryOnLocal(t.call) /\ t = Retry(t.call)
         \/ rpc[t] \in InFlight /\ rpc'[t] \in InFlight \cup Replies
<1> DEFINE P == \/ rpc'[t] = rpc[t]
                \/ ForwardAndExecute(t.call) /\ t # Retry(t.call)
                \/ RetryOnLocal(t.call) /\ t = Retry(t.call)
                \/ rpc[t] \in InFlight /\ rpc'[t] \in InFlight \cup Replies
<1>1. ASSUME NEW c \in Calls, ForwardAndExecute(c) PROVE P
  <2>1. CASE t.call = c /\ t # Retry(c)
    BY <1>1, <2>1
  <2>2. CASE t.call # c \/ t = Retry(c)
    BY <1>1, <2>2, TaskFacts DEF ForwardAndExecute
  <2>3. QED
    BY <2>1, <2>2
<1>2. ASSUME NEW c \in Calls, RetryOnLocal(c) PROVE P
  <2>1. CASE t = Retry(c)
    BY <1>2, <2>1, TaskFacts
  <2>2. CASE t # Retry(c)
    BY <1>2, <2>2 DEF RetryOnLocal, TypeOK
  <2>3. QED
    BY <2>1, <2>2
<1>3. ASSUME NEW s \in Tasks, SubmitAndExecute(s) PROVE P
  <2>1. rpc[s] = "sent" /\ \E v \in {"rejected", "failed", "waiting"} : rpc' = [rpc EXCEPT ![s] = v]
    BY <1>3 DEF SubmitAndExecute
  <2>2. QED
    BY <2>1 DEF TypeOK, InFlight, Replies
<1>4. ASSUME NEW w \in Workers, TaskNotFound(w) \/ SendResult(w) PROVE P
  <2>1. task[w] \in Tasks /\ rpc[task[w]] = "waiting"
    BY <1>4 DEF TaskNotFound, SendResult, At, CopyInv, Taken
  <2>2. SendResult(w) => taskRes[w] \in Replies
    BY DEF SendResult, At, CopyInv, Taken
  <2>3. QED
    BY <1>4, <2>1, <2>2 DEF TaskNotFound, SendResult, TypeOK, InFlight, Replies
<1>5. ASSUME \/ \E c \in Calls : StoreCommandFails(c) \/ ReturnSuccess(c) \/ ReturnCancelled(c)
                                 \/ ReturnRetryResult(c)
             \/ \E s \in Tasks : SubmitErrorIsFatal(s)
             \/ \E w \in Workers :
                  \/ TakeTask(w) \/ TryClaimTask(w) \/ ClaimAttemptFails(w) \/ FetchContent(w)
                  \/ FetchContentFails(w) \/ EmptyContentIsFatal(w) \/ RunTask(w)
                  \/ TryFinishTask(w) \/ UnclaimTask(w)
             \/ \E k \in Keys : ExpireRecord(k)
             \/ \E e \in Executors : Crash(e)
             \/ UNCHANGED vars
      PROVE  rpc' = rpc
  BY <1>5
  DEF StoreCommandFails, ReturnSuccess, ReturnCancelled, ReturnRetryResult, SubmitErrorIsFatal,
      TakeTask, TryClaimTask, ClaimAttemptFails, FetchContent, FetchContentFails,
      EmptyContentIsFatal, RunTask, TryFinishTask, UnclaimTask, ExpireRecord, Crash, vars
<1>6. QED
  BY <1>1, <1>2, <1>3, <1>4, <1>5 DEF Next, ProxyReturns, WorkerStep

(* A reply is final.                                                        *)
LEMMA RepliesStay ==
  ASSUME TypeOK, CopyInv, [Next]_vars, NEW t \in Tasks, rpc[t] \in Replies
  PROVE  rpc'[t] = rpc[t]
<1>1. t.call \in Calls /\ rpc[t] # "none" /\ rpc[t] \notin InFlight
  BY TaskFacts DEF Replies, InFlight
<1>2. ~ForwardAndExecute(t.call)
  BY <1>1 DEF ForwardAndExecute, MayCall, CopyInv, Unsent
<1>3. ~(RetryOnLocal(t.call) /\ t = Retry(t.call))
  BY <1>1 DEF RetryOnLocal, CopyInv, Unsent
<1>4. QED
  BY <1>1, <1>2, <1>3, RpcMoves

(* Only RunTask records an exit code.                                       *)
LEMMA OnlyRunsExit ==
  ASSUME [Next]_vars, ~\E w \in Workers : RunTask(w)
  PROVE  exit' = exit
BY DEF Next, ProxyReturns, WorkerStep, vars, workerVars,
       ForwardAndExecute, StoreCommandFails, ReturnSuccess, ReturnCancelled, RetryOnLocal,
       ReturnRetryResult, SubmitAndExecute, SubmitErrorIsFatal, TakeTask, TryClaimTask,
       ClaimAttemptFails, TaskNotFound, FetchContent, FetchContentFails, EmptyContentIsFatal,
       TryFinishTask, UnclaimTask, SendResult, ExpireRecord, Crash

(* A worker that is past the run, or has a result, keeps both until it      *)
(* sends the result.                                                        *)
LEMMA ResultIsKept ==
  ASSUME TypeOK, [Next]_vars, NEW w \in Workers, pc[w] \in {"settling", "reporting"}
  PROVE  \/ SendResult(w)
         \/ /\ task'[w] = task[w]
            /\ pc'[w] \in {"settling", "reporting"}
            /\ pc[w] = "reporting" => pc'[w] = "reporting" /\ taskRes'[w] = taskRes[w]
<1> DEFINE P == /\ task'[w] = task[w]
                /\ pc'[w] \in {"settling", "reporting"}
                /\ pc[w] = "reporting" => pc'[w] = "reporting" /\ taskRes'[w] = taskRes[w]
<1>1. ASSUME NEW x \in Workers, x # w, WorkerStep(x) PROVE P
  <2>1. pc'[w] = pc[w] /\ task'[w] = task[w] /\ taskRes'[w] = taskRes[w]
    BY <1>1
    DEF WorkerStep, TakeTask, TryClaimTask, ClaimAttemptFails, TaskNotFound, FetchContent,
        FetchContentFails, EmptyContentIsFatal, RunTask, TryFinishTask, UnclaimTask, SendResult,
        Conclude, Goto, workerVars, TypeOK
  <2>2. QED
    BY <2>1
<1>2. CASE TryFinishTask(w) \/ UnclaimTask(w)
  BY <1>2 DEF TryFinishTask, UnclaimTask, At, Conclude, Goto, TypeOK
<1>3. ~(TakeTask(w) \/ TryClaimTask(w) \/ ClaimAttemptFails(w) \/ TaskNotFound(w)
        \/ FetchContent(w) \/ FetchContentFails(w) \/ EmptyContentIsFatal(w) \/ RunTask(w))
  BY DEF TakeTask, TryClaimTask, ClaimAttemptFails, TaskNotFound, FetchContent,
         FetchContentFails, EmptyContentIsFatal, RunTask, At
<1>4. ASSUME \/ \E c \in Calls : ForwardAndExecute(c) \/ StoreCommandFails(c) \/ ReturnSuccess(c)
                                 \/ ReturnCancelled(c) \/ RetryOnLocal(c) \/ ReturnRetryResult(c)
             \/ \E t \in Tasks : SubmitAndExecute(t) \/ SubmitErrorIsFatal(t)
             \/ \E k \in Keys : ExpireRecord(k)
             \/ \E e \in Executors : Crash(e)
             \/ UNCHANGED vars
      PROVE  UNCHANGED <<pc, task, taskRes>>
  BY <1>4
  DEF ForwardAndExecute, StoreCommandFails, ReturnSuccess, ReturnCancelled, RetryOnLocal,
      ReturnRetryResult, SubmitAndExecute, SubmitErrorIsFatal, ExpireRecord, Crash, workerVars, vars
<1>5. QED
  BY <1>1, <1>2, <1>3, <1>4 DEF Next, ProxyReturns, WorkerStep

LEMMA UnrunStep ==
  ASSUME TypeOK, CopyInv, Unrun, [Next]_vars
  PROVE  Unrun'
<1> SUFFICES ASSUME NEW t \in Tasks, exit'[t] # "none"
             PROVE  \/ rpc'[t] \in Replies
                    \/ \E w \in Workers : task'[w] = t /\ pc'[w] \in {"settling", "reporting"}
  BY DEF Unrun
<1>1. ASSUME NEW w \in Workers, RunTask(w), task[w] = t
      PROVE  task'[w] = t /\ pc'[w] = "settling"
  BY <1>1 DEF RunTask, Goto, TypeOK
<1>2. CASE \A w \in Workers : RunTask(w) => task[w] # t
  <2>1. exit'[t] = exit[t]
    BY <1>2, OnlyRunsExit DEF RunTask, TypeOK
  <2>2. CASE rpc[t] \in Replies
    BY <2>2, RepliesStay
  <2>3. ASSUME NEW w \in Workers, task[w] = t, pc[w] \in {"settling", "reporting"}
        PROVE  \/ rpc'[t] \in Replies
               \/ task'[w] = t /\ pc'[w] \in {"settling", "reporting"}
    <3>1. CASE SendResult(w)
      BY <2>3, <3>1 DEF SendResult, At, CopyInv, Taken, TypeOK
    <3>2. QED
      BY <2>3, <3>1, ResultIsKept
  <2>4. QED
    BY <2>1, <2>2, <2>3 DEF Unrun
<1>3. QED
  BY <1>1, <1>2

(* A forsaken copy stays one: it is not run after all.                      *)
LEMMA ForsakenStays ==
  ASSUME TypeOK, CopyInv, [Next]_vars, NEW t \in Tasks, Forsaken(t)
  PROVE  Forsaken(t)'
<1>1. \A w \in Workers : RunTask(w) => task[w] # t
  BY DEF RunTask, At, Forsaken, CopyInv, Taken
<1>2. exit'[t] = "none"
  BY <1>1, OnlyRunsExit DEF RunTask, Forsaken, TypeOK
<1>3. CASE rpc[t] = "failed"
  BY <1>2, <1>3, RepliesStay DEF Forsaken, Replies
<1>4. ASSUME NEW w \in Workers, task[w] = t, pc[w] = "reporting", taskRes[w] = "failed"
      PROVE  Forsaken(t)'
  <2>1. CASE SendResult(w)
    BY <1>2, <1>4, <2>1 DEF SendResult, Forsaken, TypeOK
  <2>2. QED
    BY <1>2, <1>4, <2>1, ResultIsKept DEF Forsaken
<1>5. QED
  BY <1>3, <1>4 DEF Forsaken

LEMMA AccountedStep ==
  ASSUME ClaimsArrive, TypeOK, CopyInv, Unrun, Accounted, [Next]_vars
  PROVE  Accounted'
<1> DEFINE Kept(k) == "hget" \in Faulty /\ \E t \in Tasks : KeyOf(t) = k /\ Forsaken(t)
           GivenUpNow(k) == "hget" \in Faulty /\ \E t \in Tasks : KeyOf(t) = k /\ Forsaken(t)'
<1> SUFFICES ASSUME NEW k \in Keys, store'[k] = "claimed", ~Kept(k)
             PROVE  (\E x \in Workers : Holds(x, k)') \/ GivenUpNow(k)
  BY ForsakenStays DEF Accounted, KeyOf
<1>0. store[k] = "claimed" => \E x \in Workers : Holds(x, k)
  BY DEF Accounted
<1>a. ASSUME store[k] = "claimed", UNCHANGED <<pc, task>> PROVE \E x \in Workers : Holds(x, k)'
  BY <1>0, <1>a DEF Holds
<1>b. ASSUME store[k] = "claimed", NEW w \in Workers, ~Holds(w, k) \/ Holds(w, k)',
             \A x \in Workers \ {w} : pc'[x] = pc[x] /\ task'[x] = task[x]
      PROVE  \E x \in Workers : Holds(x, k)'
  <2>1. PICK x \in Workers : Holds(x, k)
    BY <1>0, <1>b
  <2>2. QED
    BY <1>b, <2>1 DEF Holds
<1>1. ASSUME NEW c \in Calls, ForwardAndExecute(c) \/ StoreCommandFails(c)
      PROVE  \E x \in Workers : Holds(x, k)'
  <2>1. UNCHANGED <<pc, task>> /\ store[k] = "claimed"
    BY <1>1 DEF ForwardAndExecute, StoreCommandFails, HSetWithTTL, workerVars, TypeOK, StoreTypeOK
  <2>2. QED
    BY <1>a, <2>1
<1>2. ASSUME UNCHANGED <<store, pc, task>> PROVE \E x \in Workers : Holds(x, k)'
  BY <1>2, <1>a
<1>3. ASSUME NEW w \in Workers, TakeTask(w) \/ SendResult(w) PROVE \E x \in Workers : Holds(x, k)'
  <2>1. /\ store' = store /\ pc[w] \in {"idle", "reporting"}
        /\ \A x \in Workers \ {w} : pc'[x] = pc[x] /\ task'[x] = task[x]
    BY <1>3 DEF TakeTask, SendResult, At, Goto, TypeOK
  <2>2. QED
    BY <1>b, <2>1 DEF Holds
<1>4. ASSUME NEW w \in Workers, TryClaimTask(w) PROVE \E x \in Workers : Holds(x, k)'
  <2>1. /\ pc[w] = "claiming" /\ task' = task
        /\ \A x \in Workers \ {w} : pc'[x] = pc[x]
    BY <1>4 DEF TryClaimTask, At, Goto, Conclude, TypeOK
  <2>2. CASE store[k] = "claimed"
    BY <1>b, <2>1, <2>2 DEF Holds
  <2>3. CASE store[k] # "claimed"
    <3>1. k = KeyOf(task[w]) /\ ClaimCode(k, "unclaimed") = 0
      BY <1>4, <2>3 DEF TryClaimTask, ClaimCmd, TypeOK, StoreTypeOK
    <3>2. pc'[w] = "fetching"
      BY <1>4, <3>1 DEF TryClaimTask, Goto, TypeOK
    <3>3. QED
      BY <2>1, <3>1, <3>2 DEF Holds, KeyOf
  <2>4. QED
    BY <2>2, <2>3
<1>5. ASSUME NEW w \in Workers, ClaimAttemptFails(w) PROVE FALSE
  BY <1>5 DEF ClaimAttemptFails, ClaimsArrive
<1>6. ASSUME NEW w \in Workers, FetchContent(w) \/ RunTask(w) PROVE \E x \in Workers : Holds(x, k)'
  <2>1. /\ store' = store /\ task' = task
        /\ pc[w] \in {"fetching", "running"} /\ pc'[w] \in {"running", "settling"}
        /\ \A x \in Workers \ {w} : pc'[x] = pc[x]
    BY <1>6 DEF FetchContent, RunTask, At, Goto, TypeOK
  <2>2. QED
    BY <1>b, <2>1 DEF Holds, KeyOf
<1>7. ASSUME NEW w \in Workers, FetchContentFails(w)
      PROVE  (\E x \in Workers : Holds(x, k)') \/ GivenUpNow(k)
  <2>1. /\ store' = store /\ task' = task /\ exit' = exit /\ pc[w] = "fetching"
        /\ \A x \in Workers \ {w} : pc'[x] = pc[x]
        /\ pc'[w] = "reporting" /\ taskRes'[w] = "failed"
        /\ "hget" \in Faulty \/ store[KeyOf(task[w])] = Absent
    BY <1>7 DEF FetchContentFails, At, Goto, Conclude, TypeOK
  <2>2. CASE ~Holds(w, k)
    BY <1>b, <2>1, <2>2
  <2>3. CASE Holds(w, k)
    <3>1. KeyOf(task[w]) = k /\ "hget" \in Faulty
      BY <2>1, <2>3 DEF Holds, Absent
    <3>2. task[w] \in Tasks /\ rpc[task[w]] = "waiting"
      BY <2>1 DEF CopyInv, Taken
    <3>3. ASSUME NEW x \in Workers, task[x] = task[w] PROVE pc[x] \notin {"settling", "reporting"}
      BY <2>1, <3>3 DEF CopyInv, Taken
    <3>4. exit[task[w]] = "none"
      BY <3>2, <3>3 DEF Unrun, Replies
    <3>5. Forsaken(task[w])'
      BY <2>1, <3>4 DEF Forsaken
    <3>6. task'[w] = task[w]
      BY <2>1
    <3>7. QED
      BY <3>1, <3>2, <3>5, <3>6
  <2>4. QED
    BY <2>2, <2>3
<1>8. ASSUME NEW w \in Workers, TryFinishTask(w) \/ UnclaimTask(w)
      PROVE  \E x \in Workers : Holds(x, k)'
  <2>1. PICK new \in {"done", "unclaimed"} : ClaimCmd(KeyOf(task[w]), "claimed", new)
    BY <1>8 DEF TryFinishTask, UnclaimTask, Settle, ClaimsArrive
  <2>2. store[k] = "claimed" /\ KeyOf(task[w]) # k
    BY <2>1 DEF ClaimCmd, ClaimCode, Absent, TypeOK, StoreTypeOK
  <2>3. task' = task /\ \A x \in Workers \ {w} : pc'[x] = pc[x]
    BY <1>8 DEF TryFinishTask, UnclaimTask, Goto, Conclude, TypeOK
  <2>4. QED
    BY <1>b, <2>2, <2>3 DEF Holds
<1>9. ASSUME NEW j \in Keys, ExpireRecord(j) PROVE \E x \in Workers : Holds(x, k)'
  <2>1. UNCHANGED <<pc, task>> /\ store[k] = "claimed"
    BY <1>9 DEF ExpireRecord, Expire, workerVars, TypeOK, StoreTypeOK, Absent
  <2>2. QED
    BY <1>a, <2>1
<1>10. ASSUME \/ \E c \in Calls : ReturnSuccess(c) \/ ReturnCancelled(c)
                                  \/ RetryOnLocal(c) \/ ReturnRetryResult(c)
              \/ \E t \in Tasks : SubmitAndExecute(t) \/ SubmitErrorIsFatal(t)
              \/ \E w \in Workers : TaskNotFound(w) \/ EmptyContentIsFatal(w)
              \/ \E e \in Executors : Crash(e)
              \/ UNCHANGED vars
       PROVE  UNCHANGED <<store, pc, task>>
  BY <1>10
  DEF ReturnSuccess, ReturnCancelled, RetryOnLocal, ReturnRetryResult, SubmitAndExecute,
      SubmitErrorIsFatal, TaskNotFound, EmptyContentIsFatal, Crash, vars, workerVars
<1>11. QED
  BY <1>1, <1>2, <1>3, <1>4, <1>5, <1>6, <1>7, <1>8, <1>9, <1>10 DEF Next, ProxyReturns, WorkerStep

-----------------------------------------------------------------------------
(* What the last resort rests on, besides the replies of the store: records *)
(* that last, a runner on the local executor, and a channel with a place    *)
(* for each request.                                                        *)
Roomy == IsFiniteSet(Calls) /\ QueueSize >= Cardinality(Calls)

Benign ==
  /\ RepliesArrive
  /\ Expiring = {}
  /\ Local \in Prepared
  /\ Roomy

(* The retry is sent when all copies of the batch have been refused; the    *)
(* record of a command that was sent stays, and says done only of a command *)
(* that was run to success.                                                *)
Retried ==
  \A c \in Calls : rpc[Retry(c)] # "none" => \A e \in Executors : rpc[Batch(c, e)] \in Refused

Stored == \A t \in Tasks : rpc[t] # "none" => store[KeyOf(t)] # Absent

Finished == \A k \in Keys : store[k] = "done" => k \in Succeeded

(* A retry is refused only when it was run and failed.                      *)
Tried ==
  \A c \in Calls :
    /\ rpc[Retry(c)] \in Refused => exit[Retry(c)] = "nonzero"
    /\ \A w \in Workers :
         pc[w] = "reporting" /\ task[w] = Retry(c) /\ taskRes[w] \in Refused
           => exit[Retry(c)] = "nonzero"

(* The proxy waits for a retry that is on its way, and of the requests for  *)
(* one command one at most is neither to come nor failed.                   *)
Awaited == \A c \in Calls : rpc[Retry(c)] \in InFlight => call[c] = "retrying"

Bygone == {"idle", "all_failed", "kv_failed"}

Alone ==
  \A c, d \in Calls :
    c # d /\ TaskKey[c] = TaskKey[d] => call[c] \in Bygone \/ call[d] \in Bygone

RetryInv == Retried /\ Stored /\ Finished /\ Tried /\ Awaited /\ Alone

(* A copy on its way finds a place in the channel: the copies there belong  *)
(* to other requests, each to one of its own.                               *)
LEMMA Room ==
  ASSUME Roomy, TypeOK, CopyInv, Retried, NEW t \in Tasks, rpc[t] = "sent"
  PROVE  Len(queue[t.at]) < QueueSize
<1> DEFINE q == queue[t.at]
           n == Len(q)
           S == Calls \ {t.call}
           f == [i \in 1..n |-> q[i].call]
<1>1. t.call \in Calls /\ t.at \in Executors /\ n \in Nat /\ \A i \in 1..n : q[i] \in Tasks
  BY TaskFacts DEF TypeOK
<1>2. \A s, u \in Tasks : s.call = u.call /\ s.at = u.at /\ rpc[s] \in InFlight /\ rpc[u] \in InFlight
                         => s = u
  <2> SUFFICES ASSUME NEW s \in Tasks, NEW u \in Tasks, s.call = u.call, s.at = u.at,
                      rpc[s] \in InFlight, rpc[u] \in InFlight, s # u
               PROVE  FALSE
    OBVIOUS
  <2>1. \/ s = Retry(s.call) /\ \E e \in Executors : u = Batch(s.call, e)
        \/ u = Retry(s.call) /\ \E e \in Executors : s = Batch(s.call, e)
    BY TaskFacts
  <2>2. QED
    BY <2>1, TaskFacts DEF Retried, InFlight, Refused
<1>3. \A i \in 1..n : q[i].at = t.at /\ rpc[q[i]] = "waiting"
  BY <1>1 DEF CopyInv, Queued
<1>4. \A i \in 1..n : f[i] \in S
  BY <1>1, <1>2, <1>3, TaskFacts DEF InFlight
<1>5. \A i, j \in 1..n : f[i] = f[j] => i = j
  <2>1. \A i, j \in 1..n : q[i].call = q[j].call => q[i] = q[j]
    BY <1>1, <1>2, <1>3 DEF InFlight
  <2>2. QED
    BY <1>1, <2>1 DEF CopyInv, Queued
<1>6. f \in Injection(1..n, S)
  BY <1>4, <1>5 DEF Injection, IsInjective
<1>7. IsFiniteSet(S) /\ Cardinality(S) = Cardinality(Calls) - 1
  BY <1>1, FS_RemoveElement DEF Roomy
<1>8. Cardinality(1..n) <= Cardinality(S)
  BY <1>6, <1>7, FS_Injection
<1>9. Cardinality(1..n) = n
  BY <1>1, FS_Interval
<1>10. Cardinality(Calls) \in Nat
  BY FS_CardinalityType DEF Roomy
<1>11. QED
  BY <1>1, <1>7, <1>8, <1>9, <1>10, DispatchAssumption DEF Roomy

LEMMA RetriedStep ==
  ASSUME TypeOK, CopyInv, Retried, [Next]_vars
  PROVE  Retried'
<1> SUFFICES ASSUME NEW c \in Calls, rpc'[Retry(c)] # "none", NEW e \in Executors
             PROVE  rpc'[Batch(c, e)] \in Refused
  BY DEF Retried
<1>1. rpc[Batch(c, e)] \in Refused
  <2>1. CASE rpc[Retry(c)] # "none"
    BY <2>1 DEF Retried
  <2>2. CASE rpc[Retry(c)] = "none"
    <3>1. RetryOnLocal(c)
      BY <2>2, RpcMoves, TaskFacts DEF InFlight
    <3>2. QED
      BY <3>1 DEF RetryOnLocal, Replies, Refused
  <2>3. QED
    BY <2>1, <2>2
<1>2. ~ForwardAndExecute(c)
  BY <1>1, TaskFacts DEF ForwardAndExecute, MayCall, CopyInv, Unsent, Refused
<1>3. QED
  BY <1>1, <1>2, RpcMoves, TaskFacts DEF InFlight, Refused

(* How a request moves in one step.                                         *)
LEMMA CallMoves ==
  ASSUME TypeOK, [Next]_vars, NEW c \in Calls
  PROVE  \/ call'[c] = call[c]
         \/ Stores(c)
         \/ call[c] = "gathering" /\ (call'[c] \in {"ok", "cancelled"} \/ RetryOnLocal(c))
         \/ call[c] = "retrying" /\ rpc[Retry(c)] \in Replies /\ call'[c] \in {"ok", "all_failed"}
<1> DEFINE P == \/ call'[c] = call[c]
                \/ Stores(c)
                \/ call[c] = "gathering" /\ (call'[c] \in {"ok", "cancelled"} \/ RetryOnLocal(c))
                \/ call[c] = "retrying" /\ rpc[Retry(c)] \in Replies
                   /\ call'[c] \in {"ok", "all_failed"}
<1>1. ASSUME NEW d \in Calls, ForwardAndExecute(d) \/ StoreCommandFails(d) PROVE P
  BY <1>1 DEF Stores, ForwardAndExecute, StoreCommandFails, TypeOK
<1>2. ASSUME NEW d \in Calls, ReturnSuccess(d) \/ ReturnCancelled(d) \/ RetryOnLocal(d) PROVE P
  BY <1>2 DEF ReturnSuccess, ReturnCancelled, RetryOnLocal, TypeOK
<1>3. ASSUME NEW d \in Calls, ReturnRetryResult(d) PROVE P
  BY <1>3 DEF ReturnRetryResult, TypeOK
<1>4. ASSUME \/ \E t \in Tasks : SubmitAndExecute(t) \/ SubmitErrorIsFatal(t)
             \/ \E w \in Workers : WorkerStep(w)
             \/ \E k \in Keys : ExpireRecord(k)
             \/ \E e \in Executors : Crash(e)
             \/ UNCHANGED vars
      PROVE  call' = call
  BY <1>4
  DEF SubmitAndExecute, SubmitErrorIsFatal, WorkerStep, TakeTask, TryClaimTask, ClaimAttemptFails,
      TaskNotFound, FetchContent, FetchContentFails, EmptyContentIsFatal, RunTask, TryFinishTask,
      UnclaimTask, SendResult, ExpireRecord, Crash, vars
<1>5. QED
  BY <1>1, <1>2, <1>3, <1>4 DEF Next, ProxyReturns

LEMMA AwaitedStep ==
  ASSUME TypeOK, CopyInv, Awaited, [Next]_vars
  PROVE  Awaited'
<1> SUFFICES ASSUME NEW c \in Calls, rpc'[Retry(c)] \in InFlight PROVE call'[c] = "retrying"
  BY DEF Awaited, InFlight
<1>1. RetryOnLocal(c) => call'[c] = "retrying"
  BY DEF RetryOnLocal, TypeOK
<1>2. CASE rpc[Retry(c)] \in InFlight
  <2>1. call[c] = "retrying" /\ rpc[Retry(c)] \notin Replies
    BY <1>2 DEF Awaited, InFlight, Replies
  <2>2. ~Stores(c)
    BY <2>1, StoringIsAStep
  <2>3. QED
    BY <2>1, <2>2, CallMoves
<1>3. QED
  BY <1>1, <1>2, RpcMoves, TaskFacts

LEMMA AloneStep ==
  ASSUME TypeOK, Alone, [RepeatsFailures]_vars, [Next]_vars
  PROVE  Alone'
<1> SUFFICES ASSUME NEW c \in Calls, NEW d \in Calls, c # d, TaskKey[c] = TaskKey[d]
             PROVE  call'[c] \in Bygone \/ call'[d] \in Bygone
  BY DEF Alone
<1>1. ASSUME NEW a \in Calls, NEW b \in Calls, a # b, TaskKey[a] = TaskKey[b], Stores(a)
      PROVE  call'[b] \in Bygone
  <2>1. call[b] \in Bygone
    BY <1>1, StoringIsAStep DEF RepeatsFailures, Bygone
  <2>2. call'[b] = call[b]
    BY <1>1 DEF Stores, ForwardAndExecute, StoreCommandFails, TypeOK
  <2>3. QED
    BY <2>1, <2>2
<1>2. ASSUME NEW a \in Calls, ~Stores(a), call[a] \in Bygone PROVE call'[a] \in Bygone
  BY <1>2, CallMoves DEF Bygone
<1>3. CASE Stores(c) \/ Stores(d)
  BY <1>1, <1>3
<1>4. CASE ~Stores(c) /\ ~Stores(d)
  BY <1>2, <1>4 DEF Alone
<1>5. QED
  BY <1>3, <1>4

(* No record goes away, and only a worker that saw its run succeed writes   *)
(* done.                                                                   *)
LEMMA RecordMoves ==
  ASSUME RepliesArrive, Expiring = {}, TypeOK, [Next]_vars, NEW k \in Keys
  PROVE  /\ store'[k] = Absent => store[k] = Absent
         /\ store'[k] = "done" =>
              \/ store[k] = "done"
              \/ \E w \in Workers : TryFinishTask(w) /\ KeyOf(task[w]) = k
<1> DEFINE P == /\ store'[k] = Absent => store[k] = Absent
                /\ store'[k] = "done" =>
                     \/ store[k] = "done"
                     \/ \E w \in Workers : TryFinishTask(w) /\ KeyOf(task[w]) = k
<1>1. ASSUME store' = store PROVE P
  BY <1>1
<1>2. ASSUME NEW c \in Calls, ForwardAndExecute(c) \/ StoreCommandFails(c) PROVE P
  BY <1>2 DEF ForwardAndExecute, StoreCommandFails, HSetWithTTL, TypeOK, StoreTypeOK, Absent
<1>3. ASSUME NEW w \in Workers, TryClaimTask(w) \/ UnclaimTask(w) PROVE P
  <2>1. \/ ClaimCmd(KeyOf(task[w]), "unclaimed", "claimed")
        \/ ClaimCmd(KeyOf(task[w]), "claimed", "unclaimed")
    BY <1>3 DEF TryClaimTask, UnclaimTask, Settle, RepliesArrive
  <2>2. QED
    BY <2>1 DEF ClaimCmd, TypeOK, StoreTypeOK, Absent
<1>4. ASSUME NEW w \in Workers, TryFinishTask(w) PROVE P
  <2>1. ClaimCmd(KeyOf(task[w]), "claimed", "done")
    BY <1>4 DEF TryFinishTask, Settle, RepliesArrive
  <2>2. QED
    BY <1>4, <2>1 DEF ClaimCmd, TypeOK, StoreTypeOK, Absent
<1>5. ASSUME NEW w \in Workers, ClaimAttemptFails(w) PROVE FALSE
  BY <1>5 DEF ClaimAttemptFails, RepliesArrive
<1>6. ASSUME NEW j \in Keys, ExpireRecord(j) PROVE FALSE
  BY <1>6 DEF ExpireRecord, Expire
<1>7. ASSUME \/ \E c \in Calls : ReturnSuccess(c) \/ ReturnCancelled(c)
                                 \/ RetryOnLocal(c) \/ ReturnRetryResult(c)
             \/ \E t \in Tasks : SubmitAndExecute(t) \/ SubmitErrorIsFatal(t)
             \/ \E w \in Workers :
                  \/ TakeTask(w) \/ TaskNotFound(w) \/ FetchContent(w) \/ FetchContentFails(w)
                  \/ EmptyContentIsFatal(w) \/ RunTask(w) \/ SendResult(w)
             \/ \E e \in Executors : Crash(e)
             \/ UNCHANGED vars
      PROVE  store' = store
  BY <1>7
  DEF ReturnSuccess, ReturnCancelled, RetryOnLocal, ReturnRetryResult, SubmitAndExecute,
      SubmitErrorIsFatal, TakeTask, TaskNotFound, FetchContent, FetchContentFails,
      EmptyContentIsFatal, RunTask, SendResult, Crash, vars
<1>8. QED
  BY <1>1, <1>2, <1>3, <1>4, <1>5, <1>6, <1>7 DEF Next, ProxyReturns, WorkerStep

LEMMA StoredStep ==
  ASSUME RepliesArrive, Expiring = {}, TypeOK, CopyInv, Stored, [Next]_vars
  PROVE  Stored'
<1> SUFFICES ASSUME NEW t \in Tasks, rpc'[t] # "none" PROVE store'[KeyOf(t)] # Absent
  BY DEF Stored, KeyOf
<1>1. KeyOf(t) \in Keys /\ t.call \in Calls
  BY TaskFacts
<1>2. CASE store[KeyOf(t)] # Absent
  BY <1>1, <1>2, RecordMoves
<1>3. CASE ForwardAndExecute(t.call)
  BY <1>1, <1>3 DEF ForwardAndExecute, HSetWithTTL, KeyOf, TypeOK, StoreTypeOK, Absent
<1>4. CASE RetryOnLocal(t.call)
  <2>1. rpc[Batch(t.call, Local)] # "none"
    BY <1>4, DispatchAssumption DEF RetryOnLocal, Replies
  <2>2. store[KeyOf(Batch(t.call, Local))] # Absent
    BY <1>1, <2>1, TaskFacts, DispatchAssumption DEF Stored
  <2>3. KeyOf(Batch(t.call, Local)) = KeyOf(t)
    BY <1>1, TaskFacts, DispatchAssumption DEF KeyOf
  <2>4. QED
    BY <1>2, <2>2, <2>3
<1>5. CASE rpc[t] # "none"
  BY <1>2, <1>5 DEF Stored
<1>6. QED
  BY <1>3, <1>4, <1>5, RpcMoves DEF InFlight

(* A copy that was run keeps its exit code: it is not run again.            *)
LEMMA ExitsStay ==
  ASSUME TypeOK, CopyInv, ClaimInv, [Next]_vars, NEW t \in Tasks
  PROVE  \/ exit'[t] = exit[t]
         \/ /\ exit[t] # "zero"
            /\ \E w \in Workers : RunTask(w) /\ task[w] = t /\ rpc[t] = "waiting"
<1>1. ASSUME NEW w \in Workers, RunTask(w)
      PROVE  \/ exit'[t] = exit[t]
             \/ exit[t] # "zero" /\ task[w] = t /\ rpc[t] = "waiting"
  <2>1. pc[w] = "running" /\ task[w] \in Tasks /\ rpc[task[w]] = "waiting"
    BY <1>1 DEF RunTask, At, CopyInv, Taken
  <2>2. CASE task[w] # t
    BY <1>1, <2>2 DEF RunTask, TypeOK
  <2>3. ASSUME task[w] = t, exit[t] = "zero" PROVE FALSE
    <3>1. KeyOf(t) \in Succeeded
      BY <2>3, TaskFacts DEF Succeeded
    <3>2. Holds(w, KeyOf(t))
      BY <2>1, <2>3 DEF Holds
    <3>3. QED
      BY <2>1, <3>1, <3>2 DEF ClaimInv, Settled
  <2>4. QED
    BY <2>1, <2>2, <2>3
<1>2. (~\E w \in Workers : RunTask(w)) => exit' = exit
  BY OnlyRunsExit
<1>3. QED
  BY <1>1, <1>2

LEMMA FinishedStep ==
  ASSUME RepliesArrive, Expiring = {}, TypeOK, CopyInv, ClaimInv, Finished, [Next]_vars
  PROVE  Finished'
<1> SUFFICES ASSUME NEW k \in Keys, store'[k] = "done" PROVE k \in Succeeded'
  BY DEF Finished
<1>1. \A t \in Tasks : exit[t] = "zero" => exit'[t] = "zero"
  BY ExitsStay
<1>2. CASE store[k] = "done"
  BY <1>1, <1>2 DEF Finished, Succeeded, KeyOf
<1>3. ASSUME NEW w \in Workers, TryFinishTask(w), KeyOf(task[w]) = k PROVE k \in Succeeded'
  <2>1. task[w] \in Tasks /\ exit'[task[w]] = "zero"
    BY <1>3 DEF TryFinishTask, At, CopyInv, Taken
  <2>2. QED
    BY <1>3, <2>1 DEF Succeeded, KeyOf
<1>4. QED
  BY <1>2, <1>3, RecordMoves

(* The worker that claims for a retry finds the command free: nobody else   *)
(* is at it, and nobody has run it to success.                              *)
LEMMA RetryIsClaimed ==
  ASSUME RepliesArrive, TypeOK, CopyInv, OutcomeInv, Accounted, RetryInv,
         NEW c \in Calls, NEW w \in Workers, At(w, "claiming"), task[w] = Retry(c)
  PROVE  store[KeyOf(task[w])] = "unclaimed"
<1> DEFINE k == KeyOf(Retry(c))
<1>1. Retry(c) \in Tasks /\ rpc[Retry(c)] = "waiting" /\ k \in Keys
  BY TaskFacts DEF At, CopyInv, Taken
<1>2. \A e \in Executors : rpc[Batch(c, e)] \in Refused
  BY <1>1 DEF RetryInv, Retried
<1>3. ASSUME NEW t \in Tasks, KeyOf(t) = k, t # Retry(c)
      PROVE  rpc[t] \in {"none"} \cup Refused
  <2>1. CASE t.call = c
    BY <1>2, <1>3, <2>1, TaskFacts
  <2>2. CASE t.call # c
    <3>1. call[c] \notin Bygone
      BY <1>1 DEF RetryInv, Awaited, InFlight, Bygone
    <3>2. t.call \in Calls /\ call[t.call] \in Bygone
      BY <1>3, <2>2, <3>1, TaskFacts DEF RetryInv, Alone, KeyOf
    <3>3. CASE call[t.call] = "all_failed"
      BY <3>2, <3>3, TaskFacts DEF OutcomeInv, Answered
    <3>4. CASE call[t.call] \in {"idle", "kv_failed"}
      BY <3>4 DEF CopyInv, Unsent
    <3>5. QED
      BY <3>2, <3>3, <3>4 DEF Bygone
  <2>3. QED
    BY <2>1, <2>2
<1>4. \A x \in Workers \ {w} : pc[x] # "idle" => task[x] # Retry(c)
  BY DEF At, CopyInv, Taken
<1>5. store[k] # Absent
  BY <1>1 DEF RetryInv, Stored
<1>6. ASSUME store[k] = "claimed" PROVE FALSE
  <2>1. PICK x \in Workers : Holds(x, k)
    BY <1>1, <1>6 DEF Accounted, RepliesArrive
  <2>2. task[x] \in Tasks /\ KeyOf(task[x]) = k /\ rpc[task[x]] = "waiting" /\ x # w
    BY <2>1 DEF Holds, At, CopyInv, Taken
  <2>3. QED
    BY <1>3, <1>4, <2>1, <2>2 DEF Holds, Refused
<1>7. ASSUME store[k] = "done" PROVE FALSE
  <2>1. PICK t \in Tasks : KeyOf(t) = k /\ exit[t] = "zero"
    BY <1>1, <1>7 DEF RetryInv, Finished, Succeeded
  <2>2. CASE rpc[t] = "ok"
    BY <1>1, <1>3, <2>1, <2>2 DEF Refused
  <2>3. ASSUME NEW x \in Workers, task[x] = t, Succeeding(x) PROVE FALSE
    <3>1. rpc[t] = "waiting" /\ x # w /\ pc[x] # "idle"
      BY <2>3 DEF Succeeding, At, CopyInv, Taken
    <3>2. QED
      BY <1>3, <1>4, <2>1, <2>3, <3>1 DEF Refused
  <2>4. QED
    BY <2>1, <2>2, <2>3 DEF OutcomeInv, Ran
<1>8. QED
  BY <1>1, <1>5, <1>6, <1>7 DEF TypeOK, StoreTypeOK, Status

(* A retry is neither rejected for want of a runner nor of room, and its    *)
(* record is there: only a worker refuses it.                               *)
LEMMA RefusedByWorker ==
  ASSUME Benign, TypeOK, CopyInv, RetryInv, [Next]_vars,
         NEW c \in Calls, rpc[Retry(c)] \notin Refused, rpc'[Retry(c)] \in Refused
  PROVE  \E w \in Workers : SendResult(w) /\ task[w] = Retry(c)
<1> DEFINE P == \E w \in Workers : SendResult(w) /\ task[w] = Retry(c)
<1>1. Retry(c) \in Tasks /\ Retry(c).at = Local /\ Retry(c).call = c
  BY TaskFacts
<1>2. ASSUME NEW t \in Tasks, SubmitAndExecute(t) PROVE P
  <2>1. CASE t = Retry(c)
    <3>1. rpc[t] = "sent"
      BY <1>2 DEF SubmitAndExecute
    <3>2. Len(queue[Local]) < QueueSize
      BY <1>1, <2>1, <3>1, Room DEF Benign, RetryInv
    <3>3. rpc' = [rpc EXCEPT ![t] = "waiting"]
      <4>1. QueueSize \in Nat /\ Len(queue[Local]) \in Nat
        BY DispatchAssumption DEF TypeOK
      <4>2. ~(Len(queue[Local]) >= QueueSize)
        BY <3>2, <4>1
      <4>3. QED
        BY <1>1, <1>2, <2>1, <4>2 DEF SubmitAndExecute, Benign
    <3>4. QED
      BY <1>1, <2>1, <3>3 DEF TypeOK, Refused
  <2>2. CASE t # Retry(c)
    <3>1. \E v \in {"rejected", "failed", "waiting"} : rpc' = [rpc EXCEPT ![t] = v]
      BY <1>2 DEF SubmitAndExecute
    <3>2. QED
      BY <1>1, <2>2, <3>1 DEF TypeOK
  <2>3. QED
    BY <2>1, <2>2
<1>3. ASSUME NEW w \in Workers, TaskNotFound(w) PROVE P
  <2>1. task[w] \in Tasks /\ rpc[task[w]] = "waiting" /\ store[KeyOf(task[w])] = Absent
    BY <1>3 DEF TaskNotFound, ClaimCode, At, CopyInv, Taken
  <2>2. QED
    BY <2>1 DEF RetryInv, Stored
<1>4. ASSUME NEW w \in Workers, SendResult(w) PROVE P
  <2>1. CASE task[w] = Retry(c)
    BY <1>4, <2>1
  <2>2. CASE task[w] # Retry(c)
    BY <1>1, <1>4, <2>2 DEF SendResult, TypeOK
  <2>3. QED
    BY <2>1, <2>2
<1>5. ASSUME NEW d \in Calls, ForwardAndExecute(d) \/ RetryOnLocal(d) PROVE P
  BY <1>1, <1>5, TaskFacts DEF ForwardAndExecute, RetryOnLocal, TypeOK, Refused
<1>6. ASSUME \/ \E d \in Calls : StoreCommandFails(d) \/ ReturnSuccess(d) \/ ReturnCancelled(d)
                                 \/ ReturnRetryResult(d)
             \/ \E t \in Tasks : SubmitErrorIsFatal(t)
             \/ \E w \in Workers :
                  \/ TakeTask(w) \/ TryClaimTask(w) \/ ClaimAttemptFails(w) \/ FetchContent(w)
                  \/ FetchContentFails(w) \/ EmptyContentIsFatal(w) \/ RunTask(w)
                  \/ TryFinishTask(w) \/ UnclaimTask(w)
             \/ \E k \in Keys : ExpireRecord(k)
             \/ \E e \in Executors : Crash(e)
             \/ UNCHANGED vars
      PROVE  rpc' = rpc
  BY <1>6
  DEF StoreCommandFails, ReturnSuccess, ReturnCancelled, ReturnRetryResult, SubmitErrorIsFatal,
      TakeTask, TryClaimTask, ClaimAttemptFails, FetchContent, FetchContentFails,
      EmptyContentIsFatal, RunTask, TryFinishTask, UnclaimTask, ExpireRecord, Crash, vars
<1>7. QED
  BY <1>2, <1>3, <1>4, <1>5, <1>6 DEF Next, ProxyReturns, WorkerStep

(* What a worker is about to report was concluded before this step, or in   *)
(* it: after losing the claim, or after running the copy.                   *)
LEMMA Reports ==
  ASSUME Benign, TypeOK, CopyInv, RetryInv, [Next]_vars,
         NEW w \in Workers, pc'[w] = "reporting", taskRes'[w] \in Refused
  PROVE  /\ task'[w] = task[w]
         /\ \/ pc[w] = "reporting" /\ taskRes[w] = taskRes'[w]
            \/ At(w, "claiming") /\ store[KeyOf(task[w])] # "unclaimed"
            \/ At(w, "settling") /\ exit[task[w]] = "nonzero" /\ exit' = exit
<1> DEFINE P == /\ task'[w] = task[w]
                /\ \/ pc[w] = "reporting" /\ taskRes[w] = taskRes'[w]
                   \/ At(w, "claiming") /\ store[KeyOf(task[w])] # "unclaimed"
                   \/ At(w, "settling") /\ exit[task[w]] = "nonzero" /\ exit' = exit
<1>1. ASSUME UNCHANGED <<pc, task, taskRes>> PROVE P
  BY <1>1
<1>2. ASSUME NEW x \in Workers, x # w,
             pc'[w] = pc[w], task'[w] = task[w], taskRes'[w] = taskRes[w]
      PROVE  P
  BY <1>2
<1>3. ASSUME NEW x \in Workers, x # w, WorkerStep(x) PROVE P
  <2>1. pc'[w] = pc[w] /\ task'[w] = task[w] /\ taskRes'[w] = taskRes[w]
    BY <1>3
    DEF WorkerStep, TakeTask, TryClaimTask, ClaimAttemptFails, TaskNotFound, FetchContent,
        FetchContentFails, EmptyContentIsFatal, RunTask, TryFinishTask, UnclaimTask, SendResult,
        Conclude, Goto, workerVars, TypeOK
  <2>2. QED
    BY <1>2, <1>3, <2>1
<1>4. CASE TryClaimTask(w)
  <2>1. ClaimCode(KeyOf(task[w]), "unclaimed") = 1
    BY <1>4 DEF TryClaimTask, Goto, TypeOK
  <2>2. store[KeyOf(task[w])] # "unclaimed"
    BY <2>1 DEF ClaimCode, Absent
  <2>3. QED
    BY <1>4, <2>2 DEF TryClaimTask
<1>5. CASE UnclaimTask(w)
  BY <1>5 DEF UnclaimTask
<1>6. CASE TryFinishTask(w)
  BY <1>6 DEF TryFinishTask, Conclude, TypeOK, Refused
<1>7. CASE FetchContentFails(w)
  <2>1. task[w] \in Tasks /\ rpc[task[w]] = "waiting" /\ store[KeyOf(task[w])] = Absent
    BY <1>7 DEF FetchContentFails, At, CopyInv, Taken, Benign, RepliesArrive
  <2>2. QED
    BY <2>1 DEF RetryInv, Stored
<1>8. CASE ClaimAttemptFails(w)
  BY <1>8 DEF ClaimAttemptFails, Benign, RepliesArrive
<1>9. CASE TaskNotFound(w) \/ EmptyContentIsFatal(w)
  BY <1>1, <1>9 DEF TaskNotFound, EmptyContentIsFatal, workerVars
<1>10. CASE TakeTask(w) \/ FetchContent(w) \/ RunTask(w) \/ SendResult(w)
  BY <1>10 DEF TakeTask, FetchContent, RunTask, SendResult, Goto, TypeOK
<1>11. ASSUME \/ \E c \in Calls : ForwardAndExecute(c) \/ StoreCommandFails(c) \/ ReturnSuccess(c)
                                  \/ ReturnCancelled(c) \/ RetryOnLocal(c) \/ ReturnRetryResult(c)
              \/ \E t \in Tasks : SubmitAndExecute(t) \/ SubmitErrorIsFatal(t)
              \/ \E k \in Keys : ExpireRecord(k)
              \/ \E e \in Executors : Crash(e)
              \/ UNCHANGED vars
       PROVE  UNCHANGED <<pc, task, taskRes>>
  BY <1>11
  DEF ForwardAndExecute, StoreCommandFails, ReturnSuccess, ReturnCancelled, RetryOnLocal,
      ReturnRetryResult, SubmitAndExecute, SubmitErrorIsFatal, ExpireRecord, Crash, workerVars, vars
<1>12. QED
  BY <1>1, <1>3, <1>4, <1>5, <1>6, <1>7, <1>8, <1>9, <1>10, <1>11 DEF Next, ProxyReturns, WorkerStep

LEMMA TriedStep ==
  ASSUME Benign, TypeOK, CopyInv, OutcomeInv, ClaimInv, Accounted, RetryInv, [Next]_vars
  PROVE  Tried'
<1> SUFFICES ASSUME NEW c \in Calls
             PROVE  /\ rpc'[Retry(c)] \in Refused => exit'[Retry(c)] = "nonzero"
                    /\ \A w \in Workers :
                         pc'[w] = "reporting" /\ task'[w] = Retry(c) /\ taskRes'[w] \in Refused
                           => exit'[Retry(c)] = "nonzero"
  BY DEF Tried, Retry
<1>1. Retry(c) \in Tasks
  BY TaskFacts
<1>2. exit[Retry(c)] = "nonzero" /\ (\A w \in Workers : RunTask(w) => task[w] # Retry(c))
        => exit'[Retry(c)] = "nonzero"
  BY <1>1, ExitsStay
<1>3. ASSUME NEW w \in Workers, pc[w] \in {"reporting", "settling"}, task[w] = Retry(c)
      PROVE  \A x \in Workers : RunTask(x) => task[x] # Retry(c)
  BY <1>3 DEF RunTask, At, CopyInv, Taken
<1>4. ASSUME rpc'[Retry(c)] \in Refused PROVE exit'[Retry(c)] = "nonzero"
  <2>1. CASE rpc[Retry(c)] \in Refused
    <3>1. exit[Retry(c)] = "nonzero"
      BY <2>1 DEF RetryInv, Tried
    <3>2. \A w \in Workers : RunTask(w) => task[w] # Retry(c)
      BY <2>1 DEF RunTask, At, CopyInv, Taken, Refused
    <3>3. QED
      BY <1>2, <3>1, <3>2
  <2>2. CASE rpc[Retry(c)] \notin Refused
    <3>1. PICK w \in Workers : SendResult(w) /\ task[w] = Retry(c)
      BY <1>4, <2>2, RefusedByWorker
    <3>2. pc[w] = "reporting" /\ taskRes[w] \in Refused
      BY <1>1, <1>4, <3>1 DEF SendResult, At, TypeOK
    <3>3. exit[Retry(c)] = "nonzero"
      BY <3>1, <3>2 DEF RetryInv, Tried
    <3>4. QED
      BY <1>2, <1>3, <3>1, <3>2, <3>3
  <2>3. QED
    BY <2>1, <2>2
<1>5. ASSUME NEW w \in Workers, pc'[w] = "reporting", task'[w] = Retry(c), taskRes'[w] \in Refused
      PROVE  exit'[Retry(c)] = "nonzero"
  <2>1. task[w] = Retry(c)
    BY <1>5, Reports
  <2>2. CASE pc[w] = "reporting" /\ taskRes[w] = taskRes'[w]
    <3>1. exit[Retry(c)] = "nonzero"
      BY <1>5, <2>1, <2>2 DEF RetryInv, Tried
    <3>2. QED
      BY <1>2, <1>3, <2>1, <2>2, <3>1
  <2>3. CASE At(w, "claiming") /\ store[KeyOf(task[w])] # "unclaimed"
    BY <2>1, <2>3, RetryIsClaimed DEF Benign
  <2>4. CASE At(w, "settling") /\ exit[task[w]] = "nonzero" /\ exit' = exit
    BY <2>1, <2>4
  <2>5. QED
    BY <1>5, <2>2, <2>3, <2>4, Reports
<1>6. QED
  BY <1>4, <1>5

(* AllFailedMeansLocalRan: the client is told that all executors failed     *)
(* only after the local executor was sent the command again, ran it and saw *)
(* it fail.  Storing commands may fail, clients may leave, daemons die, and *)
(* a command that failed may be submitted again, with all copies of its     *)
(* former requests still where they ended.  dispatch_lost_claim shows that  *)
(* the replies of the store must arrive.                                    *)
THEOREM LastResortIsReal ==
  ASSUME Benign
  PROVE  Spec /\ [][RepeatsFailures]_vars => []AllFailedMeansLocalRan
<1> DEFINE Known == CopyInv /\ OutcomeInv /\ ClaimInv /\ Unrun /\ Accounted
<1>1. Init => Known /\ RetryInv
  <2> SUFFICES ASSUME Init PROVE OutcomeInv /\ Unrun /\ Accounted /\ RetryInv
    BY ClaimsInitially
  <2>1. OutcomeInv
    BY DispatchAssumption, TaskFacts DEF Init, OutcomeInv, Answered, Ran, Succeeding
  <2>2. Unrun /\ Accounted /\ Finished
    BY DEF Init, StoreInit, Unrun, Accounted, Finished, Absent
  <2>3. Retried /\ Stored /\ Tried
    BY TaskFacts DEF Init, Retried, Stored, Tried, Refused
  <2>4. Awaited /\ Alone
    BY TaskFacts DEF Init, Awaited, Alone, Bygone, InFlight
  <2>5. QED
    BY <2>1, <2>2, <2>3, <2>4 DEF RetryInv
<1>2. TypeOK /\ Known /\ [RepeatsFailures]_vars /\ [Next]_vars => Known'
  BY CopyStep, OutcomeStep, ClaimStep, UnrunStep, AccountedStep, FailedLeavesNothing
  DEF Benign, RepliesArrive, ClaimsArrive
<1>3. TypeOK /\ Known /\ RetryInv /\ [RepeatsFailures]_vars /\ [Next]_vars => RetryInv'
  <2> SUFFICES ASSUME TypeOK, Known, RetryInv, [RepeatsFailures]_vars, [Next]_vars PROVE RetryInv'
    OBVIOUS
  <2>1. Retried' /\ Stored' /\ Finished' /\ Tried'
    BY RetriedStep, StoredStep, FinishedStep, TriedStep DEF Benign, RetryInv
  <2>2. Awaited' /\ Alone'
    BY AwaitedStep, AloneStep DEF RetryInv
  <2>3. QED
    BY <2>1, <2>2 DEF RetryInv
<1>4. Known /\ RetryInv => AllFailedMeansLocalRan
  BY DEF OutcomeInv, Answered, RetryInv, Tried, AllFailedMeansLocalRan
<1>5. QED
  BY <1>1, <1>2, <1>3, <1>4, TypeCorrect, PTL DEF Spec

(* The same for requests with commands of their own.                        *)
THEOREM LastResortIsRealForUniqueKeys ==
  ASSUME Benign, UniqueKeys
  PROVE  Spec => []AllFailedMeansLocalRan
<1>1. RepeatsFailures
  BY OwnKeys
<1>2. QED
  BY <1>1, LastResortIsReal, PTL

-----------------------------------------------------------------------------
(* A copy whose call waits has a place before and after every step.         *)
LEMMA PlacedStep ==
  ASSUME TypeOK, CopyInv, NoCopyIsLost, [Next]_vars, NEW t \in Tasks, rpc'[t] = "waiting"
  PROVE  Placed(t)'
<1> DEFINE InQueue == \E i \in 1..Len(queue[t.at]) : queue[t.at][i] = t
           With(w) == Host[w] = t.at /\ pc[w] # "idle" /\ task[w] = t
<1>0. t.at \in Executors
  BY TaskFacts
<1>a. ASSUME UNCHANGED queue, rpc[t] = "waiting",
             \A w \in Workers : With(w) => pc'[w] # "idle" /\ task'[w] = task[w]
      PROVE  Placed(t)'
  BY <1>a DEF NoCopyIsLost, Placed
<1>1. ASSUME NEW s \in Tasks, SubmitAndExecute(s) PROVE Placed(t)'
  <2>1. s.at \in Executors /\ UNCHANGED <<pc, task>>
    BY <1>1, TaskFacts DEF SubmitAndExecute, workerVars
  <2>2. ASSUME UNCHANGED queue, NEW v \in Refused, rpc' = [rpc EXCEPT ![s] = v]
        PROVE  Placed(t)'
    <3>1. rpc[t] = "waiting"
      BY <2>2 DEF TypeOK, Refused
    <3>2. QED
      BY <1>a, <2>1, <2>2, <3>1
  <2>3. CASE /\ queue' = [queue EXCEPT ![s.at] = Append(queue[s.at], s)]
             /\ rpc' = [rpc EXCEPT ![s] = "waiting"]
    <3>1. CASE t = s
      <4>1. queue'[t.at] = Append(queue[t.at], t) /\ queue[t.at] \in Seq(Tasks)
        BY <1>0, <2>3, <3>1 DEF TypeOK
      <4>2. queue'[t.at][Len(queue[t.at]) + 1] = t /\ Len(queue'[t.at]) = Len(queue[t.at]) + 1
        BY <4>1
      <4>3. QED
        BY <4>1, <4>2 DEF Placed
    <3>2. CASE t # s
      <4>1. rpc[t] = "waiting"
        BY <2>3, <3>2 DEF TypeOK
      <4>2. CASE InQueue
        <5>1. PICK i \in 1..Len(queue[t.at]) : queue[t.at][i] = t
          BY <4>2
        <5>2. i \in 1..Len(queue'[t.at]) /\ queue'[t.at][i] = t
          BY <1>0, <2>1, <2>3, <5>1 DEF TypeOK
        <5>3. QED
          BY <5>2 DEF Placed
      <4>3. CASE \E w \in Workers : With(w)
        BY <2>1, <4>3 DEF Placed
      <4>4. QED
        BY <4>1, <4>2, <4>3 DEF NoCopyIsLost, Placed
    <3>3. QED
      BY <3>1, <3>2
  <2>4. QED
    BY <1>1, <2>2, <2>3 DEF SubmitAndExecute, Refused
<1>2. ASSUME NEW w \in Workers, TakeTask(w) PROVE Placed(t)'
  <2> DEFINE e == Host[w]
  <2>1. e \in Executors /\ queue[e] \in Seq(Tasks) /\ queue[e] # <<>>
    BY <1>2, DispatchAssumption DEF TakeTask, TypeOK
  <2>2. /\ queue' = [queue EXCEPT ![e] = Tail(queue[e])] /\ pc[w] = "idle"
        /\ pc'[w] # "idle" /\ task'[w] = Head(queue[e]) /\ rpc[t] = "waiting"
        /\ \A x \in Workers \ {w} : pc'[x] = pc[x] /\ task'[x] = task[x]
    BY <1>2 DEF TakeTask, At, Goto, TypeOK
  <2>3. CASE \E x \in Workers : With(x)
    BY <2>2, <2>3 DEF Placed
  <2>4. CASE InQueue
    <3>1. PICK i \in 1..Len(queue[t.at]) : queue[t.at][i] = t
      BY <2>4
    <3>2. CASE t.at # e
      BY <1>0, <2>1, <2>2, <3>1, <3>2 DEF Placed, TypeOK
    <3>3. CASE t.at = e /\ i = 1
      BY <2>1, <2>2, <3>1, <3>3 DEF Placed
    <3>4. CASE t.at = e /\ i # 1
      <4>1. i - 1 \in 1..Len(Tail(queue[e])) /\ Tail(queue[e])[i - 1] = t
        BY <2>1, <3>1, <3>4
      <4>2. queue'[t.at] = Tail(queue[e])
        BY <2>1, <2>2, <3>4 DEF TypeOK
      <4>3. QED
        BY <4>1, <4>2 DEF Placed
    <3>5. QED
      BY <3>2, <3>3, <3>4
  <2>5. QED
    BY <2>2, <2>3, <2>4 DEF NoCopyIsLost, Placed
<1>3. ASSUME NEW w \in Workers, SendResult(w) PROVE Placed(t)'
  <2>1. task[w] \in Tasks /\ taskRes[w] \in Replies
    BY <1>3 DEF SendResult, At, CopyInv, Taken
  <2>2. task[w] # t /\ rpc[t] = "waiting" /\ UNCHANGED queue
    BY <1>3, <2>1 DEF SendResult, Replies, TypeOK
  <2>3. \A x \in Workers \ {w} : pc'[x] = pc[x] /\ task'[x] = task[x]
    BY <1>3 DEF SendResult, Goto, TypeOK
  <2>4. QED
    BY <1>a, <2>2, <2>3
<1>4. ASSUME NEW w \in Workers, TaskNotFound(w) PROVE Placed(t)'
  BY <1>4, <1>a DEF TaskNotFound, workerVars, TypeOK
<1>5. ASSUME NEW w \in Workers,
             \/ TryClaimTask(w) \/ ClaimAttemptFails(w) \/ FetchContent(w) \/ FetchContentFails(w)
             \/ EmptyContentIsFatal(w) \/ RunTask(w) \/ TryFinishTask(w) \/ UnclaimTask(w)
      PROVE  Placed(t)'
  <2>1. UNCHANGED <<rpc, queue, task>> /\ \A x \in Workers : pc[x] # "idle" => pc'[x] # "idle"
    BY <1>5
    DEF TryClaimTask, ClaimAttemptFails, FetchContent, FetchContentFails, EmptyContentIsFatal,
        RunTask, TryFinishTask, UnclaimTask, Conclude, Goto, workerVars, TypeOK
  <2>2. QED
    BY <1>a, <2>1
<1>6. ASSUME NEW c \in Calls, ForwardAndExecute(c) \/ RetryOnLocal(c) PROVE Placed(t)'
  BY <1>6, <1>a DEF ForwardAndExecute, RetryOnLocal, workerVars, TypeOK
<1>7. ASSUME \/ \E c \in Calls : StoreCommandFails(c) \/ ReturnSuccess(c) \/ ReturnCancelled(c)
                                 \/ ReturnRetryResult(c)
             \/ \E s \in Tasks : SubmitErrorIsFatal(s)
             \/ \E k \in Keys : ExpireRecord(k)
             \/ \E e \in Executors : Crash(e)
             \/ UNCHANGED vars
      PROVE  UNCHANGED <<rpc, queue, pc, task>>
  BY <1>7
  DEF StoreCommandFails, ReturnSuccess, ReturnCancelled, ReturnRetryResult, SubmitErrorIsFatal,
      ExpireRecord, Crash, vars, workerVars
<1>8. QED
  BY <1>1, <1>2, <1>3, <1>4, <1>5, <1>6, <1>7, <1>a DEF Next, ProxyReturns, WorkerStep

(* NoCopyIsLost: a waiting call has its copy in its executor's channel or    *)
(* with one of that executor's workers, and the proxy waits only for calls  *)
(* it has made, whatever errs, expires or dies.  It is what EveryRpcReturns *)
(* and EveryCallAnswered rest on, besides the scheduling.                   *)
THEOREM CopiesAreNotLost == Spec => []NoCopyIsLost
<1>1. Init => NoCopyIsLost
  BY DEF Init, NoCopyIsLost
<1>2. TypeOK /\ CopyInv /\ NoCopyIsLost /\ [Next]_vars => NoCopyIsLost'
  <2> SUFFICES ASSUME TypeOK, CopyInv, NoCopyIsLost, [Next]_vars PROVE NoCopyIsLost'
    OBVIOUS
  <2>1. \A t \in Tasks : rpc[t] # "none" => rpc'[t] # "none"
    <3>1. ASSUME NEW t \in Tasks, rpc[t] # "none" PROVE rpc'[t] # "none"
      <4>1. ~ForwardAndExecute(t.call)
        BY <3>1 DEF ForwardAndExecute, MayCall, CopyInv, Unsent
      <4>2. RetryOnLocal(t.call) /\ t = Retry(t.call) => rpc'[t] = "sent"
        BY <3>1 DEF RetryOnLocal, TypeOK
      <4>3. QED
        BY <3>1, <4>1, <4>2, RpcMoves DEF InFlight, Replies
    <3>2. QED
      BY <3>1
  <2>2. ASSUME NEW c \in Calls, call'[c] = "gathering", NEW e \in Executors
        PROVE  rpc'[Batch(c, e)] # "none"
    <3>1. CASE call[c] = "gathering"
      BY <2>1, <3>1, TaskFacts DEF NoCopyIsLost
    <3>2. CASE ForwardAndExecute(c)
      BY <3>2, TaskFacts DEF ForwardAndExecute
    <3>3. ~StoreCommandFails(c)
      BY <2>2 DEF StoreCommandFails, TypeOK
    <3>4. QED
      BY <2>2, <3>1, <3>2, <3>3, CallMoves DEF Stores
  <2>3. ASSUME NEW c \in Calls, call'[c] = "retrying" PROVE rpc'[Retry(c)] # "none"
    <3>1. CASE call[c] = "retrying"
      BY <2>1, <3>1, TaskFacts DEF NoCopyIsLost
    <3>2. CASE RetryOnLocal(c)
      BY <3>2, TaskFacts DEF RetryOnLocal, TypeOK
    <3>3. ~Stores(c)
      BY <2>3 DEF Stores, ForwardAndExecute, StoreCommandFails, TypeOK
    <3>4. QED
      BY <2>3, <3>1, <3>2, <3>3, CallMoves
  <2>4. QED
    BY <2>2, <2>3, PlacedStep DEF NoCopyIsLost
<1>3. CopyInv /\ OutcomeInv => CopyInv
  OBVIOUS
<1>4. QED
  BY <1>1, <1>2, <1>3, TypeCorrect, CopiesCorrect, PTL DEF Spec

(* ClaimsAreGivenBack: as long as the replies to claims and settlements     *)
(* arrive, a record is claimed after every copy on a live executor has been *)
(* answered only when an executor died while a worker there was at the      *)
(* command, or a worker gave it up unrun after a failed HGet.  Nothing else *)
(* is assumed: records may expire, any daemon die, clients leave, and a     *)
(* command be stored again while it is run.                                 *)
THEOREM ClaimsAreAlwaysGivenBack == ASSUME ClaimsArrive PROVE Spec => []ClaimsAreGivenBack
<1> DEFINE Inv == CopyInv /\ Unrun /\ Accounted
<1>1. Init => Inv
  <2> SUFFICES ASSUME Init PROVE Unrun /\ Accounted
    BY ClaimsInitially
  <2>1. QED
    BY DEF Init, StoreInit, Unrun, Accounted, Absent
<1>2. TypeOK /\ Inv /\ [Next]_vars => Inv'
  BY CopyStep, UnrunStep, AccountedStep
<1>3. Inv /\ NoCopyIsLost => ClaimsAreGivenBack
  <2> SUFFICES ASSUME Inv, NoCopyIsLost, NEW k \in Keys, store[k] = "claimed",
                      \A t \in Tasks : KeyOf(t) = k /\ alive[t.at] => rpc[t] \notin InFlight
               PROVE  DiedAtIt(k) \/ GivenUp(k)
    BY DEF ClaimsAreGivenBack
  <2>1. ASSUME NEW w \in Workers, pc[w] \notin {"idle", "claiming"}, KeyOf(task[w]) = k
        PROVE  DiedAtIt(k)
    <3>1. /\ task[w] \in Tasks /\ rpc[task[w]] = "waiting"
          /\ \A e \in Executors : \A i \in 1..Len(queue[e]) : queue[e][i] # task[w]
      BY <2>1 DEF CopyInv, Taken
    <3>2. task[w].at \in Executors /\ ~alive[task[w].at]
      BY <2>1, <3>1, TaskFacts DEF InFlight
    <3>3. PICK x \in Workers : Host[x] = task[w].at /\ pc[x] # "idle" /\ task[x] = task[w]
      BY <3>1, <3>2 DEF NoCopyIsLost, Placed
    <3>4. QED
      BY <2>1, <3>2, <3>3 DEF DiedAtIt
  <2>2. ASSUME NEW t \in Tasks, KeyOf(t) = k, Forsaken(t) PROVE DiedAtIt(k) \/ GivenUp(k)
    BY <2>1, <2>2 DEF Forsaken, GivenUp
  <2>3. QED
    BY <2>1, <2>2 DEF Accounted, Holds
<1>4. QED
  BY <1>1, <1>2, <1>3, TypeCorrect, CopiesAreNotLost, PTL DEF Spec
=============================================================================
