---------------------------- MODULE FanOutProofs ------------------------------
(***************************************************************************)
(* Theorems about FanOut, for any number of executors.                     *)
(***************************************************************************)
EXTENDS FanOut, FiniteSetTheorems, TLAPS

(* The goroutines the WaitGroup counts, and those that have sent a result.  *)
Running == {e \in Executors : pc[e] \in {"calling", "sending", "signalling", "leaving"}}
Sent    == {e \in Executors : pc[e] \in {"signalling", "leaving", "ended"}}

(* The WaitGroup counts, and the channel holds no more than was sent.       *)
Counted ==
  /\ wg = Cardinality(Running)
  /\ Len(resultChan) <= Cardinality(Sent)

(* The closing goroutine starts after the last of the others, and closes    *)
(* when all of them have ended.                                            *)
ClosedLast ==
  /\ handler # "spawning" => \A e \in Executors : pc[e] # "new"
  /\ closed # {} => handler # "spawning" /\ \A e \in Executors : pc[e] = "ended"
  /\ "done" \in closed => "result" \in closed
  /\ handler = "scanning" => "done" \in closed

(* A reply is there once it has been received, a success is signalled only  *)
(* of an "ok", and an "ok" that was sent stays in resultChan until the      *)
(* handler returns.                                                        *)
Received ==
  /\ \A e \in Executors : reply[e] = "none" <=> pc[e] \in {"new", "calling"}
  /\ \A e \in Executors : pc[e] = "signalling" => reply[e] = "ok"
  /\ successChan # <<>> => \E e \in Executors : reply[e] = "ok"
  /\ handler # "returned" => verdict = "open"
  /\ handler # "returned" =>
       \A e \in Sent : reply[e] = "ok" => \E i \in 1..Len(resultChan) : resultChan[i] = e

FanInv == TypeOK /\ Counted /\ ClosedLast /\ Received

USE ExecutorsAssumption

-----------------------------------------------------------------------------
(* Counting.                                                               *)

LEMMA RunningFacts ==
  /\ IsFiniteSet(Running) /\ Cardinality(Running) \in 0..Cardinality(Executors)
  /\ IsFiniteSet(Sent) /\ Cardinality(Sent) \in 0..Cardinality(Executors)
  /\ Cardinality(Running) = 0 <=> Running = {}
  /\ Cardinality(Executors) \in Nat
<1>1. Running \in SUBSET Executors /\ Sent \in SUBSET Executors
  BY DEF Running, Sent
<1>2. IsFiniteSet(Running) /\ Cardinality(Running) <= Cardinality(Executors)
  BY <1>1, FS_Subset
<1>3. IsFiniteSet(Sent) /\ Cardinality(Sent) <= Cardinality(Executors)
  BY <1>1, FS_Subset
<1>4. Cardinality(Executors) \in Nat /\ Cardinality(Running) \in Nat /\ Cardinality(Sent) \in Nat
  BY <1>2, <1>3, FS_CardinalityType
<1>5. QED
  BY <1>2, <1>3, <1>4, FS_EmptySet

LEMMA MoreByOne ==
  ASSUME NEW S, IsFiniteSet(S), NEW x, x \notin S, NEW T, T = S \cup {x}
  PROVE  Cardinality(T) = Cardinality(S) + 1
BY FS_AddElement

LEMMA LessByOne ==
  ASSUME NEW S, IsFiniteSet(S), NEW x, x \in S, NEW T, T = S \ {x}
  PROVE  Cardinality(T) = Cardinality(S) - 1
BY FS_RemoveElement

(* A goroutine that moves between two places of the same kind.              *)
LEMMA GotoSets ==
  ASSUME TypeOK, NEW e \in Executors, NEW place, Goto(e, place)
  PROVE  /\ Running' = IF place \in {"calling", "sending", "signalling", "leaving"}
                       THEN Running \cup {e} ELSE Running \ {e}
         /\ Sent' = IF place \in {"signalling", "leaving", "ended"}
                    THEN Sent \cup {e} ELSE Sent \ {e}
         /\ \A f \in Executors : pc'[f] = IF f = e THEN place ELSE pc[f]
<1>1. \A f \in Executors : pc'[f] = IF f = e THEN place ELSE pc[f]
  BY DEF Goto, TypeOK
<1>2. QED
  BY <1>1 DEF Running, Sent

LEMMA CountStep ==
  ASSUME FanInv, [Next]_vars
  PROVE  Counted'
<1> USE DEF FanInv, Counted
<1>1. CASE UNCHANGED <<pc, wg, resultChan>>
  BY <1>1 DEF Running, Sent
<1>2. ASSUME NEW e \in Executors, Spawn(e) PROVE Counted'
  <2>1. Running' = Running \cup {e} /\ Sent' = Sent \ {e} /\ e \notin Running /\ e \notin Sent
    BY <1>2, GotoSets DEF Spawn, Running, Sent
  <2>2. Cardinality(Running') = Cardinality(Running) + 1
    BY <2>1, MoreByOne, RunningFacts
  <2>3. Sent' = Sent
    BY <2>1
  <2>4. QED
    BY <1>2, <2>2, <2>3 DEF Spawn, chans
<1>3. ASSUME NEW e \in Executors, ReceiveReply(e) PROVE Counted'
  <2>1. Running' = Running \cup {e} /\ Sent' = Sent \ {e} /\ e \in Running /\ e \notin Sent
    BY <1>3, GotoSets DEF ReceiveReply, Running, Sent
  <2>2. Running' = Running /\ Sent' = Sent
    BY <2>1
  <2>3. QED
    BY <1>3, <2>2 DEF ReceiveReply, chans
<1>4. ASSUME NEW e \in Executors, SendResult(e) PROVE Counted'
  <2>1. PICK place \in {"signalling", "leaving"} : Goto(e, place)
    BY <1>4 DEF SendResult
  <2>2. Running' = Running \cup {e} /\ Sent' = Sent \cup {e}
    BY <2>1, GotoSets
  <2>3. e \in Running /\ e \notin Sent
    BY <1>4 DEF SendResult, Running, Sent
  <2>4. Running' = Running
    BY <2>2, <2>3
  <2>5. Cardinality(Sent') = Cardinality(Sent) + 1
    BY <2>2, <2>3, MoreByOne, RunningFacts
  <2>6. Len(resultChan') = Len(resultChan) + 1 /\ Len(resultChan) \in Nat
    BY <1>4 DEF SendResult, TypeOK
  <2>7. QED
    BY <1>4, <2>4, <2>5, <2>6, RunningFacts DEF SendResult
<1>5. ASSUME NEW e \in Executors, SignalSuccess(e) PROVE Counted'
  <2>1. Running' = Running \cup {e} /\ Sent' = Sent \cup {e} /\ e \in Running /\ e \in Sent
    BY <1>5, GotoSets DEF SignalSuccess, Running, Sent
  <2>2. Running' = Running /\ Sent' = Sent
    BY <2>1
  <2>3. QED
    BY <1>5, <2>2 DEF SignalSuccess
<1>6. ASSUME NEW e \in Executors, Leave(e) PROVE Counted'
  <2>1. Running' = Running \ {e} /\ Sent' = Sent \cup {e} /\ e \in Running /\ e \in Sent
    BY <1>6, GotoSets DEF Leave, Running, Sent
  <2>2. Cardinality(Running') = Cardinality(Running) - 1
    BY <2>1, LessByOne, RunningFacts
  <2>3. Sent' = Sent
    BY <2>1
  <2>4. QED
    BY <1>6, <2>2, <2>3 DEF Leave, chans
<1>7. CASE ScanResult
  <2>1. Running' = Running /\ Sent' = Sent
    BY <1>7 DEF ScanResult, Running, Sent
  <2>2. Len(resultChan') \in Nat /\ Len(resultChan') <= Len(resultChan) /\ Len(resultChan) \in Nat
    BY <1>7 DEF ScanResult, TypeOK
  <2>3. QED
    BY <1>7, <2>1, <2>2, RunningFacts DEF ScanResult
<1>8. QED
  BY <1>1, <1>2, <1>3, <1>4, <1>5, <1>6, <1>7
  DEF Next, vars, chans, Goroutine, Closer, Handler, CallFails, CloseResultChan, CloseDoneChan,
      Close, SpawnCloser, TakeSuccess, SeeDone, ContextDone

LEMMA TypeStep ==
  ASSUME FanInv, [Next]_vars
  PROVE  TypeOK'
<1> USE DEF FanInv, TypeOK
<1>1. wg' \in 0..Cardinality(Executors)
  <2>1. Cardinality(Running') \in 0..Cardinality(Executors)
    <3>1. Running' \in SUBSET Executors
      BY DEF Running
    <3>2. IsFiniteSet(Running') /\ Cardinality(Running') <= Cardinality(Executors)
      BY <3>1, FS_Subset
    <3>3. Cardinality(Running') \in Nat /\ Cardinality(Executors) \in Nat
      BY <3>2, FS_CardinalityType
    <3>4. QED
      BY <3>2, <3>3
  <2>2. QED
    BY <2>1, CountStep DEF Counted
<1>2. pc' \in [Executors -> {"new", "calling", "sending", "signalling", "leaving", "ended"}]
  BY DEF Next, vars, chans, Goroutine, Closer, Handler, Spawn, ReceiveReply, SendResult,
         SignalSuccess, Leave, Goto, CallFails, CloseResultChan, CloseDoneChan, Close,
         SpawnCloser, TakeSuccess, SeeDone, ScanResult, ContextDone
<1>3. reply' \in [Executors -> {"none", "ok", "bad"}] /\ up' \in BOOLEAN
  BY DEF Next, vars, chans, Goroutine, Closer, Handler, Spawn, ReceiveReply, SendResult,
         SignalSuccess, Leave, CallFails, CloseResultChan, CloseDoneChan, Close,
         SpawnCloser, TakeSuccess, SeeDone, ScanResult, ContextDone
<1>4. resultChan' \in Seq(Executors)
  <2>1. CASE resultChan' = resultChan
    BY <2>1
  <2>2. ASSUME NEW e \in Executors, resultChan' = Append(resultChan, e) PROVE resultChan' \in Seq(Executors)
    BY <2>2
  <2>3. CASE resultChan # <<>> /\ resultChan' = Tail(resultChan)
    BY <2>3
  <2>4. QED
    BY <2>1, <2>2, <2>3
    DEF Next, vars, chans, Goroutine, Closer, Handler, Spawn, ReceiveReply, SendResult,
         SignalSuccess, Leave, CallFails, CloseResultChan, CloseDoneChan, Close,
         SpawnCloser, TakeSuccess, SeeDone, ScanResult, ContextDone
<1>5. successChan' \in Seq(Executors) /\ Len(successChan') <= 1
  <2>1. CASE successChan' = successChan
    BY <2>1
  <2>2. ASSUME NEW e \in Executors, successChan' = <<e>>
        PROVE  successChan' \in Seq(Executors) /\ Len(successChan') <= 1
    BY <2>2
  <2>3. CASE successChan # <<>> /\ successChan' = Tail(successChan)
    BY <2>3
  <2>4. QED
    BY <2>1, <2>2, <2>3
    DEF Next, vars, chans, Goroutine, Closer, Handler, Spawn, ReceiveReply, SendResult,
         SignalSuccess, Leave, CallFails, CloseResultChan, CloseDoneChan, Close,
         SpawnCloser, TakeSuccess, SeeDone, ScanResult, ContextDone
<1>6. /\ closed' \subseteq {"result", "done"}
      /\ handler' \in {"spawning", "selecting", "scanning", "returned"}
      /\ verdict' \in {"open", "success", "exhausted", "cancelled"}
  BY DEF Next, vars, chans, Goroutine, Closer, Handler, Spawn, ReceiveReply, SendResult,
         SignalSuccess, Leave, CallFails, CloseResultChan, CloseDoneChan, Close, Return,
         SpawnCloser, TakeSuccess, SeeDone, ScanResult, ContextDone
<1>7. QED
  BY <1>1, <1>2, <1>3, <1>4, <1>5, <1>6

LEMMA ClosedStep ==
  ASSUME FanInv, [Next]_vars
  PROVE  ClosedLast'
<1> USE DEF FanInv, TypeOK, ClosedLast
<1>1. CASE UNCHANGED <<pc, closed, handler>>
  BY <1>1
<1>2. ASSUME NEW e \in Executors, NEW place, Goto(e, place), place # "new",
             UNCHANGED <<closed, handler>>, pc[e] # "ended"
      PROVE  ClosedLast'
  BY <1>2 DEF Goto
<1>3. CASE CloseResultChan
  <2>1. Running = {}
    BY <1>3, RunningFacts DEF CloseResultChan, Counted
  <2>2. \A e \in Executors : pc[e] = "ended"
    BY <1>3, <2>1 DEF CloseResultChan, Running
  <2>3. QED
    BY <1>3, <2>2 DEF CloseResultChan, Close
<1>4. CASE CloseDoneChan
  BY <1>4 DEF CloseDoneChan, Close
<1>5. CASE SpawnCloser \/ TakeSuccess \/ SeeDone \/ ScanResult \/ ContextDone
  BY <1>5 DEF SpawnCloser, TakeSuccess, SeeDone, ScanResult, ContextDone, Return, chans
<1>6. QED
  <2>1. ASSUME NEW e \in Executors, Spawn(e) \/ Goroutine(e) PROVE ClosedLast'
    BY <2>1, <1>2 DEF Goroutine, Spawn, ReceiveReply, SendResult, SignalSuccess, Leave, chans
  <2>2. ASSUME NEW e \in Executors, CallFails(e) PROVE ClosedLast'
    BY <2>2, <1>1 DEF CallFails, chans
  <2>3. CASE UNCHANGED vars
    BY <2>3, <1>1 DEF vars
  <2>4. QED
    BY <1>3, <1>4, <1>5, <2>1, <2>2, <2>3 DEF Next, Closer, Handler

LEMMA AppendFacts ==
  ASSUME NEW S, NEW q \in Seq(S), NEW e \in S
  PROVE  /\ \A i \in 1..Len(q) : i \in 1..Len(Append(q, e)) /\ Append(q, e)[i] = q[i]
         /\ Len(q) + 1 \in 1..Len(Append(q, e)) /\ Append(q, e)[Len(q) + 1] = e
OBVIOUS

LEMMA TailFacts ==
  ASSUME NEW S, NEW q \in Seq(S), q # <<>>
  PROVE  /\ Head(q) = q[1] /\ Head(q) \in S
         /\ \A i \in 1..Len(q) : i # 1 => i - 1 \in 1..Len(Tail(q)) /\ Tail(q)[i - 1] = q[i]
OBVIOUS

LEMMA ReceivedStep ==
  ASSUME FanInv, [Next]_vars
  PROVE  Received'
<1> USE DEF FanInv, TypeOK, Received
<1>1. CASE UNCHANGED <<pc, reply, resultChan, successChan, handler, verdict>>
  BY <1>1 DEF Sent
<1>2. ASSUME NEW e \in Executors, Spawn(e) PROVE Received'
  BY <1>2 DEF Spawn, Goto, chans, Sent
<1>3. ASSUME NEW e \in Executors, ReceiveReply(e) PROVE Received'
  BY <1>3 DEF ReceiveReply, Goto, chans, Sent
<1>4. ASSUME NEW e \in Executors, SendResult(e) PROVE Received'
  <2>1. /\ resultChan' = Append(resultChan, e) /\ pc[e] = "sending"
        /\ UNCHANGED <<reply, successChan, handler, verdict>>
        /\ \A f \in Executors : f # e => pc'[f] = pc[f]
        /\ pc'[e] = IF reply[e] = "ok" THEN "signalling" ELSE "leaving"
    BY <1>4 DEF SendResult, Goto
  <2>2. ASSUME handler # "returned", NEW f \in Sent', reply[f] = "ok"
        PROVE  \E i \in 1..Len(resultChan') : resultChan'[i] = f
    <3>1. CASE f = e
      BY <3>1, <2>1, AppendFacts
    <3>2. CASE f # e
      <4>1. f \in Sent
        BY <3>2, <2>1, <2>2 DEF Sent
      <4>2. PICK i \in 1..Len(resultChan) : resultChan[i] = f
        BY <4>1, <2>2
      <4>3. QED
        BY <4>2, <2>1, AppendFacts
    <3>3. QED
      BY <3>1, <3>2
  <2>3. QED
    BY <2>1, <2>2
<1>5. ASSUME NEW e \in Executors, SignalSuccess(e) \/ Leave(e) PROVE Received'
  BY <1>5 DEF SignalSuccess, Leave, Goto, chans, Sent
<1>6. CASE ScanResult
  <2>1. CASE handler' = "returned"
    BY <1>6, <2>1 DEF ScanResult, Return
  <2>2. CASE handler' # "returned"
    <3>1. /\ handler # "returned" /\ resultChan # <<>> /\ resultChan' = Tail(resultChan)
          /\ reply[Head(resultChan)] # "ok"
          /\ UNCHANGED <<pc, reply, successChan, handler, verdict>>
      BY <1>6, <2>2 DEF ScanResult, Return
    <3>2. ASSUME NEW f \in Sent', reply[f] = "ok"
          PROVE  \E i \in 1..Len(resultChan') : resultChan'[i] = f
      <4>1. f \in Sent
        BY <3>1, <3>2 DEF Sent
      <4>2. PICK i \in 1..Len(resultChan) : resultChan[i] = f
        BY <3>1, <3>2, <4>1
      <4>3. i # 1
        BY <3>1, <3>2, <4>2, TailFacts
      <4>4. i - 1 \in 1..Len(Tail(resultChan)) /\ Tail(resultChan)[i - 1] = f
        BY <3>1, <4>2, <4>3, TailFacts
      <4>5. QED
        BY <3>1, <4>4
    <3>3. QED
      BY <3>1, <3>2
  <2>3. QED
    BY <2>1, <2>2
<1>7. CASE SpawnCloser \/ TakeSuccess \/ SeeDone \/ ContextDone
  BY <1>7 DEF SpawnCloser, TakeSuccess, SeeDone, ContextDone, Return, chans, Sent
<1>8. QED
  BY <1>1, <1>2, <1>3, <1>4, <1>5, <1>6, <1>7
  DEF Next, vars, chans, Goroutine, Closer, Handler, CallFails, CloseResultChan, CloseDoneChan,
      Close

LEMMA FanInit == Init => FanInv
<1> SUFFICES ASSUME Init PROVE FanInv
  OBVIOUS
<1> USE DEF Init
<1>1. Running = {} /\ Sent = {}
  BY DEF Running, Sent
<1>2. Cardinality(Running) = 0 /\ Cardinality(Sent) \in Nat /\ Cardinality(Executors) \in Nat
  BY <1>1, RunningFacts
<1>3. TypeOK /\ Counted
  BY <1>2 DEF TypeOK, Counted
<1>4. ClosedLast /\ Received
  BY <1>1 DEF ClosedLast, Received
<1>5. QED
  BY <1>3, <1>4 DEF FanInv

LEMMA FanCorrect == Spec => []FanInv
<1>1. FanInv /\ [Next]_vars => FanInv'
  BY TypeStep, CountStep, ClosedStep, ReceivedStep DEF FanInv
<1>2. QED
  BY FanInit, <1>1, PTL DEF Spec

-----------------------------------------------------------------------------
(* For any number of executors, every variable keeps its type; the counter  *)
(* of the WaitGroup never goes below zero, which would be a panic.          *)
THEOREM FanTypeCorrect == Spec => []TypeOK
<1>1. FanInv => TypeOK
  BY DEF FanInv
<1>2. QED
  BY <1>1, FanCorrect, PTL

(* No goroutine sends on the closed resultChan, however late its reply: the *)
(* WaitGroup counts it until after its send.                               *)
THEOREM NoSendAfterCloseHolds == Spec => []NoSendAfterClose
<1>1. FanInv => NoSendAfterClose
  BY DEF FanInv, ClosedLast, NoSendAfterClose
<1>2. QED
  BY <1>1, FanCorrect, PTL

(* The WaitGroup releases the closing goroutine exactly when all others have *)
(* ended: not in a gap between two of them (wg.Add comes before go), and    *)
(* not too late either, so that the handler's select has the done channel   *)
(* to fall back on; and a handler that scans does so on a closed channel.   *)
THEOREM WaitIsExact ==
  Spec => [](/\ handler # "spawning" => (wg = 0 <=> \A e \in Executors : pc[e] = "ended")
             /\ handler = "scanning" => "result" \in closed)
<1>1. ASSUME FanInv
      PROVE  /\ handler # "spawning" => (wg = 0 <=> \A e \in Executors : pc[e] = "ended")
             /\ handler = "scanning" => "result" \in closed
  <2>1. wg = 0 <=> Running = {}
    BY <1>1, RunningFacts DEF FanInv, Counted
  <2>2. ASSUME handler # "spawning"
        PROVE  Running = {} <=> \A e \in Executors : pc[e] = "ended"
    BY <1>1, <2>2 DEF FanInv, TypeOK, ClosedLast, Running
  <2>3. QED
    BY <1>1, <2>1, <2>2 DEF FanInv, ClosedLast
<1>2. QED
  BY <1>1, FanCorrect, PTL

(* A goroutine that has a result to send finds room for it, also when the   *)
(* handler has long returned and receives nothing: len(executors) places    *)
(* suffice for any number of executors.                                     *)
THEOREM SendNeverBlocks ==
  Spec => [](\A e \in Executors : pc[e] = "sending" => Len(resultChan) < ResultCap)
<1>1. ASSUME FanInv, NEW e \in Executors, pc[e] = "sending"
      PROVE  Len(resultChan) < ResultCap
  <2>1. Sent \in SUBSET (Executors \ {e})
    BY <1>1 DEF Sent
  <2>2. IsFiniteSet(Executors \ {e}) /\ Cardinality(Executors \ {e}) = Cardinality(Executors) - 1
    BY FS_RemoveElement
  <2>3. Cardinality(Sent) <= Cardinality(Executors \ {e})
    BY <2>1, <2>2, FS_Subset
  <2>4. Len(resultChan) <= Cardinality(Sent) /\ Len(resultChan) \in Nat
    BY <1>1 DEF FanInv, Counted, TypeOK
  <2>5. QED
    BY <2>2, <2>3, <2>4, RunningFacts DEF ResultCap
<1>2. FanInv => \A e \in Executors : pc[e] = "sending" => Len(resultChan) < ResultCap
  BY <1>1
<1>3. QED
  BY <1>2, FanCorrect, PTL

-----------------------------------------------------------------------------
(* The refinement.                                                          *)

LEMMA ExhaustedMeansBad ==
  ASSUME FanInv, handler # "returned", "result" \in closed, resultChan = <<>>
  PROVE  \A e \in Executors : reply[e] = "bad"
<1>1. \A e \in Executors : pc[e] = "ended" /\ e \in Sent
  BY DEF FanInv, ClosedLast, Sent
<1>2. \A e \in Executors : reply[e] # "ok"
  BY <1>1 DEF FanInv, Received
<1>3. \A e \in Executors : reply[e] # "none"
  BY <1>1 DEF FanInv, Received
<1>4. QED
  BY <1>2, <1>3 DEF FanInv, TypeOK

LEMMA GatherStep ==
  ASSUME FanInv, [Next]_vars
  PROVE  [Gathering!Next]_Gathering!vars
<1> USE DEF Gathering!Next, Gathering!vars
<1>1. CASE UNCHANGED <<reply, verdict>>
  BY <1>1
<1>2. ASSUME NEW e \in Executors, ReceiveReply(e) PROVE Gathering!Reply(e)
  BY <1>2 DEF ReceiveReply, Gathering!Reply, FanInv, Received
<1>3. CASE TakeSuccess
  <2>1. Gathering!Succeed
    BY <1>3 DEF TakeSuccess, Return, FanInv, Received, Gathering!Succeed, Gathering!Decide
  <2>2. QED
    BY <2>1
<1>4. CASE ContextDone
  <2>1. Gathering!GiveUp
    BY <1>4 DEF ContextDone, Return, FanInv, Received, Gathering!GiveUp, Gathering!Decide
  <2>2. QED
    BY <2>1
<1>5. CASE ScanResult
  <2>1. CASE UNCHANGED verdict
    BY <1>5, <2>1 DEF ScanResult
  <2>2. CASE resultChan # <<>> /\ reply[Head(resultChan)] = "ok"
    <3>1. Head(resultChan) \in Executors
      BY <2>2, TailFacts DEF FanInv, TypeOK
    <3>2. Gathering!Succeed
      BY <1>5, <2>2, <3>1
      DEF ScanResult, Return, FanInv, Received, Gathering!Succeed, Gathering!Decide
    <3>3. QED
      BY <3>2
  <2>3. CASE resultChan = <<>> /\ "result" \in closed
    <3>1. Gathering!Exhaust
      BY <1>5, <2>3, ExhaustedMeansBad
      DEF ScanResult, Return, FanInv, Received, Gathering!Exhaust, Gathering!Decide
    <3>2. QED
      BY <3>1
  <2>4. QED
    BY <1>5, <2>1, <2>2, <2>3 DEF ScanResult
<1>6. QED
  BY <1>1, <1>2, <1>3, <1>4, <1>5
  DEF Next, vars, chans, Goroutine, Closer, Handler, Spawn, SendResult, SignalSuccess, Leave,
      CallFails, CloseResultChan, CloseDoneChan, Close, SpawnCloser, SeeDone

(* The goroutines and channels of a request implement Gather for any number *)
(* of executors: "all failed", after which the command goes to the local     *)
(* executor once more, is concluded only when every executor has replied     *)
(* and none succeeded, although the select may see doneChan first.           *)
THEOREM FanOutImplementsGather == Spec => GatherSpec
<1>1. Init => Gathering!Init
  BY DEF Init, Gathering!Init
<1>2. FanInv /\ [Next]_vars => [Gathering!Next]_Gathering!vars
  BY GatherStep
<1>3. QED
  BY <1>1, <1>2, FanCorrect, PTL DEF Spec, GatherSpec, Gathering!Spec
=============================================================================
