-------------------------- MODULE ExecCommandProofs --------------------------
(***************************************************************************)
(* Theorems about ExecCommand, for any number of retries.                  *)
(***************************************************************************)
EXTENDS ExecCommand, TLAPS

(* Attempts are made in order, and all but the current one are over.       *)
InOrder ==
  /\ \A k \in Attempts : k > attempt => proc[k] = "none"
  /\ \A k \in Attempts : k < attempt => proc[k] \in {"none", "over"}
  /\ pc \in {"starting", "pausing"} => proc[attempt] = "none"

(* A goroutine that hands over an exit code has seen its attempt end.      *)
Reaped ==
  \A k \in Attempts :
    /\ waiter[k] # "none" => proc[k] # "none"
    /\ waiter[k] = "sending" => proc[k] = "over"

(* Success was reported of the attempt that is still the current one.      *)
Reported ==
  result = "zero" => pc = "returned" /\ exit[attempt] = "zero" /\ proc[attempt] = "over"

(* The goroutines of earlier attempts have ended, and a call that returned  *)
(* before its deadline has seen its last one end.                          *)
Received ==
  /\ \A k \in Attempts : k < attempt => waiter[k] \in {"none", "ended"}
  /\ pc = "returned" /\ ctx = "live" =>
       waiter[attempt] \in {"none", "ended"} /\ proc[attempt] \in {"none", "over"}

AttemptInv == TypeOK /\ InOrder /\ Reaped /\ Reported /\ Received

-----------------------------------------------------------------------------
(* The next attempt, where there is one, has not been started, and the one  *)
(* that ends here is over or never was: the step may retry.                *)
LEMMA RetryStep ==
  ASSUME AttemptInv, Retry, proc[attempt] \in {"none", "over"}, pc # "returned",
         UNCHANGED <<proc, exit>>,
         \/ waiter[attempt] = "none" /\ UNCHANGED waiter
         \/ waiter[attempt] # "none" /\ waiter' = [waiter EXCEPT ![attempt] = "ended"],
         ctx' = ctx
  PROVE  AttemptInv'
<1> USE MaxRetriesAssumption DEF AttemptInv, TypeOK, Attempts
<1>1. result' # "zero" /\ TypeOK'
  BY DEF Retry, Return, Reported
<1>2. InOrder'
  BY DEF InOrder, Retry, Return
<1>3. Reaped'
  BY DEF Reaped
<1>4. Received'
  BY DEF Received, Retry, Return
<1>5. QED
  BY <1>1, <1>2, <1>3, <1>4 DEF Reported

(* Killing or losing the shell moves an attempt towards its end and leaves *)
(* finished and future attempts alone.                                     *)
LEMMA ProcessStep ==
  ASSUME AttemptInv, NEW k \in Attempts, proc[k] \in {"shell", "children"},
         \E rest \in {"children", "over"} : proc' = [proc EXCEPT ![k] = rest],
         exit' = exit \/ \E code \in {"zero", "nonzero"} : exit' = [exit EXCEPT ![k] = code],
         UNCHANGED <<pc, attempt, ctx, waiter, result>>
  PROVE  AttemptInv'
<1> USE MaxRetriesAssumption DEF AttemptInv, TypeOK, Attempts
<1>1. k = attempt /\ pc \notin {"starting", "pausing"} /\ result # "zero"
  BY DEF InOrder, Reported
<1>2. TypeOK'
  OBVIOUS
<1>3. InOrder' /\ Reaped' /\ Reported' /\ Received'
  BY <1>1 DEF InOrder, Reaped, Reported, Received
<1>4. QED
  BY <1>2, <1>3

(* The invariant holds at the start and every step keeps it.               *)
LEMMA AttemptStep == AttemptInv /\ [Next]_vars => AttemptInv'
<1> SUFFICES ASSUME AttemptInv, [Next]_vars PROVE AttemptInv'
  OBVIOUS
<1> USE MaxRetriesAssumption DEF Attempts
<1>1. CASE StartFails
  <2>1. proc[attempt] = "none" /\ waiter[attempt] = "none"
    BY <1>1 DEF StartFails, AttemptInv, TypeOK, InOrder, Reaped
  <2>2. QED
    BY <1>1, <2>1, RetryStep DEF StartFails
<1>2. CASE Start
  BY <1>2 DEF Start, AttemptInv, TypeOK, InOrder, Reaped, Reported, Received
<1>3. CASE ReceiveExit
  <2>1. proc[attempt] = "over"
    BY <1>3 DEF ReceiveExit, AttemptInv, Reaped, TypeOK
  <2>2. CASE exit[attempt] = "zero"
    BY <1>3, <2>1, <2>2 DEF ReceiveExit, Return, AttemptInv, TypeOK, InOrder, Reaped,
                            Reported, Received
  <2>3. CASE exit[attempt] # "zero"
    BY <1>3, <2>1, <2>3, RetryStep DEF ReceiveExit
  <2>4. QED
    BY <2>2, <2>3
<1>4. CASE TimeOut
  BY <1>4 DEF TimeOut, KillShell, Return, AttemptInv, TypeOK, InOrder, Reaped, Reported, Received
<1>5. CASE Pause
  BY <1>5 DEF Pause, Return, AttemptInv, TypeOK, InOrder, Reaped, Reported, Received
<1>6. ASSUME NEW k \in Attempts, ShellExits(k) PROVE AttemptInv'
  BY <1>6, ProcessStep DEF ShellExits
<1>7. ASSUME NEW k \in Attempts, ChildrenEnd(k) PROVE AttemptInv'
  BY <1>7, ProcessStep DEF ChildrenEnd
<1>8. ASSUME NEW k \in Attempts, ContextKills(k) PROVE AttemptInv'
  BY <1>8, ProcessStep DEF ContextKills, KillShell
<1>9. ASSUME NEW k \in Attempts, WaitReturns(k) PROVE AttemptInv'
  BY <1>9 DEF WaitReturns, AttemptInv, TypeOK, InOrder, Reaped, Reported, Received
<1>10. CASE Deadline \/ UNCHANGED vars
  BY <1>10 DEF Deadline, vars, AttemptInv, TypeOK, InOrder, Reaped, Reported, Received
<1>11. QED
  BY <1>1, <1>2, <1>3, <1>4, <1>5, <1>6, <1>7, <1>8, <1>9, <1>10 DEF Next, Caller

(* The invariant is one of the specification.                              *)
LEMMA AttemptCorrect == Spec => []AttemptInv
<1>1. Init => AttemptInv
  BY MaxRetriesAssumption DEF Init, AttemptInv, TypeOK, InOrder, Reaped, Reported, Received,
                              Attempts
<1>2. QED
  BY <1>1, AttemptStep, PTL DEF Spec

-----------------------------------------------------------------------------
(* No two attempts of one call ever have processes at work together,        *)
(* however often it retries: Wait returns only when an attempt is over, and *)
(* a call that timed out does not try again.                               *)
THEOREM AttemptsNeverOverlap == Spec => []AttemptsDoNotOverlap
<1>1. AttemptInv => AttemptsDoNotOverlap
  BY MaxRetriesAssumption DEF AttemptInv, TypeOK, InOrder, AttemptsDoNotOverlap, Attempts
<1>2. QED
  BY <1>1, AttemptCorrect, PTL

(* A call that returned success ran a command that exited with 0 and left   *)
(* nothing behind.                                                         *)
THEOREM SuccessIsAlwaysReal == Spec => []SuccessIsReal
<1>1. AttemptInv => SuccessIsReal
  BY MaxRetriesAssumption DEF AttemptInv, TypeOK, InOrder, Reported, SuccessIsReal, Attempts
<1>2. QED
  BY <1>1, AttemptCorrect, PTL

(* A call leaves a process at work or a goroutine blocked only when its     *)
(* deadline passed, and only of its last attempt.                          *)
THEOREM OnlyTimeoutsEverLeaveWork == Spec => []OnlyTimeoutsLeaveWork
<1>1. AttemptInv => OnlyTimeoutsLeaveWork
  BY MaxRetriesAssumption DEF AttemptInv, TypeOK, InOrder, Reaped, Received,
                              OnlyTimeoutsLeaveWork, Attempts
<1>2. QED
  BY <1>1, AttemptCorrect, PTL

(* Every variable of the call keeps its type: no attempt after the last.    *)
THEOREM CallTypeCorrect == Spec => []TypeOK
<1>1. AttemptInv => TypeOK
  BY DEF AttemptInv
<1>2. QED
  BY <1>1, AttemptCorrect, PTL
=============================================================================
