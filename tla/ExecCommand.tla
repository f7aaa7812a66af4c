----------------------------- MODULE ExecCommand -----------------------------
(***************************************************************************)
(* One call of ExecCommand: attempts to run a shell command under a        *)
(* context with a deadline, with a pause before every new attempt.  An     *)
(* attempt is the shell, what the shell started (which holds the output     *)
(* pipes), and the goroutine that waits for both and then hands over the   *)
(* exit code.                                                              *)
(***************************************************************************)
EXTENDS Naturals

CONSTANT MaxRetries

ASSUME MaxRetriesAssumption == MaxRetries \in Nat

Attempts == 0..MaxRetries

VARIABLES
  pc,       (* Where the caller is.                                         *)
  attempt,  (* The attempt it is at.                                        *)
  ctx,      (* Whether the deadline has passed.                             *)
  proc,     (* proc[k]: the processes of attempt k: none yet, the shell and *)
            (* its children, only children, or over.                        *)
  exit,     (* exit[k]: how attempt k ended.                                *)
  waiter,   (* waiter[k]: the goroutine of attempt k.                       *)
  result    (* What the call returned: the code "zero", or another.         *)

vars == <<pc, attempt, ctx, proc, exit, waiter, result>>

TypeOK ==
  /\ pc \in {"starting", "waiting", "pausing", "returned"}
  /\ attempt \in Attempts
  /\ ctx \in {"live", "done"}
  /\ proc \in [Attempts -> {"none", "shell", "children", "over"}]
  /\ exit \in [Attempts -> {"none", "zero", "nonzero"}]
  /\ waiter \in [Attempts -> {"none", "waiting", "sending", "ended"}]
  /\ result \in {"none", "zero", "nonzero"}

Init ==
  /\ pc = "starting" /\ attempt = 0 /\ ctx = "live"
  /\ proc = [k \in Attempts |-> "none"]
  /\ exit = [k \in Attempts |-> "none"]
  /\ waiter = [k \in Attempts |-> "none"]
  /\ result = "none"

-----------------------------------------------------------------------------
(* The caller.                                                             *)

Return(code) == pc' = "returned" /\ result' = code /\ UNCHANGED attempt

(* Mutant: one attempt too many.                                           *)
RetryOnceMore ==
  IF attempt <= MaxRetries
  THEN pc' = "pausing" /\ attempt' = attempt + 1 /\ UNCHANGED result
  ELSE Return("nonzero")

Retry ==
  IF attempt < MaxRetries
  THEN pc' = "pausing" /\ attempt' = attempt + 1 /\ UNCHANGED result
  ELSE Return("nonzero")

StartFails ==
  /\ pc = "starting"
  /\ Retry
  /\ UNCHANGED <<ctx, proc, exit, waiter>>

(* A context that is done already makes Start fail.                        *)
Start ==
  /\ pc = "starting" /\ ctx = "live"
  /\ pc' = "waiting"
  /\ proc' = [proc EXCEPT ![attempt] = "shell"]
  /\ waiter' = [waiter EXCEPT ![attempt] = "waiting"]
  /\ UNCHANGED <<attempt, ctx, exit, result>>

(* Mutant: the attempt counts as a success when Wait has returned.         *)
ReceiveAnyExit ==
  /\ pc = "waiting" /\ waiter[attempt] = "sending"
  /\ waiter' = [waiter EXCEPT ![attempt] = "ended"]
  /\ Return("zero")
  /\ UNCHANGED <<ctx, proc, exit>>

ReceiveExit ==
  /\ pc = "waiting" /\ waiter[attempt] = "sending"
  /\ waiter' = [waiter EXCEPT ![attempt] = "ended"]
  /\ IF exit[attempt] = "zero" THEN Return("zero") ELSE Retry
  /\ UNCHANGED <<ctx, proc, exit>>

(* What Kill can do to an attempt: only the shell is killed.               *)
KillShell(k) ==
  IF proc[k] = "shell"
  THEN /\ \E rest \in {"children", "over"} : proc' = [proc EXCEPT ![k] = rest]
       /\ exit' = [exit EXCEPT ![k] = "nonzero"]
  ELSE UNCHANGED <<proc, exit>>

(* Mutant: every attempt has a deadline of its own, and the next one follows. *)
TimeOutAndRetry ==
  /\ pc = "waiting"
  /\ KillShell(attempt)
  /\ Retry
  /\ UNCHANGED <<ctx, waiter>>

(* Mutant: the caller waits for the goroutine after killing the shell.     *)
TimeOutWhenReaped ==
  /\ pc = "waiting" /\ ctx = "done" /\ waiter[attempt] = "sending"
  /\ Return("nonzero")
  /\ UNCHANGED <<ctx, proc, exit, waiter>>

(* The deadline: the shell is killed and the call returns, without waiting *)
(* for what the shell started or for the goroutine.                        *)
TimeOut ==
  /\ pc = "waiting" /\ ctx = "done"
  /\ KillShell(attempt)
  /\ Return("nonzero")
  /\ UNCHANGED <<ctx, waiter>>

Pause ==
  /\ pc = "pausing"
  /\ \/ pc' = "starting" /\ UNCHANGED <<attempt, result>>
     \/ ctx = "done" /\ Return("nonzero")
  /\ UNCHANGED <<ctx, proc, exit, waiter>>

Caller == StartFails \/ Start \/ ReceiveExit \/ TimeOut \/ Pause

-----------------------------------------------------------------------------
(* The processes, the goroutines, the clock.                               *)

ShellExits(k) ==
  /\ proc[k] = "shell"
  /\ \E rest \in {"children", "over"} : proc' = [proc EXCEPT ![k] = rest]
  /\ \E code \in {"zero", "nonzero"} : exit' = [exit EXCEPT ![k] = code]
  /\ UNCHANGED <<pc, attempt, ctx, waiter, result>>

ChildrenEnd(k) ==
  /\ proc[k] = "children"
  /\ proc' = [proc EXCEPT ![k] = "over"]
  /\ UNCHANGED <<pc, attempt, ctx, exit, waiter, result>>

(* The package kills the shell of an attempt whose context is done.        *)
ContextKills(k) ==
  /\ ctx = "done" /\ proc[k] = "shell"
  /\ KillShell(k)
  /\ UNCHANGED <<pc, attempt, ctx, waiter, result>>

(* Mutant: the output goes to files, so Wait returns with the shell.        *)
WaitReturnsWithShell(k) ==
  /\ waiter[k] = "waiting" /\ proc[k] \in {"children", "over"}
  /\ waiter' = [waiter EXCEPT ![k] = "sending"]
  /\ UNCHANGED <<pc, attempt, ctx, proc, exit, result>>

(* Wait returns when the shell has exited and the output pipes are closed. *)
WaitReturns(k) ==
  /\ waiter[k] = "waiting" /\ proc[k] = "over"
  /\ waiter' = [waiter EXCEPT ![k] = "sending"]
  /\ UNCHANGED <<pc, attempt, ctx, proc, exit, result>>

Deadline ==
  /\ ctx = "live"
  /\ ctx' = "done"
  /\ UNCHANGED <<pc, attempt, proc, exit, waiter, result>>

Next ==
  \/ Caller
  \/ Deadline
  \/ \E k \in Attempts : ShellExits(k) \/ ChildrenEnd(k) \/ ContextKills(k) \/ WaitReturns(k)

Spec == Init /\ [][Next]_vars

-----------------------------------------------------------------------------
(* Properties.                                                             *)

(* No attempt begins while anything of an earlier one still runs, so one    *)
(* call never has two copies of a command at work.                         *)
AttemptsDoNotOverlap ==
  \A j, k \in Attempts :
    j < k /\ proc[j] \in {"shell", "children"} => proc[k] = "none"

(* Success is reported only of a command that exited with 0 and of which    *)
(* nothing runs any more, however exit, kill and deadline race.            *)
SuccessIsReal ==
  result = "zero" => exit[attempt] = "zero" /\ \A k \in Attempts : proc[k] \in {"none", "over"}

(* What a call leaves behind, a process at work or a goroutine that blocks  *)
(* on its channel for ever, it leaves because its deadline passed, and only *)
(* of its last attempt.                                                    *)
OnlyTimeoutsLeaveWork ==
  \A k \in Attempts :
    proc[k] \in {"shell", "children"} \/ waiter[k] \in {"waiting", "sending"} =>
      k = attempt /\ (pc = "waiting" \/ ctx = "done")
=============================================================================
