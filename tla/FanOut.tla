------------------------------- MODULE FanOut -------------------------------
(***************************************************************************)
(* The goroutines of one ForwardAndExecute request: one per executor, the  *)
(* goroutine that closes the channels when all of them are done, and the   *)
(* handler that waits for the first success, for the end of all of them or *)
(* for the client to go away.  Channel operations are the steps.           *)
(***************************************************************************)
EXTENDS Naturals, FiniteSets, Sequences

CONSTANT Executors   (* The executors of the project.                       *)

ASSUME ExecutorsAssumption == IsFiniteSet(Executors) /\ Executors # {}

VARIABLES
  pc,           (* pc[e]: where the goroutine that calls executor e is.     *)
  reply,        (* reply[e]: the status code of e's reply, or "none".       *)
  wg,           (* The counter of the WaitGroup.                            *)
  resultChan,   (* The results sent and not yet received.                   *)
  successChan,  (* The first success.                                       *)
  closed,       (* The channels the closer has closed.                      *)
  handler,      (* Where the handler is.                                    *)
  verdict,      (* What the handler concluded from the replies.             *)
  up            (* The process has not exited.                              *)

vars == <<pc, reply, wg, resultChan, successChan, closed, handler, verdict, up>>

chans == <<resultChan, successChan, closed>>

TypeOK ==
  /\ pc \in [Executors -> {"new", "calling", "sending", "signalling", "leaving", "ended"}]
  /\ reply \in [Executors -> {"none", "ok", "bad"}]
  /\ wg \in 0..Cardinality(Executors)
  /\ resultChan \in Seq(Executors)
  /\ successChan \in Seq(Executors) /\ Len(successChan) <= 1
  /\ closed \subseteq {"result", "done"}
  /\ handler \in {"spawning", "selecting", "scanning", "returned"}
  /\ verdict \in {"open", "success", "exhausted", "cancelled"}
  /\ up \in BOOLEAN

Init ==
  /\ pc = [e \in Executors |-> "new"]
  /\ reply = [e \in Executors |-> "none"]
  /\ wg = 0
  /\ resultChan = <<>> /\ successChan = <<>> /\ closed = {}
  /\ handler = "spawning"
  /\ verdict = "open"
  /\ up = TRUE

(* Mutant: one slot, as for the channel of the first success.              *)
ResultCapOne == 1

(* Every executor's result finds room, received or not.                     *)
ResultCap == Cardinality(Executors)

-----------------------------------------------------------------------------
(* The handler starts the goroutines, in an order that makes no difference. *)

Goto(e, place) == pc' = [pc EXCEPT ![e] = place]

Spawn(e) ==
  /\ up /\ handler = "spawning" /\ pc[e] = "new"
  /\ wg' = wg + 1
  /\ Goto(e, "calling")
  /\ UNCHANGED <<reply, chans, handler, verdict, up>>

(* The last goroutine it starts is the one that closes the channels.       *)
SpawnCloser ==
  /\ up /\ handler = "spawning" /\ \A e \in Executors : pc[e] # "new"
  /\ handler' = "selecting"
  /\ UNCHANGED <<pc, reply, wg, chans, verdict, up>>

-----------------------------------------------------------------------------
(* The goroutine of executor e.                                            *)

ReceiveReply(e) ==
  /\ up /\ pc[e] = "calling"
  /\ \E answer \in {"ok", "bad"} : reply' = [reply EXCEPT ![e] = answer]
  /\ Goto(e, "sending")
  /\ UNCHANGED <<wg, chans, handler, verdict, up>>

(* The call ends in an RPC error, which is logged with Fatalw.             *)
CallFails(e) ==
  /\ up /\ pc[e] = "calling"
  /\ up' = FALSE
  /\ UNCHANGED <<pc, reply, wg, chans, handler, verdict>>

SendResult(e) ==
  /\ up /\ pc[e] = "sending"
  /\ Len(resultChan) < ResultCap
  /\ resultChan' = Append(resultChan, e)
  /\ Goto(e, IF reply[e] = "ok" THEN "signalling" ELSE "leaving")
  /\ UNCHANGED <<reply, wg, successChan, closed, handler, verdict, up>>

(* Mutant: the success is sent whether or not one is already there.        *)
SignalSuccessTwice(e) ==
  /\ up /\ pc[e] = "signalling"
  /\ successChan' = Append(successChan, e)
  /\ Goto(e, "leaving")
  /\ UNCHANGED <<reply, wg, resultChan, closed, handler, verdict, up>>

(* The select with a default branch: a success nobody needs is dropped.    *)
SignalSuccess(e) ==
  /\ up /\ pc[e] = "signalling"
  /\ successChan' = IF successChan = <<>> THEN <<e>> ELSE successChan
  /\ Goto(e, "leaving")
  /\ UNCHANGED <<reply, wg, resultChan, closed, handler, verdict, up>>

(* The deferred wg.Done().                                                 *)
Leave(e) ==
  /\ up /\ pc[e] = "leaving"
  /\ wg' = wg - 1
  /\ Goto(e, "ended")
  /\ UNCHANGED <<reply, chans, handler, verdict, up>>

-----------------------------------------------------------------------------
(* The closing goroutine: wg.Wait(), then one channel after the other.     *)

Close(c) ==
  /\ closed' = closed \cup {c}
  /\ UNCHANGED <<pc, reply, wg, resultChan, successChan, handler, verdict, up>>

(* Mutant: the channel is closed as soon as the request is answered.       *)
CloseWhenReturned ==
  /\ up /\ handler # "spawning" /\ "result" \notin closed
  /\ wg = 0 \/ handler = "returned"
  /\ Close("result")

CloseResultChan ==
  /\ up /\ handler # "spawning" /\ wg = 0 /\ "result" \notin closed
  /\ Close("result")

(* Mutant: the channel the handler waits on is never closed.               *)
CloseDoneChanForgotten == FALSE /\ UNCHANGED vars

CloseDoneChan ==
  /\ up /\ "result" \in closed /\ "done" \notin closed
  /\ Close("done")

-----------------------------------------------------------------------------
(* The handler.  When several branches of its select are ready, Go takes   *)
(* any of them.                                                            *)

Return(v) ==
  /\ handler' = "returned"
  /\ verdict' = v

TakeSuccess ==
  /\ up /\ handler = "selecting" /\ successChan # <<>>
  /\ successChan' = Tail(successChan)
  /\ Return("success")
  /\ UNCHANGED <<pc, reply, wg, resultChan, closed, up>>

ContextDone ==
  /\ up /\ handler = "selecting"
  /\ Return("cancelled")
  /\ UNCHANGED <<pc, reply, wg, chans, up>>

(* Mutant: all goroutines are done and none was seen to succeed.           *)
SeeDoneAsFailure ==
  /\ up /\ handler = "selecting" /\ "done" \in closed
  /\ Return("exhausted")
  /\ UNCHANGED <<pc, reply, wg, chans, up>>

SeeDone ==
  /\ up /\ handler = "selecting" /\ "done" \in closed
  /\ handler' = "scanning"
  /\ UNCHANGED <<pc, reply, wg, chans, verdict, up>>

(* The loop over resultChan: it ends at the first success, or when the      *)
(* channel is empty and closed.                                            *)
ScanResult ==
  /\ up /\ handler = "scanning"
  /\ \/ /\ resultChan # <<>>
        /\ resultChan' = Tail(resultChan)
        /\ IF reply[Head(resultChan)] = "ok" THEN Return("success")
                                             ELSE UNCHANGED <<handler, verdict>>
     \/ /\ resultChan = <<>> /\ "result" \in closed
        /\ Return("exhausted")
        /\ UNCHANGED resultChan
  /\ UNCHANGED <<pc, reply, wg, successChan, closed, up>>

-----------------------------------------------------------------------------

Goroutine(e) == ReceiveReply(e) \/ SendResult(e) \/ SignalSuccess(e) \/ Leave(e)

Closer == CloseResultChan \/ CloseDoneChan

Handler == SpawnCloser \/ TakeSuccess \/ SeeDone \/ ScanResult

Next ==
  \/ \E e \in Executors : Spawn(e) \/ Goroutine(e) \/ CallFails(e)
  \/ Closer
  \/ Handler
  \/ ContextDone

Spec == Init /\ [][Next]_vars

(* Goroutines are scheduled.  That every call comes back is what           *)
(* EveryRpcReturns of module Dispatch is about.                            *)
Fairness ==
  /\ \A e \in Executors : WF_vars(Spawn(e)) /\ WF_vars(Goroutine(e))
  /\ WF_vars(Closer)
  /\ WF_vars(Handler)

FairSpec == Spec /\ Fairness

-----------------------------------------------------------------------------
(* Properties.                                                             *)

(* The goroutines and channels of tryExecuteWithRetry implement Gather:    *)
(* a success is never overlooked, whichever branch the select takes and    *)
(* whatever the handler has received, and "all failed" is never concluded  *)
(* before every executor has replied.                                      *)
Gathering == INSTANCE Gather
GatherSpec == Gathering!Spec

(* No goroutine can still send when the closing goroutine has closed       *)
(* resultChan: that send would panic and end the daemon.                   *)
NoSendAfterClose ==
  "result" \in closed => \A e \in Executors : pc[e] \notin {"new", "calling", "sending"}

(* Every goroutine ends, also those whose request was answered or given up *)
(* long before: none is left blocked on a channel nobody reads.            *)
GoroutinesEnd ==
  \A e \in Executors : pc[e] = "calling" ~> (pc[e] = "ended" \/ ~up)

(* The handler always gets out of its select and its scan.                 *)
HandlerReturns == handler = "selecting" ~> (handler = "returned" \/ ~up)
=============================================================================
