----------------------------- MODULE BaseRunner -----------------------------
(***************************************************************************)
(* One worker, one command, and the base runner that executes it: a shell   *)
(* or a container.  The command's record in the store is claimed for the    *)
(* run and settled after it, and it lives for TaskTTL from its last change, *)
(* while what the run started may outlive the run.  Once the record is      *)
(* unclaimed, another executor may run the command.                        *)
(*                                                                         *)
(* The call of module ExecCommand is one of three: the command of            *)
(* LocalProjectRunner, the mount that comes before the image and the tasks  *)
(* of ContainerProjectRunner, or the umount of either.  What errors of the  *)
(* store do is in Dispatch; here the store is reliable and time passes.     *)
(***************************************************************************)
EXTENDS ExecCommand, ContainerRun

CONSTANTS
  LocalTimeout,      (* Deadlines of RunTask: in a shell on the client's own *)
  RemoteTimeout,     (* machine, in a shell elsewhere, in a container; and   *)
  ContainerTimeout,  (* the life of a record.  All in one unit of time,      *)
  TaskTTL            (* rounded up.                                         *)

ASSUME TimesAssumption ==
  /\ LocalTimeout \in Nat \ {0}
  /\ RemoteTimeout \in Nat \ {0}
  /\ ContainerTimeout \in Nat \ {0}
  /\ TaskTTL \in Nat \ {0}

VARIABLES
  use,       (* What the call of ExecCommand is for.                        *)
  onClient,  (* isLocalExecutor.                                            *)
  record,    (* The record of the command in the store.                     *)
  ttl,       (* Time left to its expiry.                                    *)
  worker,    (* Our worker: before, in or after its run of the command.     *)
  other      (* The worker of another executor.                             *)

storeVars == <<use, onClient, record, ttl, worker, other>>

runnerVars == <<vars, containerVars, storeVars>>

RunnerTypeOK ==
  /\ ContainerTypeOK
  /\ use \in {"task", "mount", "umount"}
  /\ onClient \in BOOLEAN
  /\ record \in {"unclaimed", "claimed", "done", "absent"}
  /\ ttl \in 0..TaskTTL
  /\ worker \in {"idle", "running", "settled"}
  /\ other \in {"none", "running", "settled"}

(* NewScheduledProjectRunner: a container for a request that names an image. *)
Containerized == address # "none"

Timeout ==
  IF Containerized THEN ContainerTimeout
  ELSE IF onClient THEN LocalTimeout ELSE RemoteTimeout

(* The project on the client's own machine is not mounted, unless its       *)
(* commands run in containers.  A project is cleaned up when it has no      *)
(* command left.                                                           *)
RunnerInit ==
  /\ Init /\ ContainerInit
  /\ onClient \in BOOLEAN
  /\ use \in IF Containerized THEN {"mount", "umount"}
              ELSE {"task"} \cup {"umount" : c \in {onClient} \cap {FALSE}}
  /\ record = IF use = "umount" THEN "absent" ELSE "unclaimed"
  /\ ttl = IF use = "umount" THEN 0 ELSE TaskTTL
  /\ worker = "idle" /\ other = "none"

-----------------------------------------------------------------------------
(* The call of ExecCommand.                                                *)

MountNFS == use = "mount" /\ Caller

UnmountNFS == use = "umount" /\ Caller

LocalRunTask == use = "task" /\ worker = "running" /\ Caller

CallerRuns ==
  /\ MountNFS \/ UnmountNFS \/ LocalRunTask
  /\ UNCHANGED <<containerVars, storeVars>>

ProcessesRun ==
  /\ \E k \in Attempts : ShellExits(k) \/ ChildrenEnd(k) \/ ContextKills(k) \/ WaitReturns(k)
  /\ UNCHANGED <<containerVars, storeVars>>

(* Mounts and umounts are given seconds, tasks their Timeout.  The umount of *)
(* the container runner has the context of its request, which has no        *)
(* deadline, but is cancelled when the proxy dies.                          *)
HasDeadline == use = "umount" => ~Containerized

DeadlinePasses ==
  /\ use = "task" => worker = "running" /\ left = 0
  /\ Deadline
  /\ UNCHANGED <<containerVars, storeVars>>

-----------------------------------------------------------------------------
(* The container runner.                                                   *)

(* The project is mounted: the pull is left to a goroutine.                 *)
ImageWanted ==
  /\ use = "mount" /\ pull = "idle" /\ result = "zero"
  /\ pull' = "checking"
  /\ UNCHANGED <<vars, address, image, place, container, ended, left, storeVars>>

ContainerRuns == ContainerNext /\ UNCHANGED <<vars, storeVars>>

-----------------------------------------------------------------------------
(* The worker.                                                             *)

(* The environment is prepared; the pull may still be under way.            *)
Prepared == use = "task" \/ pull # "idle"

(* Changing a record renews its life.                                      *)
Mark(status) == record' = status /\ ttl' = TaskTTL

(* Mutant: the claim does not renew the record's life.                      *)
ClaimAndRunUnrenewed ==
  /\ worker = "idle" /\ record = "unclaimed" /\ Prepared
  /\ record' = "claimed"
  /\ worker' = "running"
  /\ left' = Timeout
  /\ place' = IF Containerized THEN "creating" ELSE place
  /\ UNCHANGED <<vars, address, image, pull, container, ended, use, onClient, ttl, other>>

(* The claim, the fetch of the text and the start of RunTask's clock, which *)
(* are seconds apart.                                                      *)
ClaimAndRun ==
  /\ worker = "idle" /\ record = "unclaimed" /\ Prepared
  /\ Mark("claimed")
  /\ worker' = "running"
  /\ left' = Timeout
  /\ place' = IF Containerized THEN "creating" ELSE place
  /\ UNCHANGED <<vars, address, image, pull, container, ended, use, onClient, other>>

Returned  == IF Containerized THEN place = "returned" ELSE pc = "returned"
Succeeded == IF Containerized THEN ended = "ok" ELSE result = "zero"

(* TryFinishTask or UnclaimTask, of no effect on a record that expired.     *)
Settle ==
  /\ worker = "running" /\ Returned
  /\ worker' = "settled"
  /\ IF record = "claimed"
     THEN Mark(IF Succeeded THEN "done" ELSE "unclaimed")
     ELSE UNCHANGED <<record, ttl>>
  /\ UNCHANGED <<vars, containerVars, use, onClient, other>>

-----------------------------------------------------------------------------
(* The other executor, and the clock.                                      *)

OtherClaims ==
  /\ other = "none" /\ record = "unclaimed"
  /\ other' = "running"
  /\ Mark("claimed")
  /\ UNCHANGED <<vars, containerVars, use, onClient, worker>>

OtherSettles ==
  /\ other = "running"
  /\ other' = "settled"
  /\ IF record = "claimed"
     THEN \E status \in {"done", "unclaimed"} : Mark(status)
     ELSE UNCHANGED <<record, ttl>>
  /\ UNCHANGED <<vars, containerVars, use, onClient, worker>>

Less(n) == IF n = 0 THEN 0 ELSE n - 1

(* Mutant: a clock that does not stop at zero.                              *)
TickOn ==
  /\ record # "absent" \/ worker = "running"
  /\ worker = "running" => left > 0
  /\ left' = Less(left)
  /\ ttl' = ttl - 1
  /\ record' = IF ttl = 1 THEN "absent" ELSE record
  /\ UNCHANGED <<vars, address, image, pull, place, container, ended, use, onClient,
                 worker, other>>

(* A unit of time.  A run whose deadline has passed is settled before the   *)
(* next one, since every call it makes ends with the context.              *)
Tick ==
  /\ record # "absent" \/ worker = "running"
  /\ worker = "running" => left > 0
  /\ left' = Less(left)
  /\ ttl' = Less(ttl)
  /\ record' = IF ttl' = 0 THEN "absent" ELSE record
  /\ UNCHANGED <<vars, address, image, pull, place, container, ended, use, onClient,
                 worker, other>>

RunnerNext ==
  \/ CallerRuns \/ ProcessesRun \/ DeadlinePasses
  \/ ImageWanted \/ ContainerRuns
  \/ ClaimAndRun \/ Settle
  \/ OtherClaims \/ OtherSettles
  \/ Tick

RunnerSpec == RunnerInit /\ [][RunnerNext]_runnerVars

(* The worker and the caller are scheduled, time passes, and the calls to   *)
(* docker end once their context is done.  Nothing is assumed of commands,  *)
(* containers, pulls or the other executor.                                *)
RunnerFairness ==
  /\ WF_runnerVars(CallerRuns)
  /\ WF_runnerVars(HasDeadline /\ DeadlinePasses)
  /\ WF_runnerVars(left = 0 /\ ContainerStep /\ UNCHANGED <<vars, storeVars>>)
  /\ WF_runnerVars(Settle)
  /\ WF_runnerVars(Tick)

RunnerFairSpec == RunnerSpec /\ RunnerFairness

-----------------------------------------------------------------------------
(* Properties.                                                             *)

(* What our run started is still at work on the project.                    *)
AtWork ==
  \/ container = "running"
  \/ use = "task" /\ \E k \in Attempts : proc[k] \in {"shell", "children"}

(* Our run was given up with its outcome unknown.                           *)
GivenUp ==
  IF Containerized THEN ended \in {"start", "wait", "timeout"} ELSE ctx = "done"

(* Two executors work at one command at a time only if the first had given  *)
(* its run up: at the deadline, or, with a container, on an error of start  *)
(* or wait.  A run that ended by itself, failed at its logs or was never    *)
(* started leaves nothing at work for the second to meet.                   *)
WorkIsExclusive == other = "running" /\ AtWork => worker = "settled" /\ GivenUp

(* The record of a command lives as long as the run that holds it, for      *)
(* every runner whose deadline is shorter than TaskTTL: only a container    *)
(* can run past the record of its command.                                 *)
ClaimOutlivesRun ==
  worker = "running" /\ Timeout < TaskTTL => record = "claimed"

(* When our run has been settled and nobody else has had the command, the   *)
(* record is not left claimed, and it says done only of a command that      *)
(* exited with 0 and has nothing at work any more.                          *)
RecordIsTrue ==
  worker = "settled" /\ other = "none" =>
    /\ record # "claimed"
    /\ record = "done" =>
         /\ IF Containerized THEN container = "zero" ELSE exit[attempt] = "zero"
         /\ ~AtWork

(* A call that has a deadline and has started its command returns, also     *)
(* when what the shell started never ends: neither a worker of the pool nor *)
(* the handler that mounts or umounts is lost to a command that hangs.      *)
AlwaysReturns ==
  HasDeadline /\ pc \in {"waiting", "pausing"} ~> pc = "returned"

(* Every run of a command is settled, even when the command, its container  *)
(* or the pull of its image never ends.                                    *)
EveryRunSettles == worker = "running" ~> worker = "settled"
=============================================================================
