---------------------------- MODULE ContainerRun ----------------------------
(***************************************************************************)
(* The base runner ContainerProjectRunner: the image it pulls in the        *)
(* background once the project is mounted, and one RunTask, which makes,    *)
(* starts and awaits a container under a context with a deadline.           *)
(*                                                                         *)
(* The docker daemon is external.  Every call to it may fail, a call whose  *)
(* answer is an error may have had its effect, and no call succeeds under a *)
(* context that is done.                                                   *)
(***************************************************************************)
EXTENDS Naturals

VARIABLES
  address,    (* The image the request names: none, only the docker:// prefix, *)
              (* something that does not parse, or an address.                *)
  image,      (* Whether this machine has that image.                        *)
  pull,       (* The goroutine that pulls it.                                *)
  place,      (* Where RunTask is.                                           *)
  container,  (* Its container: how far it came, or its exit code.           *)
  ended,      (* Why RunTask returned: the exit code, or the call that failed. *)
  left        (* Time left to the deadline of RunTask's context.             *)

containerVars == <<address, image, pull, place, container, ended, left>>

ContainerTypeOK ==
  /\ address \in {"none", "bare", "invalid", "valid"}
  /\ image \in {"absent", "present"}
  /\ pull \in {"idle", "checking", "pulling", "ready", "failed"}
  /\ place \in {"idle", "creating", "starting", "waiting", "reading", "returned"}
  /\ container \in {"none", "created", "running", "zero", "nonzero"}
  /\ ended \in {"none", "ok", "nonzero", "create", "start", "wait", "timeout", "logs"}
  /\ left \in Nat

(* The image of a valid address may be there from an earlier session.       *)
ContainerInit ==
  /\ address \in {"none", "bare", "invalid", "valid"}
  /\ image \in {"absent"} \cup {"present" : a \in {address} \cap {"valid"}}
  /\ pull = "idle" /\ place = "idle" /\ container = "none" /\ ended = "none"
  /\ left = 0

-----------------------------------------------------------------------------
(* PullImageIfNecessary.                                                   *)

(* A bare prefix leaves nothing to pull; otherwise the client, the address  *)
(* or the list of images may be the end of it.                             *)
CheckImage ==
  /\ pull = "checking"
  /\ \/ address = "bare" /\ pull' = "ready"
     \/ address # "bare" /\ pull' = "failed"
     \/ address = "valid" /\ pull' = IF image = "present" THEN "ready" ELSE "pulling"
  /\ UNCHANGED <<address, image, place, container, ended, left>>

(* An error inside the stream of the pull is copied to the output like any  *)
(* progress, so a pull may be reported ready without an image.  The report  *)
(* is only logged.                                                         *)
PullImage ==
  /\ pull = "pulling"
  /\ image' \in {"absent", "present"}
  /\ pull' \in {"ready", "failed"}
  /\ UNCHANGED <<address, place, container, ended, left>>

-----------------------------------------------------------------------------
(* RunTask.                                                                *)

End(how) == place' = "returned" /\ ended' = how

(* Without the image the daemon refuses.                                   *)
CreateContainer ==
  /\ place = "creating" /\ left > 0 /\ image = "present"
  /\ place' = "starting"
  /\ container' = "created"
  /\ UNCHANGED <<address, image, pull, ended, left>>

(* No client, or no container: the result is an error like any other.      *)
NoContainer ==
  /\ place = "creating"
  /\ End("create")
  /\ UNCHANGED <<address, image, pull, container, left>>

StartContainer ==
  /\ place = "starting" /\ left > 0
  /\ place' = "waiting"
  /\ container' = "running"
  /\ UNCHANGED <<address, image, pull, ended, left>>

NoStart ==
  /\ place = "starting"
  /\ container' \in {"created", "running"}
  /\ End("start")
  /\ UNCHANGED <<address, image, pull, left>>

(* Mutant: the wait is made before the start, and a container that has not   *)
(* been started is not running.                                            *)
StatusArrivesAtOnce ==
  /\ place = "waiting"
  /\ place' = "reading"
  /\ UNCHANGED <<address, image, pull, container, ended, left>>

StatusArrives ==
  /\ place = "waiting" /\ container \in {"zero", "nonzero"}
  /\ place' = "reading"
  /\ UNCHANGED <<address, image, pull, container, ended, left>>

WaitFails ==
  /\ place = "waiting" /\ left > 0
  /\ End("wait")
  /\ UNCHANGED <<address, image, pull, container, left>>

(* Mutant: RunTask sees to it that the container has stopped.              *)
TimeOutWhenStopped ==
  /\ place = "waiting" /\ left = 0 /\ container # "running"
  /\ End("timeout")
  /\ UNCHANGED <<address, image, pull, container, left>>

(* The deadline: the container is neither stopped nor removed, since the    *)
(* deferred clean-up is commented out.                                     *)
ContainerTimeOut ==
  /\ place = "waiting" /\ left = 0
  /\ End("timeout")
  /\ UNCHANGED <<address, image, pull, container, left>>

(* Mutant: the status code is not looked at.                               *)
ReadLogsOnly ==
  /\ place = "reading" /\ left > 0
  /\ End("ok")
  /\ UNCHANGED <<address, image, pull, container, left>>

ReadLogs ==
  /\ place = "reading" /\ left > 0
  /\ End(IF container = "zero" THEN "ok" ELSE "nonzero")
  /\ UNCHANGED <<address, image, pull, container, left>>

(* The output cannot be had: an error, whatever the container's exit code.  *)
LogsFail ==
  /\ place = "reading"
  /\ End("logs")
  /\ UNCHANGED <<address, image, pull, container, left>>

ContainerStep ==
  \/ CreateContainer \/ NoContainer
  \/ StartContainer \/ NoStart
  \/ StatusArrives \/ WaitFails \/ ContainerTimeOut
  \/ ReadLogs \/ LogsFail

(* The command in the container ends, whether or not anyone waits for it.   *)
ContainerExits ==
  /\ container = "running"
  /\ container' \in {"zero", "nonzero"}
  /\ UNCHANGED <<address, image, pull, place, ended, left>>

ContainerNext == CheckImage \/ PullImage \/ ContainerStep \/ ContainerExits
=============================================================================
