-------------------------- MODULE BaseRunnerProofs ---------------------------
(***************************************************************************)
(* Theorems about BaseRunner, for any timeouts, any life of the records and *)
(* any number of retries.                                                  *)
(***************************************************************************)
EXTENDS BaseRunner, ExecCommandProofs

(* The claim and the run it is made for.  A clock that is reset with the    *)
(* claim and runs for Timeout stays ahead of one that runs for TaskTTL.     *)
ClaimHeld ==
  /\ worker = "running" \/ other = "running" => record \in {"claimed", "absent"}
  /\ ~(worker = "running" /\ other = "running")
  /\ worker = "running" /\ Timeout < TaskTTL =>
       record = "claimed" /\ ttl + Timeout >= left + TaskTTL

(* What a run has started, by where it is.                                  *)
InPlace ==
  /\ use = "task" => ~Containerized
  /\ use = "mount" \/ pull # "idle" => Containerized
  /\ place # "idle" => Containerized
  /\ worker = "idle" => place = "idle" /\ (use = "task" => pc = "starting" /\ attempt = 0)
  /\ place \in {"idle", "creating"} => container = "none"
  /\ place = "starting" => container = "created"
  /\ place = "reading" => container \in {"zero", "nonzero"}
  /\ place # "returned" => ended = "none"
  /\ container = "running" /\ place = "returned" => ended \in {"start", "wait", "timeout"}
  /\ ended = "ok" => container = "zero"

(* A settled run has returned, and the record says how it ended.            *)
Recorded ==
  /\ worker = "settled" => Returned
  /\ worker # "idle" /\ ~Containerized => use = "task"
  /\ worker = "settled" /\ other = "none" =>
       record # "claimed" /\ (record = "done" => Succeeded)

RunnerInv == AttemptInv /\ RunnerTypeOK /\ ClaimHeld /\ InPlace /\ Recorded

USE TimesAssumption

-----------------------------------------------------------------------------
(* A step of the runner is a step of its call of ExecCommand or none.       *)
LEMMA CallStep == [RunnerNext]_runnerVars => [Next]_vars
BY DEF RunnerNext, runnerVars, CallerRuns, MountNFS, UnmountNFS, LocalRunTask, ProcessesRun,
       DeadlinePasses, ImageWanted, ContainerRuns, ClaimAndRun, Settle, OtherClaims,
       OtherSettles, Tick, Next

(* What a run, a mount or an umount makes of ExecCommand is a call of it, so *)
(* the theorems about ExecCommand hold of every run.                        *)
THEOREM RunnerMakesCalls == RunnerSpec => Spec
<1>1. RunnerInit => Init
  BY DEF RunnerInit
<1>2. QED
  BY <1>1, CallStep, PTL DEF RunnerSpec, Spec

(* The two branches of the runner's creation and its deadline do not change. *)
LEMMA Fixed ==
  ASSUME [RunnerNext]_runnerVars
  PROVE  UNCHANGED <<address, use, onClient>>
BY DEF RunnerNext, runnerVars, storeVars, containerVars, CallerRuns, ProcessesRun,
       DeadlinePasses, ImageWanted, ContainerRuns, ClaimAndRun, Settle, OtherClaims,
       OtherSettles, Tick, ContainerNext, CheckImage, PullImage, ContainerStep,
       CreateContainer, NoContainer, StartContainer, NoStart, StatusArrives, WaitFails,
       ContainerTimeOut, ReadLogs, LogsFail, ContainerExits

LEMMA TimeoutType == RunnerTypeOK => Timeout \in Nat \ {0}
BY DEF Timeout

LEMMA TypeStep == RunnerTypeOK /\ [RunnerNext]_runnerVars => RunnerTypeOK'
<1> SUFFICES ASSUME RunnerTypeOK, [RunnerNext]_runnerVars PROVE RunnerTypeOK'
  OBVIOUS
<1> USE DEF RunnerTypeOK, ContainerTypeOK, containerVars, storeVars
<1>1. CASE CallerRuns \/ ProcessesRun \/ DeadlinePasses \/ UNCHANGED runnerVars
  BY <1>1 DEF CallerRuns, ProcessesRun, DeadlinePasses, runnerVars
<1>2. CASE ImageWanted
  BY <1>2 DEF ImageWanted
<1>3. CASE ContainerRuns
  BY <1>3 DEF ContainerRuns, ContainerNext, CheckImage, PullImage, ContainerStep, End,
              CreateContainer, NoContainer, StartContainer, NoStart, StatusArrives,
              WaitFails, ContainerTimeOut, ReadLogs, LogsFail, ContainerExits
<1>4. CASE ClaimAndRun
  BY <1>4, TimeoutType DEF ClaimAndRun, Mark
<1>5. CASE Settle \/ OtherClaims \/ OtherSettles
  BY <1>5 DEF Settle, OtherClaims, OtherSettles, Mark
<1>6. CASE Tick
  BY <1>6 DEF Tick, Less
<1>7. QED
  BY <1>1, <1>2, <1>3, <1>4, <1>5, <1>6 DEF RunnerNext

-----------------------------------------------------------------------------
(* Only claims, settlements and the clock touch the record.                 *)
LEMMA ClaimStep ==
  ASSUME RunnerTypeOK, ClaimHeld, [RunnerNext]_runnerVars
  PROVE  ClaimHeld'
<1> DEFINE T == Timeout
<1>1. T \in Nat \ {0} /\ Timeout' = T
  BY TimeoutType, Fixed DEF Timeout, Containerized
<1> HIDE DEF T
<1> USE <1>1 DEF ClaimHeld, RunnerTypeOK, ContainerTypeOK, containerVars, storeVars
<1>2. CASE UNCHANGED <<left, record, ttl, worker, other>>
  BY <1>2 DEF T
<1>3. CASE ClaimAndRun
  BY <1>3 DEF ClaimAndRun, Mark, T
<1>4. CASE Settle
  BY <1>4 DEF Settle, Mark, T
<1>5. CASE OtherClaims \/ OtherSettles
  BY <1>5 DEF OtherClaims, OtherSettles, Mark, T
<1>6. CASE Tick
  BY <1>6 DEF Tick, Less, T
<1>7. QED
  BY <1>2, <1>3, <1>4, <1>5, <1>6
  DEF RunnerNext, runnerVars, CallerRuns, ProcessesRun, DeadlinePasses, ImageWanted,
      ContainerRuns, ContainerNext, CheckImage, PullImage, ContainerStep, CreateContainer,
      NoContainer, StartContainer, NoStart, StatusArrives, WaitFails, ContainerTimeOut,
      ReadLogs, LogsFail, ContainerExits

(* RunTask moves through its places, and the container with it.             *)
LEMMA PlaceStep ==
  ASSUME RunnerTypeOK, AttemptInv, InPlace, [RunnerNext]_runnerVars
  PROVE  InPlace'
<1>1. Containerized' = Containerized /\ UNCHANGED use
  BY Fixed DEF Containerized
<1> USE <1>1 DEF InPlace, containerVars, storeVars
<1>2. CASE UNCHANGED <<pull, place, container, ended, worker, pc, attempt>>
  BY <1>2
<1>3. CASE CallerRuns
  BY <1>3 DEF CallerRuns, MountNFS, UnmountNFS, LocalRunTask
<1>4. CASE ContainerRuns /\ ContainerStep
  BY <1>4 DEF ContainerRuns, ContainerStep, End, CreateContainer, NoContainer,
              StartContainer, NoStart, StatusArrives, WaitFails, ContainerTimeOut,
              ReadLogs, LogsFail, vars, RunnerTypeOK, ContainerTypeOK
<1>5. CASE ContainerRuns /\ ContainerExits
  BY <1>5 DEF ContainerRuns, ContainerExits, vars
<1>6. CASE ClaimAndRun
  BY <1>6 DEF ClaimAndRun, vars
<1>7. CASE Settle
  BY <1>7 DEF Settle, vars
<1>8. CASE ImageWanted \/ (ContainerRuns /\ (CheckImage \/ PullImage))
  BY <1>8 DEF ImageWanted, ContainerRuns, CheckImage, PullImage, vars
<1>9. QED
  BY <1>2, <1>3, <1>4, <1>5, <1>6, <1>7, <1>8
  DEF RunnerNext, runnerVars, vars, ProcessesRun, DeadlinePasses, ImageWanted, OtherClaims,
      OtherSettles, Tick, ContainerRuns, ContainerNext, CheckImage, PullImage, ShellExits,
      ChildrenEnd, ContextKills, KillShell, WaitReturns, Deadline

(* A run that has returned keeps its outcome, and settling records it.      *)
LEMMA RecordStep ==
  ASSUME RunnerTypeOK, ClaimHeld, InPlace, Recorded, [RunnerNext]_runnerVars
  PROVE  Recorded'
<1>1. Containerized' = Containerized /\ UNCHANGED use
  BY Fixed DEF Containerized
<1>2. Returned => Returned' /\ Succeeded' = Succeeded
  <2>1. CASE Containerized
    BY <1>1, <2>1
    DEF Returned, Succeeded, RunnerNext, runnerVars, storeVars, containerVars, CallerRuns,
        ProcessesRun, DeadlinePasses, ImageWanted, ContainerRuns, ClaimAndRun, Settle,
        OtherClaims, OtherSettles, Tick, ContainerNext, CheckImage, PullImage, ContainerStep,
        CreateContainer, NoContainer, StartContainer, NoStart, StatusArrives, WaitFails,
        ContainerTimeOut, ReadLogs, LogsFail, ContainerExits, InPlace
  <2>2. CASE ~Containerized
    <3>1. pc = "returned" => UNCHANGED <<pc, result>>
      BY CallStep DEF Next, vars, Caller, StartFails, Start, ReceiveExit, TimeOut, Pause,
                      ShellExits, ChildrenEnd, ContextKills, WaitReturns, Deadline
    <3>2. QED
      BY <1>1, <2>2, <3>1 DEF Returned, Succeeded
  <2>3. QED
    BY <2>1, <2>2
<1> USE <1>1, <1>2 DEF Recorded
<1>3. CASE UNCHANGED <<worker, record, other>>
  BY <1>3
<1>4. CASE ClaimAndRun
  BY <1>4 DEF ClaimAndRun, Prepared, InPlace, RunnerTypeOK
<1>5. CASE Settle
  BY <1>5 DEF Settle, Mark, ClaimHeld
<1>6. CASE OtherClaims \/ OtherSettles
  BY <1>6 DEF OtherClaims, OtherSettles
<1>7. CASE Tick
  BY <1>7 DEF Tick
<1>8. QED
  BY <1>3, <1>4, <1>5, <1>6, <1>7
  DEF RunnerNext, runnerVars, storeVars, CallerRuns, ProcessesRun, DeadlinePasses,
      ImageWanted, ContainerRuns

(* The invariant is one of the specification.                              *)
LEMMA RunnerCorrect == RunnerSpec => []RunnerInv
<1>1. RunnerInit => RunnerInv
  <2> SUFFICES ASSUME RunnerInit PROVE RunnerInv
    OBVIOUS
  <2>1. AttemptInv
    BY MaxRetriesAssumption DEF RunnerInit, Init, AttemptInv, TypeOK, InOrder, Reaped,
                                Reported, Received, Attempts
  <2>2. RunnerTypeOK
    BY DEF RunnerInit, ContainerInit, RunnerTypeOK, ContainerTypeOK, Containerized
  <2>3. ClaimHeld /\ Recorded
    BY DEF RunnerInit, ClaimHeld, Recorded
  <2>4. InPlace
    BY DEF RunnerInit, Init, ContainerInit, InPlace, Containerized
  <2>5. QED
    BY <2>1, <2>2, <2>3, <2>4 DEF RunnerInv
<1>2. RunnerInv /\ [RunnerNext]_runnerVars => RunnerInv'
  BY CallStep, AttemptStep, TypeStep, ClaimStep, PlaceStep, RecordStep DEF RunnerInv
<1>3. QED
  BY <1>1, <1>2, PTL DEF RunnerSpec

-----------------------------------------------------------------------------
(* Every variable of the run and its record keeps its type.                *)
THEOREM RunnerTypeCorrect == RunnerSpec => []RunnerTypeOK
<1>1. RunnerInv => RunnerTypeOK
  BY DEF RunnerInv
<1>2. QED
  BY <1>1, RunnerCorrect, PTL

(* Another executor works at a command beside what our run started only     *)
(* when our run was given up with its outcome unknown.                      *)
THEOREM WorkIsAlwaysExclusive == RunnerSpec => []WorkIsExclusive
<1>1. RunnerInv => WorkIsExclusive
  <2> SUFFICES ASSUME RunnerInv, other = "running", AtWork
               PROVE  worker = "settled" /\ GivenUp
    BY DEF WorkIsExclusive
  <2>1. CASE container = "running"
    BY <2>1 DEF RunnerInv, RunnerTypeOK, ContainerTypeOK, ClaimHeld, InPlace, Recorded,
                Returned, GivenUp
  <2>2. CASE use = "task" /\ \E k \in Attempts : proc[k] \in {"shell", "children"}
    <3>1. PICK k \in Attempts : proc[k] \in {"shell", "children"}
      BY <2>2
    <3>2. k = attempt /\ pc # "starting"
      BY <3>1, MaxRetriesAssumption DEF RunnerInv, AttemptInv, TypeOK, InOrder, Attempts
    <3>3. ~Containerized /\ worker = "settled"
      BY <2>2, <3>2 DEF RunnerInv, RunnerTypeOK, ClaimHeld, InPlace
    <3>4. pc = "returned"
      BY <3>3 DEF RunnerInv, Recorded, Returned
    <3>5. ctx = "done"
      BY <3>1, <3>2, <3>4 DEF RunnerInv, AttemptInv, TypeOK, Received
    <3>6. QED
      BY <3>3, <3>5 DEF GivenUp
  <2>3. QED
    BY <2>1, <2>2 DEF AtWork
<1>2. QED
  BY <1>1, RunnerCorrect, PTL

(* With a deadline shorter than the life of a record, the record of a       *)
(* command outlives every run of it, whatever the two lengths are.          *)
THEOREM ClaimAlwaysOutlivesRun == RunnerSpec => []ClaimOutlivesRun
<1>1. RunnerInv => ClaimOutlivesRun
  BY DEF RunnerInv, ClaimHeld, ClaimOutlivesRun
<1>2. QED
  BY <1>1, RunnerCorrect, PTL

(* A settled run leaves no claim behind, and its record says done only of a *)
(* command that exited with 0 and has nothing at work.                      *)
THEOREM RecordIsAlwaysTrue == RunnerSpec => []RecordIsTrue
<1>1. RunnerInv => RecordIsTrue
  <2> SUFFICES ASSUME RunnerInv, worker = "settled", other = "none", record = "done"
               PROVE  /\ IF Containerized THEN container = "zero" ELSE exit[attempt] = "zero"
                      /\ ~AtWork
    BY DEF RunnerInv, Recorded, RecordIsTrue
  <2>1. Succeeded
    BY DEF RunnerInv, Recorded
  <2>2. CASE Containerized
    BY <2>1, <2>2 DEF RunnerInv, InPlace, Succeeded, AtWork
  <2>3. CASE ~Containerized
    <3>1. result = "zero" /\ container # "running"
      BY <2>1, <2>3 DEF RunnerInv, InPlace, RunnerTypeOK, ContainerTypeOK, Succeeded
    <3>2. exit[attempt] = "zero" /\ \A k \in Attempts : proc[k] \notin {"shell", "children"}
      BY <3>1, MaxRetriesAssumption DEF RunnerInv, AttemptInv, TypeOK, InOrder, Reported,
                                        Attempts
    <3>3. QED
      BY <2>3, <3>1, <3>2 DEF AtWork
  <2>4. QED
    BY <2>2, <2>3
<1>2. QED
  BY <1>1, RunnerCorrect, PTL
=============================================================================
