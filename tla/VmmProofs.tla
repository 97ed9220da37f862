------------------------------ MODULE VmmProofs ------------------------------
(***************************************************************************)
(* Proofs about Vmm.tla for every number of processors N and every retry   *)
(* limit.                                                                  *)
(*                                                                         *)
(* VmmInv is inductive.  Its parts are kept by separate lemmas: the types, *)
(* the coordinator's indices (IndexInv), the visible owner of all code on  *)
(* a processor (WorkInv), the fault record (FaultInv) and the storage      *)
(* (QuietInv, StorageInv); the place invariant of the processors is that   *)
(* of VcpuProofs: every step is a step of that component or leaves it      *)
(* alone.  The storage theorem, the finality of a quarantine and the two   *)
(* refinements are read off VmmInv.                                        *)
(***************************************************************************)
EXTENDS Vmm, VcpuProofs

-----------------------------------------------------------------------------
(***************************************************************************)
(* Types.                                                                  *)
(***************************************************************************)

\* Every place, phase and state the coordinator and its workers assign is a
\* member of its enumeration (vmm_internal.h, or the model's own places).
LEMMA VmmNames ==
    /\ "unloaded" \in CoPlaces /\ "start" \in CoPlaces
    /\ "capabilities" \in CoPlaces /\ "allocate" \in CoPlaces
    /\ "queueProbe" \in CoPlaces /\ "waitProbe" \in CoPlaces
    /\ "launch" \in CoPlaces /\ "launchWait" \in CoPlaces
    /\ "launchDrain" \in CoPlaces /\ "launchTimeout" \in CoPlaces
    /\ "launchCheck" \in CoPlaces /\ "canary" \in CoPlaces
    /\ "handoff" \in CoPlaces /\ "verify" \in CoPlaces /\ "publish" \in CoPlaces
    /\ "wait" \in CoPlaces /\ "cancelQueued" \in CoPlaces
    /\ "cancelEntered" \in CoPlaces /\ "cancelled" \in CoPlaces
    /\ "grace" \in CoPlaces /\ "done" \in CoPlaces /\ "loaded" \in CoPlaces
    /\ "resident" \in CoPlaces /\ "stopClaim" \in CoPlaces
    /\ "stopCheck" \in CoPlaces /\ "stopBind" \in CoPlaces
    /\ "stopNext" \in CoPlaces /\ "stopReserved" \in CoPlaces
    /\ "retry" \in CoPlaces /\ "retryCheck" \in CoPlaces
    /\ "stopDone" \in CoPlaces /\ "finalCheck" \in CoPlaces
    /\ "reclaim" \in CoPlaces /\ "setIdle" \in CoPlaces
    /\ "stopReturn" \in CoPlaces /\ "entryFailed" \in CoPlaces
    /\ "none" \in Phases /\ "probe" \in Phases /\ "staged" \in Phases
    /\ "final" \in Phases /\ "stop" \in Phases /\ "stopReserved" \in Phases
    /\ "Idle" \in Lifecycles /\ "Starting" \in Lifecycles
    /\ "Running" \in Lifecycles /\ "Stopping" \in Lifecycles
    /\ "Quarantined" \in Lifecycles /\ "Idle" \in WorkStates
    /\ "Queued" \in WorkStates /\ "Entered" \in WorkStates
    /\ "Executing" \in WorkStates /\ "Succeeded" \in WorkStates
    /\ "Failed" \in WorkStates /\ "Cancelled" \in WorkStates
    /\ "None" \in Operations /\ "Probe" \in Operations
    /\ "RuntimeCanary" \in Operations /\ "Stop" \in Operations
    /\ "none" \in WorkerPlaces /\ "created" \in WorkerPlaces
    /\ "entered" \in WorkerPlaces /\ "executing" \in WorkerPlaces
    /\ "stopping" \in WorkerPlaces /\ "report" \in WorkerPlaces
    /\ "publish" \in WorkerPlaces /\ "none" \in DpcPlaces
    /\ "queued" \in DpcPlaces /\ "launching" \in DpcPlaces
    /\ "finish" \in DpcPlaces /\ "signal" \in DpcPlaces
    /\ "returning" \in DpcPlaces
BY DEF CoPlaces, Phases, Lifecycles, WorkStates, Operations, WorkerPlaces, DpcPlaces

\* The ranges of the coordinator's loop indices and of its attempt counter.
LEMMA CoRanges ==
    /\ 0 \in 0 .. N /\ 1 \in 0 .. N /\ N \in 0 .. N
    /\ 0 \in 0 .. RetryLimit /\ 1 \in 0 .. RetryLimit
    /\ \A p \in Cpus : p \in 0 .. N /\ p + 1 \in 0 .. N
    /\ \A i \in 0 .. N : i < N => i + 1 \in 0 .. N /\ i \in Cpus
    /\ \A i \in 0 .. N : i < N - 1 => i + 1 \in 0 .. N
    /\ \A a \in 0 .. RetryLimit : a < RetryLimit => a + 1 \in 0 .. RetryLimit
BY NAssumption, RetryLimitAssumption DEF Cpus

\* The locals a fresh coordinator thread starts from are well typed.
LEMMA CoInitType == CoInit \in CoType
BY VmmNames, CoRanges, Zenon DEF CoInit, CoType, NoCpu

\* The parts of the type invariant the lemmas below use.
LEMMA Parts ==
    ASSUME VmmTypeOK
    PROVE  /\ co \in CoType
           /\ work \in [Cpus -> [State : WorkStates, Operation : Operations,
                                 Result : BOOLEAN, ThreadHandle : BOOLEAN,
                                 thread : WorkerPlaces]]
           /\ dpc \in [Cpus -> [State : WorkStates, DpcQueued : BOOLEAN,
                                Result : BOOLEAN, Done : BOOLEAN,
                                routine : DpcPlaces]]
BY Zenon DEF VmmTypeOK, WorkTypeOK

\* StartHypervisor's answer to a round keeps the locals well typed when its
\* success branch does.
LEMMA ContinueTypes ==
    ASSUME co \in CoType, NEW failed, NEW next, next \in CoType,
           StartContinue(failed, next)
    PROVE  co' \in CoType
BY VmmNames, CoInitType, Zenon DEF StartContinue, Rollback, CoType

\* So does queueing an operation and starting to wait for it.
LEMMA QueueTypes ==
    ASSUME co \in CoType, NEW operation, NEW phase \in Phases,
           QueueThenWait(operation, phase)
    PROVE  co' \in CoType
BY VmmNames, Zenon DEF QueueThenWait, CoType

\* WaitTargetOperation and WaitTargetLaunchDpc keep the coordinator's locals well
\* typed.
LEMMA WaitTypes ==
    ASSUME VmmTypeOK, IndexInv, WaitTargetOperation \/ WaitTargetLaunchDpc
    PROVE  co' \in CoType
<1> USE Parts, VmmNames DEF CoType, CoAt, CoGoto, Unresolved
<1>1. CASE WaitCompletes
    <2>1. co.i \in Cpus
        BY <1>1, Zenon DEF WaitCompletes, IndexInv, WaitPlaces
    <2> QED BY <1>1, <2>1, Zenon DEF WaitCompletes
<1>2. CASE WaitTimesOut
    BY <1>2, Zenon DEF WaitTimesOut
<1>3. CASE WaitCancelQueued
    BY <1>3, Zenon DEF WaitCancelQueued
<1>4. CASE WaitCancelEntered
    BY <1>4, Zenon DEF WaitCancelEntered
<1>5. CASE WaitCheckTerminal
    <2>1. CASE CoGoto("grace")
        BY <2>1, Zenon
    <2>2. CASE Unresolved
        BY <2>2, Zenon
    <2> HIDE DEF CoGoto, Unresolved
    <2> QED BY <1>5, <2>1, <2>2, Zenon DEF WaitCheckTerminal
<1>6. CASE WaitGraceCompletes
    BY <1>6, Zenon DEF WaitGraceCompletes
<1>7. CASE WaitGraceTimesOut
    BY <1>7, Zenon DEF WaitGraceTimesOut
<1>8. CASE LaunchWaitSignalled
    BY <1>8, Zenon DEF LaunchWaitSignalled
<1>9. CASE LaunchWaitDrain
    <2>1. co.i \in Cpus
        BY <1>9, Zenon DEF LaunchWaitDrain, IndexInv
    <2> QED BY <1>9, <2>1, Zenon DEF LaunchWaitDrain
<1>10. CASE LaunchWaitTimesOut
    BY <1>10, Zenon DEF LaunchWaitTimesOut
<1>11. CASE LaunchTimeoutRemoves
    BY <1>11, Zenon DEF LaunchTimeoutRemoves
<1>12. CASE LaunchTimeoutUnresolved
    BY <1>12, Zenon DEF LaunchTimeoutUnresolved
<1> HIDE DEF CoType
<1> QED
    BY <1>1, <1>2, <1>3, <1>4, <1>5, <1>6, <1>7, <1>8, <1>9, <1>10, <1>11, <1>12, Zenon
       DEF WaitTargetOperation, WaitTargetLaunchDpc

\* DriverEntry and StartHypervisor keep the coordinator's locals well typed.
LEMMA StartTypes ==
    ASSUME VmmTypeOK, IndexInv, Start
    PROVE  co' \in CoType
<1> USE Parts, VmmNames, CoRanges, CoInitType DEF CoType, CoAt, CoGoto
<1>1. CASE DriverEntry
    BY <1>1, Zenon DEF DriverEntry
<1>2. CASE StartClaim
    BY <1>2, Zenon DEF StartClaim
<1>3. CASE StartInitialize
    BY <1>3, Zenon DEF StartInitialize
<1>4. CASE StartReject
    BY <1>4, Zenon DEF StartReject
<1>5. CASE StartAllocate
    BY <1>5, Zenon DEF StartAllocate
<1>6. CASE StartAllocateFails
    BY <1>6, Zenon DEF StartAllocateFails, Rollback
<1>7. CASE QueueProbe
    <2>1. co' = [co EXCEPT !.i = co.i + 1] \/ co' = [co EXCEPT !.i = co.i + 1, !.ok = FALSE]
        BY <1>7, Zenon DEF QueueProbe
    <2>2. co.i + 1 \in 0 .. N
        BY <1>7, Zenon DEF QueueProbe
    <2> QED BY <2>1, <2>2, Zenon
<1>8. CASE QueueProbeDone
    BY <1>8, Zenon DEF QueueProbeDone
<1>9. CASE WaitProbe
    BY <1>9, Zenon DEF WaitProbe
<1>10. CASE ProbeDone
    <2>1. co.i \in Cpus
        BY <1>10, Zenon DEF ProbeDone, IndexInv, WaitPlaces
    <2> QED BY <1>10, <2>1, Zenon DEF ProbeDone
<1>11. CASE WaitProbeDone
    <2>1. [co EXCEPT !.pc = "launch", !.i = 1] \in CoType
        BY Zenon
    <2> HIDE DEF CoType
    <2> QED BY <1>11, <2>1, ContinueTypes, Zenon DEF WaitProbeDone
<1>12. CASE StagedLaunch
    <2>1. \/ co' = [co EXCEPT !.pc = "launchWait"]
          \/ co' = [co EXCEPT !.pc = "launchCheck", !.result = FALSE]
        BY <1>12, Zenon DEF StagedLaunch
    <2> QED BY <2>1, Zenon
<1>13. CASE LaunchCheck
    <2>1. [co EXCEPT !.pc = "canary", !.result = FALSE] \in CoType
        BY Zenon
    <2> HIDE DEF CoType
    <2> QED BY <1>13, <2>1, ContinueTypes, Zenon DEF LaunchCheck
<1>14. CASE Canary
    BY <1>14, QueueTypes, Zenon DEF Canary
<1>15. CASE StagedCanaryDone
    <2> DEFINE next == IF co.i = 0
                       THEN [co EXCEPT !.pc = "canary", !.phase = "final", !.result = FALSE]
                       ELSE IF co.i < N - 1
                       THEN [co EXCEPT !.pc = "launch", !.i = @ + 1, !.result = FALSE]
                       ELSE [co EXCEPT !.pc = "handoff", !.result = FALSE]
    <2>1. [co EXCEPT !.pc = "canary", !.phase = "final", !.result = FALSE] \in CoType
        BY Zenon
    <2>2. co.i < N - 1 => [co EXCEPT !.pc = "launch", !.i = @ + 1, !.result = FALSE] \in CoType
        BY Zenon
    <2>3. [co EXCEPT !.pc = "handoff", !.result = FALSE] \in CoType
        BY Zenon
    <2> HIDE DEF CoType
    <2>4. next \in CoType
        BY <2>1, <2>2, <2>3, Zenon
    <2>5. StartContinue(~co.result, next)
        BY <1>15, Zenon DEF StagedCanaryDone
    <2> HIDE DEF next
    <2> QED BY <2>4, <2>5, ContinueTypes, Zenon
<1>16. CASE FinalCanaryDone
    <2> DEFINE next == IF co.i < N - 1
                       THEN [co EXCEPT !.pc = "canary", !.i = @ + 1, !.result = FALSE]
                       ELSE [co EXCEPT !.pc = "verify", !.result = FALSE]
    <2>1. co.i < N - 1 => [co EXCEPT !.pc = "canary", !.i = @ + 1, !.result = FALSE] \in CoType
        BY Zenon
    <2>2. [co EXCEPT !.pc = "verify", !.result = FALSE] \in CoType
        BY Zenon
    <2> HIDE DEF CoType
    <2>3. next \in CoType
        BY <2>1, <2>2, Zenon
    <2>4. StartContinue(~co.result, next)
        BY <1>16, Zenon DEF FinalCanaryDone
    <2> HIDE DEF next
    <2> QED BY <2>3, <2>4, ContinueTypes, Zenon
<1>17. CASE Handoff
    <2>1. \/ \E p \in Cpus : co' = [co EXCEPT !.pc = "launch", !.i = 0, !.bound = p]
          \/ co' = Rollback
          \/ co' = [Rollback EXCEPT !.bound = co.bound]
        BY <1>17, Zenon DEF Handoff
    <2>2. Rollback \in CoType /\ [Rollback EXCEPT !.bound = co.bound] \in CoType
        BY Zenon DEF Rollback
    <2>3. \A p \in Cpus : [co EXCEPT !.pc = "launch", !.i = 0, !.bound = p] \in CoType
        BY Zenon
    <2> HIDE DEF CoType
    <2> QED BY <2>1, <2>2, <2>3, Zenon
<1>18. CASE Verify
    BY <1>18, ZenonT(60) DEF Verify, Rollback
<1>19. CASE Publish
    BY <1>19, Zenon DEF Publish
<1> HIDE DEF CoType
<1> QED
    BY <1>1, <1>2, <1>3, <1>4, <1>5, <1>6, <1>7, <1>8, <1>9, <1>10, <1>11, <1>12,
       <1>13, <1>14, <1>15, <1>16, <1>17, <1>18, <1>19, Zenon DEF Start

\* IsVcpuStopTerminal answers yes or no.
LEMMA TerminalIsBoolean == \A p : Terminal(p) \in BOOLEAN
BY DEF Terminal

\* StopHypervisorInternal and DriverUnload keep the coordinator's locals well
\* typed: in particular the attempt counter stays within the retry limit.
LEMMA StopTypesCo ==
    ASSUME VmmTypeOK, IndexInv, StopHypervisor
    PROVE  co' \in CoType
<1> USE Parts, VmmNames, CoRanges, CoInitType DEF CoType, CoAt, CoGoto
<1>1. CASE StopClaim
    BY <1>1, Zenon DEF StopClaim
<1>2. CASE StopCheck
    <2>1. co' \in {[CoInit EXCEPT !.pc = "stopReturn", !.bound = co.bound,
                                  !.rollback = co.rollback],
                   [co EXCEPT !.pc = "stopBind"]}
        BY <1>2, Zenon DEF StopCheck, StopLeave
    <2> QED BY <2>1, ZenonT(30)
<1>3. CASE StopBind
    <2>1. \/ \E r \in Cpus : co' = [co EXCEPT !.pc = "stopNext", !.i = 0, !.reserved = r,
                                             !.bound = r, !.outer = co.bound]
          \/ co' = [co EXCEPT !.pc = "finalCheck", !.ok = FALSE]
        <3>1. CASE co.bound \in Cpus
            BY <1>3, <3>1, Zenon DEF StopBind
        <3>2. CASE co.bound \notin Cpus
            BY <1>3, <3>2, Zenon DEF StopBind
        <3> QED BY <3>1, <3>2, Zenon
    <2>2. [co EXCEPT !.pc = "finalCheck", !.ok = FALSE] \in CoType
        BY Zenon
    <2>3. \A r \in Cpus : [co EXCEPT !.pc = "stopNext", !.i = 0, !.reserved = r,
                                    !.bound = r, !.outer = co.bound] \in CoType
        BY Zenon
    <2> HIDE DEF CoType
    <2> QED BY <2>1, <2>2, <2>3, ZenonT(60)
<1>4. CASE StopNext
    <2>1. [co EXCEPT !.pc = "stopReserved", !.bound = co.outer] \in CoType
        BY Zenon
    <2>2. co.i < N => [co EXCEPT !.i = @ + 1] \in CoType
        BY Zenon
    <2>3. [co EXCEPT !.pc = "retry", !.phase = "stop", !.attempt = 1] \in CoType
        BY Zenon
    <2> HIDE DEF CoType
    <2> QED BY <1>4, <2>1, <2>2, <2>3, Zenon DEF StopNext
<1>5. CASE StopAttempt
    <2>1. CASE QueueThenWait("Stop", co.phase)
        BY <2>1, QueueTypes, Zenon
    <2>2. CASE co' = [co EXCEPT !.pc = "stopDone", !.result = Terminal(co.i)]
        BY <2>2, TerminalIsBoolean, Zenon
    <2> HIDE DEF CoType
    <2> QED BY <1>5, <2>1, <2>2, Zenon DEF StopAttempt
<1>6. CASE StopAttemptDone
    BY <1>6, Zenon DEF StopAttemptDone
<1>7. CASE StopRetryCheck
    BY <1>7, Zenon DEF StopRetryCheck
<1>8. CASE StopDone
    <2>1. co.i \in Cpus
        BY <1>8, Zenon DEF StopDone, IndexInv, RetryPlaces
    <2>2. [co EXCEPT !.pc = "finalCheck", !.ok = co.result, !.bound = co.outer,
                     !.attempt = 0] \in CoType
        BY Zenon
    <2>3. [co EXCEPT !.pc = "stopNext", !.i = @ + 1, !.attempt = 0,
                     !.result = FALSE, !.phase = "none"] \in CoType
        BY <2>1, Zenon
    <2>4. [co EXCEPT !.pc = "stopReserved", !.ok = FALSE, !.bound = co.outer,
                     !.attempt = 0] \in CoType
        BY Zenon
    <2> HIDE DEF CoType
    <2> QED BY <1>8, <2>2, <2>3, <2>4, Zenon DEF StopDone
<1>9. CASE StopReserved
    <2>1. [co EXCEPT !.pc = "finalCheck"] \in CoType
        BY Zenon
    <2>2. [co EXCEPT !.pc = "finalCheck", !.ok = FALSE] \in CoType
        BY Zenon
    <2>3. \A p \in Cpus : [co EXCEPT !.pc = "retry", !.phase = "stopReserved",
                                    !.i = co.reserved, !.attempt = 1,
                                    !.bound = p] \in CoType
        BY Zenon
    <2> HIDE DEF CoType
    <2> QED BY <1>9, <2>1, <2>2, <2>3, Zenon DEF StopReserved
<1>10. CASE FinalCheck
    <2>1. StopLeave("stopReturn") \/ StopLeave("reclaim")
        BY <1>10, Zenon DEF FinalCheck
    <2>2. \A place \in CoPlaces : [CoInit EXCEPT !.pc = place, !.bound = co.bound,
                                                  !.rollback = co.rollback] \in CoType
        BY Zenon
    <2> HIDE DEF CoType
    <2> QED BY <2>1, <2>2, Zenon DEF StopLeave
<1>11. CASE Reclaim
    BY <1>11, Zenon DEF Reclaim
<1>12. CASE SetIdle
    BY <1>12, Zenon DEF SetIdle
<1>13. CASE EntryFailed
    BY <1>13, ZenonT(60) DEF EntryFailed, UnregisterAndUnmap, BugCheck
<1>14. CASE UnloadReturn
    BY <1>14, Zenon DEF UnloadReturn, UnregisterAndUnmap, BugCheck
<1> HIDE DEF CoType
<1> QED
    BY <1>1, <1>2, <1>3, <1>4, <1>5, <1>6, <1>7, <1>8, <1>9, <1>10, <1>11, <1>12,
       <1>13, <1>14, Zenon DEF StopHypervisor

-----------------------------------------------------------------------------
(***************************************************************************)
(* Where the coordinator goes.  These lemmas read the new place and index  *)
(* off each action; IndexInv and StorageInv are about nothing else of co.  *)
(***************************************************************************)

SamePhase == co'.i = co.i /\ co'.phase = co.phase /\ co'.reserved = co.reserved

\* A wait stays in its places, on its processor and in its phase.
LEMMA WaitMoves ==
    ASSUME co \in CoType, WaitTargetOperation
    PROVE  co.pc \in WaitPlaces /\ co'.pc \in WaitPlaces /\ SamePhase
<1> USE DEF CoType, CoAt, CoGoto, Unresolved, WaitPlaces, SamePhase
<1>1. CASE WaitCompletes
    BY <1>1, Zenon DEF WaitCompletes
<1>2. CASE WaitTimesOut
    BY <1>2, Zenon DEF WaitTimesOut
<1>3. CASE WaitCancelQueued
    BY <1>3, Zenon DEF WaitCancelQueued
<1>4. CASE WaitCancelEntered
    BY <1>4, Zenon DEF WaitCancelEntered
<1>5. CASE WaitCheckTerminal
    <2>1. co.pc = "cancelled" /\ co'.pc \in {"grace", "done"} /\ SamePhase
        BY <1>5, Zenon DEF WaitCheckTerminal
    <2> QED BY <2>1, Zenon
<1>6. CASE WaitGraceCompletes
    BY <1>6, Zenon DEF WaitGraceCompletes
<1>7. CASE WaitGraceTimesOut
    BY <1>7, Zenon DEF WaitGraceTimesOut
<1> QED
    BY <1>1, <1>2, <1>3, <1>4, <1>5, <1>6, <1>7, Zenon DEF WaitTargetOperation

DpcWaitPlaces == {"launchWait", "launchDrain", "launchTimeout", "launchCheck"}

\* The wait for a launch DPC stays in its places and on its processor.
LEMMA LaunchWaitMoves ==
    ASSUME co \in CoType, WaitTargetLaunchDpc
    PROVE  co.pc \in DpcWaitPlaces /\ co'.pc \in DpcWaitPlaces /\ co'.i = co.i
BY Zenon DEF CoType, CoAt, CoGoto, DpcWaitPlaces, WaitTargetLaunchDpc,
       LaunchWaitSignalled, LaunchWaitDrain, LaunchWaitTimesOut,
       LaunchTimeoutRemoves, LaunchTimeoutUnresolved

\* After a round StartHypervisor quarantines, rolls back or goes on.
LEMMA ContinueMoves ==
    ASSUME co \in CoType, NEW failed, NEW next, StartContinue(failed, next)
    PROVE  \/ co'.pc = "resident" /\ Quarantine
           \/ co'.pc = "stopClaim" /\ UNCHANGED storageVars
           \/ co' = next /\ UNCHANGED storageVars
BY Zenon DEF StartContinue, CoType, CoInit, Rollback

\* Queueing an operation leads to its wait, or past it when it is refused.
LEMMA QueueMoves ==
    ASSUME co \in CoType, NEW operation, NEW phase, QueueThenWait(operation, phase)
    PROVE  /\ co'.pc \in {"wait", "done"} /\ co'.phase = phase
           /\ co'.i = co.i /\ co'.reserved = co.reserved
BY Zenon DEF QueueThenWait, CoType

\* Where StartHypervisor goes before and while it queues the probe round.
LEMMA EarlyMoves ==
    ASSUME co \in CoType
    PROVE  /\ DriverEntry => co.pc = "unloaded" /\ co'.pc = "start"
           /\ StartClaim => /\ co.pc = "start"
                            /\ co'.pc = IF NotBusy THEN "capabilities" ELSE "entryFailed"
           /\ StartInitialize => co.pc = "capabilities" /\ co'.pc = "allocate"
           /\ StartReject => /\ co.pc \in {"capabilities", "allocate"}
                             /\ co'.pc = "entryFailed"
           /\ StartAllocate => co.pc = "allocate" /\ co'.pc = "queueProbe"
           /\ StartAllocateFails => co.pc = "allocate" /\ co'.pc = "stopClaim"
           /\ QueueProbe => /\ co.pc = "queueProbe" /\ co.i \in Cpus
                            /\ co'.pc = "queueProbe"
           /\ QueueProbeDone => co.pc = "queueProbe" /\ co'.pc = "waitProbe"
           /\ WaitProbe => /\ co.pc = "waitProbe"
                           /\ \/ co'.pc = "waitProbe"
                              \/ /\ co'.pc = "wait" /\ co'.phase = "probe"
                                 /\ co'.i \in Cpus
           /\ ProbeDone => /\ co.pc = "done" /\ co.phase = "probe"
                           /\ co'.pc = "waitProbe"
<1> USE DEF CoType, CoAt, CoGoto
<1>1. DriverEntry => co.pc = "unloaded" /\ co'.pc = "start"
    BY Zenon DEF DriverEntry
<1>2. StartClaim => /\ co.pc = "start"
                    /\ co'.pc = IF NotBusy THEN "capabilities" ELSE "entryFailed"
    BY Zenon DEF StartClaim
<1>3. StartInitialize => co.pc = "capabilities" /\ co'.pc = "allocate"
    BY Zenon DEF StartInitialize
<1>4. StartReject => co.pc \in {"capabilities", "allocate"} /\ co'.pc = "entryFailed"
    BY Zenon DEF StartReject
<1>5. StartAllocate => co.pc = "allocate" /\ co'.pc = "queueProbe"
    BY Zenon DEF StartAllocate, CoInit
<1>6. StartAllocateFails => co.pc = "allocate" /\ co'.pc = "stopClaim"
    BY Zenon DEF StartAllocateFails, Rollback, CoInit
<1>7. QueueProbe => co.pc = "queueProbe" /\ co.i \in Cpus /\ co'.pc = "queueProbe"
    BY CoRanges, Zenon DEF QueueProbe
<1>8. QueueProbeDone => co.pc = "queueProbe" /\ co'.pc = "waitProbe"
    BY Zenon DEF QueueProbeDone
<1>9. WaitProbe => /\ co.pc = "waitProbe"
                   /\ \/ co'.pc = "waitProbe"
                      \/ co'.pc = "wait" /\ co'.phase = "probe" /\ co'.i \in Cpus
    BY CoRanges, Zenon DEF WaitProbe
<1>10. ProbeDone => co.pc = "done" /\ co.phase = "probe" /\ co'.pc = "waitProbe"
    BY Zenon DEF ProbeDone
<1> QED BY <1>1, <1>2, <1>3, <1>4, <1>5, <1>6, <1>7, <1>8, <1>9, <1>10, Zenon

\* A failed or finished round of the staged launch: no further step of Start.
Quits == \/ co'.pc = "resident" /\ Quarantine
         \/ co'.pc = "stopClaim" /\ UNCHANGED storageVars

\* Where the staged launch goes: one processor after the other, then the sweep.
LEMMA StagedMoves ==
    ASSUME co \in CoType
    PROVE  /\ WaitProbeDone =>
                /\ co.pc = "waitProbe"
                /\ Quits \/ (co'.pc = "launch" /\ co'.i = 1 /\ UNCHANGED storageVars)
           /\ StagedLaunch => /\ co.pc = "launch" /\ co'.i = co.i
                              /\ co'.pc \in {"launchWait", "launchCheck"}
           /\ LaunchCheck =>
                /\ co.pc = "launchCheck"
                /\ Quits \/ (co'.pc = "canary" /\ co'.i = co.i /\ UNCHANGED storageVars)
           /\ Canary => /\ co.pc = "canary" /\ co'.pc \in {"wait", "done"}
                        /\ co'.phase \in {"staged", "final"} /\ co'.i = co.i
           /\ StagedCanaryDone =>
                /\ co.pc = "done" /\ co.phase = "staged"
                /\ \/ Quits
                   \/ /\ \/ co'.pc = "handoff"
                         \/ co'.pc \in {"canary", "launch"} /\ co'.i \in {co.i, co.i + 1}
                      /\ co'.i = co.i + 1 => co.i < N - 1
                      /\ UNCHANGED storageVars
           /\ FinalCanaryDone =>
                /\ co.pc = "done" /\ co.phase = "final"
                /\ \/ Quits
                   \/ /\ \/ co'.pc = "verify"
                         \/ co'.pc = "canary" /\ co.i < N - 1 /\ co'.i = co.i + 1
                      /\ UNCHANGED storageVars
           /\ Handoff => /\ co.pc = "handoff"
                         /\ (co'.pc = "launch" /\ co'.i = 0) \/ co'.pc = "stopClaim"
           /\ Verify => co.pc = "verify" /\ co'.pc \in {"publish", "stopClaim"}
           /\ Publish => co.pc = "publish" /\ co'.pc = "loaded"
<1> USE DEF CoAt, CoGoto, Quits
<1>1. WaitProbeDone =>
         /\ co.pc = "waitProbe"
         /\ Quits \/ (co'.pc = "launch" /\ co'.i = 1 /\ UNCHANGED storageVars)
    <2> DEFINE next == [co EXCEPT !.pc = "launch", !.i = 1]
    <2>1. WaitProbeDone =>
             co.pc = "waitProbe" /\ (Quits \/ (co' = next /\ UNCHANGED storageVars))
        BY ContinueMoves, Zenon DEF WaitProbeDone
    <2>2. next.pc = "launch" /\ next.i = 1
        BY Zenon DEF CoType
    <2> HIDE DEF next
    <2> QED BY <2>1, <2>2, Zenon
<1>2. StagedLaunch => /\ co.pc = "launch" /\ co'.i = co.i
                      /\ co'.pc \in {"launchWait", "launchCheck"}
    BY Zenon DEF StagedLaunch, CoType
<1>3. LaunchCheck =>
         /\ co.pc = "launchCheck"
         /\ Quits \/ (co'.pc = "canary" /\ co'.i = co.i /\ UNCHANGED storageVars)
    <2> DEFINE next == [co EXCEPT !.pc = "canary", !.result = FALSE]
    <2>1. LaunchCheck =>
             co.pc = "launchCheck" /\ (Quits \/ (co' = next /\ UNCHANGED storageVars))
        BY ContinueMoves, Zenon DEF LaunchCheck
    <2>2. next.pc = "canary" /\ next.i = co.i
        BY Zenon DEF CoType
    <2> HIDE DEF next
    <2> QED BY <2>1, <2>2, Zenon
<1>4. Canary => /\ co.pc = "canary" /\ co'.pc \in {"wait", "done"}
                /\ co'.phase \in {"staged", "final"} /\ co'.i = co.i
    BY QueueMoves, Zenon DEF Canary
<1>5. ASSUME StagedCanaryDone
      PROVE  /\ co.pc = "done" /\ co.phase = "staged"
             /\ \/ Quits
                \/ /\ \/ co'.pc = "handoff"
                      \/ co'.pc \in {"canary", "launch"} /\ co'.i \in {co.i, co.i + 1}
                   /\ co'.i = co.i + 1 => co.i < N - 1
                   /\ UNCHANGED storageVars
    <2> DEFINE next == IF co.i = 0
                       THEN [co EXCEPT !.pc = "canary", !.phase = "final", !.result = FALSE]
                       ELSE IF co.i < N - 1
                       THEN [co EXCEPT !.pc = "launch", !.i = @ + 1, !.result = FALSE]
                       ELSE [co EXCEPT !.pc = "handoff", !.result = FALSE]
    <2>1. co.pc = "done" /\ co.phase = "staged" /\ (Quits \/ (co' = next /\ UNCHANGED storageVars))
        <3>1. StartContinue(~co.result, next) /\ co.pc = "done" /\ co.phase = "staged"
            BY <1>5, Zenon DEF StagedCanaryDone
        <3> HIDE DEF next
        <3> QED BY <3>1, ContinueMoves, Zenon
    <2>2. /\ next.pc = "handoff" \/ (next.pc \in {"canary", "launch"} /\ next.i \in {co.i, co.i + 1})
          /\ next.i = co.i + 1 => co.i < N - 1
        BY NAssumption DEF CoType
    <2> HIDE DEF next
    <2> QED BY <2>1, <2>2, Zenon
<1>6. ASSUME FinalCanaryDone
      PROVE  /\ co.pc = "done" /\ co.phase = "final"
             /\ \/ Quits
                \/ /\ \/ co'.pc = "verify"
                      \/ co'.pc = "canary" /\ co.i < N - 1 /\ co'.i = co.i + 1
                   /\ UNCHANGED storageVars
    <2> DEFINE next == IF co.i < N - 1
                       THEN [co EXCEPT !.pc = "canary", !.i = @ + 1, !.result = FALSE]
                       ELSE [co EXCEPT !.pc = "verify", !.result = FALSE]
    <2>1. co.pc = "done" /\ co.phase = "final" /\ (Quits \/ (co' = next /\ UNCHANGED storageVars))
        <3>1. StartContinue(~co.result, next) /\ co.pc = "done" /\ co.phase = "final"
            BY <1>6, Zenon DEF FinalCanaryDone
        <3> HIDE DEF next
        <3> QED BY <3>1, ContinueMoves, Zenon
    <2>2. next.pc = "verify" \/ (next.pc = "canary" /\ co.i < N - 1 /\ next.i = co.i + 1)
        <3>1. CASE co.i < N - 1
            BY <3>1, Zenon DEF CoType
        <3>2. CASE ~(co.i < N - 1)
            BY <3>2, Zenon DEF CoType
        <3> QED BY <3>1, <3>2, Zenon
    <2> HIDE DEF next
    <2> QED BY <2>1, <2>2, Zenon
<1>7. Handoff => /\ co.pc = "handoff"
                 /\ (co'.pc = "launch" /\ co'.i = 0) \/ co'.pc = "stopClaim"
    BY Zenon DEF Handoff, Rollback, CoInit, CoType
<1>8. Verify => co.pc = "verify" /\ co'.pc \in {"publish", "stopClaim"}
    BY Zenon DEF Verify, Rollback, CoInit, CoType
<1>9. Publish => co.pc = "publish" /\ co'.pc = "loaded"
    BY Zenon DEF Publish, CoInit, CoType
<1> HIDE DEF Quits
<1> QED BY <1>1, <1>2, <1>3, <1>4, <1>5, <1>6, <1>7, <1>8, <1>9, Zenon

\* Where StopHypervisorInternal and DriverUnload go.
LEMMA StopMoves ==
    ASSUME co \in CoType
    PROVE  /\ StopClaim => /\ co.pc = "stopClaim"
                           /\ co'.pc = IF StopOwner THEN "stopCheck" ELSE "stopReturn"
           /\ StopCheck => /\ co.pc = "stopCheck"
                           /\ \/ Quarantine /\ co'.pc = "stopReturn"
                              \/ co'.pc = "stopBind" /\ UNCHANGED storageVars
           /\ StopBind => /\ co.pc = "stopBind"
                          /\ \/ co'.pc = "stopNext" /\ co'.reserved \in Cpus
                             \/ co'.pc = "finalCheck"
           /\ StopNext => /\ co.pc = "stopNext" /\ co'.reserved = co.reserved
                          /\ \/ co'.pc \in {"stopNext", "stopReserved"}
                             \/ co'.pc = "retry" /\ co'.phase = "stop" /\ co'.i \in Cpus
           /\ StopAttempt => /\ co.pc = "retry" /\ SamePhase
                             /\ co'.pc \in {"wait", "done", "stopDone"}
           /\ StopAttemptDone => /\ co.pc = "done" /\ SamePhase
                                 /\ co.phase \in {"stop", "stopReserved"}
                                 /\ co'.pc \in {"stopDone", "retryCheck"}
           /\ StopRetryCheck => /\ co.pc = "retryCheck" /\ SamePhase
                                /\ co'.pc \in {"retry", "stopDone"}
           /\ StopDone => /\ co.pc = "stopDone"
                          /\ \/ co'.pc = "finalCheck"
                             \/ /\ co'.pc \in {"stopNext", "stopReserved"}
                                /\ co'.reserved = co.reserved
           /\ StopReserved => /\ co.pc = "stopReserved"
                              /\ \/ co'.pc = "finalCheck"
                                 \/ /\ co'.pc = "retry" /\ co'.phase = "stopReserved"
                                    /\ co'.i = co.reserved /\ co'.reserved = co.reserved
           /\ FinalCheck => /\ co.pc = "finalCheck"
                            /\ \/ Quarantine /\ co'.pc = "stopReturn"
                               \/ /\ ~NotReclaimable /\ co'.pc = "reclaim"
                                  /\ UNCHANGED storageVars
           /\ Reclaim => co.pc = "reclaim" /\ co'.pc = "setIdle"
           /\ SetIdle => co.pc = "setIdle" /\ co'.pc = "stopReturn"
           /\ DriverUnload => co.pc = "loaded" /\ co'.pc = "stopClaim"
<1> USE DEF CoAt, CoGoto, CoType
<1>1. StopClaim => /\ co.pc = "stopClaim"
                   /\ co'.pc = IF StopOwner THEN "stopCheck" ELSE "stopReturn"
    BY Zenon DEF StopClaim
<1>2. StopCheck => /\ co.pc = "stopCheck"
                   /\ \/ Quarantine /\ co'.pc = "stopReturn"
                      \/ co'.pc = "stopBind" /\ UNCHANGED storageVars
    BY Zenon DEF StopCheck, StopLeave, CoInit
<1>3. ASSUME StopBind
      PROVE  /\ co.pc = "stopBind"
             /\ \/ co'.pc = "stopNext" /\ co'.reserved \in Cpus
                \/ co'.pc = "finalCheck"
    <2>1. CASE co.bound \in Cpus
        BY <1>3, <2>1, Zenon DEF StopBind
    <2>2. CASE co.bound \notin Cpus
        BY <1>3, <2>2, Zenon DEF StopBind
    <2> QED BY <2>1, <2>2, Zenon
<1>4. StopNext => /\ co.pc = "stopNext" /\ co'.reserved = co.reserved
                  /\ \/ co'.pc \in {"stopNext", "stopReserved"}
                     \/ co'.pc = "retry" /\ co'.phase = "stop" /\ co'.i \in Cpus
    BY CoRanges, Zenon DEF StopNext
<1>5. StopAttempt => /\ co.pc = "retry" /\ SamePhase
                     /\ co'.pc \in {"wait", "done", "stopDone"}
    BY QueueMoves, Zenon DEF StopAttempt, SamePhase
<1>6. StopAttemptDone => /\ co.pc = "done" /\ SamePhase
                         /\ co.phase \in {"stop", "stopReserved"}
                         /\ co'.pc \in {"stopDone", "retryCheck"}
    BY Zenon DEF StopAttemptDone, SamePhase
<1>7. StopRetryCheck => /\ co.pc = "retryCheck" /\ SamePhase
                        /\ co'.pc \in {"retry", "stopDone"}
    BY Zenon DEF StopRetryCheck, SamePhase
<1>8. StopDone => /\ co.pc = "stopDone"
                  /\ \/ co'.pc = "finalCheck"
                     \/ /\ co'.pc \in {"stopNext", "stopReserved"}
                        /\ co'.reserved = co.reserved
    BY Zenon DEF StopDone
<1>9. StopReserved => /\ co.pc = "stopReserved"
                      /\ \/ co'.pc = "finalCheck"
                         \/ /\ co'.pc = "retry" /\ co'.phase = "stopReserved"
                            /\ co'.i = co.reserved /\ co'.reserved = co.reserved
    BY Zenon DEF StopReserved
<1>10. FinalCheck => /\ co.pc = "finalCheck"
                     /\ \/ Quarantine /\ co'.pc = "stopReturn"
                        \/ /\ ~NotReclaimable /\ co'.pc = "reclaim"
                           /\ UNCHANGED storageVars
    BY Zenon DEF FinalCheck, StopLeave, CoInit
<1>11. Reclaim => co.pc = "reclaim" /\ co'.pc = "setIdle"
    BY Zenon DEF Reclaim
<1>12. SetIdle => co.pc = "setIdle" /\ co'.pc = "stopReturn"
    BY Zenon DEF SetIdle
<1>13. DriverUnload => co.pc = "loaded" /\ co'.pc = "stopClaim"
    BY Zenon DEF DriverUnload
<1> HIDE DEF CoType
<1> QED BY <1>1, <1>2, <1>3, <1>4, <1>5, <1>6, <1>7, <1>8, <1>9, <1>10, <1>11,
           <1>12, <1>13, Zenon

\* Leaving the driver: it becomes resident, is unmapped, or bugchecks.
LEMMA LeaveMoves ==
    ASSUME co \in CoType, EntryFailed \/ UnloadReturn
    PROVE  /\ co.pc \in {"entryFailed", "stopReturn"}
           /\ \/ /\ IsHypervisorQuarantined /\ co'.pc = "resident"
                 /\ UNCHANGED <<vcpuVars, workVars, storageVars>>
              \/ /\ ~IsHypervisorQuarantined /\ IsHypervisorStopComplete
                 /\ co'.pc = "unloaded"
                 /\ UNCHANGED <<vcpuVars, workVars, lifecycle, pinned, vcpuData, workData>>
              \/ /\ crashed' = TRUE
                 /\ UNCHANGED <<vcpu, cpu, hostFault, workVars, storageVars, co>>
<1>1. CoInit.pc = "unloaded" /\ [CoInit EXCEPT !.pc = "resident"].pc = "resident"
    BY Zenon DEF CoInit
<1>2. UnregisterAndUnmap =>
         \/ /\ co'.pc = "unloaded"
            /\ UNCHANGED <<vcpuVars, workVars, lifecycle, pinned, vcpuData, workData>>
         \/ /\ crashed' = TRUE
            /\ UNCHANGED <<vcpu, cpu, hostFault, workVars, storageVars, co>>
    BY <1>1, Zenon DEF UnregisterAndUnmap
<1>3. CASE EntryFailed
    <2>1. co.pc \in {"entryFailed", "stopReturn"}
        BY <1>3, Zenon DEF EntryFailed, CoAt
    <2>2. \/ /\ IsHypervisorQuarantined /\ co' = [CoInit EXCEPT !.pc = "resident"]
             /\ UNCHANGED <<vcpuVars, workVars, storageVars>>
          \/ /\ ~IsHypervisorQuarantined /\ IsHypervisorStopComplete
             /\ UnregisterAndUnmap
          \/ BugCheck
        BY <1>3, Zenon DEF EntryFailed
    <2> QED BY <1>1, <1>2, <2>1, <2>2, Zenon DEF BugCheck
<1>4. CASE UnloadReturn
    <2>1. co.pc = "stopReturn"
        BY <1>4, Zenon DEF UnloadReturn, CoAt
    <2>2. \/ /\ ~IsHypervisorQuarantined /\ IsHypervisorStopComplete
             /\ UnregisterAndUnmap
          \/ BugCheck
        BY <1>4, Zenon DEF UnloadReturn
    <2> QED BY <1>2, <2>1, <2>2, Zenon DEF BugCheck
<1> QED BY <1>3, <1>4, Zenon

-----------------------------------------------------------------------------
(***************************************************************************)
(* The coordinator's indices.                                              *)
(***************************************************************************)

\* Every processor index the coordinator uses is one, and a reserved processor
\* is known whenever the stop loop runs.
LEMMA IndexKeeps ==
    ASSUME co \in CoType, IndexInv, Coordinator \/ DriverUnload
    PROVE  IndexInv'
<1> USE NAssumption DEF IndexInv, WaitPlaces, RetryPlaces
<1>1. CASE WaitTargetOperation
    BY <1>1, WaitMoves, Zenon DEF SamePhase
<1>2. CASE WaitTargetLaunchDpc
    BY <1>2, LaunchWaitMoves, Zenon DEF DpcWaitPlaces
<1>3. CASE DriverEntry \/ StartClaim \/ StartInitialize \/ StartReject
    BY <1>3, EarlyMoves, Zenon
<1>4. CASE StartAllocate \/ StartAllocateFails \/ QueueProbe \/ QueueProbeDone
    BY <1>4, EarlyMoves, Zenon
<1>5. CASE WaitProbe \/ ProbeDone
    BY <1>5, EarlyMoves, Zenon
<1>6. CASE WaitProbeDone \/ LaunchCheck
    BY <1>6, StagedMoves DEF Quits, Cpus
<1>7. CASE StagedLaunch \/ Canary
    BY <1>7, StagedMoves, Zenon
<1>8. CASE StagedCanaryDone
    BY <1>8, StagedMoves DEF Quits, Cpus
<1>9. CASE FinalCanaryDone
    BY <1>9, StagedMoves DEF Quits, Cpus
<1>10. CASE Handoff \/ Verify \/ Publish
    BY <1>10, StagedMoves DEF Cpus
<1>11. CASE StopClaim \/ StopCheck \/ StopBind \/ StopNext
    BY <1>11, StopMoves, Zenon
<1>12. CASE StopAttempt \/ StopAttemptDone \/ StopRetryCheck
    BY <1>12, StopMoves, Zenon DEF SamePhase
<1>13. CASE StopDone \/ StopReserved \/ FinalCheck
    BY <1>13, StopMoves, Zenon
<1>14. CASE Reclaim \/ SetIdle \/ DriverUnload
    BY <1>14, StopMoves, Zenon
<1>15. CASE EntryFailed \/ UnloadReturn
    <2>1. co'.pc \in {"resident", "unloaded"} \/ co' = co
        BY <1>15, LeaveMoves, Zenon
    <2> QED BY <2>1, Zenon
<1> HIDE DEF IndexInv
<1> QED
    BY <1>1, <1>2, <1>3, <1>4, <1>5, <1>6, <1>7, <1>8, <1>9, <1>10, <1>11, <1>12,
       <1>13, <1>14, <1>15, Zenon DEF Coordinator, Start, StopHypervisor

-----------------------------------------------------------------------------
(***************************************************************************)
(* What the coordinator does to the work records.                          *)
(***************************************************************************)

\* A worker or a launch DPC is queued.
Enqueues ==
    /\ co.i \in Cpus
    /\ co.pc \in {"queueProbe", "launch", "canary"} \/ Live(co.i)
    /\ \/ /\ \E operation \in Operations : QueueTargetOperation(co.i, operation)
          /\ UNCHANGED dpc
       \/ QueueTargetLaunchDpc(co.i) /\ UNCHANGED work

\* A record changes while its thread and its routine go on.
Settles ==
    /\ co.i \in Cpus
    /\ \/ /\ \/ CloseCompletedTargetWork(co.i) \/ QueueOperationFails(co.i)
             \/ CancelFrom(co.i, "Queued")     \/ CancelFrom(co.i, "Entered")
          /\ UNCHANGED dpc
       \/ /\ DrainLaunchDpc(co.i) \/ QueueLaunchFails(co.i)
          /\ UNCHANGED work

\* A launch DPC is taken back before it ran.
Removes == co.i \in Cpus /\ RemoveLaunchDpc(co.i) /\ UNCHANGED work

\* The coordinator's steps by what they do to processors and work records.
Leaves == UNCHANGED <<vcpu, cpu>> /\ UNCHANGED workVars

Touches == UNCHANGED <<vcpu, cpu>> /\ (Enqueues \/ Settles \/ Removes)

\* Waiting for a worker only cancels or closes its record.
LEMMA WaitRecords ==
    ASSUME co \in CoType, IndexInv, WaitTargetOperation \/ WaitTargetLaunchDpc
    PROVE  (Leaves \/ Touches) /\ UNCHANGED <<vcpuVars, storageVars>>
<1>1. co.i \in Cpus
    BY WaitMoves, LaunchWaitMoves, Zenon DEF IndexInv, DpcWaitPlaces
<1> USE DEF Leaves, Touches, Settles, Removes, vcpuVars, workVars
<1>2. CASE WaitTargetOperation
    BY <1>1, <1>2, Zenon DEF WaitTargetOperation, WaitCompletes, WaitTimesOut,
       WaitCancelQueued, WaitCancelEntered, WaitCheckTerminal,
       WaitGraceCompletes, WaitGraceTimesOut
<1>3. CASE WaitTargetLaunchDpc
    BY <1>1, <1>3, Zenon DEF WaitTargetLaunchDpc, LaunchWaitSignalled,
       LaunchWaitDrain, LaunchWaitTimesOut, LaunchTimeoutRemoves,
       LaunchTimeoutUnresolved
<1> QED BY <1>2, <1>3, Zenon

\* A start queues probes, launches and canaries, each on a processor it owns.
LEMMA StartRecords ==
    ASSUME co \in CoType, IndexInv, Start
    PROVE  \/ (Leaves \/ Touches) /\ UNCHANGED vcpuVars
           \/ StartInitialize /\ Leaves /\ hostFault' = FALSE /\ UNCHANGED crashed
           \/ ZeroAll /\ UNCHANGED <<cpu, hostFault, crashed>> /\ co.pc = "allocate"
<1> USE DEF Leaves, Touches, vcpuVars, workVars
<1>1. CASE DriverEntry \/ StartClaim \/ StartReject \/ QueueProbeDone \/ WaitProbe
    BY <1>1, Zenon DEF DriverEntry, StartClaim, StartReject, QueueProbeDone, WaitProbe
<1>2. CASE ProbeDone \/ WaitProbeDone \/ LaunchCheck \/ StagedCanaryDone
    BY <1>2, Zenon DEF ProbeDone, WaitProbeDone, LaunchCheck, StagedCanaryDone
<1>3. CASE FinalCanaryDone \/ Handoff \/ Verify \/ Publish
    BY <1>3, Zenon DEF FinalCanaryDone, Handoff, Verify, Publish
<1>4. CASE StartInitialize
    BY <1>4, Zenon DEF StartInitialize
<1>5. CASE StartAllocate \/ StartAllocateFails
    BY <1>5, Zenon DEF StartAllocate, StartAllocateFails, CoAt
<1>6. CASE QueueProbe
    <2>1. co.pc = "queueProbe" /\ co.i \in Cpus
        BY <1>6, EarlyMoves, Zenon
    <2>2. "Probe" \in Operations
        BY VmmNames, Zenon
    <2> QED BY <1>6, <2>1, <2>2, Zenon DEF QueueProbe, Enqueues, Settles
<1>7. CASE StagedLaunch
    <2>1. co.pc = "launch" /\ co.i \in Cpus
        BY <1>7, StagedMoves, Zenon DEF IndexInv
    <2> QED BY <1>7, <2>1, Zenon DEF StagedLaunch, Enqueues, Settles
<1>8. CASE Canary
    <2>1. co.pc = "canary" /\ co.i \in Cpus
        BY <1>8, StagedMoves, Zenon DEF IndexInv
    <2>2. "RuntimeCanary" \in Operations
        BY VmmNames, Zenon
    <2> QED BY <1>8, <2>1, <2>2, Zenon DEF Canary, QueueThenWait, Enqueues, Settles
<1> HIDE DEF Leaves, Touches, vcpuVars
<1> QED
    BY <1>1, <1>2, <1>3, <1>4, <1>5, <1>6, <1>7, <1>8, Zenon DEF Start

\* A stop queues workers only on live processors.
LEMMA StopRecords ==
    ASSUME co \in CoType, IndexInv, StopHypervisor \/ DriverUnload
    PROVE  \/ (Leaves \/ Touches) /\ UNCHANGED vcpuVars
           \/ Leaves /\ crashed' = TRUE /\ UNCHANGED hostFault
           \/ ZeroAll /\ UNCHANGED <<cpu, hostFault, crashed>> /\ co.pc = "reclaim"
<1> USE DEF Leaves, Touches, vcpuVars, workVars
<1>1. CASE StopClaim \/ StopCheck \/ StopBind \/ StopNext \/ DriverUnload
    BY <1>1, Zenon DEF StopClaim, StopCheck, StopBind, StopNext, DriverUnload
<1>2. CASE StopAttemptDone \/ StopRetryCheck \/ StopDone \/ StopReserved
    BY <1>2, Zenon DEF StopAttemptDone, StopRetryCheck, StopDone, StopReserved
<1>3. CASE FinalCheck \/ SetIdle
    BY <1>3, Zenon DEF FinalCheck, SetIdle
<1>4. CASE Reclaim
    BY <1>4, Zenon DEF Reclaim, CoAt
<1>5. CASE EntryFailed \/ UnloadReturn
    BY <1>5, LeaveMoves, Zenon
<1>6. CASE StopAttempt
    <2>1. co.i \in Cpus
        BY <1>6, StopMoves, Zenon DEF IndexInv, RetryPlaces
    <2>2. "Stop" \in Operations
        BY VmmNames, Zenon
    <2> QED BY <1>6, <2>1, <2>2, Zenon DEF StopAttempt, QueueThenWait, Enqueues, Settles
<1> HIDE DEF Leaves, Touches, vcpuVars
<1> QED
    BY <1>1, <1>2, <1>3, <1>4, <1>5, <1>6, Zenon DEF StopHypervisor

\* The coordinator's changes to a record keep its type.
LEMMA TouchTypes ==
    ASSUME WorkTypeOK, Touches
    PROVE  WorkTypeOK'
<1> DEFINE WorkRec == [State : WorkStates, Operation : Operations, Result : BOOLEAN,
                       ThreadHandle : BOOLEAN, thread : WorkerPlaces]
           DpcRec == [State : WorkStates, DpcQueued : BOOLEAN, Result : BOOLEAN,
                      Done : BOOLEAN, routine : DpcPlaces]
<1>1. co.i \in Cpus
    BY Zenon DEF Touches, Enqueues, Settles, Removes
<1>2. work \in [Cpus -> WorkRec] /\ dpc \in [Cpus -> DpcRec]
    BY Zenon DEF WorkTypeOK
<1>3. /\ \A operation \in Operations :
            [State |-> "Queued", Operation |-> operation, Result |-> FALSE,
             ThreadHandle |-> TRUE, thread |-> "created"] \in WorkRec
      /\ [ZeroWork EXCEPT !.State = "Idle"] \in WorkRec
      /\ [ZeroWork EXCEPT !.State = "Failed"] \in WorkRec
    <2>1. ZeroWork \in WorkRec
        BY VmmNames, Zenon DEF ZeroWork
    <2>2. \A operation \in Operations :
             [State |-> "Queued", Operation |-> operation, Result |-> FALSE,
              ThreadHandle |-> TRUE, thread |-> "created"] \in WorkRec
        BY VmmNames, Zenon
    <2>3. \A s \in WorkStates : [ZeroWork EXCEPT !.State = s] \in WorkRec
        BY <2>1, Zenon
    <2> HIDE DEF WorkRec
    <2> QED BY <2>2, <2>3, VmmNames, Zenon
<1>4. /\ [State |-> "Queued", DpcQueued |-> TRUE, Result |-> FALSE, Done |-> FALSE,
          routine |-> "queued"] \in DpcRec
      /\ [State |-> "Cancelled", DpcQueued |-> FALSE, Result |-> FALSE, Done |-> TRUE,
          routine |-> "none"] \in DpcRec
      /\ [ZeroDpc EXCEPT !.State = "Failed", !.Done = TRUE] \in DpcRec
    <2>1. ZeroDpc \in DpcRec
        BY VmmNames, Zenon DEF ZeroDpc
    <2>2. [ZeroDpc EXCEPT !.State = "Failed", !.Done = TRUE] \in DpcRec
        BY <2>1, VmmNames, Zenon
    <2>3. [State |-> "Queued", DpcQueued |-> TRUE, Result |-> FALSE, Done |-> FALSE,
           routine |-> "queued"] \in DpcRec
        BY VmmNames, Zenon
    <2>4. [State |-> "Cancelled", DpcQueued |-> FALSE, Result |-> FALSE, Done |-> TRUE,
           routine |-> "none"] \in DpcRec
        BY VmmNames, Zenon
    <2> HIDE DEF DpcRec
    <2> QED BY <2>2, <2>3, <2>4, Zenon
<1>5. ASSUME CloseCompletedTargetWork(co.i)
      PROVE  work' \in [Cpus -> WorkRec]
    BY <1>1, <1>2, <1>5, VmmNames, ZenonT(60) DEF CloseCompletedTargetWork
<1>6. ASSUME NEW s, CancelFrom(co.i, s)
      PROVE  work' \in [Cpus -> WorkRec]
    BY <1>1, <1>2, <1>6, VmmNames, ZenonT(60) DEF CancelFrom
<1>7. ASSUME DrainLaunchDpc(co.i)
      PROVE  dpc' \in [Cpus -> DpcRec]
    BY <1>1, <1>2, <1>7, VmmNames, Zenon DEF DrainLaunchDpc
<1> HIDE DEF WorkRec, DpcRec
<1>8. \A operation \in Operations :
         QueueTargetOperation(co.i, operation) => work' \in [Cpus -> WorkRec]
    BY <1>1, <1>2, <1>3, Zenon DEF QueueTargetOperation
<1>9. QueueOperationFails(co.i) => work' \in [Cpus -> WorkRec]
    BY <1>1, <1>2, <1>3, Zenon DEF QueueOperationFails
<1>10. /\ QueueTargetLaunchDpc(co.i) => dpc' \in [Cpus -> DpcRec]
       /\ RemoveLaunchDpc(co.i) => dpc' \in [Cpus -> DpcRec]
       /\ QueueLaunchFails(co.i) => dpc' \in [Cpus -> DpcRec]
    BY <1>1, <1>2, <1>4, Zenon
       DEF QueueTargetLaunchDpc, RemoveLaunchDpc, QueueLaunchFails
<1>11. work' \in [Cpus -> WorkRec] /\ dpc' \in [Cpus -> DpcRec]
    BY <1>2, <1>5, <1>6, <1>7, <1>8, <1>9, <1>10, Zenon
       DEF Touches, Enqueues, Settles, Removes
<1> QED BY <1>11, Zenon DEF WorkTypeOK, WorkRec, DpcRec

\* So does zeroing the records.
LEMMA ZeroTypes ==
    ASSUME WorkTypeOK, ZeroAll
    PROVE  WorkTypeOK'
<1>1. \A p \in Cpus : work[p].thread \in WorkerPlaces /\ dpc[p].routine \in DpcPlaces
    BY Zenon DEF WorkTypeOK
<1> QED BY <1>1, VmmNames, Zenon DEF WorkTypeOK, ZeroAll, ZeroWork, ZeroDpc

-----------------------------------------------------------------------------
(***************************************************************************)
(* The workers and the launch DPC.                                         *)
(***************************************************************************)

\* TargetCpuWorker and TargetLaunchDpcRoutine keep the records' types.
LEMMA WorkerTypes ==
    ASSUME WorkTypeOK, NEW p \in Cpus,
           TargetCpuWorker(p) \/ TargetLaunchDpcRoutine(p)
    PROVE  WorkTypeOK'
<1> USE VmmNames DEF WorkTypeOK
<1>1. CASE WorkerEnter(p)
    BY <1>1, ZenonT(60) DEF WorkerEnter
<1>2. CASE WorkerPlace(p)
    BY <1>2, ZenonT(60) DEF WorkerPlace
<1>3. CASE WorkerMisplaced(p)
    BY <1>3, ZenonT(60) DEF WorkerMisplaced
<1>4. CASE WorkerProbe(p)
    BY <1>4, ZenonT(60) DEF WorkerProbe
<1>5. CASE WorkerCanary(p)
    <2>1. PICK passed \in BOOLEAN :
             work' = [work EXCEPT ![p].Result = passed, ![p].thread = "report"]
        BY <1>5, Zenon DEF WorkerCanary
    <2>2. UNCHANGED dpc
        BY <1>5, Zenon DEF WorkerCanary
    <2> QED BY <2>1, <2>2, ZenonT(60)
<1>6. CASE WorkerStopCall(p)
    BY <1>6, Zenon DEF WorkerStopCall
<1>7. CASE WorkerStopReturn(p)
    BY <1>7, TerminalIsBoolean, ZenonT(60) DEF WorkerStopReturn
<1>8. CASE WorkerReport(p)
    BY <1>8, ZenonT(60) DEF WorkerReport
<1>9. CASE WorkerPublish(p)
    <2> DEFINE final == IF work[p].Result THEN "Succeeded" ELSE "Failed"
    <2>1. final \in WorkStates
        BY Zenon
    <2>2. work' = [work EXCEPT ![p].State = final, ![p].thread = "none"] /\ UNCHANGED dpc
        BY <1>9, Zenon DEF WorkerPublish
    <2> HIDE DEF final
    <2> QED BY <2>1, <2>2, ZenonT(60)
<1>10. CASE DpcEnter(p)
    BY <1>10, ZenonT(60) DEF DpcEnter
<1>11. CASE DpcLaunchReturn(p)
    <2> DEFINE launched == /\ vcpu[p].State = "Launched"
                           /\ vcpu[p].LaunchStage = "GuestActive"
                           /\ vcpu[p].ProbeReturned
    <2>1. launched \in BOOLEAN
        BY Zenon
    <2>2. /\ dpc' = [dpc EXCEPT ![p].Result = launched, ![p].routine = "finish"]
          /\ UNCHANGED work
        BY <1>11, Zenon DEF DpcLaunchReturn
    <2> HIDE DEF launched
    <2> QED BY <2>1, <2>2, ZenonT(60)
<1>12. CASE DpcFinish(p)
    <2> DEFINE final == IF dpc[p].Result THEN "Succeeded" ELSE "Failed"
    <2>1. final \in WorkStates
        BY Zenon
    <2>2. dpc' = [dpc EXCEPT ![p].State = final, ![p].routine = "signal"] /\ UNCHANGED work
        BY <1>12, Zenon DEF DpcFinish
    <2> HIDE DEF final
    <2> QED BY <2>1, <2>2, ZenonT(60)
<1>13. CASE DpcSignal(p)
    BY <1>13, ZenonT(60) DEF DpcSignal
<1>14. CASE DpcReturn(p)
    BY <1>14, Zenon DEF DpcReturn
<1> HIDE DEF WorkTypeOK
<1> QED
    BY <1>1, <1>2, <1>3, <1>4, <1>5, <1>6, <1>7, <1>8, <1>9, <1>10, <1>11, <1>12,
       <1>13, <1>14, Zenon DEF TargetCpuWorker, TargetLaunchDpcRoutine

\* For the processors a worker or DPC step is a call or a return of a callback,
\* or nothing; it touches no other processor's records.
LEMMA WorkerFrame ==
    ASSUME VcpuTypeOK, WorkTypeOK, NEW p \in Cpus,
           TargetCpuWorker(p) \/ TargetLaunchDpcRoutine(p)
    PROVE  /\ \/ LaunchCall(p) \/ StopCall(p) \/ CallbackReturn(p)
              \/ UNCHANGED <<vcpu, cpu>>
           /\ \A q \in Cpus \ {p} : work'[q] = work[q] /\ dpc'[q] = dpc[q]
<1> USE DEF TargetCpuWorker, TargetLaunchDpcRoutine, WorkerEnter, WorkerPlace,
            WorkerMisplaced, WorkerProbe, WorkerCanary, WorkerStopCall,
            WorkerStopReturn, WorkerReport, WorkerPublish, DpcEnter,
            DpcLaunchReturn, DpcFinish, DpcSignal, DpcReturn
<1>1. \/ LaunchCall(p) \/ StopCall(p) \/ CallbackReturn(p)
      \/ UNCHANGED <<vcpu, cpu>>
    BY Zenon DEF CallbackReturn, At
<1>2. ASSUME NEW q \in Cpus \ {p}
      PROVE  work'[q] = work[q] /\ dpc'[q] = dpc[q]
    BY <1>2, Zenon DEF WorkTypeOK
<1> QED BY <1>1, <1>2, Zenon

-----------------------------------------------------------------------------
(***************************************************************************)
(* Code on a processor has an owner the coordinator can see.               *)
(***************************************************************************)

\* A step of the code on a processor, from c to d, stays within the callback
\* that runs it, never returns to its caller by itself, and ends for good at a
\* fault in VMX root.
Kept(c, d) ==
    /\ d.pc \in LaunchPlaces \/ d.path = "rollback"
          => c.pc \in LaunchPlaces \/ c.path = "rollback"
    /\ d.pc \in StopPlaces \cup {"unload", "restore"} \/ d.path = "restore"
          => c.pc \in StopPlaces \cup {"unload", "restore"} \/ c.path = "restore"
    /\ d.pc # "idle"
    /\ c.pc # "idle" \/ c.mode # "native"
    /\ c.pc \in {"bugcheck", "hung"} /\ c.mode = "root" => d = c

\* Every step of launch, stop, exit and release code, every fatal exit and every
\* host fault is of that kind.
LEMMA RunKept ==
    ASSUME VcpuInv, NEW p \in Cpus, Run(p) \/ Disturb(p)
    PROVE  Kept(cpu[p], cpu'[p])
<1> /\ cpu[p] \in [mode : {"native", "root", "guest"}, pc : Places, path : Paths]
    /\ cpu \in [Cpus -> [mode : {"native", "root", "guest"}, pc : Places, path : Paths]]
    BY Zenon DEF VcpuInv, VcpuTypeOK
<1>1. PathInv(vcpu[p], cpu[p]) /\ ReleaseInv(vcpu[p], cpu[p])
    BY Zenon DEF VcpuInv, CpuInv
<1> USE DEF Kept, LaunchPlaces, StopPlaces, PathInv, ReleaseInv, ReleasePlaces, EndPlaces,
            At, Goto
<1>2. CASE PrepareClaim(p) \/ PrepareRefuse(p) \/ PrepareReject(p) \/ PrepareVmxOn(p)
    BY <1>1, <1>2 DEF PrepareClaim, PrepareRefuse, PrepareReject, PrepareVmxOn
<1>3. CASE PreparePublish(p) \/ PrepareLoadVmcs(p) \/ PrepareAbandon(p) \/ PrepareReady(p)
    BY <1>1, <1>3 DEF PreparePublish, PrepareLoadVmcs, PrepareAbandon, PrepareReady
<1>4. CASE MarkHandoff(p) \/ MarkLaunched(p) \/ VmLaunch(p) \/ LaunchFails(p)
    BY <1>1, <1>4 DEF MarkHandoff, MarkLaunched, VmLaunch, LaunchFails, CasStage, CasState
<1>5. CASE AbortClaimStage(p) \/ AbortClaimState(p) \/ LaunchFailed(p)
    BY <1>1, <1>5 DEF AbortClaimStage, AbortClaimState, LaunchFailed, CasStage
<1>6. CASE MarkCurrentVcpuRunning(p) \/ RunFirstExitProbe(p)
    BY <1>1, <1>6 DEF MarkCurrentVcpuRunning, RunFirstExitProbe
<1>7. CASE StopEnter(p) \/ StopClaimStage(p) \/ StopClaimState(p) \/ StopRequest(p)
    BY <1>1, <1>7 DEF StopEnter, StopClaimStage, StopClaimState, StopRequest, CasStage, CasState
<1>8. CASE StopVmcall(p) \/ StopDeferRequest(p) \/ StopDeferStage(p) \/ StopDeferState(p)
    BY <1>1, <1>8 DEF StopVmcall, StopDeferRequest, StopDeferStage, StopDeferState,
       CasStage, CasState
<1>9. CASE StopUnconsumed(p) \/ StopPublishState(p) \/ StopPublishStage(p)
    BY <1>1, <1>9 DEF StopUnconsumed, StopPublishState, StopPublishStage, CasStage, CasState
<1>10. CASE UnloadDefer(p) \/ UnloadAccept(p) \/ UnloadHalt(p)
    BY <1>1, <1>10, SMTT(60) DEF UnloadDefer, UnloadAccept, UnloadHalt
<1>11. CASE MarkCurrentVcpuTearingDown(p)
    <2>1. CASE Authorized(p)
        BY <1>1, <1>11, <2>1, Zenon DEF MarkCurrentVcpuTearingDown
    <2>2. CASE ~Authorized(p)
        BY <1>1, <1>11, <2>2, Zenon DEF MarkCurrentVcpuTearingDown
    <2> QED BY <2>1, <2>2, Zenon
<1>12. CASE ClearVmcsBegin(p) \/ ClearVmcsAbsent(p) \/ ClearVmcsDone(p) \/ ClearVmcsFails(p)
    BY <1>1, <1>12 DEF ClearVmcsBegin, ClearVmcsAbsent, ClearVmcsDone, ClearVmcsFails
<1>13. CASE VmxOff(p)
    BY <1>1, <1>13 DEF VmxOff, AfterVmxOff
<1>14. CASE VmxOffFails(p)
    BY <1>1, <1>14 DEF VmxOffFails
<1>15. CASE FatalExit(p)
    BY <1>1, <1>15, Zenon DEF FatalExit
<1>16. CASE HostException(p)
    BY <1>1, <1>16 DEF HostException
<1>17. CASE HvFatalBugCheck(p)
    BY <1>1, <1>17, Zenon DEF HvFatalBugCheck
<1>18. CASE RestoreInvalid(p) \/ MarkCurrentVcpuParked(p)
    BY <1>1, <1>18 DEF RestoreInvalid, MarkCurrentVcpuParked
<1> HIDE DEF Kept
<1> QED
    BY <1>2, <1>3, <1>4, <1>5, <1>6, <1>7, <1>8, <1>9, <1>10, <1>11, <1>12, <1>13,
       <1>14, <1>15, <1>16, <1>17, <1>18, SMTT(60)
       DEF Run, Disturb, Launch, Stop, Exit, Release

\* A quiet processor is native, runs no driver code and has none pending.
LEMMA QuietFacts ==
    ASSUME NEW p \in Cpus, Quiet(p)
    PROVE  /\ cpu[p].mode = "native" /\ cpu[p].pc = "idle" /\ cpu[p].path = "none"
           /\ ~Uses(p) /\ ~Live(p)
BY DEF Quiet, NativeCpu, Uses, Terminal, Live

\* A fault cannot be on record when every processor is quiet, so a new start
\* resets nothing.
LEMMA NoFaultWhenQuiet ==
    ASSUME VmmTypeOK, FaultInv, \A p \in Cpus : Quiet(p)
    PROVE  hostFault = FALSE
<1>1. ~hostFault
    BY QuietFacts, Zenon DEF FaultInv
<1> QED BY <1>1, Zenon DEF VmmTypeOK, VcpuTypeOK

\* Every step of the whole system is a step of the processor component, or leaves
\* it alone: callbacks are entered and left one at a time, and contexts are only
\* zeroed under native, idle processors.
LEMMA StepOfVcpu ==
    ASSUME VmmInv, Next
    PROVE  [VcpuNext]_vcpuVars
<1> ~crashed
    BY Zenon DEF Next
<1>1. co \in CoType /\ IndexInv /\ VcpuTypeOK /\ WorkTypeOK
    BY Zenon DEF VmmInv, VmmTypeOK
<1>2. CASE WaitTargetOperation \/ WaitTargetLaunchDpc
    BY <1>1, <1>2, WaitRecords, Zenon DEF vcpuVars
<1>3. ASSUME co.pc \in {"capabilities", "allocate", "reclaim"}
      PROVE  \A p \in Cpus : Quiet(p)
    BY <1>3, Zenon DEF VmmInv, QuietInv, StorageInv, OutsideSteps
<1>4. ASSUME co.pc \in {"allocate", "reclaim"}, ZeroAll, UNCHANGED <<cpu, hostFault, crashed>>
      PROVE  VcpuReuse
    BY <1>3, <1>4, Zenon DEF VcpuReuse, ZeroAll, Quiet
<1>5. CASE Start
    <2>1. CASE StartInitialize /\ Leaves /\ hostFault' = FALSE /\ UNCHANGED crashed
        <3>1. co.pc = "capabilities"
            BY <1>1, <2>1, EarlyMoves, Zenon
        <3>2. hostFault = FALSE
            BY <1>3, <3>1, NoFaultWhenQuiet, Zenon DEF VmmInv
        <3> QED BY <2>1, <3>2, Zenon DEF Leaves, vcpuVars
    <2>2. CASE ZeroAll /\ UNCHANGED <<cpu, hostFault, crashed>> /\ co.pc = "allocate"
        BY <1>4, <2>2, Zenon DEF VcpuNext
    <2> QED BY <1>1, <1>5, <2>1, <2>2, StartRecords, Zenon
<1>6. CASE StopHypervisor \/ DriverUnload
    <2>1. CASE Leaves /\ crashed' = TRUE /\ UNCHANGED hostFault
        BY <2>1, Zenon DEF VcpuNext, OtherBugCheck, Leaves
    <2>2. CASE ZeroAll /\ UNCHANGED <<cpu, hostFault, crashed>> /\ co.pc = "reclaim"
        BY <1>4, <2>2, Zenon DEF VcpuNext
    <2> QED BY <1>1, <1>6, <2>1, <2>2, StopRecords, Zenon
<1>7. ASSUME NEW p \in Cpus, Run(p) \/ Disturb(p)
      PROVE  VcpuNext
    BY <1>7, Zenon DEF VcpuNext
<1>8. ASSUME NEW p \in Cpus, TargetCpuWorker(p) \/ TargetLaunchDpcRoutine(p),
             UNCHANGED <<hostFault, crashed>>
      PROVE  [VcpuNext]_vcpuVars
    BY <1>1, <1>8, WorkerFrame, Zenon DEF VcpuNext, vcpuVars
<1> QED
    BY <1>2, <1>5, <1>6, <1>7, <1>8, Zenon DEF Next, Coordinator

\* The coordinator never loses sight of an owner: it closes a handle only over a
\* terminated thread, and forgets a DPC only when it is drained or removed.
LEMMA TouchKeepsWork ==
    ASSUME WorkTypeOK, Touches, \A q \in Cpus : WorkInv(q)
    PROVE  /\ \A q \in Cpus : WorkInv(q)'
           /\ Settles => \A q \in Cpus : /\ work'[q].thread = work[q].thread
                                         /\ dpc'[q].routine = dpc[q].routine
<1> SUFFICES ASSUME NEW q \in Cpus
             PROVE  /\ WorkInv(q)'
                    /\ Settles => /\ work'[q].thread = work[q].thread
                                  /\ dpc'[q].routine = dpc[q].routine
    BY Zenon
<1> USE DEF WorkInv
<1>1. co.i \in Cpus /\ UNCHANGED cpu /\ WorkInv(q)
    BY Zenon DEF Touches, Enqueues, Settles, Removes
<1>2. ASSUME CloseCompletedTargetWork(co.i), UNCHANGED dpc
      PROVE  WorkInv(q)' /\ work'[q].thread = work[q].thread
    BY <1>1, <1>2 DEF WorkTypeOK, CloseCompletedTargetWork
<1>3. ASSUME NEW s, CancelFrom(co.i, s), UNCHANGED dpc
      PROVE  WorkInv(q)' /\ work'[q].thread = work[q].thread
    BY <1>1, <1>3, Zenon DEF WorkTypeOK, CancelFrom
<1>4. ASSUME QueueOperationFails(co.i), UNCHANGED dpc
      PROVE  WorkInv(q)' /\ work'[q].thread = work[q].thread
    <2>1. CASE work' = work
        BY <1>1, <1>4, <2>1, Zenon
    <2>2. ASSUME NEW s, ~work[co.i].ThreadHandle,
                 work' = [work EXCEPT ![co.i] = [ZeroWork EXCEPT !.State = s]]
          PROVE  WorkInv(q)' /\ work'[q].thread = work[q].thread
        BY <1>1, <1>4, <2>2, Zenon DEF WorkTypeOK, ZeroWork
    <2>3. work' = work \/ (/\ ~work[co.i].ThreadHandle
                           /\ \E s \in {"Idle", "Failed"} :
                                work' = [work EXCEPT ![co.i] = [ZeroWork EXCEPT !.State = s]])
        BY <1>4, Zenon DEF QueueOperationFails
    <2> HIDE DEF WorkInv
    <2> QED BY <2>1, <2>2, <2>3, Zenon
<1>5. ASSUME DrainLaunchDpc(co.i), UNCHANGED work
      PROVE  WorkInv(q)' /\ dpc'[q].routine = dpc[q].routine
    BY <1>1, <1>5 DEF WorkTypeOK, DrainLaunchDpc
<1>6. ASSUME QueueLaunchFails(co.i), UNCHANGED work
      PROVE  WorkInv(q)' /\ dpc'[q].routine = dpc[q].routine
    <2>1. CASE UNCHANGED dpc
        BY <1>1, <1>6, <2>1, Zenon
    <2>2. CASE /\ ~dpc[co.i].DpcQueued
               /\ dpc' = [dpc EXCEPT ![co.i] = [ZeroDpc EXCEPT !.State = "Failed",
                                                              !.Done = TRUE]]
        BY <1>1, <1>6, <2>2, Zenon DEF WorkTypeOK, ZeroDpc
    <2> QED BY <1>6, <2>1, <2>2, Zenon DEF QueueLaunchFails
<1>7. ASSUME RemoveLaunchDpc(co.i), UNCHANGED work
      PROVE  WorkInv(q)'
    BY <1>1, <1>7, Zenon DEF WorkTypeOK, RemoveLaunchDpc
<1>8. ASSUME NEW operation, QueueTargetOperation(co.i, operation), UNCHANGED dpc
      PROVE  WorkInv(q)'
    BY <1>1, <1>8, Zenon DEF WorkTypeOK, QueueTargetOperation
<1>9. ASSUME QueueTargetLaunchDpc(co.i), UNCHANGED work
      PROVE  WorkInv(q)'
    BY <1>1, <1>9, Zenon DEF WorkTypeOK, QueueTargetLaunchDpc
<1> HIDE DEF WorkInv
<1>10. Settles => WorkInv(q)' /\ work'[q].thread = work[q].thread
                              /\ dpc'[q].routine = dpc[q].routine
    BY <1>2, <1>3, <1>4, <1>5, <1>6, Zenon DEF Settles
<1>11. Enqueues \/ Removes => WorkInv(q)'
    BY <1>7, <1>8, <1>9, Zenon DEF Enqueues, Removes
<1> QED BY <1>10, <1>11, Zenon DEF Touches

\* A worker or DPC step keeps its own record honest: a callback starts with its
\* owner recorded and the owner goes only after the callback returned.
LEMMA WorkerKeepsWork ==
    ASSUME VcpuInv, WorkTypeOK, NEW p \in Cpus, WorkInv(p),
           TargetCpuWorker(p) \/ TargetLaunchDpcRoutine(p)
    PROVE  WorkInv(p)'
<1>1. /\ cpu \in [Cpus -> [mode : {"native", "root", "guest"}, pc : Places, path : Paths]]
      /\ PathInv(vcpu[p], cpu[p])
    BY Zenon DEF VcpuInv, VcpuTypeOK, CpuInv
<1> USE <1>1 DEF WorkInv, WorkTypeOK, PathInv, ReleasePlaces, LaunchPlaces, StopPlaces, At, Goto
<1>2. CASE WorkerEnter(p)
    BY <1>2, Zenon DEF WorkerEnter
<1>3. CASE WorkerPlace(p)
    BY <1>3, Zenon DEF WorkerPlace
<1>4. CASE WorkerMisplaced(p)
    BY <1>4, Zenon DEF WorkerMisplaced
<1>5. CASE WorkerProbe(p)
    BY <1>5, Zenon DEF WorkerProbe, Executing
<1>6. CASE WorkerCanary(p)
    BY <1>6 DEF WorkerCanary, Executing
<1>7. CASE WorkerStopCall(p)
    BY <1>7 DEF WorkerStopCall, Executing, StopCall
<1>8. CASE WorkerStopReturn(p)
    BY <1>8 DEF WorkerStopReturn
<1>9. CASE WorkerReport(p)
    BY <1>9, Zenon DEF WorkerReport
<1>10. CASE WorkerPublish(p)
    BY <1>10, Zenon DEF WorkerPublish
<1>11. CASE DpcEnter(p)
    BY <1>11 DEF DpcEnter, LaunchCall
<1>12. CASE DpcLaunchReturn(p)
    BY <1>12 DEF DpcLaunchReturn
<1>13. CASE DpcFinish(p)
    BY <1>13, Zenon DEF DpcFinish
<1>14. CASE DpcSignal(p)
    BY <1>14, Zenon DEF DpcSignal
<1>15. CASE DpcReturn(p)
    BY <1>15, Zenon DEF DpcReturn
<1> HIDE DEF WorkInv
<1> QED
    BY <1>2, <1>3, <1>4, <1>5, <1>6, <1>7, <1>8, <1>9, <1>10, <1>11, <1>12, <1>13,
       <1>14, <1>15, Zenon DEF TargetCpuWorker, TargetLaunchDpcRoutine

\* All code on a processor has a visible owner after every step.
LEMMA WorkKeeps ==
    ASSUME VmmInv, Next
    PROVE  \A q \in Cpus : WorkInv(q)'
<1>1. /\ co \in CoType /\ IndexInv /\ VcpuTypeOK /\ WorkTypeOK /\ VcpuInv
      /\ \A q \in Cpus : WorkInv(q)
    BY Zenon DEF VmmInv, VmmTypeOK
<1>2. CASE Leaves
    BY <1>1, <1>2, Zenon DEF Leaves, WorkInv, workVars
<1>3. CASE Touches
    BY <1>1, <1>3, TouchKeepsWork, Zenon
<1>4. ASSUME co.pc \in {"allocate", "reclaim"}, ZeroAll, UNCHANGED cpu, NEW q \in Cpus
      PROVE  WorkInv(q)'
    <2>1. Quiet(q)
        BY <1>4, Zenon DEF VmmInv, QuietInv, StorageInv, OutsideSteps
    <2>2. work'[q].thread = "none" /\ dpc'[q].routine = "none"
        BY <1>4, <2>1, Zenon DEF ZeroAll, Quiet, ZeroWork, ZeroDpc
    <2>3. cpu'[q].pc = "idle" /\ cpu'[q].path = "none"
        BY <1>4, <2>1, QuietFacts, Zenon
    <2> QED BY <2>2, <2>3, Zenon DEF WorkInv, LaunchPlaces, StopPlaces
<1>5. CASE Coordinator \/ DriverUnload
    BY <1>1, <1>2, <1>3, <1>4, <1>5, WaitRecords, StartRecords, StopRecords, Zenon
       DEF Coordinator
<1>6. ASSUME NEW p \in Cpus, Run(p) \/ Disturb(p), UNCHANGED workVars, NEW q \in Cpus
      PROVE  WorkInv(q)'
    <2>1. CASE q = p
        BY <1>1, <1>6, <2>1, RunKept, Zenon DEF Kept, WorkInv, workVars
    <2>2. CASE q # p
        BY <1>1, <1>6, <2>2, Local, Zenon DEF WorkInv, workVars
    <2> QED BY <2>1, <2>2, Zenon
<1>7. ASSUME NEW p \in Cpus, TargetCpuWorker(p) \/ TargetLaunchDpcRoutine(p),
             UNCHANGED <<hostFault, crashed>>, NEW q \in Cpus
      PROVE  WorkInv(q)'
    <2>1. CASE q = p
        BY <1>1, <1>7, <2>1, WorkerKeepsWork, Zenon
    <2>2. CASE q # p
        <3>1. work'[q] = work[q] /\ dpc'[q] = dpc[q]
            BY <1>1, <1>7, <2>2, WorkerFrame, Zenon
        <3>2. cpu'[q] = cpu[q]
            BY <1>1, <1>7, <2>2, WorkerFrame, Local, Zenon DEF Aside
        <3> QED BY <1>1, <3>1, <3>2, Zenon DEF WorkInv
    <2> QED BY <2>1, <2>2, Zenon
<1> QED BY <1>5, <1>6, <1>7, Zenon DEF Next

\* A recorded fault stays pinned to the processor that faulted.
LEMMA FaultKeeps ==
    ASSUME VmmInv, Next
    PROVE  FaultInv'
<1>1. co \in CoType /\ IndexInv /\ VcpuTypeOK /\ WorkTypeOK /\ VcpuInv /\ FaultInv
    BY Zenon DEF VmmInv, VmmTypeOK
<1>2. ASSUME UNCHANGED cpu, hostFault' => hostFault
      PROVE  FaultInv'
    BY <1>1, <1>2, Zenon DEF FaultInv
<1>3. CASE Coordinator \/ DriverUnload
    BY <1>1, <1>2, <1>3, WaitRecords, StartRecords, StopRecords, Zenon
       DEF Coordinator, Leaves, Touches, vcpuVars
<1>4. ASSUME NEW p \in Cpus, Run(p) \/ Disturb(p)
      PROVE  FaultInv'
    <2>1. CASE HostException(p)
        <3>1. cpu'[p].mode = "root" /\ cpu'[p].pc \in {"bugcheck", "hung"}
            BY <1>1, <2>1, Zenon DEF HostException, VcpuTypeOK
        <3> QED BY <3>1, Zenon DEF FaultInv
    <2>2. CASE UNCHANGED hostFault
        <3> SUFFICES ASSUME hostFault
                     PROVE  FaultInv'
            BY <2>2, Zenon DEF FaultInv
        <3>1. PICK q \in Cpus : cpu[q].pc \in {"bugcheck", "hung"} /\ cpu[q].mode = "root"
            BY <1>1, Zenon DEF FaultInv
        <3>2. cpu'[q] = cpu[q]
            BY <1>1, <1>4, <3>1, RunKept, Local, Zenon DEF Kept
        <3> QED BY <3>1, <3>2, Zenon DEF FaultInv
    <2> QED BY <1>4, <2>1, <2>2, Zenon DEF Run, Disturb, HvFatalBugCheck
<1>5. ASSUME NEW p \in Cpus, TargetCpuWorker(p) \/ TargetLaunchDpcRoutine(p),
             UNCHANGED <<hostFault, crashed>>
      PROVE  FaultInv'
    <2> SUFFICES ASSUME hostFault
                 PROVE  FaultInv'
        BY <1>5, Zenon DEF FaultInv
    <2>1. PICK q \in Cpus : cpu[q].pc \in {"bugcheck", "hung"} /\ cpu[q].mode = "root"
        BY <1>1, Zenon DEF FaultInv
    <2>2. cpu'[q] = cpu[q]
        <3>1. CASE q = p
            BY <1>1, <1>5, <2>1, <3>1, WorkerFrame, Zenon
               DEF LaunchCall, StopCall, CallbackReturn, At
        <3>2. CASE q # p
            BY <1>1, <1>5, <3>2, WorkerFrame, Local, Zenon DEF Aside
        <3> QED BY <3>1, <3>2, Zenon
    <2> QED BY <2>1, <2>2, Zenon DEF FaultInv
<1> QED BY <1>3, <1>4, <1>5, Zenon DEF Next

-----------------------------------------------------------------------------
(***************************************************************************)
(* The storage.                                                            *)
(***************************************************************************)

\* These coordinator steps change neither storage nor crash-dump ownership.
LEMMA SameStorage ==
    /\ QueueProbe => UNCHANGED storageVars
    /\ QueueProbeDone => UNCHANGED storageVars
    /\ WaitProbe => UNCHANGED storageVars
    /\ ProbeDone => UNCHANGED storageVars
    /\ StagedLaunch => UNCHANGED storageVars
    /\ Canary => UNCHANGED storageVars
    /\ Handoff => UNCHANGED storageVars
    /\ Verify => UNCHANGED storageVars
    /\ StopBind => UNCHANGED storageVars
    /\ StopNext => UNCHANGED storageVars
    /\ StopAttempt => UNCHANGED storageVars
    /\ StopAttemptDone => UNCHANGED storageVars
    /\ StopRetryCheck => UNCHANGED storageVars
    /\ StopDone => UNCHANGED storageVars
    /\ StopReserved => UNCHANGED storageVars
    /\ DriverUnload => UNCHANGED storageVars
BY Zenon DEF QueueProbe, QueueProbeDone, WaitProbe, ProbeDone, StagedLaunch, Canary,
   Handoff, Verify, StopBind, StopNext, StopAttempt, StopAttemptDone,
   StopRetryCheck, StopDone, StopReserved, DriverUnload

\* A quarantine keeps the storage it finds.
LEMMA QuarantineKeeps ==
    ASSUME StorageInv, vcpuData, Quarantine, co'.pc \in {"resident", "stopReturn"}
    PROVE  StorageInv'
BY Zenon DEF StorageInv, Quarantine, WaitPlaces, RetryPlaces, LaunchSteps, StopSteps,
       OutsideSteps, IsHypervisorQuarantined

\* So does a start that quits: it only runs with its contexts allocated.
LEMMA QuitsKeeps ==
    ASSUME StorageInv, Quits,
           \/ co.pc \in LaunchSteps
           \/ co.pc \in WaitPlaces /\ co.phase \in {"probe", "staged", "final"}
    PROVE  StorageInv'
<1>1. vcpuData /\ ~IsHypervisorQuarantined
    BY Zenon DEF StorageInv, LaunchSteps, WaitPlaces
<1>2. CASE co'.pc = "resident" /\ Quarantine
    BY <1>1, <1>2, QuarantineKeeps, Zenon
<1>3. CASE co'.pc = "stopClaim" /\ UNCHANGED storageVars
    BY <1>1, <1>3, Zenon DEF StorageInv, storageVars, WaitPlaces, RetryPlaces, LaunchSteps,
       StopSteps, OutsideSteps, IsHypervisorQuarantined
<1> QED BY <1>2, <1>3, Zenon DEF Quits

\* At each place the coordinator finds the storage it needs, and a quarantine is
\* only left by returning to the loader or by a bugcheck.
LEMMA StorageKeeps ==
    ASSUME co \in CoType, IndexInv, StorageInv, Coordinator \/ DriverUnload
    PROVE  StorageInv'
<1> USE DEF StorageInv, WaitPlaces, RetryPlaces, LaunchSteps, StopSteps, OutsideSteps,
            IsHypervisorQuarantined
<1>1. CASE WaitTargetOperation
    <2>1. UNCHANGED storageVars
        BY <1>1, Zenon DEF WaitTargetOperation, WaitCompletes, WaitTimesOut,
           WaitCancelQueued, WaitCancelEntered, WaitCheckTerminal,
           WaitGraceCompletes, WaitGraceTimesOut
    <2> QED BY <1>1, <2>1, WaitMoves, Zenon DEF SamePhase, storageVars
<1>2. CASE WaitTargetLaunchDpc
    <2>1. UNCHANGED storageVars
        BY <1>2, Zenon DEF WaitTargetLaunchDpc, LaunchWaitSignalled, LaunchWaitDrain,
           LaunchWaitTimesOut, LaunchTimeoutRemoves, LaunchTimeoutUnresolved
    <2> QED BY <1>2, <2>1, LaunchWaitMoves, Zenon DEF DpcWaitPlaces, storageVars
<1>3. CASE DriverEntry
    BY <1>3, EarlyMoves, Zenon DEF DriverEntry
<1>4. CASE StartClaim
    BY <1>4, EarlyMoves, Zenon DEF StartClaim, NotBusy
<1>5. CASE StartInitialize
    <2>1. /\ co.pc = "capabilities" /\ co'.pc = "allocate"
          /\ UNCHANGED <<lifecycle, pinned, vcpuData, workData>>
        BY <1>5, EarlyMoves, Zenon DEF StartInitialize
    <2> QED BY <2>1, Zenon
<1>6. CASE StartReject
    <2>1. /\ co.pc \in {"capabilities", "allocate"} /\ co'.pc = "entryFailed"
          /\ lifecycle' = "Idle" /\ UNCHANGED <<pinned, vcpuData, workData>>
        BY <1>6, EarlyMoves, Zenon DEF StartReject
    <2> QED BY <2>1, Zenon
<1>7. CASE StartAllocate
    BY <1>7, EarlyMoves, Zenon DEF StartAllocate
<1>8. CASE StartAllocateFails
    BY <1>8, EarlyMoves, Zenon DEF StartAllocateFails
<1>9. CASE QueueProbe \/ QueueProbeDone
    BY <1>9, EarlyMoves, SameStorage, SMTT(60) DEF storageVars
<1>10. CASE WaitProbe \/ ProbeDone
    BY <1>10, EarlyMoves, SameStorage DEF storageVars
<1>11. CASE WaitProbeDone \/ LaunchCheck
    <2>1. co.pc \in LaunchSteps
        BY <1>11, StagedMoves, Zenon
    <2>2. \/ Quits
          \/ co'.pc \in {"launch", "canary"} /\ UNCHANGED storageVars
        BY <1>11, StagedMoves, Zenon
    <2>3. CASE Quits
        BY <2>1, <2>3, QuitsKeeps, Zenon
    <2>4. CASE co'.pc \in {"launch", "canary"} /\ UNCHANGED storageVars
        BY <2>1, <2>4, Zenon DEF storageVars
    <2> QED BY <2>2, <2>3, <2>4, Zenon
<1>12. CASE StagedLaunch \/ Canary
    BY <1>12, StagedMoves, SameStorage DEF storageVars
<1>13. CASE StagedCanaryDone \/ FinalCanaryDone
    <2>1. co.pc \in WaitPlaces /\ co.phase \in {"probe", "staged", "final"}
        BY <1>13, StagedMoves, Zenon
    <2>2. \/ Quits
          \/ /\ co'.pc \in {"launch", "canary", "handoff", "verify"}
             /\ UNCHANGED storageVars
        BY <1>13, StagedMoves, Zenon
    <2>3. CASE Quits
        BY <2>1, <2>3, QuitsKeeps, Zenon
    <2>4. CASE /\ co'.pc \in {"launch", "canary", "handoff", "verify"}
               /\ UNCHANGED storageVars
        BY <2>1, <2>4, Zenon DEF storageVars
    <2> QED BY <2>2, <2>3, <2>4, Zenon
<1>14. CASE Handoff \/ Verify
    BY <1>14, StagedMoves, SameStorage DEF storageVars
<1>15. CASE Publish
    BY <1>15, StagedMoves, Zenon DEF Publish
<1>16. CASE StopClaim
    BY <1>16, StopMoves, Zenon DEF StopClaim
<1>17. CASE StopCheck \/ FinalCheck
    <2>1. co.pc \in {"stopCheck", "finalCheck"}
        BY <1>17, StopMoves, Zenon
    <2>2. \/ Quarantine /\ co'.pc = "stopReturn"
          \/ co'.pc \in {"stopBind", "reclaim"} /\ UNCHANGED storageVars
        BY <1>17, StopMoves, Zenon
    <2>3. CASE Quarantine /\ co'.pc = "stopReturn"
        BY <2>1, <2>3, QuarantineKeeps, Zenon
    <2>4. CASE co'.pc \in {"stopBind", "reclaim"} /\ UNCHANGED storageVars
        BY <2>1, <2>4, Zenon DEF storageVars
    <2> QED BY <2>2, <2>3, <2>4, Zenon
<1>18. CASE StopBind \/ StopNext \/ StopDone \/ StopReserved
    BY <1>18, StopMoves, SameStorage, SMTT(60) DEF storageVars
<1>19. CASE StopAttempt \/ StopAttemptDone \/ StopRetryCheck \/ DriverUnload
    <2>1. UNCHANGED storageVars
        BY <1>19, SameStorage, Zenon
    <2>2. CASE DriverUnload
        BY <2>1, <2>2, StopMoves, Zenon DEF storageVars
    <2>3. CASE StopAttempt
        BY <2>1, <2>3, StopMoves, Zenon DEF IndexInv, SamePhase, storageVars
    <2>4. CASE StopAttemptDone \/ StopRetryCheck
        BY <2>1, <2>4, StopMoves, Zenon DEF SamePhase, storageVars
    <2> QED BY <1>19, <2>2, <2>3, <2>4, Zenon
<1>20. CASE Reclaim
    <2>1. /\ co.pc = "reclaim" /\ co'.pc = "setIdle"
          /\ vcpuData' = FALSE /\ workData' = FALSE /\ UNCHANGED <<lifecycle, pinned>>
        BY <1>20, StopMoves, Zenon DEF Reclaim
    <2> QED BY <2>1, Zenon
<1>21. CASE SetIdle
    <2>1. /\ co.pc = "setIdle" /\ co'.pc = "stopReturn" /\ lifecycle' = "Idle"
          /\ UNCHANGED <<pinned, vcpuData, workData>>
        BY <1>21, StopMoves, Zenon DEF SetIdle
    <2> QED BY <2>1, Zenon
<1>22. CASE EntryFailed \/ UnloadReturn
    <2>1. \/ /\ IsHypervisorQuarantined /\ co'.pc = "resident"
             /\ UNCHANGED storageVars
          \/ /\ ~IsHypervisorQuarantined /\ IsHypervisorStopComplete
             /\ co'.pc = "unloaded"
             /\ UNCHANGED <<lifecycle, pinned, vcpuData, workData>>
          \/ UNCHANGED <<storageVars, co>>
        BY <1>22, LeaveMoves, Zenon
    <2>2. CASE /\ IsHypervisorQuarantined /\ co'.pc = "resident"
               /\ UNCHANGED storageVars
        BY <2>2, Zenon DEF storageVars
    <2>3. CASE /\ ~IsHypervisorQuarantined /\ IsHypervisorStopComplete
               /\ co'.pc = "unloaded"
               /\ UNCHANGED <<lifecycle, pinned, vcpuData, workData>>
        BY <2>3, Zenon DEF IsHypervisorStopComplete
    <2>4. CASE UNCHANGED <<storageVars, co>>
        BY <2>4, Zenon DEF storageVars
    <2> QED BY <2>1, <2>2, <2>3, <2>4, Zenon
<1> HIDE DEF StorageInv
<1> QED
    BY <1>1, <1>2, <1>3, <1>4, <1>5, <1>6, <1>7, <1>8, <1>9, <1>10, <1>11, <1>12,
       <1>13, <1>14, <1>15, <1>16, <1>17, <1>18, <1>19, <1>20, <1>21, <1>22, ZenonT(60)
       DEF Coordinator, Start, StopHypervisor

\* While every processor is quiet only a start may queue work, and then both the
\* contexts and the work records exist.
LEMMA StaysQuiet ==
    ASSUME VmmInv, Coordinator \/ DriverUnload, \A p \in Cpus : Quiet(p),
           co.pc \notin {"queueProbe", "launch", "canary"}
    PROVE  \A p \in Cpus : Quiet(p)'
<1>1. co \in CoType /\ IndexInv /\ WorkTypeOK /\ \A p \in Cpus : WorkInv(p)
    BY Zenon DEF VmmInv, VmmTypeOK
<1>2. CASE Leaves
    BY <1>2, Zenon DEF Leaves, Quiet, Terminal, workVars
<1>3. CASE Touches
    <2>1. ~Enqueues
        BY QuietFacts, Zenon DEF Enqueues
    <2>2. ~Removes
        BY Zenon DEF Removes, RemoveLaunchDpc, Quiet
    <2>3. Settles /\ UNCHANGED <<vcpu, cpu>>
        BY <1>3, <2>1, <2>2, Zenon DEF Touches
    <2>4. \A p \in Cpus : work'[p].thread = work[p].thread /\ dpc'[p].routine = dpc[p].routine
        BY <1>1, <1>3, <2>3, TouchKeepsWork, Zenon
    <2> QED BY <2>3, <2>4, Zenon DEF Quiet, Terminal
<1>4. ASSUME ZeroAll, UNCHANGED cpu, NEW p \in Cpus
      PROVE  Quiet(p)'
    <2>1. work'[p].thread = "none" /\ dpc'[p].routine = "none"
        BY <1>4, Zenon DEF ZeroAll, Quiet, ZeroWork, ZeroDpc
    <2>2. vcpu'[p].State = "Uninitialized"
        BY <1>4, Zenon DEF ZeroAll, ZeroContexts, ZeroVcpu
    <2> QED BY <1>4, <2>1, <2>2, Zenon DEF Quiet, Terminal
<1> QED
    BY <1>1, <1>2, <1>3, <1>4, WaitRecords, StartRecords, StopRecords, Zenon
       DEF Coordinator

\* What FinalCheck proves before anything is freed: terminal states and resolved
\* work leave every processor quiet.
LEMMA ReclaimableIsQuiet ==
    ASSUME VmmInv, ~NotReclaimable, NEW p \in Cpus
    PROVE  Quiet(p)
<1>1. Terminal(p)
    BY Zenon DEF NotReclaimable, HasUnresolvedVcpu
<1>2. CASE ~workData
    BY <1>2, Zenon DEF VmmInv, QuietInv
<1>3. CASE workData
    <2>1. ~work[p].ThreadHandle /\ ~dpc[p].DpcQueued
        BY <1>3, Zenon DEF NotReclaimable, HasUnresolvedTargetWork
    <2>2. WorkInv(p)
        BY Zenon DEF VmmInv
    <2>3. work[p].thread = "none" /\ dpc[p].routine = "none"
        BY <2>1, <2>2, Zenon DEF WorkInv
    <2>4. /\ cpu[p].pc \notin LaunchPlaces \cup StopPlaces \cup {"unload", "restore"}
          /\ cpu[p].path \notin {"rollback", "restore"}
        BY <2>2, <2>3, Zenon DEF WorkInv
    <2>5. /\ CpuInv(vcpu[p], cpu[p])
          /\ cpu[p] \in [mode : {"native", "root", "guest"}, pc : Places, path : Paths]
        BY Zenon DEF VmmInv, VcpuInv, VcpuTypeOK
    <2>6. cpu[p].pc = "idle"
        BY <1>1, <2>4, <2>5, Zenon DEF Terminal, CpuInv, ReleaseInv, Places, ReleasePlaces,
           ExitPlaces, EndPlaces
    <2>7. cpu[p].path = "none"
        BY <2>5, <2>6, Zenon DEF CpuInv, PathInv, Paths, ReleasePlaces, EndPlaces
    <2>8. cpu[p].mode = "native"
        BY <1>1, PlaceFacts, Zenon DEF VmmInv, Terminal
    <2>9. cpu[p] = NativeCpu
        BY <2>5, <2>6, <2>7, <2>8, Zenon DEF NativeCpu
    <2> QED BY <1>1, <2>3, <2>9, Zenon DEF Quiet
<1> QED BY <1>2, <1>3, Zenon

\* Only an allocation, the final check and the reclaim itself decide about storage.
LEMMA DataMoves ==
    ASSUME co \in CoType, IndexInv, Coordinator \/ DriverUnload, ~FinalCheck,
           co.pc \notin {"allocate", "reclaim"}
    PROVE  UNCHANGED <<vcpuData, workData>> /\ co'.pc # "reclaim"
<1> USE DEF storageVars
<1>1. CASE WaitTargetOperation \/ WaitTargetLaunchDpc
    BY <1>1, WaitRecords, WaitMoves, LaunchWaitMoves, Zenon DEF WaitPlaces, DpcWaitPlaces
<1>2. CASE DriverEntry \/ StartClaim \/ StartInitialize \/ StartReject
    <2>1. UNCHANGED <<vcpuData, workData>>
        BY <1>2, Zenon DEF DriverEntry, StartClaim, StartInitialize, StartReject
    <2> QED BY <1>2, <2>1, EarlyMoves, Zenon
<1>3. CASE StartAllocate \/ StartAllocateFails \/ Reclaim
    BY <1>3, EarlyMoves, StopMoves, Zenon
<1>4. CASE QueueProbe \/ QueueProbeDone \/ WaitProbe \/ ProbeDone
    BY <1>4, EarlyMoves, SameStorage, Zenon
<1>5. CASE StagedLaunch \/ Canary \/ Handoff \/ Verify
    BY <1>5, StagedMoves, SameStorage, Zenon
<1>6. CASE WaitProbeDone \/ LaunchCheck \/ StagedCanaryDone \/ FinalCanaryDone
    <2>1. /\ co'.pc \in {"resident", "stopClaim", "launch", "canary", "handoff", "verify"}
          /\ Quarantine \/ UNCHANGED storageVars
        BY <1>6, StagedMoves, Zenon DEF Quits
    <2> QED BY <2>1, Zenon DEF Quarantine
<1>7. CASE Publish
    BY <1>7, StagedMoves, Zenon DEF Publish
<1>8. CASE StopBind \/ StopNext \/ StopDone \/ StopReserved
    BY <1>8, StopMoves, SameStorage, Zenon
<1>9. CASE StopAttempt \/ StopAttemptDone \/ StopRetryCheck \/ DriverUnload
    BY <1>9, StopMoves, SameStorage, Zenon
<1>10. CASE StopClaim \/ SetIdle
    <2>1. UNCHANGED <<vcpuData, workData>>
        BY <1>10, Zenon DEF StopClaim, SetIdle
    <2> QED BY <1>10, <2>1, StopMoves, Zenon
<1>11. CASE StopCheck
    BY <1>11, StopMoves, Zenon DEF Quarantine
<1>12. CASE EntryFailed \/ UnloadReturn
    <2>1. /\ UNCHANGED <<vcpuData, workData>>
          /\ co'.pc \in {"resident", "unloaded"} \/ co' = co
        BY <1>12, LeaveMoves, Zenon
    <2> QED BY <2>1, Zenon
<1> QED
    BY <1>1, <1>2, <1>3, <1>4, <1>5, <1>6, <1>7, <1>8, <1>9, <1>10, <1>11, <1>12, Zenon
       DEF Coordinator, Start, StopHypervisor

\* Storage is missing, or about to be freed, only under quiet processors, after
\* every step of the coordinator.
LEMMA QuietKeeps ==
    ASSUME VmmInv, Coordinator \/ DriverUnload
    PROVE  QuietInv'
<1>1. co \in CoType
    BY Zenon DEF VmmInv, VmmTypeOK
<1>2. CASE ~vcpuData \/ ~workData \/ co.pc = "reclaim"
    <2>1. (\A p \in Cpus : Quiet(p)) /\ co.pc \notin {"queueProbe", "launch", "canary"}
        BY <1>2, Zenon DEF VmmInv, QuietInv, StorageInv, LaunchSteps
    <2> QED BY <2>1, StaysQuiet, Zenon DEF QuietInv
<1>3. CASE vcpuData /\ workData /\ co.pc # "reclaim"
    <2>1. CASE FinalCheck
        <3>1. CASE ~NotReclaimable
            <4>1. \A p \in Cpus : Quiet(p)
                BY <3>1, ReclaimableIsQuiet, Zenon
            <4>2. co.pc = "finalCheck"
                BY <1>1, <2>1, StopMoves, Zenon
            <4> QED BY <4>1, <4>2, StaysQuiet, Zenon DEF QuietInv
        <3>2. CASE NotReclaimable
            BY <1>1, <1>3, <2>1, <3>2, StopMoves, Zenon DEF QuietInv, Quarantine
        <3> QED BY <3>1, <3>2, Zenon
    <2>2. CASE ~FinalCheck
        <3>1. co.pc # "allocate"
            BY <1>3, Zenon DEF VmmInv, StorageInv, OutsideSteps
        <3>2. vcpuData' /\ workData' /\ co'.pc # "reclaim"
            BY <1>1, <1>3, <2>2, <3>1, DataMoves, Zenon DEF VmmInv
        <3> QED BY <3>2, Zenon DEF QuietInv
    <2> QED BY <2>1, <2>2, Zenon
<1> QED BY <1>2, <1>3, Zenon

-----------------------------------------------------------------------------
(***************************************************************************)
(* The inductive invariant and the theorems.                               *)
(***************************************************************************)

\* The crash blob stays well typed, released or not.
LEMMA DumpTypes ==
    ASSUME NEW d \in [registered : BOOLEAN, blob : BOOLEAN, authorized : BOOLEAN], NEW lc
    PROVE  ReleaseHvCrashBlob(d, lc) \in
               [registered : BOOLEAN, blob : BOOLEAN, authorized : BOOLEAN]
<1>1. NoDump \in [registered : BOOLEAN, blob : BOOLEAN, authorized : BOOLEAN]
    BY Zenon DEF NoDump
<1> QED BY <1>1, Zenon DEF ReleaseHvCrashBlob

\* Leaving the driver is the only way the coordinator changes the dump callback.
LEMMA LeaveDump ==
    ASSUME dump \in [registered : BOOLEAN, blob : BOOLEAN, authorized : BOOLEAN],
           EntryFailed \/ UnloadReturn
    PROVE  dump' \in [registered : BOOLEAN, blob : BOOLEAN, authorized : BOOLEAN]
<1> DEFINE T == [registered : BOOLEAN, blob : BOOLEAN, authorized : BOOLEAN]
           d == [dump EXCEPT !.registered = FALSE, !.authorized = dump.registered]
<1>1. d \in T
    BY Zenon
<1> HIDE DEF d
<1>2. ReleaseHvCrashBlob(d, lifecycle) \in T
    BY <1>1, DumpTypes, Zenon
<1>3. dump' = dump \/ dump' = ReleaseHvCrashBlob(d, lifecycle)
    BY Zenon DEF EntryFailed, UnloadReturn, UnregisterAndUnmap, BugCheck, storageVars, d
<1> QED BY <1>2, <1>3, Zenon

\* Every step of the coordinator keeps the driver's globals well typed.
LEMMA GlobalTypes ==
    ASSUME VmmTypeOK, IndexInv, Coordinator \/ DriverUnload
    PROVE  /\ lifecycle' \in Lifecycles
           /\ pinned' \in BOOLEAN /\ vcpuData' \in BOOLEAN /\ workData' \in BOOLEAN
           /\ dump' \in [registered : BOOLEAN, blob : BOOLEAN, authorized : BOOLEAN]
<1> DEFINE T == [registered : BOOLEAN, blob : BOOLEAN, authorized : BOOLEAN]
           Typed == /\ lifecycle' \in Lifecycles
                    /\ pinned' \in BOOLEAN /\ vcpuData' \in BOOLEAN
                    /\ workData' \in BOOLEAN /\ dump' \in T
<1> SUFFICES Typed
    BY Zenon DEF T
<1>1. /\ lifecycle \in Lifecycles
      /\ pinned \in BOOLEAN /\ vcpuData \in BOOLEAN /\ workData \in BOOLEAN
      /\ dump \in T /\ co \in CoType
    BY Zenon DEF VmmTypeOK
<1>2. /\ "Idle" \in Lifecycles /\ "Starting" \in Lifecycles /\ "Running" \in Lifecycles
      /\ "Stopping" \in Lifecycles /\ "Quarantined" \in Lifecycles
    BY Zenon DEF Lifecycles
<1>3. /\ \A b \in BOOLEAN : [dump EXCEPT !.registered = b] \in T
      /\ [dump EXCEPT !.blob = TRUE] \in T
      /\ \A lc : ReleaseHvCrashBlob(dump, lc) \in T
    BY <1>1, DumpTypes, Zenon
<1> HIDE DEF T
<1>4. UNCHANGED storageVars => Typed
    BY <1>1, Zenon DEF storageVars
<1>5. Quarantine => Typed
    BY <1>1, <1>2, Zenon DEF Quarantine
<1> HIDE DEF Typed
<1>6. CASE WaitTargetOperation \/ WaitTargetLaunchDpc
    BY <1>1, <1>4, <1>6, WaitRecords, Zenon
<1>7. CASE DriverEntry \/ StartClaim \/ StartInitialize \/ StartReject
    BY <1>1, <1>2, <1>3, <1>7, Zenon
       DEF Typed, DriverEntry, StartClaim, StartInitialize, StartReject
<1>8. CASE StartAllocate \/ StartAllocateFails \/ Publish
    BY <1>1, <1>2, <1>8, Zenon DEF Typed, StartAllocate, StartAllocateFails, Publish
<1>9. CASE \/ QueueProbe \/ QueueProbeDone \/ WaitProbe \/ ProbeDone
           \/ StagedLaunch \/ Canary \/ Handoff \/ Verify
    BY <1>4, <1>9, SameStorage, Zenon
<1>10. CASE WaitProbeDone \/ LaunchCheck \/ StagedCanaryDone \/ FinalCanaryDone
    BY <1>1, <1>4, <1>5, <1>10, StagedMoves, Zenon DEF Quits
<1>11. CASE \/ StopBind \/ StopNext \/ StopDone \/ StopReserved
            \/ StopAttempt \/ StopAttemptDone \/ StopRetryCheck \/ DriverUnload
    BY <1>4, <1>11, SameStorage, Zenon
<1>12. CASE StopCheck \/ FinalCheck
    BY <1>1, <1>4, <1>5, <1>12, StopMoves, Zenon
<1>13. CASE StopClaim \/ Reclaim \/ SetIdle
    BY <1>1, <1>2, <1>3, <1>13, Zenon DEF Typed, StopClaim, Reclaim, SetIdle
<1>14. CASE EntryFailed \/ UnloadReturn
    <2>1. dump' \in T
        BY <1>1, <1>14, LeaveDump, Zenon DEF T
    <2>2. UNCHANGED <<lifecycle, pinned, vcpuData, workData>>
        BY <1>1, <1>14, LeaveMoves, Zenon DEF storageVars
    <2> QED BY <1>1, <2>1, <2>2, Zenon DEF Typed
<1> QED
    BY <1>6, <1>7, <1>8, <1>9, <1>10, <1>11, <1>12, <1>13, <1>14, Zenon
       DEF Coordinator, Start, StopHypervisor

\* Every step keeps the types.
LEMMA TypesKept ==
    ASSUME VmmInv, Next
    PROVE  VmmTypeOK'
<1>1. VmmTypeOK /\ IndexInv /\ co \in CoType /\ WorkTypeOK /\ VcpuInv
    BY Zenon DEF VmmInv, VmmTypeOK
<1>2. VcpuTypeOK'
    <2>1. VcpuInv'
        BY <1>1, StepOfVcpu, StepKeeps, Zenon
    <2> QED BY <2>1, Zenon DEF VcpuInv
<1>3. UNCHANGED workVars => WorkTypeOK'
    BY <1>1, Zenon DEF WorkTypeOK, workVars
<1>4. CASE Coordinator \/ DriverUnload
    <2>1. WorkTypeOK'
        BY <1>1, <1>3, <1>4, WaitRecords, StartRecords, StopRecords, TouchTypes, ZeroTypes, Zenon
           DEF Coordinator, Leaves
    <2>2. DriverUnload => co' \in CoType
        BY <1>1, VmmNames, Zenon DEF DriverUnload, CoGoto, CoType
    <2>3. co' \in CoType
        BY <1>1, <1>4, <2>2, WaitTypes, StartTypes, StopTypesCo, Zenon DEF Coordinator
    <2> QED BY <1>1, <1>2, <1>4, <2>1, <2>3, GlobalTypes, Zenon DEF VmmTypeOK
<1>5. ASSUME UNCHANGED vmmVars, WorkTypeOK'
      PROVE  VmmTypeOK'
    BY <1>1, <1>2, <1>5, Zenon DEF VmmTypeOK, vmmVars
<1>6. ASSUME NEW p \in Cpus, TargetCpuWorker(p) \/ TargetLaunchDpcRoutine(p)
      PROVE  WorkTypeOK'
    BY <1>1, <1>6, WorkerTypes, Zenon
<1> QED BY <1>3, <1>4, <1>5, <1>6, Zenon DEF Next

\* Only code that uses the driver moves on a processor; so nothing moves on one
\* that is quiet.
LEMMA QuietIsStill ==
    ASSUME VcpuInv, NEW p \in Cpus, Quiet(p)
    PROVE  /\ ~Run(p) /\ ~Disturb(p)
           /\ ~TargetCpuWorker(p) /\ ~TargetLaunchDpcRoutine(p)
<1>1. ~Run(p) /\ ~Disturb(p)
    BY QuietFacts, RunKept, Zenon DEF Kept
<1>2. ~TargetCpuWorker(p)
    BY Zenon DEF Quiet, TargetCpuWorker, WorkerEnter, WorkerPlace, WorkerMisplaced, WorkerProbe,
       WorkerCanary, WorkerStopCall, WorkerStopReturn, WorkerReport, WorkerPublish, Executing
<1>3. ~TargetLaunchDpcRoutine(p)
    BY Zenon DEF Quiet, TargetLaunchDpcRoutine, DpcEnter, DpcLaunchReturn, DpcFinish, DpcSignal,
       DpcReturn
<1> QED BY <1>1, <1>2, <1>3, Zenon

\* The initial state: the image is not loaded and every processor is native.
LEMMA VmmInitHolds == Init => VmmInv
<1> SUFFICES ASSUME Init PROVE VmmInv
    BY Zenon
<1>1. VcpuInv /\ VcpuTypeOK
    BY InitHolds, Zenon DEF Init, VcpuInv
<1>2. WorkTypeOK
    BY VmmNames, Zenon DEF Init, WorkInit, WorkTypeOK, ZeroWork, ZeroDpc
<1>3. VmmTypeOK
    BY <1>1, <1>2, CoInitType, Zenon DEF VmmTypeOK, Init, Lifecycles, NoDump
<1>4. \A p \in Cpus : Quiet(p)
    BY Zenon DEF Init, VcpuInit, WorkInit, Quiet, Terminal, ZeroVcpu, ZeroWork, ZeroDpc
<1>5. \A p \in Cpus : WorkInv(p)
    BY <1>4 DEF Quiet, WorkInv, NativeCpu, LaunchPlaces, StopPlaces
<1>6. co.pc = "unloaded"
    BY Zenon DEF Init, CoInit
<1>7. StorageInv
    BY <1>6, Zenon DEF Init, StorageInv, OutsideSteps, StopSteps, RetryPlaces, WaitPlaces,
       LaunchSteps, IsHypervisorQuarantined
<1>8. IndexInv
    BY <1>6, Zenon DEF IndexInv, WaitPlaces, RetryPlaces
<1> QED BY <1>1, <1>3, <1>4, <1>5, <1>7, <1>8, Zenon
      DEF VmmInv, QuietInv, FaultInv, Init, VcpuInit

\* Every step keeps the invariant.
LEMMA VmmStepKeeps == VmmInv /\ [Next]_vars => VmmInv'
<1> SUFFICES ASSUME VmmInv, [Next]_vars PROVE VmmInv'
    BY Zenon
<1>1. CASE UNCHANGED vars
    <2>1. VcpuInv'
        BY <1>1, StepKeeps, Zenon DEF VmmInv, vars
    <2>2. VmmTypeOK'
        BY <1>1, Zenon DEF vars, vcpuVars, workVars, vmmVars, VmmInv, VmmTypeOK, VcpuTypeOK,
           WorkTypeOK
    <2>3. (\A p \in Cpus : WorkInv(p)') /\ FaultInv' /\ QuietInv'
        BY <1>1, Zenon DEF vars, vcpuVars, workVars, vmmVars, VmmInv, WorkInv, FaultInv,
           QuietInv, Quiet, Terminal
    <2>4. StorageInv' /\ IndexInv'
        BY <1>1, Zenon DEF vars, vmmVars, VmmInv, StorageInv, IndexInv,
           IsHypervisorQuarantined
    <2> QED BY <2>1, <2>2, <2>3, <2>4, Zenon DEF VmmInv
<1>2. CASE Next
    <2>1. VmmTypeOK' /\ (\A p \in Cpus : WorkInv(p)') /\ FaultInv'
        BY <1>2, TypesKept, WorkKeeps, FaultKeeps, Zenon
    <2>2. VcpuInv'
        BY <1>2, StepOfVcpu, StepKeeps, Zenon DEF VmmInv
    <2>3. CASE Coordinator \/ DriverUnload
        <3>1. QuietInv' /\ StorageInv' /\ IndexInv'
            BY <2>3, QuietKeeps, StorageKeeps, IndexKeeps, Zenon DEF VmmInv, VmmTypeOK
        <3> QED BY <2>1, <2>2, <3>1, Zenon DEF VmmInv
    <2>4. ASSUME NEW p \in Cpus, UNCHANGED vmmVars,
                 Run(p) \/ Disturb(p) \/ TargetCpuWorker(p) \/ TargetLaunchDpcRoutine(p)
          PROVE  VmmInv'
        <3>1. ~Quiet(p)
            BY <2>4, QuietIsStill, Zenon DEF VmmInv
        <3>2. vcpuData /\ workData /\ co.pc # "reclaim"
            BY <3>1, Zenon DEF VmmInv, QuietInv
        <3>3. QuietInv'
            BY <2>4, <3>2, Zenon DEF QuietInv, vmmVars
        <3>4. StorageInv' /\ IndexInv'
            BY <2>4, Zenon DEF VmmInv, StorageInv, IndexInv, IsHypervisorQuarantined, vmmVars
        <3> QED BY <2>1, <2>2, <3>3, <3>4, Zenon DEF VmmInv
    <2> QED BY <1>2, <2>3, <2>4, Zenon DEF Next
<1> QED BY <1>1, <1>2, Zenon

\* For any number of processors and any retry limit: every use of the driver is
\* visible to the checks that decide about its storage.
THEOREM DriverInvariant == Spec => []VmmInv
BY VmmInitHolds, VmmStepKeeps, PTL DEF Spec

\* Type correctness of the whole driver, the retry counter included.
THEOREM DriverTypeCorrect == Spec => []VmmTypeOK
<1>1. VmmInv => VmmTypeOK
    BY Zenon DEF VmmInv
<1> QED BY <1>1, DriverInvariant, PTL

\* VMX regions, contexts, work records and the image outlive every use of them.
THEOREM StorageIsRetained == Spec => []StorageRetained
<1>1. VmmInv => StorageRetained
    <2> SUFFICES ASSUME VmmInv, NEW p \in Cpus, Uses(p)
                 PROVE  vcpuData /\ workData /\ co.pc # "unloaded"
        BY Zenon DEF StorageRetained
    <2>1. ~Quiet(p)
        BY QuietFacts, Zenon
    <2> QED BY <2>1, Zenon DEF VmmInv, QuietInv, StorageInv, OutsideSteps
<1> QED BY <1>1, DriverInvariant, PTL

\* A quarantined driver, and one whose stop has returned, can only be left.
LEMMA LastSteps ==
    ASSUME co \in CoType, Coordinator \/ DriverUnload, co.pc \in {"resident", "stopReturn"}
    PROVE  EntryFailed \/ UnloadReturn
<1>1. ~WaitTargetOperation /\ ~WaitTargetLaunchDpc
    BY WaitMoves, LaunchWaitMoves, Zenon DEF WaitPlaces, DpcWaitPlaces
<1>2. /\ ~DriverEntry /\ ~StartClaim /\ ~StartInitialize /\ ~StartReject
      /\ ~StartAllocate /\ ~StartAllocateFails /\ ~QueueProbe /\ ~QueueProbeDone
      /\ ~WaitProbe
    BY EarlyMoves, Zenon
<1>3. ~ProbeDone
    BY Zenon DEF ProbeDone, CoAt
<1>4. /\ ~WaitProbeDone /\ ~StagedLaunch /\ ~LaunchCheck /\ ~Canary
      /\ ~Handoff /\ ~Verify /\ ~Publish
    BY StagedMoves, Zenon
<1>5. ~StagedCanaryDone /\ ~FinalCanaryDone
    BY Zenon DEF StagedCanaryDone, FinalCanaryDone, CoAt
<1>6. /\ ~StopClaim /\ ~StopCheck /\ ~StopBind /\ ~StopNext /\ ~StopDone /\ ~StopReserved
      /\ ~StopAttempt /\ ~StopRetryCheck /\ ~FinalCheck /\ ~Reclaim /\ ~SetIdle
      /\ ~DriverUnload
    BY StopMoves, Zenon
<1>7. ~StopAttemptDone
    BY Zenon DEF StopAttemptDone, CoAt
<1> QED BY <1>1, <1>2, <1>3, <1>4, <1>5, <1>6, <1>7, Zenon
        DEF Coordinator, Start, StopHypervisor

\* Once quarantined, no step of the coordinator, of a late worker or of a
\* processor frees storage, unpins or unmaps the image.
THEOREM QuarantineStays == Spec => QuarantineIsFinal
<1> DEFINE Final == IsHypervisorQuarantined =>
                       /\ IsHypervisorQuarantined'
                       /\ UNCHANGED <<pinned, vcpuData, workData, dump>>
                       /\ co'.pc # "unloaded"
<1>1. VmmInv /\ [Next]_vars => [Final]_vars
    <2> SUFFICES ASSUME VmmInv, Next, IsHypervisorQuarantined
                 PROVE  Final
        BY Zenon
    <2>1. co \in CoType /\ co.pc \in {"resident", "stopReturn"}
        BY Zenon DEF VmmInv, VmmTypeOK, StorageInv
    <2>2. CASE Coordinator \/ DriverUnload
        <3>1. UNCHANGED storageVars /\ (co'.pc = "resident" \/ co' = co)
            BY <2>1, <2>2, LastSteps, LeaveMoves, Zenon
        <3> QED BY <2>1, <3>1, Zenon DEF storageVars, IsHypervisorQuarantined
    <2>3. CASE UNCHANGED vmmVars
        BY <2>1, <2>3, Zenon DEF vmmVars, IsHypervisorQuarantined
    <2> QED BY <2>2, <2>3, Zenon DEF Next
<1> QED BY <1>1, DriverInvariant, PTL DEF Spec, QuarantineIsFinal

\* The driver uses the processor component as VcpuSpec allows, so every theorem
\* about VcpuSpec holds of the whole driver.
THEOREM DriverUsesVcpu == Spec => UsesVcpu
<1>1. Init => VcpuInit
    BY Zenon DEF Init
<1>2. VmmInv /\ [Next]_vars => [VcpuNext]_vcpuVars
    <2>1. UNCHANGED vars => UNCHANGED vcpuVars
        BY Zenon DEF vars
    <2> QED BY <2>1, StepOfVcpu, Zenon
<1> QED BY <1>1, <1>2, DriverInvariant, PTL DEF Spec, UsesVcpu, VcpuSpec

-----------------------------------------------------------------------------
(***************************************************************************)
(* The driver implements VmxOwnership.                                     *)
(***************************************************************************)

\* A step that changes the use of one processor only is an Enter, a Leave or no
\* step at all.
LEMMA OneUser ==
    ASSUME ~crashed, NEW p \in Cpus, vcpuData \/ pinned,
           UNCHANGED <<vcpuData, pinned, crashed>>,
           \A q \in Cpus \ {p} : Uses(q)' <=> Uses(q)
    PROVE  Ownership!OwnershipNext
<1> DEFINE U == {q \in Cpus : Uses(q)}
<1>1. CASE Uses(p)'
    <2>1. U' = U \cup {p}
        BY <1>1, Zenon
    <2>2. Ownership!Enter(p)
        BY <2>1, Zenon DEF Ownership!Enter
    <2> QED BY <2>2, Zenon DEF Ownership!OwnershipNext
<1>2. CASE ~(Uses(p)')
    <2>1. U' = U \ {p}
        BY <1>2, Zenon
    <2>2. Ownership!Leave(p)
        BY <2>1, Zenon DEF Ownership!Leave
    <2> QED BY <2>2, Zenon DEF Ownership!OwnershipNext
<1> QED BY <1>1, <1>2, Zenon

\* A step that changes no use changes the storage in one of the ways the promise
\* allows, or stops the machine.
LEMMA SameUsers ==
    ASSUME ~crashed, \A q \in Cpus : Uses(q)' <=> Uses(q),
           \/ UNCHANGED <<vcpuData, pinned>> /\ crashed' \in {crashed, TRUE}
           \/ /\ UNCHANGED crashed /\ ~pinned
              /\ \/ vcpuData /\ pinned' = TRUE
                 \/ ~vcpuData /\ vcpuData' = TRUE /\ UNCHANGED pinned
                 \/ /\ vcpuData /\ ~vcpuData' /\ UNCHANGED pinned
                    /\ \A q \in Cpus : ~Uses(q)
    PROVE  [Ownership!OwnershipNext]_(Ownership!ownershipVars)
<1> DEFINE U == {q \in Cpus : Uses(q)}
<1>1. U' = U
    BY Zenon
<1>2. CASE UNCHANGED <<vcpuData, pinned>> /\ UNCHANGED crashed
    BY <1>1, <1>2, Zenon DEF Ownership!ownershipVars
<1>3. CASE UNCHANGED <<vcpuData, pinned>> /\ crashed' = TRUE
    BY <1>1, <1>3, Zenon DEF Ownership!OwnershipNext, Ownership!Halt
<1>4. CASE UNCHANGED crashed /\ ~pinned /\ vcpuData /\ pinned' = TRUE
    BY <1>1, <1>4, Zenon DEF Ownership!OwnershipNext, Ownership!Keep
<1>5. CASE UNCHANGED crashed /\ ~pinned /\ ~vcpuData /\ vcpuData' = TRUE /\ UNCHANGED pinned
    BY <1>1, <1>5, Zenon DEF Ownership!OwnershipNext, Ownership!Allocate
<1>6. CASE /\ UNCHANGED crashed /\ ~pinned /\ vcpuData /\ ~vcpuData' /\ UNCHANGED pinned
           /\ \A q \in Cpus : ~Uses(q)
    <2>1. U = {}
        BY <1>6, Zenon
    <2> QED BY <1>1, <1>6, <2>1, Zenon DEF Ownership!OwnershipNext, Ownership!Free
<1> QED BY <1>2, <1>3, <1>4, <1>5, <1>6, Zenon

\* What a step of the coordinator does to contexts and pin.
LEMMA StorageMoves ==
    ASSUME co \in CoType, IndexInv, Coordinator \/ DriverUnload
    PROVE  \/ UNCHANGED <<vcpuData, pinned>> /\ co.pc \notin {"allocate", "reclaim"}
           \/ /\ Quarantine /\ UNCHANGED <<vcpuVars, workVars>>
              /\ co.pc \in {"waitProbe", "launchCheck", "done", "stopCheck", "finalCheck"}
           \/ /\ co.pc = "allocate" /\ UNCHANGED <<pinned, crashed>>
              /\ vcpuData' = TRUE \/ UNCHANGED vcpuData
           \/ /\ co.pc = "reclaim" /\ UNCHANGED <<pinned, crashed>>
              /\ vcpuData' = FALSE
<1> USE DEF storageVars
<1>1. CASE WaitTargetOperation \/ WaitTargetLaunchDpc
    BY <1>1, WaitRecords, WaitMoves, LaunchWaitMoves, Zenon DEF WaitPlaces, DpcWaitPlaces
<1>2. CASE DriverEntry \/ StartClaim \/ StartInitialize
    <2>1. UNCHANGED <<vcpuData, pinned>>
        BY <1>2, Zenon DEF DriverEntry, StartClaim, StartInitialize
    <2> QED BY <1>2, <2>1, EarlyMoves, Zenon
<1>3. CASE StartReject \/ StartAllocate \/ StartAllocateFails
    <2>1. /\ UNCHANGED <<pinned, crashed>>
          /\ vcpuData' = TRUE \/ UNCHANGED vcpuData
          /\ StartReject => UNCHANGED vcpuData
        BY <1>3, Zenon DEF StartReject, StartAllocate, StartAllocateFails, vcpuVars
    <2> QED BY <1>3, <2>1, EarlyMoves, Zenon
<1>4. CASE QueueProbe \/ QueueProbeDone \/ WaitProbe \/ ProbeDone
    BY <1>4, EarlyMoves, SameStorage, Zenon
<1>5. CASE StagedLaunch \/ Canary \/ Handoff \/ Verify
    BY <1>5, StagedMoves, SameStorage, Zenon
<1>6. CASE WaitProbeDone \/ LaunchCheck \/ StagedCanaryDone \/ FinalCanaryDone
    <2>1. /\ co.pc \in {"waitProbe", "launchCheck", "done"}
          /\ Quarantine \/ UNCHANGED storageVars
        BY <1>6, StagedMoves, Zenon DEF Quits
    <2>2. UNCHANGED <<vcpuVars, workVars>>
        BY <1>6, Zenon DEF WaitProbeDone, LaunchCheck, StagedCanaryDone, FinalCanaryDone
    <2> QED BY <2>1, <2>2, Zenon
<1>7. CASE Publish
    BY <1>7, StagedMoves, Zenon DEF Publish
<1>8. CASE StopBind \/ StopNext \/ StopDone \/ StopReserved
    BY <1>8, StopMoves, SameStorage, Zenon
<1>9. CASE StopAttempt \/ StopAttemptDone \/ StopRetryCheck \/ DriverUnload
    BY <1>9, StopMoves, SameStorage, Zenon
<1>10. CASE StopClaim \/ SetIdle
    <2>1. UNCHANGED <<vcpuData, pinned>>
        BY <1>10, Zenon DEF StopClaim, SetIdle
    <2> QED BY <1>10, <2>1, StopMoves, Zenon
<1>11. CASE StopCheck \/ FinalCheck
    <2>1. /\ co.pc \in {"stopCheck", "finalCheck"}
          /\ Quarantine \/ UNCHANGED storageVars
        BY <1>11, StopMoves, Zenon
    <2>2. UNCHANGED <<vcpuVars, workVars>>
        BY <1>11, Zenon DEF StopCheck, FinalCheck
    <2> QED BY <2>1, <2>2, Zenon
<1>12. CASE Reclaim
    BY <1>12, StopMoves, Zenon DEF Reclaim
<1>13. CASE EntryFailed \/ UnloadReturn
    <2>1. UNCHANGED <<vcpuData, pinned>> /\ co.pc \in {"entryFailed", "stopReturn"}
        BY <1>13, LeaveMoves, Zenon
    <2> QED BY <2>1, Zenon
<1> QED
    BY <1>1, <1>2, <1>3, <1>4, <1>5, <1>6, <1>7, <1>8, <1>9, <1>10, <1>11, <1>12, <1>13,
       ZenonT(60) DEF Coordinator, Start, StopHypervisor

\* Touching a work record changes the use of its processor only.
LEMMA TouchOne ==
    ASSUME WorkTypeOK, Touches
    PROVE  /\ co.i \in Cpus
           /\ \A q \in Cpus \ {co.i} : Uses(q)' <=> Uses(q)
<1>1. co.i \in Cpus
    BY Zenon DEF Touches, Enqueues, Settles, Removes
<1>2. ASSUME NEW q \in Cpus \ {co.i}
      PROVE  work'[q] = work[q] /\ dpc'[q] = dpc[q] /\ cpu'[q] = cpu[q]
    BY <1>1, <1>2, Zenon DEF Touches, Enqueues, Settles, Removes, WorkTypeOK,
       QueueTargetOperation, QueueTargetLaunchDpc, CloseCompletedTargetWork,
       QueueOperationFails, CancelFrom, DrainLaunchDpc, QueueLaunchFails, RemoveLaunchDpc
<1> QED BY <1>1, <1>2, Zenon DEF Uses

\* Every step of the coordinator keeps the promise.
LEMMA CoordinatorOwns ==
    ASSUME VmmInv, ~crashed, Coordinator \/ DriverUnload
    PROVE  [Ownership!OwnershipNext]_(Ownership!ownershipVars)
<1>1. co \in CoType /\ IndexInv /\ WorkTypeOK /\ vcpuData \in BOOLEAN
    BY Zenon DEF VmmInv, VmmTypeOK
<1>2. CASE UNCHANGED <<vcpuData, pinned>> /\ co.pc \notin {"allocate", "reclaim"}
    <2>1. CASE Leaves /\ crashed' \in {crashed, TRUE}
        <3>1. \A q \in Cpus : Uses(q)' <=> Uses(q)
            BY <2>1, Zenon DEF Leaves, Uses, workVars
        <3> QED BY <1>2, <2>1, <3>1, SameUsers, Zenon
    <2>2. CASE Touches /\ UNCHANGED crashed
        <3>1. CASE vcpuData
            <4>1. Ownership!OwnershipNext
                BY <1>1, <1>2, <2>2, <3>1, TouchOne, OneUser, Zenon
            <4> QED BY <4>1, Zenon
        <3>2. CASE ~vcpuData
            <4>1. (\A p \in Cpus : Quiet(p)) /\ co.pc \notin {"queueProbe", "launch", "canary"}
                BY <3>2, Zenon DEF VmmInv, QuietInv, StorageInv, LaunchSteps
            <4>2. \A q \in Cpus : ~Uses(q) /\ ~(Uses(q)')
                BY <4>1, StaysQuiet DEF Quiet, Uses, NativeCpu
            <4> QED BY <1>2, <2>2, <4>2, SameUsers, Zenon
        <3> QED BY <3>1, <3>2, Zenon
    <2>3. \/ Leaves /\ crashed' \in {crashed, TRUE}
          \/ Touches /\ UNCHANGED crashed
        BY <1>1, <1>2, WaitRecords, StartRecords, StopRecords, Zenon DEF Coordinator, vcpuVars
    <2> QED BY <2>1, <2>2, <2>3, Zenon
<1>3. CASE /\ Quarantine /\ UNCHANGED <<vcpuVars, workVars>>
           /\ co.pc \in {"waitProbe", "launchCheck", "done", "stopCheck", "finalCheck"}
    <2>1. \A q \in Cpus : Uses(q)' <=> Uses(q)
        BY <1>3, Zenon DEF Uses, workVars, vcpuVars
    <2>2. ~pinned /\ vcpuData
        BY <1>3, Zenon
           DEF VmmInv, StorageInv, IsHypervisorQuarantined, LaunchSteps, StopSteps,
           WaitPlaces
    <2> QED BY <1>3, <2>1, <2>2, SameUsers, Zenon DEF Quarantine, vcpuVars
<1>4. CASE co.pc \in {"allocate", "reclaim"} /\ UNCHANGED <<pinned, crashed>>
    <2>1. ~pinned /\ (co.pc = "allocate" => ~vcpuData) /\ (co.pc = "reclaim" => vcpuData)
        BY <1>4, Zenon
           DEF VmmInv, StorageInv, IsHypervisorQuarantined, OutsideSteps, StopSteps
    <2>2. \A p \in Cpus : Quiet(p)
        BY <1>4, <2>1, Zenon DEF VmmInv, QuietInv
    <2>3. \A q \in Cpus : ~Uses(q) /\ ~(Uses(q)')
        BY <1>4, <2>2, StaysQuiet DEF Quiet, Uses, NativeCpu
    <2>4. \/ co.pc = "allocate" /\ (vcpuData' = TRUE \/ UNCHANGED vcpuData)
          \/ co.pc = "reclaim" /\ vcpuData' = FALSE
        BY <1>1, <1>4, StorageMoves, Zenon
    <2> QED BY <1>4, <2>1, <2>3, <2>4, SameUsers, Zenon
<1> QED BY <1>1, <1>2, <1>3, <1>4, StorageMoves, Zenon

\* Every step of code on a processor keeps the promise: a callback or an exit
\* ends no use by itself, and the launch callback is only entered with storage.
LEMMA ProcessorOwns ==
    ASSUME VmmInv, ~crashed, NEW p \in Cpus, UNCHANGED vmmVars,
           \/ (Run(p) \/ Disturb(p)) /\ UNCHANGED workVars
           \/ /\ TargetCpuWorker(p) \/ TargetLaunchDpcRoutine(p)
              /\ UNCHANGED <<hostFault, crashed>>
    PROVE  [Ownership!OwnershipNext]_(Ownership!ownershipVars)
<1>1. VcpuInv /\ VcpuTypeOK /\ WorkTypeOK /\ crashed \in BOOLEAN
    BY Zenon DEF VmmInv, VmmTypeOK, VcpuTypeOK
<1>2. CASE (Run(p) \/ Disturb(p)) /\ UNCHANGED workVars
    <2>1. Uses(p) /\ Uses(p)'
        BY <1>1, <1>2, RunKept, Zenon DEF Kept, Uses
    <2>2. \A q \in Cpus \ {p} : Uses(q)' <=> Uses(q)
        BY <1>1, <1>2, Local, Zenon DEF Uses, workVars
    <2>3. crashed' \in {crashed, TRUE}
        BY <1>2, Zenon DEF Run, Disturb, HvFatalBugCheck, HostException
    <2>4. \A q \in Cpus : Uses(q)' <=> Uses(q)
        BY <2>1, <2>2, Zenon
    <2> QED BY <2>3, <2>4, SameUsers, Zenon DEF vmmVars
<1>3. CASE /\ TargetCpuWorker(p) \/ TargetLaunchDpcRoutine(p)
           /\ UNCHANGED <<hostFault, crashed>>
    <2>1. vcpuData
        BY <1>1, <1>3, QuietIsStill, Zenon DEF VmmInv, QuietInv
    <2>2. ASSUME NEW q \in Cpus \ {p}
          PROVE  Uses(q)' <=> Uses(q)
        <3>1. work'[q] = work[q] /\ dpc'[q] = dpc[q]
            BY <1>1, <1>3, WorkerFrame, Zenon
        <3>2. cpu'[q] = cpu[q]
            BY <1>1, <1>3, WorkerFrame, Local, Zenon DEF Aside
        <3> QED BY <3>1, <3>2, Zenon DEF Uses
    <2>3. Ownership!OwnershipNext
        BY <1>3, <2>1, <2>2, OneUser, Zenon DEF vmmVars
    <2> QED BY <2>3, Zenon
<1> QED BY <1>2, <1>3, Zenon

\* The driver implements the ownership promise: memory exists while it is used,
\* and what cannot be proved unused is kept for ever.
THEOREM OwnershipIsKept == Spec => ImplementsOwnership
<1>1. Init => Ownership!OwnershipInit
    <2> SUFFICES ASSUME Init PROVE Ownership!OwnershipInit
        BY Zenon
    <2>1. \A p \in Cpus : ~Uses(p)
        BY Zenon DEF Init, VcpuInit, WorkInit, NativeCpu, ZeroWork, ZeroDpc, Uses
    <2> QED BY <2>1, Zenon DEF Init, VcpuInit, Ownership!OwnershipInit
<1>2. VmmInv /\ [Next]_vars => [Ownership!OwnershipNext]_(Ownership!ownershipVars)
    <2> SUFFICES ASSUME VmmInv, [Next]_vars
                 PROVE  [Ownership!OwnershipNext]_(Ownership!ownershipVars)
        BY Zenon
    <2>1. CASE UNCHANGED vars
        <3>1. \A q \in Cpus : Uses(q)' <=> Uses(q)
            BY <2>1, Zenon DEF vars, vcpuVars, workVars, Uses
        <3>2. UNCHANGED <<vcpuData, pinned, crashed>>
            BY <2>1, Zenon DEF vars, vcpuVars, vmmVars
        <3>3. {q \in Cpus : Uses(q)}' = {q \in Cpus : Uses(q)}
            BY <3>1, Zenon
        <3> QED BY <3>2, <3>3, Zenon DEF Ownership!ownershipVars
    <2>2. CASE Next
        BY <2>2, CoordinatorOwns, ProcessorOwns, Zenon DEF Next
    <2> QED BY <2>1, <2>2, Zenon
<1> QED BY <1>1, <1>2, DriverInvariant, PTL DEF Spec, ImplementsOwnership, Ownership!OwnershipSpec

==============================================================================
