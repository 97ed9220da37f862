--------------------------------- MODULE Vmm ---------------------------------
(***************************************************************************)
(* The coordinator: DriverEntry, StartHypervisor, StopHypervisorInternal    *)
(* and DriverUnload (main.cpp, vmm.cpp), which launch every processor one  *)
(* by one, stop them again, and decide whether the VMX storage and the     *)
(* driver image may be given back or must be kept for ever (quarantine).   *)
(*                                                                         *)
(* Windows never runs DriverUnload beside DriverEntry, so there is one     *)
(* coordinator thread.  A bounded wait is a choice between completion and  *)
(* timeout; time itself is not modelled.                                   *)
(***************************************************************************)
EXTENDS TargetWork

CONSTANT RetryLimit     \* kStopRetryLimit

ASSUME RetryLimitAssumption == RetryLimit \in Nat \ {0}

VARIABLES
    lifecycle,          \* g_HvLifecycle
    pinned,             \* g_HvImagePinned
    vcpuData,           \* g_VcpuData # nullptr
    workData,           \* g_HvTargetCpuWork / g_HvTargetLaunchDpcWork # nullptr
    dump,               \* crash blob and secondary dump callback ownership
    co                  \* the coordinator thread's place and locals

vmmVars == <<lifecycle, pinned, vcpuData, workData, dump, co>>
vars == <<vcpuVars, workVars, vmmVars>>

Lifecycles == {"Idle", "Starting", "Running", "Stopping", "Quarantined"}

\* co.phase: what the operation being waited for is part of.
Phases == {"none", "probe", "staged", "final", "stop", "stopReserved"}

CoPlaces == {"unloaded", "start", "capabilities", "allocate", "queueProbe", "waitProbe",
             "launch", "launchWait", "launchDrain", "launchTimeout",
             "launchCheck", "canary", "handoff", "verify", "publish",
             "wait", "cancelQueued", "cancelEntered", "cancelled", "grace",
             "done", "loaded", "resident",
             "stopClaim", "stopCheck", "stopBind", "stopNext", "stopReserved",
             "retry", "retryCheck", "stopDone", "finalCheck", "reclaim",
             "setIdle", "stopReturn", "entryFailed"}

NoCpu == N              \* not a processor index

NoDump == [registered |-> FALSE, blob |-> FALSE, authorized |-> FALSE]

CoInit == [pc |-> "unloaded", phase |-> "none", i |-> 0, ok |-> TRUE,
           unresolved |-> FALSE, result |-> FALSE, attempt |-> 0,
           bound |-> NoCpu, outer |-> NoCpu, reserved |-> NoCpu,
           rollback |-> FALSE]

CoType == [pc : CoPlaces, phase : Phases, i : 0 .. N, ok : BOOLEAN,
           unresolved : BOOLEAN, result : BOOLEAN, attempt : 0 .. RetryLimit,
           bound : 0 .. N, outer : 0 .. N, reserved : 0 .. N,
           rollback : BOOLEAN]

VmmTypeOK ==
    /\ VcpuTypeOK /\ WorkTypeOK
    /\ lifecycle \in Lifecycles
    /\ pinned \in BOOLEAN /\ vcpuData \in BOOLEAN /\ workData \in BOOLEAN
    /\ dump \in [registered : BOOLEAN, blob : BOOLEAN, authorized : BOOLEAN]
    /\ co \in CoType

Init ==
    /\ VcpuInit /\ WorkInit
    /\ lifecycle = "Idle" /\ pinned = FALSE
    /\ vcpuData = FALSE /\ workData = FALSE
    /\ dump = NoDump
    /\ co = CoInit

\* The thread runs unless the processor it is bound to left the operating
\* system for good.
CoAt(place) ==
    /\ co.pc = place
    /\ co.bound \in Cpus =>
          cpu[co.bound].pc \notin {"park", "clear", "clearing", "vmxoff",
                                   "bugcheck", "hung"}

CoGoto(place) == co' = [co EXCEPT !.pc = place]

storageVars == <<lifecycle, pinned, vcpuData, workData, dump>>

-----------------------------------------------------------------------------
(***************************************************************************)
(* WaitTargetOperation on processor co.i, shared by every phase.           *)
(***************************************************************************)

WaitCompletes ==
    /\ CoAt("wait")
    /\ CloseCompletedTargetWork(co.i)
    /\ co' = [co EXCEPT !.pc = "done", !.result = work[co.i].Result]
    /\ UNCHANGED <<vcpuVars, dpc, storageVars>>

WaitTimesOut ==
    /\ CoAt("wait")
    /\ work[co.i].thread # "none"
    /\ CoGoto("cancelQueued")
    /\ UNCHANGED <<vcpuVars, workVars, storageVars>>

\* Cancel a worker that has not started its operation: first from Queued, then
\* from Entered.
WaitCancelQueued ==
    /\ CoAt("cancelQueued")
    /\ CancelFrom(co.i, "Queued")
    /\ CoGoto(IF work[co.i].State = "Queued" THEN "grace" ELSE "cancelEntered")
    /\ UNCHANGED <<vcpuVars, dpc, storageVars>>

WaitCancelEntered ==
    /\ CoAt("cancelEntered")
    /\ CancelFrom(co.i, "Entered")
    /\ CoGoto(IF work[co.i].State = "Entered" THEN "grace" ELSE "cancelled")
    /\ UNCHANGED <<vcpuVars, dpc, storageVars>>

Unresolved == co' = [co EXCEPT !.pc = "done", !.result = FALSE,
                               !.unresolved = TRUE]

\* Not cancelled: only a terminal record earns the grace period.
WaitCheckTerminal ==
    /\ CoAt("cancelled")
    /\ IF IsTargetWorkTerminal(work[co.i].State) THEN CoGoto("grace")
                                                 ELSE Unresolved
    /\ UNCHANGED <<vcpuVars, workVars, storageVars>>

\* Whatever the worker achieved, a late completion reports STATUS_IO_TIMEOUT.
WaitGraceCompletes ==
    /\ CoAt("grace")
    /\ CloseCompletedTargetWork(co.i)
    /\ co' = [co EXCEPT !.pc = "done", !.result = FALSE]
    /\ UNCHANGED <<vcpuVars, dpc, storageVars>>

WaitGraceTimesOut ==
    /\ CoAt("grace")
    /\ work[co.i].thread # "none"
    /\ Unresolved
    /\ UNCHANGED <<vcpuVars, workVars, storageVars>>

WaitTargetOperation ==
    \/ WaitCompletes     \/ WaitTimesOut      \/ WaitCancelQueued
    \/ WaitCancelEntered \/ WaitCheckTerminal \/ WaitGraceCompletes
    \/ WaitGraceTimesOut

\* QueueTargetOperation on co.i, then the wait; a refused queue is a failure.
QueueThenWait(operation, phase) ==
    \/ /\ QueueTargetOperation(co.i, operation)
       /\ co' = [co EXCEPT !.pc = "wait", !.phase = phase]
    \/ /\ QueueOperationFails(co.i)
       /\ co' = [co EXCEPT !.pc = "done", !.phase = phase, !.result = FALSE]

-----------------------------------------------------------------------------
(***************************************************************************)
(* WaitTargetLaunchDpc on processor co.i.                                  *)
(***************************************************************************)

LaunchWaitSignalled ==
    /\ CoAt("launchWait")
    /\ dpc[co.i].Done
    /\ CoGoto("launchDrain")
    /\ UNCHANGED <<vcpuVars, workVars, storageVars>>

LaunchWaitDrain ==
    /\ CoAt("launchDrain")
    /\ DrainLaunchDpc(co.i)
    /\ co' = [co EXCEPT !.pc = "launchCheck", !.result = dpc[co.i].Result]
    /\ UNCHANGED <<vcpuVars, work, storageVars>>

LaunchWaitTimesOut ==
    /\ CoAt("launchWait")
    /\ ~dpc[co.i].Done
    /\ CoGoto("launchTimeout")
    /\ UNCHANGED <<vcpuVars, workVars, storageVars>>

\* KeRemoveQueueDpc decides whether the timeout is a cancellation or an
\* unresolved launch.
LaunchTimeoutRemoves ==
    /\ CoAt("launchTimeout")
    /\ RemoveLaunchDpc(co.i)
    /\ co' = [co EXCEPT !.pc = "launchCheck", !.result = FALSE]
    /\ UNCHANGED <<vcpuVars, work, storageVars>>

LaunchTimeoutUnresolved ==
    /\ CoAt("launchTimeout")
    /\ dpc[co.i].routine # "queued"
    /\ co' = [co EXCEPT !.pc = "launchCheck", !.result = FALSE,
                        !.unresolved = TRUE]
    /\ UNCHANGED <<vcpuVars, workVars, storageVars>>

WaitTargetLaunchDpc ==
    \/ LaunchWaitSignalled \/ LaunchWaitDrain \/ LaunchWaitTimesOut
    \/ LaunchTimeoutRemoves \/ LaunchTimeoutUnresolved

-----------------------------------------------------------------------------
(***************************************************************************)
(* DriverEntry and StartHypervisor.                                        *)
(***************************************************************************)

\* Where StartHypervisor goes on failure: StopHypervisorInternal(true).
Rollback == [CoInit EXCEPT !.pc = "stopClaim", !.rollback = TRUE]

\* PinImageForParkedCpu and the quarantined lifecycle; storage is never freed.
Quarantine ==
    /\ pinned' = TRUE
    /\ lifecycle' = "Quarantined"
    /\ UNCHANGED <<vcpuData, workData, dump>>

\* ReleaseHvCrashBlob, called with the ownership d when the lifecycle is lc.
ReleaseHvCrashBlob(d, lc) ==
    IF \/ d.registered
       \/ lc = "Quarantined"
       \/ ~d.authorized /\ lc # "Idle"
    THEN d ELSE NoDump

\* The image is loaded (its globals are zero), the environment gate passes and
\* the dump callback is registered, or not.
DriverEntry ==
    /\ CoAt("unloaded")
    /\ \E registered \in BOOLEAN :
          dump' = [dump EXCEPT !.registered = registered]
    /\ CoGoto("start")
    /\ UNCHANGED <<vcpuVars, workVars, lifecycle, pinned, vcpuData, workData>>

NotBusy == ~pinned /\ ~vcpuData /\ ~workData /\ lifecycle = "Idle"

StartClaim ==
    /\ CoAt("start")
    /\ lifecycle' = IF NotBusy THEN "Starting" ELSE lifecycle
    /\ CoGoto(IF NotBusy THEN "capabilities" ELSE "entryFailed")
    /\ UNCHANGED <<vcpuVars, workVars, pinned, vcpuData, workData, dump>>

\* The capability contracts hold and InitializeHvCrashBlob succeeds.
StartInitialize ==
    /\ CoAt("capabilities")
    /\ hostFault' = FALSE
    /\ dump' = [dump EXCEPT !.blob = TRUE]
    /\ CoGoto("allocate")
    /\ UNCHANGED <<vcpu, cpu, crashed, workVars>>
    /\ UNCHANGED <<lifecycle, pinned, vcpuData, workData>>

\* rejectStart: a contract, the crash blob or the g_VcpuData allocation fails.
StartReject ==
    /\ CoAt("capabilities") \/ CoAt("allocate")
    /\ lifecycle' = "Idle"
    /\ dump' = ReleaseHvCrashBlob(dump, "Idle")
    /\ CoGoto("entryFailed")
    /\ UNCHANGED <<vcpuVars, workVars, pinned, vcpuData, workData>>

\* The records are gone or new; a thread or routine that ran on them still runs.
ZeroAll ==
    /\ ZeroContexts
    /\ work' = [p \in Cpus |-> [ZeroWork EXCEPT !.thread = work[p].thread]]
    /\ dpc' = [p \in Cpus |-> [ZeroDpc EXCEPT !.routine = dpc[p].routine]]

\* Everything is allocated and the thread is bound to the coordinator CPU 0.
StartAllocate ==
    /\ CoAt("allocate")
    /\ vcpuData' = TRUE /\ workData' = TRUE
    /\ ZeroAll
    /\ co' = [CoInit EXCEPT !.pc = "queueProbe", !.bound = 0]
    /\ UNCHANGED <<cpu, hostFault, crashed, lifecycle, pinned, dump>>

\* A later allocation or the binding fails: the rollback sees partial storage.
StartAllocateFails ==
    /\ CoAt("allocate")
    /\ vcpuData' = TRUE /\ workData' \in BOOLEAN
    /\ ZeroAll
    /\ co' = Rollback
    /\ UNCHANGED <<cpu, hostFault, crashed, lifecycle, pinned, dump>>

\* The probe round: queue on every processor, then wait for every one.
QueueProbe ==
    /\ CoAt("queueProbe") /\ co.i < N
    /\ \/ /\ QueueTargetOperation(co.i, "Probe")
          /\ co' = [co EXCEPT !.i = @ + 1]
       \/ /\ QueueOperationFails(co.i)
          /\ co' = [co EXCEPT !.i = @ + 1, !.ok = FALSE]
    /\ UNCHANGED <<vcpuVars, dpc, storageVars>>

QueueProbeDone ==
    /\ CoAt("queueProbe") /\ co.i = N
    /\ co' = [co EXCEPT !.pc = "waitProbe", !.i = 0]
    /\ UNCHANGED <<vcpuVars, workVars, storageVars>>

WaitProbe ==
    /\ CoAt("waitProbe") /\ co.i < N
    /\ co' = IF work[co.i].ThreadHandle
             THEN [co EXCEPT !.pc = "wait", !.phase = "probe"]
             ELSE [co EXCEPT !.i = @ + 1]
    /\ UNCHANGED <<vcpuVars, workVars, storageVars>>

ProbeDone ==
    /\ CoAt("done") /\ co.phase = "probe"
    /\ co' = [co EXCEPT !.pc = "waitProbe", !.i = @ + 1,
                        !.ok = @ /\ co.result, !.phase = "none",
                        !.result = FALSE]
    /\ UNCHANGED <<vcpuVars, workVars, storageVars>>

\* Start's answer to a finished round or step: an unresolved worker or DPC
\* quarantines, a failure rolls back, success goes on.
StartContinue(failed, next) ==
    \/ /\ co.unresolved
       /\ Quarantine
       /\ co' = [CoInit EXCEPT !.pc = "resident"]
    \/ /\ ~co.unresolved /\ failed
       /\ co' = [Rollback EXCEPT !.bound = co.bound]
       /\ UNCHANGED storageVars
    \/ /\ ~co.unresolved /\ ~failed
       /\ co' = next
       /\ UNCHANGED storageVars

\* Mutant: the staged launch begins with the coordinator's own processor.
WaitProbeThenCpu0 ==
    /\ CoAt("waitProbe") /\ co.i = N
    /\ StartContinue(~co.ok, [co EXCEPT !.pc = "launch", !.i = 0])
    /\ UNCHANGED <<vcpuVars, workVars>>

WaitProbeDone ==
    /\ CoAt("waitProbe") /\ co.i = N
    /\ StartContinue(~co.ok, [co EXCEPT !.pc = "launch", !.i = 1])
    /\ UNCHANGED <<vcpuVars, workVars>>

\* One launch DPC at a time: processors 1 .. N-1, then the coordinator's 0.
StagedLaunch ==
    /\ CoAt("launch")
    /\ \/ /\ QueueTargetLaunchDpc(co.i)
          /\ CoGoto("launchWait")
       \/ /\ QueueLaunchFails(co.i)
          /\ co' = [co EXCEPT !.pc = "launchCheck", !.result = FALSE]
    /\ UNCHANGED <<vcpuVars, work, storageVars>>

\* Mutant: the processor's state is checked, the DPC's result is not.
LaunchCheckStateOnly ==
    /\ CoAt("launchCheck")
    /\ StartContinue(vcpu[co.i].State # "Launched",
                     [co EXCEPT !.pc = "canary", !.result = FALSE])
    /\ UNCHANGED <<vcpuVars, workVars>>

LaunchCheck ==
    /\ CoAt("launchCheck")
    /\ StartContinue(~co.result \/ vcpu[co.i].State # "Launched",
                     [co EXCEPT !.pc = "canary", !.result = FALSE])
    /\ UNCHANGED <<vcpuVars, workVars>>

\* RunRuntimeCanary, after each launch and again in the final sweep.
Canary ==
    /\ CoAt("canary")
    /\ QueueThenWait("RuntimeCanary",
                     IF co.phase = "final" THEN "final" ELSE "staged")
    /\ UNCHANGED <<vcpuVars, dpc, storageVars>>

\* Mutant: the staged launch ends one processor early, without CPU 0.
StagedCanaryShort ==
    /\ CoAt("done") /\ co.phase = "staged"
    /\ StartContinue(~co.result,
          IF co.i < N - 1
          THEN [co EXCEPT !.pc = "launch", !.i = @ + 1, !.result = FALSE]
          ELSE [co EXCEPT !.pc = "canary", !.phase = "final", !.i = 0, !.result = FALSE])
    /\ UNCHANGED <<vcpuVars, workVars>>

\* After the canary of a launch: the next processor, the handoff of the
\* coordinator before CPU 0, or the final sweep.
StagedCanaryDone ==
    /\ CoAt("done") /\ co.phase = "staged"
    /\ StartContinue(~co.result,
          IF co.i = 0
          THEN [co EXCEPT !.pc = "canary", !.phase = "final", !.result = FALSE]
          ELSE IF co.i < N - 1
          THEN [co EXCEPT !.pc = "launch", !.i = @ + 1, !.result = FALSE]
          ELSE [co EXCEPT !.pc = "handoff", !.result = FALSE])
    /\ UNCHANGED <<vcpuVars, workVars>>

FinalCanaryDone ==
    /\ CoAt("done") /\ co.phase = "final"
    /\ StartContinue(~co.result,
          IF co.i < N - 1
          THEN [co EXCEPT !.pc = "canary", !.i = @ + 1, !.result = FALSE]
          ELSE [co EXCEPT !.pc = "verify", !.result = FALSE])
    /\ UNCHANGED <<vcpuVars, workVars>>

\* Before CPU 0 is launched the thread moves to the first verified processor;
\* when the new binding fails the old one is already gone.
HandoffCandidate(p) ==
    p # 0 /\ vcpu[p].State = "Launched" /\ vcpu[p].ProbeReturned

\* Mutant: the thread stays on CPU 0 while CPU 0 is launched.
HandoffWithoutRebind ==
    /\ CoAt("handoff")
    /\ \/ co' = [co EXCEPT !.pc = "launch", !.i = 0]
       \/ co' = Rollback
    /\ UNCHANGED <<vcpuVars, workVars, storageVars>>

Handoff ==
    /\ CoAt("handoff")
    /\ \/ \E p \in Cpus :
            /\ HandoffCandidate(p)
            /\ \A q \in Cpus : HandoffCandidate(q) => p <= q
            /\ co' = [co EXCEPT !.pc = "launch", !.i = 0, !.bound = p]
       \/ /\ \E p \in Cpus : HandoffCandidate(p)
          /\ co' = Rollback
       \/ /\ \A p \in Cpus : ~HandoffCandidate(p)
          /\ co' = [Rollback EXCEPT !.bound = co.bound]
    /\ UNCHANGED <<vcpuVars, workVars, storageVars>>

\* Every processor must be Launched and none was added meanwhile.
Verify ==
    /\ CoAt("verify")
    /\ \/ /\ \A p \in Cpus : vcpu[p].State = "Launched"
          /\ CoGoto("publish")
       \/ co' = [Rollback EXCEPT !.bound = co.bound]
    /\ UNCHANGED <<vcpuVars, workVars, storageVars>>

Publish ==
    /\ CoAt("publish")
    /\ lifecycle' = "Running"
    /\ co' = [CoInit EXCEPT !.pc = "loaded"]
    /\ UNCHANGED <<vcpuVars, workVars, pinned, vcpuData, workData, dump>>

Start ==
    \/ DriverEntry    \/ StartClaim     \/ StartInitialize \/ StartReject
    \/ StartAllocate  \/ StartAllocateFails
    \/ QueueProbe     \/ QueueProbeDone
    \/ WaitProbe      \/ ProbeDone      \/ WaitProbeDone
    \/ StagedLaunch   \/ LaunchCheck    \/ Canary
    \/ StagedCanaryDone \/ FinalCanaryDone
    \/ Handoff        \/ Verify         \/ Publish

-----------------------------------------------------------------------------
(***************************************************************************)
(* StopHypervisorInternal, as rollback of a start or for DriverUnload.     *)
(***************************************************************************)

Live(p) == vcpu[p].State \in {"VmxOn", "Launched"}

HasParkedVcpu == \E p \in Cpus : vcpu[p].State = "Parked"

HasLiveVcpu ==
    \E p \in Cpus : vcpu[p].State \in {"Starting", "VmxOn", "Launched",
                                       "TearingDown", "Parked"}

HasUnresolvedVcpu ==
    \E p \in Cpus :
        \/ vcpu[p].State = "Failed" /\ vcpu[p].LaunchStage \in {"Ready", "Handoff"}
        \/ ~Terminal(p)

HasUnclearedVmcs == \E p \in Cpus : vcpu[p].VmcsCurrent # "None"

DriverUnload ==
    /\ CoAt("loaded")
    /\ CoGoto("stopClaim")
    /\ UNCHANGED <<vcpuVars, workVars, storageVars>>

\* Only the start owner or the one public stop owner may tear down.
StopOwner == lifecycle = IF co.rollback THEN "Starting" ELSE "Running"

StopClaim ==
    /\ CoAt("stopClaim")
    /\ lifecycle' = IF StopOwner THEN "Stopping" ELSE lifecycle
    /\ CoGoto(IF StopOwner THEN "stopCheck" ELSE "stopReturn")
    /\ UNCHANGED <<vcpuVars, workVars, pinned, vcpuData, workData, dump>>

\* StopHypervisorInternal is done with its locals; the caller's binding stays.
StopLeave(place) ==
    co' = [CoInit EXCEPT !.pc = place, !.bound = co.bound,
                         !.rollback = co.rollback]

\* A parked processor or an unfinished worker ends the stop before it begins.
MustQuarantine == HasParkedVcpu \/ (workData /\ HasUnresolvedTargetWork)

StopCheck ==
    /\ CoAt("stopCheck")
    /\ \/ MustQuarantine /\ Quarantine /\ StopLeave("stopReturn")
       \/ ~MustQuarantine /\ CoGoto("stopBind") /\ UNCHANGED storageVars
    /\ UNCHANGED <<vcpuVars, workVars>>

\* The processor the thread runs on is stopped last, from another one.
StopBind ==
    /\ CoAt("stopBind")
    /\ \E r \in IF co.bound \in Cpus THEN {co.bound} ELSE Cpus :
          \/ co' = [co EXCEPT !.pc = "stopNext", !.i = 0, !.reserved = r,
                              !.bound = r, !.outer = co.bound]
          \/ co' = [co EXCEPT !.pc = "finalCheck", !.ok = FALSE]
    /\ UNCHANGED <<vcpuVars, workVars, storageVars>>

StopNext ==
    /\ CoAt("stopNext")
    /\ \/ /\ co.i = N
          /\ co' = [co EXCEPT !.pc = "stopReserved", !.bound = co.outer]
       \/ /\ co.i < N /\ (co.i = co.reserved \/ ~Live(co.i))
          /\ co' = [co EXCEPT !.i = @ + 1]
       \/ /\ co.i < N /\ co.i # co.reserved /\ Live(co.i)
          /\ co' = [co EXCEPT !.pc = "retry", !.phase = "stop", !.attempt = 1]
    /\ UNCHANGED <<vcpuVars, workVars, storageVars>>

\* StopTargetProcessorWithRetries: one attempt, on a live processor only.
StopAttempt ==
    /\ CoAt("retry")
    /\ \/ /\ ~Live(co.i)
          /\ co' = [co EXCEPT !.pc = "stopDone", !.result = Terminal(co.i)]
          /\ UNCHANGED work
       \/ Live(co.i) /\ QueueThenWait("Stop", co.phase)
    /\ UNCHANGED <<vcpuVars, dpc, storageVars>>

StopAttemptDone ==
    /\ CoAt("done") /\ co.phase \in {"stop", "stopReserved"}
    /\ CoGoto(IF co.unresolved \/ co.result THEN "stopDone" ELSE "retryCheck")
    /\ UNCHANGED <<vcpuVars, workVars, storageVars>>

\* Mutant: the attempts are not counted.
StopRetryForever ==
    /\ CoAt("retryCheck")
    /\ co' = IF /\ vcpu[co.i].State = "Launched"
                /\ vcpu[co.i].LaunchStage = "GuestActive"
             THEN [co EXCEPT !.pc = "retry"]
             ELSE [co EXCEPT !.pc = "stopDone", !.result = FALSE]
    /\ UNCHANGED <<vcpuVars, workVars, storageVars>>

\* Retry only an owner the failed attempt left whole.
StopRetryCheck ==
    /\ CoAt("retryCheck")
    /\ co' = IF /\ vcpu[co.i].State = "Launched"
                /\ vcpu[co.i].LaunchStage = "GuestActive"
                /\ co.attempt < RetryLimit
             THEN [co EXCEPT !.pc = "retry", !.attempt = @ + 1]
             ELSE [co EXCEPT !.pc = "stopDone", !.result = FALSE]
    /\ UNCHANGED <<vcpuVars, workVars, storageVars>>

StopDone ==
    /\ CoAt("stopDone")
    /\ \/ /\ co.phase = "stopReserved"
          /\ co' = [co EXCEPT !.pc = "finalCheck", !.ok = co.result,
                              !.bound = co.outer, !.attempt = 0]
       \/ /\ co.phase = "stop" /\ co.result
          /\ co' = [co EXCEPT !.pc = "stopNext", !.i = @ + 1, !.attempt = 0,
                              !.result = FALSE, !.phase = "none"]
       \/ /\ co.phase = "stop" /\ ~co.result
          /\ co' = [co EXCEPT !.pc = "stopReserved", !.ok = FALSE,
                              !.bound = co.outer, !.attempt = 0]
    /\ UNCHANGED <<vcpuVars, workVars, storageVars>>

\* The first released processor other than the reserved one.
NativeCandidate(p) == p # co.reserved /\ Terminal(p)

\* Mutant: the reserved processor is stopped whatever came before.
StopReservedAnyway ==
    /\ CoAt("stopReserved")
    /\ \/ ~Live(co.reserved) /\ CoGoto("finalCheck")
       \/ /\ Live(co.reserved)
          /\ \/ \E p \in Cpus :
                  /\ NativeCandidate(p)
                  /\ co' = [co EXCEPT !.pc = "retry", !.phase = "stopReserved",
                                      !.i = co.reserved, !.attempt = 1,
                                      !.bound = p]
             \/ co' = [co EXCEPT !.pc = "finalCheck", !.ok = FALSE]
    /\ UNCHANGED <<vcpuVars, workVars, storageVars>>

StopReserved ==
    /\ CoAt("stopReserved")
    /\ \/ /\ co.unresolved \/ ~co.ok \/ ~Live(co.reserved)
          /\ CoGoto("finalCheck")
       \/ /\ ~co.unresolved /\ co.ok /\ Live(co.reserved)
          /\ \/ \E p \in Cpus :
                  /\ NativeCandidate(p)
                  /\ \A q \in Cpus : NativeCandidate(q) => p <= q
                  /\ co' = [co EXCEPT !.pc = "retry", !.phase = "stopReserved",
                                      !.i = co.reserved, !.attempt = 1,
                                      !.bound = p]
             \/ co' = [co EXCEPT !.pc = "finalCheck", !.ok = FALSE]
    /\ UNCHANGED <<vcpuVars, workVars, storageVars>>

\* Mutant: finished work is taken for released processors.
NoWorkIsReclaimable == co.unresolved \/ (workData /\ HasUnresolvedTargetWork)

\* Anything short of proof that every processor left VMX is a quarantine.
NotReclaimable ==
    \/ co.unresolved \/ ~co.ok
    \/ HasParkedVcpu \/ HasLiveVcpu \/ HasUnresolvedVcpu \/ HasUnclearedVmcs
    \/ workData /\ HasUnresolvedTargetWork

FinalCheck ==
    /\ CoAt("finalCheck")
    /\ \/ NotReclaimable /\ Quarantine /\ StopLeave("stopReturn")
       \/ ~NotReclaimable /\ StopLeave("reclaim") /\ UNCHANGED storageVars
    /\ UNCHANGED <<vcpuVars, workVars>>

\* Free every per-processor region, the work arrays and g_VcpuData.
Reclaim ==
    /\ CoAt("reclaim")
    /\ vcpuData' = FALSE /\ workData' = FALSE
    /\ ZeroAll
    /\ CoGoto("setIdle")
    /\ UNCHANGED <<cpu, hostFault, crashed, lifecycle, pinned, dump>>

SetIdle ==
    /\ CoAt("setIdle")
    /\ dump' = ReleaseHvCrashBlob(dump, lifecycle)
    /\ lifecycle' = "Idle"
    /\ CoGoto("stopReturn")
    /\ UNCHANGED <<vcpuVars, workVars, pinned, vcpuData, workData>>

IsHypervisorStopComplete == lifecycle = "Idle" /\ ~vcpuData /\ ~pinned

IsHypervisorQuarantined == lifecycle = "Quarantined" \/ pinned

\* Mutant: the callback is removed but its blob is not freed.
UnmapWithBlob ==
    /\ dump' = [dump EXCEPT !.registered = FALSE]
    /\ co' = CoInit
    /\ UNCHANGED <<vcpuVars, workVars, lifecycle, pinned, vcpuData, workData>>

\* UnregisterSecondaryDumpCallback succeeds and the image is unmapped; it
\* bugchecks when the kernel refuses.
UnregisterAndUnmap ==
    \/ /\ dump' = ReleaseHvCrashBlob([dump EXCEPT !.registered = FALSE,
                                                 !.authorized = dump.registered],
                                     lifecycle)
       /\ co' = CoInit
       /\ UNCHANGED <<vcpuVars, workVars, lifecycle, pinned, vcpuData, workData>>
    \/ /\ dump.registered
       /\ crashed' = TRUE
       /\ UNCHANGED <<vcpu, cpu, hostFault, workVars, storageVars, co>>

BugCheck ==
    /\ crashed' = TRUE
    /\ UNCHANGED <<vcpu, cpu, hostFault, workVars, storageVars, co>>

\* DriverEntry's failure path: a quarantined driver stays resident, an
\* incomplete stop bugchecks.
EntryFailed ==
    /\ CoAt("entryFailed") \/ (CoAt("stopReturn") /\ co.rollback)
    /\ IF IsHypervisorQuarantined
       THEN /\ co' = [CoInit EXCEPT !.pc = "resident"]
            /\ UNCHANGED <<vcpuVars, workVars, storageVars>>
       ELSE IF IsHypervisorStopComplete THEN UnregisterAndUnmap ELSE BugCheck

\* Mutant: DriverUnload returns whatever the stop achieved.
UnloadAlwaysReturns ==
    /\ CoAt("stopReturn") /\ ~co.rollback
    /\ UnregisterAndUnmap

\* DriverUnload has no failure return: anything but a complete stop bugchecks.
UnloadReturn ==
    /\ CoAt("stopReturn") /\ ~co.rollback
    /\ IF IsHypervisorStopComplete /\ ~IsHypervisorQuarantined
       THEN UnregisterAndUnmap
       ELSE BugCheck

StopHypervisor ==
    \/ StopClaim       \/ StopCheck      \/ StopBind     \/ StopNext
    \/ StopAttempt     \/ StopAttemptDone \/ StopRetryCheck \/ StopDone
    \/ StopReserved    \/ FinalCheck     \/ Reclaim      \/ SetIdle
    \/ EntryFailed     \/ UnloadReturn

-----------------------------------------------------------------------------
Coordinator ==
    \/ Start \/ StopHypervisor \/ WaitTargetOperation \/ WaitTargetLaunchDpc

Next ==
    /\ ~crashed
    /\ \/ Coordinator \/ DriverUnload
       \/ \E p \in Cpus :
            \/ (Run(p) \/ Disturb(p)) /\ UNCHANGED <<workVars, vmmVars>>
            \/ /\ TargetCpuWorker(p) \/ TargetLaunchDpcRoutine(p)
               /\ UNCHANGED <<hostFault, crashed, vmmVars>>

Spec == Init /\ [][Next]_vars

-----------------------------------------------------------------------------
(***************************************************************************)
(* Fairness.  The coordinator never blocks for ever: every wait has a      *)
(* deadline except the drain of a DPC that already signalled completion.   *)
(* Code on a processor keeps executing; a signalled DPC returns.           *)
(***************************************************************************)
Fairness ==
    /\ WF_vars(~crashed /\ Coordinator)
    /\ \A p \in Cpus :
          /\ WF_vars(/\ ~crashed /\ Run(p)
                     /\ UNCHANGED <<workVars, vmmVars>>)
          /\ WF_vars(/\ ~crashed /\ TargetLaunchDpcRoutine(p)
                     /\ UNCHANGED <<hostFault, crashed, vmmVars>>)

FairSpec == Spec /\ Fairness

-----------------------------------------------------------------------------
\* A processor that left the operating system and only moves towards the
\* bugcheck.
Doomed(p) == cpu[p].path \in {"halt", "dead"} \/ cpu[p].pc = "bugcheck"

\* A processor uses the driver while VMX is on, while launch, stop or exit code
\* runs on it, and while a worker or a launch DPC for it may still run.
Uses(p) ==
    \/ cpu[p].mode # "native" \/ cpu[p].pc # "idle"
    \/ work[p].thread # "none" \/ dpc[p].routine # "none"

\* The VMX regions, contexts and work records are never freed, and the image
\* never unmapped, while any processor still uses them: not by the stop path,
\* not by the rollback, not when a worker or DPC outlives its deadline.
StorageRetained ==
    (\E p \in Cpus : Uses(p)) => vcpuData /\ workData /\ co.pc # "unloaded"

\* A quarantine is for life: once published, lifecycle, pin, storage, crash
\* blob and image stay as they are whatever late workers do.
QuarantineIsFinal ==
    [][IsHypervisorQuarantined =>
          /\ IsHypervisorQuarantined'
          /\ UNCHANGED <<pinned, vcpuData, workData, dump>>
          /\ co'.pc # "unloaded"]_vars

\* Running is published only over processors that all run as verified guests;
\* after that only a fatal exit may take one away before the stop begins.
RunningIsWhole ==
    lifecycle = "Running" =>
        \A p \in Cpus :
            \/ Doomed(p)
            \/ /\ cpu[p].mode = "guest" /\ vcpu[p].State = "Launched"
               /\ vcpu[p].LaunchStage = "GuestActive"
               /\ vcpu[p].ProbeReturned

\* VMX is not propagated to a processor before every earlier one in launch
\* order (1 .. N-1, then 0) runs as a verified guest.
LaunchOrder(p) == IF p = 0 THEN N ELSE p

StagedLaunchInOrder ==
    \A p, q \in Cpus :
        /\ dpc[p].routine # "none"
        /\ LaunchOrder(q) < LaunchOrder(p)
        => \/ Doomed(q)
           \/ cpu[q].mode = "guest" /\ vcpu[q].ProbeReturned

\* The coordinator never waits for a launch or a stop of the processor its own
\* thread is bound to, and it stops the last processor from one that already
\* left VMX.
CoordinatorOffTarget ==
    /\ co.pc \in {"launchWait", "launchDrain", "launchTimeout"} =>
          co.bound \in Cpus \ {co.i}
    /\ co.phase \in {"stop", "stopReserved"} /\ co.pc \in {"wait", "grace"} =>
          co.bound \in Cpus \ {co.i}
    /\ co.phase = "stopReserved" /\ co.pc \in {"wait", "grace"} =>
          cpu[co.bound].mode = "native"

\* Stop one processor at a time: two processors are never inside the stop
\* callback or its VMCALL together.
OneStopAtATime ==
    \A p, q \in Cpus :
        work[p].thread = "stopping" /\ work[q].thread = "stopping" => p = q

\* When StopTargetProcessorWithRetries reports success the processor has left
\* VMX, has no current VMCS and no worker.
StopSuccessIsProof ==
    co.pc = "stopDone" /\ co.result =>
        /\ cpu[co.i] = NativeCpu
        /\ vcpu[co.i].VmcsCurrent = "None"
        /\ work[co.i].thread = "none"

\* The dump callback never outlives the image, and the blob it publishes exists
\* for as long as contexts do; an unloaded driver owns neither.
CrashBlobOwned ==
    /\ vcpuData => dump.blob
    /\ co.pc = "unloaded" => dump = NoDump

\* Every start and every unload comes to an end: running, resident in
\* quarantine, unloaded, or a bugcheck.
Settled == co.pc \in {"loaded", "resident", "unloaded"}

CoordinatorSettles == ~Settled ~> (Settled \/ crashed)

\* The processor component keeps its protocol under this coordinator: in
\* particular contexts are only reused when every processor is native.
UsesVcpu == VcpuSpec

Ownership == INSTANCE VmxOwnership WITH
    Processors <- Cpus,
    users <- {p \in Cpus : Uses(p)},
    storage <- IF pinned THEN "kept" ELSE IF vcpuData THEN "held" ELSE "none",
    halted <- crashed

\* The driver implements the ownership promise.
ImplementsOwnership == Ownership!OwnershipSpec

-----------------------------------------------------------------------------
(***************************************************************************)
(* The inductive invariant behind StorageRetained, QuarantineIsFinal and   *)
(* the two refinements.                                                    *)
(***************************************************************************)

\* Code on a processor has an owner that the coordinator can see: the launch
\* callback an undrained DPC, the stop callback an open thread handle.
WorkInv(p) ==
    /\ work[p].thread # "none" => work[p].ThreadHandle
    /\ dpc[p].routine # "none" => dpc[p].DpcQueued
    /\ cpu[p].pc \in LaunchPlaces \/ cpu[p].path = "rollback"
          => dpc[p].routine = "launching"
    /\ cpu[p].pc \in StopPlaces \cup {"unload", "restore"} \/ cpu[p].path = "restore"
          => work[p].thread = "stopping"

Quiet(p) ==
    /\ cpu[p] = NativeCpu /\ Terminal(p)
    /\ work[p].thread = "none" /\ dpc[p].routine = "none"

WaitPlaces == {"wait", "cancelQueued", "cancelEntered", "cancelled", "grace", "done"}
RetryPlaces == {"retry", "retryCheck", "stopDone"}
LaunchSteps == {"queueProbe", "waitProbe", "launch", "launchWait", "launchDrain",
                "launchTimeout", "launchCheck", "canary", "handoff", "verify",
                "publish"}
StopSteps == {"stopClaim", "stopCheck", "stopBind", "stopNext", "stopReserved",
              "finalCheck", "reclaim"} \cup RetryPlaces
OutsideSteps == {"unloaded", "start", "capabilities", "allocate", "setIdle",
                 "entryFailed"}

\* Storage is missing, or about to be freed, only under quiet processors.
QuietInv ==
    ~vcpuData \/ ~workData \/ co.pc = "reclaim" => \A p \in Cpus : Quiet(p)

\* Which storage exists at which place.
StorageInv ==
    /\ workData => vcpuData
    /\ co.pc \in OutsideSteps => ~vcpuData
    /\ co.pc \in StopSteps \cup WaitPlaces \cup {"loaded", "resident"} => vcpuData
    /\ \/ co.pc \in LaunchSteps
       \/ co.pc \in WaitPlaces /\ co.phase \in {"probe", "staged", "final"}
       => vcpuData /\ workData
    /\ IsHypervisorQuarantined =>
          /\ pinned /\ lifecycle = "Quarantined" /\ vcpuData
          /\ co.pc \in {"resident", "stopReturn"}

\* The coordinator's indices.
IndexInv ==
    /\ \/ co.pc \in WaitPlaces \cup RetryPlaces
       \/ co.pc \in {"launch", "launchWait", "launchDrain", "launchTimeout",
                     "launchCheck", "canary"}
       => co.i \in Cpus
    /\ co.pc \in RetryPlaces => co.phase \in {"stop", "stopReserved"}
    /\ \/ co.pc \in {"stopNext", "stopReserved"}
       \/ co.pc \in WaitPlaces \cup RetryPlaces /\ co.phase \in {"stop", "stopReserved"}
       => co.reserved \in Cpus

\* The fault record is only reset when no processor faulted: one that did never
\* becomes native again.
FaultInv ==
    hostFault => \E p \in Cpus : /\ cpu[p].pc \in {"bugcheck", "hung"}
                                 /\ cpu[p].mode = "root"

\* Every use of the driver is visible to the checks that decide about its
\* storage: the inductive strengthening of StorageRetained.
VmmInv ==
    /\ VmmTypeOK /\ VcpuInv
    /\ \A p \in Cpus : WorkInv(p)
    /\ FaultInv /\ QuietInv /\ StorageInv /\ IndexInv

-----------------------------------------------------------------------------
(***************************************************************************)
(* The inductive invariant behind the order properties: RunningIsWhole,    *)
(* StagedLaunchInOrder, CoordinatorOffTarget, OneStopAtATime and           *)
(* StopSuccessIsProof.                                                     *)
(***************************************************************************)

\* A processor that runs as a verified guest with no callback on it, or died.
Verified(p) ==
    \/ Doomed(p)
    \/ /\ cpu[p].mode = "guest" /\ cpu[p].pc = "idle"
       /\ vcpu[p].State = "Launched" /\ vcpu[p].LaunchStage = "GuestActive"
       /\ vcpu[p].ProbeReturned

AllVerified == \A p \in Cpus : Verified(p)

VerifiedBefore(p) == \A q \in Cpus : LaunchOrder(q) < LaunchOrder(p) => Verified(q)

VerifiedUpTo(p) == VerifiedBefore(p) /\ Verified(p)

\* A stop worker that has not ended.
Stopper(p) == work[p].thread # "none" /\ work[p].Operation = "Stop"

NoStops == \A p \in Cpus : work[p].Operation # "Stop"
NoRoutines == \A p \in Cpus : dpc[p].routine = "none"
NoWorkers == \A p \in Cpus : work[p].thread = "none"

StopPhases == {"stop", "stopReserved"}
Waiting(phases) == co.pc \in WaitPlaces /\ co.phase \in phases
\* A stop attempt under way, and one that is over.
StopWaits == Waiting(StopPhases) /\ co.pc # "done"
StopEnds == Waiting(StopPhases) /\ co.pc = "done"
LaunchWaits == {"launchWait", "launchDrain", "launchTimeout"}
StagePlaces == LaunchWaits \cup {"launch", "launchCheck"}

\* What the records of p promise: the stop callback belongs to a stop worker, no
\* operation and no launch is reported before it returned, and a stop only over a
\* native processor.
RecordInv(p) ==
    /\ work[p].thread = "stopping" => work[p].Operation = "Stop"
    /\ work[p].thread \in {"created", "entered", "executing", "stopping"} =>
          ~work[p].Result
    /\ dpc[p].routine \in {"queued", "launching"} => ~dpc[p].Result
    /\ work[p].Operation = "Stop" /\ work[p].Result =>
          cpu[p] = NativeCpu /\ Terminal(p)

\* A pending launch is the only one, meets no stop, comes after verified
\* processors, and is waited for or quarantined.
PendingLaunchInv ==
    \A p \in Cpus : dpc[p].routine # "none" =>
        /\ \A q \in Cpus : dpc[q].routine # "none" => q = p
        /\ NoStops /\ VerifiedBefore(p)
        /\ \/ lifecycle = "Quarantined"
           \/ co.i = p /\ co.pc \in LaunchWaits
           \/ co.i = p /\ co.pc = "launchCheck" /\ co.unresolved /\ ~co.result

\* A stop worker is the only one and is waited for, given up or quarantined.
PendingStopInv ==
    \A p \in Cpus : Stopper(p) =>
        /\ \A q \in Cpus : Stopper(q) => q = p
        /\ \/ lifecycle = "Quarantined"
           \/ co.i = p /\ StopWaits
           \/ co.unresolved /\ StopEnds
           \/ co.unresolved /\ co.pc \in {"stopDone", "stopReserved", "finalCheck"}

\* Where the staged launch stands: who is verified and where the thread runs.
StagedInv ==
    /\ co.pc \in {"queueProbe", "waitProbe"} \/ Waiting({"probe"}) => co.bound = 0
    /\ co.pc \in {"queueProbe", "waitProbe"} => co.phase = "none"
    /\ co.pc \in StagePlaces =>
          co.phase \in {"none", "staged"} /\ VerifiedBefore(co.i)
    /\ co.pc \in LaunchWaits /\ dpc[co.i].Result => Verified(co.i)
    /\ co.pc = "launchCheck" /\ co.result => Verified(co.i)
    /\ co.pc = "canary" => co.phase \in {"none", "staged", "final"}
    /\ (co.pc = "canary" /\ co.phase # "final") \/ Waiting({"staged"}) =>
          VerifiedUpTo(co.i)
    /\ co.pc = "handoff" => co.phase \in {"none", "staged"} /\ VerifiedBefore(0)
    /\ \/ co.pc = "canary" /\ co.phase = "final"
       \/ Waiting({"final"})
       \/ co.pc \in {"verify", "publish"}
       => AllVerified
    /\ \/ co.pc \in StagePlaces \/ Waiting({"staged"})
       \/ co.pc = "canary" /\ co.phase # "final"
       => IF co.i = 0 THEN co.bound \in Cpus \ {0} ELSE co.bound = 0
    /\ \/ co.pc \in LaunchSteps \cup {"loaded", "stopClaim", "stopCheck", "stopBind"}
       \/ Waiting({"probe", "staged", "final"})
       => NoStops

\* Running is published over verified processors and ended by the stop claim.
RunningInv ==
    lifecycle = "Running" =>
        co.pc \in {"loaded", "stopClaim"} /\ ~co.rollback /\ AllVerified

\* Where a stop stands: nothing is launched, nothing else works, and the thread
\* runs on a processor other than the one being stopped.
StopInvCo ==
    /\ \/ co.pc \in {"stopBind", "stopNext", "stopReserved", "finalCheck"} \cup RetryPlaces
       \/ Waiting(StopPhases)
       => NoRoutines
    /\ \/ co.pc \in {"stopBind", "stopNext", "retry", "retryCheck"}
       \/ /\ co.pc \in {"stopDone", "stopReserved"} \/ StopEnds
          /\ ~co.unresolved
       => NoWorkers
    /\ StopWaits =>
          /\ work[co.i].Operation = "Stop"
          /\ \A q \in Cpus \ {co.i} : work[q].thread = "none"
    /\ \/ co.pc \in {"loaded", "stopClaim", "stopCheck", "stopBind", "stopNext",
                     "retry", "retryCheck"}
       \/ StopWaits
       => ~co.unresolved
    /\ co.pc = "stopDone" \/ StopEnds =>
          /\ co.unresolved => ~co.result
          /\ co.result => cpu[co.i] = NativeCpu /\ Terminal(co.i)
    /\ co.pc = "stopNext" => co.bound = co.reserved
    /\ co.phase = "stop" /\ co.pc \in WaitPlaces \cup RetryPlaces =>
          co.bound = co.reserved /\ co.i # co.reserved
    /\ co.phase = "stopReserved" /\ co.pc \in WaitPlaces \cup RetryPlaces =>
          /\ co.i = co.reserved /\ co.bound \in Cpus \ {co.i}
          /\ cpu[co.bound].mode = "native"

\* The crash blob exists before the contexts do.
BlobInv ==
    /\ vcpuData \/ co.pc = "allocate" => dump.blob
    /\ co.pc = "unloaded" => dump = NoDump

\* Launches and stops are ordered: the inductive strengthening, on top of VmmInv.
OrderInv ==
    /\ \A p \in Cpus : RecordInv(p)
    /\ PendingLaunchInv /\ PendingStopInv
    /\ StagedInv /\ RunningInv /\ StopInvCo /\ BlobInv

==============================================================================
