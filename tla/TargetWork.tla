----------------------------- MODULE TargetWork -----------------------------
(***************************************************************************)
(* The two ways the coordinator runs code on a chosen processor            *)
(* (vmx_stop.cpp): a worker thread per operation (TargetCpuWork) and the   *)
(* launch DPC (TargetLaunchDpcWork), with the waits that may give up on    *)
(* them.  A status is abstracted to whether NT_SUCCESS holds of it.        *)
(***************************************************************************)
EXTENDS Vcpu

VARIABLES
    work,       \* g_HvTargetCpuWork[p] and the thread that serves it
    dpc         \* g_HvTargetLaunchDpcWork[p] and the routine's progress

workVars == <<work, dpc>>

WorkStates == {"Idle", "Queued", "Entered", "Executing", "Succeeded",
               "Failed", "Cancelled"}
Operations == {"None", "Probe", "RuntimeCanary", "Stop"}

\* Thread and routine places; "none" is a thread that terminated or was never
\* created, and a DPC that is neither queued nor running.
WorkerPlaces == {"none", "created", "entered", "executing", "stopping",
                 "report", "publish"}
DpcPlaces == {"none", "queued", "launching", "finish", "signal", "returning"}

ZeroWork == [State |-> "Idle", Operation |-> "None", Result |-> FALSE,
             ThreadHandle |-> FALSE, thread |-> "none"]

ZeroDpc == [State |-> "Idle", DpcQueued |-> FALSE, Result |-> FALSE,
            Done |-> FALSE, routine |-> "none"]

WorkTypeOK ==
    /\ work \in [Cpus -> [State : WorkStates, Operation : Operations,
                          Result : BOOLEAN, ThreadHandle : BOOLEAN,
                          thread : WorkerPlaces]]
    /\ dpc \in [Cpus -> [State : WorkStates, DpcQueued : BOOLEAN,
                         Result : BOOLEAN, Done : BOOLEAN,
                         routine : DpcPlaces]]

WorkInit ==
    /\ work = [p \in Cpus |-> ZeroWork]
    /\ dpc = [p \in Cpus |-> ZeroDpc]

IsTargetWorkTerminal(state) == state \in {"Succeeded", "Failed", "Cancelled"}

-----------------------------------------------------------------------------
(***************************************************************************)
(* TargetCpuWorker.                                                        *)
(***************************************************************************)

\* Queued -> Entered, unless the coordinator cancelled first.
WorkerEnter(p) ==
    /\ work[p].thread = "created"
    /\ work' = IF work[p].State = "Queued"
               THEN [work EXCEPT ![p].State = "Entered", ![p].thread = "entered"]
               ELSE [work EXCEPT ![p].thread = "none"]
    /\ UNCHANGED <<vcpu, cpu, dpc>>

\* The affinity took effect: Entered -> Executing, unless cancelled.
WorkerPlace(p) ==
    /\ work[p].thread = "entered" /\ At(p, "idle")
    /\ work' = IF work[p].State = "Entered"
               THEN [work EXCEPT ![p].State = "Executing",
                                 ![p].thread = "executing"]
               ELSE [work EXCEPT ![p].Result = FALSE, ![p].thread = "report"]
    /\ UNCHANGED <<vcpu, cpu, dpc>>

\* The thread does not run on its target.
WorkerMisplaced(p) ==
    /\ work[p].thread = "entered"
    /\ work' = [work EXCEPT ![p].Result = FALSE, ![p].thread = "report"]
    /\ UNCHANGED <<vcpu, cpu, dpc>>

Executing(p, operation) ==
    /\ work[p].thread = "executing" /\ work[p].Operation = operation
    /\ At(p, "idle")

WorkerProbe(p) ==
    /\ Executing(p, "Probe")
    /\ work' = [work EXCEPT ![p].Result = TRUE, ![p].thread = "report"]
    /\ UNCHANGED <<vcpu, cpu, dpc>>

\* One more CPUID exit on a launched processor; it may also fail its checks.
WorkerCanary(p) ==
    /\ Executing(p, "RuntimeCanary")
    /\ \E passed \in BOOLEAN :
          /\ passed => vcpu[p].State = "Launched"
          /\ work' = [work EXCEPT ![p].Result = passed, ![p].thread = "report"]
    /\ UNCHANGED <<vcpu, cpu, dpc>>

WorkerStopCall(p) ==
    /\ Executing(p, "Stop")
    /\ StopCall(p)
    /\ work' = [work EXCEPT ![p].thread = "stopping"]
    /\ UNCHANGED dpc

\* Mutant: a callback that returned counts as a stopped processor.
WorkerStopAlwaysSucceeds(p) ==
    /\ work[p].thread = "stopping" /\ At(p, "stopReturn")
    /\ Goto(p, "idle")
    /\ work' = [work EXCEPT ![p].Result = TRUE, ![p].thread = "report"]
    /\ UNCHANGED <<vcpu, dpc>>

\* The callback returned; success is a terminal processor state.
WorkerStopReturn(p) ==
    /\ work[p].thread = "stopping" /\ At(p, "stopReturn")
    /\ Goto(p, "idle")
    /\ work' = [work EXCEPT ![p].Result = Terminal(p), ![p].thread = "report"]
    /\ UNCHANGED <<vcpu, dpc>>

\* A cancelled worker leaves the state alone; the check and the write are two
\* steps.
WorkerReport(p) ==
    /\ work[p].thread = "report"
    /\ work' = [work EXCEPT ![p].thread =
                   IF work[p].State = "Cancelled" THEN "none" ELSE "publish"]
    /\ UNCHANGED <<vcpu, cpu, dpc>>

WorkerPublish(p) ==
    /\ work[p].thread = "publish"
    /\ work' = [work EXCEPT
                  ![p].State = IF work[p].Result THEN "Succeeded" ELSE "Failed",
                  ![p].thread = "none"]
    /\ UNCHANGED <<vcpu, cpu, dpc>>

TargetCpuWorker(p) ==
    \/ WorkerEnter(p)    \/ WorkerPlace(p)      \/ WorkerMisplaced(p)
    \/ WorkerProbe(p)    \/ WorkerCanary(p)     \/ WorkerStopCall(p)
    \/ WorkerReport(p)   \/ WorkerStopReturn(p) \/ WorkerPublish(p)

-----------------------------------------------------------------------------
(***************************************************************************)
(* TargetLaunchDpcRoutine.                                                 *)
(***************************************************************************)

\* Queued -> Executing on the target, then EnableHvCallback.
DpcEnter(p) ==
    /\ dpc[p].routine = "queued"
    /\ LaunchCall(p)
    /\ dpc' = [dpc EXCEPT ![p].State = "Executing", ![p].routine = "launching"]
    /\ UNCHANGED work

\* Success needs the launch, the guest-active stage and the first-exit probe.
DpcLaunchReturn(p) ==
    /\ dpc[p].routine = "launching" /\ At(p, "launchReturn")
    /\ Goto(p, "idle")
    /\ dpc' = [dpc EXCEPT
                 ![p].Result = /\ vcpu[p].State = "Launched"
                               /\ vcpu[p].LaunchStage = "GuestActive"
                               /\ vcpu[p].ProbeReturned,
                 ![p].routine = "finish"]
    /\ UNCHANGED <<vcpu, work>>

DpcFinish(p) ==
    /\ dpc[p].routine = "finish"
    /\ At(p, "idle")
    /\ dpc' = [dpc EXCEPT
                 ![p].State = IF dpc[p].Result THEN "Succeeded" ELSE "Failed",
                 ![p].routine = "signal"]
    /\ UNCHANGED <<vcpu, cpu, work>>

\* The event is set while the routine still runs.
DpcSignal(p) ==
    /\ dpc[p].routine = "signal"
    /\ At(p, "idle")
    /\ dpc' = [dpc EXCEPT ![p].Done = TRUE, ![p].routine = "returning"]
    /\ UNCHANGED <<vcpu, cpu, work>>

DpcReturn(p) ==
    /\ dpc[p].routine = "returning"
    /\ At(p, "idle")
    /\ dpc' = [dpc EXCEPT ![p].routine = "none"]
    /\ UNCHANGED <<vcpu, cpu, work>>

TargetLaunchDpcRoutine(p) ==
    \/ DpcEnter(p)  \/ DpcLaunchReturn(p) \/ DpcFinish(p)
    \/ DpcSignal(p) \/ DpcReturn(p)

-----------------------------------------------------------------------------
(***************************************************************************)
(* The coordinator's half: queueing, waiting and giving up.                *)
(***************************************************************************)

\* QueueTargetOperation; refused while a thread handle is still open.
QueueTargetOperation(p, operation) ==
    /\ ~work[p].ThreadHandle
    /\ work' = [work EXCEPT ![p] = [State |-> "Queued", Operation |-> operation,
                                    Result |-> FALSE, ThreadHandle |-> TRUE,
                                    thread |-> "created"]]

\* The record is already zeroed when the processor lookup or the thread creation
\* fails.
QueueOperationFails(p) ==
    work' \in IF work[p].ThreadHandle THEN {work}
              ELSE {[work EXCEPT ![p] = [ZeroWork EXCEPT !.State = s]] :
                       s \in {"Idle", "Failed"}}

\* Mutant: a terminal record is taken for a terminated thread.
CloseTerminalTargetWork(p) ==
    /\ IsTargetWorkTerminal(work[p].State)
    /\ work' = [work EXCEPT ![p].ThreadHandle = FALSE]

\* Mutant: the handle is closed without waiting for the thread.
CloseRunningTargetWork(p) ==
    work' = [work EXCEPT ![p].ThreadHandle = FALSE]

CloseCompletedTargetWork(p) ==
    /\ work[p].thread = "none"
    /\ work' = [work EXCEPT ![p].ThreadHandle = FALSE]

\* Interlocked cancellation from one expected state.
CancelFrom(p, state) ==
    work' = IF work[p].State = state
            THEN [work EXCEPT ![p].State = "Cancelled"] ELSE work

QueueTargetLaunchDpc(p) ==
    /\ ~dpc[p].DpcQueued
    /\ dpc' = [dpc EXCEPT ![p] = [State |-> "Queued", DpcQueued |-> TRUE,
                                  Result |-> FALSE, Done |-> FALSE,
                                  routine |-> "queued"]]

\* Busy or no such processor; or the DPC cannot be targeted or inserted.
QueueLaunchFails(p) ==
    \/ UNCHANGED dpc
    \/ /\ ~dpc[p].DpcQueued
       /\ dpc' = [dpc EXCEPT ![p] = [ZeroDpc EXCEPT !.State = "Failed",
                                                    !.Done = TRUE]]

\* Mutant: the completion event is taken for the end of the DPC routine.
ForgetLaunchDpc(p) ==
    dpc' = [dpc EXCEPT ![p].DpcQueued = FALSE]

\* KeRemoveQueueDpcEx waits until the routine has returned.
DrainLaunchDpc(p) ==
    /\ dpc[p].routine = "none"
    /\ dpc' = [dpc EXCEPT ![p].DpcQueued = FALSE]

\* KeRemoveQueueDpc succeeds only before the routine starts.
RemoveLaunchDpc(p) ==
    /\ dpc[p].routine = "queued"
    /\ dpc' = [dpc EXCEPT ![p] = [State |-> "Cancelled", DpcQueued |-> FALSE,
                                  Result |-> FALSE, Done |-> TRUE,
                                  routine |-> "none"]]

HasUnresolvedTargetWork ==
    \E p \in Cpus : work[p].ThreadHandle \/ dpc[p].DpcQueued

=============================================================================
