---------------------------- MODULE VmmStopProofs ----------------------------
(***************************************************************************)
(* Which steps keep launches and stops in order, first half: the steps of  *)
(* the processors, the waits and the stop.  The induction and its theorems *)
(* are in VmmOrderProofs.                                                  *)
(*                                                                         *)
(* A step of a processor, its worker or its launch DPC is shown to leave   *)
(* every processor Steady, from which each part of OrderInv follows; a     *)
(* step of the coordinator is read off its action once (its moves) and     *)
(* then checked against the parts: what may be pending (PendingStays) and  *)
(* what its next place asks (NextPlace, NextStage).                        *)
(***************************************************************************)
EXTENDS VmmProofs

\* A processor that died stays dead, an idle one is only moved by a fatal exit or
\* a fault, and only the launch callback turns VMX on.
LEMMA RunMoves ==
    ASSUME VcpuInv, NEW p \in Cpus, Run(p) \/ Disturb(p)
    PROVE  /\ Doomed(p) \/ cpu[p].pc = "idle" => Doomed(p)'
           /\ cpu[p].mode = "native" /\ cpu[p].pc \notin LaunchPlaces
                => cpu'[p].mode = "native"
<1> /\ cpu[p] \in [mode : {"native", "root", "guest"}, pc : Places, path : Paths]
    /\ cpu \in [Cpus -> [mode : {"native", "root", "guest"}, pc : Places, path : Paths]]
    BY Zenon DEF VcpuInv, VcpuTypeOK
<1>1. CpuInv(vcpu[p], cpu[p])
    BY Zenon DEF VcpuInv
<1> DEFINE Goal == /\ Doomed(p) \/ cpu[p].pc = "idle" => Doomed(p)'
                   /\ cpu[p].mode = "native" /\ cpu[p].pc \notin LaunchPlaces
                        => cpu'[p].mode = "native"
<1> SUFFICES Goal
    BY Zenon
<1> USE DEF Doomed, LaunchPlaces, CpuInv, PathInv, ReleaseInv, ReleasePlaces, EndPlaces,
            At, Goto
<1>2. CASE PrepareClaim(p) \/ PrepareRefuse(p) \/ PrepareReject(p) \/ PrepareVmxOn(p)
    BY <1>1, <1>2, Zenon DEF PrepareClaim, PrepareRefuse, PrepareReject, PrepareVmxOn
<1>3. CASE PreparePublish(p) \/ PrepareLoadVmcs(p) \/ PrepareAbandon(p) \/ PrepareReady(p)
    BY <1>1, <1>3, Zenon DEF PreparePublish, PrepareLoadVmcs, PrepareAbandon, PrepareReady
<1>4. CASE MarkHandoff(p) \/ MarkLaunched(p) \/ VmLaunch(p) \/ LaunchFails(p)
    BY <1>1, <1>4, Zenon
       DEF MarkHandoff, MarkLaunched, VmLaunch, LaunchFails, CasStage, CasState
<1>5. CASE AbortClaimStage(p) \/ AbortClaimState(p) \/ LaunchFailed(p)
    BY <1>1, <1>5, Zenon DEF AbortClaimStage, AbortClaimState, LaunchFailed, CasStage
<1>6. CASE MarkCurrentVcpuRunning(p) \/ RunFirstExitProbe(p)
    BY <1>1, <1>6, Zenon DEF MarkCurrentVcpuRunning, RunFirstExitProbe
<1>7. CASE StopEnter(p) \/ StopClaimStage(p) \/ StopClaimState(p) \/ StopRequest(p)
    BY <1>1, <1>7 DEF StopEnter, StopClaimStage, StopClaimState, StopRequest, CasStage, CasState
<1>8. CASE StopVmcall(p) \/ StopDeferRequest(p) \/ StopDeferStage(p) \/ StopDeferState(p)
    BY <1>1, <1>8, Zenon DEF StopVmcall, StopDeferRequest, StopDeferStage, StopDeferState,
       CasStage, CasState, StopInv, Is
<1>9. CASE StopUnconsumed(p) \/ StopPublishState(p) \/ StopPublishStage(p)
    BY <1>1, <1>9 DEF StopUnconsumed, StopPublishState, StopPublishStage, CasStage, CasState
<1>10. CASE UnloadDefer(p) \/ UnloadAccept(p) \/ UnloadHalt(p)
    BY <1>1, <1>10, Zenon DEF UnloadDefer, UnloadAccept, UnloadHalt, StopInv, Is
<1>11. CASE MarkCurrentVcpuTearingDown(p)
    <2>1. CASE Authorized(p)
        BY <1>1, <1>11, <2>1, Zenon DEF MarkCurrentVcpuTearingDown
    <2>2. CASE ~Authorized(p)
        BY <1>1, <1>11, <2>2, Zenon DEF MarkCurrentVcpuTearingDown
    <2> QED BY <2>1, <2>2, Zenon
<1>12. CASE ClearVmcsBegin(p) \/ ClearVmcsAbsent(p) \/ ClearVmcsDone(p) \/ ClearVmcsFails(p)
    BY <1>1, <1>12 DEF ClearVmcsBegin, ClearVmcsAbsent, ClearVmcsDone, ClearVmcsFails
<1>13. CASE VmxOff(p)
    BY <1>1, <1>13, Zenon DEF VmxOff, AfterVmxOff
<1>14. CASE VmxOffFails(p)
    BY <1>1, <1>14, Zenon DEF VmxOffFails
<1>15. CASE FatalExit(p)
    BY <1>1, <1>15, Zenon DEF FatalExit
<1>16. CASE HostException(p)
    BY <1>1, <1>16, Zenon DEF HostException
<1>17. CASE HvFatalBugCheck(p)
    BY <1>1, <1>17, Zenon DEF HvFatalBugCheck
<1>18. CASE RestoreInvalid(p) \/ MarkCurrentVcpuParked(p)
    BY <1>1, <1>18 DEF RestoreInvalid, MarkCurrentVcpuParked
<1> HIDE DEF Goal
<1> QED
    BY <1>2, <1>3, <1>4, <1>5, <1>6, <1>7, <1>8, <1>9, <1>10, <1>11, <1>12, <1>13,
       <1>14, <1>15, <1>16, <1>17, <1>18, SMTT(60)
       DEF Run, Disturb, Launch, Stop, Exit, Release

-----------------------------------------------------------------------------
\* A step of the code on processor p, of its worker or of its launch DPC.
ProcessorStep(p) ==
    /\ UNCHANGED vmmVars
    /\ \/ (Run(p) \/ Disturb(p)) /\ UNCHANGED workVars
       \/ /\ TargetCpuWorker(p) \/ TargetLaunchDpcRoutine(p)
          /\ UNCHANGED <<hostFault, crashed>>

\* What a step of a worker or launch DPC from the records w, d and the processor c
\* to w2, d2 and c2 may do: no operation changes, none starts by itself, and the
\* place changes only at the call or the return of a callback.
Serves(w, d, c, w2, d2, c2) ==
    /\ w2.Operation = w.Operation
    /\ w.thread = "none" => w2.thread = "none"
    /\ d.routine = "none" => d2.routine = "none"
    /\ c2.mode = c.mode /\ c2.path = c.path
    /\ c.pc = "bugcheck" => c2.pc = "bugcheck"
    /\ c2 # c => \/ d.routine \in {"queued", "launching"}
                 \/ w.Operation = "Stop" /\ w.thread # "none"
    /\ c2.pc \notin LaunchPlaces => c.pc \notin LaunchPlaces \/ c2.pc = "idle"

\* TargetCpuWorker and TargetLaunchDpcRoutine are of that kind.
LEMMA WorkerMoves ==
    ASSUME VcpuTypeOK, WorkTypeOK, NEW p \in Cpus, RecordInv(p),
           TargetCpuWorker(p) \/ TargetLaunchDpcRoutine(p)
    PROVE  /\ Serves(work[p], dpc[p], cpu[p], work'[p], dpc'[p], cpu'[p])
           /\ vcpu' = vcpu
<1>1. /\ cpu \in [Cpus -> [mode : {"native", "root", "guest"}, pc : Places, path : Paths]]
      /\ cpu[p] \in [mode : {"native", "root", "guest"}, pc : Places, path : Paths]
    BY Zenon DEF VcpuTypeOK
<1> DEFINE Goal == /\ Serves(work[p], dpc[p], cpu[p], work'[p], dpc'[p], cpu'[p])
                   /\ vcpu' = vcpu
<1> SUFFICES Goal
    BY Zenon
<1> USE <1>1 DEF RecordInv, WorkTypeOK, At, Goto, Serves, LaunchPlaces
<1>2. CASE WorkerEnter(p)
    BY <1>2, Zenon DEF WorkerEnter
<1>3. CASE WorkerPlace(p)
    BY <1>3 DEF WorkerPlace
<1>4. CASE WorkerMisplaced(p)
    BY <1>4 DEF WorkerMisplaced
<1>5. CASE WorkerProbe(p)
    BY <1>5 DEF WorkerProbe, Executing
<1>6. CASE WorkerCanary(p)
    BY <1>6 DEF WorkerCanary, Executing
<1>7. CASE WorkerStopCall(p)
    BY <1>7, Zenon DEF WorkerStopCall, Executing, StopCall
<1>8. CASE WorkerStopReturn(p)
    BY <1>8 DEF WorkerStopReturn
<1>9. CASE WorkerReport(p)
    BY <1>9 DEF WorkerReport
<1>10. CASE WorkerPublish(p)
    BY <1>10 DEF WorkerPublish
<1>11. CASE DpcEnter(p)
    BY <1>11, Zenon DEF DpcEnter, LaunchCall
<1>12. CASE DpcLaunchReturn(p)
    BY <1>12, Zenon DEF DpcLaunchReturn
<1>13. CASE DpcFinish(p)
    BY <1>13, Zenon DEF DpcFinish
<1>14. CASE DpcSignal(p)
    BY <1>14, Zenon DEF DpcSignal
<1>15. CASE DpcReturn(p)
    BY <1>15, Zenon DEF DpcReturn
<1> HIDE DEF Goal
<1> QED
    BY <1>2, <1>3, <1>4, <1>5, <1>6, <1>7, <1>8, <1>9, <1>10, <1>11, <1>12, <1>13,
       <1>14, <1>15, Zenon DEF TargetCpuWorker, TargetLaunchDpcRoutine

\* The worker and the launch DPC of p keep p's records honest; the DPC reports a
\* launch only over a verified processor.
LEMMA WorkerKeepsRecord ==
    ASSUME VcpuInv, WorkTypeOK, NEW p \in Cpus, RecordInv(p),
           dpc[p].routine # "none" => work[p].Operation # "Stop",
           TargetCpuWorker(p) \/ TargetLaunchDpcRoutine(p)
    PROVE  /\ RecordInv(p)'
           /\ dpc'[p].Result => dpc[p].Result \/ Verified(p)'
<1>1. /\ cpu \in [Cpus -> [mode : {"native", "root", "guest"}, pc : Places, path : Paths]]
      /\ cpu[p] \in [mode : {"native", "root", "guest"}, pc : Places, path : Paths]
      /\ PathInv(vcpu[p], cpu[p])
      /\ cpu[p].pc \in IdlePlaces => IdleInv(vcpu[p], cpu[p])
    BY Zenon DEF VcpuInv, VcpuTypeOK, CpuInv
<1>2. \A q : Terminal(q) \in BOOLEAN
    BY TerminalIsBoolean, Zenon
<1> DEFINE Goal == /\ RecordInv(p)'
                   /\ dpc'[p].Result => dpc[p].Result \/ Verified(p)'
<1> SUFFICES Goal
    BY Zenon
<1> USE <1>1 DEF RecordInv, WorkTypeOK, At, Goto, NativeCpu, Terminal
<1>3. CASE WorkerEnter(p)
    BY <1>3 DEF WorkerEnter
<1>4. CASE WorkerPlace(p)
    BY <1>4 DEF WorkerPlace
<1>5. CASE WorkerMisplaced(p)
    BY <1>5 DEF WorkerMisplaced
<1>6. CASE WorkerProbe(p)
    BY <1>6 DEF WorkerProbe, Executing
<1>7. CASE WorkerCanary(p)
    BY <1>7 DEF WorkerCanary, Executing
<1>8. CASE WorkerStopCall(p)
    BY <1>8, Zenon DEF WorkerStopCall, Executing, StopCall
<1>9. CASE WorkerStopReturn(p)
    BY <1>9 DEF WorkerStopReturn, IdlePlaces, IdleInv, Is, PathInv, ReleasePlaces, EndPlaces, Paths
<1>10. CASE WorkerReport(p)
    BY <1>10 DEF WorkerReport
<1>11. CASE WorkerPublish(p)
    BY <1>11 DEF WorkerPublish
<1>12. CASE DpcEnter(p)
    BY <1>12, Zenon DEF DpcEnter, LaunchCall
<1>13. CASE DpcLaunchReturn(p)
    BY <1>13 DEF DpcLaunchReturn, Verified, Doomed, IdlePlaces, IdleInv, Is
<1>14. CASE DpcFinish(p)
    BY <1>14 DEF DpcFinish
<1>15. CASE DpcSignal(p)
    BY <1>15 DEF DpcSignal
<1>16. CASE DpcReturn(p)
    BY <1>16, Zenon DEF DpcReturn
<1> HIDE DEF Goal
<1> QED
    BY <1>3, <1>4, <1>5, <1>6, <1>7, <1>8, <1>9, <1>10, <1>11, <1>12, <1>13,
       <1>14, <1>15, <1>16, SMTT(60) DEF TargetCpuWorker, TargetLaunchDpcRoutine

\* What a step on processor p leaves of processor q: its operation; the end of its
\* thread or routine; its death; its verification when no launch or stop runs on
\* it; and its release from VMX when none is pending.
Steady(q) ==
    /\ work'[q].Operation = work[q].Operation
    /\ work[q].thread = "none" => work'[q].thread = "none"
    /\ dpc[q].routine = "none" => dpc'[q].routine = "none"
    /\ Verified(q) /\ ~Stopper(q) /\ dpc[q].routine \notin {"queued", "launching"}
          => Verified(q)'
    /\ cpu[q] = NativeCpu /\ Terminal(q) /\ ~Stopper(q) /\ dpc[q].routine = "none"
          => (cpu[q] = NativeCpu /\ Terminal(q))'
    /\ cpu[q].mode = "native" /\ dpc[q].routine = "none" => cpu'[q].mode = "native"
    /\ dpc'[q].Result => dpc[q].Result \/ Verified(q)'

\* Every step of the code, worker or DPC of p is of that kind for every processor
\* and keeps every record honest.
LEMMA ProcessorSteady ==
    ASSUME VmmInv, OrderInv, NEW p \in Cpus, ProcessorStep(p), NEW q \in Cpus
    PROVE  Steady(q) /\ RecordInv(q)'
<1>1. /\ VcpuInv /\ VcpuTypeOK /\ WorkTypeOK /\ WorkInv(q)
      /\ RecordInv(p) /\ RecordInv(q)
      /\ dpc[p].routine # "none" => work[p].Operation # "Stop"
    BY Zenon DEF VmmInv, VmmTypeOK, OrderInv, PendingLaunchInv, NoStops
<1>2. CASE q # p
    <2>1. vcpu'[q] = vcpu[q] /\ cpu'[q] = cpu[q]
        BY <1>1, <1>2, Local, WorkerFrame, Zenon DEF ProcessorStep, Aside
    <2>2. work'[q] = work[q] /\ dpc'[q] = dpc[q]
        BY <1>1, <1>2, WorkerFrame, Zenon DEF ProcessorStep, workVars
    <2> QED BY <1>1, <2>1, <2>2 DEF Steady, RecordInv, Verified, Doomed, Terminal
<1>3. CASE q = p /\ (Run(p) \/ Disturb(p)) /\ UNCHANGED workVars
    <2>1. work'[q] = work[q] /\ dpc'[q] = dpc[q]
        BY <1>3, Zenon DEF workVars
    <2>2. cpu[q] # NativeCpu
        BY <1>1, <1>3, RunKept DEF Kept, NativeCpu
    <2>3. Verified(q) => Verified(q)'
        BY <1>1, <1>3, RunMoves, Zenon DEF Verified
    <2>4. cpu[q].mode = "native" /\ dpc[q].routine = "none" => cpu'[q].mode = "native"
        BY <1>1, <1>3, RunMoves, Zenon DEF WorkInv
    <2> QED BY <1>1, <2>1, <2>2, <2>3, <2>4 DEF Steady, RecordInv
<1>4. CASE q = p /\ (TargetCpuWorker(p) \/ TargetLaunchDpcRoutine(p))
    <2>1. /\ Serves(work[q], dpc[q], cpu[q], work'[q], dpc'[q], cpu'[q])
          /\ vcpu' = vcpu
        BY <1>1, <1>4, WorkerMoves, Zenon
    <2>2. /\ RecordInv(q)'
          /\ dpc'[q].Result => dpc[q].Result \/ Verified(q)'
        BY <1>1, <1>4, WorkerKeepsRecord, Zenon
    <2> QED BY <2>1, <2>2, Zenon DEF Steady, Serves, Verified, Doomed, Stopper, Terminal
<1> QED BY <1>2, <1>3, <1>4, Zenon DEF ProcessorStep

\* Launches and stops stay in order while processors, workers and DPCs run.
LEMMA ProcessorKeepsOrder ==
    ASSUME VmmInv, OrderInv, NEW p \in Cpus, ProcessorStep(p)
    PROVE  OrderInv'
<1>1. \A q \in Cpus : Steady(q) /\ RecordInv(q)'
    BY ProcessorSteady, Zenon
<1>2. UNCHANGED <<lifecycle, vcpuData, dump, co>>
    BY Zenon DEF ProcessorStep, vmmVars
<1>3. /\ NoStops => NoStops'
      /\ NoRoutines => NoRoutines'
      /\ NoWorkers => NoWorkers'
      /\ \A q \in Cpus : Stopper(q)' => Stopper(q)
      /\ \A q \in Cpus : dpc'[q].routine # "none" => dpc[q].routine # "none"
    BY <1>1, Zenon DEF Steady, NoStops, NoRoutines, NoWorkers, Stopper
<1>4. ASSUME NoStops, NEW q \in Cpus, Verified(q), dpc[q].routine \notin {"queued", "launching"}
      PROVE  Verified(q)'
    BY <1>1, <1>4, Zenon DEF Steady, NoStops, Stopper
<1>5. ASSUME lifecycle # "Quarantined", NEW q \in Cpus, dpc[q].routine # "none"
      PROVE  /\ co.i = q /\ co.pc \in LaunchWaits \cup {"launchCheck"}
             /\ co.pc = "launchCheck" => ~co.result
    BY <1>5, Zenon DEF OrderInv, PendingLaunchInv, LaunchWaits
<1>6. lifecycle = "Quarantined" => co.pc \in {"resident", "stopReturn"}
    BY Zenon DEF VmmInv, StorageInv, IsHypervisorQuarantined
<1>7. \A q \in Cpus : LaunchOrder(q) = LaunchOrder(q) /\ ~(LaunchOrder(q) < LaunchOrder(q))
    BY NAssumption DEF LaunchOrder, Cpus
<1>8. PendingLaunchInv'
    <2> SUFFICES ASSUME NEW r \in Cpus, dpc'[r].routine # "none"
                 PROVE  /\ \A q \in Cpus : dpc'[q].routine # "none" => q = r
                        /\ NoStops' /\ VerifiedBefore(r)'
                        /\ \/ lifecycle = "Quarantined"
                           \/ co.i = r /\ co.pc \in LaunchWaits
                           \/ /\ co.i = r /\ co.pc = "launchCheck"
                              /\ co.unresolved /\ ~co.result
        BY <1>2, Zenon DEF PendingLaunchInv
    <2>1. /\ \A q \in Cpus : dpc[q].routine # "none" => q = r
          /\ NoStops /\ VerifiedBefore(r)
          /\ \/ lifecycle = "Quarantined"
             \/ co.i = r /\ co.pc \in LaunchWaits
             \/ /\ co.i = r /\ co.pc = "launchCheck"
                /\ co.unresolved /\ ~co.result
        BY <1>3, Zenon DEF OrderInv, PendingLaunchInv
    <2>2. VerifiedBefore(r)'
        BY <1>4, <1>7, <2>1, Zenon DEF VerifiedBefore, LaunchOrder
    <2> QED BY <1>3, <2>1, <2>2, Zenon
<1>9. PendingStopInv'
    BY <1>2, <1>3, Zenon DEF OrderInv, PendingStopInv, StopWaits, StopEnds, Waiting
<1>10. StagedInv'
    <2>1. ASSUME co.pc \in StagePlaces, VerifiedBefore(co.i), NoStops
          PROVE  VerifiedBefore(co.i)'
        BY <1>2, <1>4, <1>5, <1>6, <1>7, <2>1, Zenon
           DEF VerifiedBefore, LaunchOrder, StagePlaces, LaunchWaits
    <2>2. ASSUME lifecycle # "Quarantined", co.pc \notin StagePlaces, NoStops
          PROVE  \A q \in Cpus : Verified(q) => Verified(q)'
        BY <1>4, <1>5, <2>2, Zenon DEF StagePlaces
    <2>3. ASSUME lifecycle # "Quarantined", co.pc \notin StagePlaces, NoStops
          PROVE  \A q : VerifiedBefore(q) => VerifiedBefore(q)'
        BY <2>2, <2>3, Zenon DEF VerifiedBefore, LaunchOrder
    <2>4. ASSUME co.pc \in LaunchWaits, NoStops, co.i \in Cpus, dpc'[co.i].Result,
                 dpc[co.i].Result => Verified(co.i)
          PROVE  Verified(co.i)'
        BY <1>1, <1>2, <1>4, <2>4 DEF Steady, OrderInv, RecordInv
    <2>5. ASSUME co.pc = "launchCheck", co.result, NoStops, co.i \in Cpus, Verified(co.i)
          PROVE  Verified(co.i)'
        BY <1>2, <1>4, <1>5, <1>6, <2>5, Zenon
    <2>6. \/ co.pc \in LaunchWaits \cup {"launchCheck"}
          \/ Waiting({"staged"})
          \/ co.pc = "canary"
          => co.i \in Cpus
        BY Zenon DEF VmmInv, IndexInv, LaunchWaits, Waiting
    <2>7. lifecycle = "Quarantined" =>
             /\ ~Waiting({"staged"}) /\ ~Waiting({"final"})
             /\ co.pc \notin LaunchSteps
        BY <1>6, Zenon DEF Waiting, WaitPlaces, LaunchSteps
    <2> DEFINE stops == \/ co.pc \in LaunchSteps \cup {"loaded", "stopClaim", "stopCheck", "stopBind"}
                        \/ Waiting({"probe", "staged", "final"})
    <2>8. StagedInv /\ (stops => NoStops)
        BY Zenon DEF OrderInv, StagedInv
    <2>9. co.pc \in StagePlaces \cup {"canary", "handoff", "verify", "publish"} => stops
        BY Zenon DEF StagePlaces, LaunchWaits, LaunchSteps
    <2>10. Waiting({"staged"}) \/ Waiting({"final"}) => stops /\ co.pc \notin StagePlaces
        BY Zenon DEF Waiting, StagePlaces, LaunchWaits, WaitPlaces
    <2>11. ASSUME co.pc \in StagePlaces
           PROVE  VerifiedBefore(co.i)'
        BY <2>1, <2>8, <2>9, <2>11, Zenon DEF StagedInv
    <2>12. ASSUME co.pc \in LaunchWaits, dpc'[co.i].Result
           PROVE  Verified(co.i)'
        BY <2>4, <2>6, <2>8, <2>9, <2>12, Zenon DEF StagedInv, StagePlaces
    <2>13. ASSUME co.pc = "launchCheck", co.result
           PROVE  Verified(co.i)'
        BY <2>5, <2>6, <2>8, <2>9, <2>13, Zenon DEF StagedInv, StagePlaces
    <2>14. ASSUME (co.pc = "canary" /\ co.phase # "final") \/ Waiting({"staged"})
           PROVE  VerifiedUpTo(co.i)'
        <3>1. /\ VerifiedBefore(co.i) /\ Verified(co.i) /\ co.i \in Cpus
              /\ NoStops /\ lifecycle # "Quarantined" /\ co.pc \notin StagePlaces
            BY <2>6, <2>7, <2>8, <2>9, <2>10, <2>14, Zenon
               DEF StagedInv, VerifiedUpTo, StagePlaces, LaunchWaits, LaunchSteps
        <3> QED BY <1>2, <2>2, <2>3, <3>1, Zenon DEF VerifiedUpTo
    <2>15. ASSUME co.pc = "handoff"
           PROVE  VerifiedBefore(0)'
        BY <2>3, <2>7, <2>8, <2>9, <2>15, Zenon
           DEF StagedInv, StagePlaces, LaunchWaits, LaunchSteps
    <2>16. ASSUME \/ co.pc = "canary" /\ co.phase = "final"
                  \/ Waiting({"final"})
                  \/ co.pc \in {"verify", "publish"}
           PROVE  AllVerified'
        <3>1. /\ AllVerified /\ NoStops /\ lifecycle # "Quarantined"
              /\ co.pc \notin StagePlaces
            BY <2>7, <2>8, <2>9, <2>10, <2>16, Zenon
               DEF StagedInv, StagePlaces, LaunchWaits, LaunchSteps
        <3> QED BY <2>2, <3>1, Zenon DEF AllVerified
    <2> HIDE DEF stops
    <2> QED
        BY <1>2, <1>3, <2>8, <2>11, <2>12, <2>13, <2>14, <2>15, <2>16, SMTT(60)
           DEF StagedInv, stops, Waiting
<1>11. RunningInv'
    <2> SUFFICES ASSUME lifecycle = "Running"
                 PROVE  co.pc \in {"loaded", "stopClaim"} /\ ~co.rollback /\ AllVerified'
        BY <1>2, Zenon DEF RunningInv
    <2>1. co.pc \in {"loaded", "stopClaim"} /\ ~co.rollback /\ AllVerified /\ NoStops
        BY Zenon DEF OrderInv, RunningInv, StagedInv
    <2> QED BY <1>4, <1>5, <2>1, Zenon DEF AllVerified, LaunchWaits
<1>12. StopInvCo'
    <2>1. ASSUME NoRoutines, NEW q \in Cpus, cpu[q] = NativeCpu, Terminal(q), ~Stopper(q)
          PROVE  (cpu[q] = NativeCpu /\ Terminal(q))'
        BY <1>1, <2>1, Zenon DEF Steady, NoRoutines
    <2>2. ASSUME NoRoutines, NEW q \in Cpus, cpu[q].mode = "native"
          PROVE  cpu'[q].mode = "native"
        BY <1>1, <2>2, Zenon DEF Steady, NoRoutines
    <2>3. ASSUME co.pc = "stopDone" \/ StopEnds, co.result
          PROVE  (cpu[co.i] = NativeCpu /\ Terminal(co.i))'
        <3>1. /\ NoRoutines /\ NoWorkers /\ cpu[co.i] = NativeCpu /\ Terminal(co.i)
            BY <2>3, Zenon DEF OrderInv, StopInvCo, StopEnds, RetryPlaces
        <3>2. co.i \in Cpus
            BY <2>3, Zenon DEF VmmInv, IndexInv, StopEnds, Waiting, RetryPlaces
        <3> QED BY <1>2, <2>1, <3>1, <3>2, Zenon DEF NoWorkers, Stopper
    <2>4. ASSUME StopWaits
          PROVE  /\ work'[co.i].Operation = "Stop"
                 /\ \A q \in Cpus \ {co.i} : work'[q].thread = "none"
        <3>1. co.i \in Cpus
            BY <2>4, Zenon DEF VmmInv, IndexInv, StopWaits, Waiting
        <3>2. /\ work[co.i].Operation = "Stop"
              /\ \A q \in Cpus \ {co.i} : work[q].thread = "none"
            BY <2>4, Zenon DEF OrderInv, StopInvCo
        <3> QED BY <1>1, <3>1, <3>2, Zenon DEF Steady
    <2>5. ASSUME co.phase = "stopReserved", co.pc \in WaitPlaces \cup RetryPlaces
          PROVE  cpu'[co.bound].mode = "native"
        BY <2>2, <2>5, Zenon DEF OrderInv, StopInvCo, Waiting, StopPhases
    <2> QED
        BY <1>2, <1>3, <2>3, <2>4, <2>5, Zenon
           DEF OrderInv, StopInvCo, StopWaits, StopEnds, Waiting
<1>13. BlobInv'
    BY <1>2, Zenon DEF OrderInv, BlobInv
<1> QED
    BY <1>1, <1>8, <1>9, <1>10, <1>11, <1>12, <1>13, Zenon DEF OrderInv

-----------------------------------------------------------------------------
(***************************************************************************)
(* The coordinator's steps.  Most change neither a processor nor what a    *)
(* record says of its operation; the others change the records of one     *)
(* processor, or zero all of them under quiet processors.                  *)
(***************************************************************************)

SameJob(q) ==
    /\ work'[q].Operation = work[q].Operation /\ work'[q].thread = work[q].thread
    /\ work'[q].Result = work[q].Result
    /\ dpc'[q].routine = dpc[q].routine /\ dpc'[q].Result = dpc[q].Result

\* No processor moves and no operation, launch or result changes.
Still == UNCHANGED <<vcpu, cpu>> /\ \A q \in Cpus : SameJob(q)

\* What is said of processors alone survives any step that moves none.
LEMMA UnmovedFacts ==
    ASSUME UNCHANGED <<vcpu, cpu>>
    PROVE  /\ \A q : Verified(q)' <=> Verified(q)
           /\ \A q : Terminal(q)' <=> Terminal(q)
           /\ \A q : VerifiedBefore(q)' <=> VerifiedBefore(q)
           /\ AllVerified' <=> AllVerified
<1>1. \A q : Verified(q)' <=> Verified(q)
    BY Zenon DEF Verified, Doomed
<1>2. \A q : Terminal(q)' <=> Terminal(q)
    BY Zenon DEF Terminal
<1> QED BY <1>1, <1>2, Zenon DEF VerifiedBefore, LaunchOrder, AllVerified

\* A step that changes no operation changes nothing that is said of records.
LEMMA StillFacts ==
    ASSUME Still
    PROVE  /\ \A q \in Cpus : RecordInv(q) => RecordInv(q)'
           /\ \A q \in Cpus : Stopper(q)' <=> Stopper(q)
           /\ NoStops' <=> NoStops
           /\ NoRoutines' <=> NoRoutines
           /\ NoWorkers' <=> NoWorkers
BY Zenon DEF Still, SameJob, RecordInv, Terminal, Stopper, NoStops, NoRoutines, NoWorkers

\* Waits cancel, close and drain; none of that touches an operation or a result.
LEMMA StillRecords ==
    ASSUME WorkTypeOK, UNCHANGED <<vcpu, cpu>>, NEW p \in Cpus,
           \/ UNCHANGED workVars
           \/ /\ CloseCompletedTargetWork(p) \/ CancelFrom(p, "Queued") \/ CancelFrom(p, "Entered")
              /\ UNCHANGED dpc
           \/ DrainLaunchDpc(p) /\ UNCHANGED work
    PROVE  Still
<1>1. SUFFICES ASSUME NEW q \in Cpus PROVE SameJob(q)
    BY Zenon DEF Still
<1> USE DEF SameJob, WorkTypeOK
<1>2. CASE UNCHANGED workVars
    BY <1>2, Zenon DEF workVars
<1>3. CASE CloseCompletedTargetWork(p) /\ UNCHANGED dpc
    BY <1>3, Zenon DEF CloseCompletedTargetWork
<1>4. CASE CancelFrom(p, "Queued") /\ UNCHANGED dpc
    BY <1>4, Zenon DEF CancelFrom
<1>5. CASE CancelFrom(p, "Entered") /\ UNCHANGED dpc
    BY <1>5, Zenon DEF CancelFrom
<1>6. CASE DrainLaunchDpc(p) /\ UNCHANGED work
    BY <1>6, Zenon DEF DrainLaunchDpc
<1> QED BY <1>2, <1>3, <1>4, <1>5, <1>6, Zenon

\* The locals that stay with an operation while it is waited for.
SameLocals == /\ SamePhase
              /\ co'.bound = co.bound /\ co'.rollback = co.rollback

\* A wait goes on, or ends with a terminated thread, or gives the thread up.
LEMMA WaitEnds ==
    ASSUME co \in CoType, WorkTypeOK, IndexInv, WaitTargetOperation
    PROVE  /\ co.pc \in WaitPlaces \ {"done"} /\ co'.pc \in WaitPlaces /\ SameLocals
           /\ Still /\ UNCHANGED storageVars
           /\ \/ co'.pc # "done" /\ co'.unresolved = co.unresolved
              \/ /\ co'.pc = "done" /\ co'.unresolved = co.unresolved
                 /\ work[co.i].thread = "none"
                 /\ co'.result => work[co.i].Result
              \/ co'.pc = "done" /\ co'.unresolved /\ ~co'.result
<1>1. co.i \in Cpus
    BY WaitMoves, Zenon DEF IndexInv
<1>2. Still /\ UNCHANGED storageVars
    <2>1. UNCHANGED <<vcpu, cpu>> /\ UNCHANGED storageVars
        BY WaitRecords, Zenon DEF vcpuVars
    <2>2. \/ UNCHANGED workVars
          \/ /\ \/ CloseCompletedTargetWork(co.i) \/ CancelFrom(co.i, "Queued")
                \/ CancelFrom(co.i, "Entered")
             /\ UNCHANGED dpc
        BY Zenon DEF WaitTargetOperation, WaitCompletes, WaitTimesOut,
           WaitCancelQueued, WaitCancelEntered, WaitCheckTerminal,
           WaitGraceCompletes, WaitGraceTimesOut
    <2> QED BY <1>1, <2>1, <2>2, StillRecords, Zenon
<1>3. ASSUME WaitCompletes \/ WaitGraceCompletes
      PROVE  /\ co.pc \in WaitPlaces \ {"done"} /\ SameLocals
             /\ co'.pc = "done" /\ co'.unresolved = co.unresolved
             /\ work[co.i].thread = "none"
             /\ co'.result => work[co.i].Result
    BY <1>3, Zenon DEF WaitCompletes, WaitGraceCompletes, CoAt, CoType, SameLocals, SamePhase,
       CloseCompletedTargetWork, WaitPlaces
<1>4. ASSUME WaitTimesOut \/ WaitCancelQueued \/ WaitCancelEntered
      PROVE  /\ co.pc \in WaitPlaces \ {"done"} /\ SameLocals
             /\ co'.pc \in WaitPlaces \ {"done"} /\ co'.unresolved = co.unresolved
    BY <1>4, Zenon
       DEF WaitTimesOut, WaitCancelQueued, WaitCancelEntered, CoAt, CoGoto, CoType,
       SameLocals, SamePhase, WaitPlaces
<1>5. ASSUME WaitCheckTerminal \/ WaitGraceTimesOut
      PROVE  /\ co.pc \in {"cancelled", "grace"} /\ SameLocals
             /\ \/ co'.pc = "grace" /\ co'.unresolved = co.unresolved
                \/ co'.pc = "done" /\ co'.unresolved /\ ~co'.result
    BY <1>5, Zenon DEF WaitCheckTerminal, WaitGraceTimesOut, CoAt, CoGoto, Unresolved,
       CoType, SameLocals, SamePhase
<1> QED
    BY <1>2, <1>3, <1>4, <1>5, Zenon DEF WaitTargetOperation, WaitPlaces

\* Giving up on a worker, or seeing it end, keeps launches and stops in order.
LEMMA WaitKeepsOrder ==
    ASSUME VmmInv, OrderInv, WaitTargetOperation
    PROVE  OrderInv'
<1>1. co \in CoType /\ WorkTypeOK /\ IndexInv
    BY Zenon DEF VmmInv, VmmTypeOK
<1>2. /\ co.pc \in WaitPlaces \ {"done"} /\ co'.pc \in WaitPlaces /\ SameLocals
      /\ Still /\ UNCHANGED storageVars
      /\ \/ co'.pc # "done" /\ co'.unresolved = co.unresolved
         \/ /\ co'.pc = "done" /\ co'.unresolved = co.unresolved
            /\ work[co.i].thread = "none"
            /\ co'.result => work[co.i].Result
         \/ co'.pc = "done" /\ co'.unresolved /\ ~co'.result
    BY <1>1, WaitEnds, Zenon
<1>3. UNCHANGED <<vcpu, cpu>> /\ \A q \in Cpus : SameJob(q)
    BY <1>2, Zenon DEF Still
<1>4. /\ \A q : Verified(q)' <=> Verified(q)
      /\ \A q : Terminal(q)' <=> Terminal(q)
      /\ \A q : VerifiedBefore(q)' <=> VerifiedBefore(q)
      /\ AllVerified' <=> AllVerified
    BY <1>3, UnmovedFacts, Zenon
<1>5. /\ \A q \in Cpus : RecordInv(q) => RecordInv(q)'
      /\ \A q \in Cpus : Stopper(q)' <=> Stopper(q)
      /\ NoStops' <=> NoStops
      /\ NoRoutines' <=> NoRoutines
      /\ NoWorkers' <=> NoWorkers
    BY <1>2, StillFacts, Zenon
<1>6. co.i \in Cpus /\ RecordInv(co.i)
    BY <1>1, <1>2, Zenon DEF IndexInv, OrderInv
<1> USE <1>1, <1>2, <1>3, <1>4, <1>5 DEF SameLocals, SamePhase, storageVars
<1>7. \A q \in Cpus : RecordInv(q)'
    BY Zenon DEF OrderInv
<1>8. PendingLaunchInv'
    BY SMTT(60) DEF OrderInv, PendingLaunchInv, WaitPlaces, LaunchWaits, SameJob
<1>9. PendingStopInv'
    BY <1>6, Zenon
       DEF OrderInv, PendingStopInv, WaitPlaces, StopWaits, StopEnds, Waiting, Stopper
<1>10. StagedInv'
    BY Zenon DEF OrderInv, StagedInv, WaitPlaces, LaunchWaits, StagePlaces, LaunchSteps, Waiting,
       VerifiedUpTo
<1>11. RunningInv'
    BY Zenon DEF OrderInv, RunningInv, WaitPlaces
<1>12. StopInvCo'
    <2>1. CASE co.phase \notin StopPhases
        BY <2>1, Zenon DEF StopInvCo, StopWaits, StopEnds, Waiting, WaitPlaces, RetryPlaces,
           StopPhases
    <2>2. CASE co.phase \in StopPhases
        <3>1. /\ StopWaits /\ NoRoutines /\ ~co.unresolved
              /\ work[co.i].Operation = "Stop"
              /\ \A q \in Cpus \ {co.i} : work[q].thread = "none"
            BY <2>2, Zenon DEF OrderInv, StopInvCo, StopWaits, Waiting
        <3>2. /\ work'[co.i].Operation = "Stop"
              /\ \A q \in Cpus \ {co.i} : work'[q].thread = "none"
            BY <1>6, <3>1, Zenon DEF SameJob
        <3>3. co'.pc = "done" /\ ~co'.unresolved => NoWorkers'
            BY <1>6, <3>1, <3>2, Zenon DEF NoWorkers, SameJob
        <3>4. co'.pc = "done" =>
                 /\ co'.unresolved => ~co'.result
                 /\ co'.result => cpu'[co.i] = NativeCpu /\ Terminal(co.i)'
            BY <1>6, <3>1, Zenon DEF RecordInv
        <3>5. /\ co.phase = "stop" => co.bound = co.reserved /\ co.i # co.reserved
              /\ co.phase = "stopReserved" =>
                    /\ co.i = co.reserved /\ co.bound \in Cpus \ {co.i}
                    /\ cpu[co.bound].mode = "native"
            BY <3>1, Zenon DEF OrderInv, StopInvCo, StopWaits, Waiting
        <3> QED
            BY <3>1, <3>2, <3>3, <3>4, <3>5, Zenon
               DEF StopInvCo, StopWaits, StopEnds, Waiting, WaitPlaces, RetryPlaces
    <2> QED BY <2>1, <2>2, Zenon
<1>13. BlobInv'
    BY Zenon DEF OrderInv, BlobInv, WaitPlaces
<1> QED
    BY <1>7, <1>8, <1>9, <1>10, <1>11, <1>12, <1>13, Zenon DEF OrderInv

\* What a step that changes no operation leaves true.
StillAll ==
    /\ UNCHANGED <<vcpu, cpu>>
    /\ \A q \in Cpus : SameJob(q) /\ RecordInv(q)'
    /\ \A q : Verified(q)' <=> Verified(q)
    /\ \A q : Terminal(q)' <=> Terminal(q)
    /\ \A q : VerifiedBefore(q)' <=> VerifiedBefore(q)
    /\ \A q \in Cpus : Stopper(q)' <=> Stopper(q)
    /\ AllVerified' <=> AllVerified
    /\ NoStops' <=> NoStops
    /\ NoRoutines' <=> NoRoutines
    /\ NoWorkers' <=> NoWorkers

\* The facts above, together.
LEMMA StillKeeps ==
    ASSUME OrderInv, Still
    PROVE  StillAll
<1>1. UNCHANGED <<vcpu, cpu>> /\ \A q \in Cpus : SameJob(q)
    BY Zenon DEF Still
<1>2. \A q \in Cpus : RecordInv(q)
    BY Zenon DEF OrderInv
<1> QED BY <1>1, <1>2, UnmovedFacts, StillFacts, Zenon DEF StillAll

\* A step that leaves the work records alone changes no operation.
LEMMA LeavesStill ==
    ASSUME OrderInv, UNCHANGED <<vcpuVars, workVars>>
    PROVE  StillAll
<1>1. Still
    BY Zenon DEF Still, SameJob, vcpuVars, workVars
<1> QED BY <1>1, StillKeeps, Zenon

\* A step that moves neither a processor nor the coordinator keeps the order.
LEMMA SameCoInOrder ==
    ASSUME IndexInv, OrderInv, StillAll, UNCHANGED <<storageVars, co>>
    PROVE  OrderInv'
<1> USE DEF StillAll, storageVars
<1>1. PendingLaunchInv'
    BY Zenon DEF OrderInv, PendingLaunchInv, SameJob
<1>2. PendingStopInv'
    BY Zenon DEF OrderInv, PendingStopInv, StopWaits, StopEnds, Waiting
<1>3. StagedInv'
    BY DEF OrderInv, StagedInv, Waiting, VerifiedUpTo, LaunchWaits, SameJob, StagePlaces,
       IndexInv
<1>4. RunningInv' /\ BlobInv'
    BY Zenon DEF OrderInv, RunningInv, BlobInv
<1>5. StopInvCo'
    BY DEF OrderInv, StopInvCo, StopWaits, StopEnds, Waiting, SameJob, IndexInv
<1> QED BY <1>1, <1>2, <1>3, <1>4, <1>5, Zenon DEF OrderInv

\* What the order proofs take from VmmInv: a quarantined driver is resident or
\* returning, and missing storage means that nothing is pending.
LEMMA CalmFacts ==
    ASSUME VmmInv
    PROVE  /\ co \in CoType /\ WorkTypeOK /\ IndexInv
           /\ lifecycle = "Quarantined" => co.pc \in {"resident", "stopReturn"}
           /\ ~vcpuData \/ ~workData \/ co.pc = "reclaim" => NoWorkers /\ NoRoutines
           /\ co.pc \in OutsideSteps => ~vcpuData
           /\ NoWorkers => \A q \in Cpus : ~Stopper(q)
           /\ NoStops => \A q \in Cpus : ~Stopper(q)
           /\ NoRoutines => \A q \in Cpus : dpc[q].routine = "none"
<1>1. co \in CoType /\ WorkTypeOK /\ IndexInv
    BY Zenon DEF VmmInv, VmmTypeOK
<1>2. /\ lifecycle = "Quarantined" => co.pc \in {"resident", "stopReturn"}
      /\ co.pc \in OutsideSteps => ~vcpuData
    BY Zenon DEF VmmInv, StorageInv, IsHypervisorQuarantined
<1>3. ~vcpuData \/ ~workData \/ co.pc = "reclaim" => NoWorkers /\ NoRoutines
    BY Zenon DEF VmmInv, QuietInv, Quiet, NoWorkers, NoRoutines
<1>4. /\ NoWorkers => \A q \in Cpus : ~Stopper(q)
      /\ NoStops => \A q \in Cpus : ~Stopper(q)
      /\ NoRoutines => \A q \in Cpus : dpc[q].routine = "none"
    BY Zenon DEF NoWorkers, NoStops, NoRoutines, Stopper
<1> QED BY <1>1, <1>2, <1>3, <1>4, Zenon

\* Where nothing can be pending, nothing is pending after a step that changes no
\* operation; what is still pending under quarantine stays as it is.
LEMMA PendingStays ==
    ASSUME VmmInv, OrderInv, StillAll
    PROVE  /\ co.pc \notin {"loaded", "stopClaim"} => lifecycle # "Running"
           /\ co.pc \notin LaunchWaits \cup {"launchCheck", "resident", "stopReturn"} =>
                 PendingLaunchInv' /\ NoRoutines'
           /\ NoRoutines => PendingLaunchInv' /\ NoRoutines'
           /\ \/ NoWorkers
              \/ co.pc \in LaunchSteps \cup {"loaded", "stopClaim", "stopCheck", "stopBind"}
              \/ Waiting({"probe", "staged", "final"})
              => PendingStopInv'
           /\ \/ co.pc \in LaunchSteps \cup {"loaded", "stopClaim", "stopCheck", "stopBind"}
              \/ Waiting({"probe", "staged", "final"})
              => NoStops'
           /\ NoWorkers => NoWorkers'
           /\ lifecycle' = "Quarantined" => PendingLaunchInv' /\ PendingStopInv'
<1>1. co.pc \notin {"loaded", "stopClaim"} => lifecycle # "Running"
    BY Zenon DEF OrderInv, RunningInv
<1>2. ASSUME \A q \in Cpus : dpc[q].routine = "none"
      PROVE  PendingLaunchInv' /\ NoRoutines'
    <2>1. \A q \in Cpus : dpc'[q].routine = "none"
        BY <1>2, Zenon DEF StillAll, SameJob
    <2> QED BY <2>1, Zenon DEF PendingLaunchInv, NoRoutines
<1>3. ASSUME \A q \in Cpus : ~Stopper(q)
      PROVE  PendingStopInv'
    <2>1. \A q \in Cpus : ~Stopper(q)'
        BY <1>3, Zenon DEF StillAll
    <2> QED BY <2>1, Zenon DEF PendingStopInv
<1>4. co.pc \notin LaunchWaits \cup {"launchCheck", "resident", "stopReturn"} =>
          \A q \in Cpus : dpc[q].routine = "none"
    BY CalmFacts, Zenon DEF OrderInv, PendingLaunchInv
<1>5. \/ co.pc \in LaunchSteps \cup {"loaded", "stopClaim", "stopCheck", "stopBind"}
      \/ Waiting({"probe", "staged", "final"})
      => NoStops
    BY Zenon DEF OrderInv, StagedInv
<1>6. (NoWorkers => NoWorkers') /\ (NoStops => NoStops')
    BY Zenon DEF StillAll
<1>7. ASSUME lifecycle' = "Quarantined"
      PROVE  PendingLaunchInv' /\ PendingStopInv'
    <2>1. PendingLaunchInv'
        BY <1>7, Zenon DEF OrderInv, PendingLaunchInv, StillAll, SameJob
    <2>2. PendingStopInv'
        BY <1>7, Zenon DEF OrderInv, PendingStopInv, StillAll
    <2> QED BY <2>1, <2>2, Zenon
<1> QED BY <1>1, <1>2, <1>3, <1>4, <1>5, <1>6, <1>7, CalmFacts, Zenon

\* The places at which the staged launch and the stop have something to show.
StagedAt == LaunchSteps \cup {"loaded", "stopClaim", "stopCheck", "stopBind"}
StoppingAt == {"loaded", "stopClaim", "stopCheck", "stopBind", "stopNext", "stopReserved",
               "finalCheck"} \cup RetryPlaces

\* What the coordinator's next place asks of the staged launch and of the stop.
LEMMA NextPlace ==
    /\ co'.pc \notin StagedAt \cup WaitPlaces => StagedInv'
    /\ co'.pc \in WaitPlaces /\ co'.phase \in StopPhases => StagedInv'
    /\ co'.pc \in {"loaded", "stopClaim", "stopCheck", "stopBind"} /\ NoStops' => StagedInv'
    /\ co'.pc \notin StoppingAt \cup WaitPlaces => StopInvCo'
    /\ co'.pc \in WaitPlaces /\ co'.phase \notin StopPhases => StopInvCo'
    /\ co'.pc \in {"loaded", "stopClaim", "stopCheck"} /\ ~co'.unresolved => StopInvCo'
    /\ co'.pc \in {"stopBind", "stopNext"} /\ ~co'.unresolved /\ NoWorkers' /\ NoRoutines'
          /\ (co'.pc = "stopNext" => co'.bound = co'.reserved) => StopInvCo'
    /\ /\ co'.pc \in {"stopReserved", "finalCheck"} /\ NoRoutines'
       /\ co'.pc = "stopReserved" /\ ~co'.unresolved => NoWorkers'
       => StopInvCo'
<1> USE DEF StagedAt, StoppingAt, StagePlaces, LaunchSteps, LaunchWaits, WaitPlaces, RetryPlaces,
            StopPhases
<1>1. co'.pc \notin StagedAt \cup WaitPlaces => StagedInv'
    BY Zenon DEF StagedInv, Waiting
<1>2. co'.pc \in WaitPlaces /\ co'.phase \in StopPhases => StagedInv'
    BY Zenon DEF StagedInv, Waiting
<1>3. co'.pc \in {"loaded", "stopClaim", "stopCheck", "stopBind"} /\ NoStops' => StagedInv'
    BY Zenon DEF StagedInv, Waiting
<1>4. co'.pc \notin StoppingAt \cup WaitPlaces => StopInvCo'
    BY Zenon DEF StopInvCo, StopWaits, StopEnds, Waiting
<1>5. co'.pc \in WaitPlaces /\ co'.phase \notin StopPhases => StopInvCo'
    BY Zenon DEF StopInvCo, StopWaits, StopEnds, Waiting
<1>6. co'.pc \in {"loaded", "stopClaim", "stopCheck"} /\ ~co'.unresolved => StopInvCo'
    BY Zenon DEF StopInvCo, StopWaits, StopEnds, Waiting
<1>7. /\ co'.pc \in {"stopBind", "stopNext"} /\ ~co'.unresolved /\ NoWorkers' /\ NoRoutines'
      /\ co'.pc = "stopNext" => co'.bound = co'.reserved
      => StopInvCo'
    BY Zenon DEF StopInvCo, StopWaits, StopEnds, Waiting
<1>8. /\ co'.pc \in {"stopReserved", "finalCheck"} /\ NoRoutines'
      /\ co'.pc = "stopReserved" /\ ~co'.unresolved => NoWorkers'
      => StopInvCo'
    BY Zenon DEF StopInvCo, StopWaits, StopEnds, Waiting
<1> QED BY <1>1, <1>2, <1>3, <1>4, <1>5, <1>6, <1>7, <1>8, Zenon

\* The thread runs on CPU 0 to launch the others, and on another one to launch CPU 0.
OffStage == IF co.i = 0 THEN co.bound \in Cpus \ {0} ELSE co.bound = 0

\* What the places of the staged launch ask, one by one.
LEMMA NextStage ==
    ASSUME NoStops'
    PROVE  /\ /\ \/ co'.pc \in {"queueProbe", "waitProbe"} /\ co'.phase = "none"
                 \/ co'.pc \in WaitPlaces /\ co'.phase = "probe"
              /\ co'.bound = 0
              => StagedInv'
           /\ /\ co'.pc \in StagePlaces /\ co'.phase \in {"none", "staged"}
              /\ VerifiedBefore(co.i)' /\ OffStage'
              /\ co'.pc \in LaunchWaits => (dpc[co.i].Result => Verified(co.i))'
              /\ co'.pc = "launchCheck" /\ co'.result => Verified(co.i)'
              => StagedInv'
           /\ /\ \/ co'.pc = "canary" /\ co'.phase \in {"none", "staged"}
                 \/ co'.pc \in WaitPlaces /\ co'.phase = "staged"
              /\ VerifiedUpTo(co.i)' /\ OffStage'
              => StagedInv'
           /\ co'.pc = "handoff" /\ co'.phase \in {"none", "staged"} /\ VerifiedBefore(0)'
              => StagedInv'
           /\ /\ \/ co'.pc \in WaitPlaces \cup {"canary"} /\ co'.phase = "final"
                 \/ co'.pc \in {"verify", "publish"}
              /\ AllVerified'
              => StagedInv'
<1> USE DEF StagePlaces, LaunchWaits, WaitPlaces
<1>1. /\ \/ co'.pc \in {"queueProbe", "waitProbe"} /\ co'.phase = "none"
         \/ co'.pc \in WaitPlaces /\ co'.phase = "probe"
      /\ co'.bound = 0
      => StagedInv'
    BY Zenon DEF StagedInv, Waiting
<1>2. /\ co'.pc \in StagePlaces /\ co'.phase \in {"none", "staged"}
      /\ VerifiedBefore(co.i)' /\ OffStage'
      /\ co'.pc \in LaunchWaits => (dpc[co.i].Result => Verified(co.i))'
      /\ co'.pc = "launchCheck" /\ co'.result => Verified(co.i)'
      => StagedInv'
    BY Zenon DEF StagedInv, Waiting, OffStage
<1>3. /\ \/ co'.pc = "canary" /\ co'.phase \in {"none", "staged"}
         \/ co'.pc \in WaitPlaces /\ co'.phase = "staged"
      /\ VerifiedUpTo(co.i)' /\ OffStage'
      => StagedInv'
    BY Zenon DEF StagedInv, Waiting, OffStage
<1>4. co'.pc = "handoff" /\ co'.phase \in {"none", "staged"} /\ VerifiedBefore(0)' => StagedInv'
    BY Zenon DEF StagedInv, Waiting
<1>5. /\ \/ co'.pc \in WaitPlaces \cup {"canary"} /\ co'.phase = "final"
         \/ co'.pc \in {"verify", "publish"}
      /\ AllVerified'
      => StagedInv'
    BY Zenon DEF StagedInv, Waiting
<1> QED BY <1>1, <1>2, <1>3, <1>4, <1>5, Zenon

\* A step that publishes no Running and keeps contexts and blob keeps the order when
\* it keeps its four remaining parts.
LEMMA Arrived ==
    ASSUME OrderInv, \A q \in Cpus : RecordInv(q)', lifecycle' # "Running",
           UNCHANGED <<vcpuData, dump>>, co'.pc \notin {"allocate", "unloaded"},
           PendingLaunchInv', PendingStopInv', StagedInv', StopInvCo'
    PROVE  OrderInv'
<1>1. RunningInv' /\ BlobInv'
    BY Zenon DEF OrderInv, RunningInv, BlobInv
<1> QED BY <1>1, Zenon DEF OrderInv

\* A terminal processor with no worker and no launch pending is native: the
\* argument of StopTargetProcessorWithRetries for a processor that is not live.
LEMMA TerminalIsNative ==
    ASSUME VmmInv, NEW p \in Cpus, Terminal(p),
           work[p].thread = "none", dpc[p].routine = "none"
    PROVE  cpu[p] = NativeCpu
<1>1. /\ cpu[p].pc \notin LaunchPlaces \cup StopPlaces \cup {"unload", "restore"}
      /\ cpu[p].path \notin {"rollback", "restore"}
    BY Zenon DEF VmmInv, WorkInv
<1>2. /\ CpuInv(vcpu[p], cpu[p])
      /\ cpu[p] \in [mode : {"native", "root", "guest"}, pc : Places, path : Paths]
    BY Zenon DEF VmmInv, VcpuInv, VcpuTypeOK
<1>3. cpu[p].pc = "idle"
    BY <1>1, <1>2, Zenon
       DEF Terminal, CpuInv, ReleaseInv, Places, ReleasePlaces, ExitPlaces, EndPlaces
<1>4. cpu[p].path = "none"
    BY <1>1, <1>2, <1>3, Zenon DEF CpuInv, PathInv, Paths, ReleasePlaces, EndPlaces
<1>5. cpu[p].mode = "native"
    BY PlaceFacts, Zenon DEF VmmInv, Terminal
<1> QED BY <1>2, <1>3, <1>4, <1>5, Zenon DEF NativeCpu

\* The locals of a stop that is under way.
SameRun == /\ co'.i = co.i /\ co'.phase = co.phase /\ co'.unresolved = co.unresolved
           /\ co'.reserved = co.reserved /\ co'.rollback = co.rollback

\* A stop claims, checks and binds before it touches a processor: it begins with no
\* worker and no launch pending, on the processor it reserves.
LEMMA StopBeginsInOrder ==
    ASSUME VmmInv, OrderInv, StopClaim \/ StopCheck \/ StopBind \/ DriverUnload
    PROVE  OrderInv'
<1>1. co \in CoType
    BY CalmFacts, Zenon
<1>2. StillAll
    BY LeavesStill, Zenon DEF StopClaim, StopCheck, StopBind, DriverUnload
<1>3. ASSUME DriverUnload
      PROVE  /\ co.pc = "loaded" /\ co'.pc = "stopClaim" /\ SameRun
             /\ UNCHANGED storageVars
    BY <1>1, <1>3, Zenon DEF DriverUnload, CoAt, CoGoto, CoType, SameRun
<1>4. ASSUME StopClaim
      PROVE  /\ co.pc = "stopClaim" /\ SameRun
             /\ \/ /\ lifecycle' = "Stopping" /\ co'.pc = "stopCheck"
                \/ /\ lifecycle' = lifecycle /\ co'.pc = "stopReturn"
                   /\ lifecycle = "Running" => co.rollback
             /\ UNCHANGED <<vcpuData, dump>>
    BY <1>1, <1>4, Zenon DEF StopClaim, CoAt, CoGoto, CoType, SameRun, StopOwner
<1>5. ASSUME StopCheck
      PROVE  /\ co.pc = "stopCheck" /\ UNCHANGED <<vcpuData, dump>>
             /\ \/ lifecycle' = "Quarantined" /\ co'.pc = "stopReturn"
                \/ /\ ~MustQuarantine /\ co'.pc = "stopBind" /\ SameRun
                   /\ lifecycle' = lifecycle
    BY <1>1, <1>5, Zenon DEF StopCheck, CoAt, CoGoto, CoType, SameRun, StopLeave, CoInit,
       Quarantine, storageVars
<1>6. ASSUME StopBind
      PROVE  /\ co.pc = "stopBind" /\ UNCHANGED storageVars
             /\ co'.unresolved = co.unresolved
             /\ \/ co'.pc = "stopNext" /\ co'.bound = co'.reserved
                \/ co'.pc = "finalCheck"
    <2>1. CASE co.bound \in Cpus
        BY <1>1, <1>6, <2>1, ZenonT(60) DEF StopBind, CoAt, CoType
    <2>2. CASE co.bound \notin Cpus
        BY <1>1, <1>6, <2>2, ZenonT(60) DEF StopBind, CoAt, CoType
    <2> QED BY <2>1, <2>2, Zenon
<1>7. ASSUME ~MustQuarantine
      PROVE  NoWorkers /\ NoRoutines
    <2>1. CASE workData
        BY <1>7, <2>1, Zenon DEF MustQuarantine, HasUnresolvedTargetWork, VmmInv, WorkInv,
           NoWorkers, NoRoutines
    <2>2. CASE ~workData
        BY <2>2, CalmFacts, Zenon
    <2> QED BY <2>1, <2>2, Zenon
<1>8. \A q \in Cpus : RecordInv(q)'
    BY <1>2, Zenon DEF StillAll
<1>9. CASE DriverUnload
    <2>1. NoStops' /\ PendingLaunchInv' /\ PendingStopInv'
        BY <1>2, <1>3, <1>9, PendingStays, Zenon DEF LaunchWaits
    <2>2. ~co.unresolved
        BY <1>3, <1>9, Zenon DEF OrderInv, StopInvCo
    <2>3. StagedInv' /\ StopInvCo'
        BY <1>3, <1>9, <2>1, <2>2, NextPlace, Zenon DEF SameRun
    <2>4. RunningInv' /\ BlobInv'
        BY <1>2, <1>3, <1>9, SMTT(60)
           DEF OrderInv, RunningInv, BlobInv, SameRun, storageVars, StillAll
    <2> QED BY <1>8, <2>1, <2>3, <2>4, Zenon DEF OrderInv
<1>10. CASE StopClaim
    <2>1. NoStops' /\ PendingLaunchInv' /\ PendingStopInv'
        BY <1>2, <1>4, <1>10, PendingStays, Zenon DEF LaunchWaits
    <2>2. ~co.unresolved
        BY <1>4, <1>10, Zenon DEF OrderInv, StopInvCo
    <2>3. StagedInv' /\ StopInvCo'
        BY <1>4, <1>10, <2>1, <2>2, NextPlace, Zenon
           DEF SameRun, StagedAt, StoppingAt, WaitPlaces, RetryPlaces, LaunchSteps
    <2>4. lifecycle' # "Running"
        BY <1>4, <1>10, Zenon DEF OrderInv, RunningInv
    <2> QED BY <1>4, <1>8, <1>10, <2>1, <2>3, <2>4, Arrived, Zenon
<1>11. CASE StopCheck
    <2>1. NoStops' /\ PendingLaunchInv' /\ PendingStopInv' /\ lifecycle # "Running"
        BY <1>2, <1>5, <1>11, PendingStays, Zenon DEF LaunchWaits
    <2>2. ~co.unresolved
        BY <1>5, <1>11, Zenon DEF OrderInv, StopInvCo
    <2>3. ~MustQuarantine => NoWorkers' /\ NoRoutines'
        BY <1>2, <1>7, PendingStays, Zenon
    <2>4. StagedInv' /\ StopInvCo'
        BY <1>5, <1>11, <2>1, <2>2, <2>3, NextPlace, Zenon
           DEF SameRun, StagedAt, StoppingAt, WaitPlaces, RetryPlaces, LaunchSteps
    <2> QED BY <1>5, <1>8, <1>11, <2>1, <2>4, Arrived, Zenon
<1>12. CASE StopBind
    <2>1. /\ PendingLaunchInv' /\ NoRoutines' /\ PendingStopInv' /\ lifecycle # "Running"
          /\ NoWorkers => NoWorkers'
        BY <1>2, <1>6, <1>12, PendingStays, Zenon DEF LaunchWaits
    <2>2. ~co.unresolved /\ NoWorkers
        BY <1>6, <1>12, Zenon DEF OrderInv, StopInvCo
    <2>3. StagedInv' /\ StopInvCo'
        BY <1>6, <1>12, <2>1, <2>2, NextPlace, Zenon DEF StagedAt, WaitPlaces, LaunchSteps
    <2> QED BY <1>6, <1>8, <1>12, <2>1, <2>3, Arrived, Zenon DEF storageVars
<1> QED BY <1>9, <1>10, <1>11, <1>12, Zenon

\* The stop goes from processor to processor, ends one that is not live without a
\* worker, and stops the reserved processor from a native one.
LEMMA StopGoesInOrder ==
    ASSUME VmmInv, OrderInv, StopNext \/ StopRetryCheck \/ StopDone \/ StopReserved
    PROVE  OrderInv'
<1>1. co \in CoType
    BY CalmFacts, Zenon
<1>2. StillAll /\ UNCHANGED storageVars
    BY LeavesStill, Zenon DEF StopNext, StopRetryCheck, StopDone, StopReserved
<1>3. ASSUME StopNext
      PROVE  /\ co.pc = "stopNext"
             /\ co'.unresolved = co.unresolved /\ co'.reserved = co.reserved
             /\ \/ co'.pc = "stopReserved"
                \/ co'.pc = "stopNext" /\ co'.bound = co.bound
                \/ /\ co'.pc = "retry" /\ co'.phase = "stop" /\ co'.i # co.reserved
                   /\ co'.bound = co.bound
    BY <1>1, <1>3, Zenon DEF StopNext, CoAt, CoType
<1>4. ASSUME StopRetryCheck
      PROVE  /\ co.pc = "retryCheck" /\ SameRun /\ co'.bound = co.bound
             /\ \/ co'.pc = "retry"
                \/ co'.pc = "stopDone" /\ ~co'.result
    BY <1>1, <1>4, Zenon DEF StopRetryCheck, CoAt, CoType, SameRun
<1>5. ASSUME StopDone
      PROVE  /\ co.pc = "stopDone"
             /\ co'.unresolved = co.unresolved /\ co'.reserved = co.reserved
             /\ \/ co'.pc = "finalCheck"
                \/ /\ co'.pc = "stopNext" /\ co.phase = "stop" /\ co.result
                   /\ co'.bound = co.bound
                \/ co'.pc = "stopReserved"
    BY <1>1, <1>5, Zenon DEF StopDone, CoAt, CoType
<1>6. ASSUME StopReserved
      PROVE  /\ co.pc = "stopReserved" /\ co'.unresolved = co.unresolved
             /\ co'.reserved = co.reserved
             /\ \/ co'.pc = "finalCheck"
                \/ /\ co'.pc = "retry" /\ co'.phase = "stopReserved" /\ ~co.unresolved
                   /\ co'.i = co.reserved /\ co'.bound \in Cpus \ {co.reserved}
                   /\ Terminal(co'.bound)
    <2>1. CASE CoGoto("finalCheck") \/ co' = [co EXCEPT !.pc = "finalCheck", !.ok = FALSE]
        BY <1>1, <1>6, <2>1, Zenon DEF StopReserved, CoAt, CoGoto, CoType
    <2>2. ASSUME NEW p \in Cpus, NativeCandidate(p), ~co.unresolved,
                 co' = [co EXCEPT !.pc = "retry", !.phase = "stopReserved",
                                  !.i = co.reserved, !.attempt = 1, !.bound = p]
          PROVE  /\ co'.pc = "retry" /\ co'.phase = "stopReserved" /\ ~co.unresolved
                 /\ co'.i = co.reserved /\ co'.bound \in Cpus \ {co.reserved}
                 /\ Terminal(co'.bound) /\ co'.unresolved = co.unresolved
                 /\ co'.reserved = co.reserved
        <3>1. /\ co'.pc = "retry" /\ co'.phase = "stopReserved" /\ co'.i = co.reserved
              /\ co'.bound = p /\ co'.unresolved = co.unresolved
              /\ co'.reserved = co.reserved
            BY <1>1, <2>2, Zenon DEF CoType
        <3> QED BY <2>2, <3>1, Zenon DEF NativeCandidate
    <2> QED BY <1>6, <2>1, <2>2, Zenon DEF StopReserved, CoAt
<1>7. \A q \in Cpus : Terminal(q) => cpu[q].mode = "native"
    BY PlaceFacts, Zenon DEF VmmInv, Terminal
<1>8. \A q \in Cpus : RecordInv(q)'
    BY <1>2, Zenon DEF StillAll
<1>9. CASE StopNext
    <2>1. /\ PendingLaunchInv' /\ NoRoutines' /\ lifecycle # "Running"
          /\ NoWorkers => NoWorkers' /\ PendingStopInv'
        BY <1>2, <1>3, <1>9, PendingStays, Zenon DEF LaunchWaits
    <2>2. ~co.unresolved /\ NoWorkers /\ co.bound = co.reserved
        BY <1>3, <1>9, Zenon DEF OrderInv, StopInvCo
    <2>3. StagedInv'
        BY <1>3, <1>9, NextPlace, Zenon DEF StagedAt, WaitPlaces, LaunchSteps
    <2>4. co'.pc = "retry" => StopInvCo'
        BY <1>3, <1>9, <2>1, <2>2, Zenon
           DEF StopInvCo, StopWaits, StopEnds, Waiting, WaitPlaces, RetryPlaces
    <2>5. StopInvCo'
        BY <1>3, <1>9, <2>1, <2>2, <2>4, NextPlace, Zenon
    <2> QED BY <1>2, <1>3, <1>8, <1>9, <2>1, <2>2, <2>3, <2>5, Arrived, Zenon DEF storageVars
<1>10. CASE StopRetryCheck
    <2>1. /\ PendingLaunchInv' /\ NoRoutines' /\ lifecycle # "Running"
          /\ NoWorkers => NoWorkers' /\ PendingStopInv'
        BY <1>2, <1>4, <1>10, PendingStays, Zenon DEF LaunchWaits
    <2>2. ~co.unresolved /\ NoWorkers
        BY <1>4, <1>10, Zenon DEF OrderInv, StopInvCo
    <2>3. StagedInv'
        BY <1>4, <1>10, NextPlace, Zenon DEF StagedAt, WaitPlaces, LaunchSteps
    <2>4. StopInvCo'
        BY <1>2, <1>4, <1>10, <2>1, <2>2, ZenonT(60)
           DEF OrderInv, StopInvCo, StopWaits, StopEnds, Waiting, WaitPlaces, RetryPlaces,
               SameRun, StillAll
    <2> QED BY <1>2, <1>4, <1>8, <1>10, <2>1, <2>2, <2>3, <2>4, Arrived, Zenon DEF storageVars
<1>11. CASE StopDone
    <2>1. PendingLaunchInv' /\ NoRoutines' /\ lifecycle # "Running"
        BY <1>2, <1>5, <1>11, PendingStays, Zenon DEF LaunchWaits
    <2>2. /\ ~co.unresolved => NoWorkers
          /\ co.unresolved => ~co.result
          /\ co.phase = "stop" => co.bound = co.reserved
        BY <1>5, <1>11, Zenon DEF OrderInv, StopInvCo, RetryPlaces
    <2>3. ~co.unresolved => NoWorkers'
        BY <1>2, <2>2, PendingStays, Zenon
    <2>4. PendingStopInv'
        BY <1>2, <1>5, <1>11, <2>2, CalmFacts, Zenon
           DEF OrderInv, PendingStopInv, StillAll
    <2>5. StagedInv' /\ StopInvCo'
        BY <1>5, <1>11, <2>1, <2>2, <2>3, NextPlace, Zenon
           DEF StagedAt, WaitPlaces, LaunchSteps
    <2> QED BY <1>2, <1>5, <1>8, <1>11, <2>1, <2>4, <2>5, Arrived, Zenon DEF storageVars
<1>12. CASE StopReserved
    <2>1. PendingLaunchInv' /\ NoRoutines' /\ lifecycle # "Running"
        BY <1>2, <1>6, <1>12, PendingStays, Zenon DEF LaunchWaits
    <2>2. ~co.unresolved => NoWorkers
        BY <1>6, <1>12, Zenon DEF OrderInv, StopInvCo
    <2>3. ~co.unresolved => NoWorkers'
        BY <1>2, <2>2, PendingStays, Zenon
    <2>4. PendingStopInv'
        BY <1>2, <1>6, <1>12, <2>2, CalmFacts, Zenon
           DEF OrderInv, PendingStopInv, StillAll
    <2>5. StagedInv'
        BY <1>6, <1>12, NextPlace, Zenon DEF StagedAt, WaitPlaces, LaunchSteps
    <2>6. co'.pc = "retry" => StopInvCo'
        <3>1. co'.pc = "retry" => cpu'[co'.bound].mode = "native"
            BY <1>2, <1>6, <1>7, <1>12, Zenon DEF StillAll
        <3> QED
            BY <1>6, <1>12, <2>1, <2>3, <3>1, Zenon
               DEF StopInvCo, StopWaits, StopEnds, Waiting, WaitPlaces, RetryPlaces
    <2>7. StopInvCo'
        BY <1>6, <1>12, <2>1, <2>6, NextPlace, Zenon
    <2> QED BY <1>2, <1>6, <1>8, <1>12, <2>1, <2>4, <2>5, <2>7, Arrived, Zenon DEF storageVars
<1> QED BY <1>9, <1>10, <1>11, <1>12, Zenon

\* A finished attempt and the final check: what is reclaimed is quiet, everything
\* else is quarantined with whatever is still pending.
LEMMA StopEndsInOrder ==
    ASSUME VmmInv, OrderInv, StopAttemptDone \/ FinalCheck \/ SetIdle
    PROVE  OrderInv'
<1>1. co \in CoType
    BY CalmFacts, Zenon
<1>2. StillAll
    BY LeavesStill, Zenon DEF StopAttemptDone, FinalCheck, SetIdle
<1>3. ASSUME StopAttemptDone
      PROVE  /\ co.pc = "done" /\ co.phase \in StopPhases /\ SameRun
             /\ co'.bound = co.bound /\ co'.result = co.result
             /\ \/ co'.pc = "stopDone"
                \/ co'.pc = "retryCheck" /\ ~co.unresolved
             /\ UNCHANGED storageVars
    BY <1>1, <1>3, Zenon DEF StopAttemptDone, CoAt, CoGoto, CoType, SameRun, StopPhases
<1>4. ASSUME FinalCheck
      PROVE  /\ co.pc = "finalCheck" /\ UNCHANGED <<vcpuData, dump>>
             /\ \/ lifecycle' = "Quarantined" /\ co'.pc = "stopReturn"
                \/ ~NotReclaimable /\ co'.pc = "reclaim" /\ UNCHANGED lifecycle
    BY <1>1, <1>4, Zenon DEF FinalCheck, CoAt, StopLeave, CoInit, Quarantine, storageVars
<1>5. ASSUME SetIdle
      PROVE  /\ co.pc = "setIdle" /\ co'.pc = "stopReturn" /\ lifecycle' = "Idle"
             /\ UNCHANGED vcpuData
    BY <1>1, <1>5, Zenon DEF SetIdle, CoAt, CoGoto, CoType
<1>6. ASSUME ~NotReclaimable
      PROVE  NoWorkers
    BY <1>6, ReclaimableIsQuiet, Zenon DEF Quiet, NoWorkers
<1>7. \A q \in Cpus : RecordInv(q)'
    BY <1>2, Zenon DEF StillAll
<1>8. CASE StopAttemptDone
    <2>1. PendingLaunchInv' /\ NoRoutines' /\ lifecycle # "Running"
        BY <1>2, <1>3, <1>8, PendingStays, Zenon DEF LaunchWaits
    <2>2. PendingStopInv'
        BY <1>2, <1>3, <1>8, CalmFacts, ZenonT(60)
           DEF OrderInv, PendingStopInv, StillAll, StopWaits, StopEnds, Waiting, WaitPlaces,
               SameRun, storageVars, StopInvCo, StopPhases
    <2>3. StagedInv'
        BY <1>3, <1>8, NextPlace, Zenon DEF StagedAt, WaitPlaces, LaunchSteps
    <2>4. StopInvCo'
        BY <1>2, <1>3, <1>8, <2>1, ZenonT(60)
           DEF OrderInv, StopInvCo, StopWaits, StopEnds, Waiting, WaitPlaces, RetryPlaces,
               SameRun, StillAll
    <2> QED BY <1>3, <1>7, <1>8, <2>1, <2>2, <2>3, <2>4, Arrived, Zenon DEF storageVars
<1>9. CASE FinalCheck
    <2>1. lifecycle # "Running" /\ PendingLaunchInv'
        BY <1>2, <1>4, <1>9, PendingStays, Zenon DEF LaunchWaits
    <2>2. PendingStopInv'
        BY <1>2, <1>4, <1>6, <1>9, PendingStays, Zenon
    <2>3. StagedInv' /\ StopInvCo'
        BY <1>4, <1>9, NextPlace, Zenon
           DEF StagedAt, StoppingAt, WaitPlaces, RetryPlaces, LaunchSteps
    <2> QED BY <1>4, <1>7, <1>9, <2>1, <2>2, <2>3, Arrived, Zenon
<1>10. CASE SetIdle
    <2>1. ~vcpuData /\ NoWorkers
        BY <1>5, <1>10, CalmFacts, Zenon DEF OutsideSteps
    <2>2. PendingLaunchInv' /\ PendingStopInv'
        BY <1>2, <1>5, <1>10, <2>1, PendingStays, Zenon DEF LaunchWaits
    <2>3. StagedInv' /\ StopInvCo'
        BY <1>5, <1>10, NextPlace, Zenon
           DEF StagedAt, StoppingAt, WaitPlaces, RetryPlaces, LaunchSteps
    <2>4. RunningInv' /\ BlobInv'
        BY <1>5, <1>10, <2>1, SMTT(60) DEF RunningInv, BlobInv
    <2> QED BY <1>7, <2>2, <2>3, <2>4, Zenon DEF OrderInv
<1> QED BY <1>8, <1>9, <1>10, Zenon

\* The driver is left unmapped with nothing pending and without its crash blob, or
\* resident and quarantined, or it bugchecks as it is.
LEMMA LeaveInOrder ==
    ASSUME VmmInv, OrderInv, EntryFailed \/ UnloadReturn
    PROVE  OrderInv'
<1>1. co \in CoType
    BY CalmFacts, Zenon
<1>2. UNCHANGED <<vcpu, cpu, work, dpc>>
    BY <1>1, LeaveMoves, Zenon DEF vcpuVars, workVars
<1>3. StillAll
    BY <1>2, StillKeeps, Zenon DEF Still, SameJob
<1>4. UnregisterAndUnmap /\ lifecycle = "Idle" =>
         \/ dump' = NoDump
         \/ UNCHANGED <<storageVars, co>>
    <2> SUFFICES ASSUME UnregisterAndUnmap, lifecycle = "Idle"
                 PROVE  dump' = NoDump \/ UNCHANGED <<storageVars, co>>
        BY Zenon
    <2> DEFINE d == [dump EXCEPT !.registered = FALSE, !.authorized = dump.registered]
    <2>1. d.registered = FALSE
        BY Zenon DEF VmmInv, VmmTypeOK
    <2> HIDE DEF d
    <2>2. ReleaseHvCrashBlob(d, lifecycle) = NoDump
        BY <2>1, Zenon DEF ReleaseHvCrashBlob
    <2> QED BY <2>2, Zenon DEF UnregisterAndUnmap, d
<1>5. \/ /\ IsHypervisorQuarantined /\ co'.pc = "resident" /\ UNCHANGED storageVars
      \/ /\ ~IsHypervisorQuarantined /\ IsHypervisorStopComplete
         /\ co'.pc = "unloaded" /\ UNCHANGED <<lifecycle, vcpuData>> /\ dump' = NoDump
      \/ UNCHANGED <<storageVars, co>>
    <2>1. \/ UnregisterAndUnmap /\ IsHypervisorStopComplete
          \/ BugCheck
          \/ IsHypervisorQuarantined /\ UNCHANGED storageVars
        BY Zenon DEF EntryFailed, UnloadReturn
    <2> QED BY <1>1, <1>4, <2>1, LeaveMoves, Zenon DEF BugCheck, IsHypervisorStopComplete
<1>6. IsHypervisorQuarantined => lifecycle = "Quarantined"
    BY Zenon DEF VmmInv, StorageInv
<1>7. \A q \in Cpus : RecordInv(q)'
    BY <1>3, Zenon DEF StillAll
<1>8. CASE IsHypervisorQuarantined /\ co'.pc = "resident" /\ UNCHANGED storageVars
    <2>1. lifecycle' = "Quarantined"
        BY <1>6, <1>8, Zenon DEF storageVars
    <2>2. PendingLaunchInv' /\ PendingStopInv'
        BY <1>3, <2>1, PendingStays, Zenon
    <2>3. StagedInv' /\ StopInvCo'
        BY <1>8, NextPlace, Zenon
           DEF StagedAt, StoppingAt, WaitPlaces, RetryPlaces, LaunchSteps
    <2> QED BY <1>7, <1>8, <2>1, <2>2, <2>3, Arrived, Zenon DEF storageVars
<1>9. CASE /\ ~IsHypervisorQuarantined /\ IsHypervisorStopComplete
           /\ co'.pc = "unloaded" /\ UNCHANGED <<lifecycle, vcpuData>> /\ dump' = NoDump
    <2>1. ~vcpuData /\ lifecycle = "Idle" /\ NoWorkers /\ NoRoutines
        BY <1>9, CalmFacts, Zenon DEF IsHypervisorStopComplete
    <2>2. PendingLaunchInv' /\ PendingStopInv'
        BY <1>3, <2>1, PendingStays, Zenon
    <2>3. StagedInv' /\ StopInvCo'
        BY <1>9, NextPlace, Zenon
           DEF StagedAt, StoppingAt, WaitPlaces, RetryPlaces, LaunchSteps
    <2>4. RunningInv' /\ BlobInv'
        BY <1>9, <2>1, Zenon DEF RunningInv, BlobInv
    <2> QED BY <1>7, <2>2, <2>3, <2>4, Zenon DEF OrderInv
<1>10. CASE UNCHANGED <<storageVars, co>>
    BY <1>3, <1>10, SameCoInOrder, CalmFacts, Zenon
<1> QED BY <1>5, <1>8, <1>9, <1>10, Zenon

=============================================================================
