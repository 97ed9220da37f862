--------------------------- MODULE VmmOrderProofs ---------------------------
(***************************************************************************)
(* The proofs that launches and stops are ordered: OrderInv is inductive   *)
(* on top of VmmInv, and the order properties of Vmm follow from the two.  *)
(* The steps of the processors and of the stop are those of VmmStopProofs; *)
(* here are the steps of the start, the induction and the theorems.        *)
(***************************************************************************)
EXTENDS VmmStopProofs

\* The wait for a launch DPC: an ended routine hands over its result, a routine
\* that was removed or given up reports failure.
LEMMA LaunchWaitInOrder ==
    ASSUME VmmInv, OrderInv, WaitTargetLaunchDpc
    PROVE  OrderInv'
<1>1. co \in CoType /\ WorkTypeOK /\ IndexInv
    BY CalmFacts, Zenon
<1>2. co.pc \in LaunchWaits /\ co.i \in Cpus /\ UNCHANGED storageVars /\ UNCHANGED <<vcpu, cpu>>
    <2>1. co.pc \in LaunchWaits
        BY Zenon DEF WaitTargetLaunchDpc, LaunchWaitSignalled, LaunchWaitDrain,
           LaunchWaitTimesOut, LaunchTimeoutRemoves, LaunchTimeoutUnresolved, CoAt, LaunchWaits
    <2>2. co.i \in Cpus
        BY <1>1, <2>1, Zenon DEF IndexInv, LaunchWaits
    <2> QED BY <1>1, <2>1, <2>2, WaitRecords, Zenon DEF vcpuVars
<1>3. ASSUME LaunchWaitSignalled \/ LaunchWaitTimesOut
      PROVE  /\ co'.pc \in LaunchWaits /\ SameRun /\ co'.bound = co.bound
             /\ co'.result = co.result /\ UNCHANGED workVars
    BY <1>1, <1>3, Zenon DEF LaunchWaitSignalled, LaunchWaitTimesOut, CoGoto, CoType, SameRun,
       LaunchWaits
<1>4. ASSUME LaunchWaitDrain
      PROVE  /\ co'.pc = "launchCheck" /\ SameRun /\ co'.bound = co.bound
             /\ co'.result = dpc[co.i].Result /\ dpc[co.i].routine = "none"
             /\ DrainLaunchDpc(co.i) /\ UNCHANGED work
    BY <1>1, <1>4, Zenon DEF LaunchWaitDrain, CoType, SameRun, DrainLaunchDpc
<1>5. ASSUME LaunchTimeoutUnresolved
      PROVE  /\ co'.pc = "launchCheck" /\ ~co'.result /\ co'.unresolved
             /\ co'.i = co.i /\ co'.phase = co.phase /\ co'.bound = co.bound
             /\ co'.rollback = co.rollback /\ UNCHANGED workVars
    BY <1>1, <1>5, Zenon DEF LaunchTimeoutUnresolved, CoType
<1>6. ASSUME LaunchTimeoutRemoves
      PROVE  /\ co'.pc = "launchCheck" /\ SameRun /\ co'.bound = co.bound /\ ~co'.result
             /\ \A q \in Cpus \ {co.i} : SameJob(q)
             /\ dpc'[co.i].routine = "none" /\ ~dpc'[co.i].Result
             /\ UNCHANGED work
    <2>1. /\ co'.pc = "launchCheck" /\ SameRun /\ co'.bound = co.bound /\ ~co'.result
          /\ UNCHANGED work
        BY <1>1, <1>6, Zenon DEF LaunchTimeoutRemoves, CoType, SameRun
    <2>2. /\ \A q \in Cpus \ {co.i} : dpc'[q] = dpc[q]
          /\ dpc'[co.i].routine = "none" /\ ~dpc'[co.i].Result
        BY <1>1, <1>2, <1>6, Zenon DEF LaunchTimeoutRemoves, RemoveLaunchDpc, WorkTypeOK
    <2> QED BY <2>1, <2>2, Zenon DEF SameJob
<1>7. /\ NoStops /\ VerifiedBefore(co.i) /\ lifecycle # "Quarantined"
      /\ \A q \in Cpus : dpc[q].routine # "none" => q = co.i
      /\ \A q \in Cpus : ~Stopper(q)
    BY <1>2, CalmFacts, Zenon
       DEF OrderInv, StagedInv, PendingLaunchInv, StagePlaces, LaunchSteps, LaunchWaits
<1>8. ASSUME LaunchTimeoutRemoves
      PROVE  /\ \A q \in Cpus : RecordInv(q)' /\ dpc'[q].routine = "none"
             /\ \A q \in Cpus : ~Stopper(q)'
             /\ NoStops'
    BY <1>2, <1>6, <1>7, <1>8, SMTT(60) DEF OrderInv, RecordInv, SameJob, Terminal, Stopper, NoStops
<1>9. ASSUME ~LaunchTimeoutRemoves
      PROVE  StillAll
    <2>1. Still
        BY <1>1, <1>2, <1>3, <1>4, <1>5, <1>9, StillRecords, Zenon DEF WaitTargetLaunchDpc
    <2> QED BY <2>1, StillKeeps, Zenon
<1>10. /\ \A q : Verified(q)' <=> Verified(q)
       /\ \A q : VerifiedBefore(q)' <=> VerifiedBefore(q)
       /\ AllVerified' <=> AllVerified
    BY <1>2, UnmovedFacts, Zenon
<1>11. /\ \A q \in Cpus : RecordInv(q)'
       /\ NoStops' /\ PendingStopInv'
    <2>1. (\A q \in Cpus : RecordInv(q)') /\ NoStops' /\ \A q \in Cpus : ~Stopper(q)'
        BY <1>7, <1>8, <1>9, Zenon DEF StillAll
    <2> QED BY <2>1, Zenon DEF PendingStopInv
<1>12. /\ co'.pc \in LaunchWaits \cup {"launchCheck"} /\ co'.i = co.i /\ co'.phase = co.phase
       /\ co'.bound = co.bound
    BY <1>3, <1>4, <1>5, <1>6, Zenon DEF WaitTargetLaunchDpc, SameRun
<1>13. co.phase \in {"none", "staged"} /\ OffStage /\ (dpc[co.i].Result => Verified(co.i))
    BY <1>2, Zenon DEF OrderInv, StagedInv, StagePlaces, OffStage
<1>14. co'.phase \in {"none", "staged"} /\ OffStage' /\ VerifiedBefore(co.i)'
    BY <1>7, <1>10, <1>12, <1>13, Zenon DEF OffStage
<1>15. ASSUME StillAll, ~LaunchTimeoutRemoves
       PROVE  /\ (dpc[co.i].Result => Verified(co.i))'
              /\ \A q \in Cpus : dpc'[q].routine # "none" => q = co.i
              /\ dpc[co.i].routine = "none" => \A q \in Cpus : dpc'[q].routine = "none"
    BY <1>2, <1>7, <1>10, <1>12, <1>13, <1>15 DEF StillAll, SameJob
<1>16. ASSUME LaunchWaitSignalled \/ LaunchWaitTimesOut
       PROVE  PendingLaunchInv' /\ StagedInv'
    <2>1. ~LaunchTimeoutRemoves
        BY <1>3, <1>6, <1>16, Zenon DEF LaunchWaits
    <2>2. co'.pc \in LaunchWaits
        BY <1>3, <1>16, Zenon
    <2>3. PendingLaunchInv'
        BY <1>9, <1>11, <1>12, <1>14, <1>15, <2>1, <2>2, Zenon DEF PendingLaunchInv
    <2>4. StagedInv'
        BY <1>9, <1>11, <1>14, <1>15, <2>1, <2>2, NextStage, SMTT(60) DEF StagePlaces, LaunchWaits
    <2> QED BY <2>3, <2>4, Zenon
<1>17. ASSUME LaunchWaitDrain
       PROVE  PendingLaunchInv' /\ StagedInv'
    <2>1. ~LaunchTimeoutRemoves
        BY <1>4, <1>17, Zenon DEF LaunchTimeoutRemoves, RemoveLaunchDpc
    <2>2. PendingLaunchInv'
        BY <1>4, <1>9, <1>15, <1>17, <2>1, Zenon DEF PendingLaunchInv
    <2>3. co'.pc = "launchCheck" /\ (co'.result => Verified(co.i)')
        BY <1>4, <1>10, <1>12, <1>13, <1>17, Zenon
    <2>4. StagedInv'
        BY <1>11, <1>14, <2>3, NextStage, SMTT(60) DEF StagePlaces, LaunchWaits
    <2> QED BY <2>2, <2>4, Zenon
<1>18. ASSUME LaunchTimeoutUnresolved
       PROVE  PendingLaunchInv' /\ StagedInv'
    <2>1. ~LaunchTimeoutRemoves
        BY <1>18, Zenon DEF LaunchTimeoutRemoves, RemoveLaunchDpc, LaunchTimeoutUnresolved
    <2>2. PendingLaunchInv'
        BY <1>5, <1>9, <1>11, <1>14, <1>15, <1>18, <2>1, Zenon DEF PendingLaunchInv
    <2>3. StagedInv'
        BY <1>5, <1>11, <1>14, <1>18, NextStage, Zenon DEF StagePlaces, LaunchWaits
    <2> QED BY <2>2, <2>3, Zenon
<1>19. ASSUME LaunchTimeoutRemoves
       PROVE  PendingLaunchInv' /\ StagedInv'
    <2>1. PendingLaunchInv'
        BY <1>8, <1>19, Zenon DEF PendingLaunchInv
    <2>2. StagedInv'
        BY <1>6, <1>11, <1>14, <1>19, NextStage, Zenon DEF StagePlaces, LaunchWaits
    <2> QED BY <2>1, <2>2, Zenon
<1>20. PendingLaunchInv' /\ StagedInv'
    BY <1>16, <1>17, <1>18, <1>19, Zenon DEF WaitTargetLaunchDpc
<1>21. StopInvCo'
    BY <1>12, NextPlace, Zenon DEF StoppingAt, WaitPlaces, RetryPlaces, LaunchWaits
<1>22. lifecycle # "Running"
    BY <1>2, Zenon DEF OrderInv, RunningInv, LaunchWaits
<1> QED BY <1>2, <1>11, <1>12, <1>20, <1>21, <1>22, Arrived DEF storageVars, LaunchWaits

\* Queueing an operation on p finds no thread there and leaves a new one, or, when it
\* is refused, none, with an empty or an untouched record.
LEMMA QueueRecords ==
    ASSUME WorkTypeOK, NEW p \in Cpus, WorkInv(p), UNCHANGED dpc, NEW operation
    PROVE  /\ QueueTargetOperation(p, operation) =>
                /\ \A q \in Cpus \ {p} : SameJob(q)
                /\ work[p].thread = "none" /\ work'[p].thread = "created"
                /\ work'[p].Operation = operation /\ ~work'[p].Result
           /\ QueueOperationFails(p) =>
                /\ \A q \in Cpus \ {p} : SameJob(q)
                /\ \/ SameJob(p)
                   \/ /\ work[p].thread = "none" /\ work'[p].thread = "none"
                      /\ work'[p].Operation = "None" /\ ~work'[p].Result
<1> USE DEF SameJob, WorkTypeOK
<1>1. ASSUME QueueTargetOperation(p, operation)
      PROVE  /\ \A q \in Cpus \ {p} : SameJob(q)
             /\ work[p].thread = "none" /\ work'[p].thread = "created"
             /\ work'[p].Operation = operation /\ ~work'[p].Result
    BY <1>1, Zenon DEF QueueTargetOperation, WorkInv
<1>2. ASSUME QueueOperationFails(p)
      PROVE  /\ \A q \in Cpus \ {p} : SameJob(q)
             /\ \/ SameJob(p)
                \/ /\ work[p].thread = "none" /\ work'[p].thread = "none"
                   /\ work'[p].Operation = "None" /\ ~work'[p].Result
    <2>1. CASE work' = work
        BY <2>1, Zenon
    <2>2. CASE /\ ~work[p].ThreadHandle
               /\ \E s \in {"Idle", "Failed"} :
                     work' = [work EXCEPT ![p] = [ZeroWork EXCEPT !.State = s]]
        BY <2>2, ZenonT(60) DEF ZeroWork, WorkInv
    <2>3. CASE work[p].ThreadHandle
        BY <1>2, <2>1, <2>3, Zenon DEF QueueOperationFails
    <2>4. CASE ~work[p].ThreadHandle
        BY <1>2, <2>2, <2>4, Zenon DEF QueueOperationFails
    <2> QED BY <2>3, <2>4, Zenon
<1> QED BY <1>1, <1>2, Zenon

\* Whatever is queued on p, the records stay honest and no launch appears.
LEMMA QueueInOrder ==
    ASSUME OrderInv, WorkTypeOK, NEW p \in Cpus, WorkInv(p), UNCHANGED <<vcpu, cpu, dpc>>,
           NEW operation, QueueTargetOperation(p, operation) \/ QueueOperationFails(p)
    PROVE  /\ \A q \in Cpus : RecordInv(q)'
           /\ NoStops /\ operation # "Stop" => NoStops'
           /\ NoRoutines' <=> NoRoutines
           /\ \A q \in Cpus \ {p} : work'[q].thread = work[q].thread
<1>1. \A q \in Cpus : RecordInv(q)
    BY Zenon DEF OrderInv
<1> QED
    BY <1>1, QueueRecords DEF RecordInv, SameJob, NoStops, NoRoutines, Terminal

\* The probe round and the canaries queue nothing but probes and canaries.
LEMMA ProbeInOrder ==
    ASSUME VmmInv, OrderInv, QueueProbe \/ Canary
    PROVE  OrderInv'
<1>1. co \in CoType /\ WorkTypeOK /\ IndexInv
    BY CalmFacts, Zenon
<1>2. UNCHANGED <<vcpu, cpu, dpc, storageVars>>
    BY Zenon DEF QueueProbe, Canary, vcpuVars
<1>3. ASSUME QueueProbe
      PROVE  /\ co.pc = "queueProbe" /\ co'.pc = "queueProbe" /\ co.i \in Cpus
             /\ co'.phase = co.phase /\ co'.bound = co.bound
             /\ QueueTargetOperation(co.i, "Probe") \/ QueueOperationFails(co.i)
    <2>1. co.pc = "queueProbe" /\ co'.pc = "queueProbe" /\ co.i \in Cpus
        BY <1>1, <1>3, EarlyMoves, Zenon
    <2>2. co'.phase = co.phase /\ co'.bound = co.bound
        BY <1>1, <1>3, Zenon DEF QueueProbe, CoType
    <2> QED BY <1>3, <2>1, <2>2, Zenon DEF QueueProbe
<1>4. ASSUME Canary
      PROVE  /\ co.pc = "canary" /\ co'.pc \in {"wait", "done"} /\ co.i \in Cpus
             /\ co'.i = co.i /\ co'.bound = co.bound
             /\ co'.phase = IF co.phase = "final" THEN "final" ELSE "staged"
             /\ QueueTargetOperation(co.i, "RuntimeCanary") \/ QueueOperationFails(co.i)
    <2>1. co.pc = "canary"
        BY <1>4, Zenon DEF Canary, CoAt
    <2>2. co.i \in Cpus
        BY <1>1, <2>1, Zenon DEF IndexInv
    <2>3. /\ co'.pc \in {"wait", "done"} /\ co'.i = co.i /\ co'.bound = co.bound
          /\ co'.phase = IF co.phase = "final" THEN "final" ELSE "staged"
        BY <1>1, <1>4, Zenon DEF Canary, QueueThenWait, CoType
    <2> QED BY <1>4, <2>1, <2>2, <2>3, Zenon DEF Canary, QueueThenWait
<1>5. /\ \A q \in Cpus : RecordInv(q)'
      /\ NoStops => NoStops'
      /\ NoRoutines' <=> NoRoutines
    <2>1. \E operation \in {"Probe", "RuntimeCanary"} :
             QueueTargetOperation(co.i, operation) \/ QueueOperationFails(co.i)
        BY <1>3, <1>4, Zenon
    <2>2. co.i \in Cpus /\ WorkInv(co.i)
        BY <1>3, <1>4, Zenon DEF VmmInv
    <2> QED BY <1>1, <1>2, <2>1, <2>2, QueueInOrder, Zenon
<1>6. NoStops' => \A q \in Cpus : ~Stopper(q)'
    BY Zenon DEF NoStops, Stopper
<1>7. /\ \A q : Verified(q)' <=> Verified(q)
      /\ \A q : VerifiedBefore(q)' <=> VerifiedBefore(q)
      /\ AllVerified' <=> AllVerified
    BY <1>2, UnmovedFacts, Zenon
<1>8. /\ NoStops /\ NoRoutines /\ lifecycle # "Running"
      /\ co.pc = "queueProbe" => co.bound = 0 /\ co.phase = "none"
      /\ co.pc = "canary" => co.phase \in {"none", "staged", "final"}
      /\ co.pc = "canary" /\ co.phase = "final" => AllVerified
      /\ co.pc = "canary" /\ co.phase # "final" => VerifiedUpTo(co.i) /\ OffStage
    <2>1. co.pc \in {"queueProbe", "canary"}
        BY <1>3, <1>4, Zenon
    <2>2. NoRoutines
        BY <2>1, CalmFacts, Zenon DEF OrderInv, PendingLaunchInv, LaunchWaits, NoRoutines
    <2> QED BY <2>1, <2>2, Zenon DEF OrderInv, StagedInv, RunningInv, LaunchSteps, OffStage
<1>9. NoStops' /\ PendingStopInv' /\ PendingLaunchInv'
    <2>1. \A q \in Cpus : ~Stopper(q)' /\ dpc'[q].routine = "none"
        BY <1>2, <1>5, <1>6, <1>8, Zenon DEF NoRoutines
    <2> QED BY <1>5, <1>8, <2>1, Zenon DEF PendingStopInv, PendingLaunchInv
<1>10. ASSUME QueueProbe
       PROVE  StagedInv' /\ StopInvCo'
    <2>1. StagedInv'
        BY <1>3, <1>8, <1>9, <1>10, NextStage, Zenon
    <2>2. StopInvCo'
        BY <1>3, <1>10, NextPlace, Zenon DEF StoppingAt, WaitPlaces, RetryPlaces
    <2> QED BY <2>1, <2>2, Zenon
<1>11. ASSUME Canary
       PROVE  StagedInv' /\ StopInvCo'
    <2>1. CASE co.phase = "final"
        <3>1. AllVerified' /\ co'.phase = "final"
            BY <1>4, <1>7, <1>8, <1>11, <2>1, Zenon
        <3> QED BY <1>4, <1>9, <1>11, <3>1, NextStage, NextPlace, SMTT(60)
                DEF WaitPlaces, StopPhases
    <2>2. CASE co.phase # "final"
        <3>1. VerifiedUpTo(co.i)' /\ OffStage' /\ co'.phase = "staged"
            BY <1>4, <1>7, <1>8, <1>11, <2>2, Zenon DEF VerifiedUpTo, OffStage
        <3> QED BY <1>4, <1>9, <1>11, <3>1, NextStage, NextPlace, Zenon
                DEF WaitPlaces, StopPhases
    <2> QED BY <2>1, <2>2, Zenon
<1> QED BY <1>2, <1>3, <1>4, <1>5, <1>8, <1>9, <1>10, <1>11, Arrived, Zenon DEF storageVars

\* An attempt to stop queues the only worker there is, on a processor other than the
\* one the thread is bound to; a processor that is not live is judged as it is.
LEMMA AttemptInOrder ==
    ASSUME VmmInv, OrderInv, StopAttempt
    PROVE  OrderInv'
<1>1. co \in CoType /\ WorkTypeOK /\ IndexInv
    BY CalmFacts, Zenon
<1>2. co.pc = "retry" /\ co.i \in Cpus /\ UNCHANGED <<vcpu, cpu, dpc, storageVars>>
    BY <1>1, StopMoves, Zenon DEF StopAttempt, vcpuVars, IndexInv, RetryPlaces
<1>3. /\ NoRoutines /\ NoWorkers /\ ~co.unresolved
      /\ \A q \in Cpus : work[q].thread = "none" /\ dpc[q].routine = "none"
    BY <1>2, Zenon DEF OrderInv, StopInvCo, RetryPlaces, NoWorkers, NoRoutines
<1>4. ASSUME ~Live(co.i), co' = [co EXCEPT !.pc = "stopDone", !.result = Terminal(co.i)],
             UNCHANGED work
      PROVE  /\ co'.pc = "stopDone" /\ SameRun /\ co'.bound = co.bound
             /\ co'.result => cpu[co.i] = NativeCpu /\ Terminal(co.i)
             /\ StillAll
    <2>1. /\ co'.pc = "stopDone" /\ SameRun /\ co'.bound = co.bound
          /\ co'.result = Terminal(co.i)
        BY <1>1, <1>4, TerminalIsBoolean, Zenon DEF CoType, SameRun
    <2>2. Terminal(co.i) => cpu[co.i] = NativeCpu
        BY <1>2, <1>3, TerminalIsNative, Zenon
    <2>3. Still
        BY <1>2, <1>4, Zenon DEF Still, SameJob
    <2> QED BY <2>1, <2>2, <2>3, StillKeeps, Zenon
<1>5. ASSUME QueueTargetOperation(co.i, "Stop"),
             co' = [co EXCEPT !.pc = "wait", !.phase = co.phase]
      PROVE  /\ co'.pc = "wait" /\ SameRun /\ co'.bound = co.bound
             /\ work'[co.i].Operation = "Stop"
             /\ \A q \in Cpus \ {co.i} : work'[q].thread = "none"
             /\ \A q \in Cpus : Stopper(q)' => q = co.i
    <2>1. co'.pc = "wait" /\ SameRun /\ co'.bound = co.bound
        BY <1>1, <1>5, Zenon DEF CoType, SameRun
    <2>2. /\ work'[co.i].Operation = "Stop"
          /\ \A q \in Cpus \ {co.i} : work'[q].thread = "none"
        BY <1>1, <1>2, <1>3, <1>5, QueueRecords DEF VmmInv, SameJob
    <2> QED BY <2>1, <2>2, Zenon DEF Stopper
<1>6. ASSUME QueueOperationFails(co.i),
             co' = [co EXCEPT !.pc = "done", !.phase = co.phase, !.result = FALSE]
      PROVE  /\ co'.pc = "done" /\ SameRun /\ co'.bound = co.bound /\ ~co'.result
             /\ NoWorkers'
             /\ \A q \in Cpus : ~Stopper(q)'
    <2>1. co'.pc = "done" /\ SameRun /\ co'.bound = co.bound /\ ~co'.result
        BY <1>1, <1>6, Zenon DEF CoType, SameRun
    <2>2. \A q \in Cpus : work'[q].thread = "none"
        BY <1>1, <1>2, <1>3, <1>6, QueueRecords, SMTT(60) DEF VmmInv, SameJob
    <2> QED BY <2>1, <2>2, Zenon DEF Stopper, NoWorkers
<1>7. ASSUME QueueTargetOperation(co.i, "Stop") \/ QueueOperationFails(co.i)
      PROVE  /\ \A q \in Cpus : RecordInv(q)'
             /\ NoRoutines'
    BY <1>1, <1>2, <1>3, <1>7, QueueInOrder, Zenon DEF VmmInv
<1>8. \A q \in Cpus : dpc'[q].routine = "none"
    BY <1>2, <1>3, Zenon
<1>9. /\ lifecycle # "Running" /\ NoRoutines' /\ PendingLaunchInv'
      /\ co.phase = "stop" => co.bound = co.reserved /\ co.i # co.reserved
      /\ co.phase = "stopReserved" => /\ co.i = co.reserved /\ co.bound \in Cpus \ {co.i}
                                      /\ cpu[co.bound].mode = "native"
      /\ co.phase \in StopPhases
    <2>1. PendingLaunchInv' /\ NoRoutines'
        BY <1>8, Zenon DEF PendingLaunchInv, NoRoutines
    <2>2. co.phase \in StopPhases
        BY <1>1, <1>2, Zenon DEF IndexInv, RetryPlaces, StopPhases
    <2> QED BY <1>2, <2>1, <2>2, SMTT(60) DEF OrderInv, StopInvCo, RunningInv, RetryPlaces
<1>10. ASSUME ~Live(co.i), UNCHANGED work,
              co' = [co EXCEPT !.pc = "stopDone", !.result = Terminal(co.i)]
       PROVE  OrderInv'
    <2>1. /\ co'.pc = "stopDone" /\ SameRun /\ co'.bound = co.bound
          /\ co'.result => cpu[co.i] = NativeCpu /\ Terminal(co.i)
          /\ StillAll
        BY ONLY <1>4, <1>10, Zenon
    <2>2. NoWorkers' /\ PendingStopInv'
        BY <1>3, <2>1, PendingStays, Zenon
    <2>3. StagedInv'
        BY <2>1, NextPlace, Zenon DEF StagedAt, WaitPlaces, LaunchSteps
    <2>4. StopInvCo'
        BY <1>3, <1>9, <2>1, <2>2, Zenon
           DEF StopInvCo, StopWaits, StopEnds, Waiting, WaitPlaces, RetryPlaces, SameRun, StillAll
    <2> QED BY <1>2, <1>9, <2>1, <2>2, <2>3, <2>4, Arrived, SMTT(60) DEF storageVars, StillAll
<1>11. ASSUME QueueTargetOperation(co.i, "Stop"),
              co' = [co EXCEPT !.pc = "wait", !.phase = co.phase]
       PROVE  OrderInv'
    <2>1. /\ co'.pc = "wait" /\ SameRun /\ co'.bound = co.bound
          /\ work'[co.i].Operation = "Stop"
          /\ \A q \in Cpus \ {co.i} : work'[q].thread = "none"
          /\ \A q \in Cpus : Stopper(q)' => q = co.i
        BY ONLY <1>5, <1>11, Zenon
    <2>2. StopWaits'
        BY <1>9, <2>1, Zenon DEF StopWaits, Waiting, WaitPlaces, SameRun
    <2>3. PendingStopInv'
        BY <2>1, <2>2, Zenon DEF PendingStopInv, SameRun
    <2>4. StagedInv'
        BY <1>9, <2>1, NextPlace, Zenon DEF WaitPlaces, SameRun
    <2>5. StopInvCo'
        BY <1>2, <1>3, <1>9, <2>1, Zenon
           DEF StopInvCo, StopWaits, StopEnds, Waiting, WaitPlaces, RetryPlaces, SameRun
    <2> QED BY <1>2, <1>7, <1>9, <1>11, <2>1, <2>3, <2>4, <2>5, Arrived, SMTT(60) DEF storageVars
<1>12. ASSUME QueueOperationFails(co.i),
              co' = [co EXCEPT !.pc = "done", !.phase = co.phase, !.result = FALSE]
       PROVE  OrderInv'
    <2>1. /\ co'.pc = "done" /\ SameRun /\ co'.bound = co.bound /\ ~co'.result
          /\ NoWorkers'
          /\ \A q \in Cpus : ~Stopper(q)'
        BY ONLY <1>6, <1>12, Zenon
    <2>2. PendingStopInv'
        BY <2>1, Zenon DEF PendingStopInv
    <2>3. StagedInv'
        BY <1>9, <2>1, NextPlace, Zenon DEF WaitPlaces, SameRun
    <2>4. StopInvCo'
        BY <1>2, <1>3, <1>9, <2>1, Zenon
           DEF StopInvCo, StopWaits, StopEnds, Waiting, WaitPlaces, RetryPlaces, SameRun
    <2> QED BY <1>2, <1>7, <1>9, <1>12, <2>1, <2>2, <2>3, <2>4, Arrived, SMTT(60) DEF storageVars
<1> QED
    BY <1>10, <1>11, <1>12, ZenonT(60) DEF StopAttempt, QueueThenWait

\* The launch DPC is queued on the next processor in order, when no other launch and
\* no stop is pending.
LEMMA StagedLaunchKeepsOrder ==
    ASSUME VmmInv, OrderInv, StagedLaunch
    PROVE  OrderInv'
<1>1. co \in CoType /\ WorkTypeOK /\ IndexInv
    BY CalmFacts, Zenon
<1>2. co.pc = "launch" /\ co.i \in Cpus /\ UNCHANGED <<vcpu, cpu, work, storageVars>>
    BY <1>1, StagedMoves, Zenon DEF StagedLaunch, vcpuVars, IndexInv
<1>3. /\ NoStops /\ VerifiedBefore(co.i)
      /\ \A q \in Cpus : dpc[q].routine = "none"
    BY <1>2, CalmFacts, Zenon
       DEF OrderInv, StagedInv, PendingLaunchInv, StagePlaces, LaunchWaits, LaunchSteps
<1>4. /\ SameRun /\ co'.bound = co.bound
      /\ \/ QueueTargetLaunchDpc(co.i) /\ co'.pc = "launchWait"
         \/ QueueLaunchFails(co.i) /\ co'.pc = "launchCheck" /\ ~co'.result
    BY <1>1, Zenon DEF StagedLaunch, CoGoto, CoType, SameRun
<1>5. /\ \A q \in Cpus \ {co.i} : dpc'[q] = dpc[q]
      /\ \/ dpc'[co.i].routine = "queued" /\ ~dpc'[co.i].Result /\ co'.pc = "launchWait"
         \/ dpc'[co.i].routine = "none" /\ co'.pc = "launchCheck"
    <2> USE DEF WorkTypeOK, ZeroDpc
    <2>1. CASE QueueTargetLaunchDpc(co.i) /\ co'.pc = "launchWait"
        BY <1>1, <1>2, <2>1, Zenon DEF QueueTargetLaunchDpc
    <2>2. CASE dpc' = dpc /\ co'.pc = "launchCheck"
        BY <1>2, <1>3, <2>2, Zenon
    <2>3. CASE /\ dpc' = [dpc EXCEPT ![co.i] = [ZeroDpc EXCEPT !.State = "Failed", !.Done = TRUE]]
               /\ co'.pc = "launchCheck"
        BY <1>1, <1>2, <2>3, Zenon
    <2> QED BY <1>4, <2>1, <2>2, <2>3, Zenon DEF QueueLaunchFails
<1>6. \A q \in Cpus : RecordInv(q)'
    BY <1>2, <1>5, Zenon DEF OrderInv, RecordInv, Terminal
<1>7. \A q \in Cpus : dpc'[q].routine # "none" => q = co.i /\ co'.pc = "launchWait"
    BY <1>3, <1>5, Zenon
<1>8. NoStops' /\ \A q \in Cpus : ~Stopper(q)'
    BY <1>2, <1>3, Zenon DEF NoStops, Stopper
<1>9. /\ \A q : Verified(q)' <=> Verified(q)
      /\ \A q : VerifiedBefore(q)' <=> VerifiedBefore(q)
      /\ AllVerified' <=> AllVerified
    BY <1>2, UnmovedFacts, Zenon
<1>10. /\ co'.pc \in {"launchWait", "launchCheck"}
       /\ co'.pc = "launchCheck" => ~co'.result
       /\ co'.pc = "launchWait" => ~dpc'[co.i].Result
    BY <1>4, <1>5, Zenon
<1>11. co.phase \in {"none", "staged"} /\ OffStage /\ lifecycle # "Running"
    BY <1>2, Zenon DEF OrderInv, StagedInv, RunningInv, StagePlaces, OffStage
<1>12. co'.phase \in {"none", "staged"} /\ OffStage' /\ VerifiedBefore(co.i)'
    BY <1>3, <1>4, <1>9, <1>11, Zenon DEF OffStage, SameRun
<1>13. StagedInv'
    BY <1>4, <1>8, <1>10, <1>12, NextStage, Zenon DEF StagePlaces, LaunchWaits, SameRun
<1>14. PendingLaunchInv'
    BY <1>4, <1>7, <1>8, <1>12, Zenon DEF PendingLaunchInv, LaunchWaits, SameRun
<1>15. PendingStopInv' /\ StopInvCo'
    BY <1>8, <1>10, NextPlace, Zenon DEF PendingStopInv, StoppingAt, WaitPlaces, RetryPlaces
<1> QED BY <1>2, <1>6, <1>10, <1>11, <1>13, <1>14, <1>15, Arrived, SMTT(60) DEF storageVars

\* Where a start quits: with a pending launch or worker it quarantines, otherwise it
\* rolls back with nothing pending.
QuitsWell == \/ co'.pc = "resident" /\ lifecycle' = "Quarantined"
             \/ /\ co'.pc = "stopClaim" /\ ~co'.unresolved /\ UNCHANGED lifecycle
                /\ co.pc = "launchCheck" => ~co.unresolved

\* A round or step of the start that failed quits in that way.
LEMMA ContinueWell ==
    ASSUME co \in CoType, NEW failed, NEW next, StartContinue(failed, next)
    PROVE  /\ UNCHANGED <<vcpuData, dump>>
           /\ \/ QuitsWell
              \/ ~co.unresolved /\ ~failed /\ co' = next /\ UNCHANGED lifecycle
BY Zenon DEF StartContinue, CoType, CoInit, Rollback, Quarantine, QuitsWell, storageVars

\* Quitting keeps the order.
LEMMA QuitInOrder ==
    ASSUME VmmInv, OrderInv, StillAll, QuitsWell, UNCHANGED <<vcpuData, dump>>,
           \/ co.pc \in LaunchSteps \ LaunchWaits
           \/ Waiting({"probe", "staged", "final"})
    PROVE  OrderInv'
<1>1. NoStops /\ lifecycle # "Quarantined" /\ lifecycle # "Running"
    BY CalmFacts, Zenon DEF OrderInv, StagedInv, RunningInv, LaunchSteps, Waiting, WaitPlaces
<1>2. \/ co.pc = "launchCheck" /\ co.unresolved
      \/ \A q \in Cpus : dpc[q].routine = "none"
    BY <1>1, Zenon DEF OrderInv, PendingLaunchInv, LaunchWaits, Waiting, WaitPlaces
<1>3. \A q \in Cpus : RecordInv(q)'
    BY Zenon DEF StillAll
<1>4. CASE co'.pc = "resident" /\ lifecycle' = "Quarantined"
    <2>1. PendingLaunchInv' /\ PendingStopInv'
        BY <1>4, PendingStays, Zenon
    <2>2. StagedInv' /\ StopInvCo'
        BY <1>4, NextPlace, Zenon
           DEF StagedAt, StoppingAt, WaitPlaces, RetryPlaces, LaunchSteps
    <2> QED BY <1>3, <1>4, <2>1, <2>2, Arrived, Zenon
<1>5. CASE /\ co'.pc = "stopClaim" /\ ~co'.unresolved /\ UNCHANGED lifecycle
           /\ co.pc = "launchCheck" => ~co.unresolved
    <2>1. NoStops' /\ PendingStopInv'
        BY PendingStays, Zenon DEF LaunchWaits
    <2>2. NoRoutines
        BY <1>2, <1>5, Zenon DEF NoRoutines
    <2>3. PendingLaunchInv'
        BY <2>2, PendingStays, Zenon
    <2>4. StagedInv' /\ StopInvCo'
        BY <1>5, <2>1, NextPlace, Zenon
    <2> QED BY <1>1, <1>3, <1>5, <2>1, <2>3, <2>4, Arrived, Zenon
<1> QED BY <1>4, <1>5, Zenon DEF QuitsWell

\* The launch order 1 .. N-1, 0, step by step.
LEMMA LaunchOrders ==
    /\ VerifiedBefore(1)
    /\ VerifiedUpTo(0) => AllVerified
    /\ \A i \in Cpus \ {0} : VerifiedUpTo(i) =>
          IF i < N - 1 THEN VerifiedBefore(i + 1) ELSE VerifiedBefore(0)
<1> USE NAssumption DEF LaunchOrder, Cpus
<1>1. VerifiedBefore(1)
    BY DEF VerifiedBefore
<1>2. VerifiedUpTo(0) => AllVerified
    BY DEF VerifiedUpTo, VerifiedBefore, AllVerified
<1>3. ASSUME NEW i \in Cpus \ {0}, VerifiedUpTo(i), i < N - 1
      PROVE  VerifiedBefore(i + 1)
    <2> SUFFICES ASSUME NEW q \in Cpus, LaunchOrder(q) < LaunchOrder(i + 1)
                 PROVE  Verified(q)
        BY Zenon DEF VerifiedBefore
    <2>1. LaunchOrder(q) < LaunchOrder(i) \/ q = i
        BY <1>3
    <2> QED BY <1>3, <2>1, Zenon DEF VerifiedUpTo, VerifiedBefore
<1>4. ASSUME NEW i \in Cpus \ {0}, VerifiedUpTo(i), ~(i < N - 1)
      PROVE  VerifiedBefore(0)
    <2> SUFFICES ASSUME NEW q \in Cpus, LaunchOrder(q) < LaunchOrder(0)
                 PROVE  Verified(q)
        BY Zenon DEF VerifiedBefore
    <2>1. LaunchOrder(q) < LaunchOrder(i) \/ q = i
        BY <1>4
    <2> QED BY <1>4, <2>1, Zenon DEF VerifiedUpTo, VerifiedBefore
<1> QED BY <1>1, <1>2, <1>3, <1>4, Zenon

\* After a round or a launch the start goes on to the next processor only when the
\* one it stands at is verified.
LEMMA RoundInOrder ==
    ASSUME VmmInv, OrderInv,
           WaitProbeDone \/ LaunchCheck \/ StagedCanaryDone \/ FinalCanaryDone
    PROVE  OrderInv'
<1>1. co \in CoType /\ IndexInv
    BY CalmFacts, Zenon
<1>2. UNCHANGED <<vcpuVars, workVars>>
    BY Zenon DEF WaitProbeDone, LaunchCheck, StagedCanaryDone, FinalCanaryDone
<1>3. StillAll
    BY <1>2, LeavesStill, Zenon
<1> DEFINE Quit == QuitsWell /\ UNCHANGED <<vcpuData, dump>>
           Go == UNCHANGED <<lifecycle, vcpuData, dump>> /\ co'.bound = co.bound
<1>4. ASSUME WaitProbeDone
      PROVE  /\ co.pc = "waitProbe"
             /\ \/ Quit
                \/ Go /\ co'.pc = "launch" /\ co'.i = 1 /\ co'.phase = co.phase
    <2>1. \/ Quit
          \/ /\ co' = [co EXCEPT !.pc = "launch", !.i = 1]
             /\ UNCHANGED <<lifecycle, vcpuData, dump>>
        BY <1>1, <1>4, ContinueWell, Zenon DEF WaitProbeDone
    <2> QED BY <1>1, <1>4, <2>1, Zenon DEF CoType, WaitProbeDone, CoAt
<1>5. ASSUME LaunchCheck
      PROVE  /\ co.pc = "launchCheck"
             /\ \/ Quit
                \/ /\ Go /\ co'.pc = "canary" /\ co'.i = co.i /\ co'.phase = co.phase
                   /\ co.result /\ ~co.unresolved
    <2>1. \/ Quit
          \/ /\ co' = [co EXCEPT !.pc = "canary", !.result = FALSE]
             /\ co.result /\ ~co.unresolved
             /\ UNCHANGED <<lifecycle, vcpuData, dump>>
        BY <1>1, <1>5, ContinueWell, Zenon DEF LaunchCheck
    <2> QED BY <1>1, <1>5, <2>1, Zenon DEF CoType, LaunchCheck, CoAt
<1>6. ASSUME StagedCanaryDone
      PROVE  /\ co.pc = "done" /\ co.phase = "staged"
             /\ \/ Quit
                \/ Go /\ co.i = 0 /\ co'.pc = "canary" /\ co'.phase = "final" /\ co'.i = 0
                \/ /\ Go /\ co.i # 0 /\ co.i < N - 1
                   /\ co'.pc = "launch" /\ co'.phase = "staged" /\ co'.i = co.i + 1
                \/ /\ Go /\ co.i # 0 /\ ~(co.i < N - 1)
                   /\ co'.pc = "handoff" /\ co'.phase = "staged"
    <2> DEFINE next == IF co.i = 0
                       THEN [co EXCEPT !.pc = "canary", !.phase = "final", !.result = FALSE]
                       ELSE IF co.i < N - 1
                       THEN [co EXCEPT !.pc = "launch", !.i = @ + 1, !.result = FALSE]
                       ELSE [co EXCEPT !.pc = "handoff", !.result = FALSE]
    <2>1. CoAt("done") /\ co.phase = "staged" /\ StartContinue(~co.result, next)
        BY <1>6, Zenon DEF StagedCanaryDone
    <2>2. /\ co.i = 0 => next.pc = "canary" /\ next.phase = "final" /\ next.i = co.i
          /\ co.i # 0 /\ co.i < N - 1 =>
                next.pc = "launch" /\ next.phase = co.phase /\ next.i = co.i + 1
          /\ co.i # 0 /\ ~(co.i < N - 1) => next.pc = "handoff" /\ next.phase = co.phase
          /\ next.bound = co.bound
        BY <1>1, Zenon DEF CoType
    <2> HIDE DEF next
    <2>3. Quit \/ (co' = next /\ UNCHANGED <<lifecycle, vcpuData, dump>>)
        BY <1>1, <2>1, ContinueWell, Zenon
    <2> QED BY <2>1, <2>2, <2>3, Zenon DEF CoAt
<1>7. ASSUME FinalCanaryDone
      PROVE  /\ co.pc = "done" /\ co.phase = "final"
             /\ \/ Quit
                \/ Go /\ co'.pc = "canary" /\ co'.phase = "final"
                \/ Go /\ co'.pc = "verify"
    <2> DEFINE next == IF co.i < N - 1
                       THEN [co EXCEPT !.pc = "canary", !.i = @ + 1, !.result = FALSE]
                       ELSE [co EXCEPT !.pc = "verify", !.result = FALSE]
    <2>1. CoAt("done") /\ co.phase = "final" /\ StartContinue(~co.result, next)
        BY <1>7, Zenon DEF FinalCanaryDone
    <2>2. /\ next.pc = "canary" \/ next.pc = "verify"
          /\ next.bound = co.bound /\ next.phase = co.phase
        BY <1>1, Zenon DEF CoType
    <2> HIDE DEF next
    <2>3. Quit \/ (co' = next /\ UNCHANGED <<lifecycle, vcpuData, dump>>)
        BY <1>1, <2>1, ContinueWell, Zenon
    <2> QED BY <2>1, <2>2, <2>3, Zenon DEF CoAt
<1>8. CASE Quit
    BY <1>3, <1>4, <1>5, <1>6, <1>7, <1>8, QuitInOrder, SMTT(60)
       DEF LaunchSteps, LaunchWaits, Waiting, WaitPlaces
<1>9. /\ co.pc \in {"waitProbe", "launchCheck"}
         \/ Waiting({"staged", "final"})
      /\ NoStops' /\ PendingStopInv' /\ lifecycle # "Running"
      /\ \A q \in Cpus : RecordInv(q)'
    <2>1. co.pc \in {"waitProbe", "launchCheck"} \/ Waiting({"staged", "final"})
        BY <1>4, <1>5, <1>6, <1>7, Zenon DEF Waiting, WaitPlaces
    <2>2. \/ co.pc \in LaunchSteps
          \/ Waiting({"probe", "staged", "final"})
        BY <2>1, Zenon DEF LaunchSteps, Waiting
    <2>3. co.pc \notin {"loaded", "stopClaim"}
        BY <2>1, Zenon DEF Waiting, WaitPlaces
    <2> QED BY <1>3, <2>1, <2>2, <2>3, PendingStays, Zenon DEF StillAll
<1>10. ASSUME Go, PendingLaunchInv', StagedInv', StopInvCo',
              co'.pc \notin {"allocate", "unloaded"}
       PROVE  OrderInv'
    BY <1>9, <1>10, Arrived, Zenon
<1>11. CASE WaitProbeDone /\ ~Quit
    <2>1. co.bound = 0 /\ co.phase = "none"
        BY <1>4, <1>11, Zenon DEF OrderInv, StagedInv
    <2>2. /\ co'.pc = "launch" /\ co'.i = 1 /\ co'.bound = 0 /\ co'.phase = "none" /\ Go
        BY <1>4, <1>11, <2>1, Zenon
    <2>3. VerifiedBefore(co.i)' /\ OffStage'
        BY <1>3, <2>2, LaunchOrders, SMTT(60) DEF StillAll, OffStage
    <2>4. PendingLaunchInv'
        BY <1>3, <1>4, <1>11, PendingStays, Zenon DEF LaunchWaits
    <2>5. StagedInv' /\ StopInvCo'
        BY <1>9, <2>2, <2>3, NextStage, NextPlace, Zenon
           DEF StagePlaces, LaunchWaits, StoppingAt, WaitPlaces, RetryPlaces
    <2> QED BY <1>10, <2>2, <2>4, <2>5, Zenon
<1>12. CASE LaunchCheck /\ ~Quit
    <2>1. /\ VerifiedBefore(co.i) /\ Verified(co.i) /\ OffStage
          /\ co.phase \in {"none", "staged"}
        BY <1>5, <1>12, Zenon DEF OrderInv, StagedInv, StagePlaces, OffStage
    <2>2. NoRoutines
        BY <1>5, <1>12, CalmFacts, Zenon
           DEF OrderInv, PendingLaunchInv, LaunchWaits, NoRoutines
    <2>3. PendingLaunchInv'
        BY <1>3, <2>2, PendingStays, Zenon
    <2>4. VerifiedUpTo(co.i)' /\ OffStage'
        BY <1>3, <1>5, <1>12, <2>1, Zenon DEF StillAll, VerifiedUpTo, OffStage
    <2>5. StagedInv' /\ StopInvCo'
        BY <1>5, <1>9, <1>12, <2>1, <2>4, NextStage, NextPlace, Zenon
           DEF StoppingAt, WaitPlaces, RetryPlaces
    <2> QED BY <1>5, <1>10, <1>12, <2>3, <2>5, Zenon
<1>13. CASE FinalCanaryDone /\ ~Quit
    <2>1. AllVerified'
        BY <1>3, <1>7, <1>13, SMTT(60) DEF OrderInv, StagedInv, StillAll, Waiting, WaitPlaces
    <2>2. PendingLaunchInv'
        BY <1>3, <1>7, <1>13, PendingStays, Zenon DEF LaunchWaits
    <2>3. StagedInv' /\ StopInvCo'
        BY <1>7, <1>9, <1>13, <2>1, NextStage, NextPlace, Zenon
           DEF StoppingAt, WaitPlaces, RetryPlaces
    <2> QED BY <1>7, <1>10, <1>13, <2>2, <2>3, Zenon
<1>14. CASE StagedCanaryDone /\ ~Quit
    <2>1. co.i \in Cpus /\ VerifiedUpTo(co.i) /\ OffStage
        BY <1>1, <1>6, <1>14, SMTT(60)
           DEF IndexInv, OrderInv, StagedInv, Waiting, WaitPlaces, OffStage
    <2>2. PendingLaunchInv'
        BY <1>3, <1>6, <1>14, PendingStays, Zenon DEF LaunchWaits
    <2>3. CASE co.i = 0
        <3>1. AllVerified'
            BY <1>3, <2>1, <2>3, LaunchOrders, Zenon DEF StillAll
        <3>2. StagedInv' /\ StopInvCo'
            BY <1>6, <1>9, <1>14, <2>3, <3>1, NextStage, NextPlace, SMTT(60)
               DEF StoppingAt, WaitPlaces, RetryPlaces
        <3> QED BY <1>6, <1>10, <1>14, <2>2, <2>3, <3>2, Zenon
    <2>4. CASE co.i # 0 /\ co.i < N - 1
        <3>1. VerifiedBefore(co.i + 1) /\ co.i + 1 # 0 /\ co.bound = 0
            BY <2>1, <2>4, LaunchOrders, NAssumption, SMTT(60) DEF Cpus, OffStage
        <3>2. VerifiedBefore(co.i)' /\ OffStage'
            BY <1>3, <1>6, <1>14, <2>4, <3>1, Zenon DEF StillAll, OffStage
        <3>3. StagedInv' /\ StopInvCo'
            BY <1>6, <1>9, <1>14, <2>4, <3>2, NextStage, NextPlace, SMTT(60)
               DEF StagePlaces, LaunchWaits, StoppingAt, WaitPlaces, RetryPlaces
        <3> QED BY <1>6, <1>10, <1>14, <2>2, <2>4, <3>3, SMTT(60)
    <2>5. CASE co.i # 0 /\ ~(co.i < N - 1)
        <3>1. VerifiedBefore(0)'
            BY <1>3, <2>1, <2>5, LaunchOrders, Zenon DEF StillAll
        <3>2. StagedInv' /\ StopInvCo'
            BY <1>6, <1>9, <1>14, <2>5, <3>1, NextStage, NextPlace, SMTT(60)
               DEF StoppingAt, WaitPlaces, RetryPlaces
        <3> QED BY <1>6, <1>10, <1>14, <2>2, <2>5, <3>2, SMTT(60)
    <2> QED BY <2>3, <2>4, <2>5, Zenon
<1> QED BY <1>8, <1>11, <1>12, <1>13, <1>14, Zenon

\* The thread leaves CPU 0 for a verified processor before CPU 0 is launched, and
\* Running is published over verified processors only.
LEMMA PublishInOrder ==
    ASSUME VmmInv, OrderInv, Handoff \/ Verify \/ Publish
    PROVE  OrderInv'
<1>1. co \in CoType
    BY CalmFacts, Zenon
<1>2. StillAll
    BY LeavesStill, Zenon DEF Handoff, Verify, Publish
<1>3. ASSUME Handoff
      PROVE  /\ co.pc = "handoff" /\ UNCHANGED <<vcpuData, dump, lifecycle>>
             /\ \/ co'.pc = "stopClaim" /\ ~co'.unresolved
                \/ /\ co'.pc = "launch" /\ co'.i = 0 /\ co'.phase = co.phase
                   /\ co'.bound \in Cpus \ {0}
    <2>1. CASE co' = Rollback \/ co' = [Rollback EXCEPT !.bound = co.bound]
        BY <1>1, <1>3, <2>1, Zenon DEF Handoff, CoAt, Rollback, CoInit, storageVars
    <2>2. ASSUME NEW p \in Cpus, HandoffCandidate(p),
                 co' = [co EXCEPT !.pc = "launch", !.i = 0, !.bound = p]
          PROVE  /\ co'.pc = "launch" /\ co'.i = 0 /\ co'.phase = co.phase
                 /\ co'.bound \in Cpus \ {0}
        <3>1. /\ co'.pc = "launch" /\ co'.i = 0 /\ co'.phase = co.phase
              /\ co'.bound = p
            BY <1>1, <2>2, Zenon DEF CoType
        <3> QED BY <2>2, <3>1, Zenon DEF HandoffCandidate
    <2> QED BY <1>3, <2>1, <2>2, Zenon DEF Handoff, CoAt, storageVars
<1>4. ASSUME Verify
      PROVE  /\ co.pc = "verify" /\ UNCHANGED <<vcpuData, dump, lifecycle>>
             /\ \/ co'.pc = "stopClaim" /\ ~co'.unresolved
                \/ co'.pc = "publish"
    BY <1>1, <1>4, Zenon DEF Verify, CoAt, CoGoto, Rollback, CoInit, CoType, storageVars
<1>5. ASSUME Publish
      PROVE  /\ co.pc = "publish" /\ UNCHANGED <<vcpuData, dump>>
             /\ lifecycle' = "Running" /\ co'.pc = "loaded"
             /\ ~co'.unresolved /\ ~co'.rollback
    BY <1>1, <1>5, Zenon DEF Publish, CoAt, CoInit
<1>6. CASE (Handoff \/ Verify) /\ co'.pc = "stopClaim"
    BY <1>2, <1>3, <1>4, <1>6, QuitInOrder, Zenon DEF QuitsWell, LaunchSteps, LaunchWaits
<1>7. ASSUME Handoff \/ Verify \/ Publish
      PROVE  /\ NoStops /\ lifecycle # "Running" /\ lifecycle # "Quarantined"
             /\ \A q \in Cpus : ~Stopper(q) /\ dpc[q].routine = "none"
    BY <1>3, <1>4, <1>5, CalmFacts, ZenonT(60)
       DEF OrderInv, StagedInv, RunningInv, PendingLaunchInv, LaunchSteps, LaunchWaits
<1>8. /\ \A q \in Cpus : RecordInv(q)'
      /\ NoStops' /\ PendingLaunchInv' /\ PendingStopInv'
    BY <1>2, <1>3, <1>4, <1>5, PendingStays, Zenon DEF StillAll, LaunchSteps, LaunchWaits
<1>9. CASE Handoff /\ co'.pc # "stopClaim"
    <2>1. co.phase \in {"none", "staged"} /\ VerifiedBefore(0)
        BY <1>3, <1>9, SMTT(60) DEF OrderInv, StagedInv
    <2>2. VerifiedBefore(co.i)' /\ OffStage'
        BY <1>2, <1>3, <1>9, <2>1, Zenon DEF StillAll, OffStage
    <2>3. StagedInv' /\ StopInvCo'
        BY <1>3, <1>8, <1>9, <2>1, <2>2, NextStage, NextPlace, Zenon
           DEF StagePlaces, LaunchWaits, StoppingAt, WaitPlaces, RetryPlaces
    <2> QED BY <1>3, <1>7, <1>8, <1>9, <2>3, Arrived, SMTT(60)
<1>10. CASE Verify /\ co'.pc # "stopClaim"
    <2>1. AllVerified'
        BY <1>2, <1>4, <1>10, SMTT(60) DEF OrderInv, StagedInv, StillAll
    <2>2. StagedInv' /\ StopInvCo'
        BY <1>4, <1>8, <1>10, <2>1, NextStage, NextPlace, Zenon
           DEF StoppingAt, WaitPlaces, RetryPlaces
    <2> QED BY <1>4, <1>7, <1>8, <1>10, <2>2, Arrived, SMTT(60)
<1>11. CASE Publish
    <2>1. AllVerified'
        BY <1>2, <1>5, <1>11, SMTT(60) DEF OrderInv, StagedInv, StillAll
    <2>2. StagedInv' /\ StopInvCo'
        BY <1>5, <1>8, <1>11, NextPlace, Zenon
    <2>3. RunningInv' /\ BlobInv'
        BY <1>5, <1>11, <2>1, SMTT(60) DEF OrderInv, RunningInv, BlobInv
    <2> QED BY <1>8, <2>2, <2>3, Zenon DEF OrderInv
<1> QED BY <1>6, <1>9, <1>10, <1>11, Zenon

\* Before the contexts exist nothing is pending; the crash blob comes first.
LEMMA EntryInOrder ==
    ASSUME VmmInv, OrderInv, DriverEntry \/ StartClaim \/ StartInitialize \/ StartReject
    PROVE  OrderInv'
<1>1. co \in CoType
    BY CalmFacts, Zenon
<1>2. UNCHANGED <<vcpu, cpu, work, dpc, vcpuData>>
    BY Zenon DEF DriverEntry, StartClaim, StartInitialize, StartReject, vcpuVars, workVars
<1>3. StillAll
    BY <1>2, StillKeeps, Zenon DEF Still, SameJob
<1>4. /\ co.pc \in {"unloaded", "start", "capabilities", "allocate"}
      /\ co'.pc \in {"start", "capabilities", "allocate", "entryFailed"}
      /\ lifecycle' \in {lifecycle, "Starting", "Idle"}
      /\ co'.pc = "allocate" => dump'.blob
    <2>1. ASSUME DriverEntry
          PROVE  co.pc = "unloaded" /\ co'.pc = "start" /\ lifecycle' = lifecycle
        BY <1>1, <2>1, EarlyMoves, Zenon DEF DriverEntry
    <2>2. ASSUME StartClaim
          PROVE  /\ co.pc = "start" /\ co'.pc \in {"capabilities", "entryFailed"}
                 /\ lifecycle' \in {lifecycle, "Starting"}
        BY <1>1, <2>2, EarlyMoves, Zenon DEF StartClaim
    <2>3. ASSUME StartInitialize
          PROVE  /\ co.pc = "capabilities" /\ co'.pc = "allocate"
                 /\ lifecycle' = lifecycle /\ dump'.blob
        BY <1>1, <2>3, EarlyMoves, Zenon DEF StartInitialize, VmmInv, VmmTypeOK
    <2>4. ASSUME StartReject
          PROVE  /\ co.pc \in {"capabilities", "allocate"}
                 /\ co'.pc = "entryFailed" /\ lifecycle' = "Idle"
        BY <1>1, <2>4, EarlyMoves, Zenon DEF StartReject
    <2> QED BY <2>1, <2>2, <2>3, <2>4, Zenon
<1>5. ~vcpuData /\ NoRoutines /\ \A q \in Cpus : ~Stopper(q) /\ dpc[q].routine = "none"
    BY <1>4, CalmFacts, Zenon DEF OutsideSteps
<1>6. lifecycle' # "Running"
    BY <1>4, Zenon DEF OrderInv, RunningInv
<1>7. /\ \A q \in Cpus : RecordInv(q)' /\ ~Stopper(q)' /\ dpc'[q].routine = "none"
      /\ co'.pc \in {"start", "capabilities", "allocate", "entryFailed"}
      /\ ~vcpuData' /\ (co'.pc = "allocate" => dump'.blob)
    BY <1>2, <1>3, <1>4, <1>5, Zenon DEF StillAll
<1>8. PendingLaunchInv' /\ PendingStopInv' /\ RunningInv' /\ BlobInv'
    BY <1>6, <1>7, Zenon DEF PendingLaunchInv, PendingStopInv, RunningInv, BlobInv
<1>9. StagedInv' /\ StopInvCo'
    BY <1>7, Zenon
       DEF StagedInv, StopInvCo, WaitPlaces, LaunchWaits, StagePlaces, LaunchSteps,
       Waiting, RetryPlaces, StopWaits, StopEnds
<1> QED BY <1>7, <1>8, <1>9, Zenon DEF OrderInv

\* The probe round runs on CPU 0 and changes nothing but its place.
LEMMA RoundKeepsOrder ==
    ASSUME VmmInv, OrderInv, QueueProbeDone \/ WaitProbe \/ ProbeDone
    PROVE  OrderInv'
<1>1. co \in CoType
    BY CalmFacts, Zenon
<1>2. StillAll /\ UNCHANGED storageVars
    BY LeavesStill, Zenon DEF QueueProbeDone, WaitProbe, ProbeDone
<1>3. /\ co.pc \in {"queueProbe", "waitProbe"} \/ (co.pc = "done" /\ co.phase = "probe")
      /\ co'.bound = co.bound
      /\ \/ co'.pc = "waitProbe" /\ co'.phase = "none"
         \/ co'.pc = "waitProbe" /\ co'.phase = co.phase /\ co.pc # "done"
         \/ co'.pc = "wait" /\ co'.phase = "probe"
    <2>1. ASSUME QueueProbeDone
          PROVE  /\ co.pc = "queueProbe" /\ co'.bound = co.bound
                 /\ co'.pc = "waitProbe" /\ co'.phase = co.phase
        BY <1>1, <2>1, Zenon DEF QueueProbeDone, CoAt, CoType
    <2>2. ASSUME WaitProbe
          PROVE  /\ co.pc = "waitProbe" /\ co'.bound = co.bound
                 /\ \/ co'.pc = "waitProbe" /\ co'.phase = co.phase
                    \/ co'.pc = "wait" /\ co'.phase = "probe"
        BY <1>1, <2>2, Zenon DEF WaitProbe, CoAt, CoType
    <2>3. ASSUME ProbeDone
          PROVE  /\ co.pc = "done" /\ co.phase = "probe" /\ co'.bound = co.bound
                 /\ co'.pc = "waitProbe" /\ co'.phase = "none"
        BY <1>1, <2>3, Zenon DEF ProbeDone, CoAt, CoType
    <2> QED BY <2>1, <2>2, <2>3, Zenon
<1>4. /\ NoStops /\ lifecycle # "Running" /\ lifecycle # "Quarantined" /\ co.bound = 0
      /\ \A q \in Cpus : ~Stopper(q) /\ dpc[q].routine = "none"
      /\ co.pc # "done" => co.phase = "none"
    BY <1>3, CalmFacts, SMTT(60)
       DEF OrderInv, StagedInv, RunningInv, PendingLaunchInv, LaunchSteps, LaunchWaits,
           Waiting, WaitPlaces
<1>5. /\ \A q \in Cpus : RecordInv(q)'
      /\ NoStops' /\ PendingLaunchInv' /\ PendingStopInv'
    <2>1. \A q \in Cpus : RecordInv(q)' /\ ~Stopper(q)' /\ dpc'[q].routine = "none"
        BY <1>2, <1>4, Zenon DEF StillAll, SameJob
    <2> QED BY <1>2, <1>4, <2>1, Zenon DEF StillAll, PendingLaunchInv, PendingStopInv
<1>6. StagedInv'
    BY <1>3, <1>4, <1>5, NextStage, Zenon DEF WaitPlaces
<1>7. StopInvCo'
    BY <1>3, NextPlace, Zenon DEF WaitPlaces, StoppingAt, RetryPlaces, StopPhases
<1> QED BY <1>2, <1>3, <1>4, <1>5, <1>6, <1>7, Arrived, ZenonT(60) DEF storageVars

\* Contexts and records are zeroed only while nothing is pending.
LEMMA ZeroInOrder ==
    ASSUME VmmInv, OrderInv, StartAllocate \/ StartAllocateFails \/ Reclaim
    PROVE  OrderInv'
<1>1. co \in CoType
    BY CalmFacts, Zenon
<1>2. ZeroAll /\ UNCHANGED <<lifecycle, dump>>
    BY Zenon DEF StartAllocate, StartAllocateFails, Reclaim
<1>3. \/ /\ co.pc = "allocate" /\ co'.pc = "queueProbe" /\ co'.bound = 0
         /\ co'.phase = "none"
      \/ co.pc = "allocate" /\ co'.pc = "stopClaim" /\ ~co'.unresolved
      \/ co.pc = "reclaim" /\ co'.pc = "setIdle" /\ ~vcpuData'
    <2>1. ASSUME StartAllocate
          PROVE  /\ co.pc = "allocate" /\ co'.pc = "queueProbe" /\ co'.bound = 0
                 /\ co'.phase = "none"
        BY <2>1, Zenon DEF StartAllocate, CoAt, CoInit
    <2>2. ASSUME StartAllocateFails
          PROVE  co.pc = "allocate" /\ co'.pc = "stopClaim" /\ ~co'.unresolved
        BY <2>2, Zenon DEF StartAllocateFails, CoAt, CoInit, Rollback
    <2>3. ASSUME Reclaim
          PROVE  co.pc = "reclaim" /\ co'.pc = "setIdle" /\ ~vcpuData'
        BY <1>1, <2>3, Zenon DEF Reclaim, CoAt, CoGoto, CoType
    <2> QED BY <2>1, <2>2, <2>3, Zenon
<1>4. NoWorkers /\ NoRoutines /\ lifecycle # "Running" /\ lifecycle # "Quarantined"
    BY <1>3, CalmFacts, Zenon DEF OutsideSteps, OrderInv, RunningInv
<1>5. \A q \in Cpus : /\ work'[q].thread = "none" /\ work'[q].Operation = "None"
                      /\ ~work'[q].Result
                      /\ dpc'[q].routine = "none" /\ ~dpc'[q].Result
    BY <1>2, <1>4, Zenon DEF ZeroAll, ZeroWork, ZeroDpc, NoWorkers, NoRoutines
<1>6. /\ \A q \in Cpus : RecordInv(q)' /\ ~Stopper(q)'
      /\ NoStops'
    BY <1>5, Zenon DEF RecordInv, Stopper, NoStops
<1>7. co.pc = "allocate" => dump.blob
    BY Zenon DEF OrderInv, BlobInv
<1>8. PendingLaunchInv' /\ PendingStopInv'
    BY <1>5, <1>6, Zenon DEF PendingLaunchInv, PendingStopInv
<1>9. RunningInv' /\ BlobInv'
    BY <1>2, <1>3, <1>4, <1>7, Zenon DEF RunningInv, BlobInv
<1>10. StagedInv'
    BY <1>3, <1>6, NextStage, NextPlace, Zenon DEF StagedAt, WaitPlaces, LaunchSteps
<1>11. StopInvCo'
    BY <1>3, NextPlace, Zenon DEF StoppingAt, WaitPlaces, RetryPlaces
<1> QED BY <1>6, <1>8, <1>9, <1>10, <1>11, SMTT(60) DEF OrderInv

-----------------------------------------------------------------------------
\* The driver starts with nothing launched, queued or owned.
LEMMA OrderInitHolds == Init => OrderInv
<1> SUFFICES ASSUME Init PROVE OrderInv
    BY Zenon
<1>1. /\ \A q \in Cpus : /\ work[q].thread = "none" /\ work[q].Operation = "None"
                         /\ ~work[q].Result
                         /\ dpc[q].routine = "none" /\ ~dpc[q].Result
      /\ co.pc = "unloaded" /\ lifecycle = "Idle" /\ dump = NoDump /\ ~vcpuData
    BY Zenon DEF Init, WorkInit, ZeroWork, ZeroDpc, CoInit
<1>2. \A q \in Cpus : RecordInv(q) /\ ~Stopper(q)
    BY <1>1, Zenon DEF RecordInv, Stopper
<1>3. PendingLaunchInv /\ PendingStopInv /\ RunningInv /\ BlobInv
    BY <1>1, <1>2, Zenon DEF PendingLaunchInv, PendingStopInv, RunningInv, BlobInv
<1>4. StagedInv /\ StopInvCo
    BY <1>1, Zenon
       DEF StagedInv, StopInvCo, WaitPlaces, LaunchWaits, StagePlaces, LaunchSteps,
       Waiting, RetryPlaces, StopWaits, StopEnds
<1> QED BY <1>2, <1>3, <1>4, Zenon DEF OrderInv

\* Every step keeps launches and stops in order.
LEMMA OrderStepKeeps == VmmInv /\ OrderInv /\ [Next]_vars => OrderInv'
<1> SUFFICES ASSUME VmmInv, OrderInv, [Next]_vars PROVE OrderInv'
    BY Zenon
<1>1. CASE UNCHANGED vars
    <2>1. UNCHANGED <<vcpuVars, workVars>> /\ UNCHANGED <<storageVars, co>>
        BY <1>1, Zenon DEF vars, vmmVars, storageVars
    <2> QED BY <2>1, LeavesStill, SameCoInOrder, CalmFacts, Zenon
<1>2. CASE Start
    BY <1>2, EntryInOrder, RoundKeepsOrder, ZeroInOrder, ProbeInOrder, RoundInOrder,
       StagedLaunchKeepsOrder, PublishInOrder, Zenon DEF Start
<1>3. CASE StopHypervisor \/ DriverUnload
    BY <1>3, StopBeginsInOrder, StopGoesInOrder, StopEndsInOrder, AttemptInOrder,
       LeaveInOrder, ZeroInOrder, ZenonT(60) DEF StopHypervisor
<1>4. CASE WaitTargetOperation \/ WaitTargetLaunchDpc
    BY <1>4, WaitKeepsOrder, LaunchWaitInOrder, Zenon
<1>5. ASSUME NEW p \in Cpus,
             \/ (Run(p) \/ Disturb(p)) /\ UNCHANGED <<workVars, vmmVars>>
             \/ /\ TargetCpuWorker(p) \/ TargetLaunchDpcRoutine(p)
                /\ UNCHANGED <<hostFault, crashed, vmmVars>>
      PROVE  OrderInv'
    <2>1. ProcessorStep(p)
        BY <1>5, Zenon DEF ProcessorStep
    <2> QED BY <2>1, ProcessorKeepsOrder, Zenon
<1> QED BY <1>1, <1>2, <1>3, <1>4, <1>5, Zenon DEF Next, Coordinator

\* Launches and stops are ordered in every state the driver reaches, for any number
\* of processors and retries: OrderInv is inductive on top of VmmInv.
THEOREM LaunchesAndStopsInOrder == Spec => []OrderInv
<1>1. VmmInv /\ OrderInv /\ [Next]_vars => OrderInv'
    BY OrderStepKeeps, Zenon
<1> QED BY <1>1, OrderInitHolds, DriverInvariant, PTL DEF Spec

\* StartHypervisor publishes Running only over processors that all run as verified
\* guests, and only a fatal exit takes one away before the stop begins.
THEOREM RunningWhole == Spec => []RunningIsWhole
<1>1. OrderInv => RunningIsWhole
    BY Zenon DEF OrderInv, RunningInv, AllVerified, Verified, RunningIsWhole
<1> QED BY <1>1, LaunchesAndStopsInOrder, PTL

\* The staged launch of StartHypervisor reaches a processor only after every earlier
\* one in the order 1 .. N-1, 0 is a verified guest.
THEOREM StagedInOrder == Spec => []StagedLaunchInOrder
<1>1. OrderInv => StagedLaunchInOrder
    BY Zenon DEF OrderInv, PendingLaunchInv, VerifiedBefore, Verified, StagedLaunchInOrder
<1> QED BY <1>1, LaunchesAndStopsInOrder, PTL

\* The coordinator never waits for a launch or stop of the processor its thread is
\* bound to, and stops the last processor from a native one.
THEOREM ThreadOffTarget == Spec => []CoordinatorOffTarget
<1>1. VmmInv /\ OrderInv => CoordinatorOffTarget
    <2> SUFFICES ASSUME VmmInv, OrderInv PROVE CoordinatorOffTarget
        BY Zenon
    <2>1. co.pc \in LaunchWaits => co.bound \in Cpus \ {co.i}
        <3> SUFFICES ASSUME co.pc \in LaunchWaits
                     PROVE  co.bound \in Cpus \ {co.i}
            BY Zenon
        <3>1. IF co.i = 0 THEN co.bound \in Cpus \ {0} ELSE co.bound = 0
            BY Zenon DEF OrderInv, StagedInv, StagePlaces
        <3> QED BY <3>1, NAssumption DEF Cpus
    <2>2. ASSUME co.phase \in {"stop", "stopReserved"}, co.pc \in {"wait", "grace"}
          PROVE  /\ co.bound \in Cpus \ {co.i}
                 /\ co.phase = "stopReserved" => cpu[co.bound].mode = "native"
        <3>1. co.reserved \in Cpus
            BY <2>2, Zenon DEF VmmInv, IndexInv, WaitPlaces
        <3>2. StopInvCo /\ co.pc \in WaitPlaces \cup RetryPlaces
            BY <2>2, SMTT(60) DEF OrderInv, WaitPlaces
        <3> QED BY <2>2, <3>1, <3>2, Zenon DEF StopInvCo
    <2> QED BY <2>1, <2>2, Zenon DEF CoordinatorOffTarget, LaunchWaits
<1> QED BY <1>1, LaunchesAndStopsInOrder, DriverInvariant, PTL

\* Two processors are never inside the stop callback or its VMCALL together.
THEOREM StopsOneByOne == Spec => []OneStopAtATime
<1>1. OrderInv => OneStopAtATime
    BY Zenon DEF OrderInv, RecordInv, PendingStopInv, Stopper, OneStopAtATime
<1> QED BY <1>1, LaunchesAndStopsInOrder, PTL

\* When StopTargetProcessorWithRetries reports success the processor left VMX, its
\* VMCS is cleared and no worker is left on it.
THEOREM StopSuccessProved == Spec => []StopSuccessIsProof
<1>1. VmmInv /\ OrderInv => StopSuccessIsProof
    <2> SUFFICES ASSUME VmmInv, OrderInv, co.pc = "stopDone", co.result
                 PROVE  /\ cpu[co.i] = NativeCpu
                        /\ vcpu[co.i].VmcsCurrent = "None"
                        /\ work[co.i].thread = "none"
        BY Zenon DEF StopSuccessIsProof
    <2>1. co.i \in Cpus
        BY Zenon DEF VmmInv, IndexInv, RetryPlaces
    <2>2. cpu[co.i] = NativeCpu /\ Terminal(co.i) /\ NoWorkers
        BY Zenon DEF OrderInv, StopInvCo
    <2>3. vcpu[co.i].VmcsCurrent = "None"
        BY <2>1, <2>2, PlaceFacts, Zenon DEF VmmInv, Terminal
    <2> QED BY <2>1, <2>2, <2>3, Zenon DEF NoWorkers
<1> QED BY <1>1, LaunchesAndStopsInOrder, DriverInvariant, PTL

\* The crash blob exists for as long as contexts do, and an unmapped driver owns
\* neither blob nor dump callback.
THEOREM CrashBlobIsOwned == Spec => []CrashBlobOwned
<1>1. OrderInv => CrashBlobOwned
    BY Zenon DEF OrderInv, BlobInv, CrashBlobOwned
<1> QED BY <1>1, LaunchesAndStopsInOrder, PTL

=============================================================================
