----------------------------- MODULE VcpuProofs -----------------------------
EXTENDS Vcpu, TLAPS

(***************************************************************************)
(* Proofs about Vcpu.tla for every number of processors N.                 *)
(*                                                                         *)
(* The argument: a place of the code fixes what a processor owns.  CpuInv  *)
(* says so for one processor, VcpuInv for all of them, and VcpuInv is      *)
(* inductive.  Each group of actions (launch, stop, exit, release, and the *)
(* rest) has a typing lemma and a place lemma; Frame lifts a step of one   *)
(* processor to all.  The safety theorems follow from PlaceInvariant by    *)
(* reading CpuInv at the places they speak of.                             *)
(***************************************************************************)

\* Every constant the actions assign is a member of its enumeration in common.h or
\* vmm_internal.h (or of the model's own places).
LEMMA Names ==
    /\ "Uninitialized" \in VcpuStates /\ "Starting" \in VcpuStates
    /\ "VmxOn" \in VcpuStates /\ "Launched" \in VcpuStates
    /\ "TearingDown" \in VcpuStates /\ "Stopped" \in VcpuStates
    /\ "Failed" \in VcpuStates /\ "Parked" \in VcpuStates
    /\ "None" \in LaunchStages /\ "Entry" \in LaunchStages
    /\ "VmxOn" \in LaunchStages /\ "Ready" \in LaunchStages
    /\ "Handoff" \in LaunchStages /\ "GuestActive" \in LaunchStages
    /\ "Teardown" \in LaunchStages /\ "Stopped" \in LaunchStages
    /\ "Abort" \in LaunchStages /\ "Parked" \in LaunchStages
    /\ "None" \in VmcsCurrentStates /\ "Active" \in VmcsCurrentStates
    /\ "Clearing" \in VmcsCurrentStates /\ "Failed" \in VmcsCurrentStates
    /\ "none" \in Paths /\ "rollback" \in Paths /\ "restore" \in Paths
    /\ "halt" \in Paths /\ "dead" \in Paths
    /\ "idle" \in Places /\ "launch" \in Places /\ "prepare" \in Places
    /\ "vmxon" \in Places /\ "loading" \in Places /\ "vmcs" \in Places
    /\ "ready" \in Places /\ "handoff" \in Places /\ "vmlaunch" \in Places
    /\ "entered" \in Places /\ "probe" \in Places /\ "abort" \in Places
    /\ "abortOwned" \in Places /\ "unwound" \in Places
    /\ "launchReturn" \in Places /\ "stop" \in Places
    /\ "claimStage" \in Places /\ "claimState" \in Places
    /\ "request" \in Places /\ "vmcall" \in Places
    /\ "deferRequest" \in Places /\ "deferStage" \in Places
    /\ "deferState" \in Places /\ "native" \in Places
    /\ "quiesced" \in Places /\ "stopped" \in Places
    /\ "stopReturn" \in Places /\ "unload" \in Places /\ "restore" \in Places
    /\ "park" \in Places /\ "clear" \in Places /\ "clearing" \in Places
    /\ "vmxoff" \in Places /\ "bugcheck" \in Places /\ "hung" \in Places
BY Zenon DEF VcpuStates, LaunchStages, VmcsCurrentStates, Paths, Places,
       LaunchPlaces, StopPlaces, ExitPlaces, ReleasePlaces, EndPlaces

\* The steps of EnableHvCallback, PrepareHvCallback and AbortHvLaunch keep the
\* types.
LEMMA LaunchTypes ==
    ASSUME VcpuTypeOK, NEW p \in Cpus, Launch(p), UNCHANGED <<hostFault, crashed>>
    PROVE  VcpuTypeOK'
<1> USE Names DEF VcpuTypeOK, At, Goto
<1>1. CASE PrepareClaim(p)
    BY <1>1, Zenon DEF PrepareClaim
<1>2. CASE PrepareRefuse(p)
    BY <1>2, Zenon DEF PrepareRefuse
<1>3. CASE PrepareReject(p)
    BY <1>3, ZenonT(60) DEF PrepareReject
<1>4. CASE PrepareVmxOn(p)
    BY <1>4, ZenonT(60) DEF PrepareVmxOn
<1>5. CASE PreparePublish(p)
    BY <1>5, ZenonT(60) DEF PreparePublish
<1>6. CASE PrepareLoadVmcs(p)
    BY <1>6, ZenonT(60) DEF PrepareLoadVmcs
<1>7. CASE PrepareAbandon(p)
    BY <1>7, ZenonT(60) DEF PrepareAbandon
<1>8. CASE PrepareReady(p)
    BY <1>8, ZenonT(60) DEF PrepareReady
<1>9. CASE MarkHandoff(p)
    BY <1>9, ZenonT(60) DEF MarkHandoff, CasStage
<1>10. CASE MarkLaunched(p)
    BY <1>10, ZenonT(60) DEF MarkLaunched, CasState
<1>11. CASE VmLaunch(p)
    BY <1>11, ZenonT(60) DEF VmLaunch
<1>12. CASE LaunchFails(p)
    BY <1>12, Zenon DEF LaunchFails
<1>13. CASE AbortClaimStage(p)
    BY <1>13, ZenonT(60) DEF AbortClaimStage, CasStage
<1>14. CASE AbortClaimState(p)
    BY <1>14, ZenonT(60) DEF AbortClaimState
<1>15. CASE LaunchFailed(p)
    BY <1>15, ZenonT(60) DEF LaunchFailed
<1>16. CASE MarkCurrentVcpuRunning(p)
    BY <1>16, Zenon DEF MarkCurrentVcpuRunning
<1>17. CASE RunFirstExitProbe(p)
    BY <1>17, ZenonT(60) DEF RunFirstExitProbe
<1> QED BY <1>1, <1>2, <1>3, <1>4, <1>5, <1>6, <1>7, <1>8, <1>9, <1>10, <1>11, <1>12, <1>13, <1>14, <1>15, <1>16, <1>17, Zenon
      DEF Launch

\* The steps of StopHvCallback keep the types.
LEMMA StopTypes ==
    ASSUME VcpuTypeOK, NEW p \in Cpus, Stop(p), UNCHANGED <<hostFault, crashed>>
    PROVE  VcpuTypeOK'
<1> USE Names DEF VcpuTypeOK, At, Goto
<1>1. CASE StopEnter(p)
    BY <1>1, ZenonT(60) DEF StopEnter
<1>2. CASE StopClaimStage(p)
    BY <1>2, ZenonT(60) DEF StopClaimStage, CasStage
<1>3. CASE StopClaimState(p)
    BY <1>3, ZenonT(60) DEF StopClaimState, CasState
<1>4. CASE StopRequest(p)
    BY <1>4, Zenon DEF StopRequest
<1>5. CASE StopVmcall(p)
    BY <1>5, ZenonT(60) DEF StopVmcall
<1>6. CASE StopDeferRequest(p)
    BY <1>6, Zenon DEF StopDeferRequest
<1>7. CASE StopDeferStage(p)
    BY <1>7, ZenonT(60) DEF StopDeferStage, CasStage
<1>8. CASE StopDeferState(p)
    BY <1>8, ZenonT(60) DEF StopDeferState, CasState
<1>9. CASE StopUnconsumed(p)
    BY <1>9, ZenonT(60) DEF StopUnconsumed
<1>10. CASE StopPublishState(p)
    BY <1>10, ZenonT(60) DEF StopPublishState, CasState
<1>11. CASE StopPublishStage(p)
    BY <1>11, ZenonT(60) DEF StopPublishStage, CasStage
<1> QED BY <1>1, <1>2, <1>3, <1>4, <1>5, <1>6, <1>7, <1>8, <1>9, <1>10, <1>11, Zenon DEF Stop

\* The VM-exit steps (unload request, fatal exit, native restore) keep the types.
LEMMA ExitTypes ==
    ASSUME VcpuTypeOK, NEW p \in Cpus, Exit(p), UNCHANGED <<hostFault, crashed>>
    PROVE  VcpuTypeOK'
<1> USE Names DEF VcpuTypeOK, At, Goto
<1>1. CASE UnloadDefer(p)
    BY <1>1, ZenonT(60) DEF UnloadDefer
<1>2. CASE UnloadAccept(p)
    BY <1>2, Zenon DEF UnloadAccept
<1>3. CASE UnloadHalt(p)
    BY <1>3, ZenonT(60) DEF UnloadHalt
<1>4. CASE MarkCurrentVcpuTearingDown(p)
    <2>1. CASE Authorized(p)
        BY <1>4, <2>1, ZenonT(60) DEF MarkCurrentVcpuTearingDown
    <2>2. CASE ~Authorized(p)
        BY <1>4, <2>2, ZenonT(60) DEF MarkCurrentVcpuTearingDown
    <2> QED BY <2>1, <2>2, Zenon
<1>5. CASE RestoreInvalid(p)
    BY <1>5, ZenonT(60) DEF RestoreInvalid
<1>6. CASE MarkCurrentVcpuParked(p)
    BY <1>6, ZenonT(60) DEF MarkCurrentVcpuParked
<1> QED BY <1>1, <1>2, <1>3, <1>4, <1>5, <1>6, Zenon DEF Exit

\* VMCLEAR, VMXOFF and their failures keep the types.
LEMMA ReleaseTypes ==
    ASSUME VcpuTypeOK, NEW p \in Cpus, Release(p), UNCHANGED <<hostFault, crashed>>
    PROVE  VcpuTypeOK'
<1> USE Names DEF VcpuTypeOK, At, Goto
<1>1. CASE ClearVmcsBegin(p)
    BY <1>1, Zenon DEF ClearVmcsBegin
<1>2. CASE ClearVmcsAbsent(p)
    BY <1>2, ZenonT(60) DEF ClearVmcsAbsent
<1>3. CASE ClearVmcsDone(p)
    BY <1>3, ZenonT(60) DEF ClearVmcsDone
<1>4. CASE ClearVmcsFails(p)
    BY <1>4, ZenonT(60) DEF ClearVmcsFails
<1>5. CASE VmxOff(p)
    <2>1. AfterVmxOff(cpu[p].path) \in Places
        BY Zenon DEF AfterVmxOff
    <2> QED BY <1>5, <2>1, ZenonT(60) DEF VmxOff
<1>6. CASE VmxOffFails(p)
    BY <1>6, ZenonT(60) DEF VmxOffFails
<1> QED BY <1>1, <1>2, <1>3, <1>4, <1>5, <1>6, Zenon DEF Release

\* A step of processor p that keeps p's place invariant keeps everyone's.
LEMMA Frame ==
    ASSUME VcpuInv, NEW p \in Cpus, VcpuTypeOK', CpuInv(vcpu'[p], cpu'[p]),
           \A q \in Cpus \ {p} : vcpu'[q] = vcpu[q] /\ cpu'[q] = cpu[q]
    PROVE  VcpuInv'
BY Zenon DEF VcpuInv

\* The launch steps keep the place invariant of the processor that takes them:
\* state, stage and VMCS ownership advance together up to VMLAUNCH.
LEMMA LaunchKeeps ==
    ASSUME VcpuInv, NEW p \in Cpus, Launch(p), UNCHANGED <<hostFault, crashed>>
    PROVE  CpuInv(vcpu'[p], cpu'[p])
<1> CpuInv(vcpu[p], cpu[p])
    BY Zenon DEF VcpuInv
<1> USE DEF VcpuInv, VcpuTypeOK, At, Goto, CpuInv, IdleInv, LaunchInv, StopInv,
            ReleaseInv, PathInv, RequestInv, Is, IdlePlaces,
            RequestPlaces, ReleasePlaces, EndPlaces, LaunchStages
<1>1. CASE PrepareClaim(p)
    BY <1>1, SMTT(30) DEF PrepareClaim
<1>2. CASE PrepareRefuse(p)
    BY <1>2, SMTT(30) DEF PrepareRefuse
<1>3. CASE PrepareReject(p)
    BY <1>3, SMTT(30) DEF PrepareReject
<1>4. CASE PrepareVmxOn(p)
    BY <1>4, SMTT(30) DEF PrepareVmxOn
<1>5. CASE PreparePublish(p)
    BY <1>5, SMTT(30) DEF PreparePublish
<1>6. CASE PrepareLoadVmcs(p)
    BY <1>6, SMTT(60) DEF PrepareLoadVmcs
<1>7. CASE PrepareAbandon(p)
    BY <1>7, SMTT(60) DEF PrepareAbandon
<1>8. CASE PrepareReady(p)
    BY <1>8, SMTT(60) DEF PrepareReady
<1>9. CASE MarkHandoff(p)
    BY <1>9, SMTT(60) DEF MarkHandoff, CasStage
<1>10. CASE MarkLaunched(p)
    BY <1>10, SMTT(60) DEF MarkLaunched, CasState
<1>11. CASE VmLaunch(p)
    BY <1>11, SMTT(60) DEF VmLaunch
<1>12. CASE LaunchFails(p)
    BY <1>12, SMTT(60) DEF LaunchFails
<1>13. CASE AbortClaimStage(p)
    BY <1>13, SMTT(60) DEF AbortClaimStage, CasStage
<1>14. CASE AbortClaimState(p)
    BY <1>14, SMTT(60) DEF AbortClaimState
<1>15. CASE LaunchFailed(p)
    BY <1>15, SMTT(60) DEF LaunchFailed
<1>16. CASE MarkCurrentVcpuRunning(p)
    BY <1>16, SMTT(60) DEF MarkCurrentVcpuRunning
<1>17. CASE RunFirstExitProbe(p)
    BY <1>17, SMTT(30) DEF RunFirstExitProbe
<1> HIDE DEF CpuInv, VcpuInv, VcpuTypeOK
<1> QED BY <1>1, <1>2, <1>3, <1>4, <1>5, <1>6, <1>7, <1>8, <1>9, <1>10, <1>11, <1>12, <1>13, <1>14, <1>15, <1>16, <1>17, Zenon
      DEF Launch

\* The steps of StopHvCallback keep the place invariant: both claims before the
\* authorization, and all three given back in a deferral.
LEMMA StopKeeps ==
    ASSUME VcpuInv, NEW p \in Cpus, Stop(p), UNCHANGED <<hostFault, crashed>>
    PROVE  CpuInv(vcpu'[p], cpu'[p])
<1> CpuInv(vcpu[p], cpu[p])
    BY Zenon DEF VcpuInv
<1> USE DEF VcpuInv, VcpuTypeOK, At, Goto, CpuInv, IdleInv, LaunchInv, StopInv,
            ReleaseInv, PathInv, RequestInv, Is, IdlePlaces,
            RequestPlaces, ReleasePlaces, EndPlaces, LaunchStages
<1>1. CASE StopEnter(p)
    BY <1>1, SMTT(30) DEF StopEnter
<1>2. CASE StopClaimStage(p)
    BY <1>2, SMTT(60) DEF StopClaimStage, CasStage
<1>3. CASE StopClaimState(p)
    BY <1>3, SMTT(30) DEF StopClaimState, CasState
<1>4. CASE StopRequest(p)
    BY <1>4, SMTT(30) DEF StopRequest
<1>5. CASE StopVmcall(p)
    BY <1>5, SMTT(30) DEF StopVmcall
<1>6. CASE StopDeferRequest(p)
    BY <1>6, SMTT(30) DEF StopDeferRequest
<1>7. CASE StopDeferStage(p)
    BY <1>7, SMTT(30) DEF StopDeferStage, CasStage
<1>8. CASE StopDeferState(p)
    BY <1>8, SMTT(30) DEF StopDeferState, CasState
<1>9. CASE StopUnconsumed(p)
    BY <1>9, SMTT(60) DEF StopUnconsumed
<1>10. CASE StopPublishState(p)
    BY <1>10, SMTT(60) DEF StopPublishState, CasState
<1>11. CASE StopPublishStage(p)
    BY <1>11, SMTT(30) DEF StopPublishStage, CasStage
<1> HIDE DEF CpuInv, VcpuInv, VcpuTypeOK
<1> QED BY <1>1, <1>2, <1>3, <1>4, <1>5, <1>6, <1>7, <1>8, <1>9, <1>10, <1>11, Zenon DEF Stop

\* The VM-exit steps keep the place invariant: only an authorized processor
\* enters the restore path.
LEMMA ExitKeeps ==
    ASSUME VcpuInv, NEW p \in Cpus, Exit(p), UNCHANGED <<hostFault, crashed>>
    PROVE  CpuInv(vcpu'[p], cpu'[p])
<1> CpuInv(vcpu[p], cpu[p])
    BY Zenon DEF VcpuInv
<1> USE DEF VcpuInv, VcpuTypeOK, At, Goto, CpuInv, IdleInv, LaunchInv, StopInv,
            ReleaseInv, PathInv, RequestInv, Is, IdlePlaces,
            RequestPlaces, ReleasePlaces, EndPlaces, LaunchStages
<1>1. CASE UnloadDefer(p)
    BY <1>1, SMTT(30) DEF UnloadDefer
<1>2. CASE UnloadAccept(p)
    BY <1>2, SMTT(30) DEF UnloadAccept
<1>3. CASE UnloadHalt(p)
    BY <1>3, SMTT(30) DEF UnloadHalt
<1>4. CASE MarkCurrentVcpuTearingDown(p)
    <2>1. Authorized(p)
        BY <1>4, Zenon DEF MarkCurrentVcpuTearingDown, Authorized
    <2> QED BY <1>4, <2>1, SMTT(30) DEF MarkCurrentVcpuTearingDown
<1>5. CASE RestoreInvalid(p)
    BY <1>5, SMTT(60) DEF RestoreInvalid
<1>6. CASE MarkCurrentVcpuParked(p)
    BY <1>6, SMTT(30) DEF MarkCurrentVcpuParked
<1> HIDE DEF CpuInv, VcpuInv, VcpuTypeOK
<1> QED BY <1>1, <1>2, <1>3, <1>4, <1>5, <1>6, Zenon DEF Exit

\* The release steps keep the place invariant: VMXOFF only over a cleared VMCS,
\* and a failed release halts or parks.
LEMMA ReleaseKeeps ==
    ASSUME VcpuInv, NEW p \in Cpus, Release(p), UNCHANGED <<hostFault, crashed>>
    PROVE  CpuInv(vcpu'[p], cpu'[p])
<1> CpuInv(vcpu[p], cpu[p])
    BY Zenon DEF VcpuInv
<1> USE DEF VcpuInv, VcpuTypeOK, At, Goto, CpuInv, IdleInv, LaunchInv, StopInv,
            ReleaseInv, PathInv, RequestInv, Is, IdlePlaces,
            RequestPlaces, ReleasePlaces, EndPlaces, LaunchStages
<1>1. CASE ClearVmcsBegin(p)
    BY <1>1, SMTT(30) DEF ClearVmcsBegin
<1>2. CASE ClearVmcsAbsent(p)
    BY <1>2, SMTT(60) DEF ClearVmcsAbsent
<1>3. CASE ClearVmcsDone(p)
    BY <1>3, SMTT(60) DEF ClearVmcsDone
<1>4. CASE ClearVmcsFails(p)
    BY <1>4, SMTT(60) DEF ClearVmcsFails
<1>5. CASE VmxOff(p)
    BY <1>5, SMTT(60) DEF VmxOff, AfterVmxOff
<1>6. CASE VmxOffFails(p)
    BY <1>6, SMTT(30) DEF VmxOffFails
<1> HIDE DEF CpuInv, VcpuInv, VcpuTypeOK
<1> QED BY <1>1, <1>2, <1>3, <1>4, <1>5, <1>6, Zenon DEF Release

\* The remaining steps: calls and returns of the callbacks, and exits without
\* return.
Aside(p) ==
    \/ /\ LaunchCall(p) \/ StopCall(p) \/ CallbackReturn(p) \/ FatalExit(p)
       /\ UNCHANGED <<hostFault, crashed>>
    \/ HostException(p)
    \/ HvFatalBugCheck(p)

\* The steps beside the groups (calls and returns of the callbacks, a fatal exit,
\* a host fault, the bugcheck) keep the types.
LEMMA AsideTypes ==
    ASSUME VcpuTypeOK, NEW p \in Cpus, Aside(p)
    PROVE  VcpuTypeOK'
<1> USE Names DEF VcpuTypeOK, At, Goto
<1>1. CASE LaunchCall(p) /\ UNCHANGED <<hostFault, crashed>>
    BY <1>1, Zenon DEF LaunchCall
<1>2. CASE StopCall(p) /\ UNCHANGED <<hostFault, crashed>>
    BY <1>2, Zenon DEF StopCall
<1>3. CASE CallbackReturn(p) /\ UNCHANGED <<hostFault, crashed>>
    BY <1>3, Zenon DEF CallbackReturn
<1>4. CASE FatalExit(p) /\ UNCHANGED <<hostFault, crashed>>
    BY <1>4, ZenonT(60) DEF FatalExit
<1>5. CASE HostException(p)
    <2> DEFINE place == IF hostFault THEN "hung" ELSE "bugcheck"
    <2>1. place \in Places
        BY Zenon
    <2>2. cpu' = [cpu EXCEPT ![p].mode = "root", ![p].path = "dead", ![p].pc = place]
        BY <1>5, Zenon DEF HostException
    <2> HIDE DEF place
    <2>3. hostFault' = TRUE /\ UNCHANGED <<vcpu, crashed>>
        BY <1>5, Zenon DEF HostException
    <2> QED BY <2>1, <2>2, <2>3, ZenonT(60)
<1>6. CASE HvFatalBugCheck(p)
    BY <1>6, Zenon DEF HvFatalBugCheck
<1> QED BY <1>1, <1>2, <1>3, <1>4, <1>5, <1>6, Zenon DEF Aside

\* The same steps keep the place invariant of their processor.
LEMMA AsideKeeps ==
    ASSUME VcpuInv, NEW p \in Cpus, Aside(p)
    PROVE  CpuInv(vcpu'[p], cpu'[p])
<1> CpuInv(vcpu[p], cpu[p])
    BY Zenon DEF VcpuInv
<1> USE DEF VcpuInv, VcpuTypeOK, At, Goto, CpuInv, IdleInv, LaunchInv, StopInv,
            ReleaseInv, PathInv, RequestInv, Is, IdlePlaces,
            RequestPlaces, ReleasePlaces, EndPlaces, LaunchStages
<1>1. CASE LaunchCall(p)
    BY <1>1, SMTT(60) DEF LaunchCall
<1>2. CASE StopCall(p)
    BY <1>2, SMTT(60) DEF StopCall
<1>3. CASE CallbackReturn(p)
    BY <1>3, SMTT(60) DEF CallbackReturn
<1>4. CASE FatalExit(p)
    BY <1>4, SMTT(60) DEF FatalExit
<1>5. CASE HostException(p)
    BY <1>5, SMTT(60) DEF HostException
<1>6. CASE HvFatalBugCheck(p)
    BY <1>6, Zenon DEF HvFatalBugCheck
<1> HIDE DEF CpuInv, VcpuInv, VcpuTypeOK
<1> QED BY <1>1, <1>2, <1>3, <1>4, <1>5, <1>6, Zenon DEF Aside

\* No step of p touches another processor's context or place.
LEMMA Local ==
    ASSUME VcpuTypeOK, NEW p \in Cpus, Run(p) \/ Disturb(p) \/ Aside(p),
           NEW q \in Cpus \ {p}
    PROVE  vcpu'[q] = vcpu[q] /\ cpu'[q] = cpu[q]
BY Zenon DEF VcpuTypeOK, Run, Disturb, Aside, Launch, Stop, Exit, Release, Goto,
       CasStage, CasState, PrepareClaim, PrepareRefuse, PrepareReject,
       PrepareVmxOn, PreparePublish, PrepareLoadVmcs, PrepareAbandon,
       PrepareReady, MarkHandoff, MarkLaunched, VmLaunch, LaunchFails,
       AbortClaimStage, AbortClaimState, LaunchFailed,
       MarkCurrentVcpuRunning, RunFirstExitProbe, StopEnter,
       StopClaimStage, StopClaimState, StopRequest, StopVmcall,
       StopDeferRequest, StopDeferStage, StopDeferState, StopUnconsumed,
       StopPublishState, StopPublishStage, UnloadDefer, UnloadAccept,
       UnloadHalt, MarkCurrentVcpuTearingDown, RestoreInvalid,
       MarkCurrentVcpuParked, ClearVmcsBegin, ClearVmcsAbsent,
       ClearVmcsDone, ClearVmcsFails, VmxOff, VmxOffFails, LaunchCall,
       StopCall, CallbackReturn, FatalExit, HostException, HvFatalBugCheck

\* Contexts are zeroed only under processors that are native and idle.
LEMMA ReuseKeeps ==
    ASSUME VcpuInv, VcpuReuse
    PROVE  VcpuInv'
<1>1. VcpuTypeOK'
    BY Names, Zenon DEF VcpuInv, VcpuTypeOK, VcpuReuse, ZeroContexts, ZeroVcpu
<1>2. ASSUME NEW q \in Cpus
      PROVE  CpuInv(vcpu'[q], cpu'[q])
    <2>1. vcpu'[q] = ZeroVcpu /\ cpu'[q] = NativeCpu
        BY Zenon DEF VcpuReuse, ZeroContexts
    <2>2. CpuInv(ZeroVcpu, NativeCpu)
        BY Zenon DEF ZeroVcpu, NativeCpu, CpuInv, IdleInv, LaunchInv, StopInv,
           ReleaseInv, PathInv, RequestInv, Is, IdlePlaces, RequestPlaces,
           ReleasePlaces, EndPlaces, LaunchStages
    <2> QED BY <2>1, <2>2, Zenon
<1> QED BY <1>1, <1>2, Zenon DEF VcpuInv

\* Every step of the component keeps the place invariant.
LEMMA StepKeeps ==
    VcpuInv /\ [VcpuNext]_vcpuVars => VcpuInv'
<1> SUFFICES ASSUME VcpuInv, [VcpuNext]_vcpuVars
             PROVE  VcpuInv'
    BY Zenon
<1>1. ASSUME NEW p \in Cpus, Run(p) \/ Disturb(p) \/ Aside(p)
      PROVE  VcpuInv'
    <2>1. VcpuTypeOK'
        BY <1>1, LaunchTypes, StopTypes, ExitTypes, ReleaseTypes, AsideTypes, Zenon
           DEF Run, Disturb, Aside, VcpuInv
    <2>2. CpuInv(vcpu'[p], cpu'[p])
        BY <1>1, LaunchKeeps, StopKeeps, ExitKeeps, ReleaseKeeps, AsideKeeps, Zenon
           DEF Run, Disturb, Aside
    <2> QED BY <1>1, <2>1, <2>2, Local, Frame, Zenon DEF VcpuInv
<1>2. CASE OtherBugCheck
    BY <1>2, Zenon DEF OtherBugCheck, VcpuInv, VcpuTypeOK
<1>3. CASE UNCHANGED vcpuVars
    BY <1>3, Zenon DEF vcpuVars, VcpuInv, VcpuTypeOK
<1> QED
    BY <1>1, <1>2, <1>3, ReuseKeeps, Zenon DEF VcpuNext, Aside

\* Freshly zeroed contexts on native, idle processors satisfy the invariant.
LEMMA InitHolds == VcpuInit => VcpuInv
<1> SUFFICES ASSUME VcpuInit
             PROVE  VcpuInv
    BY Zenon
<1>1. VcpuTypeOK
    BY Names, Zenon DEF VcpuTypeOK, VcpuInit, ZeroVcpu, NativeCpu
<1>2. ASSUME NEW q \in Cpus
      PROVE  CpuInv(vcpu[q], cpu[q])
    BY Zenon DEF VcpuInit, ZeroVcpu, NativeCpu, CpuInv, IdleInv,
           LaunchInv, StopInv, ReleaseInv, PathInv, RequestInv, Is, IdlePlaces,
           RequestPlaces, ReleasePlaces, EndPlaces, LaunchStages
<1> QED BY <1>1, <1>2, Zenon DEF VcpuInv

\* What a processor owns (VMX, a current VMCS, the stop authorization) is
\* determined by where its launch, stop or exit code stands, in every behaviour.
THEOREM PlaceInvariant == VcpuSpec => []VcpuInv
BY InitHolds, StepKeeps, PTL DEF VcpuSpec

\* Type correctness, for any number of processors.
THEOREM TypeCorrect == VcpuSpec => []VcpuTypeOK
BY PlaceInvariant, PTL DEF VcpuInv

\* What the place invariant says of one processor, in the form the safety
\* theorems use.
LEMMA PlaceFacts ==
    ASSUME VcpuInv, NEW p \in Cpus
    PROVE  /\ vcpu[p].State \in {"Stopped", "Failed", "Uninitialized"} =>
                cpu[p].mode = "native" /\ vcpu[p].VmcsCurrent = "None"
           /\ cpu[p].mode = "native" => vcpu[p].VmcsCurrent = "None"
           /\ cpu[p].pc \in IdlePlaces => IdleInv(vcpu[p], cpu[p])
           /\ vcpu[p].State = "Parked" =>
                cpu[p].pc \in ReleasePlaces \cup {"park", "bugcheck", "hung"}
           /\ vcpu[p].State = "Failed" =>
                vcpu[p].LaunchStage \notin {"Ready", "Handoff"}
BY DEF VcpuInv, VcpuTypeOK, CpuInv, IdleInv, LaunchInv, StopInv, ReleaseInv,
       PathInv, RequestInv, Is, IdlePlaces, RequestPlaces, ReleasePlaces,
       EndPlaces, Places, LaunchPlaces, StopPlaces, ExitPlaces

\* A published terminal state proves that the processor left VMX: what every
\* reclaim decision of the coordinator rests on.
THEOREM TerminalIsReleased == VcpuSpec => []TerminalMeansReleased
<1>1. VcpuInv => TerminalMeansReleased
    BY PlaceFacts, Zenon DEF TerminalMeansReleased, Terminal
<1> QED BY <1>1, PlaceInvariant, PTL

\* VMXOFF is only executed after the current VMCS was cleared.
THEOREM VmclearPrecedesVmxoff == VcpuSpec => []VmxoffAfterVmclear
<1>1. VcpuInv => VmxoffAfterVmclear
    BY PlaceFacts, Zenon DEF VmxoffAfterVmclear
<1> QED BY <1>1, PlaceInvariant, PTL

\* Between callbacks the published state is the processor's real state.
THEOREM IdleIsTruthful == VcpuSpec => []IdleStateIsTruthful
<1>1. VcpuInv => IdleStateIsTruthful
    BY PlaceFacts, Zenon DEF IdleStateIsTruthful, VcpuInv, CpuInv, IdleInv, RequestInv,
       Is, At, IdlePlaces, RequestPlaces, ReleasePlaces
<1> QED BY <1>1, PlaceInvariant, PTL

\* The restore path owns both transitions and a spent authorization.
THEOREM RestoreOwnsStop == VcpuSpec => []RestoreIsAuthorized
<1>1. VcpuInv => RestoreIsAuthorized
    BY Zenon DEF RestoreIsAuthorized, VcpuInv, VcpuTypeOK, CpuInv, StopInv, ReleaseInv, PathInv,
       RequestInv, Is, RequestPlaces, ReleasePlaces
<1> QED BY <1>1, PlaceInvariant, PTL

\* A failed launch leaves no residual-ownership stage behind.
THEOREM FailureIsResolved == VcpuSpec => []FailedLaunchIsResolved
<1>1. VcpuInv => FailedLaunchIsResolved
    BY PlaceFacts, Zenon DEF FailedLaunchIsResolved
<1> QED BY <1>1, PlaceInvariant, PTL

\* Whatever the interleaving, the ownership words the coordinator, the exit
\* handler and the crash path read tell the truth about the processor.
THEOREM OwnershipHolds == VcpuSpec => []OwnershipIsTruthful
BY TerminalIsReleased, VmclearPrecedesVmxoff, IdleIsTruthful, RestoreOwnsStop,
   FailureIsResolved, PTL DEF OwnershipIsTruthful

\* No step of any processor, and no reuse of the contexts, takes a processor
\* out of Parked.
THEOREM ParkedStays == VcpuSpec => ParkedIsFinal
<1> DEFINE Final == \A p \in Cpus : vcpu[p].State = "Parked" => vcpu'[p].State = "Parked"
<1>1. VcpuInv /\ [VcpuNext]_vcpuVars => Final
    <2> SUFFICES ASSUME VcpuInv, [VcpuNext]_vcpuVars,
                        NEW p \in Cpus, vcpu[p].State = "Parked"
                 PROVE  vcpu'[p].State = "Parked"
        BY Zenon
    <2>1. cpu[p].pc \in ReleasePlaces \cup {"park", "bugcheck", "hung"}
        BY PlaceFacts, Zenon
    <2>2. CASE Run(p) \/ Disturb(p) \/ Aside(p)
        <3>1. ~Launch(p)
            BY <2>1, Zenon DEF Launch, At, ReleasePlaces, PrepareClaim, PrepareRefuse,
               PrepareReject, PrepareVmxOn, PreparePublish, PrepareLoadVmcs,
               PrepareAbandon, PrepareReady, MarkHandoff, MarkLaunched,
               VmLaunch, LaunchFails, AbortClaimStage, AbortClaimState,
               LaunchFailed, MarkCurrentVcpuRunning, RunFirstExitProbe
        <3>2. ~Stop(p)
            BY <2>1, Zenon DEF Stop, At, ReleasePlaces, StopEnter, StopClaimStage,
               StopClaimState, StopRequest, StopVmcall, StopDeferRequest,
               StopDeferStage, StopDeferState, StopUnconsumed,
               StopPublishState, StopPublishStage
        <3>3. CASE Exit(p)
            BY <2>1, <3>3, ZenonT(60) DEF VcpuInv, VcpuTypeOK, Exit, At, Goto, ReleasePlaces,
               UnloadDefer, UnloadAccept, UnloadHalt,
               MarkCurrentVcpuTearingDown, RestoreInvalid, MarkCurrentVcpuParked
        <3>4. CASE Release(p)
            BY <2>1, <3>4 DEF VcpuInv, VcpuTypeOK, Release, ClearVmcsBegin,
               ClearVmcsAbsent, ClearVmcsDone, ClearVmcsFails, VmxOff, VmxOffFails
        <3>5. CASE Aside(p)
            BY <3>5, Zenon DEF Aside, LaunchCall, StopCall, CallbackReturn, FatalExit,
               HostException, HvFatalBugCheck
        <3> QED BY <2>2, <3>1, <3>2, <3>3, <3>4, <3>5, Zenon DEF Run, Disturb, Aside
    <2>3. ASSUME NEW q \in Cpus \ {p}, Run(q) \/ Disturb(q) \/ Aside(q)
          PROVE  vcpu'[p].State = "Parked"
        BY <2>3, Local, Zenon DEF VcpuInv
    <2>4. ~VcpuReuse
        BY <2>1 DEF VcpuReuse, NativeCpu, ReleasePlaces
    <2> QED
        BY <2>2, <2>3, <2>4, Zenon DEF VcpuNext, Aside, OtherBugCheck, vcpuVars
<1> QED BY <1>1, PlaceInvariant, PTL DEF VcpuSpec, ParkedIsFinal

=============================================================================
