-------------------------------- MODULE Vcpu --------------------------------
(***************************************************************************)
(* VMX ownership of each logical processor: the launch callback            *)
(* (vmx_launch.cpp, vmx_launch.asm), the stop callback (vmx_stop.cpp), the  *)
(* release of VMX from VMX root (vmx_entry.asm, vmx_teardown_state.cpp)     *)
(* and the fatal path that parks a processor and stops the machine.        *)
(*                                                                         *)
(* vcpu[p] is the part of VcpuContext other processors read; cpu[p] is     *)
(* what only processor p knows: its VMX mode and the place of the KNHV     *)
(* code that runs on it.  Counters, telemetry, saved registers and VMCS    *)
(* contents are data no property here tells apart.                         *)
(***************************************************************************)
EXTENDS Naturals, FiniteSets

CONSTANT N              \* g_ProcessorCount

ASSUME NAssumption == N \in Nat /\ N >= 2

VARIABLES
    vcpu,               \* [Cpus -> VcpuContext fields]
    cpu,                \* [Cpus -> mode, control and release path]
    hostFault,          \* g_HvHostFaultRecord.Commit # 0
    crashed             \* KeBugCheckEx has stopped every processor

vcpuVars == <<vcpu, cpu, hostFault, crashed>>

Cpus == 0 .. N - 1

VcpuStates == {"Uninitialized", "Starting", "VmxOn", "Launched",
               "TearingDown", "Stopped", "Failed", "Parked"}

LaunchStages == {"None", "Entry", "VmxOn", "Ready", "Handoff", "GuestActive",
                 "Teardown", "Stopped", "Abort", "Parked"}

VmcsCurrentStates == {"None", "Active", "Clearing", "Failed"}

\* Places inside EnableHvCallback, StopHvCallback and the VM-exit entry point.
\* "clear", "clearing" and "vmxoff" are the shared release sequence; cpu[p].path
\* says which caller runs it.
LaunchPlaces == {"launch", "prepare", "vmxon", "loading", "vmcs", "ready",
                 "handoff", "vmlaunch", "entered", "probe", "abort", "abortOwned",
                 "unwound", "launchReturn"}
StopPlaces   == {"stop", "claimStage", "claimState", "request", "vmcall",
                 "deferRequest", "deferStage", "deferState", "native",
                 "quiesced", "stopped", "stopReturn"}
ExitPlaces   == {"unload", "restore", "park"}
ReleasePlaces == {"clear", "clearing", "vmxoff"}
EndPlaces    == {"bugcheck", "hung"}
Places == {"idle"} \cup LaunchPlaces \cup StopPlaces \cup ExitPlaces
                   \cup ReleasePlaces \cup EndPlaces

Paths == {"none", "rollback", "restore", "halt", "dead"}

ZeroVcpu == [State |-> "Uninitialized", LaunchStage |-> "None",
             VmcsCurrent |-> "None", TeardownRequest |-> FALSE,
             ProbeReturned |-> FALSE]

NativeCpu == [mode |-> "native", pc |-> "idle", path |-> "none"]

VcpuTypeOK ==
    /\ vcpu \in [Cpus -> [State : VcpuStates, LaunchStage : LaunchStages,
                          VmcsCurrent : VmcsCurrentStates,
                          TeardownRequest : BOOLEAN, ProbeReturned : BOOLEAN]]
    /\ cpu \in [Cpus -> [mode : {"native", "root", "guest"}, pc : Places,
                         path : Paths]]
    /\ hostFault \in BOOLEAN
    /\ crashed \in BOOLEAN

VcpuInit ==
    /\ vcpu = [p \in Cpus |-> ZeroVcpu]
    /\ cpu = [p \in Cpus |-> NativeCpu]
    /\ hostFault = FALSE
    /\ crashed = FALSE

At(p, place) == cpu[p].pc = place

Goto(p, place) == cpu' = [cpu EXCEPT ![p].pc = place]

\* InterlockedCompareExchange on LaunchStage and on State, accepting any of the
\* old values, and where the code goes when it wins and when it loses.
CasStage(p, old, new, won, lost) ==
    /\ vcpu' = [vcpu EXCEPT ![p].LaunchStage = IF @ \in old THEN new ELSE @]
    /\ Goto(p, IF vcpu[p].LaunchStage \in old THEN won ELSE lost)

CasState(p, old, new, won, lost) ==
    /\ vcpu' = [vcpu EXCEPT ![p].State = IF @ \in old THEN new ELSE @]
    /\ Goto(p, IF vcpu[p].State \in old THEN won ELSE lost)

-----------------------------------------------------------------------------
(***************************************************************************)
(* EnableHvCallback: PrepareHvCallback, MarkCurrentVcpuLaunched, VMLAUNCH,  *)
(* AbortHvLaunch.                                                          *)
(***************************************************************************)

\* The launch DPC enters the callback on its target.
LaunchCall(p) ==
    /\ At(p, "idle")
    /\ Goto(p, "launch")
    /\ UNCHANGED vcpu

\* One winner claims the processor and resets what earlier code may have left;
\* a context that was ever used is refused.
PrepareClaim(p) ==
    /\ At(p, "launch") /\ vcpu[p].State = "Uninitialized"
    /\ vcpu' = [vcpu EXCEPT ![p] =
                  [State |-> "Starting", LaunchStage |-> "Entry",
                   VmcsCurrent |-> "None", TeardownRequest |-> FALSE,
                   ProbeReturned |-> FALSE]]
    /\ Goto(p, "prepare")

PrepareRefuse(p) ==
    /\ At(p, "launch") /\ vcpu[p].State # "Uninitialized"
    /\ Goto(p, "launchReturn")
    /\ UNCHANGED vcpu

\* A local contract check, an injected fault or VMXON itself fails while the
\* processor is still native.
PrepareReject(p) ==
    /\ At(p, "prepare")
    /\ vcpu' = [vcpu EXCEPT ![p].State = "Failed"]
    /\ Goto(p, "launchReturn")

PrepareVmxOn(p) ==
    /\ At(p, "prepare")
    /\ cpu' = [cpu EXCEPT ![p].mode = "root", ![p].pc = "vmxon"]
    /\ UNCHANGED vcpu

PreparePublish(p) ==
    /\ At(p, "vmxon")
    /\ vcpu' = [vcpu EXCEPT ![p].State = "VmxOn", ![p].LaunchStage = "VmxOn"]
    /\ Goto(p, "loading")

\* VMCLEAR and VMPTRLD succeed.
PrepareLoadVmcs(p) ==
    /\ At(p, "loading")
    /\ vcpu' = [vcpu EXCEPT ![p].VmcsCurrent = "Active"]
    /\ Goto(p, "vmcs")

\* Mutant: Failed is published before VMX is released.
PrepareAbandonTooEarly(p) ==
    /\ cpu[p].pc \in {"loading", "vmcs"}
    /\ vcpu' = [vcpu EXCEPT ![p].State = "Failed"]
    /\ cpu' = [cpu EXCEPT ![p].pc = "clear", ![p].path = "rollback"]

\* VMCLEAR, VMPTRLD, SetupVmcs, the XSS switch, an injected fault or an
\* exception after VMXON: leave VMX again.
PrepareAbandon(p) ==
    /\ cpu[p].pc \in {"loading", "vmcs"}
    /\ cpu' = [cpu EXCEPT ![p].pc = "clear", ![p].path = "rollback"]
    /\ UNCHANGED vcpu

PrepareReady(p) ==
    /\ At(p, "vmcs")
    /\ vcpu' = [vcpu EXCEPT ![p].LaunchStage = "Ready"]
    /\ Goto(p, "ready")

\* MarkCurrentVcpuLaunched: the stage first, then the state.
MarkHandoff(p) ==
    /\ At(p, "ready")
    /\ CasStage(p, {"Ready"}, "Handoff", "handoff", "abort")

MarkLaunched(p) ==
    /\ At(p, "handoff")
    /\ CasState(p, {"VmxOn"}, "Launched", "vmlaunch", "abort")

VmLaunch(p) ==
    /\ At(p, "vmlaunch")
    /\ cpu' = [cpu EXCEPT ![p].mode = "guest", ![p].pc = "entered"]
    /\ UNCHANGED vcpu

\* An injected failure before VMLAUNCH, or VMLAUNCH fails.
LaunchFails(p) ==
    /\ cpu[p].pc \in {"ready", "vmlaunch"}
    /\ Goto(p, "abort")
    /\ UNCHANGED vcpu

\* AbortHvLaunch claims the stage, then the state, before it releases VMX.
AbortClaimStage(p) ==
    /\ At(p, "abort")
    /\ CasStage(p, {"VmxOn", "Ready", "Handoff"}, "Abort",
                "abortOwned", "launchReturn")

AbortClaimState(p) ==
    /\ At(p, "abortOwned")
    /\ vcpu' = [vcpu EXCEPT ![p].State =
                  IF @ \in {"VmxOn", "Launched"} THEN "TearingDown" ELSE @]
    /\ cpu' = IF vcpu[p].State \in {"VmxOn", "Launched"}
              THEN [cpu EXCEPT ![p].pc = "clear", ![p].path = "rollback"]
              ELSE [cpu EXCEPT ![p].pc = "launchReturn"]

\* VMX is off and the control registers are restored; publish Failed.
LaunchFailed(p) ==
    /\ At(p, "unwound")
    /\ vcpu' = [vcpu EXCEPT ![p].State = "Failed"]
    /\ cpu' = [cpu EXCEPT ![p].pc = "launchReturn", ![p].path = "none"]

\* The first instruction after the guest restore thunk.
MarkCurrentVcpuRunning(p) ==
    /\ At(p, "entered")
    /\ vcpu[p].State = "Launched" /\ vcpu[p].LaunchStage = "Handoff"
    /\ vcpu' = [vcpu EXCEPT ![p].LaunchStage = "GuestActive"]
    /\ Goto(p, "probe")

\* The first CPUID exit passes or fails verification.
RunFirstExitProbe(p) ==
    /\ At(p, "probe")
    /\ \E returned \in BOOLEAN :
          vcpu' = [vcpu EXCEPT ![p].ProbeReturned = returned]
    /\ Goto(p, "launchReturn")

Launch(p) ==
    \/ PrepareClaim(p)    \/ PrepareRefuse(p)
    \/ PrepareReject(p)   \/ PrepareVmxOn(p)
    \/ PreparePublish(p)  \/ PrepareLoadVmcs(p) \/ PrepareAbandon(p)
    \/ PrepareReady(p)    \/ MarkHandoff(p)     \/ MarkLaunched(p)
    \/ VmLaunch(p)        \/ LaunchFails(p)     \/ AbortClaimStage(p)
    \/ AbortClaimState(p) \/ LaunchFailed(p)    \/ MarkCurrentVcpuRunning(p)
    \/ RunFirstExitProbe(p)

-----------------------------------------------------------------------------
(***************************************************************************)
(* StopHvCallback, run by a stop worker on its target.                     *)
(***************************************************************************)

StopCall(p) ==
    /\ At(p, "idle")
    /\ Goto(p, "stop")
    /\ UNCHANGED vcpu

\* Only a launched processor with a proven guest continuation is stopped.
StopEnter(p) ==
    /\ At(p, "stop")
    /\ Goto(p, IF vcpu[p].State = "Launched" /\ vcpu[p].LaunchStage = "GuestActive"
               THEN "claimStage" ELSE "stopReturn")
    /\ UNCHANGED vcpu

StopClaimStage(p) ==
    /\ At(p, "claimStage")
    /\ CasStage(p, {"GuestActive"}, "Teardown", "claimState", "stopReturn")

StopClaimState(p) ==
    /\ At(p, "claimState")
    /\ CasState(p, {"Launched"}, "TearingDown", "request", "stopReturn")

\* The one-shot authorization, published only after both claims.
StopRequest(p) ==
    /\ At(p, "request")
    /\ vcpu' = [vcpu EXCEPT ![p].TeardownRequest = TRUE]
    /\ Goto(p, "vmcall")

StopVmcall(p) ==
    /\ At(p, "vmcall")
    /\ cpu' = [cpu EXCEPT ![p].mode = "root", ![p].pc = "unload"]
    /\ UNCHANGED vcpu

\* Mutant: a deferred stop leaves its authorization behind.
StopDeferKeepsRequest(p) ==
    /\ At(p, "deferRequest")
    /\ Goto(p, "deferStage")
    /\ UNCHANGED vcpu

\* The guest was resumed: withdraw the authorization, then the stage, then the
\* state, so that a later worker can retry.
StopDeferRequest(p) ==
    /\ At(p, "deferRequest")
    /\ vcpu' = [vcpu EXCEPT ![p].TeardownRequest = FALSE]
    /\ Goto(p, "deferStage")

StopDeferStage(p) ==
    /\ At(p, "deferStage")
    /\ CasStage(p, {"Teardown"}, "GuestActive", "deferState", "deferState")

StopDeferState(p) ==
    /\ At(p, "deferState")
    /\ CasState(p, {"TearingDown"}, "Launched", "stopReturn", "stopReturn")

\* Native again.  An authorization nobody consumed keeps the state as it is.
StopUnconsumed(p) ==
    /\ At(p, "native")
    /\ Goto(p, IF vcpu[p].TeardownRequest THEN "stopReturn" ELSE "quiesced")
    /\ UNCHANGED vcpu

StopPublishState(p) ==
    /\ At(p, "quiesced")
    /\ CasState(p, {"TearingDown"}, "Stopped", "stopped", "stopReturn")

StopPublishStage(p) ==
    /\ At(p, "stopped")
    /\ CasStage(p, {"Teardown"}, "Stopped", "stopReturn", "stopReturn")

Stop(p) ==
    \/ StopEnter(p)      \/ StopClaimStage(p)   \/ StopClaimState(p)
    \/ StopRequest(p)    \/ StopVmcall(p)       \/ StopDeferRequest(p)
    \/ StopDeferStage(p) \/ StopDeferState(p)   \/ StopUnconsumed(p)
    \/ StopPublishState(p) \/ StopPublishStage(p)

-----------------------------------------------------------------------------
(***************************************************************************)
(* The VM-exit side.                                                       *)
(***************************************************************************)

\* RequestAuthenticatedUnload for the stop callback's VMCALL: resume the guest
\* (deferral), enter the native restore path, or halt.
UnloadDefer(p) ==
    /\ At(p, "unload")
    /\ cpu' = [cpu EXCEPT ![p].mode = "guest", ![p].pc = "deferRequest"]
    /\ UNCHANGED vcpu

UnloadAccept(p) ==
    /\ At(p, "unload")
    /\ Goto(p, "restore")
    /\ UNCHANGED vcpu

UnloadHalt(p) ==
    /\ At(p, "unload")
    /\ cpu' = [cpu EXCEPT ![p].pc = "park", ![p].path = "halt"]
    /\ UNCHANGED vcpu

\* MarkCurrentVcpuTearingDown consumes the authorization exactly once.
Authorized(p) ==
    /\ vcpu[p].TeardownRequest
    /\ vcpu[p].State = "TearingDown"
    /\ vcpu[p].LaunchStage = "Teardown"

MarkCurrentVcpuTearingDown(p) ==
    /\ At(p, "restore")
    /\ vcpu' = [vcpu EXCEPT ![p].TeardownRequest = IF Authorized(p) THEN FALSE ELSE @]
    /\ cpu' = [cpu EXCEPT ![p].pc = IF Authorized(p) THEN "clear" ELSE "park",
                          ![p].path = IF Authorized(p) THEN "restore" ELSE "halt"]

\* The saved frame fails a check of HvRestoreStateAndReturn after the
\* authorization was consumed.
RestoreInvalid(p) ==
    /\ At(p, "clear") /\ cpu[p].path = "restore"
    /\ cpu' = [cpu EXCEPT ![p].pc = "park", ![p].path = "halt"]
    /\ UNCHANGED vcpu

\* Any exit the handler cannot emulate or resume from.
FatalExit(p) ==
    /\ cpu[p].mode = "guest"
    /\ cpu' = [cpu EXCEPT ![p].mode = "root", ![p].pc = "park",
                          ![p].path = "halt"]
    /\ UNCHANGED vcpu

\* HvClearCurrentVmcsAndRecord, the first half of every release.
ClearVmcsBegin(p) ==
    /\ At(p, "clear") /\ vcpu[p].VmcsCurrent = "Active"
    /\ vcpu' = [vcpu EXCEPT ![p].VmcsCurrent = "Clearing"]
    /\ Goto(p, "clearing")

\* No VMCS was loaded; any other record is a failure.
ClearVmcsAbsent(p) ==
    /\ At(p, "clear") /\ vcpu[p].VmcsCurrent # "Active"
    /\ cpu' = IF vcpu[p].VmcsCurrent = "None"
              THEN [cpu EXCEPT ![p].pc = "vmxoff"]
              ELSE [cpu EXCEPT ![p].pc = "park", ![p].path = "dead"]
    /\ UNCHANGED vcpu

ClearVmcsDone(p) ==
    /\ At(p, "clearing")
    /\ vcpu' = [vcpu EXCEPT ![p].VmcsCurrent = "None"]
    /\ Goto(p, "vmxoff")

\* VMPTRST or VMCLEAR fails: HvFailVmcsClear parks without VMXOFF.
ClearVmcsFails(p) ==
    /\ At(p, "clearing")
    /\ vcpu' = [vcpu EXCEPT ![p].VmcsCurrent = "Failed"]
    /\ cpu' = [cpu EXCEPT ![p].pc = "park", ![p].path = "dead"]

\* Where VMXOFF leads: the failed launch, the instruction after VMCALL, or the
\* bugcheck of the halt path.
AfterVmxOff(path) == IF path = "rollback" THEN "unwound"
                     ELSE IF path = "restore" THEN "native"
                     ELSE "bugcheck"

VmxOff(p) ==
    /\ At(p, "vmxoff")
    /\ cpu' = [cpu EXCEPT ![p].mode = "native", ![p].path = "none",
                          ![p].pc = AfterVmxOff(cpu[p].path)]
    /\ UNCHANGED vcpu

\* VMXOFF fails: never report a live processor as released.
VmxOffFails(p) ==
    /\ At(p, "vmxoff")
    /\ cpu' = [cpu EXCEPT
                 ![p].pc = IF cpu[p].path = "halt" THEN "bugcheck" ELSE "park",
                 ![p].path = "dead"]
    /\ UNCHANGED vcpu

\* Mutant: the fatal release failure returns into the launch rollback.
ParkedReturns(p) ==
    /\ At(p, "park")
    /\ vcpu' = [vcpu EXCEPT ![p].LaunchStage = "Parked", ![p].State = "Parked"]
    /\ Goto(p, IF cpu[p].path = "halt" THEN "clear" ELSE "unwound")

\* MarkCurrentVcpuParked; the halt path then tries to release VMX.
MarkCurrentVcpuParked(p) ==
    /\ At(p, "park")
    /\ vcpu' = [vcpu EXCEPT ![p].LaunchStage = "Parked", ![p].State = "Parked"]
    /\ Goto(p, IF cpu[p].path = "halt" THEN "clear" ELSE "bugcheck")

\* A fault in VMX root on the private host IDT: the first one bugchecks, a
\* simultaneous one parks for good.
HostException(p) ==
    /\ \/ cpu[p].mode = "guest"
       \/ /\ cpu[p].mode = "root"
          /\ \/ cpu[p].pc \in {"unload", "restore"}
             \/ cpu[p].path \in {"restore", "halt"}
                /\ cpu[p].pc \in {"park", "clear", "clearing", "vmxoff"}
    /\ hostFault' = TRUE
    /\ cpu' = [cpu EXCEPT ![p].mode = "root", ![p].path = "dead",
                          ![p].pc = IF hostFault THEN "hung" ELSE "bugcheck"]
    /\ UNCHANGED <<vcpu, crashed>>

\* KeBugCheckEx stops every processor.
HvFatalBugCheck(p) ==
    /\ At(p, "bugcheck")
    /\ crashed' = TRUE
    /\ UNCHANGED <<vcpu, cpu, hostFault>>

Release(p) ==
    \/ ClearVmcsBegin(p) \/ ClearVmcsAbsent(p) \/ ClearVmcsDone(p)
    \/ ClearVmcsFails(p) \/ VmxOff(p)          \/ VmxOffFails(p)

Exit(p) ==
    \/ UnloadDefer(p) \/ UnloadAccept(p) \/ UnloadHalt(p)
    \/ MarkCurrentVcpuTearingDown(p)     \/ RestoreInvalid(p)
    \/ MarkCurrentVcpuParked(p)

\* Steps of the code that runs on p, and what may befall it.
Run(p) ==
    \/ (Launch(p) \/ Stop(p) \/ Exit(p) \/ Release(p))
       /\ UNCHANGED <<hostFault, crashed>>
    \/ HvFatalBugCheck(p)

Disturb(p) ==
    \/ FatalExit(p) /\ UNCHANGED <<hostFault, crashed>>
    \/ HostException(p)

-----------------------------------------------------------------------------
(***************************************************************************)
(* The component on its own: callbacks are entered and left in any order,  *)
(* and the contexts may be zeroed for a new start once no processor uses   *)
(* them.                                                                   *)
(***************************************************************************)

CallbackReturn(p) ==
    /\ cpu[p].pc \in {"launchReturn", "stopReturn"}
    /\ Goto(p, "idle")
    /\ UNCHANGED vcpu

ZeroContexts == vcpu' = [p \in Cpus |-> ZeroVcpu]

VcpuReuse ==
    /\ \A p \in Cpus : cpu[p] = NativeCpu
    /\ ZeroContexts
    /\ UNCHANGED <<cpu, hostFault, crashed>>

\* The machine may also be stopped by code outside this component.
OtherBugCheck ==
    /\ crashed' = TRUE
    /\ UNCHANGED <<vcpu, cpu, hostFault>>

VcpuNext ==
    /\ ~crashed
    /\ \/ \E p \in Cpus :
             \/ Run(p) \/ Disturb(p)
             \/ /\ LaunchCall(p) \/ StopCall(p) \/ CallbackReturn(p)
                /\ UNCHANGED <<hostFault, crashed>>
       \/ VcpuReuse
       \/ OtherBugCheck

VcpuSpec == VcpuInit /\ [][VcpuNext]_vcpuVars

-----------------------------------------------------------------------------
Terminal(p) == vcpu[p].State \in {"Stopped", "Failed", "Uninitialized"}

\* The states IsVcpuStopTerminal accepts are the ones the coordinator trusts to
\* mean "this processor left VMX": VMX is off and no VMCS is current on it.
TerminalMeansReleased ==
    \A p \in Cpus : Terminal(p)
                      => cpu[p].mode = "native" /\ vcpu[p].VmcsCurrent = "None"

\* VMXOFF is never executed over a VMCS that was not cleared: VMCLEAR failures
\* park the processor with VMX still on.
VmxoffAfterVmclear ==
    \A p \in Cpus : cpu[p].mode = "native" => vcpu[p].VmcsCurrent = "None"

\* When no callback runs on p, its published state can be trusted either way:
\* Launched means a running guest that a new stop attempt may claim (a deferred
\* stop restored the whole ownership triple), anything else means native.
IdleStateIsTruthful ==
    \A p \in Cpus : At(p, "idle") =>
        /\ vcpu[p].State \in {"Launched", "Stopped", "Failed", "Uninitialized"}
        /\ cpu[p].mode = IF vcpu[p].State = "Launched" THEN "guest" ELSE "native"
        /\ vcpu[p].State = "Launched" =>
              /\ vcpu[p].LaunchStage = "GuestActive"
              /\ vcpu[p].VmcsCurrent = "Active"
        /\ ~vcpu[p].TeardownRequest

\* The native restore path runs only with the authorization of a stop callback
\* that still owns both transitions, and the authorization is already spent, so
\* no second exit can reach VMXOFF with it.
RestoreIsAuthorized ==
    \A p \in Cpus :
        cpu[p].path = "restore" \/ cpu[p].pc \in {"native", "quiesced"} =>
            /\ ~vcpu[p].TeardownRequest
            /\ vcpu[p].State = "TearingDown"
            /\ vcpu[p].LaunchStage = "Teardown"

\* A failed launch never leaves the stage window that HasUnresolvedVcpu treats
\* as possible residual VMX ownership.
FailedLaunchIsResolved ==
    \A p \in Cpus : vcpu[p].State = "Failed" =>
                       vcpu[p].LaunchStage \notin {"Ready", "Handoff"}

\* The published ownership words of a processor can be trusted: terminal means
\* released, VMXOFF follows VMCLEAR, idle words are true, a restore is
\* authorized once, and a failed launch leaves no doubt.
OwnershipIsTruthful ==
    /\ TerminalMeansReleased
    /\ VmxoffAfterVmclear
    /\ IdleStateIsTruthful
    /\ RestoreIsAuthorized
    /\ FailedLaunchIsResolved

\* A parked processor is never published as anything else again.
ParkedIsFinal ==
    [][\A p \in Cpus : vcpu[p].State = "Parked" => vcpu'[p].State = "Parked"]_vcpuVars

-----------------------------------------------------------------------------
(***************************************************************************)
(* The inductive invariant: what holds at each place of the code.          *)
(***************************************************************************)
Is(v, c, mode, states, stages, vmcs) ==
    /\ c.mode = mode
    /\ v.State \in states
    /\ v.LaunchStage \in stages
    /\ v.VmcsCurrent \in vmcs

IdlePlaces == {"idle", "launch", "launchReturn", "stop", "stopReturn"}

\* Places where the stop authorization is outstanding.
RequestPlaces == {"vmcall", "unload", "restore", "deferRequest"}

IdleInv(v, c) ==
    \/ Is(v, c, "native", {"Uninitialized", "Stopped", "Failed"},
          LaunchStages \ {"Ready", "Handoff"}, {"None"})
    \/ Is(v, c, "guest", {"Launched"}, {"GuestActive"}, {"Active"})

LaunchInv(v, c) ==
    /\ c.pc = "prepare" => Is(v, c, "native", {"Starting"}, {"Entry"}, {"None"})
    /\ c.pc = "vmxon" => Is(v, c, "root", {"Starting"}, {"Entry"}, {"None"})
    /\ c.pc = "loading" => Is(v, c, "root", {"VmxOn"}, {"VmxOn"}, {"None"})
    /\ c.pc = "vmcs" => Is(v, c, "root", {"VmxOn"}, {"VmxOn"}, {"Active"})
    /\ c.pc = "ready" => Is(v, c, "root", {"VmxOn"}, {"Ready"}, {"Active"})
    /\ c.pc = "handoff" => Is(v, c, "root", {"VmxOn"}, {"Handoff"}, {"Active"})
    /\ c.pc = "vmlaunch" => Is(v, c, "root", {"Launched"}, {"Handoff"}, {"Active"})
    /\ c.pc = "entered" => Is(v, c, "guest", {"Launched"}, {"Handoff"}, {"Active"})
    /\ c.pc = "probe" => Is(v, c, "guest", {"Launched"}, {"GuestActive"}, {"Active"})
    /\ c.pc = "abort" =>
          Is(v, c, "root", {"VmxOn", "Launched"}, {"Ready", "Handoff"}, {"Active"})
    /\ c.pc = "abortOwned" =>
          Is(v, c, "root", {"VmxOn", "Launched"}, {"Abort"}, {"Active"})
    /\ c.pc = "unwound" =>
          Is(v, c, "native", {"VmxOn", "TearingDown"}, {"VmxOn", "Abort"}, {"None"})

StopInv(v, c) ==
    /\ c.pc = "claimStage" =>
          Is(v, c, "guest", {"Launched"}, {"GuestActive"}, {"Active"})
    /\ c.pc = "claimState" =>
          Is(v, c, "guest", {"Launched"}, {"Teardown"}, {"Active"})
    /\ c.pc \in {"request", "vmcall", "deferRequest", "deferStage"} =>
          Is(v, c, "guest", {"TearingDown"}, {"Teardown"}, {"Active"})
    /\ c.pc = "deferState" =>
          Is(v, c, "guest", {"TearingDown"}, {"GuestActive"}, {"Active"})
    /\ c.pc \in {"native", "quiesced"} =>
          Is(v, c, "native", {"TearingDown"}, {"Teardown"}, {"None"})
    /\ c.pc = "stopped" => Is(v, c, "native", {"Stopped"}, {"Teardown"}, {"None"})
    /\ c.pc \in {"unload", "restore"} =>
          Is(v, c, "root", {"TearingDown"}, {"Teardown"}, {"Active"})

\* The release sequence, by caller, and the places without return.
ReleaseInv(v, c) ==
    /\ c.pc = "clear" => v.VmcsCurrent \in {"None", "Active"}
    /\ c.pc = "clearing" => v.VmcsCurrent = "Clearing"
    /\ c.pc = "vmxoff" => v.VmcsCurrent = "None"
    /\ c.pc \in ReleasePlaces =>
          /\ c.mode = "root"
          /\ \/ /\ c.path = "rollback"
                /\ v.State \in {"VmxOn", "TearingDown"}
                /\ v.LaunchStage \in {"VmxOn", "Abort"}
             \/ /\ c.path = "restore"
                /\ v.State = "TearingDown"
                /\ v.LaunchStage = "Teardown"
             \/ c.path = "halt" /\ v.State = "Parked"
    /\ c.pc \in {"park", "bugcheck", "hung"} =>
          v.State \in {"VmxOn", "Launched", "TearingDown", "Parked"}
    /\ c.pc \in {"park", "hung"} => c.mode = "root" /\ c.path \in {"halt", "dead"}
    /\ c.pc = "park" /\ c.path = "halt" => v.VmcsCurrent \in {"None", "Active"}
    /\ c.pc = "bugcheck" => \/ c.mode = "root"
                            \/ c.mode = "native" /\ v.VmcsCurrent = "None"

PathInv(v, c) ==
    /\ c.path \in {"rollback", "restore"} => c.pc \in ReleasePlaces
    /\ c.path = "halt" => c.pc \in ReleasePlaces \cup {"park"}
    /\ c.path = "dead" => c.pc \in EndPlaces \cup {"park"}

RequestInv(v, c) ==
    /\ v.TeardownRequest =>
          c.pc \in RequestPlaces \cup ReleasePlaces \cup {"park", "bugcheck", "hung"}
    /\ c.pc \in RequestPlaces => v.TeardownRequest
    /\ c.path \in {"rollback", "restore"} => ~v.TeardownRequest

CpuInv(v, c) ==
    /\ c.pc \in IdlePlaces => IdleInv(v, c)
    /\ LaunchInv(v, c) /\ StopInv(v, c) /\ ReleaseInv(v, c)
    /\ PathInv(v, c) /\ RequestInv(v, c)

\* What holds of the context v and the processor c at each place of the launch,
\* stop and exit code:
\* the inductive strengthening of the properties above.
VcpuInv == VcpuTypeOK /\ \A p \in Cpus : CpuInv(vcpu[p], cpu[p])

=============================================================================
