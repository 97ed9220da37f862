# KNHV: specifications, model checking and proofs

KNHV is a Windows x64 driver that turns a running system into a VT-x guest
("late launch") and gives the machine back when it is unloaded. This directory
holds TLA+ specifications of the driver, translated from the C++ and MASM
sources under `src/`, the TLC models that check them, and TLAPS proofs.

The question the project answers first is the one that decides whether the
machine survives: **is VMX ownership, and the memory behind it, always
accounted for**, across a staged launch, failures in the middle of it, timeouts,
fatal exits, deferred stops, retries and unload? Around that core stand modules
for everything else the repository decides by rules that are easy to get wrong:
who may use VMX, what enters a VMCS, what an exit does, what a dump contains,
what a number, a hook, a device or a partition may do after its owner changed,
and on which evidence a build is released.

## 1. Inventory

### 1.1 The VMX driver

| Part | State | Operations | Talks to |
|---|---|---|---|
| Per-processor VMX ownership (`vmx_launch.cpp`, `vmx_launch.asm`, `vmx_stop.cpp` 9-121, `vmx_teardown_state.cpp`, `vmx_entry.asm`) | `VcpuContext`: `State`, `LaunchStage`, `VmcsCurrent`, `TeardownRequest`, first-exit probe result; the processor itself (native, VMX root, guest) | `EnableHvCallback`/`PrepareHvCallback`, `AbortHvLaunch`, `MarkCurrentVcpu*`, `StopHvCallback`, the unload VMCALL, VMCLEAR/VMXOFF, native restore, park, bugcheck | called from launch DPCs and stop workers; VM exits enter it asynchronously |
| Target work (`vmx_stop.cpp` 277-896) | `TargetCpuWork` (thread handle, `State`, result, `Done`), `TargetLaunchDpcWork` (queued, completed, result) | `QueueTargetOperation`, `TargetCpuWorker`, `WaitTargetOperation`, `CloseCompletedTargetWork`, `QueueTargetLaunchDpc`, `TargetLaunchDpcRoutine`, `WaitTargetLaunchDpc`, `HasUnresolvedTargetWork` | worker threads and DPCs run concurrently with the coordinator; all waits have deadlines except the drain of a DPC that signalled |
| Lifecycle coordinator (`vmm.cpp`, `main.cpp`) | `g_HvLifecycle`, `g_HvImagePinned`, `g_VcpuData`, work arrays, the coordinator thread's affinity | `DriverEntry`, `StartHypervisor` (probe, staged launch, canaries, handoff, verify, publish), `StopHypervisorInternal`, `StopTargetProcessorWithRetries`, quarantine, reclaim, `DriverUnload` | drives the two parts above; reads their published states |
| Crash path (`vmx_crash.cpp`) | crash blob, callback registration, fatal snapshot | register, unregister, release, capture, secondary-dump callback | called from bugcheck; blob ownership tied to lifecycle |
| VM-exit dispatch and diagnostics (`vmx_exit.cpp`, `vmx_diagnostics.cpp`, `vmx_entry.asm`) | per-exit context, probe state, halt reason, host fault record | `VmExitHandler`, `RequestAuthenticatedUnload`, `HandleVmResumeFailure`, first-exit probe | decides between resume, restore and halt |
| Trace ring (`vmm_state.cpp`) | per-CPU ring with write index and record sequence | `WriteHvTrace` | read by the dump callback |
| VMCS construction, features, capability rules (`vmx_vmcs.cpp`, `vmx_features.cpp`, `vmx_capability_model.cpp`) | MSR images, control words | build, check, adjust | accept or reject a launch |
| Runtime watchdog (`vmx_stop.cpp` 124-275) | sampling thread of the single-CPU debug profile | sample, print | reads telemetry only |

### 1.2 The contract models and the control device

| Part | State | Operations | Correct when |
|---|---|---|---|
| Control device (`control/`) | session table, active count, client numbers, leases, remove lock | register, query, release, acquire/release lease, nested instruction, reflect exit, create, close, unload | a session or lease is only reached through the file that owns it and its own generation; counts agree with the table; close releases exactly the file's sessions |
| Providers (`provider/`) | lease, owner observation | select provider, evaluate owner gate | no provider is selected against contradicting ownership evidence |
| VPID (`vmx/vpid_model.cpp`) | leases, shootdowns | allocate, retire, reclaim, quarantine, begin/acknowledge/complete | a number is reused only after a complete, covering shootdown of its generation |
| EPT (`ept/`) | hook transactions, generations | begin, acknowledge, publish, retire, roll back, quarantine, expire | a hook is published only with all acknowledgements, in its own generation, before its deadline; terminal states are final |
| IOMMU (`iommu/`) | domains, assignments | prepare, activate, drain, detach, quarantine on fault | a faulted assignment never becomes active again; stale faults decide nothing |
| Interrupts (`interrupt/`) | pending queue, posted bits | enqueue, select, commit, post, drain | nothing is lost or injected twice; priority then age |
| Exit decision (`exit/`), CPU policy/matrix, time contract | pure functions | evaluate | total, fail-closed, no overflow |
| Nested VMX (`nested/`) | VMCS12 slots, current pointer, L2 running; VMCS02 image; shadow image | VMXON..VMRESUME, reflect, build VMCS02, shadow access | at most one current VMCS12, L2 runs only on it; shadow data never crosses a generation |
| WHP and broker (`whp/`, `broker/`) | partition and vCPU states | create, run, drain, close | no vCPU outlives its partition |
| Boot contract (`boot/`) | boot L0 state | start, hand off, recover, stop | one owner at a time |
| Evidence (`validation/`, `tools/target_evidence_tool.cpp`) | snapshots, manifests, packages in files | validate, write, gate, bind, emit | a pass is borne out by the raw record, and only a sound package passes |
| Preflight (`preflight/`) | one report | probe CPUID on every processor, probe the host, evaluate gates | nothing user mode cannot know is reported as known |

### 1.3 What is hard

* **Asynchrony.** A worker or a DPC can outlive the wait for it; a fatal exit
  can take a processor away at any instruction; the coordinator reads states
  that other processors publish.
* **Partial failure.** VMCLEAR, VMXOFF, VMLAUNCH, an allocation, a bind, a
  queue operation each fail in the middle of something.
* **Order of publication.** `State`, `LaunchStage` and `TeardownRequest` are
  three words updated one by one; readers act on each.
* **Irreversibility.** A freed VMCS region under a processor in VMX, or an
  unmapped image under a running DPC, cannot be undone; the code prefers to
  keep everything for ever (quarantine), or to bugcheck.

* **Generations.** The contract models guard caller-held records by generation
  numbers; what is stale must be refused, and refused for good.
* **Sampling.** Features are read by a thread that may move between processors
  that may differ, and used later on all of them.

`PROJECT.json` lists each hazard at its line with the properties that cover it.

## 2. Plan

| Step | Modules | Status |
|---|---|---|
| 1 | `Vcpu`, `VcpuProofs`: one processor's ownership protocol | checked, proved |
| 2 | `TargetWork`, `Vmm`, `VmxOwnership`: the driver and its promise | checked |
| 3 | `VmmProofs`: `VmmInv` is inductive; storage, quarantine, the two refinements | proved |
| 4 | `Provider`, `Negotiation`, `ControlDevice`, `OwnerGate` | checked; `ControlDevice` and `OwnerGate` proved (`ControlProofs`) |
| 5 | `Vpid`, `Ept`, `EptHook`, `Iommu`, `Interrupt` | checked; `Vpid` (`VpidProofs`), `EptHook` and `Iommu` (`ContractProofs`) proved |
| 6 | `NestedVmx`, `NestedAccess`, `VmcsShadow`, `Vmcs02` | checked |
| 7 | `CrashDump`, `TraceRing`: capture protocols and their readers | checked; safety proved (`DumpProofs`) |
| 8 | `ExitDispatch` | checked |
| 9 | `VmxControls`, `FeatureContract`, `VmcsSetup`: what enters a VMCS | checked |
| 10 | `CapabilityMatrix`, `CpuProbe`, `VmxCapability`, `CpuPolicy`, `TargetEvidence`, `TargetSnapshot`, `EvidenceTool` | checked |
| 11 | `Whp`, `TimeContract` | checked |
| 12 | `VmmStopProofs`, `VmmOrderProofs`: the order of launches and stops | proved |
| 13 | proofs: exits, the VMCS failure record, the WHP partition, negotiation | next |

## 3. Modules and how they correspond to the code

`Vmm` EXTENDS `TargetWork` EXTENDS `Vcpu`. Definitions carry the names of the
functions they model; `PROJECT.json` ("map") gives the lines.

### 3.1 `Vcpu.tla`

`vcpu[p]` is the part of `VcpuContext` that decides ownership. `cpu[p]` is the
processor: its `mode`, the place `pc` of the driver code running on it (`"idle"`
when none does), and the `path` by which it entered the shared VMCLEAR/VMXOFF
sequence. A processor executes one thing at a time, so one `pc` is enough:
launch code runs in a DPC, stop code in a bound thread, exit code in VMX root
on top of the guest.

* Launch: `LaunchCall`, `PrepareClaim` .. `PrepareReady`, `MarkHandoff`,
  `MarkLaunched`, `VmLaunch`, `MarkCurrentVcpuRunning`, `RunFirstExitProbe`, and
  the failures `PrepareRefuse`, `PrepareReject`, `PrepareAbandon`, `LaunchFails`,
  `AbortClaimStage`, `AbortClaimState`, `LaunchFailed`.
* Stop: `StopEnter` .. `StopPublishStage`, with the deferral
  (`StopDeferRequest`, `StopDeferStage`, `StopDeferState`) word by word.
* Exit: the authenticated unload VMCALL deferred, accepted or turned into a halt
  (`UnloadDefer`, `UnloadAccept`, `UnloadHalt`), the one-shot authorization
  (`MarkCurrentVcpuTearingDown`), `FatalExit`, `MarkCurrentVcpuParked`.
* Release: `ClearVmcsBegin`, `ClearVmcsDone`, `ClearVmcsFails`, `VmxOff`,
  `VmxOffFails`.
* `HostException` takes a processor in VMX root away at any place; the first one
  bugchecks, later ones hang. A bugcheck (`crashed`) stops everything.

One step is one interlocked operation or one privileged instruction another
processor could observe. Adjacent writes by one processor are one step only
where no reader can act between them (for instance the stage and state
published together right after VMXON). Why a check accepts or refuses (CPUID,
MSRs, memory) is a nondeterministic choice.

### 3.2 `TargetWork.tla`

`work[p]` and `dpc[p]` are the two work records together with the agent that
runs on them (`thread`, `routine`: where the worker thread or DPC stands, a fact
of the operating system that the code cannot read). Worker: enter, bind, execute
(probe, canary or stop), report, publish. DPC: enter, launch, result, signal,
return; the signal precedes the return, so completion and quiescence differ.

### 3.3 `Vmm.tla`

`co` is the coordinator thread: its place, loop index, local results, retry
count, and its affinity (`bound`, `outer`). Each `CoPlaces` member is a point of
`StartHypervisor`, `StopHypervisorInternal`, the wait functions or the driver
entry points at which something else may run. Windows never runs `DriverUnload`
beside `DriverEntry`, so there is one coordinator. Waits are choices between
completion and timeout: time is not modelled, which covers every relation of
deadlines and speeds.

### 3.4 `VmxOwnership.tla`

The promise: storage is allocated before anyone enters, freed only when nobody
is inside, and once "kept" never given back. `Vmm` implements it under the
mapping `users <- {p : Uses(p)}`, `storage <- kept / held / none`.

### 3.5 Around the launch: `VmxControls`, `FeatureContract`, `VmcsSetup`

`VmxControls` has the capability MSRs and control words as operators: a control
word is a set of named bits, a capability MSR what it forces and what it allows.

`FeatureContract` is a load on `N` processors. The sampling thread
(`IsVmxSupported`, called from `DriverEntry` and again from `StartHypervisor`) is
not pinned, so each step of it (`Gate`, `InitializeXstate`, `InitializeCet`,
`Accept`, `Allocate`) may run on another processor; `Prepare` is the check each
processor makes of itself in `PrepareHvCallback`. `Drift` lets Windows change
XCR0, IA32_XSS, CET or tracing in between, and ends when a processor is ready,
because from then on its exits police XSETBV and IA32_XSS (`ExitDispatch`).
Processors may differ in what they do not compare: PT in VMX operation, which
only the sampling processor was asked for, and the controls for RDTSCP and
INVPCID, which are enabled where they are offered and not withdrawn from CPUID
where they are not (4.3). The
sizes of state components are units, not bytes. VMX instruction failures belong
to `Vcpu` and `VmcsSetup`.

`VmcsSetup` is one `SetupVmcs` as a program of steps, each a check or a group of
VMCS fields that is written and read back alike. A write is direct (its failure
returns) or latched (`VmcsWriteFailed` remembers it). The failure record is
written word by word, first failure wins, while a crash callback copies it from
another processor. What the read-back does not compare is left uncompared in the
model too: host DS, ES, FS and GS selectors, most guest segment fields and DR7,
activity state, link pointer, pending debug exceptions and SMBASE, the fields
set to zero, and the entry event fields. Reading the source with the model gave
three observations that no property needs: the latch test before the read-back
is redundant with the comparison, and the tertiary branch and the fallback
record of the read-back cannot be reached with today's requests. The XSS
transition after `SetupVmcs` leaves no VMCS failure record and is outside the
module.

### 3.6 Exits: `ExitDispatch`

`ExitDispatch` is `VmExitHandler` on one processor: guest RIP, registers and
pending events, with any VMREAD, VMWRITE, VMRESUME or VM entry failing. The CR0
and CR4 masks are zero, so CR3 is the only control register that exits, and the
MSR bitmap traps IA32_XSS only; the branches for CR0, CR4 and VMCS-backed MSRs
cannot be reached and are left out. CR4.PCIDE is constant in a run. A VMREAD of
DR7 or DEBUGCTL that fails in the assembly prologue is treated as the failure of
the handler's own later read.

### 3.7 Diagnostics: `CrashDump`, `TraceRing`

`CrashDump` orders, store by store, what `DriverEntry`, `StartHypervisor`,
`StopHypervisorInternal` and `DriverUnload` do with the blob, the contexts and
the callback registration, against a bugcheck at any point, the fatal snapshot a
processor in VMX root may still be writing, and the dump writer that takes the
blob in chunks. `StopHypervisorInternal` frees the rings and then the contexts
before it clears the pointer that the registered callback follows. In that
window (`ContextsDangle`, `EvidenceDangles`) each read of the capture returns
anything, or faults and never comes back (`FaultInCapture`); the coherence of
the dump and its end are stated outside the window, and the run `dump_freed` is
about the window itself. The fatal snapshot never marks guest state valid: the
bugcheck passes no RIP, and the dump no guest state marked valid, which is what
`BugCheckShowsTheFatalExit` and `DumpedSnapshotIsCoherent` say. `TraceRing` is
`WriteHvTrace` with plain stores and an interlocked sequence number, and the
lock-free copy of the tail. The named exceptions in its properties are real:
record number 0 looks like an empty slot, a slot may be lapped by a faster
writer, and one may be stored to while it is being copied.

### 3.8 Who owns VMX: `OwnerGate`, `Provider`, `Negotiation`, `ControlDevice`

`OwnerGate` is the owner gate and the preflight tool that feeds it. `Provider`
holds the rules of both ABI versions as operators over sets of flags;
`Negotiation` lets a client hold a lease while the platform is probed again;
`ControlDevice` runs the rules behind IOCTLs, with concurrent threads, files
whose addresses are used again, and unload. A handler body under `state_lock` is
one step. The test driver is this module with nested processors.

### 3.9 Contract models

`Vpid`, `EptHook`, `Iommu`, `Interrupt`, `VmcsShadow`, `Whp` and `TimeContract`
are libraries of transitions on records that a caller holds; no
caller exists in the repository yet. Each module adds what the library is there
to protect (cached translations, processors on an EPT generation, the device and
whose data it holds, the posted vectors, the values of a generation), and names
the caller's discipline as external in its heading: what the tests do and the
library cannot check. Calls that violate generations, deadlines or state are not
excluded; they are what the modules are about.

* `Vpid`: a table entry is reclaimed with a shootdown begun while it retires and
  aimed at every processor. `tlb` holds the numbers under which a processor
  caches non-global translations: a shootdown that retains global ones keeps
  them by design, so whether a number is flushed is a question about the others.
  A shootdown is requested for a generation that was handed out. The proof needs
  this and TLC shows why: a shootdown begun for a generation still to come, and
  completed before it is issued, would serve to reclaim the lease that gets it,
  with the new owner's translations still cached. The library compares
  generations for equality only and could not tell.
* `EptHook`: an update that the EPT generation overtook before its publication
  can no longer be published or retired (`OvertakenUpdateIsInert`).
* `Ept`, `NestedAccess`, `Vmcs02`: pure functions, compared with a reference
  definition over all inputs of a scaled-down address space.
* `NestedVmx`: the VMX instructions of L1 and the exits of L2 in any order. The
  library does not refuse VMPTRLD while L2 runs and makes a launched VMCS12
  Active when it is loaded again. So L2 runs with a current VMCS12 that need not
  be the one it was entered through (`entered`), and `launched` remembers what
  VMLAUNCH entered since it was last cleared: the state Launched implies it, the
  reverse does not hold (run `relaunch`).

### 3.10 Policies and evidence

`CapabilityMatrix` has the two tables a target is judged by. `CpuProbe` is the
thread that fills the first one, pinned to each processor in turn; if something
moves it away it stays away for that sample (a move away and back between two
reads is invisible to the code and not modelled). `VmxCapability` builds the
second one and normalises control sets; `CpuPolicy` has the CPUID and MSR
policies. The policies and the normalisation are called by tests only. Tertiary
controls may be normalised without the `TertiaryControls` flag.

`TargetEvidence` has validation, manifest writer, gates and binding as
operators; `TargetSnapshot` breaks a complete snapshot in up to two places and
has it judged. A fault drops a flag or a digest, or reports another digest,
count, generation, owner or signature than was recorded. The model keeps what
the code does not ask: the validator compares owner and generation but does not
evaluate the owner gate again (4.3); the collector's binding holds
the digest of the artifacts and not their number; the expected counts of the two
matrices are not compared with each other; `KdConnected` is asked by the gate
only; a request's non-zero required flags replace the defaults of the stage.

`EvidenceTool` runs tool processes over files that others change. A stream is
tested for `good()` before its buffered data reaches the file at close, so a
loss at close goes unnoticed and an emitter may report success over an empty
file, which the later runs must refuse; a report reaches its file before the
process exits, and others may touch the file in between; the output path may be
the package's own; without readable input no report is written and an older one
stays. Bytes and SHA-256 are abstracted to where a package is damaged.

## 4. Runs

### 4.1 The driver

| Run | Instance | What it shows |
|---|---|---|
| `vmm` | N = 2, RetryLimit = 2 | storage and image outlive every user, quarantine is for life, Running means whole, launch order, coordinator placement, one stop at a time, success of a stop is proof of release, blob ownership, and `OrderInv`, the inductive invariant behind them; `Vmm` keeps `Vcpu`'s protocol (`UsesVcpu`) and implements `VmxOwnership` |
| `vmm_live` | N = 2, RetryLimit = 1, fairness | every start and unload ends: loaded, resident, unloaded or bugcheck |

### 4.2 The parts around it

Modules that share no state are checked side by side: the MC module of such a
run starts every behaviour in one of its parts, and the other parts keep one
initial state throughout. The states of the run are the sum of the parts' states,
and each part is explored as it would be alone. A part has one property, its
promise, the conjunction of facts that are each defined and commented in its
module; the action and temporal ones among them are checked of the same
behaviours. `Vcpu` is run here by itself, with everything its callers may ask of
it, and in 4.1 under the coordinator.

| Run | Part | Promise: what it shows |
|---|---|---|
| `capability` | `FeatureContract` | `LoadKeepsItsContract`: the frame that saves extended state holds what is live; a ready processor fits the published contract; the published profile is common; each native instruction is enabled exactly where its control is offered, WAITPKG and XSAVES wherever the guest sees them; VMX regions are addressable |
| | `VmcsSetup` | `SetupIsTruthful`: TRUE promises a VMCS whose compared fields are right; a failure names its first cause, once, and a concurrent reader sees it whole or not at all; control words are ones `VmExitHandler` can handle; the call ends |
| | `CpuProbe` | `ProbeIsTruthful`: a pass is about the host, the affinity is given back, a clean visit passes, the probe ends |
| | `VmxCapability` | `MatrixSpeaksForAll`: a uniform matrix fits every processor, an announced feature and normalised controls can be used on each |
| | `CpuPolicy` | `PolicyIsConsistent`: the guest sees no more than the host has, hypervisor leaves agree, what an MSR returns it accepts |
| | `CrashDump` | `DumpIsTruthful`: the callback has its blob, hands out committed data only, in chunks that make the blob; while the contexts are not freed under it, the snapshot it copies is coherent and the dump ends |
| `driver` | `ExitDispatch` | `ExitsKeepTheGuest`: no event is lost or merged, a failed access is never resumed over, unload stays possible, a validated probe is alive, every exit is settled |
| | `ControlDevice` | `SessionsArePrivate`: count and table agree; sessions end with their open; keys, leases, replies and nested state stay with their owner |
| | `Negotiation` | `LeasesFollowThePlatform`: one lease mode per platform; a matching lease is one that would be granted; hardware for a verified owner only |
| | `OwnerGate` | `GateFailsClosed`: results are well formed, native acquisition needs full evidence, unknown blocks |
| `vmx` | `Vcpu` | `OwnershipIsTruthful`: every published ownership word can be trusted (terminal states mean released, VMXOFF never runs over a live VMCS, idle states are the real ones, the restore path owns a spent authorization, failed launches are resolved); `ParkedIsFinal`; `VcpuInv`, the invariant behind the proofs; N = 2 |
| | `NestedVmx` | `NestedStateIsConsistent`: errors are mirrored, L2 runs over a VMCS12 that was launched and is not clear, VMRESUME needs a launch, stored controls are allowed, a failure changes nothing |
| | `VmcsShadow` | `ShadowKeepsGenerations`: no value crosses a shadow generation, the dirty bitmap is exact |
| | `Vmcs02` | `BuildIsExact`: a built VMCS02 is valid with the least legal controls |
| | `NestedAccess` | `AccessIsExact`: accesses over page borders are what they are byte by byte |
| `evidence` | `TraceRing` | `TailIsTruthful`: kept records are whole and complete ones are kept, up to the named races; a quiet ring is current |
| | `TargetSnapshot` | `VerdictIsBorneOut`: a pass is borne out by the raw record, and by the owner observation when the recorded gate result is the one for it; the layers agree, later stages need more, a binding is for its capture |
| | `EvidenceTool` | `ToolIsTruthful`: only sound packages succeed, laboratory packages stay what they are, the two routes to a gate agree, reports say what exits say |
| `contracts` | `Vpid` | `VpidsAreExclusive`: a number has one live lease and is free only when no processor caches under it; quarantine is final |
| | `Ept` | `EptRulesAreExact`: nested lookup is composition, pointers round trip, rates are within budget |
| | `EptHook` | `HooksReachEveryCpu`: no processor is behind a published generation; settled and overtaken updates stay so |
| | `Iommu` | `DevicesAreExclusive`: an attached device serves its owner only and carries no residue; activation is still permitted when it happens; quarantine keeps the device |
| | `Interrupt` | `InterruptsAreKept`: no posted vector is lost, the selection is the best, NMIs do not nest, sequence numbers are fresh |
| | `TimeContract` | `ClockIsSound`: readings do not run backwards, rebase and calibration are exact |
| | `Whp` | `PartitionIsOrderly`: mappings are exact, late exits are not handled, final states stay |

### 4.3 Disagreements

Five runs state what a comment, a test or the README of the repository says and
find it violated. `PROJECT.json` ("findings") quotes the sentences.

| Run | What the code does instead |
|---|---|
| `vpid_timeout` | a fully acknowledged shootdown completed late is TimedOut in a form its own validity test refuses, so it can never be quarantined (`vpid_model.cpp` 282 against 245-247) |
| `resume_failure` | a failed VMRESUME parks whether or not the saved frame is valid (`vmx_diagnostics.cpp` 1010) |
| `dump_freed` | trace rings and contexts are freed before the pointer that the registered dump callback follows is cleared, so that a bugcheck in between reads freed memory (`vmm.cpp` 1120-1133, against the rule at `vmx_crash.cpp` 67) |
| `relaunch` | VMPTRLD makes a launched VMCS12 Active, and VMLAUNCH enters it again (`nested_instructions.cpp` 206, against `tests/nested_model_test.cpp` 316) |
| `pt_in_vmx` | a processor does not read VMX_MISC for itself, so that it enters VMX with PT selected in IA32_XSS although it has no PT in VMX operation (`vmx_launch.cpp` 383, against `vmx_features.cpp` 546 and `vmx_launch.cpp` 264) |

The models keep, and no run is about, other places where the code and a sentence
of the repository differ. They are worth a look by whoever changes that code:

* The fatal snapshot never marks guest state valid, so the bugcheck reports zero
  for RIP and RSP (`vmx_crash.cpp` 606, 671, 750, against the comment at 737).
* An unrequested external-interrupt exit parks the processor instead of
  continuing natively (`vmx_exit.cpp` 1320-1325, and the default case at 1358).
* RDTSCP or INVPCID enumerated without its control stays visible and is not
  enabled (`vmx_vmcs.cpp` 633, against the comment at 620).
* VMPTRLD is accepted while L2 runs, so that the exit lands in another VMCS12
  than the one L2 was entered through (`nested_instructions.cpp` 182, against
  `tests/nested_model_test.cpp` 298).
* A native snapshot passes the gate with an owner gate result that its own owner
  observation contradicts (`target_snapshot.cpp` 350, against the repository's
  `README.md` 292 and 316).
* An emitter reports success although its package was lost when the stream was
  closed (`target_evidence_tool.cpp` 422).
* VM entry accepts EPT pointers that the build of the VMCS02 refuses, and the
  reverse (`nested_vmcs.cpp` 339 and 17).
* The broker reports pass when a query it calls required failed
  (`whp_broker.cpp` 315).

### 4.4 Bounds

Two processors give a coordinator processor and a target, a failing and a
surviving one, and a rollback with one processor launched; that nothing depends
on a processor in the middle is what the proofs for every `N` say. `RetryLimit`
2 (32 in the code) gives a retry that succeeds, one that fails again, and the
exhausted loop. Start, stop and reload repeat without limit because the state
returns to the initial one. What `vmm` checks is also proved for every `N` and
`RetryLimit`.

Generation bounds (`MaxGeneration`, `GenerationWidth`) leave room for a current,
a stale and a last generation, so that exhaustion or wrap-around happens. Tables
and queues have two entries: one full, one to reuse. Word widths (`WordBits`,
`Word`, `PhysicalBits`) are small enough to enumerate every value and keep each
overflow check of the code. `MaxFaults` is 2 where a second fault can hide the
first; a flaw of the inputs counts as one of them. `MaxClient` is 2: two
registrations, side by side or one in the slot the other gave back. `MaxDrift`
is 1: one change by Windows falls between any two steps of a load, which is what
separates a sample from its use; `MaxTouches` is 2, so that two files, or one
file twice, are changed by other programs. Of two tool processes at least one
writes, since two that only read do not meet; a refused command line is tried
beside one other. The MC modules choose hardware, policies and packages so that
every branch is taken by some member. Symmetry is used where files, requests,
VMX regions, slots, processors or tools are interchangeable in every definition;
no run has both symmetry and a liveness property.

Deadlock checking is off where the system may stop: after a bugcheck, in a
resident quarantine, or when a bound, a single call or a terminal state ends a
behaviour.

### 4.5 Fairness

* `Vmm`: weak fairness of the coordinator, whose waits have deadlines except the
  drain of a DPC that already signalled; of driver code on a processor (`Run`) and
  of the launch DPC, which run at raised IRQL or in VMX root and are not
  preempted. Nothing is assumed of worker threads: they may never be scheduled.
  Nothing forces an unload, a fatal exit or a failure.
* `CrashDump`: the dump writer calls the callback again as long as it is told
  that more is to come.
* `CpuProbe`: one thread that keeps running; being moved or failing is not fair.
* `VmcsSetup`: `SetupVmcs` runs in a DPC that nothing preempts for good.

## 5. Proofs

`VcpuProofs.tla` proves for every number of processors `N` (assumption
`NAssumption`: at least two, as `StartHypervisor` demands, `vmm.cpp` 254):

* `PlaceInvariant`: `VcpuInv` holds in every behaviour. It is `VcpuTypeOK` and,
  for each processor, `CpuInv`: the place of the code determines mode, state,
  stage, VMCS ownership and authorization. The published words alone are not
  inductive (a state `TearingDown` occurs in a launch rollback, a stop and a
  fatal exit with different meaning), which is why the invariant speaks of
  places. A step of one processor leaves every other processor's record alone
  (`Local`, `Frame`), so each action is shown to keep the invariant of its own
  processor (`LaunchKeeps`, `StopKeeps`, `ExitKeeps`, `ReleaseKeeps`,
  `AsideKeeps`) and types are handled apart (`*Types`).
* from it: `TypeCorrect`, `TerminalIsReleased`, `VmclearPrecedesVmxoff`,
  `IdleIsTruthful`, `RestoreOwnsStop`, `FailureIsResolved`, and the action
  property `ParkedStays`. `OwnershipHolds` puts five of them together: it is
  `OwnershipIsTruthful` for every `N`.

`VmmProofs.tla` proves for every such `N` and every positive `RetryLimit`
(`RetryLimitAssumption`):

* `DriverInvariant`: `VmmInv` holds in every behaviour of the whole driver.
  `StorageRetained` is not inductive: that `FinalCheck` frees nothing in use
  depends on what the words it reads stand for. `VmmInv` adds, besides types and
  `VcpuInv`,
  * `WorkInv`: code on a processor has an owner the coordinator can see, an open
    thread handle or an undrained DPC;
  * `QuietInv`: storage is missing, or about to be freed, only when every
    processor is native and idle and has no worker or DPC;
  * `StorageInv`: which storage exists at which place of the coordinator;
  * `IndexInv`: the loop indices are processors where they are used as such;
  * `FaultInv`: the fault record that a new start resets is not set then.

  Each conjunct is kept by a lemma of its own (`TypesKept`, `WorkKeeps`,
  `QuietKeeps`, `StorageKeeps`, `IndexKeeps`, `FaultKeeps`), all resting on the
  `*Moves` lemmas, which say from where to where each action takes the
  coordinator. `VcpuInv` needs no new argument: `StepOfVcpu` shows that every
  step of the driver is a step of `Vcpu` or leaves it alone. The step that
  matters most is `ReclaimableIsQuiet`: what `FinalCheck` reads (terminal states,
  resolved work, no current VMCS) implies that every processor is quiet.
* from it: `StorageIsRetained`, `DriverTypeCorrect`, the action property
  `QuarantineStays`, and the two refinements: `DriverUsesVcpu`, by which all
  theorems about `VcpuSpec` hold of the driver, and `OwnershipIsKept`, by which
  the driver implements `VmxOwnership`.

`VmmStopProofs.tla` and `VmmOrderProofs.tla` prove, from the same assumptions,
that launches and stops are ordered. `RunningIsWhole`, `StagedLaunchInOrder`,
`CoordinatorOffTarget`, `OneStopAtATime`, `StopSuccessIsProof` and
`CrashBlobOwned` are not inductive, alone or together: they are about what a
thread or DPC is doing that the coordinator may have stopped waiting for.
`OrderInv` says, on top of `VmmInv`,

* `RecordInv`: what the work records of one processor promise (no operation is
  reported before it returned; a stop is a success only over a native processor);
* `PendingLaunchInv`, `PendingStopInv`: a launch or a stop under way is the only
  one, and the coordinator waits for it or has quarantined the driver;
* `StagedInv`, `RunningInv`, `StopInvCo`: at each place of the coordinator, which
  processors are verified, native or dead, and where its thread runs;
* `BlobInv`: the crash blob exists before the contexts do.

`LaunchesAndStopsInOrder` shows it invariant; the run `vmm` checks it with two
processors. A step of a processor, worker or DPC leaves every processor `Steady`,
from which all parts follow at once (`ProcessorKeepsOrder`); a step of the
coordinator is read off its action once and checked against what may be pending
(`PendingStays`) and what its next place asks (`NextPlace`, `NextStage`).

`ControlProofs.tla` proves `SessionsStayPrivate`: `SessionsArePrivate` for every
set of file addresses and requests in flight, every table size and every number
of opens and calls, from `ControlAssumption`: a table of at least one slot, a
positive even generation width, and no file object at the null address. The
promise had to be completed before it was inductive: which snapshot the image
was loaded with (a lease it grants is always a laboratory lease), that a request
in flight holds its file object open, and that a table slot is blank or filled
as a whole. The argument goes slot by slot: `Sound` says of one slot what the
promise says of all, `SlotwiseThen` and `SlotwiseIs` convert, and each handler
touches one slot (`HandlerKeeps`) except cleanup and close (`CloseKeeps`).

It also proves `GateStaysClosed`: `GateFailsClosed` for every observation and
every host, from `OwnerGateAssumption`, which only bounds two inputs: an owner is
one of the enumeration (the code refuses any other, `owner_observation.cpp` 145),
and CPUID has no leaf 1, or has it with or without the hypervisor bit. There is no
invariant to find, since an evaluation is one step; the work is in the cases.
`GateResult` lists every answer the gate can give and under what evidence, from
which validity (`GateResultValid`) and `GrantNeedsEvidence` follow. `PassedGate`
goes backwards through the conversions of the preflight: a clear evidence stands
for a probe that answered no, a no for a stopped service or a zero value, and one
owner for exactly one flag of the provider. `StrictestGate` concludes that the
gates computed from the same probes pass as well.

`DumpProofs.tla` is about what a crash dump holds. `TailStaysTruthful` is
`TailIsTruthful` for any number of writers, ring and tail size (`RingAssumption`)
and any number of writes. `RingInv` says what the slot of an undisturbed number
holds while its writer is at work: the parts it has stored, and not its number,
which is stored last (`RingHolds`). It is kept because numbers of one slot are a
whole turn of the ring apart (`SlotFacts`): whoever stores to a slot after the
record of `s` does so under a number that makes `s` an overwritten one, and a
number claimed while an earlier one of its slot is still being written is marked
as lapped from the start (`WritersDiffer`). On the reader's side, a record that
was complete when the index was read has no writer any more (`DoneStaysDone`), and
the fields copied from an undisturbed slot are still the slot's (`CopyIsFaithful`).
Being disturbed is for good, so each of these survives the steps of other writers.

`DumpStaysTruthful` is the safety part of `DumpIsTruthful`, for every blob size and
whatever room the dump writer offers: all of it but `DumpEnds`, which is liveness.
`DumpInv` has four parts, each disturbed by one actor: the callback is listed only
over an allocated blob (`StorageInv`, the driver), nothing stale is marked valid
once a fatal snapshot is begun (`SnapshotInv`, the processor in VMX root), a copy
that started under a committed snapshot agrees with it up to the field reached and
what passes the check is coherent (`CaptureInv`), and the cursor is what has been
delivered (`ChunkInv`, the dump writer). `CaptureInv` claims coherence only while
the contexts are not freed under the pointer to them, and so does the theorem:
after that the capture may read anything. The window is entered by the driver
thread only, which the bugcheck stops, so a capture is inside it from its first
read to its last or not at all.

`VpidProofs.tla` proves `VpidsStayExclusive` for any number of processors, table
entries and shootdowns under way. The invariant that carries it is
`ShootdownsServeTheirTenure`: as long as an entry has the generation its
shootdown names, every processor that has flushed is rid of its number. It holds
because an entry given out again gets a later generation, and it failed before
the discipline on requested generations (3.9) was part of the model.

`ContractProofs.tla` proves `HooksReachAll` and `DevicesStayExclusive`. For hooks
the library counts acknowledgements, while the promise is about every processor;
`AcksAreCounted` relates the counters to the sets of processors behind them, so
that a full count is the set of all (`CountCpus`). For devices,
`AssignmentsAreCurrent` says that a device has one live assignment and that a
prepared one with a current stamp is permitted on this very platform, from which
`ActivationIsStillPermitted` follows although the platform is not looked at
again: a probe brings a new generation, and a domain is rebuilt only when its
stamp is old. `Owners` are assumed to be different from the host and from nobody.

Only model-checked, and why:

* liveness (`CoordinatorSettles`, and the ends of `VmcsSetup`, `CpuProbe`,
  `CrashDump` and `ExitDispatch`), which is outside the prover's reach;
* `Ept`, `NestedAccess`, `Vmcs02`, `TimeContract`: arithmetic and recursion over
  addresses and words, compared with a reference over every small input
  (`NestedAccess` is recursive and stays with TLC for good);
* `Interrupt` and the page sum of `Whp`: folds over sequences, whose properties
  need induction over data;
* `ExitDispatch`, `VmcsSetup`, `Negotiation`, `NestedVmx`, `VmcsShadow`, the
  rest of `Whp`, the capability, policy and evidence modules: within reach in part,
  and later work.

## 6. What is not modelled

* Disabled by configuration constants: single-CPU debug profile, broadcast
  launch, kdmapper build, and the runtime watchdog, which only samples telemetry
  in the first of these.
* Data without influence on control: register images, telemetry
  (`g_HvWaitpkgVmcsEnabled`, `VmcsSetupPhase`), `g_LinearAddressBits`, messages,
  JSON and console output.
* Steps that cannot happen in the modelled driver: null checks after successful
  allocation, a lost stage give-back in `StopHvCallback` (only the owner writes
  the stage there), wait results other than success and timeout, a DPC delivered
  to the wrong processor, `MarkCurrentVcpuStopped` (no caller).
* A recursive host exception (a fault inside the fault handler) hangs the
  processor like a second fault does; the enrichment of the host fault record.
* In `Vmm`, an exit that does not change ownership is a stutter and one that halts
  is `FatalExit`; their bodies are in `ExitDispatch`, on one processor.
* The exit decision table (`exit/`), a pure table that only tests call; the boot
  handoff contract (`boot/`), a sequential state machine over one record that
  only tests call; the WHP broker program, which queries the platform once and
  prints a report.
* `ResolveNestedDma`, which repeats the nested lookup that `Ept` checks, and
  `ReadVmcs12Model`, which copies the current VMCS12.
* Byte layouts, structure sizes, versions and reserved fields of the ABI
  structures; SHA-256; benchmarks.

Known gaps, where the code is exposed and no property speaks of it: an IOMMU
fault that arrives after its device was detached; the preflight's probes, which
run one after the other while the host may change; an acknowledgement that
carries no request id (`AcknowledgeShootdown`); a number reclaimed after a
shootdown that retained global translations; a WHP partition closed while a
virtual processor runs; the expected counts of a snapshot's two matrices, which
the validator does not compare with each other.
