--------------------------- MODULE FeatureContract ---------------------------
(***************************************************************************)
(* The feature contract of a load: sampled twice by an unpinned thread     *)
(* (IsVmxSupported, from DriverEntry and from StartHypervisor), then        *)
(* checked again on every processor by PrepareHvCallback before it enters  *)
(* VMX.  Processors may differ, and Windows may change XCR0, IA32_XSS, CET *)
(* or tracing between the sample and a processor's own check.              *)
(*                                                                         *)
(* A processor is a record of VmxControls with, besides,                   *)
(*   xcr0Sup, xssEnum  state components CPUID leaf D enumerates            *)
(*   size, aligned     size of each component and which are aligned        *)
(*   excess            what D.1:EBX reports beyond the computed layout     *)
(*   ptVmx             VMX_MISC: Intel PT may be used in VMX operation     *)
(* and its live state `os` is [osxsave, xcr0, xss, cet, pke, live], live    *)
(* being the conditions of CR0, CR4, XFD, PT and the CET MSRs in force.    *)
(***************************************************************************)
EXTENDS VmxControls, SequencesExt

CONSTANTS N,         \* processors 1 .. N, prepared in this order
          Machines,  \* processor records by processor
          OsStates,  \* live states
          FrameMax,  \* VMEXIT_XSAVE_MAX, in units
          MaxDrift   \* bound: changes Windows makes during one load

Cpus == 1 .. N

VARIABLES hw, os,
          at,                    \* where the load is
          round,                 \* 1: DriverEntry's gate, 2: StartHypervisor's
          seen,                  \* CET MSRs and XSS as the gate read them
          contract,              \* the g_* contract variables
          low,                   \* VMX regions allocated below 4 GiB
          ready,                 \* processors that passed their own preparation
          word,                  \* secondary control word of a ready processor
          candidate, published,  \* optional profile
          drifts

contractVars == <<hw, os, at, round, seen, contract, low, ready, word,
          candidate, published, drifts>>

---------------------------------------------------------------------------
\* XSAVE layouts.
Components == <<"Avx", "Ipt", "Pkru", "CetU", "Tile">>
LegacyArea == 2
FxsaveAreaSize == 1
Preservable == {"Ipt", "CetU"}

Align(n) == n + (n % 2)

\* Offset past the last component of the compacted form.
CompactSize(h, mask) ==
    FoldLeft(LAMBDA off, c :
                 IF c \notin mask THEN off
                 ELSE (IF c \in h.aligned THEN Align(off) ELSE off) + h.size[c],
             LegacyArea, Components)

\* ComputeXsaveAreaSize: 0 when it fails.
ComputeXsaveAreaSize(h, xcr0, xss) ==
    IF /\ "LeafD" \in h.cpuid
       /\ xcr0 \subseteq h.xcr0Sup /\ "Base" \in xcr0
       /\ xss \subseteq h.xssEnum
       /\ \A c \in (xcr0 \cup xss) \ {"Base"} : h.size[c] > 0
    THEN CompactSize(h, xcr0 \cup xss) ELSE 0

\* What CPUID reports for the live state: D.0:EBX and D.1:EBX.
StandardSize(h, o) ==
    FoldLeft(LAMBDA off, c : IF c \in o.xcr0 THEN off + h.size[c] ELSE off,
             LegacyArea, Components)
ReportedXsavesSize(h, o) == CompactSize(h, o.xcr0 \cup o.xss) + h.excess

UsesXsave(h, o) == {"LeafD", "Xsave"} \subseteq h.cpuid /\ o.osxsave

FxsaveUsable(h, o) ==
    "Fxsr" \in h.cpuid /\ ~o.osxsave /\ ~o.pke /\ "NoOsfxsr" \notin o.live

\* CPUID and hardware allow only these live states.
Possible(h, o) ==
    /\ o.xcr0 \subseteq h.xcr0Sup
    /\ o.xss \subseteq (IF "XsavesInsn" \in h.cpuid THEN h.xssEnum ELSE {})
    /\ o.osxsave => "Xsave" \in h.cpuid
    /\ o.cet => "Cet" \in h.cpuid
    /\ "Xfd" \in o.live => "Xfd" \in h.cpuid
    /\ "Tracing" \in o.live => "Pt" \in h.cpuid
    /\ o.live \cap {"UserCet", "CetActive", "CetState", "CetMalformed"} # {}
           => "Cet" \in h.cpuid

---------------------------------------------------------------------------
NoContract ==
    [valid |-> FALSE, xsaves |-> FALSE, mode |-> "Fxsave", mask |-> {},
     enumXss |-> {}, xss |-> {}, xcr0 |-> {}, size |-> 0, cet |-> FALSE,
     busLock |-> FALSE, profile |-> {}]

Unused == [live |-> {}, xss |-> {}]

\* IsVmxSupported up to the contract: the live state a processor must not be in.
GateBefore(h, o) ==
    /\ h.flaws \cap {"NotIntel", "NoVmx", "Hypervisor"} = {}
    /\ o.live \cap {"Fred", "EmTs", "Tracing", "Xfd"} = {}
    /\ IF "Xsave" \in h.cpuid /\ o.osxsave
       THEN "Base" \in o.xcr0 /\ o.xcr0 \subseteq h.xcr0Sup
       ELSE FxsaveUsable(h, o)
    /\ "Pt" \in h.cpuid => {"Misc", "Rtit"} \subseteq h.readable
    /\ "Xfd" \in h.cpuid => ReadMsrSafe(h, "Xfd")
    /\ "Cet" \in h.cpuid => ReadMsrSafe(h, "Cet")

SeenBy(h, o) ==
    [live |-> IF "Cet" \in h.cpuid THEN o.live ELSE {},
     xss  |-> IF h.cpuid \cap {"Cet", "XsavesInsn"} # {} THEN o.xss ELSE {}]

\* InitializeVmxFeatureContract up to the CET controls.
XstateRefused(h, o) ==
    \/ ~ReadMsrSafe(h, "Basic")
    \/ IF UsesXsave(h, o)
       THEN \/ ~(o.xcr0 \subseteq h.xcr0Sup) \/ "Base" \notin o.xcr0
            \/ o.pke /\ "Pkru" \notin o.xcr0
            \/ "XsavesInsn" \in h.cpuid /\ ~ReadMsrSafe(h, "Xss")
            \/ ~(o.xss \subseteq h.xssEnum \cap Preservable)
            \/ "Ipt" \in o.xss /\ ~({"Misc", "Rtit"} \subseteq h.readable
                                    /\ h.ptVmx /\ "Tracing" \notin o.live)
       ELSE ~FxsaveUsable(h, o) \/ o.cet \/ "Fred" \in o.live

XsavesUsable(h) ==
    /\ "XsavesInsn" \in h.cpuid /\ ReadMsrSafe(h, "Xss")
    /\ SecondaryField(h)
    /\ VmxControlAllows(h, "Ctls2", h.secondary, {"Xsaves"})

\* The frame of the chosen save instruction; 0 when the layout is refused.
FrameSize(h, o) ==
    IF XsavesUsable(h)
    THEN IF ComputeXsaveAreaSize(h, o.xcr0, o.xss) = ReportedXsavesSize(h, o)
         THEN ReportedXsavesSize(h, o) ELSE 0
    ELSE IF o.xss = {} THEN StandardSize(h, o) ELSE 0

SampledXstate(h, o) ==
    IF ~UsesXsave(h, o)
    THEN [NoContract EXCEPT !.valid = TRUE, !.size = FxsaveAreaSize,
             !.busLock = "BusLock" \in h.cpuid,
             !.profile = BuildVmxCapabilityProfile(h, FALSE, FALSE)]
    ELSE [NoContract EXCEPT
             !.xsaves = XsavesUsable(h),
             !.mode = IF XsavesUsable(h) THEN "Xsaves" ELSE "Xsave",
             !.mask = When(XsavesUsable(h), o.xss),
             !.enumXss = h.xssEnum,
             !.xss = o.xss, !.xcr0 = o.xcr0,
             !.size = FrameSize(h, o),
             !.cet = o.cet,   \* CR4 as read here, decided in InitializeCet
             !.busLock = "BusLock" \in h.cpuid,
             !.profile = BuildVmxCapabilityProfile(h, FALSE, FALSE)]

CetControls(h) ==
    ControlBitCanBeOne(h.exit, {"Cet"}) /\ ControlBitCanBeOne(h.entry, {"Cet"})

---------------------------------------------------------------------------
ContractInit ==
    /\ hw \in Machines
    /\ \E o \in OsStates : os = [c \in Cpus |-> o]
    /\ \A c \in Cpus : Possible(hw[c], os[c])
    /\ at = "Gate" /\ round = 1
    /\ seen = Unused /\ contract = NoContract /\ low = FALSE
    /\ ready = {} /\ word = [c \in Cpus |-> {}]
    /\ candidate = {} /\ published = {}
    /\ drifts = 0

Unlaunched == UNCHANGED <<hw, os, low, ready, word, drifts>>

\* The sampling thread runs on any processor and may be moved between steps.
Gate(c) ==
    /\ at = "Gate"
    /\ IF GateBefore(hw[c], os[c])
       THEN at' = "Xstate" /\ seen' = SeenBy(hw[c], os[c])
       ELSE at' = "Rejected" /\ UNCHANGED seen
    /\ UNCHANGED <<round, contract, candidate, published>>
    /\ Unlaunched

InitializeXstate(c) ==
    /\ at = "Xstate"
    /\ candidate' = {} /\ published' = {}
    /\ IF XstateRefused(hw[c], os[c])
       THEN at' = "Rejected" /\ contract' = NoContract
       ELSE LET s == SampledXstate(hw[c], os[c])
            IN  /\ contract' = s
                /\ at' = IF s.valid THEN "Accept"
                         ELSE IF s.size \in 1 .. FrameMax THEN "Cet"
                         ELSE "Rejected"
    /\ UNCHANGED <<round, seen>>
    /\ Unlaunched

InitializeCet(c) ==
    /\ at = "Cet"
    /\ IF contract.cet /\ ~CetControls(hw[c])
       THEN at' = "Rejected" /\ contract' = [contract EXCEPT !.cet = FALSE]
       ELSE /\ at' = "Accept"
            /\ contract' = [contract EXCEPT
                   !.valid = TRUE,
                   !.profile = BuildVmxCapabilityProfile(
                                   hw[c], contract.xsaves, contract.cet)]
    /\ UNCHANGED <<round, seen, candidate, published>>
    /\ Unlaunched

\* The rest of IsVmxSupported, on what it read before the contract.
GateAfter(h) ==
    /\ seen.live \cap {"UserCet", "CetActive"} = {}
    /\ seen.live \cap {"CetState", "CetMalformed"} # {} => contract.cet
    /\ seen.xss # {} => contract.xsaves
    /\ h.flaws \cap {"FeatureControl", "Region"} = {}
    /\ contract.size <= FrameMax

Accept(c) ==
    /\ at = "Accept"
    /\ IF ~GateAfter(hw[c]) THEN at' = "Rejected" /\ UNCHANGED round
       ELSE IF round = 1 THEN at' = "Gate" /\ round' = 2
       ELSE at' = "Allocate" /\ UNCHANGED round
    /\ UNCHANGED <<seen, contract, candidate, published>>
    /\ Unlaunched

\* StartHypervisor: repeats the bounds, then allocates by this processor's
\* VMX_BASIC; without the 32-bit rule a region may land anywhere.
Allocate(c) ==
    /\ at = "Allocate"
    /\ IF \/ contract.mode = "Xsave" /\ StandardSize(hw[c], os[c]) > FrameMax
          \/ "Region" \in hw[c].flaws
       THEN at' = "Rejected" /\ UNCHANGED <<low, candidate, published>>
       ELSE /\ at' = "Launch"
            /\ low' \in (IF hw[c].addr32 THEN {TRUE} ELSE BOOLEAN)
            /\ candidate' = OptionalProfile /\ published' = {}
    /\ UNCHANGED <<hw, os, round, seen, contract, ready, word, drifts>>

---------------------------------------------------------------------------
\* PrepareHvCallback's own checks, on the processor that executes VMXON.
LocalProcessor(h, o) ==
    /\ "NotIntel" \notin h.flaws
    /\ ReadMsrSafe(h, "Basic")
    /\ IsIntelCpuBranchCompatible(h,
           BuildVmxCapabilityProfile(h, contract.xsaves, contract.cet))
    /\ h.flaws \cap {"NoVmx", "Hypervisor", "FeatureControl"} = {}
    /\ ("BusLock" \in h.cpuid) = contract.busLock
    /\ o.live \cap {"Fred", "EmTs", "FixedCr"} = {}

\* Mutant: the live selectors are taken from the sample, only sizes checked.
LocalXstateSizesOnly(h, o) ==
    IF contract.mode = "Fxsave" THEN FxsaveUsable(h, o)
    ELSE /\ UsesXsave(h, o)
         /\ IF contract.xsaves
            THEN ComputeXsaveAreaSize(h, o.xcr0, contract.mask) = contract.size
            ELSE StandardSize(h, o) = contract.size

LocalXstate(h, o) ==
    IF contract.mode = "Fxsave"
    THEN FxsaveUsable(h, o) /\ contract.size = FxsaveAreaSize
    ELSE /\ UsesXsave(h, o)
         /\ o.xcr0 \subseteq h.xcr0Sup /\ "Base" \in o.xcr0
         /\ o.xcr0 = contract.xcr0
         /\ StandardSize(h, o) <= FrameMax
         /\ contract.xsaves => ReadMsrSafe(h, "Xss")
         /\ ReadMsrSafe(h, "Xss") =>
                /\ o.xss \subseteq h.xssEnum \cap Preservable \cap contract.enumXss
                /\ o.xss = IF contract.xsaves THEN contract.xss ELSE {}
         /\ "Xfd" \in h.cpuid => ReadMsrSafe(h, "Xfd") /\ "Xfd" \notin o.live
         /\ IF contract.xsaves
            THEN /\ "XsavesInsn" \in h.cpuid
                 /\ ComputeXsaveAreaSize(h, o.xcr0, contract.mask) \in 1 .. FrameMax
                 /\ ComputeXsaveAreaSize(h, o.xcr0, contract.mask)
                        = ReportedXsavesSize(h, o)
                 /\ ComputeXsaveAreaSize(h, o.xcr0, contract.mask) = contract.size
                 /\ VmxControlAllows(h, "Ctls2", h.secondary, {"Xsaves"})
            ELSE StandardSize(h, o) = contract.size

LocalCetAndPt(h, o) ==
    /\ o.cet = contract.cet
    /\ "Waitpkg" \in h.cpuid =>
           VmxControlAllows(h, "Ctls2", h.secondary, {"Waitpkg"})
    /\ "Cet" \in h.cpuid => ReadMsrSafe(h, "Cet") /\ "UserCet" \notin o.live
    /\ "Pt" \in h.cpuid => ReadMsrSafe(h, "Rtit") /\ "Tracing" \notin o.live
    /\ contract.cet =>
           /\ CetControls(h)
           /\ o.live \cap {"CetActive", "CetMalformed"} = {}

\* Profiles may differ but for the save format and the CET fields.
LocalProfile(profile) ==
    profile \cap {"Xsaves", "CetVmcs"} = contract.profile \cap {"Xsaves", "CetVmcs"}

LocalRegions(h, o) ==
    /\ o.pke => "Pkru" \in o.xcr0
    /\ "Region" \notin h.flaws
    /\ h.addr32 => low

\* The candidate is narrowed before the last checks, so a processor that
\* fails them has narrowed it too.
Narrow(profile) == candidate \cap profile

NextCpu == CHOOSE c \in Cpus \ ready : \A d \in Cpus \ ready : c <= d

LaunchCpu(c) ==
    LET h == hw[c]
        o == os[c]
        profile == BuildVmxCapabilityProfile(h, contract.xsaves, contract.cet)
        checked == /\ LocalProcessor(h, o)
                   /\ LocalXstate(h, o)
                   /\ LocalCetAndPt(h, o)
    IN  /\ at = "Launch" /\ ready # Cpus /\ c = NextCpu
        /\ candidate' = IF checked THEN Narrow(profile) ELSE candidate
        /\ IF /\ checked /\ LocalProfile(profile) /\ LocalRegions(h, o)
              /\ ControlsAccepted(h, profile, contract.xsaves, contract.cet)
           THEN /\ ready' = ready \cup {c}
                /\ word' = [word EXCEPT
                       ![c] = SecondaryWord(h, profile, contract.xsaves)]
                /\ UNCHANGED at
           ELSE /\ ready' = {} /\ word' = [d \in Cpus |-> {}]
                /\ at' = "Stopped"
        /\ UNCHANGED <<hw, os, round, seen, contract, low, published, drifts>>

Publish ==
    /\ at = "Launch" /\ ready = Cpus
    /\ published' = candidate
    /\ at' = "Running"
    /\ UNCHANGED <<hw, os, round, seen, contract, low, ready, word,
                   candidate, drifts>>

\* Windows changes a processor that does not run under the monitor yet; once
\* it does, XSETBV and IA32_XSS writes exit and are policed (ExitDispatch).
Drift(c) ==
    /\ at \notin {"Rejected", "Running", "Stopped"}
    /\ drifts < MaxDrift /\ c \notin ready
    /\ \E o \in OsStates :
           /\ o # os[c] /\ Possible(hw[c], o)
           /\ os' = [os EXCEPT ![c] = o]
    /\ drifts' = drifts + 1
    /\ UNCHANGED <<hw, at, round, seen, contract, low, ready, word,
                   candidate, published>>

ContractNext ==
    \/ \E c \in Cpus : \/ Gate(c) \/ InitializeXstate(c) \/ InitializeCet(c)
                       \/ Accept(c) \/ Allocate(c) \/ LaunchCpu(c) \/ Drift(c)
    \/ Publish

ContractSpec == ContractInit /\ [][ContractNext]_contractVars

---------------------------------------------------------------------------
\* Types of the load's state: g_XstateMode, the optional profile words.
FeatureTypeOK ==
    /\ at \in {"Gate", "Xstate", "Cet", "Accept", "Allocate", "Launch",
               "Running", "Rejected", "Stopped"}
    /\ round \in 1 .. 2 /\ drifts \in 0 .. MaxDrift
    /\ contract.mode \in {"Fxsave", "Xsave", "Xsaves"}
    /\ contract.xsaves <=> contract.mode = "Xsaves"
    /\ candidate \subseteq OptionalProfile /\ published \subseteq OptionalProfile
    /\ ready \subseteq Cpus

\* The bytes the save instruction stores on exit from processor c.
FrameNeeded(c) ==
    CASE contract.mode = "Fxsave" -> FxsaveAreaSize
      [] contract.mode = "Xsave"  -> StandardSize(hw[c], os[c])
      [] OTHER -> CompactSize(hw[c], os[c].xcr0 \cup contract.mask)

\* The exit stub saves with one global mask and format into a fixed area below
\* the register frame (vmx_entry.asm, GuestContext.FxArea): on every processor
\* that entered VMX, what it stores is the size the contract recorded and fits.
FrameHoldsLiveState ==
    \A c \in ready :
        FrameNeeded(c) = contract.size /\ contract.size \in 1 .. FrameMax

\* No state is left out of the frame: each ready processor's live IA32_XSS and
\* XCR0 are the ones the contract was sampled with, although sampling ran on
\* other processors and Windows may have changed them since; its CR4.CET and
\* DEBUGCTL mask are those the shared assembly and validators assume, and it does
\* not trace.  Not checked again is VMX_MISC: that Intel PT may stay selected after
\* VMXON is known of the sampling processor only (PtSurvivesVmxon).
ReadyProcessorsMatchContract ==
    \A c \in ready :
        /\ contract.mode # "Fxsave" => os[c].xcr0 = contract.xcr0
        /\ os[c].xss = contract.mask
        /\ os[c].cet = contract.cet
        /\ ("BusLock" \in hw[c].cpuid) = contract.busLock
        /\ "Tracing" \notin os[c].live
        /\ "Ipt" \in os[c].xss => \E d \in Cpus : hw[d].ptVmx

\* "an IPT XSS component can remain selected after VMXON only when this CPU
\* advertises PT support in VMX operation" (vmx_features.cpp), and the contract is
\* rechecked "on the processor that will execute VMXON. This catches a
\* heterogeneous package" (vmx_launch.cpp).  It does not hold: PrepareHvCallback
\* compares IA32_XSS and does not read VMX_MISC.
PtSurvivesVmxon ==
    \A c \in ready : "Ipt" \in os[c].xss => hw[c].ptVmx

\* g_VmxGuestOptionalProfile, once the load is running, is exactly what every
\* processor enabled in its own secondary controls.
PublishedProfileIsCommon ==
    at = "Running" =>
        published = {f \in OptionalProfile : \A c \in Cpus : f \in word[c]}

\* An instruction the processor enumerates raises #UD in the guest unless its
\* secondary control is set (the comment in SetupVmcs).  WAITPKG and, when the
\* exit stub saves with it, XSAVES are never without theirs.  RDTSCP and INVPCID
\* are without it exactly on a processor that does not offer the control; that one
\* is launched all the same, and CPUID hides the feature from then on, also from a
\* Windows that found it before (PublishedProfileIsCommon).
NativeInstructionsAreEnabled ==
    \A c \in ready :
        /\ "Waitpkg" \in hw[c].cpuid => "Waitpkg" \in word[c]
        /\ contract.xsaves => "Xsaves" \in word[c]
        /\ \A f \in {"Rdtscp", "Invpcid"} \cap hw[c].cpuid :
               f \in word[c] <=>
                   SecondaryField(hw[c])
                     /\ VmxControlAllows(hw[c], "Ctls2", hw[c].secondary, {f})

\* The regions are allocated by the address rule of the processor StartHypervisor
\* happens to run on; a processor with the stricter rule never uses them above it.
RegionsAreAddressable == \A c \in ready : hw[c].addr32 => low

\* One load on processors that differ and change (vmx_features.cpp against
\* vmx_entry.asm and SetupVmcs): the save format, state masks, CET and DEBUGCTL
\* that StartHypervisor sampled on one processor are those of each one that
\* entered VMX, its frame is large enough there, and the instructions Windows uses
\* natively are enabled.  Two things are not: Intel PT in VMX operation is not
\* rechecked, and RDTSCP or INVPCID may lack its control.
LoadKeepsItsContract ==
  /\ FeatureTypeOK
  /\ FrameHoldsLiveState
  /\ ReadyProcessorsMatchContract
  /\ PublishedProfileIsCommon
  /\ NativeInstructionsAreEnabled
  /\ RegionsAreAddressable
============================================================================
