---------------------------- MODULE VmxControls ----------------------------
(***************************************************************************)
(* VMX capability MSRs and the control words SetupVmcs builds from them    *)
(* (vmx_features.cpp, vmx_exit.cpp, vmx_vmcs.cpp), as operators.           *)
(*                                                                         *)
(* A capability MSR is [must, may]: the bits its low half forces to one    *)
(* and the bits its high half allows to be one.  Bits are named; the bits  *)
(* the code treats alike (the always-one masks of vmx.h, the exits without *)
(* a handler, the fixed request of the exit and entry words) share a name. *)
(*                                                                         *)
(* A processor `hw` has                                                    *)
(*   flaws     package conditions every gate refuses                       *)
(*   model     "Hybrid" (allow-listed family 6), "Family6" or "Other"      *)
(*   core      CPUID.1A core type: "None", "P", "E" or "New"               *)
(*   cpuid     enumerated features                                         *)
(*   readable  capability MSRs whose RDMSR does not fault                  *)
(*   trueCtls  VMX_BASIC[55];  addr32  VMX_BASIC[48]                       *)
(*   pin, primary, secondary, exit, entry   capability MSRs                *)
(***************************************************************************)
EXTENDS Naturals, FiniteSets

When(c, S) == IF c THEN S ELSE {}

ControlBitCanBeOne(cap, mask) == mask \subseteq cap.must \cup cap.may

AdjustControls(ctl, cap) == (ctl \cap cap.may) \cup cap.must

\* ReadMsrSafe: an RDMSR that faults is a failed read.
ReadMsrSafe(hw, msr) == msr \in hw.readable

VmxControlAllows(hw, msr, cap, mask) ==
    ReadMsrSafe(hw, msr) /\ ControlBitCanBeOne(cap, mask)

---------------------------------------------------------------------------
\* The capability profile of the executing processor.
SecondaryField(hw) ==
    /\ ReadMsrSafe(hw, "Primary")
    /\ ControlBitCanBeOne(hw.primary, {"Secondary"})
    /\ ReadMsrSafe(hw, "Ctls2")

OptionalProfile == {"Rdtscp", "Invpcid"}

BuildVmxCapabilityProfile(hw, xsaves, cetVmcs) ==
    {IF hw.trueCtls THEN "True" ELSE "Legacy"}
    \cup When(SecondaryField(hw), {"Secondary"})
    \cup When(SecondaryField(hw) /\ xsaves
                /\ ControlBitCanBeOne(hw.secondary, {"Xsaves"}), {"Xsaves"})
    \cup When(cetVmcs, {"CetVmcs"})
    \cup {f \in OptionalProfile :
              /\ SecondaryField(hw)
              /\ f \in hw.cpuid
              /\ ControlBitCanBeOne(hw.secondary, {f})}
    \cup When(/\ ReadMsrSafe(hw, "Primary")
              /\ ControlBitCanBeOne(hw.primary, {"Tertiary"})
              /\ ReadMsrSafe(hw, "Ctls3"), {"Tertiary"})

SelectIntelCpuBranch(hw, profile) ==
    IF hw.core \in {"P", "E"}
    THEN IF hw.model = "Hybrid" THEN hw.core ELSE "HybridUnknown"
    ELSE IF hw.core # "None" THEN "HybridUnknown"
    ELSE IF hw.model = "Other" THEN "Unknown"
    ELSE IF hw.model = "Hybrid" /\ "True" \in profile THEN "Modern"
    ELSE "Legacy"

IsIntelCpuBranchCompatible(hw, profile) ==
    LET branch == SelectIntelCpuBranch(hw, profile)
    IN  /\ "NotIntel" \notin hw.flaws
        /\ branch \notin {"Unknown", "HybridUnknown"}
        /\ branch \in {"P", "E"} => {"True", "Secondary"} \subseteq profile
        /\ branch = "Modern" => "True" \in profile

---------------------------------------------------------------------------

\* Secondary controls asked for: the profile's optional instructions, and
\* WAITPKG and XSAVES whenever the guest sees them.
SecondaryRequested(hw, profile, xsaves) ==
    (profile \cap When("Secondary" \in profile, OptionalProfile))
    \cup When("Waitpkg" \in hw.cpuid, {"Waitpkg"})
    \cup When(xsaves, {"Xsaves"})

\* The guest sees WAITPKG natively, so the control must be available.
WaitpkgPolicy(hw, profile) ==
    "Waitpkg" \in hw.cpuid =>
        /\ "Secondary" \in profile
        /\ VmxControlAllows(hw, "Ctls2", hw.secondary, {"Waitpkg"})

XstatePolicy(profile, xsaves) ==
    xsaves => {"Secondary", "Xsaves"} \subseteq profile

---------------------------------------------------------------------------
\* "Fixed" stands for the always-one mask of the word; the primary word's
\* mask holds the CR3 pair as well, which true-control processors may clear.
PinFixed == {"Fixed"}
PrimaryFixed == {"Fixed", "Cr3"}
WordFixed == {"Fixed"}

\* Pin word: nothing but the mandatory bits, none of which causes exits.
PinPolicy(cap) ==
    LET ctl == AdjustControls({}, cap)
    IN  /\ cap.must \subseteq PinFixed
        /\ "PinExit" \notin ctl
        /\ ctl \subseteq PinFixed

PrimaryRequested(secondary) ==
    {"MsrBitmaps"} \cup When(secondary # {}, {"Secondary"})

PrimarySupported == {"MsrBitmaps", "Cr3", "Tertiary", "Secondary"}

\* "Unhandled" is any primary control whose exit has no handler.
PrimaryPolicy(cap, secondary) ==
    LET ctl == AdjustControls(PrimaryRequested(secondary), cap)
    IN  /\ "MsrBitmaps" \in ctl
        /\ secondary # {} => "Secondary" \in ctl
        /\ cap.must \subseteq PrimaryFixed
        /\ ctl \subseteq PrimarySupported \cup PrimaryFixed
        /\ "Unhandled" \notin ctl

\* Exactly the requested bits: EPT, VPID and the rest are not implemented.
SecondaryPolicy(cap, secondary) ==
    AdjustControls(secondary, cap) = secondary

\* The tertiary MSR is an allowed-one bitmap and nothing is requested of it.
TertiaryPolicy(hw, profile) ==
    /\ "Tertiary" \in profile
    /\ ReadMsrSafe(hw, "Ctls3")

WordRequested(cetVmcs) == {"Base"} \cup When(cetVmcs, {"Cet"})

\* Exit and entry words share one rule.
WordPolicy(cap, cetVmcs) ==
    LET ctl == AdjustControls(WordRequested(cetVmcs), cap)
    IN  /\ WordRequested(cetVmcs) \subseteq ctl
        /\ cap.must \subseteq WordFixed
        /\ ctl \subseteq WordRequested(cetVmcs) \cup WordFixed

\* The secondary word a processor runs with ({} when it is not activated).
SecondaryWord(hw, profile, xsaves) ==
    LET asked == SecondaryRequested(hw, profile, xsaves)
    IN  When("Secondary" \in AdjustControls(PrimaryRequested(asked), hw.primary),
             AdjustControls(asked, hw.secondary))

TertiaryActive(hw, asked) ==
    "Tertiary" \in AdjustControls(PrimaryRequested(asked), hw.primary)

\* Every policy of SetupVmcs in one: the words can be written.
ControlsAccepted(hw, profile, xsaves, cetVmcs) ==
    LET asked == SecondaryRequested(hw, profile, xsaves)
    IN  /\ ReadMsrSafe(hw, "Primary")
        /\ PinPolicy(hw.pin)
        /\ WaitpkgPolicy(hw, profile)
        /\ XstatePolicy(profile, xsaves)
        /\ PrimaryPolicy(hw.primary, asked)
        /\ "Secondary" \in AdjustControls(PrimaryRequested(asked), hw.primary)
               => SecondaryPolicy(hw.secondary, asked)
        /\ TertiaryActive(hw, asked) => TertiaryPolicy(hw, profile)
        /\ WordPolicy(hw.exit, cetVmcs)
        /\ WordPolicy(hw.entry, cetVmcs)
============================================================================
