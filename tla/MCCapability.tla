---------------------------- MODULE MCCapability ----------------------------
(***************************************************************************)
(* What the processors offer and what is made of it, and what a load       *)
(* leaves for a crash dump.  A behaviour is about one part: the feature    *)
(* contract of a load, the VMCS setup of a processor, the CPU matrix probe,*)
(* the VMX capability matrix, the CPUID and MSR policy, or the crash blob  *)
(* and its callback.  The parts share no state; those a behaviour is not   *)
(* about stay in one initial state.                                        *)
(***************************************************************************)
EXTENDS FeatureContract, VmcsSetup, CpuProbe, VmxCapability, CpuPolicy, CrashDump

VARIABLE part

Cap(must, may) == [must |-> must, may |-> may]

----------------------------------------------------------------------------
(* The load: one of the processors may differ from a common kind in one     *)
(* respect, and Windows makes one change during the load.                   *)

\* A hybrid part with XSAVES, CET and WAITPKG.
Modern ==
    [flaws |-> {}, model |-> "Hybrid", core |-> "P",
     cpuid |-> {"LeafD", "Xsave", "Fxsr", "XsavesInsn", "Xfd", "Pt", "Cet",
                "BusLock", "Rdtscp", "Invpcid", "Waitpkg"},
     readable |-> {"Basic", "Primary", "Ctls2", "Ctls3", "Xss", "Misc", "Rtit",
                   "Xfd", "Cet"},
     trueCtls |-> TRUE, addr32 |-> FALSE,
     pin |-> Cap({"Fixed"}, {"PinExit"}),
     primary |-> Cap({"Fixed"}, {"MsrBitmaps", "Secondary", "Tertiary", "Cr3",
                                 "Unhandled"}),
     secondary |-> Cap({}, {"Rdtscp", "Invpcid", "Waitpkg", "Xsaves", "Ept"}),
     exit |-> Cap({"Fixed"}, {"Base", "Cet"}),
     entry |-> Cap({"Fixed"}, {"Base", "Cet"}),
     xcr0Sup |-> {"Base", "Avx", "Pkru", "Tile"}, xssEnum |-> {"Ipt", "CetU", "CetS"},
     size |-> [c \in {"Avx", "Ipt", "Pkru", "CetU", "CetS", "Tile"} |->
                   CASE c = "Avx" -> 2 [] c = "Tile" -> 8 [] OTHER -> 1],
     aligned |-> {"CetU", "Tile"}, excess |-> 0, ptVmx |-> TRUE]

\* A family-6 part with plain XSAVE and a forced CR3 pair.
Older ==
    [Modern EXCEPT !.model = "Family6", !.core = "None", !.trueCtls = FALSE,
        !.cpuid = {"LeafD", "Xsave", "Fxsr", "Rdtscp"},
        !.readable = {"Basic", "Primary", "Ctls2"},
        !.primary = Cap({"Fixed", "Cr3"}, {"MsrBitmaps", "Secondary"}),
        !.secondary = Cap({}, {"Rdtscp", "Ept"}),
        !.exit = Cap({"Fixed"}, {"Base"}), !.entry = Cap({"Fixed"}, {"Base"}),
        !.xcr0Sup = {"Base", "Avx"}, !.xssEnum = {}, !.ptVmx = FALSE]

\* One that has FXSAVE only.
Oldest == [Older EXCEPT !.cpuid = {"Fxsr"}, !.readable = {"Basic", "Primary"},
              !.primary = Cap({"Fixed", "Cr3"}, {"MsrBitmaps"}),
              !.xcr0Sup = {}]

ModernVariants ==
    {Modern,
     [Modern EXCEPT !.core = "E", !.ptVmx = FALSE],
     [Modern EXCEPT !.core = "New"],
     [Modern EXCEPT !.core = "None"],
     [Modern EXCEPT !.secondary.may = @ \ {"Invpcid"}],
     [Modern EXCEPT !.secondary.may = @ \ {"Waitpkg"}],
     [Modern EXCEPT !.secondary.may = @ \ {"Xsaves"}],
     [Modern EXCEPT !.secondary.must = {"Ept"}],
     [Modern EXCEPT !.primary.must = @ \cup {"Unhandled"}],
     [Modern EXCEPT !.cpuid = @ \ {"BusLock"}],
     [Modern EXCEPT !.cpuid = @ \ {"Waitpkg", "Invpcid"}],
     [Modern EXCEPT !.cpuid = @ \ {"XsavesInsn"}, !.readable = @ \ {"Xss"}],
     [Modern EXCEPT !.addr32 = TRUE],
     [Modern EXCEPT !.size["Avx"] = 3],
     [Modern EXCEPT !.aligned = {"Tile"}],
     [Modern EXCEPT !.excess = 1],
     [Modern EXCEPT !.entry.may = {"Base"}],
     [Modern EXCEPT !.flaws = {"FeatureControl"}],
     [Modern EXCEPT !.readable = @ \ {"Basic"}]}

OlderVariants ==
    {Older,
     [Older EXCEPT !.secondary.may = @ \ {"Rdtscp"}],
     [Older EXCEPT !.addr32 = TRUE],
     [Older EXCEPT !.size["Avx"] = 1],
     Oldest}

Pairs(base, S) == {[c \in 1 .. N |-> IF c = 1 THEN base ELSE v] : v \in S}
                  \cup {[c \in 1 .. N |-> IF c = 1 THEN v ELSE base] : v \in S}

MCMachines == Pairs(Modern, ModernVariants) \cup Pairs(Older, OlderVariants)
              \cup Pairs(Oldest, {Oldest})

Windows11 == [osxsave |-> TRUE, xcr0 |-> {"Base", "Avx", "Pkru"},
              xss |-> {"Ipt", "CetU"}, cet |-> TRUE, pke |-> TRUE, live |-> {}]

CommonStates ==
    {Windows11,
     [Windows11 EXCEPT !.xss = {"CetU", "CetS"}],
     [Windows11 EXCEPT !.xcr0 = @ \cup {"Tile"}],
     [Windows11 EXCEPT !.xcr0 = {"Base", "Avx"}, !.pke = FALSE, !.xss = {},
                       !.cet = FALSE],
     [Windows11 EXCEPT !.osxsave = FALSE, !.xcr0 = {}, !.pke = FALSE,
                       !.xss = {}, !.cet = FALSE]}

MCOsStates ==
    CommonStates
    \cup {[Windows11 EXCEPT !.xss = {"CetU"}],
          [Windows11 EXCEPT !.xss = {}, !.cet = FALSE],
          [Windows11 EXCEPT !.xcr0 = {"Base", "Avx"}]}
    \cup {[Windows11 EXCEPT !.live = {f}] :
              f \in {"Fred", "EmTs", "Tracing", "Xfd", "UserCet", "CetActive",
                     "CetState", "CetMalformed", "FixedCr"}}

----------------------------------------------------------------------------
(* Setup: with and without CET and XSAVES, each sample check failing in     *)
(* turn and each control word with a forced bit the monitor does not handle.*)

Capable ==
        [flaws |-> {}, cpuid |-> {"Rdtscp", "Waitpkg"},
         readable |-> {"Primary", "Ctls2", "Ctls3"},
         pin |-> Cap({"Fixed"}, {"PinExit"}),
         primary |-> Cap({"Fixed"}, {"MsrBitmaps", "Secondary", "Tertiary", "Cr3",
                                     "Unhandled"}),
         secondary |-> Cap({}, {"Rdtscp", "Waitpkg", "Xsaves", "Ept"}),
         exit |-> Cap({"Fixed"}, {"Base", "Cet"}),
         entry |-> Cap({"Fixed"}, {"Base", "Cet"}),
         trueCtls |-> TRUE]

Legacy == [Capable EXCEPT !.cpuid = {}, !.readable = {"Primary"},
              !.primary = Cap({"Fixed", "Cr3"}, {"MsrBitmaps"}),
              !.trueCtls = FALSE]

Call(cpu, xsaves, cet, flaws) ==
    [hw |-> cpu, xsaves |-> xsaves, cet |-> cet, flaws |-> flaws,
     profile |-> BuildVmxCapabilityProfile(cpu, xsaves, cet)]

SampleFlaws == {"AfterVmclear", "AfterVmptrld", "Vmclear", "Vmptrld",
                "CetWriteProtect", "MsrSnapshot", "CetSnapshot", "GuestTr",
                "Descriptors", "Ldtr", "SampledTr", "HostIdt", "AfterHostState",
                "GuestEntry", "Rflags", "AfterGuestState", "AfterVmcsControls"}

Odd == {[Capable EXCEPT !.pin.must = {"Fixed", "PinExit"}],
        [Capable EXCEPT !.primary.must = {"Fixed", "Unhandled"}],
        [Capable EXCEPT !.primary.must = {"Fixed", "Tertiary"}],
        [Capable EXCEPT !.primary.may = @ \ {"MsrBitmaps"}],
        [Capable EXCEPT !.secondary.must = {"Ept"}],
        [Capable EXCEPT !.secondary.may = @ \ {"Xsaves"}],
        [Capable EXCEPT !.exit.may = {"Base"}],
        [Capable EXCEPT !.entry.must = {"Fixed", "Other"}],
        [Capable EXCEPT !.readable = {"Ctls2"}]}

MCInputs == {Call(Capable, x, x, {}) : x \in BOOLEAN}
            \cup {Call(Legacy, FALSE, FALSE, {})}
            \cup {Call(Capable, TRUE, TRUE, {f}) : f \in SampleFlaws}
            \cup {Call(h, TRUE, TRUE, {}) : h \in Odd}

----------------------------------------------------------------------------
(* Probe: a full processor; one that lacks VMX; one of another stepping;    *)
(* one whose leaves are missing; one with more address bits than allowed.   *)

MCIdentity == [vendor |-> "Intel", leaves |-> 1, bits |-> 46, other |-> 0]

\* A full processor; one that lacks VMX; one of another stepping; one whose
\* leaves are missing; one that reports more address bits than allowed.
MCKinds ==
  {[identity |-> MCIdentity, features |-> {"Vmx", "InvariantTsc"}],
   [identity |-> MCIdentity, features |-> {"InvariantTsc"}],
   [identity |-> [MCIdentity EXCEPT !.other = 1], features |-> {"Vmx", "InvariantTsc"}],
   [identity |-> [MCIdentity EXCEPT !.leaves = 0], features |-> {}],
   [identity |-> [MCIdentity EXCEPT !.bits = 53], features |-> {"Vmx", "InvariantTsc"}]}

----------------------------------------------------------------------------
(* The capability matrix. *)

MCPair(mandatory, allowed) ==
  [encoding |-> "Pair32", mandatory |-> mandatory, allowed |-> mandatory \cup allowed]

MCFull ==
  [generation |-> 1, revision |-> 1, true_controls |-> TRUE,
   feature_control |-> FeatureControlNeeded,
   caps |-> BasicEpt \cup FullInvept \cup FullInvvpid,
   controls |-> [c \in Controls |->
     CASE c = "primary" -> MCPair({"Reserved"}, {"ActivateSecondary", "ActivateTertiary"})
       [] c = "secondary" -> MCPair({}, {"Ept", "Vpid", "TscScaling"})
       [] c = "tertiary" -> [encoding |-> "AllowedOne64", mandatory |-> {}, allowed |-> {"High"}]
       [] OTHER -> MCPair({"Reserved"}, {})],
   fixed0 |-> {"Pe"}, fixed1 |-> {"Pe", "Pg"}]

\* The full processor, and processors that differ from it in one thing; the
\* last two report a capability no processor may have.
MCPayloads ==
  {MCFull,
   [MCFull EXCEPT !.generation = 2],
   [MCFull EXCEPT !.feature_control = {"Lock"}],
   [MCFull EXCEPT !.controls["pin"] = MCPair({"Reserved", "NmiExiting"}, {})],
   [MCFull EXCEPT !.caps = @ \ {"EptWriteBack"}],
   [MCFull EXCEPT !.caps = @ \ {"Invvpid"}],
   [MCFull EXCEPT !.controls["primary"] = MCPair({"Reserved"}, {"ActivateTertiary"})],
   [MCFull EXCEPT !.controls["primary"] = MCPair({"ActivateSecondary"}, {})],
   [MCFull EXCEPT !.controls["secondary"] = MCPair({"Vpid"}, {"Ept"})],
   [MCFull EXCEPT !.controls["secondary"] = MCPair({}, {"TscScaling"})],
   [MCFull EXCEPT !.controls["pin"].allowed = {}],
   [MCFull EXCEPT !.fixed0 = {"Pe", "Ne"}]}

MCPlaces == {<<0, 0>>, <<1, 1>>, <<1, 0>>}

MCRequest(primary, secondary, tertiary) ==
  [c \in Controls |-> CASE c = "primary" -> primary [] c = "secondary" -> secondary
                        [] c = "tertiary" -> tertiary [] OTHER -> {}]

MCRequests ==
  {MCRequest({}, {}, {}),
   MCRequest({}, {"Ept"}, {}),
   MCRequest({"ActivateSecondary"}, {"Ept"}, {}),
   MCRequest({"ActivateSecondary"}, {"Vpid", "TscScaling"}, {}),
   MCRequest({"ActivateSecondary", "ActivateTertiary"}, {"Ept", "Vpid"}, {"High"}),
   MCRequest({"ActivateSecondary"}, {}, {"High"})}

----------------------------------------------------------------------------
(* CPUID and MSR policy. *)

MCHost(vmx, hypervisor) ==
  [l \in Leaves |->
     CASE l = "0" -> [max |-> 13, bits |-> {"Vendor"}]
       [] l = "1" -> [max |-> 0, bits |-> {"Xsave"} \cup vmx \cup hypervisor]
       [] l = "40000000" -> IF hypervisor = {} THEN NoResult
                            ELSE [max |-> 5, bits |-> {"HostName"}]
       [] l = "80000000" -> [max |-> 8, bits |-> {}]
       [] l = "80000007" -> [max |-> 0, bits |-> {"InvariantTsc"}]
       [] OTHER -> [max |-> 0, bits |-> {"Topology", "Smep"}]]

MCHosts == {MCHost(v, h) : v \in {{}, {"Vmx"}}, h \in {{}, {"Hypervisor"}}}

MCNames == [max |-> 1, bits |-> {"GuestName"}]

\* Every set of flags, with and without a hypervisor leaf to show, with no
\* rule, a rule that masks leaf 1 and one that masks the leaf count of leaf 0,
\* and two leaf limits.
MCCpuidPolicies ==
  {[generation |-> 1, max_basic |-> b, max_extended |-> 7, flags |-> f,
    hypervisor_leaf |-> n, rules |-> r] :
     b \in {1, 11}, n \in {NoResult, MCNames},
     f \in SUBSET {"ExposeVmx", "ExposeHypervisor", "PreserveTopology", "ExposeInvariantTsc"},
     r \in {<<>>, <<[leaf |-> "1", keep |-> {"Xsave"}]>>, <<[leaf |-> "0", keep |-> {"Vendor"}]>>}}

MCRule(m, r, w, mask, allowed, required) ==
  [msr |-> m, read |-> r, write |-> w, read_mask |-> mask, allowed |-> allowed,
   required |-> required]

\* The last two are refused: a forced bit outside the allowed ones, and the
\* sensitive register passed through.
MCMsrPolicies ==
  {[generation |-> 1, flags |-> {"AllowPassThrough", "AllowTsc"}, rules |-> r] :
     r \in {<<>>,
            <<MCRule("Tsc", "PassThrough", "Virtualized", {}, {"a", "b"}, {"a"}),
              MCRule("Efer", "Virtualized", "Virtualized", {"b"}, {"a", "b"}, {"a"})>>,
            <<MCRule("Tsc", "Virtualized", "PassThrough", {"a"}, {}, {}),
              MCRule("Efer", "Virtualized", "InjectGeneralProtection", {"a"}, {}, {})>>,
            <<MCRule("Tsc", "InjectUndefinedInstruction", "Virtualized", {}, {"b"}, {})>>,
            <<MCRule("Tsc", "Virtualized", "Virtualized", {"a", "b"}, {"b"}, {"a"})>>,
            <<MCRule("Efer", "PassThrough", "PassThrough", {}, {}, {})>>}}

----------------------------------------------------------------------------
AnyOf(S) == CHOOSE x \in S : TRUE

----------------------------------------------------------------------------
(* The dump writer offers room for nothing, for a part, or for the whole blob. *)
MCAllowed == {0, 1, 2, 4}

----------------------------------------------------------------------------
Init ==
  /\ part \in {"contract", "setup", "probe", "matrix", "policy", "dump"}
  /\ part # "contract" =>
       hw = [c \in Cpus |-> Modern] /\ os = [c \in Cpus |-> Windows11]
  /\ ContractInit
  \* Processors that differ are loaded under a few states of Windows.
  /\ hw[1] # hw[2] => os[1] \in CommonStates
  /\ part # "setup" => in = AnyOf(Inputs)
  /\ SetupInit
  /\ part # "probe" => /\ cpuid = [c \in Processors |-> AnyOf(Kinds)]
                       /\ limit = AnyOf(Limits) /\ running = 1
  /\ ProbeInit
  /\ part # "matrix" => expected = AnyOf(Expected)
  /\ CapabilityInit
  /\ part # "policy" => /\ host = AnyOf(Hosts) /\ cpuidPolicy = AnyOf(CpuidPolicies)
                        /\ msrPolicy = AnyOf(MsrPolicies)
  /\ PolicyInit
  \* The CPUID half and the MSR half of a policy share nothing: each is
  \* explored with one setting of the other.
  /\ part = "policy" =>
       \/ msrPolicy.rules = <<>>
       \/ cpuidPolicy.flags = {} /\ cpuidPolicy.hypervisor_leaf = MCNames
  /\ DumpInit

OnlySetup ==
  UNCHANGED <<part, contractVars, probeVars, capabilityVars, policyVars, dumpVars>>
OnlyProbe ==
  UNCHANGED <<part, contractVars, setupVars, capabilityVars, policyVars, dumpVars>>
OnlyDump ==
  UNCHANGED <<part, contractVars, setupVars, probeVars, capabilityVars, policyVars>>

Next ==
  \/ part = "contract" /\ ContractNext
     /\ UNCHANGED <<part, setupVars, probeVars, capabilityVars, policyVars, dumpVars>>
  \/ part = "setup" /\ SetupNext /\ OnlySetup
  \/ part = "probe" /\ ProbeNext /\ OnlyProbe
  \/ part = "matrix" /\ CapabilityNext
     /\ UNCHANGED <<part, contractVars, setupVars, probeVars, policyVars, dumpVars>>
  \/ part = "policy" /\ PolicyNext
     /\ UNCHANGED <<part, contractVars, setupVars, probeVars, capabilityVars, dumpVars>>
  \/ part = "dump" /\ DumpNext /\ OnlyDump

\* Setup runs in a DPC, the probe in a thread, and the crash dump writer calls
\* the callback until it declines: each keeps taking steps.
Spec ==
  /\ Init
  /\ [][Next]_<<part, contractVars, setupVars, probeVars, capabilityVars, policyVars, dumpVars>>
  /\ WF_setupVars(part = "setup" /\ Setup /\ OnlySetup)
  /\ WF_probeVars(part = "probe" /\ ProbeStep /\ OnlyProbe)
  /\ WF_dumpVars(part = "dump" /\ Callback /\ OnlyDump)
=============================================================================
