-------------------------- MODULE CapabilityMatrix --------------------------
(***************************************************************************)
(* The two tables a target is judged by: the CPUID matrix of               *)
(* vmx/cpu_matrix_model.cpp and the VMX capability matrix of               *)
(* vmx/vmx_capability_model.cpp, each built from one sample per logical    *)
(* processor.  Words are sets of named bits; "High" stands for any bit     *)
(* beyond the low 32.  Sizes, versions and reserved fields are left out.   *)
(***************************************************************************)
EXTENDS Integers, Sequences, FiniteSets

\* The value all of S have in f, and 0 when they differ.
CommonValue(f, S) == IF \A i, j \in S : f[i] = f[j] THEN f[CHOOSE i \in S : TRUE] ELSE 0

Meet(f, S) == IF S = {} THEN {} ELSE {b \in UNION {f[i] : i \in S} : \A i \in S : b \in f[i]}
Join(f, S) == UNION {f[i] : i \in S}

FirstOf(S) == CHOOSE i \in S : \A j \in S : i <= j

\* No two samples of one processor.
Distinct(samples) ==
  \A i, j \in DOMAIN samples :
    i # j => samples[i].index # samples[j].index /\ samples[i].slot # samples[j].slot

----------------------------------------------------------------------------
(* The CPUID matrix. *)

SampleFailures == {"AffinityFailed", "Migrated", "CpuidFailed"}

MaxAddressBits == 52

\* leaves = 0: the basic or the extended leaves are missing.  other: what is
\* compared and not summarised (leaf 7's subleaves, the hypervisor's vendor).
NoIdentity == [vendor |-> "", leaves |-> 0, bits |-> 0, other |-> 0]

IsCollected(s) == "Collected" \in s.status /\ s.status \cap SampleFailures = {}

IsCpuMatrixSampleValid(s) ==
  /\ ("Collected" \in s.status) # (s.status \cap SampleFailures # {})
  /\ s.identity.bits <= MaxAddressBits
  /\ IsCollected(s) => s.identity.vendor # "" /\ s.identity.leaves # 0

UsableCpus(samples) == {i \in DOMAIN samples : IsCollected(samples[i])}

InvalidSummary ==
  [state |-> "Invalid", flags |-> {}, expected |-> 0, count |-> 0, valid |-> 0,
   meet |-> {}, join |-> {}, leaves |-> 0, bits |-> 0, vendor |-> ""]

SummaryFlags(samples, expected, meet, join) ==
  LET usable == UsableCpus(samples)
  IN {f \in {"AllVmx", "AllInvariantTsc", "AnyHypervisor", "IdentityUniform",
             "SamplesComplete", "HasInvalidSamples"} :
        CASE f = "AllVmx" -> usable # {} /\ "Vmx" \in meet
          [] f = "AllInvariantTsc" -> usable # {} /\ "InvariantTsc" \in meet
          [] f = "AnyHypervisor" -> "Hypervisor" \in join
          [] f = "IdentityUniform" ->
               usable # {} /\ \A i, j \in usable : samples[i].identity = samples[j].identity
          [] f = "SamplesComplete" -> Cardinality(usable) = expected /\ Len(samples) = expected
          [] f = "HasInvalidSamples" -> usable # DOMAIN samples}

SummaryState(samples, expected, flags, meet, join) ==
  CASE samples = <<>> -> IF expected = 0 THEN "Empty" ELSE "Incomplete"
    [] Len(samples) # expected \/ "HasInvalidSamples" \in flags \/ expected = 0 -> "Incomplete"
    [] "IdentityUniform" \notin flags \/ meet # join -> "CompleteMixed"
    [] OTHER -> "CompleteUniform"

\* What is left of the summary when it cannot be built is not used.
BuildCpuMatrixSummary(samples, expected) ==
  IF ~Distinct(samples) \/ \E i \in DOMAIN samples : ~IsCpuMatrixSampleValid(samples[i])
  THEN InvalidSummary
  ELSE LET usable == UsableCpus(samples)
           features == [i \in usable |-> samples[i].features]
           meet == Meet(features, usable)
           join == Join(features, usable)
           flags == SummaryFlags(samples, expected, meet, join)
       IN [state |-> SummaryState(samples, expected, flags, meet, join),
           flags |-> flags, expected |-> expected, count |-> Len(samples),
           valid |-> Cardinality(usable), meet |-> meet, join |-> join,
           leaves |-> IF usable = {} THEN 0
                      ELSE CommonValue([i \in usable |-> samples[i].identity.leaves], usable),
           bits |-> IF usable = {} THEN 0
                    ELSE CommonValue([i \in usable |-> samples[i].identity.bits], usable),
           vendor |-> IF usable = {} THEN "" ELSE samples[FirstOf(usable)].identity.vendor]

IsCpuMatrixSummaryValid(m) ==
  /\ m.valid <= m.count /\ m.meet \subseteq m.join /\ m.bits <= MaxAddressBits
  /\ "AllVmx" \in m.flags <=> m.valid # 0 /\ "Vmx" \in m.meet
  /\ "AllInvariantTsc" \in m.flags <=> m.valid # 0 /\ "InvariantTsc" \in m.meet
  /\ "AnyHypervisor" \in m.flags <=> "Hypervisor" \in m.join
  /\ "HasInvalidSamples" \in m.flags <=> m.valid # m.count
  /\ "SamplesComplete" \in m.flags <=> m.expected = m.count /\ m.valid = m.expected
  /\ CASE m.state = "Empty" -> m.expected = 0 /\ m.count = 0 /\ m.valid = 0
       [] m.state \in {"CompleteUniform", "CompleteMixed"} ->
            /\ m.expected = m.count /\ m.expected # 0 /\ m.valid = m.count
            /\ "SamplesComplete" \in m.flags
            /\ m.state = "CompleteUniform" => "IdentityUniform" \in m.flags /\ m.meet = m.join
       [] OTHER -> m.state # "Invalid"

IsCpuMatrixUniform(m, required) ==
  IsCpuMatrixSummaryValid(m) /\ m.state = "CompleteUniform" /\ required \subseteq m.meet

----------------------------------------------------------------------------
(* VMX controls. *)

IsVmxControlCapabilityValid(c) ==
  IF c.encoding = "Pair32" THEN "High" \notin c.allowed /\ c.mandatory \subseteq c.allowed
  ELSE c.mandatory = {}

IsVmxControlValueAllowed(c, value) ==
  /\ IsVmxControlCapabilityValid(c)
  /\ c.encoding = "Pair32" => "High" \notin value
  /\ value \subseteq c.allowed /\ c.mandatory \subseteq value

NormalizeVmxControlValue(c, requested) == (requested \cup c.mandatory) \cap c.allowed

\* Whether NormalizeVmxControlValue succeeds.
IsNormalizable(c, requested) ==
  /\ IsVmxControlCapabilityValid(c)
  /\ c.encoding = "Pair32" => "High" \notin requested
  /\ requested \subseteq c.allowed
  /\ IsVmxControlValueAllowed(c, NormalizeVmxControlValue(c, requested))

----------------------------------------------------------------------------
(* The VMX capability matrix. *)

VmxFailures == {"MsrReadFailed", "OwnerConflict", "FeatureControlBlocked"}
Controls == {"pin", "primary", "secondary", "tertiary", "exit", "entry"}
FeatureControlNeeded == {"Lock", "VmxonOutsideSmx"}
BasicEpt == {"EptFourLevel", "EptWriteBack"}
FullInvept == {"Invept", "InveptSingle", "InveptAll"}
FullInvvpid == {"Invvpid", "InvvpidAddress", "InvvpidSingle", "InvvpidAll", "InvvpidGlobals"}

NoPayload == [generation |-> 0]

IsVmxCollected(s) == "Collected" \in s.status /\ s.status \cap VmxFailures = {}

IsPayloadValid(p) ==
  /\ p.generation # 0 /\ p.revision # 0
  /\ \A c \in Controls :
       /\ IsVmxControlCapabilityValid(p.controls[c])
       /\ p.controls[c].encoding = IF c = "tertiary" THEN "AllowedOne64" ELSE "Pair32"
  /\ p.fixed0 \subseteq p.fixed1

IsVmxCapabilitySampleValid(s) ==
  /\ ("Collected" \in s.status) # (s.status \cap VmxFailures # {})
  /\ IF IsVmxCollected(s) THEN s.payload # NoPayload /\ IsPayloadValid(s.payload)
     ELSE s.payload = NoPayload

IsVmxCapabilitySampleUsable(s) == IsVmxCapabilitySampleValid(s) /\ IsVmxCollected(s)

GetVmxCapabilityFeatureFlags(s) ==
  IF ~IsVmxCapabilitySampleUsable(s) THEN {}
  ELSE LET caps == s.payload.caps
           Allows(c, bit) == bit \in s.payload.controls[c].allowed
           secondary == Allows("primary", "ActivateSecondary")
           ept == secondary /\ Allows("secondary", "Ept") /\ BasicEpt \subseteq caps
           vpid == secondary /\ Allows("secondary", "Vpid") /\ "Invvpid" \in caps
       IN {"Vmx"}
          \cup (IF s.payload.true_controls THEN {"TrueControls"} ELSE {})
          \cup (IF FeatureControlNeeded \subseteq s.payload.feature_control
                THEN {"ControlReady"} ELSE {})
          \cup (IF secondary THEN {"SecondaryControls"} ELSE {})
          \cup (IF /\ secondary /\ Allows("primary", "ActivateTertiary")
                   /\ s.payload.controls["tertiary"].allowed # {}
                THEN {"TertiaryControls"} ELSE {})
          \cup (IF ept THEN {"Ept"} ELSE {})
          \cup (IF vpid THEN {"Vpid"} ELSE {})
          \cup (IF ept /\ FullInvept \subseteq caps THEN {"Invept"} ELSE {})
          \cup (IF vpid /\ FullInvvpid \subseteq caps THEN {"Invvpid"} ELSE {})
          \cup (IF secondary /\ Allows("secondary", "TscScaling") THEN {"TscScaling"} ELSE {})

NormalizedControls(s, requested) ==
  [c \in Controls |-> NormalizeVmxControlValue(s.payload.controls[c], requested[c])]

\* Whether NormalizeVmxControlSet succeeds; its result is NormalizedControls.
NormalizeVmxControlSet(s, requested) ==
  /\ IsVmxCapabilitySampleUsable(s)
  /\ FeatureControlNeeded \subseteq s.payload.feature_control
  /\ \A c \in Controls : IsNormalizable(s.payload.controls[c], requested[c])
  /\ LET n == NormalizedControls(s, requested)
     IN /\ n["secondary"] # {} => "ActivateSecondary" \in n["primary"]
        /\ n["tertiary"] # {} => "ActivateTertiary" \in n["primary"]
        /\ "Ept" \in n["secondary"] => BasicEpt \subseteq s.payload.caps
        /\ "Vpid" \in n["secondary"] => "Invvpid" \in s.payload.caps

UsableVmx(samples) == {i \in DOMAIN samples : IsVmxCollected(samples[i])}

InvalidMatrix ==
  [state |-> "Invalid", flags |-> {}, expected |-> 0, count |-> 0, valid |-> 0, meet |-> {},
   join |-> {}, caps_meet |-> {}, caps_join |-> {}, generation |-> 0]

\* Mutant: two samples are alike when they announce the same features.
SamePayloadFeatures(s, t) == GetVmxCapabilityFeatureFlags(s) = GetVmxCapabilityFeatureFlags(t)

SamePayload(s, t) == s.payload = t.payload

MatrixFlags(samples, expected) ==
  LET usable == UsableVmx(samples)
  IN (IF usable # {} THEN {"AllVmx"} ELSE {})
     \cup (IF usable # {} /\ \A i \in usable : SamePayload(samples[FirstOf(usable)], samples[i])
           THEN {"IdentityUniform"} ELSE {})
     \cup (IF usable # DOMAIN samples THEN {"HasInvalidSamples"} ELSE {})
     \cup (IF Len(samples) = expected /\ Cardinality(usable) = expected
           THEN {"SamplesComplete"} ELSE {})

MatrixState(samples, expected, flags, alike) ==
  CASE samples = <<>> -> IF expected = 0 THEN "Empty" ELSE "Incomplete"
    [] Len(samples) # expected \/ "HasInvalidSamples" \in flags \/ expected = 0 -> "Incomplete"
    [] "IdentityUniform" \notin flags \/ ~alike -> "CompleteMixed"
    [] OTHER -> "CompleteUniform"

BuildVmxCapabilityMatrix(samples, expected) ==
  IF ~Distinct(samples) \/ \E i \in DOMAIN samples : ~IsVmxCapabilitySampleValid(samples[i])
  THEN InvalidMatrix
  ELSE LET usable == UsableVmx(samples)
           features == [i \in usable |-> GetVmxCapabilityFeatureFlags(samples[i])]
           caps == [i \in usable |-> samples[i].payload.caps]
           flags == MatrixFlags(samples, expected)
           alike == /\ Meet(features, usable) = Join(features, usable)
                    /\ Meet(caps, usable) = Join(caps, usable)
       IN [state |-> MatrixState(samples, expected, flags, alike), flags |-> flags,
           expected |-> expected, count |-> Len(samples), valid |-> Cardinality(usable),
           meet |-> Meet(features, usable), join |-> Join(features, usable),
           caps_meet |-> Meet(caps, usable), caps_join |-> Join(caps, usable),
           generation |-> IF usable = {} THEN 0
                          ELSE samples[FirstOf(usable)].payload.generation]

IsVmxCapabilityMatrixValid(m) ==
  LET complete == /\ m.expected = m.count /\ m.expected # 0 /\ m.valid = m.count
                  /\ "SamplesComplete" \in m.flags
      alike == /\ "IdentityUniform" \in m.flags /\ m.meet = m.join
               /\ m.caps_meet = m.caps_join
  IN /\ m.valid <= m.count /\ m.meet \subseteq m.join /\ m.caps_meet \subseteq m.caps_join
     /\ "AllVmx" \in m.flags <=> m.valid # 0 /\ "Vmx" \in m.meet
     /\ "SamplesComplete" \in m.flags <=> m.expected = m.count /\ m.valid = m.expected
     /\ "HasInvalidSamples" \in m.flags <=> m.valid # m.count
     /\ m.valid = 0 => "IdentityUniform" \notin m.flags
     /\ IF m.state = "Empty" THEN m.expected = 0 /\ m.count = 0 /\ m.generation = 0
        ELSE /\ m.valid = 0 <=> m.generation = 0
             /\ CASE m.state = "CompleteUniform" -> complete /\ alike
                  [] m.state = "CompleteMixed" -> complete /\ ~alike
                  [] OTHER -> m.state = "Incomplete" /\ ~complete

IsVmxCapabilityMatrixUniform(m, features, caps) ==
  /\ IsVmxCapabilityMatrixValid(m) /\ m.state = "CompleteUniform"
  /\ features \subseteq m.meet
  /\ caps \subseteq m.caps_meet \cap (BasicEpt \cup FullInvept \cup FullInvvpid)
=============================================================================
