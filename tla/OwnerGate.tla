------------------------------ MODULE OwnerGate -----------------------------
(***************************************************************************)
(* Who owns VMX on this host (provider/owner_observation.cpp), as the      *)
(* preflight tool asks it (preflight/preflight_common.cpp): it probes the  *)
(* host, turns what the probes answered into evidence, evaluates the owner *)
(* gate and combines it with the gates of its own.                         *)
(* A pure function of the answers: one behaviour is one evaluation, either *)
(* of a preflight or of an observation from elsewhere.  External: the      *)
(* answers of the CPU, the registry, the services, WHP and the device.     *)
(***************************************************************************)
EXTENDS Integers, FiniteSets

CONSTANTS
  Observations,  \* OwnerObservation values evaluated as they are
  Hosts          \* hosts: the answers of all probes

VARIABLE evaluation  \* the one made

NoEvaluation == [kind |-> "None"]

EvidenceStates == {"Unknown", "Clear", "Present"}
Owners == {"Unknown", "ExternalL0", "KnhvBootL0", "WhpManaged", "SyntheticLab"}
ObservedStates == {"Unknown", "Available", "Active", "Blocked", "Conflict", "Quarantined"}
ForeignEvidence == {"cpuid", "windows", "vbs", "hvci"}

\* What CPUID leaf 1 says of a hypervisor, when the leaf exists.
CpuidAnswers == {"no leaf", "bare", "hypervisor"}

\* The owner is the enumeration's, and a CPU answers in one of three ways.
ASSUME OwnerGateAssumption ==
  /\ \A o \in Observations : o.owner \in Owners
  /\ \A h \in Hosts : h.cpuid \in CpuidAnswers

----------------------------------------------------------------------------
(* The owner gate. *)

IsOwnerObservationValid(o) ==
  /\ o.owner # "Unknown" \/ o.state # "Unknown" => o.device = "Present"
  /\ o.state = "Active" => o.owner # "Unknown" /\ o.generation # 0

HasNativeEvidence(o) ==
  /\ o.cpuid = "Clear" /\ o.windows = "Clear" /\ o.vbs = "Clear" /\ o.hvci = "Clear"
  /\ o.device = "Present" /\ o.handoff = "Present"

HasContradictoryEvidence(o) ==
  \/ o.handoff = "Present" /\ o.owner # "KnhvBootL0"
  \/ /\ o.owner = "KnhvBootL0"
     /\ \/ o.cpuid = "Present" \/ o.windows = "Present"
        \/ o.state \in {"Conflict", "Quarantined"}
  \/ o.owner = "ExternalL0" /\ o.state \notin {"Conflict", "Active"}

Result(action, reason, status, flags, o) ==
  [action |-> action, reason |-> reason, status |-> status, owner |-> o.owner,
   flags |-> flags, generation |-> o.generation]

Block(reason, status, o) == Result("Block", reason, status, {}, o)
Conflict(reason, o) == Result("Block", reason, "HardwareOwnerConflict", {"Conflict"}, o)

NativeOwnerGate(o) ==
  IF o.device # "Present" THEN Block("ProviderUnavailable", "NestedUnavailable", o)
  ELSE IF o.generation = 0 THEN Block("GenerationMissing", "BootHandoffFailed", o)
  ELSE IF o.handoff # "Present" THEN Block("KnhvHandoffMissing", "BootHandoffFailed", o)
  ELSE IF o.state # "Active" THEN Block("ProviderStateInvalid", "BootHandoffFailed", o)
  ELSE IF o.vbs = "Present" THEN Conflict("VbsActive", o)
  ELSE IF o.hvci = "Present" THEN Conflict("HvciActive", o)
  ELSE IF ~HasNativeEvidence(o) THEN Block("UnknownOwner", "NestedUnavailable", o)
  ELSE Result("AcquireNative", "KnhvOwnerReady", "Success",
              {"EvidenceComplete", "Exclusive"}, o)

IsAvailableOrActive(o) == o.state \in {"Available", "Active"}

\* An owner that is not KNHV: only a fallback.
FallbackGate(o) ==
  CASE o.owner = "ExternalL0" ->
         IF o.generation = 0 THEN Block("GenerationMissing", "IncompatibleProvider", o)
         ELSE Result("UseExternalProvider", "ExternalOwnerActive", "IncompatibleProvider",
                     {"Fallback", "Conflict"}, o)
    [] o.owner = "WhpManaged" ->
         IF o.generation = 0 THEN Block("GenerationMissing", "NestedUnavailable", o)
         ELSE IF ~IsAvailableOrActive(o) \/ o.whp # "Present"
         THEN Block("ProviderUnavailable", "NestedUnavailable", o)
         ELSE Result("UseWhp", "WhpFallback", "Success", {"Fallback"}, o)
    [] o.owner = "SyntheticLab" ->
         IF o.generation = 0 \/ ~IsAvailableOrActive(o)
         THEN Block("ProviderStateInvalid", "NestedUnavailable", o)
         ELSE Result("UseSynthetic", "SyntheticFallback", "Success", {"Fallback"}, o)

UnknownOwnerGate(o) ==
  IF o.vbs = "Present" THEN Conflict("VbsActive", o)
  ELSE IF o.hvci = "Present" THEN Conflict("HvciActive", o)
  ELSE IF o.windows = "Present" THEN Conflict("WindowsHypervisorActive", o)
  ELSE IF o.cpuid = "Present" THEN Conflict("ExternalOwnerActive", o)
  ELSE IF o.device # "Present" THEN Block("ProviderUnavailable", "NestedUnavailable", o)
  ELSE Block("UnknownOwner", "NestedUnavailable", o)

EvaluateOwnerGate(o) ==
  IF ~IsOwnerObservationValid(o)
  THEN [Block("InvalidObservation", "InvalidParameter", o)
          EXCEPT !.owner = "Unknown", !.generation = 0]
  ELSE IF HasContradictoryEvidence(o) THEN Conflict("ContradictoryEvidence", o)
  ELSE IF o.owner = "KnhvBootL0" THEN NativeOwnerGate(o)
  ELSE IF o.owner = "Unknown" THEN UnknownOwnerGate(o)
  ELSE FallbackGate(o)

\* The result that goes with each action that is not Block.
ExpectedResults ==
  [AcquireNative |-> [status |-> "Success", reason |-> "KnhvOwnerReady",
                      owner |-> "KnhvBootL0", flags |-> {"EvidenceComplete", "Exclusive"}],
   UseExternalProvider |-> [status |-> "IncompatibleProvider",
                      reason |-> "ExternalOwnerActive", owner |-> "ExternalL0",
                      flags |-> {"Fallback", "Conflict"}],
   UseWhp |-> [status |-> "Success", reason |-> "WhpFallback",
               owner |-> "WhpManaged", flags |-> {"Fallback"}],
   UseSynthetic |-> [status |-> "Success", reason |-> "SyntheticFallback",
                     owner |-> "SyntheticLab", flags |-> {"Fallback"}]]

IsOwnerGateResultValid(r) ==
  IF r.action = "Block"
  THEN r.status # "Success" /\ r.reason # "None" /\ r.flags \cap {"Exclusive", "Fallback"} = {}
  ELSE /\ r.generation # 0
       /\ [status |-> r.status, reason |-> r.reason, owner |-> r.owner, flags |-> r.flags]
          = ExpectedResults[r.action]

----------------------------------------------------------------------------
(* From the probes' answers to evidence.  A probe that fails says nothing. *)

RegistryError == -1

ReadRegistryDword(answer) ==
  CASE answer = RegistryError -> "Unknown" [] answer = 0 -> "No" [] OTHER -> "Yes"

\* running of QueryService: also a service that does not exist is not known
\* to be stopped.
QueryService(answer) ==
  CASE answer = "running" -> "Yes" [] answer = "stopped" -> "No" [] OTHER -> "Unknown"

\* whp_library, whp_api and whp_hypervisor of QueryWhp.
QueryWhp(answer) ==
  [library |-> IF answer = "no library" THEN "No" ELSE "Yes",
   api |-> IF answer \in {"no library", "no function"} THEN "Unknown" ELSE "Yes",
   hypervisor |-> CASE answer = "present" -> "Yes" [] answer = "absent" -> "No"
                    [] OTHER -> "Unknown"]

\* The device is open, also when its answer is refused.
QueryProvider(answer) ==
  [device |-> IF answer.open THEN "Yes" ELSE "No",
   flags |-> IF answer.open /\ answer.valid THEN answer.flags ELSE {},
   generation |-> IF ~answer.open \/ ~answer.valid THEN 0
                  ELSE IF answer.owner_generation # 0 THEN answer.owner_generation
                  ELSE answer.boot_generation,
   answered |-> answer.open /\ answer.valid]

UniqueOwner(provider) ==
  IF ~provider.answered THEN "Unknown"
  ELSE IF "OuterL0Active" \in provider.flags THEN "No"
  ELSE IF "KnhvBootL0Active" \in provider.flags THEN "Yes"
  ELSE "Unknown"

ToOwnerEvidence(tri) ==
  CASE tri = "Yes" -> "Present" [] tri = "No" -> "Clear" [] OTHER -> "Unknown"

OwnerFlags == {"SyntheticSnapshot", "KnhvBootL0Active", "OuterL0Active", "WhpPartition"}
ProviderOwnerFlagCount(provider) == Cardinality(provider.flags \cap OwnerFlags)

ProviderOwner(provider) ==
  IF provider.device # "Yes" \/ ProviderOwnerFlagCount(provider) > 1 THEN "Unknown"
  ELSE IF "SyntheticSnapshot" \in provider.flags THEN "SyntheticLab"
  ELSE IF "KnhvBootL0Active" \in provider.flags THEN "KnhvBootL0"
  ELSE IF "OuterL0Active" \in provider.flags THEN "ExternalL0"
  ELSE IF "WhpPartition" \in provider.flags THEN "WhpManaged"
  ELSE "Unknown"

ProviderState(provider) ==
  IF provider.device # "Yes" THEN "Unknown"
  ELSE IF ProviderOwnerFlagCount(provider) > 1 \/ "OuterL0Active" \in provider.flags
       THEN "Conflict"
  ELSE IF "KnhvBootL0Active" \in provider.flags
       THEN IF "BootHandoffVerified" \in provider.flags THEN "Active" ELSE "Blocked"
  ELSE IF provider.flags \cap {"WhpPartition", "SyntheticSnapshot"} # {} THEN "Available"
  ELSE "Unknown"

\* Mutant: a service whose state cannot be read counts as stopped.
WindowsHypervisorGuess(services, whp) ==
  IF whp.hypervisor = "Yes" \/ \E s \in DOMAIN services : services[s] = "Yes" THEN "Yes" ELSE "No"

WindowsHypervisorEvidence(services, whp) ==
  IF whp.hypervisor = "Yes" \/ \E s \in DOMAIN services : services[s] = "Yes" THEN "Yes"
  ELSE IF \E s \in DOMAIN services : services[s] = "Unknown" THEN "Unknown"
  ELSE "No"

WhpAvailability(whp) ==
  CASE whp.library = "No" \/ whp.api = "No" -> "No"
    [] whp.library = "Yes" /\ whp.api = "Yes" -> "Yes"
    [] OTHER -> "Unknown"

BuildOwnerObservation(host) ==
  LET provider == QueryProvider(host.provider)
      whp == QueryWhp(host.whp)
      services == [s \in DOMAIN host.services |-> QueryService(host.services[s])]
  IN [cpuid |-> IF host.cpuid = "no leaf" THEN "Unknown"
                ELSE IF host.cpuid = "hypervisor" THEN "Present" ELSE "Clear",
      windows |-> ToOwnerEvidence(WindowsHypervisorEvidence(services, whp)),
      vbs |-> ToOwnerEvidence(ReadRegistryDword(host.vbs)),
      hvci |-> ToOwnerEvidence(ReadRegistryDword(host.hvci)),
      whp |-> ToOwnerEvidence(WhpAvailability(whp)),
      device |-> ToOwnerEvidence(provider.device),
      handoff |-> IF provider.device # "Yes" THEN "Unknown"
                  ELSE IF "BootHandoffVerified" \in provider.flags THEN "Present" ELSE "Clear",
      owner |-> ProviderOwner(provider), state |-> ProviderState(provider),
      generation |-> provider.generation]

----------------------------------------------------------------------------
(* The gates of the preflight. *)

PassIf(condition) == IF condition THEN "Pass" ELSE "Unknown"
TriGate(tri) == CASE tri = "Yes" -> "Pass" [] tri = "No" -> "Fail" [] OTHER -> "Unknown"

OwnerGateState(r) ==
  IF ~IsOwnerGateResultValid(r) THEN "Unknown"
  ELSE IF r.action = "AcquireNative" /\ r.status = "Success" THEN "Pass"
  ELSE IF "Conflict" \in r.flags \/ r.status \in {"BootHandoffFailed", "HardwareOwnerConflict"}
       THEN "Fail"
  ELSE "Unknown"

\* platform.vmx-firmware is never read in user mode.
EvaluateGates(host, gate) ==
  LET provider == QueryProvider(host.provider)
      vbs == ReadRegistryDword(host.vbs)
      hvci == ReadRegistryDword(host.hvci)
  IN [vmx |-> IF host.vmx THEN "Pass" ELSE "Fail",
      topology |-> PassIf(host.topology),
      hypervisor_bit |-> IF host.cpuid = "hypervisor" THEN "Fail" ELSE "Pass",
      vmx_firmware |-> "Unknown",
      secure_boot |-> TriGate(ReadRegistryDword(host.secure_boot)),
      dmar |-> TriGate(host.dmar),
      vbs_hvci |-> CASE vbs = "Yes" \/ hvci = "Yes" -> "Fail"
                     [] vbs = "No" /\ hvci = "No" -> "Pass"
                     [] OTHER -> "Unknown",
      device |-> PassIf(provider.device = "Yes"),
      unique_owner |-> PassIf(UniqueOwner(provider) = "Yes"),
      knhv_boot_l0 |-> PassIf(provider.answered /\ "KnhvBootL0Active" \in provider.flags),
      owner |-> OwnerGateState(gate)]

NativeReady(gates, profile) ==
  profile # "host-only" /\ \A g \in DOMAIN gates : gates[g] = "Pass"

RunPreflight(host, profile) ==
  LET observation == BuildOwnerObservation(host)
      gate == EvaluateOwnerGate(observation)
      gates == EvaluateGates(host, gate)
      ready == NativeReady(gates, profile)
  IN [kind |-> "Preflight", host |-> host, profile |-> profile, observation |-> observation,
      gate |-> gate, gates |-> gates, ready |-> ready,
      exit |-> IF profile = "host-only" \/ ready THEN "Success" ELSE "Blocked"]

----------------------------------------------------------------------------
OwnerGateInit == evaluation = NoEvaluation

PreflightTool ==
  \E h \in Hosts, p \in {"native-l0", "host-only"} : evaluation' = RunPreflight(h, p)

Evaluate ==
  \E o \in Observations :
    evaluation' = [kind |-> "Observation", observation |-> o, gate |-> EvaluateOwnerGate(o)]

OwnerGateNext == evaluation = NoEvaluation /\ (PreflightTool \/ Evaluate)

OwnerGateSpec == OwnerGateInit /\ [][OwnerGateNext]_evaluation

----------------------------------------------------------------------------
\* Every result EvaluateOwnerGate gives, whatever it was shown, is one that
\* IsOwnerGateResultValid accepts: the target snapshot that carries it is not
\* refused for it.
GateResultIsValid == evaluation # NoEvaluation => IsOwnerGateResultValid(evaluation.gate)

\* Native acquisition fails closed: it is granted only when every probe that
\* could show another owner of VMX answered, and answered no.  In particular
\* one more sign, or one probe less, never turns a refusal into a grant.
NativeOnlyOnFullEvidence ==
  (evaluation # NoEvaluation /\ evaluation.gate.action = "AcquireNative") =>
    /\ \A e \in ForeignEvidence : evaluation.observation[e] = "Clear"
    /\ evaluation.observation.handoff = "Present" /\ evaluation.observation.state = "Active"
    /\ evaluation.gate.generation # 0

\* The same from the host's point of view, through the conversions of the
\* preflight: on a host where a Windows hypervisor runs or could run unseen, or
\* where the provider claims more than one owner, the owner gate is not passed.
\* "stopped" is every state of a service but SERVICE_RUNNING, as it is for
\* QueryService: a service that is starting or paused passes for stopped.
OwnerGateSeesTheHost ==
  (evaluation.kind = "Preflight" /\ evaluation.gates.owner = "Pass") =>
    /\ \A s \in DOMAIN evaluation.host.services : evaluation.host.services[s] = "stopped"
    /\ evaluation.host.whp # "present" /\ evaluation.host.cpuid = "bare"
    /\ evaluation.host.vbs = 0 /\ evaluation.host.hvci = 0
    /\ evaluation.host.provider.flags \cap OwnerFlags = {"KnhvBootL0Active"}

\* The owner gate is the strictest: when it passes, no other gate about the
\* owner, evaluated from the raw answers, says otherwise.
OwnerGateIsStrictest ==
  (evaluation.kind = "Preflight" /\ evaluation.gates.owner = "Pass") =>
    \A g \in {"hypervisor_bit", "vbs_hvci", "device", "unique_owner", "knhv_boot_l0"} :
      evaluation.gates[g] = "Pass"

\* README: "Unknown privileged state is retained as `unknown` and blocks a
\* `native-l0` profile".  IA32_FEATURE_CONTROL is not readable here, so no host
\* is reported ready, whatever the other gates say (EvaluateGates, NativeReady).
UnknownStateBlocks ==
  evaluation.kind = "Preflight" =>
    /\ ~evaluation.ready
    /\ evaluation.profile = "native-l0" => evaluation.exit = "Blocked"

\* owner_observation.cpp and the gates of the preflight: native acquisition only on
\* full evidence of a host nobody else virtualizes, by results that are valid,
\* and never when something is unknown.
GateFailsClosed ==
  /\ GateResultIsValid
  /\ NativeOnlyOnFullEvidence
  /\ OwnerGateSeesTheHost
  /\ OwnerGateIsStrictest
  /\ UnknownStateBlocks
=============================================================================
