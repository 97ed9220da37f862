--------------------------- MODULE TargetEvidence ---------------------------
(***************************************************************************)
(* The evidence a target is released on (validation/): a snapshot recorded *)
(* on the target, with its raw samples, is validated (target_snapshot.cpp),*)
(* turned into a manifest (target_evidence_writer.cpp), judged by a gate   *)
(* (target_evidence.cpp, target_snapshot_gate.cpp) and bound to the        *)
(* collector that recorded it (target_collector.cpp).                      *)
(* All of it is pure: operators only.  Flags are sets of names, a digest   *)
(* is a number and 0 the digest that is all zero; sizes, versions, reserved*)
(* fields and enumeration ranges are left out.                             *)
(***************************************************************************)
EXTENDS CapabilityMatrix

Zero == [zero |-> TRUE]   \* a structure that is all zero

Owner == INSTANCE OwnerGate WITH Observations <- {}, Hosts <- {}, evaluation <- Zero

Profiles == {"NativeIntelL0", "WhpManaged", "ExternalL0", "SyntheticLab"}

Inventory == 0
Preflight == 1
Capability == 2
Boot == 3
Nested == 4
Device == 5
Performance == 6
Reliability == 7
Release == 8
Stages == Inventory..Release

Verdicts == {"NotStarted", "Ready", "Running", "Pass", "Fail", "Blocked", "NotRun",
             "RolledBack", "NotComparable"}

If(condition, S) == IF condition THEN S ELSE {}

\* The result of the first row whose condition holds.
FirstRow(rows, otherwise) ==
  LET holds == {i \in DOMAIN rows : rows[i][1]}
  IN IF holds = {} THEN otherwise ELSE rows[FirstOf(holds)][2]

----------------------------------------------------------------------------
(* Signatures. *)

MapWinTrustStatus(trust, allow) ==
  CASE trust = "Success" -> "Trusted"
    [] trust = "NoSignature" -> "NotSigned"
    [] trust = "PrivateRoot" -> IF allow THEN "PrivateTestRoot" ELSE "Untrusted"
    [] trust = "Unavailable" -> "VerificationUnavailable"
    [] OTHER -> "Untrusted"

\* trust: what WinVerifyTrust says of the file; wintrust = 0 is success.
VerifyTargetEvidenceFileSignature(bytes, trust, allow) ==
  CASE bytes = "no path" -> [status |-> "InvalidArgument", wintrust |-> 0, accepted |-> FALSE]
    [] bytes = "missing" -> [status |-> "FileNotFound", wintrust |-> 0, accepted |-> FALSE]
    [] OTHER -> [status |-> MapWinTrustStatus(trust, allow),
                 wintrust |-> IF trust = "Success" THEN 0 ELSE 1,
                 accepted |-> trust = "PrivateRoot" /\ allow]

IsTargetEvidenceSignatureResultValid(r) ==
  /\ r # Zero
  /\ r.accepted <=> r.status = "PrivateTestRoot"
  /\ r.wintrust = 0 <=> r.status \in {"Trusted", "InvalidArgument", "FileNotFound"}

IsTrusted(r) == r.status = "Trusted" /\ r.wintrust = 0
IsAcceptedPrivateRoot(r) == r.status = "PrivateTestRoot" /\ r.wintrust # 0 /\ r.accepted

----------------------------------------------------------------------------
(* What a stage needs. *)

RequiredTargetEvidenceFlags(profile, stage) ==
  LET native == profile = "NativeIntelL0"
  IN If(stage >= Capability,
        CASE native -> {"CapabilityComplete", "HardwareTarget"}
          [] profile = "WhpManaged" -> {"CapabilityComplete"}
          [] OTHER -> {"OwnerVerified"})
     \cup If(stage >= Boot, {"OwnerVerified", "RecoveryReady", "ArtifactsVerified", "PdbMatched"})
     \cup If(stage >= Boot /\ native, {"KdConnected"})
     \cup If(stage >= Nested, {"TimeSynchronized", "TelemetryComplete", "NoCriticalFaults"})
     \cup If(stage >= Device /\ native, {"DeviceProfilesVerified"})
     \cup If(stage >= Performance, {"PerformanceComparable"})
     \cup If(stage >= Release, {"SourceClean", "SignatureVerified", "WarningsClear"})

IsOwnerStateUsable(profile, owner, state) ==
  CASE profile = "NativeIntelL0" -> owner = "KnhvBootL0" /\ state = "Active"
    [] profile = "ExternalL0" ->
         owner = "ExternalL0" /\ state \notin {"Unknown", "Blocked", "Quarantined"}
    [] OTHER -> owner = profile /\ state \in {"Available", "Active"}

----------------------------------------------------------------------------
(* The snapshot. *)

\* The flags of a snapshot that become flags of the manifest as they are.
Carried ==
  [Artifacts |-> {"ArtifactsVerified", "PdbMatched"}, SourceClean |-> {"SourceClean"},
   Signature |-> {"SignatureVerified"}, HardwareEvidence |-> {"HardwareTarget"},
   TimeSynchronized |-> {"TimeSynchronized"}, Telemetry |-> {"TelemetryComplete"},
   RecoveryReady |-> {"RecoveryReady"}, NoCriticalFaults |-> {"NoCriticalFaults"},
   KdConnected |-> {"KdConnected"}, DeviceProfiles |-> {"DeviceProfilesVerified"},
   Performance |-> {"PerformanceComparable"}, WarningsClear |-> {"WarningsClear"}]

SnapshotFlags ==
  DOMAIN Carried \cup {"CpuMatrix", "VmxMatrix", "OwnerObservation", "OwnerGate", "Synthetic",
                       "AllowPrivateTestRoot"}

\* IsCompleteCpuMatrix and IsCompleteVmxMatrix.
IsCompleteMatrix(m) ==
  /\ m # Zero
  /\ m.state = "CompleteUniform" /\ "SamplesComplete" \in m.flags
  /\ m.expected # 0 /\ m.count = m.expected /\ m.valid = m.expected

IsCapabilityComplete(s) ==
  /\ "CpuMatrix" \in s.flags /\ IsCompleteMatrix(s.cpu)
  /\ s.profile = "NativeIntelL0" => "VmxMatrix" \in s.flags /\ IsCompleteMatrix(s.vmx)

IsOwnerActionForProfile(profile, gate) ==
  /\ gate # Zero
  /\ <<gate.action, gate.status, gate.owner>> =
       CASE profile = "NativeIntelL0" -> <<"AcquireNative", "Success", "KnhvBootL0">>
         [] profile = "WhpManaged" -> <<"UseWhp", "Success", "WhpManaged">>
         [] profile = "ExternalL0" -> <<"UseExternalProvider", "IncompatibleProvider", "ExternalL0">>
         [] OTHER -> <<"UseSynthetic", "Success", "SyntheticLab">>

IsOwnerEvidencePresent(s) == {"OwnerObservation", "OwnerGate"} \subseteq s.flags

RequiredForPass(s) ==
  If(s.verdict = "Pass", RequiredTargetEvidenceFlags(s.profile, s.stage))

CpuRows(s, cpu) ==
  LET present == "CpuMatrix" \in s.flags
  IN <<
    <<~present /\ (cpu # <<>> \/ s.cpu # Zero), "InvalidArgument">>,
    <<present /\ (s.cpu = Zero \/ s.cpu # BuildCpuMatrixSummary(cpu, s.cpu.expected)
                  \/ ~IsCpuMatrixSummaryValid(s.cpu)), "CpuEvidenceInvalid">>,
    <<present /\ s.verdict = "Pass" /\ ~IsCompleteMatrix(s.cpu), "CoverageIncomplete">>
  >>

\* Mutant: the matrix a snapshot carries is taken as it is.
VmxRowsTrusting(s, vmx) ==
  LET present == "VmxMatrix" \in s.flags
  IN <<
    <<~present /\ (vmx # <<>> \/ s.vmx # Zero), "InvalidArgument">>,
    <<present /\ (s.vmx = Zero \/ ~IsVmxCapabilityMatrixValid(s.vmx)), "VmxEvidenceInvalid">>,
    <<present /\ s.verdict = "Pass" /\ ~IsCompleteMatrix(s.vmx), "CoverageIncomplete">>
  >>

VmxRows(s, vmx) ==
  LET present == "VmxMatrix" \in s.flags
  IN <<
    <<~present /\ (vmx # <<>> \/ s.vmx # Zero), "InvalidArgument">>,
    <<present /\ (s.vmx = Zero \/ s.vmx # BuildVmxCapabilityMatrix(vmx, s.vmx.expected)
                  \/ ~IsVmxCapabilityMatrixValid(s.vmx)), "VmxEvidenceInvalid">>,
    <<present /\ s.verdict = "Pass" /\ ~IsCompleteMatrix(s.vmx), "CoverageIncomplete">>,
    <<present /\ s.vmx # Zero /\ s.vmx.valid # 0 /\ s.vmx.generation # s.generation,
      "GenerationMismatch">>
  >>

OwnerRows(s) ==
  LET present == "OwnerObservation" \in s.flags
      shown == present /\ s.observation # Zero /\ s.gate # Zero
  IN <<
    <<present # ("OwnerGate" \in s.flags), "OwnerEvidenceInvalid">>,
    <<present /\ ~shown, "OwnerEvidenceInvalid">>,
    <<shown /\ (~Owner!IsOwnerObservationValid(s.observation)
                \/ ~Owner!IsOwnerGateResultValid(s.gate)
                \/ s.observation.owner # s.gate.owner), "OwnerEvidenceInvalid">>,
    <<shown /\ (s.observation.generation # s.generation \/ s.gate.generation # s.generation),
      "GenerationMismatch">>,
    <<shown /\ s.verdict = "Pass" /\ s.stage >= Boot /\ ~IsOwnerActionForProfile(s.profile, s.gate),
      "ProfileMismatch">>,
    <<~present /\ (s.observation # Zero \/ s.gate # Zero), "InvalidArgument">>
  >>

\* A digest is recorded exactly with its flag: missing is the status of a flag
\* without it.
DigestRows(s, flag, digest, missing) ==
  << <<flag \in s.flags /\ s.digests[digest] = 0, missing>>,
     <<flag \notin s.flags /\ s.digests[digest] # 0, "InvalidArgument">> >>

DataRows(s) ==
  LET Has(flag) == flag \in s.flags
      required == RequiredForPass(s)
  IN << <<s.ended # 0 /\ s.started > s.ended, "TimestampInvalid">>,
        <<s.verdict = "Pass" /\ s.stage # Inventory /\ s.generation = 0, "GenerationMismatch">>,
        <<Has("Artifacts") # (s.artifacts # 0), "ArtifactEvidenceMissing">> >>
     \o DigestRows(s, "Artifacts", "artifact", "ArtifactEvidenceMissing")
     \o << <<"ArtifactsVerified" \in required /\ ~Has("Artifacts"), "ArtifactEvidenceMissing">> >>
     \o DigestRows(s, "SourceClean", "build", "ArtifactEvidenceMissing")
     \o << <<"SourceClean" \in required /\ ~Has("SourceClean"), "ArtifactEvidenceMissing">>,
           <<Has("Signature") /\ ~IsTargetEvidenceSignatureResultValid(s.signature),
             "SignatureEvidenceMissing">>,
           <<~Has("Signature") /\ s.signature # Zero, "InvalidArgument">> >>
     \o DigestRows(s, "Signature", "manifest", "SignatureEvidenceMissing")
     \o << <<"SignatureVerified" \in required /\ ~Has("Signature"), "SignatureEvidenceMissing">> >>
     \o DigestRows(s, "HardwareEvidence", "machine", "ArtifactEvidenceMissing")
     \o DigestRows(s, "CpuMatrix", "capability", "CpuEvidenceInvalid")

\* The flags of a snapshot a pass may need that are claims and nothing more.
ClaimFlags ==
  {"RecoveryReady", "TimeSynchronized", "Telemetry", "NoCriticalFaults", "DeviceProfiles",
   "Performance", "WarningsClear"}

PassRows(s) ==
  LET Has(flag) == flag \in s.flags
      required == RequiredForPass(s)
  IN <<
    <<Has("NoCriticalFaults") /\ s.errors # 0, "CoverageIncomplete">>,
    <<Has("WarningsClear") /\ s.warnings # 0, "CoverageIncomplete">>,
    <<Has("DeviceProfiles") /\ (~Has("HardwareEvidence") \/ ~IsCapabilityComplete(s)),
      "CoverageIncomplete">>,
    <<Has("Performance") /\ ~({"TimeSynchronized", "Telemetry"} \subseteq s.flags),
      "CoverageIncomplete">>,
    <<"CapabilityComplete" \in required /\ ~IsCapabilityComplete(s), "CoverageIncomplete">>,
    <<"HardwareTarget" \in required /\ ~Has("HardwareEvidence"), "CoverageIncomplete">>,
    <<"OwnerVerified" \in required
        /\ (~Has("OwnerObservation") \/ ~IsOwnerActionForProfile(s.profile, s.gate)),
      "OwnerEvidenceInvalid">>,
    <<\E flag \in ClaimFlags \ s.flags : Carried[flag] \subseteq required, "CoverageIncomplete">>
  >>

ProfileRows(s) ==
  LET synthetic == s.profile = "SyntheticLab"
  IN << <<\/ synthetic # ("Synthetic" \in s.flags)
          \/ synthetic /\ "HardwareEvidence" \in s.flags
          \/ "AllowPrivateTestRoot" \in s.flags /\ (~synthetic \/ "Signature" \notin s.flags),
          "ProfileMismatch">> >>

ValidateTargetEvidenceSnapshot(s, cpu, vmx) ==
  FirstRow(ProfileRows(s) \o CpuRows(s, cpu) \o VmxRows(s, vmx) \o OwnerRows(s) \o DataRows(s)
           \o PassRows(s), "Success")

----------------------------------------------------------------------------
(* The manifest. *)

BuildManifestFlags(s) ==
  UNION {Carried[flag] : flag \in s.flags \cap DOMAIN Carried}
  \cup If(IsCapabilityComplete(s), {"CapabilityComplete"})
  \cup If(IsOwnerEvidencePresent(s) /\ IsOwnerActionForProfile(s.profile, s.gate),
          {"OwnerVerified"})

MakeManifest(s) ==
  LET owned == IsOwnerEvidencePresent(s)
      sampled == "CpuMatrix" \in s.flags
  IN [profile |-> s.profile, stage |-> s.stage, verdict |-> s.verdict,
      flags |-> BuildManifestFlags(s),
      owner |-> IF owned THEN s.observation.owner ELSE "Unknown",
      state |-> IF owned THEN s.observation.state ELSE "Unknown",
      cpus |-> IF sampled THEN s.cpu.expected ELSE 0,
      valid |-> IF sampled THEN s.cpu.valid ELSE 0,
      artifacts |-> s.artifacts, warnings |-> s.warnings, errors |-> s.errors,
      generation |-> s.generation, started |-> s.started, ended |-> s.ended,
      digests |-> s.digests]

IsTargetEvidenceManifestValid(m) ==
  LET Has(flag) == flag \in m.flags
  IN /\ m # Zero
     /\ m.valid <= m.cpus
     /\ m.ended # 0 => m.started <= m.ended
     /\ Has("PdbMatched") => Has("ArtifactsVerified")
     /\ Has("ArtifactsVerified") => m.artifacts # 0 /\ m.digests.artifact # 0
     /\ Has("CapabilityComplete") => m.cpus # 0 /\ m.valid = m.cpus /\ m.digests.capability # 0
     /\ Has("OwnerVerified") => IsOwnerStateUsable(m.profile, m.owner, m.state) /\ m.generation # 0
     /\ Has("SignatureVerified") => m.digests.manifest # 0
     /\ Has("SourceClean") => m.digests.build # 0
     /\ Has("HardwareTarget") => m.digests.machine # 0
     /\ Has("DeviceProfilesVerified") => Has("HardwareTarget") /\ Has("CapabilityComplete")
     /\ Has("PerformanceComparable") => Has("TimeSynchronized") /\ Has("TelemetryComplete")
     /\ Has("WarningsClear") => m.warnings = 0
     /\ Has("NoCriticalFaults") \/ m.verdict = "Pass" => m.errors = 0
     /\ m.owner = "Unknown" => m.state = "Unknown"
     /\ m.stage # Inventory /\ m.verdict = "Pass" => m.generation # 0

WriterReasons ==
  [Success |-> "None", SyntheticPolicyViolation |-> "InvalidRequest",
   HardwareEvidenceRequired |-> "CapabilityIncomplete", SourceDirty |-> "SourceDirty",
   SignatureRequired |-> "SignatureUnverified", SignatureUntrusted |-> "SignatureUnverified",
   GenerationInvalid |-> "GenerationMismatch", InvalidManifest |-> "InvalidManifest"]

SignatureIsUsable(allowed, synthetic, signature) ==
  IsTrusted(signature) \/ (synthetic /\ IsAcceptedPrivateRoot(signature) /\ allowed)

IsTargetEvidenceManifestWriteRequestValid(candidate, signature) ==
  IsTargetEvidenceManifestValid(candidate) /\ IsTargetEvidenceSignatureResultValid(signature)

IsTargetEvidenceManifestWriteResultValid(r) ==
  IF r.status = "Success" THEN r.reason = "None" /\ IsTargetEvidenceManifestValid(r.manifest)
  ELSE r.reason # "None" /\ (r.manifest = Zero \/ IsTargetEvidenceManifestValid(r.manifest))

\* The result for a request that is valid.
BuildTargetEvidenceManifest(flags, candidate, signature) ==
  LET synthetic == candidate.profile = "SyntheticLab"
      hardware == "HardwareTarget" \in candidate.flags
      commit == "CommitSignature" \in flags
      usable == SignatureIsUsable("AllowPrivateTestRoot" \in flags, synthetic, signature)
      signed == [candidate EXCEPT !.flags = @ \cup If(commit, {"SignatureVerified"})]
      before == FirstRow(<<
        <<synthetic # ("AllowSynthetic" \in flags), "SyntheticPolicyViolation">>,
        <<synthetic /\ ("HardwareEvidence" \in flags \/ hardware), "SyntheticPolicyViolation">>,
        <<"HardwareEvidence" \notin flags
            /\ (hardware \/ (candidate.profile = "NativeIntelL0" /\ candidate.stage >= Capability)),
          "HardwareEvidenceRequired">>,
        <<"SourceClean" \in candidate.flags /\ "SourceCleanObserved" \notin flags, "SourceDirty">>,
        <<~usable /\ (\/ "SignatureVerified" \in candidate.flags
                      \/ commit
                      \/ candidate.stage = Release /\ ~synthetic),
          IF signature.status = "InvalidArgument" THEN "SignatureRequired"
          ELSE "SignatureUntrusted">> >>, "Success")
      after == FirstRow(<<
        <<signed.generation = 0 /\ signed.stage # Inventory /\ signed.verdict = "Pass",
          "GenerationInvalid">>,
        <<~IsTargetEvidenceManifestValid(signed), "InvalidManifest">> >>, "Success")
      status == IF before # "Success" THEN before ELSE after
  IN [status |-> status, reason |-> WriterReasons[status],
      manifest |-> IF before # "Success" THEN candidate ELSE signed]

SnapshotReasons ==
  [InvalidArgument |-> "InvalidRequest",
   CpuEvidenceInvalid |-> "CapabilityIncomplete", VmxEvidenceInvalid |-> "CapabilityIncomplete",
   CoverageIncomplete |-> "CapabilityIncomplete", OwnerEvidenceInvalid |-> "OwnerUnverified",
   GenerationMismatch |-> "GenerationMismatch", ProfileMismatch |-> "ProfileMismatch",
   TimestampInvalid |-> "TimeUnsynchronized", ArtifactEvidenceMissing |-> "ArtifactsUnverified",
   SignatureEvidenceMissing |-> "SignatureUnverified"]

WriterFlags(s) ==
  If("Synthetic" \in s.flags, {"AllowSynthetic"})
  \cup If("HardwareEvidence" \in s.flags, {"HardwareEvidence"})
  \cup If("SourceClean" \in s.flags, {"SourceCleanObserved"})
  \cup If("Signature" \in s.flags, {"CommitSignature"})
  \cup If("AllowPrivateTestRoot" \in s.flags, {"AllowPrivateTestRoot"})

SnapshotFailure(status, reason) ==
  [built |-> FALSE, status |-> status, reason |-> reason, writer |-> "InvalidArgument",
   manifest |-> Zero]

\* built: what the function returns.
SnapshotResult(validation, candidate, signature, written) ==
  IF validation # "Success" THEN SnapshotFailure(validation, SnapshotReasons[validation])
  ELSE IF ~IsTargetEvidenceManifestValid(candidate)
  THEN SnapshotFailure("WriterRejected", "InvalidManifest")
  ELSE IF ~IsTargetEvidenceManifestWriteRequestValid(candidate, signature)
          \/ ~IsTargetEvidenceManifestWriteResultValid(written)
  THEN SnapshotFailure("WriterRejected", "InvalidRequest")
  ELSE [built |-> TRUE,
        status |-> IF written.status = "Success" THEN "Success" ELSE "WriterRejected",
        reason |-> written.reason, writer |-> written.status, manifest |-> written.manifest]

BuildTargetEvidenceManifestFromSnapshot(s, cpu, vmx) ==
  LET candidate == MakeManifest(s)
      signature == IF "Signature" \in s.flags THEN s.signature
                   ELSE [status |-> "InvalidArgument", wintrust |-> 0, accepted |-> FALSE]
  IN SnapshotResult(ValidateTargetEvidenceSnapshot(s, cpu, vmx), candidate, signature,
                    BuildTargetEvidenceManifest(WriterFlags(s), candidate, signature))

IsTargetEvidenceSnapshotResultValid(r) ==
  IF r.status = "Success"
  THEN r.reason = "None" /\ r.writer = "Success" /\ IsTargetEvidenceManifestValid(r.manifest)
  ELSE /\ r.reason # "None" /\ r.writer # "Success"
       /\ r.manifest = Zero \/ IsTargetEvidenceManifestValid(r.manifest)

----------------------------------------------------------------------------
(* The gate. *)

StatusForVerdict(verdict) ==
  CASE verdict = "RolledBack" -> "RecoveryRequired"
    [] verdict = "Blocked" -> "HardwareOwnerConflict"
    [] verdict \in {"Fail", "NotComparable"} -> "CapabilityMismatch"
    [] verdict \in {"Ready", "Running"} -> "Busy"
    [] OTHER -> "NestedUnavailable"

MissingReason(missing) ==
  FirstRow(<<
    <<"SourceClean" \in missing, "SourceDirty">>,
    <<missing \cap {"ArtifactsVerified", "PdbMatched"} # {}, "ArtifactsUnverified">>,
    <<"SignatureVerified" \in missing, "SignatureUnverified">>,
    <<"CapabilityComplete" \in missing, "CapabilityIncomplete">>,
    <<"OwnerVerified" \in missing, "OwnerUnverified">>,
    <<"TimeSynchronized" \in missing, "TimeUnsynchronized">>,
    <<"TelemetryComplete" \in missing, "TelemetryIncomplete">>,
    <<"RecoveryReady" \in missing, "RecoveryUnavailable">>,
    <<"NoCriticalFaults" \in missing, "CriticalFault">>,
    <<missing \cap {"HardwareTarget", "KdConnected"} # {}, "CapabilityIncomplete">>,
    <<"DeviceProfilesVerified" \in missing, "DeviceProfileMissing">>,
    <<"PerformanceComparable" \in missing, "PerformanceNotComparable">>,
    <<"WarningsClear" \in missing, "WarningsPresent">> >>, "MissingFlags")

\* A request: profile, minimum stage, required flags ({}: those of the stage)
\* and expected generation (0: any).
IsTargetEvidenceGateRequestValid(request) == request.profile \in Profiles

InitialGate == [status |-> "InvalidParameter", reason |-> "InvalidRequest", missing |-> {},
                generation |-> 0]

GateFlags(request) ==
  IF request.flags # {} THEN request.flags
  ELSE RequiredTargetEvidenceFlags(request.profile, request.stage)

GateRows(m, request) ==
  LET missing == GateFlags(request) \ m.flags
  IN <<
    <<m.profile # request.profile, <<"IncompatibleProvider", "ProfileMismatch">>>>,
    <<m.stage < request.stage, <<"CapabilityMismatch", "StageIncomplete">>>>,
    <<request.generation # 0 /\ request.generation # m.generation,
      <<"BootHandoffFailed", "GenerationMismatch">>>>,
    <<m.verdict # "Pass",
      <<StatusForVerdict(m.verdict),
        IF m.verdict = "NotComparable" THEN "PerformanceNotComparable" ELSE "VerdictNotPass">>>>,
    <<missing # {}, <<"CapabilityMismatch", MissingReason(missing)>>>>,
    <<"OwnerVerified" \in GateFlags(request) /\ ~IsOwnerStateUsable(request.profile, m.owner, m.state),
      <<"HardwareOwnerConflict", "OwnerStateInvalid">>>>,
    <<m.generation = 0, <<"BootHandoffFailed", "GenerationMismatch">>>>
  >>

\* For a request and a manifest that are valid.
EvaluateTargetEvidenceGate(m, request) ==
  LET outcome == FirstRow(GateRows(m, request), <<"Success", "None">>)
      compared == /\ m.profile = request.profile /\ m.stage >= request.stage
                  /\ request.generation \in {0, m.generation} /\ m.verdict = "Pass"
  IN [status |-> outcome[1], reason |-> outcome[2],
      missing |-> If(compared, GateFlags(request) \ m.flags), generation |-> m.generation]

IsTargetEvidenceGateResultValid(r) ==
  IF r.status = "Success" THEN r.reason = "None" /\ r.missing = {} /\ r.generation # 0
  ELSE r.reason # "None"

SnapshotGateResult(status, snapshotStatus, manifest, gate) ==
  [status |-> status, snapshot |-> snapshotStatus, manifest |-> manifest, gate |-> gate]

JudgeManifest(result, gate, request) ==
  IF ~IsTargetEvidenceGateRequestValid(request)
  THEN SnapshotGateResult("InvalidArgument", "InvalidArgument", Zero, InitialGate)
  ELSE IF ~IsTargetEvidenceSnapshotResultValid(result)
  THEN SnapshotGateResult("ManifestInvalid", "InvalidArgument", Zero, InitialGate)
  ELSE IF ~result.built \/ result.status # "Success"
  THEN SnapshotGateResult(IF result.status = "WriterRejected" THEN "ManifestInvalid"
                          ELSE "SnapshotInvalid", result.status, Zero, InitialGate)
  ELSE IF ~IsTargetEvidenceGateResultValid(gate)
  THEN SnapshotGateResult("GateInvalid", "Success", Zero, InitialGate)
  ELSE SnapshotGateResult(IF gate.status = "Success" THEN "Success" ELSE "GateBlocked",
                          "Success", result.manifest, gate)

GateManifest(result, request) ==
  JudgeManifest(result, EvaluateTargetEvidenceGate(result.manifest, request), request)

EvaluateTargetEvidenceSnapshotGate(s, cpu, vmx, request) ==
  GateManifest(BuildTargetEvidenceManifestFromSnapshot(s, cpu, vmx), request)

IsTargetEvidenceSnapshotGateResultValid(r) ==
  /\ IsTargetEvidenceGateResultValid(r.gate)
  /\ r.status = "Success" <=> r.gate.status = "Success"
  /\ IF r.status \in {"Success", "GateBlocked"}
     THEN r.snapshot = "Success" /\ IsTargetEvidenceManifestValid(r.manifest)
     ELSE r.manifest = Zero /\ (r.status = "SnapshotInvalid" => r.snapshot # "Success")

----------------------------------------------------------------------------
(* The collector's binding. *)

ExpectedFlags(s, b) ==
  {"DigestVerified"}
  \cup If(s.profile = "SyntheticLab", {"Synthetic"})
  \cup If("HardwareEvidence" \in s.flags, {"Hardware"})
  \cup If("SourceClean" \in s.flags, {"SourceClean"})
  \cup If("Signature" \in s.flags, {"Signature"})
  \cup If(b.failure # 0, {"FirstFailure"})

IsTargetEvidenceCollectorBindingValid(b) ==
  /\ b.capture # 0 /\ "DigestVerified" \in b.flags
  /\ b.collector # 0 /\ b.build # 0 /\ b.package # 0
  /\ b.ended # 0 => b.started <= b.ended
  /\ "FirstFailure" \in b.flags <=> b.failure # 0
  /\ IF "Signature" \in b.flags THEN IsTargetEvidenceSignatureResultValid(b.signature)
     ELSE b.signature = Zero

\* package: the digest of the package the snapshot was decoded from.
BindingRows(s, cpu, vmx, package, b) ==
  LET artifacts == "Artifacts" \in s.flags
      signature == "Signature" \in s.flags
  IN <<
    <<b.collector = 0 \/ b.build = 0, "IdentityMissing">>,
    <<b.package = 0, "DigestMissing">>,
    <<~IsTargetEvidenceCollectorBindingValid(b), "InvalidArgument">>,
    <<ValidateTargetEvidenceSnapshot(s, cpu, vmx) # "Success", "SnapshotInvalid">>,
    <<package = 0, "DigestMissing">>,
    <<package # b.package, "DigestMismatch">>,
    <<b.generation # s.generation, "GenerationMismatch">>,
    <<b.started # s.started \/ b.ended # s.ended, "TimestampMismatch">>,
    <<b.cpus # Len(cpu) \/ b.vmxs # Len(vmx), "CoverageMismatch">>,
    <<b.flags # ExpectedFlags(s, b), "FlagMismatch">>,
    <<artifacts /\ b.artifact # s.digests.artifact, "DigestMismatch">>,
    <<~artifacts /\ b.artifact # 0, "FlagMismatch">>,
    <<signature /\ b.signature # s.signature, "SignatureMismatch">>,
    <<~signature /\ b.signature # Zero, "FlagMismatch">>,
    <<s.verdict = "Pass" /\ b.failure # 0, "FirstFailureMismatch">>
  >>

BindingReasons ==
  [Success |-> "None", InvalidArgument |-> "InvalidRequest", SnapshotInvalid |-> "Snapshot"]

ValidateTargetEvidenceCollectorBinding(s, cpu, vmx, package, b) ==
  LET status == FirstRow(BindingRows(s, cpu, vmx, package, b), "Success")
  IN [status |-> status,
      reason |-> IF status \in DOMAIN BindingReasons THEN BindingReasons[status] ELSE status,
      generation |-> IF status = "Success" THEN b.generation ELSE 0,
      capture |-> IF status = "Success" THEN b.capture ELSE 0]

IsTargetEvidenceCollectorBindingResultValid(r) ==
  IF r.status = "Success" THEN r.reason = "None" /\ r.capture # 0
  ELSE r.reason # "None" /\ r.capture = 0 /\ r.generation = 0
=============================================================================
