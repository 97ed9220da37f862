--------------------------- MODULE TargetSnapshot ---------------------------
(***************************************************************************)
(* One snapshot on its way from the target to the release gate.  It starts *)
(* complete and consistent; up to MaxFaults things are then missing from   *)
(* it, stale or wrong (the collector that records it is not part of the    *)
(* repository: external), and it is judged: by the gate for one request, or*)
(* against the binding of a collector.                                     *)
(***************************************************************************)
EXTENDS TargetEvidence

CONSTANTS
  Starts,        \* the snapshots recorded: profile, stage and verdict
  Requests,      \* stages, expected generations and flags asked of the gate
  MaxFaults(_)   \* faults in the snapshot of a start

ASSUME StartsAssumption ==
  \A x \in Starts : x.profile \in Profiles /\ x.stage \in Stages /\ x.verdict \in Verdicts

VARIABLES
  start,     \* what is recorded
  snapshot,
  raw,       \* the raw samples that go with it: cpu and vmx
  faults,    \* how many were put in
  call       \* the judgement

vars == <<start, snapshot, raw, faults, call>>

NoCall == [kind |-> "None"]
Generation == 2
Processors == 2
PackageDigest == 1

----------------------------------------------------------------------------
(* The complete snapshot. *)

CpuSample(i) ==
  [index |-> i, slot |-> i, status |-> {"Collected"}, features |-> {"Vmx", "InvariantTsc"},
   identity |-> [vendor |-> "Intel", leaves |-> 1, bits |-> 48, other |-> 0]]

VmxSample(i, generation) ==
  [index |-> i, slot |-> i, status |-> {"Collected"},
   payload |-> [generation |-> generation, revision |-> 1, true_controls |-> TRUE,
                feature_control |-> FeatureControlNeeded, caps |-> BasicEpt,
                fixed0 |-> {}, fixed1 |-> {"PE"},
                controls |-> [c \in Controls |->
                  [encoding |-> IF c = "tertiary" THEN "AllowedOne64" ELSE "Pair32",
                   mandatory |-> {}, allowed |-> {"ActivateSecondary", "Ept"}]]]]

Observation(profile, generation) ==
  [cpuid |-> IF profile = "ExternalL0" THEN "Present" ELSE "Clear",
   windows |-> IF profile = "WhpManaged" THEN "Present" ELSE "Clear",
   vbs |-> "Clear", hvci |-> "Clear",
   whp |-> IF profile = "WhpManaged" THEN "Present" ELSE "Clear", device |-> "Present",
   handoff |-> IF profile = "NativeIntelL0" THEN "Present" ELSE "Clear",
   owner |-> IF profile = "NativeIntelL0" THEN "KnhvBootL0" ELSE profile,
   state |-> IF profile = "WhpManaged" THEN "Available" ELSE "Active",
   generation |-> generation]

CompleteFlags(profile) ==
  IF profile = "SyntheticLab"
  THEN SnapshotFlags \ {"CpuMatrix", "VmxMatrix", "HardwareEvidence", "DeviceProfiles", "KdConnected"}
  ELSE SnapshotFlags \ {"Synthetic", "AllowPrivateTestRoot"}

CompleteSnapshot(x) ==
  LET synthetic == x.profile = "SyntheticLab"
      observation == Observation(x.profile, Generation)
  IN [profile |-> x.profile, stage |-> x.stage, verdict |-> x.verdict,
      flags |-> CompleteFlags(x.profile), warnings |-> 0, errors |-> 0, artifacts |-> 1,
      generation |-> Generation, started |-> 1, ended |-> 2,
      cpu |-> IF synthetic THEN Zero
              ELSE BuildCpuMatrixSummary([i \in 1..Processors |-> CpuSample(i)], Processors),
      vmx |-> IF synthetic THEN Zero
              ELSE BuildVmxCapabilityMatrix([i \in 1..Processors |-> VmxSample(i, Generation)],
                                            Processors),
      observation |-> observation, gate |-> Owner!EvaluateOwnerGate(observation),
      signature |-> VerifyTargetEvidenceFileSignature(
                      "driver", IF synthetic THEN "PrivateRoot" ELSE "Success", synthetic),
      digests |-> [machine |-> IF synthetic THEN 0 ELSE 1, build |-> 1, artifact |-> 1,
                   capability |-> IF synthetic THEN 0 ELSE 1, manifest |-> 1]]

CompleteSamples(x) ==
  IF x.profile = "SyntheticLab" THEN [cpu |-> <<>>, vmx |-> <<>>]
  ELSE [cpu |-> [i \in 1..Processors |-> CpuSample(i)],
        vmx |-> [i \in 1..Processors |-> VmxSample(i, Generation)]]

TargetInit ==
  /\ start \in Starts
  /\ snapshot = CompleteSnapshot(start) /\ raw = CompleteSamples(start)
  /\ faults = 0 /\ call = NoCall

----------------------------------------------------------------------------
(* What can be wrong with it. *)

Fault(s, samples) ==
  /\ <<s, samples>> # <<snapshot, raw>>
  /\ snapshot' = s /\ raw' = samples
  /\ faults' = faults + 1 /\ UNCHANGED <<start, call>>

\* A flag without its data, or data without its flag.
MisreportFlag ==
  \E flag \in SnapshotFlags :
    Fault([snapshot EXCEPT !.flags = IF flag \in @ THEN @ \ {flag} ELSE @ \cup {flag}], raw)

DigestOf == [Artifacts |-> "artifact", SourceClean |-> "build", Signature |-> "manifest",
             HardwareEvidence |-> "machine", CpuMatrix |-> "capability"]

\* Evidence that was not collected at all: neither the flag nor the data.
OmitEvidence ==
  \E flag \in DOMAIN DigestOf \cup {"VmxMatrix", "OwnerObservation"} :
    LET digests == IF flag \in DOMAIN DigestOf
                   THEN [snapshot.digests EXCEPT ![DigestOf[flag]] = 0] ELSE snapshot.digests
        flags == snapshot.flags \ (IF flag = "OwnerObservation" THEN {flag, "OwnerGate"} ELSE {flag})
        bare == [snapshot EXCEPT !.flags = flags, !.digests = digests]
    IN CASE flag = "Artifacts" -> Fault([bare EXCEPT !.artifacts = 0], raw)
         [] flag = "Signature" -> Fault([bare EXCEPT !.signature = Zero], raw)
         [] flag = "CpuMatrix" -> Fault([bare EXCEPT !.cpu = Zero], [raw EXCEPT !.cpu = <<>>])
         [] flag = "VmxMatrix" -> Fault([bare EXCEPT !.vmx = Zero], [raw EXCEPT !.vmx = <<>>])
         [] flag = "OwnerObservation" ->
              Fault([bare EXCEPT !.observation = Zero, !.gate = Zero], raw)
         [] OTHER -> Fault(bare, raw)

\* A count, a time or a digest that is not what it should be.
MisreportField ==
  \/ Fault([snapshot EXCEPT !.warnings = 1], raw)
  \/ Fault([snapshot EXCEPT !.errors = 1], raw)
  \/ \E started \in {0, 3} : Fault([snapshot EXCEPT !.started = started], raw)
  \/ Fault([snapshot EXCEPT !.ended = 0], raw)
  \/ \E d \in DOMAIN snapshot.digests, value \in {0, 2} :
       Fault([snapshot EXCEPT !.digests[d] = value], raw)
  \/ \E count \in {0, 2} : Fault([snapshot EXCEPT !.artifacts = count], raw)

\* The snapshot says it is of another generation than its parts are.
MisreportGeneration ==
  \E g \in {0, 1} : Fault([snapshot EXCEPT !.generation = g], raw)

\* A processor that could not be sampled, is missing, differs or was sampled in
\* another generation; the matrix is built again from what there is, or not.
LoseSample ==
  \E rebuilt \in BOOLEAN :
    \/ /\ raw.cpu # <<>> /\ snapshot.cpu # Zero
       /\ \E cpu \in {Tail(raw.cpu),
                      [raw.cpu EXCEPT ![1].status = {"Migrated"}],
                      [raw.cpu EXCEPT ![1].features = {"Vmx"}]} :
            Fault([snapshot EXCEPT !.cpu = IF rebuilt THEN BuildCpuMatrixSummary(cpu, Processors) ELSE @],
                  [raw EXCEPT !.cpu = cpu])
    \/ /\ raw.vmx # <<>> /\ snapshot.vmx # Zero
       /\ \E vmx \in {Tail(raw.vmx),
                      [raw.vmx EXCEPT ![1].status = {"MsrReadFailed"}, ![1].payload = NoPayload],
                      [raw.vmx EXCEPT ![1] = [VmxSample(1, Generation) EXCEPT !.payload.caps = {}]],
                      [i \in 1..Processors |-> VmxSample(i, 1)]} :
            Fault([snapshot EXCEPT !.vmx = IF rebuilt THEN BuildVmxCapabilityMatrix(vmx, Processors) ELSE @],
                  [raw EXCEPT !.vmx = vmx])

\* The owner is another one, or its state changed; the gate was evaluated
\* before or after that.
ReplaceOwner ==
  /\ snapshot.observation # Zero
  /\ \E o \in {[snapshot.observation EXCEPT !.vbs = "Present"],
               [snapshot.observation EXCEPT !.state = "Conflict"],
               [snapshot.observation EXCEPT !.generation = 1]}
              \cup {Observation(p, snapshot.generation) : p \in Profiles},
        fresh \in BOOLEAN :
       Fault([snapshot EXCEPT !.observation = o,
                              !.gate = IF fresh THEN Owner!EvaluateOwnerGate(o) ELSE @], raw)

\* The file is verified with another outcome.
ReplaceSignature ==
  /\ snapshot.signature # Zero
  /\ \E trust \in {"Success", "NoSignature", "PrivateRoot", "Unavailable"}, allow \in BOOLEAN,
        file \in {"driver", "missing"} :
       Fault([snapshot EXCEPT !.signature = VerifyTargetEvidenceFileSignature(file, trust, allow)],
             raw)

----------------------------------------------------------------------------
(* The judgement. *)

Gate ==
  /\ \E r \in Requests :
       LET request == [r EXCEPT !.profile = IF @ = "Own" THEN snapshot.profile ELSE @,
                                !.stage = IF @ = -1 THEN snapshot.stage ELSE @]
       IN call' = [kind |-> "Gate", request |-> request,
                   result |-> EvaluateTargetEvidenceSnapshotGate(snapshot, raw.cpu, raw.vmx,
                                                                 request)]
  /\ UNCHANGED <<start, snapshot, raw, faults>>

\* What the collector of the snapshot as it was recorded vouches for.
Binding(x, failure) ==
  LET s == CompleteSnapshot(x)
      b == [capture |-> 1, generation |-> s.generation, started |-> s.started, ended |-> s.ended,
            cpus |-> Len(CompleteSamples(x).cpu), vmxs |-> Len(CompleteSamples(x).vmx),
            failure |-> failure, collector |-> 1, build |-> 1, package |-> PackageDigest,
            artifact |-> s.digests.artifact, signature |-> s.signature, flags |-> {}]
  IN [b EXCEPT !.flags = ExpectedFlags(s, b)]

\* Bindings that are not the snapshot's: of another package or capture.
OtherBindings(b) ==
  {[b EXCEPT !.package = 0], [b EXCEPT !.package = 2], [b EXCEPT !.generation = 1],
   [b EXCEPT !.collector = 0], [b EXCEPT !.capture = 0], [b EXCEPT !.cpus = 1],
   [b EXCEPT !.flags = @ \ {"DigestVerified"}]}

Bind ==
  /\ \E b \in {Binding(start, 0), Binding(start, 1)} \cup OtherBindings(Binding(start, 0)),
        package \in {0, PackageDigest} :
       call' = [kind |-> "Bind", binding |-> b, package |-> package,
                result |-> ValidateTargetEvidenceCollectorBinding(
                             snapshot, raw.cpu, raw.vmx, package, b)]
  /\ UNCHANGED <<start, snapshot, raw, faults>>

TargetNext ==
  /\ call = NoCall
  /\ \/ /\ faults < MaxFaults(start)
        /\ \/ MisreportFlag \/ OmitEvidence \/ MisreportField \/ MisreportGeneration
           \/ LoseSample \/ ReplaceOwner \/ ReplaceSignature
     \/ Gate \/ Bind

TargetSpec == TargetInit /\ [][TargetNext]_vars

----------------------------------------------------------------------------
Judged(kind) == call.kind = kind
Passed == Judged("Gate") /\ call.result.status = "Success"

\* Types.  The result of every judgement is one its own validator accepts
\* (IsTargetEvidenceSnapshotGateResultValid, ...BindingResultValid).
TargetTypeOK ==
  /\ snapshot.flags \subseteq SnapshotFlags /\ snapshot.profile \in Profiles
  /\ faults \in 0..MaxFaults(start)
  /\ Judged("Gate") => IsTargetEvidenceSnapshotGateResultValid(call.result)
  /\ Judged("Bind") => IsTargetEvidenceCollectorBindingResultValid(call.result)

\* The layers never surprise each other: what the snapshot adapter hands to the
\* gate always is a result the gate can use, and what the gate then says is a
\* result the caller can use.  So a manifest is refused as invalid only when the
\* writer refused it (target_snapshot_gate.cpp).
LayersAgree ==
  Judged("Gate") =>
    /\ call.result.status # "GateInvalid"
    /\ call.result.status = "ManifestInvalid" => call.result.snapshot = "WriterRejected"

\* A gate that passes on a stage's own requirements is borne out by the raw
\* record: by every processor's samples, all of the snapshot's generation, by the
\* error count, and from Boot on by an owner observed in that generation and by
\* the owner gate's decision as it was recorded: to acquire natively, for a native
\* profile.  The validator checks that the decision is one the gate can make and
\* of the snapshot's generation, and does not make it again.  That nothing foreign
\* was observed therefore follows only for a decision made on this observation; a
\* native snapshot with a decision kept from another one passes over foreign
\* evidence, and is not excluded here.
PassIsBorneOut ==
  (Passed /\ call.request.flags = {}) =>
    LET s == snapshot
        r == call.request
        native == r.profile = "NativeIntelL0"
    IN /\ s.profile = r.profile /\ s.stage >= r.stage /\ s.verdict = "Pass"
       /\ s.errors = 0 /\ s.generation # 0 /\ r.generation \in {0, s.generation}
       /\ (native /\ r.stage >= Capability) =>
            /\ "HardwareEvidence" \in s.flags
            /\ Len(raw.cpu) = s.cpu.expected /\ Len(raw.vmx) = s.vmx.expected
            /\ \A i \in DOMAIN raw.cpu : raw.cpu[i].status = {"Collected"}
            /\ \A i \in DOMAIN raw.vmx :
                 /\ raw.vmx[i].payload = raw.vmx[1].payload
                 /\ raw.vmx[i].payload.generation = s.generation
       /\ r.stage >= Boot =>
            /\ s.observation.generation = s.generation /\ s.gate.generation = s.generation
            /\ native => s.gate.action = "AcquireNative"
            /\ (native /\ s.gate = Owner!EvaluateOwnerGate(s.observation)) =>
                 \A e \in Owner!ForeignEvidence : s.observation[e] = "Clear"
       /\ r.stage = Release => s.warnings = 0 /\ "SourceClean" \in s.flags

\* A manifest says its signature is verified only when it is: by a trusted
\* signature, or for a laboratory by a private root it was told to allow.  And
\* laboratory evidence never says it is of hardware.
VerifiedMeansVerified ==
  (Judged("Gate") /\ call.result.manifest # Zero) =>
    LET m == call.result.manifest
        laboratory == m.profile = "SyntheticLab"
    IN /\ "SignatureVerified" \in m.flags =>
            \/ snapshot.signature.status = "Trusted"
            \/ /\ laboratory /\ "AllowPrivateTestRoot" \in snapshot.flags
               /\ snapshot.signature.status = "PrivateTestRoot"
       /\ laboratory => "HardwareTarget" \notin m.flags

\* The validator of the snapshot and the gate agree on what a stage needs: a
\* snapshot that was accepted as a pass of its stage passes the gate of every
\* stage up to it, but for the debugger connection, which only the gate asks
\* for (RequiredTargetEvidenceFlags, ValidateTargetEvidenceSnapshot).
AcceptedPassPassesItsGates ==
  ( /\ Judged("Gate") /\ call.result.snapshot = "Success"
    /\ snapshot.verdict = "Pass" /\ snapshot.generation # 0
    /\ call.request.profile = snapshot.profile /\ call.request.stage <= snapshot.stage
    /\ call.request.generation \in {0, snapshot.generation} /\ call.request.flags = {} ) =>
    Passed \/ call.result.gate.missing = {"KdConnected"}

\* What passes the gate of a stage passes the gate of every earlier stage.
LaterStageNeedsMore ==
  (Passed /\ call.request.flags = {}) =>
    \A stage \in 0..call.request.stage :
      EvaluateTargetEvidenceGate(call.result.manifest,
                                 [call.request EXCEPT !.stage = stage]).status = "Success"

\* The collector's own binding holds only for the capture it vouches for: a
\* snapshot that it accepts has the recorded generation, times, number of samples,
\* artifact digest and signature, the recorded word on hardware and a clean
\* source, and no failure when its verdict is a pass.  Whatever was changed in one
\* of these since, consistently or not, is refused.  The number of artifacts and
\* the other digests are not bound (target_collector.cpp compares one hash).
BoundToThisCapture ==
  (Judged("Bind") /\ call.result.status = "Success"
     /\ call.binding \in {Binding(start, 0), Binding(start, 1)}) =>
    LET recorded == CompleteSnapshot(start)
        then == CompleteSamples(start)
    IN /\ call.package = PackageDigest
       /\ \A f \in {"generation", "started", "ended", "signature"} : snapshot[f] = recorded[f]
       /\ snapshot.digests.artifact = recorded.digests.artifact
       /\ Len(raw.cpu) = Len(then.cpu) /\ Len(raw.vmx) = Len(then.vmx)
       /\ \A flag \in {"HardwareEvidence", "SourceClean", "Signature"} :
            flag \in snapshot.flags <=> flag \in recorded.flags
       /\ snapshot.verdict = "Pass" => call.binding.failure = 0

\* The validators of target_evidence over snapshots that were damaged anywhere:
\* their layers agree, a pass is borne out by the raw record, a verified
\* signature is one, stages are ordered, and a binding holds for its capture only.
VerdictIsBorneOut ==
  /\ TargetTypeOK
  /\ LayersAgree
  /\ PassIsBorneOut
  /\ VerifiedMeansVerified
  /\ AcceptedPassPassesItsGates
  /\ LaterStageNeedsMore
  /\ BoundToThisCapture
=============================================================================
