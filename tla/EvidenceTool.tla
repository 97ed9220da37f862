---------------------------- MODULE EvidenceTool ----------------------------
(***************************************************************************)
(* tools/target_evidence_tool.cpp with the two package codecs: processes   *)
(* that emit, validate and gate evidence packages in files others write to *)
(* as well.  A file is what a reader can tell of it: nothing, something of *)
(* a wrong length, a report, or a package with what its body says and      *)
(* where it is damaged.  Files are read in one step and replaced in two,   *)
(* since opening one for output empties it.                                *)
(***************************************************************************)
EXTENDS TargetEvidence

CONSTANTS
  Tools,     \* processes of the tool
  Paths,
  Options,   \* command lines
  Supplied,  \* packages other programs write
  MaxTouches \* how often they touch a file

NoPath == "none"
Absent == [kind |-> "absent", damage |-> "none", body |-> Zero]
WrongLength == [kind |-> "wrong length", damage |-> "none", body |-> Zero]
Package(kind, body) == [kind |-> kind, damage |-> "none", body |-> body]
Report(tool, status) == [kind |-> "report", damage |-> "none", body |-> <<tool, status>>]

ASSUME OptionsAssumption ==
  \A o \in Options : o.input \in Paths /\ o.output \in Paths \cup {NoPath}
ASSUME SuppliedAssumption == \A f \in Supplied : f.kind \in {"manifest", "snapshot"}

VARIABLES
  files,    \* by path
  phase,    \* of a tool: start, open, close, read, report, exit, done
  options,  \* its command line
  seen,     \* the file it read
  outcomes, \* what it is going to report, and its exit code
  touches

toolVars == <<files, phase, options, seen, outcomes, touches>>

Emitters == {"emit-synthetic", "emit-synthetic-snapshot"}
Gates == {"gate", "gate-snapshot"}

----------------------------------------------------------------------------
(* The command line.  operation is None, or Two for more than one; profile  *)
(* Unknown, stage -1 and generation -1 stand for options not given;         *)
(* malformed for an argument that is not understood.                        *)

ParseOptions(o) ==
  CASE o.help -> "help"
    [] \/ o.malformed \/ o.generation = 0
       \/ o.operation \in {"None", "Two"}
       \/ o.operation \in Gates /\ (o.profile = "Unknown" \/ o.stage = -1)
       \/ o.operation \notin Gates /\ (o.profile # "Unknown" \/ o.stage # -1 \/ o.generation # -1)
       \/ o.operation # "verify-signature" /\ o.allow -> "usage"
    [] OTHER -> "run"

----------------------------------------------------------------------------
(* The synthetic package. *)

SyntheticStage == Release

SyntheticObservation ==
  [cpuid |-> "Clear", windows |-> "Clear", vbs |-> "Clear", hvci |-> "Clear", whp |-> "Clear",
   device |-> "Present", handoff |-> "Clear", owner |-> "SyntheticLab", state |-> "Active",
   generation |-> 1]

MakeSyntheticSnapshot ==
  [profile |-> "SyntheticLab", stage |-> SyntheticStage, verdict |-> "Pass",
   flags |-> SnapshotFlags \ {"CpuMatrix", "VmxMatrix", "HardwareEvidence", "KdConnected",
                              "DeviceProfiles"},
   warnings |-> 0, errors |-> 0, artifacts |-> 1, generation |-> 1, started |-> 100, ended |-> 200,
   cpu |-> Zero, vmx |-> Zero,
   observation |-> SyntheticObservation, gate |-> Owner!EvaluateOwnerGate(SyntheticObservation),
   signature |-> [status |-> "PrivateTestRoot", wintrust |-> 1, accepted |-> TRUE],
   digests |-> [machine |-> 0, build |-> 1, artifact |-> 2, capability |-> 0, manifest |-> 4]]

SyntheticResult == BuildTargetEvidenceManifestFromSnapshot(MakeSyntheticSnapshot, <<>>, <<>>)

IsUsable(result) ==
  result.built /\ result.status = "Success" /\ IsTargetEvidenceSnapshotResultValid(result)

Encoded(operation) ==
  IF operation = "emit-synthetic" THEN Package("manifest", SyntheticResult.manifest)
  ELSE Package("snapshot", [snapshot |-> MakeSyntheticSnapshot, cpu |-> <<>>, vmx |-> <<>>])

----------------------------------------------------------------------------
(* The codecs.  hashing: the digest provider is available. *)

\* Mutant: the digest is not compared.
EnvelopeRowsUnhashed(bytes, kind, hashing) ==
  << <<bytes.kind = "wrong length", "InvalidLength">>,
     <<bytes.kind # kind \/ bytes.damage = "header", "InvalidHeader">>,
     <<~hashing, "DigestUnavailable">> >>

EnvelopeRows(bytes, kind, hashing) ==
  << <<bytes.kind = "wrong length", "InvalidLength">>,
     <<bytes.kind # kind \/ bytes.damage = "header", "InvalidHeader">>,
     <<~hashing, "DigestUnavailable">>,
     <<bytes.damage = "payload", "DigestMismatch">> >>

DecodeTargetEvidencePackage(bytes, hashing) ==
  FirstRow(EnvelopeRows(bytes, "manifest", hashing)
           \o << <<bytes.kind = "manifest" /\ ~IsTargetEvidenceManifestValid(bytes.body),
                   "InvalidManifest">> >>, "Success")

DecodeTargetEvidenceSnapshotPackage(bytes, hashing) ==
  FirstRow(EnvelopeRows(bytes, "snapshot", hashing)
           \o << <<bytes.kind = "snapshot" /\
                     ValidateTargetEvidenceSnapshot(
                       bytes.body.snapshot, bytes.body.cpu, bytes.body.vmx)
                       # "Success", "SnapshotInvalid">> >>, "Success")

----------------------------------------------------------------------------
(* What an operation makes of a file: the status it reports and its exit. *)

ExitFor(status) ==
  CASE status = "pass" -> "Success" [] status = "blocked" -> "Blocked" [] OTHER -> "Invalid"

\* codec: how the package was decoded.
Outcome(status, codec) == [status |-> status, exit |-> ExitFor(status), codec |-> codec]

GateRequest(o) ==
  [profile |-> o.profile, stage |-> o.stage, flags |-> {},
   generation |-> IF o.generation = -1 THEN 0 ELSE o.generation]

RunValidate(bytes, hashing) ==
  LET codec == DecodeTargetEvidencePackage(bytes, hashing)
  IN Outcome(IF codec = "Success" THEN "pass" ELSE "fail", codec)

RunGate(o, bytes, hashing) ==
  LET codec == DecodeTargetEvidencePackage(bytes, hashing)
  IN Outcome(IF codec # "Success" THEN "fail"
             ELSE IF EvaluateTargetEvidenceGate(bytes.body, GateRequest(o)).status = "Success"
             THEN "pass" ELSE "blocked", codec)

RunValidateSnapshot(bytes, hashing) ==
  LET codec == DecodeTargetEvidenceSnapshotPackage(bytes, hashing)
  IN Outcome(IF /\ codec = "Success"
                /\ IsUsable(BuildTargetEvidenceManifestFromSnapshot(
                              bytes.body.snapshot, bytes.body.cpu, bytes.body.vmx))
             THEN "pass" ELSE "fail", codec)

StatusFor(result) ==
  CASE ~IsTargetEvidenceSnapshotGateResultValid(result) -> "fail"
    [] result.status = "Success" -> "pass"
    [] result.status = "GateBlocked" -> "blocked"
    [] OTHER -> "fail"

SnapshotGateOutcome(bytes, request, codec) ==
  Outcome(IF codec # "Success" THEN "fail"
          ELSE StatusFor(EvaluateTargetEvidenceSnapshotGate(
                           bytes.body.snapshot, bytes.body.cpu, bytes.body.vmx, request)), codec)

RunGateSnapshot(o, bytes, hashing) ==
  SnapshotGateOutcome(bytes, GateRequest(o), DecodeTargetEvidenceSnapshotPackage(bytes, hashing))

SignatureExits ==
  [Trusted |-> "Success", PrivateTestRoot |-> "Success", NotSigned |-> "Blocked",
   Untrusted |-> "Blocked", FileNotFound |-> "Io", VerificationUnavailable |-> "Invalid",
   InvalidArgument |-> "Usage"]

RunVerifySignature(o, bytes, trust) ==
  LET result == VerifyTargetEvidenceFileSignature(
                  IF bytes = Absent THEN "missing" ELSE "file", trust, o.allow)
      exit == SignatureExits[result.status]
  IN [status |-> CASE exit = "Success" -> "pass" [] exit = "Blocked" -> "blocked" [] OTHER -> "fail",
      exit |-> exit, codec |-> "none"]

----------------------------------------------------------------------------
(* A run of the tool. *)

ToolInit ==
  /\ files = [p \in Paths |-> Absent] /\ touches = 0
  /\ phase = [t \in Tools |-> "start"]
  /\ options \in [Tools -> Options]
  /\ seen = [t \in Tools |-> Absent]
  /\ outcomes = [t \in Tools |-> [status |-> "none", exit |-> "none", codec |-> "none"]]

Exit(t, code) ==
  /\ phase' = [phase EXCEPT ![t] = "done"]
  /\ outcomes' = [outcomes EXCEPT ![t].exit = code]

wmain(t) ==
  /\ phase[t] = "start"
  /\ LET parsed == ParseOptions(options[t])
     IN IF parsed # "run" THEN Exit(t, IF parsed = "help" THEN "Success" ELSE "Usage")
        ELSE /\ phase' = [phase EXCEPT ![t] = IF options[t].operation \in Emitters THEN "open"
                                              ELSE "read"]
             /\ UNCHANGED outcomes
  /\ UNCHANGED <<files, options, seen, touches>>

\* RunEmit and RunEmitSyntheticSnapshot up to opening the file: the digest
\* provider or the file may not be available.
EmitOpen(t) ==
  /\ phase[t] = "open"
  /\ \/ /\ Exit(t, "Invalid") /\ UNCHANGED files
     \/ /\ IsUsable(SyntheticResult) /\ Exit(t, "Io") /\ UNCHANGED files
     \/ /\ IsUsable(SyntheticResult)
        /\ phase' = [phase EXCEPT ![t] = "close"]
        /\ files' = [files EXCEPT ![options[t].input] = WrongLength] /\ UNCHANGED outcomes
  /\ UNCHANGED <<options, seen, touches>>

\* The package is written into the stream's buffer and reaches the file when it
\* is closed.  A failure is noticed before that, or never; over what another
\* process wrote meanwhile the length may be wrong.
EmitClose(t) ==
  /\ phase[t] = "close"
  /\ LET path == options[t].input
         Reaches(bytes) == files' = [files EXCEPT ![path] = bytes]
     IN \/ Exit(t, "Io") /\ UNCHANGED files
        \/ /\ \/ Reaches(Encoded(options[t].operation))
              \/ UNCHANGED files
              \/ files[path] # WrongLength /\ Reaches(WrongLength)
           /\ phase' = [phase EXCEPT ![t] = "report"]
           /\ outcomes' = [outcomes EXCEPT ![t] = Outcome("pass", "Success")]
  /\ UNCHANGED <<options, seen, touches>>

Operate(o, bytes, hashing, trust) ==
  CASE o.operation = "validate" -> RunValidate(bytes, hashing)
    [] o.operation = "gate" -> RunGate(o, bytes, hashing)
    [] o.operation = "validate-snapshot" -> RunValidateSnapshot(bytes, hashing)
    [] o.operation = "gate-snapshot" -> RunGateSnapshot(o, bytes, hashing)
    [] OTHER -> RunVerifySignature(o, bytes, trust)

\* The file cannot be read (ReadBytes), or there is no memory for its samples.
ReadFails(t) ==
  /\ phase[t] = "read" /\ options[t].operation # "verify-signature"
  /\ \/ Exit(t, "Io")
     \/ /\ options[t].operation \in {"validate-snapshot", "gate-snapshot"}
        /\ files[options[t].input].kind = "snapshot" /\ Exit(t, "Invalid")
  /\ UNCHANGED <<files, options, seen, touches>>

Read(t) ==
  /\ phase[t] = "read"
  /\ LET bytes == files[options[t].input]
     IN /\ options[t].operation = "verify-signature" \/ bytes # Absent
        /\ seen' = [seen EXCEPT ![t] = bytes]
        /\ \E hashing \in BOOLEAN, trust \in {"Success", "NoSignature", "PrivateRoot", "Unavailable"} :
             outcomes' = [outcomes EXCEPT ![t] = Operate(options[t], bytes, hashing, trust)]
  /\ phase' = [phase EXCEPT ![t] = "report"]
  /\ UNCHANGED <<files, options, touches>>

\* To the standard output, or to a file: which may not open, may fail with or
\* without notice, or takes the report.
WriteReport(t) ==
  /\ phase[t] = "report"
  /\ LET path == options[t].output
         Reaches(bytes) == files' = [files EXCEPT ![path] = bytes]
     IN \/ path = NoPath /\ UNCHANGED <<files, outcomes>>
        \/ /\ path # NoPath /\ outcomes' = [outcomes EXCEPT ![t].exit = "Io"]
           /\ UNCHANGED files \/ Reaches(WrongLength)
        \/ /\ path # NoPath /\ UNCHANGED outcomes
           /\ Reaches(WrongLength) \/ Reaches(Report(t, outcomes[t].status))
  /\ phase' = [phase EXCEPT ![t] = "exit"]
  /\ UNCHANGED <<options, seen, touches>>

\* The process ends, after its report.
Return(t) ==
  /\ phase[t] = "exit" /\ Exit(t, outcomes[t].exit)
  /\ UNCHANGED <<files, options, seen, touches>>

\* Another program puts a package in place, removes one or damages it.
Touch(p, bytes) ==
  /\ bytes # files[p]
  /\ files' = [files EXCEPT ![p] = bytes] /\ touches' = touches + 1
  /\ UNCHANGED <<phase, options, seen, outcomes>>

Supply(p) == \E bytes \in Supplied : Touch(p, bytes)
Remove(p) == Touch(p, Absent)
Damage(p) ==
  /\ files[p].kind \in {"manifest", "snapshot"} /\ files[p].damage = "none"
  /\ \E place \in {"header", "payload"} : Touch(p, [files[p] EXCEPT !.damage = place])

ToolNext ==
  \/ \E t \in Tools : \/ wmain(t) \/ EmitOpen(t) \/ EmitClose(t) \/ ReadFails(t) \/ Read(t)
                      \/ WriteReport(t) \/ Return(t)
  \/ touches < MaxTouches /\ \E p \in Paths : Supply(p) \/ Remove(p) \/ Damage(p)

ToolSpec == ToolInit /\ [][ToolNext]_toolVars

----------------------------------------------------------------------------
Ended(t, exit) == phase[t] = "done" /\ outcomes[t].exit = exit
Readers == {"validate", "validate-snapshot"} \cup Gates
Reads(t) == options[t].operation \in Readers

\* Types.
ToolTypeOK ==
  /\ phase \in [Tools -> {"start", "open", "close", "read", "report", "exit", "done"}]
  /\ touches \in 0..MaxTouches
  /\ \A p \in Paths : files[p].kind \in {"absent", "wrong length", "report", "manifest", "snapshot"}
  /\ \A t \in Tools : phase[t] = "done" =>
       outcomes[t].exit \in {"Success", "Usage", "Blocked", "Invalid", "Io"}

\* "A blocked or malformed package returns a nonzero exit code": a reader that
\* exits with success read an undamaged package of its kind that passes all
\* checks, and for a gate the profile, stage and generation asked for, whatever
\* else was written to the file before, while or after.
SuccessIsForASoundPackage ==
  \A t \in Tools : (Reads(t) /\ Ended(t, "Success") /\ ~options[t].help) =>
    LET bytes == seen[t]
        o == options[t]
        claims == IF bytes.kind = "manifest" THEN bytes.body ELSE bytes.body.snapshot
    IN /\ bytes.kind = (IF o.operation \in {"validate", "gate"} THEN "manifest" ELSE "snapshot")
       /\ bytes.damage = "none"
       /\ o.operation \in Gates =>
            /\ claims.profile = o.profile /\ claims.stage >= o.stage /\ claims.verdict = "Pass"
            /\ claims.generation # 0 /\ o.generation \in {-1, claims.generation}

\* "The tool never turns a synthetic package into hardware evidence": no chain of
\* emitting, overwriting and judging ends in a gate that passes for a hardware
\* profile on a package the tool emitted.
LaboratoryStaysLaboratory ==
  \A t \in Tools : (options[t].operation \in Gates /\ Ended(t, "Success") /\ ~options[t].help) =>
    (seen[t] \in {Encoded(operation) : operation \in Emitters} =>
       options[t].profile = "SyntheticLab")

\* What the tool emits it accepts: a package that was emitted and read without
\* damage passes validation and the laboratory's gate of every stage, for its
\* generation or any, as long as the digest can be computed.
EmittedPackageIsAccepted ==
  \A t \in Tools :
    LET o == options[t]
        own == IF o.operation \in {"validate", "gate"} THEN "emit-synthetic"
               ELSE "emit-synthetic-snapshot"
    IN ( /\ Reads(t) /\ phase[t] = "report" /\ seen[t] = Encoded(own)
         /\ o.operation \in Gates => o.profile = "SyntheticLab" /\ o.generation \in {-1, 1} ) =>
         outcomes[t].status = "pass" \/ outcomes[t].codec = "DigestUnavailable"

\* Both ways to a gate agree: the manifest of a snapshot and the snapshot itself,
\* each sent through the tool with the same request, are not passed by one and
\* blocked by the other.
RoutesAgree ==
  \A t, u \in Tools :
    ( /\ options[t].operation = "gate" /\ options[u].operation = "gate-snapshot"
      /\ phase[t] \in {"report", "exit", "done"} /\ phase[u] \in {"report", "exit", "done"}
      /\ GateRequest(options[t]) = GateRequest(options[u])
      /\ seen[t].kind = "manifest" /\ seen[u].kind = "snapshot"
      /\ seen[t].body = BuildTargetEvidenceManifestFromSnapshot(
                          seen[u].body.snapshot, seen[u].body.cpu, seen[u].body.vmx).manifest
      /\ "fail" \notin {outcomes[t].status, outcomes[u].status} ) =>
      outcomes[t].status = outcomes[u].status

\* A report in a file and the exit code of the run that wrote it say the same,
\* from the moment the report is there, before the process ends, and whoever
\* writes to the file in between: a report of a pass belongs to a run that ends
\* with success, and no other.
ReportsMatchExits ==
  \A p \in Paths : files[p].kind = "report" =>
    LET t == files[p].body[1]
    IN /\ phase[t] \in {"exit", "done"}
       /\ files[p].body[2] = "pass" <=> outcomes[t].exit = "Success"

\* target_evidence_tool.cpp run by several processes on the same files: success
\* is for a sound package, laboratory evidence stays that, what is emitted is
\* accepted, both routes to a gate agree, and a report says what its exit says.
ToolIsTruthful ==
  /\ ToolTypeOK
  /\ SuccessIsForASoundPackage
  /\ LaboratoryStaysLaboratory
  /\ EmittedPackageIsAccepted
  /\ RoutesAgree
  /\ ReportsMatchExits
=============================================================================
