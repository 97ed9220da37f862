----------------------------- MODULE MCEvidence -----------------------------
(***************************************************************************)
(* Evidence.  A behaviour is about one part: the trace ring and its        *)
(* readers, the validators of target evidence on one snapshot with faults  *)
(* in it, or two processes of the evidence tool on the same two files.     *)
(* The parts share no state; those a behaviour is not about stay in one    *)
(* initial state.                                                          *)
(***************************************************************************)
EXTENDS TraceRing, TargetSnapshot, EvidenceTool, TLC

CONSTANTS t1, t2

VARIABLE part

----------------------------------------------------------------------------
(* Snapshots. *)

MCStarts ==
  [profile : {"NativeIntelL0", "SyntheticLab"}, stage : Stages, verdict : {"Pass"}]
  \cup [profile : {"WhpManaged", "ExternalL0"}, stage : {Preflight, Boot, Release},
        verdict : {"Pass"}]
  \cup [profile : {"NativeIntelL0"}, stage : {Release}, verdict : Verdicts]

\* Two faults at the stage that needs everything, one elsewhere.
MCMaxFaults(x) ==
  IF x.verdict = "Pass" /\ x.stage = Release /\ x.profile \in {"NativeIntelL0", "SyntheticLab"}
  THEN 2 ELSE 1

\* "Own" and -1: the snapshot's profile and stage.
MCRequests ==
  [profile : {"Own"}, stage : {-1}, generation : {0}, flags : {{}}]
  \cup [profile : {"Own"}, stage : {Preflight, Boot, Release}, generation : {1, Generation},
        flags : {{}}]
  \cup [profile : {"NativeIntelL0", "Unknown"}, stage : {Capability}, generation : {0},
        flags : {{"SignatureVerified"}}]

----------------------------------------------------------------------------
(* The tool. *)

MCTools == {t1, t2}
MCPaths == {"package", "other"}
Interchangeable == Permutations(MCTools)

CommandLine(operation, output) ==
  [operation |-> operation, input |-> "package", output |-> output, profile |-> "Unknown",
   stage |-> -1, generation |-> -1, allow |-> FALSE, help |-> FALSE, malformed |-> FALSE]
GateLine(operation, profile, stage, generation) ==
  [CommandLine(operation, NoPath) EXCEPT !.profile = profile, !.stage = stage,
                                         !.generation = generation]

MCOptions ==
  {CommandLine(operation, "other") : operation \in Emitters \cup {"validate", "validate-snapshot"}}
  \cup {CommandLine("emit-synthetic", "package"), CommandLine("validate-snapshot", "package")}
  \cup {GateLine(operation, "NativeIntelL0", Inventory, -1) : operation \in Gates}
  \cup {[GateLine(operation, "SyntheticLab", Release, 1) EXCEPT !.output = "other"] :
          operation \in Gates}
  \* the package of one process is read by a path of its own
  \cup {[CommandLine("emit-synthetic", NoPath) EXCEPT !.input = "other"],
        [GateLine("gate", "SyntheticLab", Release, 1) EXCEPT !.input = "other"],
        [CommandLine("verify-signature", NoPath) EXCEPT !.allow = TRUE]}
  \* lines that are refused, and the help
  \cup {[CommandLine("None", NoPath) EXCEPT !.help = TRUE], CommandLine("None", NoPath),
        CommandLine("Two", NoPath),
        [CommandLine("validate", NoPath) EXCEPT !.allow = TRUE],
        GateLine("gate", "Unknown", Release, -1), GateLine("gate", "SyntheticLab", -1, 1),
        GateLine("gate-snapshot", "SyntheticLab", Release, 0),
        GateLine("validate", "SyntheticLab", -1, -1)}

\* A laboratory snapshot of generation 2 and its manifest, a manifest that is not
\* a pass yet, and a snapshot that no check accepts.
Later == [MakeSyntheticSnapshot EXCEPT !.generation = 2, !.observation.generation = 2,
                                       !.gate.generation = 2]
Unfinished == [Later EXCEPT !.verdict = "Running"]
Wrong == [Later EXCEPT !.errors = 1]
Raw(s) == [snapshot |-> s, cpu |-> <<>>, vmx |-> <<>>]
MCSupplied ==
  {Package("snapshot", Raw(s)) : s \in {Later, Wrong}}
  \cup {Package("manifest", MakeManifest(s)) : s \in {Later, Unfinished}}

----------------------------------------------------------------------------
Init ==
  /\ part \in {"ring", "snapshot", "tool"}
  /\ part # "snapshot" => start = [profile |-> "SyntheticLab", stage |-> Inventory, verdict |-> "Pass"]
  /\ part # "tool" => options = [t \in Tools |-> CommandLine("None", NoPath)]
  /\ TraceInit
  /\ TargetInit
  /\ ToolInit
  \* two processes that write nothing do not meet; a refused one meets no file
  /\ part = "tool" =>
       /\ \E t \in Tools : options[t].operation \in Emitters \/ options[t].output # NoPath
       /\ \A t \in Tools : ParseOptions(options[t]) # "run" =>
            \A u \in Tools \ {t} : options[u] = CommandLine("emit-synthetic", "other")

Next ==
  \/ part = "ring" /\ TraceNext /\ UNCHANGED <<part, vars, toolVars>>
  \/ part = "snapshot" /\ TargetNext /\ UNCHANGED <<part, ringVars, toolVars>>
  \/ part = "tool" /\ ToolNext /\ UNCHANGED <<part, ringVars, vars>>

Spec == Init /\ [][Next]_<<part, ringVars, vars, toolVars>>
=============================================================================
