--------------------------- MODULE VmxCapability ---------------------------
(***************************************************************************)
(* vmx/vmx_capability_model.cpp at work: samples of the VMX capability     *)
(* MSRs come in one by one, the matrix is built from them, and control     *)
(* sets are normalised against the single samples.                         *)
(***************************************************************************)
EXTENDS CapabilityMatrix

CONSTANTS Payloads,  \* what the MSRs of a processor say
          Places,    \* <<logical index, processor slot>>
          Expected,  \* expected processor counts
          Requests,  \* control sets asked for
          MaxSamples

VARIABLES recorded, expected, matrix

capabilityVars == <<recorded, expected, matrix>>

NoMatrix == [state |-> "None"]

CapabilityInit == recorded = <<>> /\ expected \in Expected /\ matrix = NoMatrix

Sample(place, status, payload) ==
  [index |-> place[1], slot |-> place[2], status |-> status, payload |-> payload]

\* The caller fills the samples: one processor read, or the reason it was not.
AddSample ==
  /\ matrix = NoMatrix /\ Len(recorded) < MaxSamples
  /\ \E place \in Places :
       \/ \E p \in Payloads : recorded' = Append(recorded, Sample(place, {"Collected"}, p))
       \/ \E f \in VmxFailures : recorded' = Append(recorded, Sample(place, {f}, NoPayload))
  /\ UNCHANGED <<expected, matrix>>

Build ==
  /\ matrix = NoMatrix
  /\ matrix' = BuildVmxCapabilityMatrix(recorded, expected)
  /\ UNCHANGED <<recorded, expected>>

CapabilityNext == AddSample \/ Build

CapabilitySpec == CapabilityInit /\ [][CapabilityNext]_capabilityVars
----------------------------------------------------------------------------
Built == matrix # NoMatrix
Normalizes(r) == {i \in DOMAIN recorded : NormalizeVmxControlSet(recorded[i], r)}

(* BuildVmxCapabilityMatrix and IsVmxCapabilityMatrixValid, two separate   *)
(* computations of flags, counts and state, agree: a matrix is accepted    *)
(* exactly when it could be built.                                         *)
BuiltMatrixIsValid == Built => (matrix.state # "Invalid" <=> IsVmxCapabilityMatrixValid(matrix))

(* What IsVmxCapabilityMatrixUniform promises of the machine: one sample   *)
(* of each expected processor, and a control set normalised on one of them *)
(* is accepted with the same value by all.                                 *)
UniformMatrixFitsEveryProcessor ==
  (Built /\ IsVmxCapabilityMatrixUniform(matrix, {"Vmx"}, {})) =>
    /\ Cardinality({recorded[i].slot : i \in DOMAIN recorded}) = expected
    /\ \A r \in Requests :
         /\ Normalizes(r) \in {{}, DOMAIN recorded}
         /\ \A i, j \in Normalizes(r) :
              NormalizedControls(recorded[i], r) = NormalizedControls(recorded[j], r)

(* A feature a uniform matrix announces can be switched on: with the       *)
(* feature control ready and no secondary control forced on, the request   *)
(* for EPT or VPID alone is normalised on every processor.                 *)
AnnouncedFeatureCanBeUsed ==
  \A f \in {"Ept", "Vpid"} :
    (/\ Built /\ IsVmxCapabilityMatrixUniform(matrix, {f, "ControlReady"}, {})
     /\ \A i \in DOMAIN recorded : recorded[i].payload.controls["secondary"].mandatory = {}) =>
       Normalizes([c \in Controls |-> CASE c = "primary" -> {"ActivateSecondary"}
                                        [] c = "secondary" -> {f}
                                        [] OTHER -> {}]) = DOMAIN recorded

(* A normalised control set can be entered: it holds what was asked for,   *)
(* every word is one the processor accepts, no word is set that the        *)
(* primary controls leave off, and EPT and VPID are on only where          *)
(* GetVmxCapabilityFeatureFlags announces them.                            *)
NormalizedControlsFit ==
  \A r \in Requests : \A i \in Normalizes(r) :
    LET n == NormalizedControls(recorded[i], r)
        features == GetVmxCapabilityFeatureFlags(recorded[i])
    IN /\ \A c \in Controls : /\ r[c] \subseteq n[c]
                              /\ IsVmxControlValueAllowed(recorded[i].payload.controls[c], n[c])
       /\ n["secondary"] # {} => "SecondaryControls" \in features
       /\ n["secondary"] \cap {"Ept", "Vpid"} \subseteq features
       /\ n["tertiary"] # {} => "ActivateTertiary" \in n["primary"]

\* vmx_capability_model.cpp: a matrix it builds is one it accepts, a uniform
\* one makes every processor agree on every request, and what it announces or
\* normalizes is what each processor allows.
MatrixSpeaksForAll ==
  /\ BuiltMatrixIsValid
  /\ UniformMatrixFitsEveryProcessor
  /\ AnnouncedFeatureCanBeUsed
  /\ NormalizedControlsFit
=============================================================================
