------------------------------ MODULE CpuProbe ------------------------------
(***************************************************************************)
(* preflight/cpu_matrix_probe.cpp: one thread visits the logical           *)
(* processors in turn, pinned to each while it reads CPUID there, and      *)
(* gives the thread its own affinity back after each one.  Every call of   *)
(* the system may fail, and something else may move the thread away from   *)
(* the processor it is pinned to; it then stays away for that sample.      *)
(***************************************************************************)
EXTENDS CapabilityMatrix

CONSTANTS ProcessorCount,  \* logical processors
          Kinds,           \* what CPUID can say: [identity, features]
          Limits           \* the values of --max-cpus

ASSUME ProbeAssumption == ProcessorCount \in Nat \ {0} /\ Limits \subseteq Nat \ {0}

VARIABLES
  cpuid,     \* what CPUID says on each processor
  limit,     \* options.max_processors
  running,   \* the processor the thread runs on
  affinity,  \* Original, or the processor the thread is bound to
  pc,        \* where CollectMatrix is
  saved, restored,
  index,     \* the processor being sampled
  sample,    \* the sample being taken
  samples,
  verdict

probeVars == <<cpuid, limit, running, affinity, pc, saved, restored, index, sample, samples, verdict>>

Processors == 1..ProcessorCount
Original == 0
RequiredFeatures == {"Vmx", "InvariantTsc"}

EmptySample(i) ==
  [index |-> i, slot |-> i, status |-> {}, identity |-> NoIdentity, features |-> {}]

Failed(i, why) == [EmptySample(i) EXCEPT !.status = {why}]

ProbeInit ==
  /\ cpuid \in [Processors -> Kinds] /\ limit \in Limits
  /\ running \in Processors
  /\ affinity = Original /\ pc = "Save"
  /\ saved = FALSE /\ restored = FALSE
  /\ index = 1 /\ sample = EmptySample(1) /\ samples = <<>> /\ verdict = "None"

Truncated == ProcessorCount > limit

LastSample == IF Truncated THEN limit ELSE ProcessorCount

SaveAffinity ==
  /\ pc = "Save" /\ pc' = "Next" /\ saved' \in BOOLEAN
  /\ UNCHANGED <<cpuid, limit, running, affinity, restored, index, sample, samples, verdict>>

\* Without the affinity to give back no processor is visited.
SkipSample ==
  /\ pc = "Next" /\ index <= LastSample /\ ~saved
  /\ samples' = Append(samples, Failed(index, "AffinityFailed"))
  /\ index' = index + 1
  /\ UNCHANGED <<cpuid, limit, running, affinity, pc, saved, restored, sample, verdict>>

PinCurrentThread ==
  /\ pc = "Next" /\ index <= LastSample /\ saved
  /\ affinity' = index /\ running' = index
  /\ sample' = EmptySample(index) /\ pc' = "Before"
  /\ UNCHANGED <<cpuid, limit, saved, restored, index, samples, verdict>>

\* The affinity is refused, or set and the thread is found elsewhere.
PinFails ==
  /\ pc = "Next" /\ index <= LastSample /\ saved
  /\ \/ UNCHANGED <<affinity, running>>
     \/ affinity' = index /\ running' \in Processors \ {index}
  /\ samples' = Append(samples, Failed(index, "AffinityFailed"))
  /\ pc' = "Restore"
  /\ UNCHANGED <<cpuid, limit, saved, restored, index, sample, verdict>>

\* The environment binds the thread to another processor.
Migrate ==
  /\ pc \in {"Before", "Basic", "Leaves", "After"} /\ running = index
  /\ running' \in Processors \ {index} /\ affinity' = running'
  /\ UNCHANGED <<cpuid, limit, pc, saved, restored, index, sample, samples, verdict>>

CheckBefore ==
  /\ pc = "Before"
  /\ IF running = index THEN pc' = "Basic" /\ UNCHANGED samples
     ELSE pc' = "Restore" /\ samples' = Append(samples, Failed(index, "Migrated"))
  /\ UNCHANGED <<cpuid, limit, running, affinity, saved, restored, index, sample, verdict>>

ReadBasicLeaf ==
  /\ pc = "Basic" /\ pc' = "Leaves"
  /\ sample' = [sample EXCEPT !.identity = cpuid[running].identity]
  /\ UNCHANGED <<cpuid, limit, running, affinity, saved, restored, index, samples, verdict>>

\* The features and the address widths come from later leaves.
ReadOtherLeaves ==
  /\ pc = "Leaves" /\ pc' = "After"
  /\ sample' = [sample EXCEPT !.identity.bits = cpuid[running].identity.bits,
                              !.identity.other = cpuid[running].identity.other,
                              !.features = cpuid[running].features]
  /\ UNCHANGED <<cpuid, limit, running, affinity, saved, restored, index, samples, verdict>>

SampleStatus(s, here) ==
  IF here # s.slot THEN {"Migrated"}
  ELSE IF s.identity.leaves = 0 \/ s.identity.vendor = "" THEN {"CpuidFailed"}
  ELSE {"Collected"}

CheckAfter ==
  /\ pc = "After" /\ pc' = "Restore"
  /\ samples' = Append(samples, [sample EXCEPT !.status = SampleStatus(sample, running)])
  /\ UNCHANGED <<cpuid, limit, running, affinity, saved, restored, index, sample, verdict>>

RestoreAffinity(ok) ==
  /\ restored' = ok
  /\ IF ok THEN affinity' = Original /\ running' \in Processors
     ELSE UNCHANGED <<affinity, running>>

\* A failure ends the visits.
RestoreAfterSample ==
  /\ pc = "Restore"
  /\ \E ok \in BOOLEAN :
       /\ RestoreAffinity(ok)
       /\ IF ok THEN pc' = "Next" /\ index' = index + 1 ELSE pc' = "Final" /\ UNCHANGED index
  /\ UNCHANGED <<cpuid, limit, saved, sample, samples, verdict>>

\* Mutant: off by one, the loop waits for a processor past the last one.
EndOfVisitsLate ==
  /\ pc = "Next" /\ index > LastSample + 1 /\ pc' = "Final"
  /\ UNCHANGED <<cpuid, limit, running, affinity, saved, restored, index, sample, samples, verdict>>

EndOfVisits ==
  /\ pc = "Next" /\ index > LastSample /\ pc' = "Final"
  /\ UNCHANGED <<cpuid, limit, running, affinity, saved, restored, index, sample, samples, verdict>>

FinalRestore ==
  /\ pc = "Final" /\ pc' = "Judge"
  /\ IF saved /\ ~restored THEN \E ok \in BOOLEAN : RestoreAffinity(ok)
     ELSE UNCHANGED <<affinity, running, restored>>
  /\ UNCHANGED <<cpuid, limit, saved, index, sample, samples, verdict>>

Verdict(m, given_back) ==
  IF ~IsCpuMatrixSummaryValid(m) THEN "Invalid"
  ELSE IF IsCpuMatrixUniform(m, RequiredFeatures) /\ given_back /\ ~Truncated THEN "Pass"
  ELSE "Blocked"

Judge ==
  /\ pc = "Judge" /\ pc' = "Done"
  /\ verdict' = Verdict(BuildCpuMatrixSummary(samples, ProcessorCount), restored)
  /\ UNCHANGED <<cpuid, limit, running, affinity, saved, restored, index, sample, samples>>

\* The process has ended.
ProbeDone == pc = "Done" /\ UNCHANGED probeVars

ProbeStep ==
  \/ SaveAffinity \/ SkipSample \/ PinCurrentThread \/ PinFails \/ CheckBefore
  \/ ReadBasicLeaf \/ ReadOtherLeaves \/ CheckAfter \/ RestoreAfterSample
  \/ EndOfVisits \/ FinalRestore \/ Judge

ProbeNext == ProbeStep \/ Migrate \/ ProbeDone

\* The probe is one running thread: it keeps taking its own steps.
ProbeSpec == ProbeInit /\ [][ProbeNext]_probeVars /\ WF_probeVars(ProbeStep)
----------------------------------------------------------------------------
(* Type invariant of the probe's state. *)
ProbeTypeOK ==
  /\ cpuid \in [Processors -> Kinds] /\ limit \in Limits /\ running \in Processors
  /\ affinity \in {Original} \cup Processors
  /\ pc \in {"Save", "Next", "Before", "Basic", "Leaves", "After", "Restore", "Final",
             "Judge", "Done"}
  /\ saved \in BOOLEAN /\ restored \in BOOLEAN /\ index \in 1..(ProcessorCount + 1)
  /\ Len(samples) <= limit /\ verdict \in {"None", "Pass", "Blocked", "Invalid"}

(* The verdict "pass" of main() is about the machine and not about the     *)
(* samples: every processor there is has the required features, and all    *)
(* have one identity and one feature word.                                 *)
PassIsAboutTheHost ==
  verdict = "Pass" => /\ \A i \in Processors : RequiredFeatures \subseteq cpuid[i].features
                      /\ \A i, j \in Processors : cpuid[i] = cpuid[j]

(* A thread that passed runs where it ran before: the last                 *)
(* RestoreAffinity succeeded, whatever failed on the way.                  *)
PassGivesAffinityBack == verdict = "Pass" => affinity = Original

(* A machine that is uniform and has the features is never refused because *)
(* of the bookkeeping: when no call failed, nothing moved the thread and   *)
(* the limit was not reached, main() passes it.                            *)
CleanVisitPasses ==
  (/\ verdict \in {"Blocked", "Invalid"} /\ ProcessorCount <= limit /\ saved /\ restored
   /\ \A i \in DOMAIN samples : samples[i].status = {"Collected"}
   /\ Len(samples) = ProcessorCount)
  => \E i, j \in Processors : \/ cpuid[i] # cpuid[j]
                        \/ ~RequiredFeatures \subseteq cpuid[i].features
                        \/ cpuid[i].identity.bits > MaxAddressBits

(* Whatever fails, a probe that has begun reaches a verdict.               *)
ProbeEnds == (pc # "Save") ~> (verdict # "None")

\* CollectMatrix of cpu_matrix_probe.cpp while the scheduler may move its
\* thread: a pass speaks for every processor and leaves the thread's affinity as
\* it was, a visit that went well is not refused, and the probe ends.
ProbeIsTruthful ==
  /\ []ProbeTypeOK
  /\ []PassIsAboutTheHost
  /\ []PassGivesAffinityBack
  /\ []CleanVisitPasses
  /\ ProbeEnds
=============================================================================
