-------------------------------- MODULE Whp ---------------------------------
(***************************************************************************)
(* A partition of the Windows Hypervisor Platform as KNHV would run it     *)
(* (whp/whp_model.cpp): its life, its memory map, its virtual processors   *)
(* and what becomes of their exits.  External: the caller, which holds the *)
(* structures and calls in any order with any generation; a call that is   *)
(* refused and changes nothing is not a step.                              *)
(***************************************************************************)
EXTENDS Integers, Sequences, SequencesExt

CONSTANTS
  MaxVcpus,              \* vCPU structures of the caller, and configured at most
  MaxMappings,           \* kWhpMaxMappings
  MaxRuns,               \* bound on run_count, 2^64 - 1 in the code
  PartitionGenerations,  \* generations of capabilities and configs
  WhpFeatures,           \* feature_flags of the platform
  Flags,                 \* flags of the configs tried
  GpaMappings,           \* WhpMemoryMapping values tried
  Reasons                \* exit reasons tried

ASSUME WhpConstants ==
  /\ MaxVcpus \in Nat \ {0} /\ MaxMappings \in Nat /\ MaxRuns \in Nat
  /\ PartitionGenerations \subseteq Nat \ {0}

VARIABLES
  partition,    \* WhpPartition
  vcpus,        \* the WhpVcpu structures
  mapped,       \* the page counts of the mappings accepted since the creation
  exitDecision  \* the last WhpExitDecision, and whether its record was stale

whpVars == <<partition, vcpus, mapped, exitDecision>>

VcpuSlots == 1 .. MaxVcpus
PartitionStates == {"Empty", "Created", "Configured", "Running", "Draining", "Closed",
                    "Quarantined"}
VcpuStates == {"Empty", "Created", "Running", "Stopped"}

EmptyPartition ==
  [state |-> "Empty", generation |-> 0, max |-> 0, configured |-> 0,
   mappings |-> 0, pages |-> 0]
EmptyVcpu == [state |-> "Empty", generation |-> 0, index |-> 0, runs |-> 0]
NoExitDecision == [action |-> "None", stale |-> FALSE]

----------------------------------------------------------------------------
(* Life of the partition. *)

\* The capability a flag of the config needs.
Needs(flag) ==
  CASE flag = "EnableNestedVmx" -> "NestedVmx" [] flag = "EnableLocalApic" -> "LocalApic"
    [] flag = "EnableReferenceTime" -> "ReferenceTime" [] OTHER -> "Iommu"

\* The structure is emptied before anything is checked.
CreateWhpPartition(generation, caps_generation, max, flags) ==
  /\ partition' =
       IF /\ caps_generation = generation /\ "Partition" \in WhpFeatures
          /\ max \in 1 .. MaxVcpus /\ \A f \in flags : Needs(f) \in WhpFeatures
       THEN [EmptyPartition EXCEPT !.state = "Created", !.generation = generation, !.max = max]
       ELSE EmptyPartition
  /\ mapped' = <<>>
  /\ UNCHANGED <<vcpus, exitDecision>>

\* IsWhpPartitionValid refuses the empty structure: it has no identity.
IsWhpPartitionValid == partition.state # "Empty"

InState(generation, states) ==
  /\ IsWhpPartitionValid /\ partition.generation = generation /\ partition.state \in states

ConfigureWhpPartition(generation, count) ==
  /\ InState(generation, {"Created"}) /\ count \in 1 .. partition.max
  /\ partition' = [partition EXCEPT !.state = "Configured", !.configured = count]
  /\ UNCHANGED <<vcpus, mapped, exitDecision>>

CanMap(mapping) == partition.mappings < MaxMappings

\* A mapping that IsWhpMemoryMappingValid refuses is an InvalidParameter.
MapWhpGpa(mapping, generation) ==
  /\ mapping.valid /\ InState(generation, {"Created", "Configured"})
  /\ mapping.generation = generation /\ CanMap(mapping)
  /\ partition' = [partition EXCEPT !.mappings = @ + 1, !.pages = @ + mapping.pages]
  /\ mapped' = Append(mapped, mapping.pages)
  /\ UNCHANGED <<vcpus, exitDecision>>

MoveTo(generation, from, to) ==
  /\ InState(generation, from)
  /\ partition' = [partition EXCEPT !.state = to]
  /\ UNCHANGED <<vcpus, mapped, exitDecision>>

StartWhpPartition(generation) == MoveTo(generation, {"Configured"}, "Running")
BeginWhpDrain(generation) == MoveTo(generation, {"Running", "Configured"}, "Draining")

CloseWhpPartition(generation) ==
  MoveTo(generation, {"Created", "Configured", "Draining"}, "Closed")

QuarantineWhpPartition(generation) ==
  MoveTo(generation, PartitionStates \ {"Empty", "Closed", "Quarantined"}, "Quarantined")

----------------------------------------------------------------------------
(* Virtual processors. *)

\* The structure is emptied also when the call is refused.
CreateWhpVcpu(slot, index, generation) ==
  /\ vcpus' = [vcpus EXCEPT ![slot] =
       IF InState(generation, {"Configured"}) /\ index < partition.configured
       THEN [EmptyVcpu EXCEPT !.state = "Created", !.generation = generation, !.index = index]
       ELSE EmptyVcpu]
  /\ UNCHANGED <<partition, mapped, exitDecision>>

\* Mutant: a vCPU may start while the partition drains.
StartWhpVcpuDraining(slot, generation) ==
  LET vcpu == vcpus[slot]
  IN /\ InState(generation, {"Running", "Draining"}) /\ vcpu.generation = generation
     /\ vcpu.index < partition.configured /\ vcpu.state \in {"Created", "Stopped"}
     /\ vcpu.runs < MaxRuns
     /\ vcpus' = [vcpus EXCEPT ![slot].state = "Running", ![slot].runs = @ + 1]
     /\ UNCHANGED <<partition, mapped, exitDecision>>

StartWhpVcpu(slot, generation) ==
  LET vcpu == vcpus[slot]
  IN /\ InState(generation, {"Running"}) /\ vcpu.generation = generation
     /\ vcpu.index < partition.configured /\ vcpu.state \in {"Created", "Stopped"}
     /\ vcpu.runs < MaxRuns
     /\ vcpus' = [vcpus EXCEPT ![slot].state = "Running", ![slot].runs = @ + 1]
     /\ UNCHANGED <<partition, mapped, exitDecision>>

StopWhpVcpu(slot, generation) ==
  LET vcpu == vcpus[slot]
  IN /\ InState(generation, {"Running", "Draining"}) /\ vcpu.generation = generation
     /\ vcpu.state = "Running"
     /\ vcpus' = [vcpus EXCEPT ![slot].state = "Stopped"]
     /\ UNCHANGED <<partition, mapped, exitDecision>>

----------------------------------------------------------------------------
(* Exits. *)

\* The action for a reason that is handled; Cpuid stands for the seven reasons
\* that go to the CPU handler.
Handler ==
  [MemoryAccess |-> "HandleMemory", IoPortAccess |-> "HandleIo", Cpuid |-> "HandleCpu",
   Halt |-> "Stop", Canceled |-> "Stop"]

EvaluateWhpExit(reason, index, stamp, generation) ==
  CASE ~IsWhpPartitionValid -> [status |-> "InvalidParameter", action |-> "Quarantine"]
    [] partition.generation # generation \/ stamp # generation ->
         [status |-> "GenerationMismatch", action |-> "Quarantine"]
    [] partition.state # "Running" \/ index >= partition.configured ->
         [status |-> "StateConflict", action |-> "Quarantine"]
    [] reason \in DOMAIN Handler -> [status |-> "Success", action |-> Handler[reason]]
    [] OTHER -> [status |-> "ExitUnsupported", action |-> "Quarantine"]

\* An exit of a vCPU that runs, or that ran when the record was made.
Exit(slot, reason, generation) ==
  LET vcpu == vcpus[slot]
      d == EvaluateWhpExit(reason, vcpu.index, vcpu.generation, generation)
  IN /\ vcpu.runs # 0
     /\ exitDecision' = [action |-> d.action, stale |-> vcpu.generation # partition.generation]
     /\ UNCHANGED <<partition, vcpus, mapped>>

----------------------------------------------------------------------------
WhpInit ==
  /\ partition = EmptyPartition /\ vcpus = [s \in VcpuSlots |-> EmptyVcpu] /\ mapped = <<>>
  /\ exitDecision = NoExitDecision

WhpNext ==
  \/ \E g, c \in PartitionGenerations, n \in VcpuSlots, f \in Flags : CreateWhpPartition(g, c, n, f)
  \/ \E g \in PartitionGenerations :
       \/ \E n \in VcpuSlots : ConfigureWhpPartition(g, n)
       \/ \E mapping \in GpaMappings : MapWhpGpa(mapping, g)
       \/ StartWhpPartition(g) \/ BeginWhpDrain(g)
       \/ CloseWhpPartition(g) \/ QuarantineWhpPartition(g)
       \/ \E s \in VcpuSlots :
            \/ \E i \in 0 .. MaxVcpus - 1 : CreateWhpVcpu(s, i, g)
            \/ StartWhpVcpu(s, g) \/ StopWhpVcpu(s, g)
            \/ \E r \in Reasons : Exit(s, r, g)

WhpSpec == WhpInit /\ [][WhpNext]_whpVars

----------------------------------------------------------------------------
\* Partition, vCPUs and counters stay within their ranges; in particular
\* MapWhpGpa never counts more than kWhpMaxMappings, which IsWhpPartitionValid
\* would take for a broken partition.
WhpTypeOK ==
  /\ partition \in [state : PartitionStates, generation : PartitionGenerations \cup {0},
                    max : 0 .. MaxVcpus, configured : 0 .. MaxVcpus,
                    mappings : 0 .. MaxMappings, pages : Nat]
  /\ partition.configured <= partition.max
  /\ vcpus \in [VcpuSlots -> [state : VcpuStates, generation : PartitionGenerations \cup {0},
                          index : 0 .. MaxVcpus - 1, runs : 0 .. MaxRuns]]

\* mapping_count and mapped_pages are those of the mappings accepted since the
\* structure was last created (MapWhpGpa), however often it is created anew.
MappedIsExact ==
  /\ partition.mappings = Len(mapped)
  /\ partition.pages = FoldSeq(LAMBDA p, sum : p + sum, 0, mapped)

\* Once a partition is draining, closed or quarantined, and before it runs, no
\* vCPU starts, whatever the callers of the vCPUs do (StartWhpVcpu), and no
\* vCPU of another generation ever does.
Runs(v) == {s \in VcpuSlots : v[s].state = "Running"}
OnlyRunningPartitionsStart ==
  [][\A s \in Runs(vcpus') \ Runs(vcpus) :
       partition.state = "Running" /\ vcpus[s].generation = partition.generation]_whpVars

\* tests/whp_model_test.cpp, "WHP quarantine prevents a closed partition from
\* reopening": a closed or quarantined partition stays so until it is created
\* anew, by whatever sequence of calls.
FinalStatesStay ==
  [][partition.state \in {"Closed", "Quarantined"} =>
       partition' = partition \/ partition'.state \in {"Empty", "Created"}]_whpVars

\* An exit record made before the partition was created anew is never handled
\* (EvaluateWhpExit).
StaleExitIsNotHandled == exitDecision.stale => exitDecision.action = "Quarantine"

\* whp_model.cpp through creation anew, draining and quarantine: the mapping counters
\* are exact, an exit of an earlier generation is not handled, a virtual
\* processor starts only in a running partition, and final states stay.
PartitionIsOrderly ==
  /\ []WhpTypeOK
  /\ []MappedIsExact
  /\ []StaleExitIsNotHandled
  /\ OnlyRunningPartitionsStart
  /\ FinalStatesStay
=============================================================================
