---------------------------- MODULE MCContracts -----------------------------
(***************************************************************************)
(* The contracts of the virtual platform.  A behaviour is about one of     *)
(* them: VPID leases and shootdowns, the EPT rules, EPT hooks, device      *)
(* assignment, the interrupt queue, the virtual TSC, or a WHP partition.   *)
(* They share no state; those a behaviour is not about stay in one initial *)
(* state.                                                                  *)
(***************************************************************************)
EXTENDS Vpid, Ept, EptHook, Iommu, Interrupt, TimeContract, Whp, TLC

CONSTANTS e1, e2, c1, c2, d1, g1, g2

VARIABLE part

----------------------------------------------------------------------------
(* Two processors, and tables (leases, hook records, assignments) of two    *)
(* entries.  VPIDs: two numbers and one shootdown object.                   *)

MCEntries == {e1, e2}
MCCpus == {c1, c2}

Interchangeable == Permutations(MCEntries) \cup Permutations(MCCpus)

----------------------------------------------------------------------------
(* Pages of 128 bytes, page orders of one bit, addresses at both ends of    *)
(* every page, and counts up to a 9-bit word for the rate budget.           *)

MCGpas == {0, 127, 128, 256, 384, 511, 512, 1023}
MCRoots == {0, 128, 384, 512}
MCRates == {0, 1, 3, 30, 31, 511}

----------------------------------------------------------------------------
(* Hooks: three generations, and leases and requests that match, or differ  *)
(* in owner, kind, size or generation.                                      *)

MCLeases ==
  [owner : {1}, generation : 1 .. MaxEptGeneration, expires : 1 .. 2, view : {"GuestDebug"},
   kind : {"Execute"}, state : {"Active"}, maxPages : {1}] \cup
  [owner : {1}, generation : {1}, expires : {2}, view : {"GuestDebug"},
   kind : {"Execute"}, state : {"Revoked"}, maxPages : {1}]
Matching(g) ==
  [owner |-> 1, expected |-> g, pages |-> 1, view |-> "GuestDebug", kind |-> "Execute"]
MCHookRequests ==
  {Matching(g) : g \in 1 .. MaxEptGeneration} \cup
  {[Matching(1) EXCEPT !.owner = 2], [Matching(1) EXCEPT !.pages = 2],
   [Matching(1) EXCEPT !.kind = "Write"]}

----------------------------------------------------------------------------
(* One device, two guests with an L1 and an L2 domain, two generations;     *)
(* profiles with one defect each.                                           *)

MCOwners == {g1, g2}
Domain(owner, kind, flags) ==
  [owner |-> owner, kind |-> kind, flags |-> flags, state |-> "Active", parent |-> "host domain"]
MCDomains ==
  [l1 |-> Domain(g1, "L1", {"InterruptRemap"}),
   l2 |-> Domain(g2, "L2", {"InterruptRemap", "Nested"}),
   quarantine |-> [Domain(g1, "Quarantine", {}) EXCEPT !.state = "Quarantined"]]
Assignable ==
  [flags |-> {"IsolationComplete", "ResetReliable", "AllowL1", "AllowL2", "Ats"}, reset |-> "Flr",
   dmaBits |-> 4, rmrrs |-> 0, msix |-> 0, group |-> 1, generation |-> 0]
MCProfiles ==
  {Assignable,
   [Assignable EXCEPT !.flags = @ \cup {"HostOwned"}],
   [Assignable EXCEPT !.flags = (@ \ {"AllowL1"}) \cup {"Msix"}, !.msix = 2],
   [Assignable EXCEPT !.reset = "None"]}
MCFeatures ==
  {{"QueuedInvalidation", "InterruptRemapping", "NestedTranslation", "Ats"},
   {"QueuedInvalidation", "InterruptRemapping"}}

----------------------------------------------------------------------------
(* Events of every priority. *)

MCSources == {<<"Nmi", 2>>, <<"HardwareException", 1>>, <<"External", 5>>, <<"Init", 0>>,
              <<"External", 1>>}

----------------------------------------------------------------------------
(* Words of four bits, scales with two fraction bits, two calibrations. *)

MCOffsets == {-3}
MCScales == {0, 3}
MCSteps == {5}
MCMinima == {9, 10}

----------------------------------------------------------------------------
(* Two generations of a partition that has the local APIC but not VMX. *)

MCGenerations == {1, 2}
MCWhpFeatures == {"Partition", "LocalApic"}
MCFlags == {{"EnableLocalApic"}, {"EnableNestedVmx"}}
MCMappings == [valid : {TRUE}, generation : MCGenerations, pages : {2}]
              \cup [valid : {FALSE}, generation : {1}, pages : {1}]
MCReasons == {"MemoryAccess", "UnsupportedFeature"}

----------------------------------------------------------------------------
Init ==
  /\ part \in {"vpid", "ept", "hook", "iommu", "interrupt", "time", "whp"}
  /\ VpidInit
  /\ EptInit
  /\ HookInit
  /\ part # "iommu" =>
       /\ features = CHOOSE f \in Features : TRUE
       /\ profile = [d \in Devices |-> [Assignable EXCEPT !.generation = 1]]
  /\ IommuInit
  /\ IntInit
  /\ part # "time" => transform = Plain(ScaleOne - 1, -3)
  /\ TimeInit
  /\ WhpInit

Next ==
  \/ part = "vpid" /\ VpidNext
     /\ UNCHANGED <<part, call, hookVars, iommuVars, intVars, timeVars, whpVars>>
  \/ part = "ept" /\ EptNext
     /\ UNCHANGED <<part, vpidVars, hookVars, iommuVars, intVars, timeVars, whpVars>>
  \/ part = "hook" /\ HookNext
     /\ UNCHANGED <<part, vpidVars, call, iommuVars, intVars, timeVars, whpVars>>
  \/ part = "iommu" /\ IommuNext
     /\ UNCHANGED <<part, vpidVars, call, hookVars, intVars, timeVars, whpVars>>
  \/ part = "interrupt" /\ IntNext
     /\ UNCHANGED <<part, vpidVars, call, hookVars, iommuVars, timeVars, whpVars>>
  \/ part = "time" /\ TimeNext
     /\ UNCHANGED <<part, vpidVars, call, hookVars, iommuVars, intVars, whpVars>>
  \/ part = "whp" /\ WhpNext
     /\ UNCHANGED <<part, vpidVars, call, hookVars, iommuVars, intVars, timeVars>>

Spec ==
  Init /\ [][Next]_<<part, vpidVars, call, hookVars, iommuVars, intVars, timeVars, whpVars>>
=============================================================================
