------------------------------- MODULE Iommu --------------------------------
(***************************************************************************)
(* Device assignment (iommu/iommu_model.cpp 113-247 and 384-592).          *)
(*                                                                         *)
(* A device is assigned to a domain of an owner: prepared against the      *)
(* capabilities, the device profile and the domain, activated, drained,    *)
(* retired; or quarantined by a fault.  The module adds the device itself: *)
(* whose state it holds, and whether DMA or interrupts are under way.      *)
(*                                                                         *)
(* External: the caller gives truthful readiness bits, keeps at most one   *)
(* live assignment of a device, and stamps whatever it probes again with   *)
(* a new generation.  Faults arrive late, in any order, or twice.          *)
(***************************************************************************)
EXTENDS Integers, FiniteSets

CONSTANTS
  Devices,                                      \* devices, by their bus/device/function
  AssignmentSlots,                              \* assignment records
  Owners,                                       \* guests (owner_id)
  Domains,                                      \* the IOMMU domains: id |-> fixed part of the record
  Profiles,                                     \* device profiles a probe may find
  Features,                                     \* sets of feature flags a probe may find
  MaxIommuGeneration,                           \* bound of the generation
  IommuPageShift, MaxBits, DomainBits, MaxMsix  \* address widths and vector count

ASSUME IommuConstants ==
  /\ MaxIommuGeneration \in Nat \ {0} /\ MaxBits \in Nat /\ DomainBits \in 1 .. MaxBits
  /\ IommuPageShift \in Nat /\ MaxMsix \in Nat
  /\ Owners \cap {"host", "nobody"} = {}

VARIABLES
  generation,  \* the caller's current generation
  features,    \* the IOMMU's feature flags, stamped with the generation
  profile,     \* the profile of each device, stamped with the generation
  stamp,       \* the generation of each domain
  assign,      \* the assignment records
  device,      \* the devices themselves
  faults       \* fault records on their way

iommuVars == <<generation, features, profile, stamp, assign, device, faults>>

Host == "host"
Nobody == "nobody"
NoDevice == "no device"
NoDomain == "no domain"
AssignmentStates == {"Empty", "Prepared", "Active", "Draining", "Quarantined", "Retired"}
ReadyBits == {"HostQuiesced", "DmaDrained", "InterruptsDrained", "ResetComplete"}
ActivateReady == ReadyBits
DetachReady == ReadyBits \ {"ResetComplete"}
CompleteDetachReady == DetachReady \cup {"ResetComplete"}

EmptyAssignment ==
  [state |-> "Empty", dev |-> NoDevice, owner |-> Nobody, domain |-> NoDomain, generation |-> 0]

----------------------------------------------------------------------------
(* Validity of the records. *)

IsIommuDeviceProfileValid(p) ==
  /\ p.dmaBits \in IommuPageShift .. MaxBits
  /\ "ResetReliable" \in p.flags <=> p.reset # "None"
  /\ "HasRmrr" \in p.flags <=> p.rmrrs # 0
  /\ IF "Msix" \in p.flags THEN p.msix # 0 ELSE p.msix = 0
  /\ "IsolationComplete" \in p.flags => p.group # 0

IsIommuDomainValid(d) ==
  CASE d.kind = "Host" -> d.owner = Nobody /\ "Identity" \in d.flags /\ d.state = "Active"
    [] d.kind = "L1" ->
         d.owner # Nobody /\ "InterruptRemap" \in d.flags /\ "Nested" \notin d.flags
           /\ d.state # "Empty"
    [] d.kind = "L2" ->
         d.owner # Nobody /\ d.parent # NoDomain /\ d.state # "Empty"
           /\ {"InterruptRemap", "Nested"} \subseteq d.flags
    [] OTHER -> d.state = "Quarantined"

\* The optional features an L2 device may use only if the IOMMU has them.
Optional == {"Ats", "Pri", "Pasid"}

\* PrepareIommuAssignment's checks, in its order.
PrepareStatus(dev, dom, owner) ==
  LET p == profile[dev]
      d == Domains[dom]
  IN CASE ~IsIommuDeviceProfileValid(p) -> "InvalidParameter"
       [] ~IsIommuDomainValid(d) -> "DomainInvalid"
       [] generation # p.generation \/ generation # stamp[dom] -> "GenerationMismatch"
       [] d.owner # owner -> "DomainInvalid"
       [] p.dmaBits > DomainBits \/ p.msix > MaxMsix -> "CapabilityMismatch"
       [] "HostOwned" \in p.flags -> "HostOwned"
       [] {"SystemCritical", "Display"} \cap p.flags # {} -> "CriticalDevice"
       [] "IsolationComplete" \notin p.flags \/ p.group = 0 -> "IsolationIncomplete"
       [] "HasRmrr" \in p.flags -> "IsolationIncomplete"
       [] d.kind \in {"Host", "Quarantine"} -> "DomainInvalid"
       [] "ResetReliable" \notin p.flags -> "ResetUnsupported"
       [] \/ ~{"QueuedInvalidation", "InterruptRemapping"} \subseteq features
          \/ "InterruptRemap" \notin d.flags -> "CapabilityMismatch"
       [] d.kind = "L1" /\ "AllowL1" \notin p.flags -> "CapabilityMismatch"
       [] /\ d.kind = "L2"
          /\ \/ "NestedTranslation" \notin features \/ "AllowL2" \notin p.flags
             \/ ~(p.flags \cap Optional) \subseteq features -> "CapabilityMismatch"
       [] OTHER -> "Success"

----------------------------------------------------------------------------
(* The assignment operations. *)

Live(a) == assign[a].state \notin {"Empty", "Retired"}

\* The record is zeroed first; a refusal leaves it Empty.
PrepareIommuAssignment(a, dev, dom, owner) ==
  /\ ~Live(a) /\ \A b \in AssignmentSlots : Live(b) => assign[b].dev # dev
  /\ assign' = [assign EXCEPT ![a] =
       IF PrepareStatus(dev, dom, owner) = "Success"
       THEN [state |-> "Prepared", dev |-> dev, owner |-> owner, domain |-> dom,
             generation |-> generation]
       ELSE EmptyAssignment]
  /\ UNCHANGED <<generation, features, profile, stamp, device, faults>>

Readiness(dev) ==
  {b \in ReadyBits :
     CASE b = "HostQuiesced" -> ~device[dev].hostBound
       [] b = "DmaDrained" -> device[dev].dma = Nobody
       [] b = "InterruptsDrained" -> ~device[dev].irq
       [] OTHER -> device[dev].holds = Nobody}

AdvanceAssignment(a, from, ready, to) ==
  /\ assign[a].state = from
  /\ ready \subseteq Readiness(assign[a].dev)
  /\ assign' = [assign EXCEPT ![a].state = to]
  /\ UNCHANGED <<generation, features, profile, stamp, device, faults>>

\* Mutant: an assignment of an earlier generation is activated.
ActivateStaleAssignment(a) == AdvanceAssignment(a, "Prepared", ActivateReady, "Active")

ActivateIommuAssignment(a) ==
  assign[a].generation = generation /\ AdvanceAssignment(a, "Prepared", ActivateReady, "Active")

BeginIommuDetach(a) ==
  assign[a].generation = generation /\ AdvanceAssignment(a, "Active", DetachReady, "Draining")

CompleteIommuDetach(a) ==
  assign[a].generation = generation /\ AdvanceAssignment(a, "Draining", CompleteDetachReady, "Retired")

\* A delivered fault record may be delivered again.
QuarantineIommuAssignment(a, f) ==
  /\ f \in faults
  /\ assign[a].state \notin {"Empty", "Retired", "Quarantined"}
  /\ assign[a].dev = f.dev /\ assign[a].generation = f.generation
  /\ assign' = [assign EXCEPT ![a].state = "Quarantined"]
  /\ UNCHANGED <<generation, features, profile, stamp, device, faults>>

----------------------------------------------------------------------------
(* The platform, external. *)

\* The platform is probed again: new capabilities and profiles under a new
\* generation, which the domains get only when they are rebuilt.
Probe ==
  /\ generation < MaxIommuGeneration /\ generation' = generation + 1
  /\ features' \in Features
  /\ \E p \in [Devices -> Profiles] :
       profile' = [d \in Devices |-> [p[d] EXCEPT !.generation = generation + 1]]
  /\ UNCHANGED <<stamp, assign, device, faults>>

RebuildDomain(dom) ==
  /\ stamp[dom] # generation
  /\ stamp' = [stamp EXCEPT ![dom] = generation]
  /\ UNCHANGED <<generation, features, profile, assign, device, faults>>

\* Who uses a device: the host's driver, or the guest it is attached to.
Users(dev) ==
  (IF device[dev].hostBound THEN {Host} ELSE {})
    \cup {assign[a].owner : a \in {b \in AssignmentSlots : assign[b].dev = dev
                                   /\ assign[b].state \in {"Active", "Draining"}}}

Device(dev, d) ==
  /\ device' = [device EXCEPT ![dev] = d]
  /\ UNCHANGED <<generation, features, profile, stamp, assign, faults>>

StartDma(dev) ==
  \E who \in Users(dev) :
    Device(dev, [device[dev] EXCEPT !.dma = who, !.holds = who, !.irq = TRUE])

FinishDma(dev) == device[dev].dma # Nobody /\ Device(dev, [device[dev] EXCEPT !.dma = Nobody])
DrainInterrupts(dev) == device[dev].irq /\ Device(dev, [device[dev] EXCEPT !.irq = FALSE])

Reset(dev) ==
  /\ device[dev].dma = Nobody /\ device[dev].holds # Nobody
  /\ Device(dev, [device[dev] EXCEPT !.holds = Nobody])

\* The host's driver lets go of a device, and takes back one nobody has.
HostReleases(dev) == device[dev].hostBound /\ Device(dev, [device[dev] EXCEPT !.hostBound = FALSE])
HostTakes(dev) ==
  /\ ~device[dev].hostBound /\ \A a \in AssignmentSlots : Live(a) => assign[a].dev # dev
  /\ Device(dev, [device[dev] EXCEPT !.hostBound = TRUE])

\* A DMA of an attached device faults; the record names the generation then.
Fault(dev) ==
  /\ device[dev].dma \in Owners
  /\ faults' = faults \cup {[dev |-> dev, generation |-> generation]}
  /\ UNCHANGED <<generation, features, profile, stamp, assign, device>>

----------------------------------------------------------------------------
IommuInit ==
  /\ generation = 1
  /\ features \in Features
  /\ profile \in [Devices -> {[p EXCEPT !.generation = 1] : p \in Profiles}]
  /\ stamp = [d \in DOMAIN Domains |-> 1]
  /\ assign = [a \in AssignmentSlots |-> EmptyAssignment]
  /\ device = [d \in Devices |-> [hostBound |-> TRUE, dma |-> Nobody, irq |-> FALSE, holds |-> Host]]
  /\ faults = {}

IommuNext ==
  \/ \E a \in AssignmentSlots :
       \/ \E dev \in Devices, dom \in DOMAIN Domains, o \in Owners :
            PrepareIommuAssignment(a, dev, dom, o)
       \/ ActivateIommuAssignment(a)
       \/ BeginIommuDetach(a)
       \/ CompleteIommuDetach(a)
       \/ \E f \in faults : QuarantineIommuAssignment(a, f)
  \/ Probe
  \/ \E dom \in DOMAIN Domains : RebuildDomain(dom)
  \/ \E dev \in Devices :
       \/ StartDma(dev) \/ FinishDma(dev) \/ DrainInterrupts(dev) \/ Reset(dev)
       \/ HostReleases(dev) \/ HostTakes(dev) \/ Fault(dev)

IommuSpec == IommuInit /\ [][IommuNext]_iommuVars

----------------------------------------------------------------------------
Holders == Owners \cup {Host, Nobody}

\* The records keep their shapes; a record that is not Empty is complete.
IommuTypeOK ==
  /\ generation \in 1 .. MaxIommuGeneration /\ features \in Features
  /\ stamp \in [DOMAIN Domains -> 1 .. MaxIommuGeneration]
  /\ assign \in [AssignmentSlots ->
                 {EmptyAssignment}
                 \cup [state : AssignmentStates \ {"Empty"}, dev : Devices, owner : Owners,
                       domain : DOMAIN Domains, generation : 1 .. MaxIommuGeneration]]
  /\ device \in [Devices -> [hostBound : BOOLEAN, dma : Holders, irq : BOOLEAN, holds : Holders]]
  /\ faults \subseteq [dev : Devices, generation : 1 .. MaxIommuGeneration]

\* A device has at most one live assignment.  One that is prepared and whose stamp is
\* still current was permitted on this very platform: a probe brings a new
\* generation, and a domain is rebuilt only when its stamp is old.
AssignmentsAreCurrent ==
  /\ \A a, b \in AssignmentSlots : Live(a) /\ Live(b) /\ assign[a].dev = assign[b].dev => a = b
  /\ \A a \in AssignmentSlots :
       /\ assign[a].generation <= generation
       /\ (assign[a].state = "Prepared" /\ assign[a].generation = generation) =>
            PrepareStatus(assign[a].dev, assign[a].domain, assign[a].owner) = "Success"

\* PrepareIommuAssignment looks at the platform, ActivateIommuAssignment acts
\* later: an assignment becomes active only while capabilities, profile and
\* domain still allow it, whatever was probed again in between.
ActivationIsStillPermitted ==
  [][\A a \in AssignmentSlots :
       (assign[a].state = "Prepared" /\ assign'[a].state = "Active") =>
         PrepareStatus(assign[a].dev, assign[a].domain, assign[a].owner) = "Success"]_iommuVars

\* ActivateIommuAssignment: an attached device carries nothing of the host or
\* of an earlier guest, neither state nor DMA under way.
AttachedDeviceIsOwnersOnly ==
  \A a \in AssignmentSlots :
    assign[a].state \in {"Active", "Draining"} =>
      LET d == device[assign[a].dev]
      IN ~d.hostBound /\ {d.dma, d.holds} \subseteq {assign[a].owner, Nobody}

\* CompleteIommuDetach: a guest leaves state or DMA in a device only while an
\* assignment of that guest still holds the device, although new DMA may
\* start between the beginning and the completion of the detach.
NoGuestResidue ==
  \A dev \in Devices, o \in Owners :
    o \in {device[dev].dma, device[dev].holds} =>
      \E a \in AssignmentSlots : Live(a) /\ assign[a].dev = dev /\ assign[a].owner = o

\* QuarantineIommuAssignment: a quarantined device is never given on, however
\* the fault races the detach.
QuarantineKeepsDevice ==
  [][\A a \in AssignmentSlots : assign[a].state = "Quarantined" => assign'[a] = assign[a]]_iommuVars

\* iommu_model.cpp while devices run DMA, fault and are probed again: an attached
\* device is its owner's only and leaves nothing behind, an assignment becomes
\* active only while it is permitted, and a quarantined device is never given on.
DevicesAreExclusive ==
  /\ []IommuTypeOK
  /\ []AttachedDeviceIsOwnersOnly
  /\ []NoGuestResidue
  /\ []AssignmentsAreCurrent
  /\ ActivationIsStillPermitted
  /\ QuarantineKeepsDevice
=============================================================================
