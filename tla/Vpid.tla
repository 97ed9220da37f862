-------------------------------- MODULE Vpid --------------------------------
(***************************************************************************)
(* VPID leases and TLB shootdowns (vmx/vpid_model.cpp, knhv_vpid.h).       *)
(*                                                                         *)
(* The file is a library of pure transitions on caller-owned records: a    *)
(* table of leases that gives VPID numbers to owners, and shootdown states *)
(* that track one INVVPID broadcast each.  The module adds what the        *)
(* library is for: the translations the processors cache under a VPID.     *)
(*                                                                         *)
(* External, with the discipline the tests follow (tests/vpid_model_test): *)
(* an owner runs guests only under an Active lease; a processor executes   *)
(* INVVPID before it acknowledges; a state object is begun again only when *)
(* no acknowledgement for it is still under way (AcknowledgeShootdown gets *)
(* no request id and could not tell); every allocation gets a generation   *)
(* of its own, and a shootdown is requested for one that was handed out    *)
(* (for a later one it could serve a tenure that begins after it); a lease *)
(* is reclaimed with a shootdown that was begun while its table entry was  *)
(* retiring and aimed at every processor (serves).                         *)
(* The library can check none of these; that the shootdown is of the same  *)
(* tenure of the entry is what its generation checks are for.              *)
(***************************************************************************)
EXTENDS Integers, FiniteSets

CONSTANTS
  Slots,        \* entries of the caller's lease table
  Downs,        \* shootdown state objects
  Cpus,         \* processors (target_cpu_mask is a subset)
  VpidMaximum,  \* kVpidMaximum
  MaxGeneration,\* bound of the generations the owners issue
  Deadline      \* the deadline_tsc of every request

ASSUME VpidConstants ==
  /\ VpidMaximum \in Nat \ {0}
  /\ MaxGeneration \in Nat \ {0}
  /\ Deadline \in Nat \ {0}

VARIABLES
  lease,   \* the lease table
  issued,  \* the last generation an owner used
  down,    \* the shootdown states
  serves,  \* the retiring leases each shootdown was begun for (caller)
  owes,    \* per processor, the shootdowns it has flushed for but not yet acknowledged
  tlb      \* per processor, the VPIDs with cached translations, global ones apart

vpidVars == <<lease, issued, down, serves, owes, tlb>>

Vpids == 1 .. VpidMaximum
Generations == 1 .. MaxGeneration
ShootdownTypes ==
  {"SingleAddress", "SingleContext", "AllContext", "SingleContextRetainGlobals"}
ShootdownFlags == {"AllowAllContext", "RetainGlobals"}
LeaseStates == {"Free", "Active", "Retiring", "Quarantined"}
ShootdownStates == {"Idle", "Pending", "Completed", "TimedOut", "Quarantined"}
NoType == "SingleAddress"    \* the type field of a zeroed state: the value 0

FreeLease == [state |-> "Free", vpid |-> 0, generation |-> 0]
IdleShootdown ==
  [state |-> "Idle", type |-> NoType, vpid |-> 0, generation |-> 0,
   target |-> {}, acknowledged |-> {}]

IsContextShootdown(type) == type \in {"SingleContext", "SingleContextRetainGlobals"}

IsShootdownPayloadValid(type, v) ==
  IF type = "AllContext" THEN v = 0 ELSE v \in Vpids

IsVpidLeaseValid(l) ==
  IF l.state = "Free" THEN l = FreeLease
  ELSE l.vpid \in Vpids /\ l.generation # 0

IsShootdownRequestValid(r) ==
  /\ r.generation # 0 /\ r.target # {}
  /\ IsShootdownPayloadValid(r.type, r.vpid)
  /\ CASE r.type = "AllContext" -> r.flags = {"AllowAllContext"}
       [] r.type = "SingleContextRetainGlobals" -> r.flags = {"RetainGlobals"}
       [] OTHER -> r.flags = {}

IsShootdownStateValid(d) ==
  IF d.state = "Idle" THEN d = IdleShootdown
  ELSE /\ d.generation # 0 /\ d.target # {}
       /\ IsShootdownPayloadValid(d.type, d.vpid)
       /\ d.acknowledged \subseteq d.target
       /\ d.state = "Completed" => d.acknowledged = d.target
       /\ d.state = "TimedOut" => d.acknowledged # d.target

ShootdownCoversVpid(d, v) ==
  /\ d.state = "Completed"
  /\ d.type = "AllContext" \/ (IsContextShootdown(d.type) /\ d.vpid = v)

IsVpidUsed(v) == \E s \in Slots : lease[s].state # "Free" /\ lease[s].vpid = v

----------------------------------------------------------------------------
(* Leases. *)

NoDuplicateLease ==
  \A s, p \in Slots :
    (s # p /\ lease[s].state # "Free" /\ lease[p].state # "Free") =>
      lease[s].vpid # lease[p].vpid

\* The lowest number not in use, stored by the caller in a free table entry.
\* The refusals (invalid or conflicting table, exhaustion) leave the output
\* free and the table unchanged.  Each request brings a new generation.
AllocateVpid(s, max) ==
  /\ \A p \in Slots : IsVpidLeaseValid(lease[p])
  /\ NoDuplicateLease
  /\ lease[s].state = "Free"
  /\ \E v \in 1 .. max :
       /\ ~IsVpidUsed(v)
       /\ \A w \in 1 .. v - 1 : IsVpidUsed(w)
       /\ lease' = [lease EXCEPT ![s] =
            [state |-> "Active", vpid |-> v, generation |-> issued + 1]]
  /\ issued < MaxGeneration /\ issued' = issued + 1
  /\ UNCHANGED <<down, serves, owes, tlb>>

\* Mutant: any lease can be retired, a quarantined one too.
BeginVpidRetireAny(s, generation) ==
  /\ IsVpidLeaseValid(lease[s]) /\ generation # 0
  /\ lease[s].generation = generation
  /\ lease' = [lease EXCEPT ![s].state = "Retiring"]
  /\ UNCHANGED <<issued, down, serves, owes, tlb>>

BeginVpidRetire(s, generation) ==
  /\ IsVpidLeaseValid(lease[s]) /\ generation # 0
  /\ lease[s].generation = generation /\ lease[s].state = "Active"
  /\ lease' = [lease EXCEPT ![s].state = "Retiring"]
  /\ UNCHANGED <<issued, down, serves, owes, tlb>>

ReclaimVpid(s, generation, d) ==
  /\ s \in serves[d]
  /\ IsVpidLeaseValid(lease[s]) /\ generation # 0
  /\ lease[s].state = "Retiring" /\ lease[s].generation = generation
  /\ IsShootdownStateValid(down[d]) /\ down[d].generation = generation
  /\ down[d].acknowledged = down[d].target
  /\ ShootdownCoversVpid(down[d], lease[s].vpid)
  /\ lease' = [lease EXCEPT ![s] = FreeLease]
  /\ UNCHANGED <<issued, down, serves, owes, tlb>>

QuarantineVpid(s, generation) ==
  /\ IsVpidLeaseValid(lease[s]) /\ generation # 0
  /\ lease[s].generation = generation
  /\ lease[s].state \in {"Active", "Retiring"}
  /\ lease' = [lease EXCEPT ![s].state = "Quarantined"]
  /\ UNCHANGED <<issued, down, serves, owes, tlb>>

----------------------------------------------------------------------------
(* Shootdowns. *)

\* The state is zeroed before the request is looked at: a refused request
\* leaves the object Idle whatever it was.
BeginShootdown(d, r) ==
  /\ \A c \in Cpus : d \notin owes[c]
  /\ IsShootdownRequestValid(r) => r.generation <= issued
  /\ down' = [down EXCEPT ![d] =
       IF IsShootdownRequestValid(r)
       THEN [state |-> "Pending", type |-> r.type, vpid |-> r.vpid,
             generation |-> r.generation, target |-> r.target, acknowledged |-> {}]
       ELSE IdleShootdown]
  /\ serves' = [serves EXCEPT ![d] =
       IF r.target = Cpus THEN {s \in Slots : lease[s].state = "Retiring"} ELSE {}]
  /\ UNCHANGED <<lease, issued, owes, tlb>>

AcknowledgeShootdown(d, c) ==
  /\ IsShootdownStateValid(down[d]) /\ down[d].state = "Pending"
  /\ c \in down[d].target
  /\ down' = [down EXCEPT ![d].acknowledged = @ \cup {c}]

\* A shootdown past its deadline times out, whatever was acknowledged.
CompleteShootdown(d, now) ==
  /\ IsShootdownStateValid(down[d]) /\ down[d].state = "Pending"
  /\ \/ /\ now > Deadline
        /\ down' = [down EXCEPT ![d].state = "TimedOut"]
     \/ /\ now <= Deadline
        /\ down[d].acknowledged = down[d].target
        /\ down' = [down EXCEPT ![d].state = "Completed"]
  /\ UNCHANGED <<lease, issued, serves, owes, tlb>>

QuarantineShootdown(d) ==
  /\ IsShootdownStateValid(down[d])
  /\ down[d].state \in {"Pending", "TimedOut"}
  /\ down' = [down EXCEPT ![d].state = "Quarantined"]
  /\ UNCHANGED <<lease, issued, serves, owes, tlb>>

----------------------------------------------------------------------------
(* The processors, external: what a guest run caches, what INVVPID drops.  *)

RunGuest(c, s) ==
  /\ lease[s].state = "Active"
  /\ tlb' = [tlb EXCEPT ![c] = @ \cup {lease[s].vpid}]
  /\ UNCHANGED <<lease, issued, down, serves, owes>>

\* Single-address invalidation drops one of the translations of the VPID;
\* that it may leave the others is all that matters here.
Invalidated(d) ==
  CASE down[d].type = "AllContext" -> Vpids
    [] IsContextShootdown(down[d].type) -> {down[d].vpid}
    [] OTHER -> {}

Invvpid(c, d) ==
  /\ down[d].state = "Pending" /\ c \in down[d].target
  /\ d \notin owes[c] /\ c \notin down[d].acknowledged
  /\ tlb' = [tlb EXCEPT ![c] = @ \ Invalidated(d)]
  /\ owes' = [owes EXCEPT ![c] = @ \cup {d}]
  /\ UNCHANGED <<lease, issued, down, serves>>

\* The processor acknowledges; a late one is refused.
CpuAcknowledges(c, d) ==
  /\ d \in owes[c]
  /\ owes' = [owes EXCEPT ![c] = @ \ {d}]
  /\ IF down[d].state = "Pending" THEN AcknowledgeShootdown(d, c) ELSE UNCHANGED down
  /\ UNCHANGED <<lease, issued, serves, tlb>>

----------------------------------------------------------------------------
AllRequests ==
  [type : ShootdownTypes, flags : SUBSET ShootdownFlags, vpid : 0 .. VpidMaximum,
   generation : Generations, target : SUBSET Cpus]
ValidRequests == {r \in AllRequests : IsShootdownRequestValid(r)}

\* All refused requests have one effect, so one stands for them.
Requests == ValidRequests \cup {CHOOSE r \in AllRequests : r \notin ValidRequests}

VpidInit ==
  /\ lease = [s \in Slots |-> FreeLease] /\ issued = 0
  /\ down = [d \in Downs |-> IdleShootdown]
  /\ serves = [d \in Downs |-> {}]
  /\ owes = [c \in Cpus |-> {}]
  /\ tlb = [c \in Cpus |-> {}]

VpidNext ==
  \/ \E s \in Slots, max \in Vpids : AllocateVpid(s, max)
  \/ \E s \in Slots, generation \in Generations :
       \/ BeginVpidRetire(s, generation)
       \/ QuarantineVpid(s, generation)
       \/ \E d \in Downs : ReclaimVpid(s, generation, d)
  \/ \E d \in Downs :
       \/ \E r \in Requests : BeginShootdown(d, r)
       \/ \E now \in Deadline .. Deadline + 1 : CompleteShootdown(d, now)
       \/ QuarantineShootdown(d)
       \/ \E c \in Cpus : Invvpid(c, d) \/ CpuAcknowledges(c, d)
  \/ \E c \in Cpus, s \in Slots : RunGuest(c, s)

VpidSpec == VpidInit /\ [][VpidNext]_vpidVars

----------------------------------------------------------------------------
\* The records keep their shapes, and every lease the library writes is one
\* IsVpidLeaseValid accepts: a table it once refused would block allocation
\* for good.
VpidTypeOK ==
  /\ lease \in [Slots -> [state : LeaseStates, vpid : 0 .. VpidMaximum,
                          generation : {0} \cup Generations]]
  /\ issued \in 0 .. MaxGeneration
  /\ down \in [Downs -> [state : ShootdownStates, type : ShootdownTypes,
                         vpid : 0 .. VpidMaximum, generation : {0} \cup Generations,
                         target : SUBSET Cpus, acknowledged : SUBSET Cpus]]
  /\ serves \in [Downs -> SUBSET Slots]
  /\ owes \in [Cpus -> SUBSET Downs]
  /\ tlb \in [Cpus -> SUBSET Vpids]
  /\ \A s \in Slots : IsVpidLeaseValid(lease[s])

\* AllocateVpid: two live leases never share a number, whatever retirements,
\* quarantines and reclaims happened between the allocations.
LiveVpidsUnique == NoDuplicateLease

\* ReclaimVpid: a number that no lease holds has no translation left on any
\* processor except global ones (which a RetainGlobals shootdown keeps by
\* design), so its next owner starts with an empty context.
FreeVpidsAreFlushed ==
  \A c \in Cpus, v \in Vpids : v \in tlb[c] => IsVpidUsed(v)

\* QuarantineVpid: a quarantined lease is final, so its number never
\* circulates again.
QuarantineVpidIsFinal ==
  [][\A s \in Slots : lease[s].state = "Quarantined" => lease'[s] = lease[s]]_vpidVars

\* CompleteShootdown and AcknowledgeShootdown: a shootdown that is not late
\* keeps a state the library itself accepts, and Completed is only reached
\* with every processor of the mask past its INVVPID.
ShootdownsStayUsable ==
  \A d \in Downs :
    /\ down[d].state # "TimedOut" => IsShootdownStateValid(down[d])
    /\ down[d].state = "Completed" => \A c \in Cpus : d \notin owes[c]

\* Between BeginShootdown and ReclaimVpid: while the entry of a retiring lease still
\* has the generation that a shootdown begun for it names, every processor that has
\* flushed is rid of the lease's number.  An entry that was given out again since
\* has a later generation, so that the shootdown cannot be taken for one of its own.
ShootdownsServeTheirTenure ==
  /\ \A s \in Slots : lease[s].generation <= issued
  /\ \A d \in Downs : down[d].generation <= issued
  /\ \A d \in Downs, c \in Cpus : d \in owes[c] => c \in down[d].target \ down[d].acknowledged
  /\ \A d \in Downs : \A s \in serves[d] :
       lease[s].state # "Free" /\ lease[s].generation = down[d].generation =>
         /\ lease[s].state # "Active" /\ down[d].target = Cpus
         /\ \A c \in Cpus :
              (c \in down[d].acknowledged \/ d \in owes[c]) /\ lease[s].vpid \in Invalidated(d) =>
                lease[s].vpid \notin tlb[c]

\* QuarantineShootdown, as the test "timed-out shootdown is quarantined before
\* reuse" says: a shootdown that CompleteShootdown timed out can be
\* quarantined.
TimedOutCanBeQuarantined ==
  \A d \in Downs : down[d].state = "TimedOut" => IsShootdownStateValid(down[d])

\* vpid_model.cpp and its shootdowns: live leases never share a number, a number comes
\* back only flushed on every processor, a shootdown that is not late stays
\* usable, and a quarantined lease is final.
VpidsAreExclusive ==
  /\ []VpidTypeOK
  /\ []LiveVpidsUnique
  /\ []FreeVpidsAreFlushed
  /\ []ShootdownsStayUsable
  /\ []ShootdownsServeTheirTenure
  /\ QuarantineVpidIsFinal
=============================================================================
