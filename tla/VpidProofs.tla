----------------------------- MODULE VpidProofs -----------------------------
(***************************************************************************)
(* Proofs about VPID leases (Vpid.tla), for every number of processors,    *)
(* table entries, shootdowns under way and generations.  The invariants    *)
(* are inductive together: that a number comes back flushed rests on what  *)
(* a shootdown has done for the lease it serves, that on the numbers being *)
(* distinct and the generations fresh.                                     *)
(***************************************************************************)
EXTENDS Vpid, FiniteSetTheorems, TLAPS

VpidInv ==
    /\ VpidTypeOK /\ LiveVpidsUnique /\ FreeVpidsAreFlushed /\ ShootdownsStayUsable
    /\ ShootdownsServeTheirTenure

LeaseRecords == [state : LeaseStates, vpid : 0 .. VpidMaximum, generation : {0} \cup Generations]
DownRecords == [state : ShootdownStates, type : ShootdownTypes, vpid : 0 .. VpidMaximum,
                generation : {0} \cup Generations, target : SUBSET Cpus,
                acknowledged : SUBSET Cpus]

\* What VpidInv says of one shootdown and one lease.
DownUsable(d) ==
    /\ down[d].generation <= issued
    /\ down[d].state # "TimedOut" => IsShootdownStateValid(down[d])
    /\ \A c \in Cpus : d \in owes[c] => c \in down[d].target \ down[d].acknowledged
Serves(d, s) ==
    lease[s].state # "Free" /\ lease[s].generation = down[d].generation =>
      /\ lease[s].state # "Active" /\ down[d].target = Cpus
      /\ \A c \in Cpus :
           (c \in down[d].acknowledged \/ d \in owes[c]) /\ lease[s].vpid \in Invalidated(d) =>
             lease[s].vpid \notin tlb[c]

\* The parts of VpidInv that the step lemmas work on.
LEMMA VpidParts ==
    VpidInv <=> /\ VpidTypeOK /\ NoDuplicateLease /\ FreeVpidsAreFlushed
                /\ \A d \in Downs : DownUsable(d)
                /\ \A s \in Slots : lease[s].generation <= issued
                /\ \A d \in Downs : \A s \in serves[d] : Serves(d, s)
<1> DEFINE parts == /\ VpidTypeOK /\ NoDuplicateLease /\ FreeVpidsAreFlushed
                    /\ \A d \in Downs : DownUsable(d)
                    /\ \A s \in Slots : lease[s].generation <= issued
                    /\ \A d \in Downs : \A s \in serves[d] : Serves(d, s)
<1>1. VpidInv => parts
    BY Zenon DEF VpidInv, LiveVpidsUnique, ShootdownsStayUsable, ShootdownsServeTheirTenure,
       DownUsable, Serves
<1>2. ASSUME parts PROVE VpidInv
    <2>1. ShootdownsServeTheirTenure
        BY <1>2, Zenon DEF ShootdownsServeTheirTenure, DownUsable, Serves
    <2>2. ASSUME NEW d \in Downs, down[d].state = "Completed", NEW c \in Cpus
          PROVE  d \notin owes[c]
        <3>1. DownUsable(d)
            BY <1>2, Zenon
        <3>2. down[d].acknowledged = down[d].target
            BY <2>2, <3>1, Zenon DEF DownUsable, IsShootdownStateValid
        <3> QED BY <3>1, <3>2, Zenon DEF DownUsable
    <2>3. ShootdownsStayUsable
        BY <1>2, <2>2, Zenon DEF ShootdownsStayUsable, DownUsable
    <2> QED BY <1>2, <2>1, <2>3, Zenon DEF VpidInv, LiveVpidsUnique
<1> QED BY <1>1, <1>2, Zenon

\* The same of the state a step leads to.
LEMMA VpidAgain ==
    ASSUME VpidTypeOK', NoDuplicateLease', FreeVpidsAreFlushed',
           \A d \in Downs : DownUsable(d)',
           \A s \in Slots : lease'[s].generation <= issued',
           \A d \in Downs : \A s \in serves'[d] : Serves(d, s)'
    PROVE  VpidInv'
<1>1. ShootdownsServeTheirTenure'
    BY Zenon DEF ShootdownsServeTheirTenure, DownUsable, Serves
<1>2. ASSUME NEW d \in Downs, down'[d].state = "Completed", NEW c \in Cpus
      PROVE  d \notin owes'[c]
    <2>1. down'[d].acknowledged = down'[d].target
        BY <1>2, Zenon DEF DownUsable, IsShootdownStateValid
    <2> QED BY <2>1, Zenon DEF DownUsable
<1>3. ShootdownsStayUsable'
    BY <1>2, Zenon DEF ShootdownsStayUsable, DownUsable
<1> QED BY <1>1, <1>3, Zenon DEF VpidInv, LiveVpidsUnique

\* What INVVPID drops under a shootdown that covers whole contexts.
LEMMA InvalidatedFacts ==
    ASSUME NEW d
    PROVE  /\ down[d].type = "AllContext" => Invalidated(d) = Vpids
           /\ IsContextShootdown(down[d].type) => Invalidated(d) = {down[d].vpid}
<1>1. ~(down[d].type = "AllContext" /\ IsContextShootdown(down[d].type))
    BY Zenon DEF IsContextShootdown
<1> QED BY <1>1, Zenon DEF Invalidated

\* It depends on the type and the number of the shootdown only.
LEMMA InvalidatedKept ==
    ASSUME NEW d, down'[d].type = down[d].type, down'[d].vpid = down[d].vpid
    PROVE  Invalidated(d)' = Invalidated(d)
BY Zenon DEF Invalidated

\* The requests callers make are well formed.
LEMMA RequestFacts ==
    ASSUME NEW r \in Requests
    PROVE  /\ r \in AllRequests
           /\ IsShootdownRequestValid(r) =>
                r.generation # 0 /\ r.target # {} /\ IsShootdownPayloadValid(r.type, r.vpid)
<1> DEFINE none == [type |-> "AllContext", flags |-> {}, vpid |-> 0, generation |-> 1,
                    target |-> {}]
<1>1. none \in AllRequests
    BY VpidConstants DEF AllRequests, ShootdownTypes, Generations
<1>2. ~IsShootdownRequestValid(none)
    BY Zenon DEF IsShootdownRequestValid
<1>3. \E q \in AllRequests : q \notin ValidRequests
    BY <1>1, <1>2, Zenon DEF ValidRequests
<1>4. (CHOOSE q \in AllRequests : q \notin ValidRequests) \in AllRequests
    BY <1>3, Zenon
<1>5. r \in AllRequests
    BY <1>4, Zenon DEF Requests, ValidRequests
<1>6. IsShootdownRequestValid(r) =>
        r.generation # 0 /\ r.target # {} /\ IsShootdownPayloadValid(r.type, r.vpid)
    BY Zenon DEF IsShootdownRequestValid
<1> QED BY <1>5, <1>6, Zenon

\* At first no number is given out, and no shootdown was begun.
LEMMA VpidInitHolds == VpidInit => VpidInv
<1> SUFFICES ASSUME VpidInit PROVE VpidInv
    BY Zenon
<1>1. \A s \in Slots : lease[s] = FreeLease
    BY Zenon DEF VpidInit
<1>2. \A d \in Downs : down[d] = IdleShootdown /\ serves[d] = {}
    BY Zenon DEF VpidInit
<1>3. FreeLease \in LeaseRecords /\ IdleShootdown \in DownRecords
    BY VpidConstants
       DEF FreeLease, IdleShootdown, LeaseRecords, DownRecords, LeaseStates, ShootdownStates,
           ShootdownTypes, NoType
<1>4. VpidTypeOK
    <2>1. lease \in [Slots -> LeaseRecords] /\ down \in [Downs -> DownRecords]
        BY <1>3, Zenon DEF VpidInit
    <2>2. issued \in 0 .. MaxGeneration
        BY VpidConstants DEF VpidInit
    <2>3. \A s \in Slots : IsVpidLeaseValid(lease[s])
        BY <1>1 DEF IsVpidLeaseValid, FreeLease
    <2> QED BY <2>1, <2>2, <2>3, Zenon DEF VpidInit, VpidTypeOK, LeaseRecords, DownRecords
<1>5. FreeLease.state = "Free" /\ FreeLease.generation = 0
    BY Zenon DEF FreeLease
<1>6. /\ IdleShootdown.state = "Idle" /\ IdleShootdown.generation = 0
    BY Zenon DEF IdleShootdown
<1>7. NoDuplicateLease /\ FreeVpidsAreFlushed
    BY <1>1, <1>5, Zenon DEF NoDuplicateLease, FreeVpidsAreFlushed, VpidInit
<1>8. \A d \in Downs : DownUsable(d)
    BY <1>2, <1>6 DEF DownUsable, IsShootdownStateValid, VpidInit
<1>9. \A s \in Slots : lease[s].generation <= issued
    BY <1>1, <1>5 DEF VpidInit
<1> QED BY <1>2, <1>4, <1>7, <1>8, <1>9, VpidParts, Zenon

\* BeginVpidRetire and QuarantineVpid: the lease keeps its number and generation.
LEMMA LeaseMoves ==
    ASSUME VpidInv, NEW s \in Slots, lease[s].state \in {"Active", "Retiring"},
           NEW to \in {"Retiring", "Quarantined"},
           lease' = [lease EXCEPT ![s].state = to],
           UNCHANGED <<issued, down, serves, owes, tlb>>
    PROVE  VpidInv'
<1>1. /\ VpidTypeOK /\ NoDuplicateLease /\ FreeVpidsAreFlushed
      /\ \A d \in Downs : DownUsable(d)
      /\ \A p \in Slots : lease[p].generation <= issued
      /\ \A d \in Downs : \A p \in serves[d] : Serves(d, p)
    BY VpidParts, Zenon
<1>2. lease \in [Slots -> LeaseRecords]
    BY <1>1, Zenon DEF VpidTypeOK, LeaseRecords
<1>3. /\ lease' \in [Slots -> LeaseRecords]
      /\ lease'[s].state = to /\ lease'[s].vpid = lease[s].vpid
      /\ lease'[s].generation = lease[s].generation
      /\ \A p \in Slots \ {s} : lease'[p] = lease[p]
    BY <1>2, Zenon DEF LeaseRecords, LeaseStates
<1>4. \A p \in Slots : /\ lease'[p].vpid = lease[p].vpid
                       /\ lease'[p].generation = lease[p].generation
                       /\ lease'[p].state = "Free" <=> lease[p].state = "Free"
                       /\ lease'[p].state = "Active" => lease[p].state = "Active"
    BY <1>3, Zenon
<1>5. IsVpidLeaseValid(lease[s])
    BY <1>1, Zenon DEF VpidTypeOK
<1>6. VpidTypeOK'
    <2>1. IsVpidLeaseValid(lease[s])'
        BY <1>3, <1>5, Zenon DEF IsVpidLeaseValid
    <2>2. \A p \in Slots : IsVpidLeaseValid(lease[p])'
        BY <1>1, <1>3, <2>1, Zenon DEF VpidTypeOK
    <2> QED BY <1>1, <1>3, <2>2, Zenon DEF VpidTypeOK, LeaseRecords
<1>7. NoDuplicateLease'
    BY <1>1, <1>4 DEF NoDuplicateLease
<1>8. FreeVpidsAreFlushed'
    BY <1>1, <1>4 DEF FreeVpidsAreFlushed, IsVpidUsed
<1>9. \A d \in Downs : DownUsable(d)'
    BY <1>1, Zenon DEF DownUsable
<1>10. ASSUME NEW d \in Downs, NEW p \in serves'[d] PROVE Serves(d, p)'
    <2>1. p \in Slots /\ Serves(d, p) /\ Invalidated(d)' = Invalidated(d)
        BY <1>1, <1>10, InvalidatedKept, Zenon DEF VpidTypeOK
    <2> QED BY <1>4, <2>1, Zenon DEF Serves
<1>11. \A p \in Slots : lease'[p].generation <= issued'
    BY <1>1, <1>4, Zenon
<1> QED BY <1>6, <1>7, <1>8, <1>9, <1>10, <1>11, VpidAgain, Zenon

\* AllocateVpid: a number no lease has, under a generation no shootdown names.
LEMMA AllocateKeeps ==
    ASSUME VpidInv, NEW s \in Slots, NEW max \in Vpids, AllocateVpid(s, max)
    PROVE  VpidInv'
<1>1. /\ VpidTypeOK /\ NoDuplicateLease /\ FreeVpidsAreFlushed
      /\ \A d \in Downs : DownUsable(d)
      /\ \A p \in Slots : lease[p].generation <= issued
      /\ \A d \in Downs : \A p \in serves[d] : Serves(d, p)
    BY VpidParts, Zenon
<1>2. lease \in [Slots -> LeaseRecords] /\ issued \in Nat /\ issued' \in Nat
      /\ issued' = issued + 1 /\ issued' \in 0 .. MaxGeneration /\ issued' \in Generations
    BY <1>1, VpidConstants DEF VpidTypeOK, LeaseRecords, AllocateVpid, Generations
<1>3. PICK v \in 1 .. max :
        /\ ~IsVpidUsed(v)
        /\ lease' = [lease EXCEPT ![s] =
             [state |-> "Active", vpid |-> v, generation |-> issued + 1]]
    BY Zenon DEF AllocateVpid
<1>4. lease[s].state = "Free" /\ UNCHANGED <<down, serves, owes, tlb>>
    BY Zenon DEF AllocateVpid
<1>5. v \in Vpids
    BY VpidConstants DEF Vpids
<1>6. /\ lease'[s] = [state |-> "Active", vpid |-> v, generation |-> issued']
      /\ lease'[s].state = "Active" /\ lease'[s].vpid = v /\ lease'[s].generation = issued'
      /\ lease'[s] \in LeaseRecords
      /\ \A p \in Slots \ {s} : lease'[p] = lease[p]
    BY <1>2, <1>3, <1>5 DEF LeaseRecords, LeaseStates, Vpids
<1>7. VpidTypeOK'
    <2>1. IsVpidLeaseValid(lease[s])'
        BY <1>2, <1>5, <1>6 DEF IsVpidLeaseValid
    <2>2. \A p \in Slots : IsVpidLeaseValid(lease[p])'
        BY <1>1, <1>6, <2>1, Zenon DEF VpidTypeOK
    <2>3. lease' \in [Slots -> LeaseRecords]
        BY <1>2, <1>3, <1>6, Zenon
    <2> QED BY <1>1, <1>2, <1>4, <2>2, <2>3, Zenon DEF VpidTypeOK, LeaseRecords
<1>8. NoDuplicateLease'
    BY <1>1, <1>3, <1>6 DEF NoDuplicateLease, IsVpidUsed
<1>9. FreeVpidsAreFlushed'
    BY <1>1, <1>4, <1>6 DEF FreeVpidsAreFlushed, IsVpidUsed
<1>10. \A d \in Downs : down[d].generation \in Nat /\ down[d].generation <= issued
    BY <1>1 DEF VpidTypeOK, DownUsable, Generations
<1>11. ASSUME NEW d \in Downs PROVE DownUsable(d)'
    BY <1>1, <1>2, <1>4, <1>10 DEF DownUsable
<1>12. ASSUME NEW d \in Downs, NEW p \in serves'[d] PROVE Serves(d, p)'
    <2>1. p \in Slots /\ Serves(d, p) /\ Invalidated(d)' = Invalidated(d)
        BY <1>1, <1>4, <1>12, InvalidatedKept, Zenon DEF VpidTypeOK
    <2>2. CASE p = s
        <3>1. lease'[p].generation # down'[d].generation
            BY <1>2, <1>4, <1>6, <1>10, <2>2
        <3> QED BY <3>1, Zenon DEF Serves
    <2>3. CASE p # s
        BY <1>4, <1>6, <2>1, <2>3, Zenon DEF Serves
    <2> QED BY <2>2, <2>3, Zenon
<1>13. ASSUME NEW p \in Slots PROVE lease'[p].generation <= issued'
    <2>1. lease[p].generation \in Nat /\ lease[p].generation <= issued
        BY <1>1 DEF VpidTypeOK, Generations
    <2> QED BY <1>2, <1>6, <2>1
<1> QED BY <1>7, <1>8, <1>9, <1>11, <1>12, <1>13, VpidAgain, Zenon

\* ReclaimVpid: the shootdown is of this tenure, so every processor is rid of the number.
LEMMA ReclaimKeeps ==
    ASSUME VpidInv, NEW s \in Slots, NEW g \in Generations, NEW d \in Downs, ReclaimVpid(s, g, d)
    PROVE  VpidInv'
<1>1. /\ VpidTypeOK /\ NoDuplicateLease /\ FreeVpidsAreFlushed
      /\ \A e \in Downs : DownUsable(e)
      /\ \A p \in Slots : lease[p].generation <= issued
      /\ \A e \in Downs : \A p \in serves[e] : Serves(e, p)
    BY VpidParts, Zenon
<1>2. /\ lease[s].state = "Retiring" /\ lease[s].generation = down[d].generation
      /\ s \in serves[d] /\ down[d].acknowledged = down[d].target
      /\ ShootdownCoversVpid(down[d], lease[s].vpid)
      /\ lease' = [lease EXCEPT ![s] = FreeLease] /\ UNCHANGED <<issued, down, serves, owes, tlb>>
    BY Zenon DEF ReclaimVpid
<1>3. lease[s].vpid \in Vpids
    BY <1>1, <1>2, Zenon DEF VpidTypeOK, IsVpidLeaseValid
<1>4. lease[s].vpid \in Invalidated(d)
    BY <1>2, <1>3, InvalidatedFacts, Zenon DEF ShootdownCoversVpid
<1>5. \A c \in Cpus : lease[s].vpid \notin tlb[c]
    BY <1>1, <1>2, <1>4, Zenon DEF Serves
<1>6. lease \in [Slots -> LeaseRecords] /\ issued \in Nat
    BY <1>1 DEF VpidTypeOK, LeaseRecords
<1>7. FreeLease \in LeaseRecords /\ FreeLease.state = "Free" /\ FreeLease.generation = 0
    BY VpidConstants DEF FreeLease, LeaseRecords, LeaseStates
<1>8. /\ lease' \in [Slots -> LeaseRecords] /\ lease'[s] = FreeLease
      /\ \A p \in Slots \ {s} : lease'[p] = lease[p]
    BY <1>2, <1>6, <1>7, Zenon
<1>9. VpidTypeOK'
    <2>1. \A p \in Slots : IsVpidLeaseValid(lease[p])'
        BY <1>1, <1>7, <1>8, Zenon DEF VpidTypeOK, IsVpidLeaseValid
    <2> QED BY <1>1, <1>2, <1>8, <2>1, Zenon DEF VpidTypeOK, LeaseRecords
<1>10. NoDuplicateLease'
    BY <1>1, <1>7, <1>8, Zenon DEF NoDuplicateLease
<1>11. FreeVpidsAreFlushed'
    BY <1>1, <1>2, <1>5, <1>7, <1>8 DEF FreeVpidsAreFlushed, IsVpidUsed
<1>12. \A e \in Downs : DownUsable(e)'
    BY <1>1, <1>2, Zenon DEF DownUsable
<1>13. ASSUME NEW e \in Downs, NEW p \in serves'[e] PROVE Serves(e, p)'
    <2>1. p \in Slots /\ Serves(e, p) /\ Invalidated(e)' = Invalidated(e)
        BY <1>1, <1>2, <1>13, InvalidatedKept, Zenon DEF VpidTypeOK
    <2> QED BY <1>2, <1>7, <1>8, <2>1, Zenon DEF Serves
<1>14. \A p \in Slots : lease'[p].generation <= issued'
    BY <1>1, <1>2, <1>6, <1>7, <1>8
<1> QED BY <1>9, <1>10, <1>11, <1>12, <1>13, <1>14, VpidAgain, Zenon

\* RunGuest caches under a live lease, which no shootdown serves any more.
LEMMA RunKeeps ==
    ASSUME VpidInv, NEW c \in Cpus, NEW s \in Slots, RunGuest(c, s)
    PROVE  VpidInv'
<1>1. /\ VpidTypeOK /\ NoDuplicateLease /\ FreeVpidsAreFlushed
      /\ \A d \in Downs : DownUsable(d)
      /\ \A p \in Slots : lease[p].generation <= issued
      /\ \A d \in Downs : \A p \in serves[d] : Serves(d, p)
    BY VpidParts, Zenon
<1>2. /\ lease[s].state = "Active" /\ tlb' = [tlb EXCEPT ![c] = tlb[c] \cup {lease[s].vpid}]
      /\ UNCHANGED <<lease, issued, down, serves, owes>>
    BY Zenon DEF RunGuest
<1>3. lease[s].vpid \in Vpids
    BY <1>1, <1>2, Zenon DEF VpidTypeOK, IsVpidLeaseValid
<1>4. /\ tlb' \in [Cpus -> SUBSET Vpids] /\ tlb'[c] = tlb[c] \cup {lease[s].vpid}
      /\ \A e \in Cpus \ {c} : tlb'[e] = tlb[e]
    BY <1>1, <1>2, <1>3, Zenon DEF VpidTypeOK
<1>5. VpidTypeOK'
    BY <1>1, <1>2, <1>4, Zenon DEF VpidTypeOK
<1>6. NoDuplicateLease' /\ \A p \in Slots : lease'[p].generation <= issued'
    BY <1>1, <1>2, Zenon DEF NoDuplicateLease
<1>7. FreeVpidsAreFlushed'
    BY <1>1, <1>2, <1>4, Zenon DEF FreeVpidsAreFlushed, IsVpidUsed
<1>8. \A d \in Downs : DownUsable(d)'
    BY <1>1, <1>2, Zenon DEF DownUsable
<1>9. ASSUME NEW d \in Downs, NEW p \in serves'[d] PROVE Serves(d, p)'
    <2>1. p \in Slots /\ Serves(d, p) /\ Invalidated(d)' = Invalidated(d)
        BY <1>1, <1>2, <1>9, InvalidatedKept, Zenon DEF VpidTypeOK
    <2>2. lease[p].state # "Free" /\ lease[p].state # "Active" => lease[p].vpid # lease[s].vpid
        BY <1>1, <1>2, <2>1, Zenon DEF NoDuplicateLease
    <2> QED BY <1>2, <1>4, <2>1, <2>2, Zenon DEF Serves
<1> QED BY <1>5, <1>6, <1>7, <1>8, <1>9, VpidAgain, Zenon

\* A step that moves one shootdown and no lease keeps the rest.
LEMMA DownMoves ==
    ASSUME VpidInv, NEW d \in Downs, UNCHANGED <<lease, issued, tlb>>,
           down' \in [Downs -> DownRecords], serves' \in [Downs -> SUBSET Slots],
           owes' \in [Cpus -> SUBSET Downs],
           \A e \in Downs \ {d} : /\ down'[e] = down[e] /\ serves'[e] = serves[e]
                                  /\ \A c \in Cpus : e \in owes'[c] <=> e \in owes[c],
           DownUsable(d)', \A s \in serves'[d] : Serves(d, s)'
    PROVE  VpidInv'
<1>1. /\ VpidTypeOK /\ NoDuplicateLease /\ FreeVpidsAreFlushed
      /\ \A e \in Downs : DownUsable(e)
      /\ \A s \in Slots : lease[s].generation <= issued
      /\ \A e \in Downs : \A s \in serves[e] : Serves(e, s)
    BY VpidParts, Zenon
<1>2. VpidTypeOK'
    BY <1>1, Zenon DEF VpidTypeOK, DownRecords
<1>3. NoDuplicateLease' /\ FreeVpidsAreFlushed' /\ \A s \in Slots : lease'[s].generation <= issued'
    BY <1>1, Zenon DEF NoDuplicateLease, FreeVpidsAreFlushed, IsVpidUsed
<1>4. ASSUME NEW e \in Downs PROVE DownUsable(e)'
    <2>1. CASE e = d
        BY <2>1, Zenon
    <2>2. CASE e # d
        BY <1>1, <2>2, Zenon DEF DownUsable
    <2> QED BY <2>1, <2>2, Zenon
<1>5. ASSUME NEW e \in Downs, NEW s \in serves'[e] PROVE Serves(e, s)'
    <2>1. CASE e = d
        BY <1>5, <2>1, Zenon
    <2>2. CASE e # d
        <3>1. Invalidated(e)' = Invalidated(e)
            BY <2>2, InvalidatedKept, Zenon
        <3>2. Serves(e, s)
            BY <1>1, <1>5, <2>2, Zenon
        <3> QED BY <2>2, <3>1, <3>2, Zenon DEF Serves
    <2> QED BY <2>1, <2>2, Zenon
<1> QED BY <1>2, <1>3, <1>4, <1>5, VpidAgain, Zenon

\* BeginShootdown zeroes what the object was; nothing is acknowledged yet.
LEMMA BeginKeeps ==
    ASSUME VpidInv, NEW d \in Downs, NEW r \in Requests, BeginShootdown(d, r)
    PROVE  VpidInv'
<1>1. VpidTypeOK
    BY VpidParts, Zenon
<1>2. /\ \A c \in Cpus : d \notin owes[c]
      /\ IsShootdownRequestValid(r) => r.generation <= issued
      /\ UNCHANGED <<lease, issued, owes, tlb>>
    BY Zenon DEF BeginShootdown
<1>3. PICK z : /\ z = IF IsShootdownRequestValid(r)
                      THEN [state |-> "Pending", type |-> r.type, vpid |-> r.vpid,
                            generation |-> r.generation, target |-> r.target, acknowledged |-> {}]
                      ELSE IdleShootdown
               /\ down' = [down EXCEPT ![d] = z]
    BY Zenon DEF BeginShootdown
<1>4. /\ down \in [Downs -> DownRecords] /\ serves \in [Downs -> SUBSET Slots]
      /\ owes \in [Cpus -> SUBSET Downs] /\ issued \in Nat
    BY <1>1 DEF VpidTypeOK, DownRecords
<1>5. PICK S \in SUBSET Slots :
        /\ serves' = [serves EXCEPT ![d] = S]
        /\ S # {} => r.target = Cpus
        /\ \A s \in S : lease[s].state = "Retiring"
    <2> DEFINE T == IF r.target = Cpus THEN {s \in Slots : lease[s].state = "Retiring"} ELSE {}
    <2>1. serves' = [serves EXCEPT ![d] = T]
        BY Zenon DEF BeginShootdown
    <2>2. /\ T \in SUBSET Slots
          /\ T # {} => r.target = Cpus
          /\ \A s \in T : lease[s].state = "Retiring"
        BY Zenon
    <2> HIDE DEF T
    <2> QED BY <2>1, <2>2, Zenon
<1>6. CASE IsShootdownRequestValid(r)
    <2>1. /\ r.type \in ShootdownTypes /\ r.vpid \in 0 .. VpidMaximum
          /\ r.generation \in Generations /\ r.target \in SUBSET Cpus
          /\ r.generation # 0 /\ r.target # {} /\ IsShootdownPayloadValid(r.type, r.vpid)
        BY <1>6, RequestFacts, Zenon DEF AllRequests
    <2>2. /\ z \in DownRecords /\ z.state = "Pending" /\ z.type = r.type /\ z.vpid = r.vpid
          /\ z.generation = r.generation /\ z.target = r.target /\ z.acknowledged = {}
        BY <1>3, <1>6, <2>1, Zenon DEF DownRecords, ShootdownStates
    <2>3. /\ down' \in [Downs -> DownRecords] /\ down'[d] = z /\ serves'[d] = S
          /\ serves' \in [Downs -> SUBSET Slots]
          /\ \A e \in Downs \ {d} : down'[e] = down[e] /\ serves'[e] = serves[e]
        BY <1>3, <1>4, <1>5, <2>2, Zenon
    <2>4. DownUsable(d)'
        BY <1>2, <1>6, <2>1, <2>2, <2>3, Zenon DEF DownUsable, IsShootdownStateValid
    <2>5. \A s \in serves'[d] : Serves(d, s)'
        BY <1>2, <1>5, <2>2, <2>3, Zenon DEF Serves
    <2> QED BY <1>2, <1>4, <2>3, <2>4, <2>5, DownMoves, Zenon
<1>7. CASE ~IsShootdownRequestValid(r)
    <2>1. /\ z = IdleShootdown /\ z \in DownRecords /\ z.state = "Idle" /\ z.generation = 0
        BY <1>3, <1>7, VpidConstants, SMTT(60)
           DEF DownRecords, ShootdownStates, ShootdownTypes, NoType, IdleShootdown
    <2>2. /\ down' \in [Downs -> DownRecords] /\ down'[d] = z /\ serves'[d] = S
          /\ serves' \in [Downs -> SUBSET Slots]
          /\ \A e \in Downs \ {d} : down'[e] = down[e] /\ serves'[e] = serves[e]
        BY <1>3, <1>4, <1>5, <2>1, Zenon
    <2>3. DownUsable(d)'
        BY <1>2, <1>4, <2>1, <2>2 DEF DownUsable, IsShootdownStateValid
    <2>4. ASSUME NEW s \in serves'[d] PROVE Serves(d, s)'
        <3>1. s \in Slots /\ lease[s].state = "Retiring"
            BY <1>5, <2>2, <2>4, Zenon
        <3>2. lease[s].generation # 0
            BY <1>1, <3>1, Zenon DEF VpidTypeOK, IsVpidLeaseValid
        <3> QED BY <1>2, <2>1, <2>2, <3>2, Zenon DEF Serves
    <2> QED BY <1>2, <1>4, <2>2, <2>3, <2>4, DownMoves, Zenon
<1> QED BY <1>6, <1>7, Zenon

\* CompleteShootdown and QuarantineShootdown change the state field only.
LEMMA DownSettles ==
    ASSUME VpidInv, NEW d \in Downs, NEW to \in {"TimedOut", "Completed", "Quarantined"},
           down[d].state # "Idle", IsShootdownStateValid(down[d]),
           to = "Completed" => down[d].acknowledged = down[d].target,
           down' = [down EXCEPT ![d].state = to],
           UNCHANGED <<lease, issued, serves, owes, tlb>>
    PROVE  VpidInv'
<1>1. VpidTypeOK /\ DownUsable(d) /\ \A s \in serves[d] : Serves(d, s)
    BY VpidParts, Zenon
<1>2. /\ down \in [Downs -> DownRecords] /\ serves \in [Downs -> SUBSET Slots]
      /\ owes \in [Cpus -> SUBSET Downs]
    BY <1>1, Zenon DEF VpidTypeOK, DownRecords
<1>3. /\ down' \in [Downs -> DownRecords] /\ \A e \in Downs \ {d} : down'[e] = down[e]
      /\ down'[d].state = to /\ down'[d].type = down[d].type /\ down'[d].vpid = down[d].vpid
      /\ down'[d].generation = down[d].generation /\ down'[d].target = down[d].target
      /\ down'[d].acknowledged = down[d].acknowledged
    BY <1>2 DEF DownRecords, ShootdownStates
<1>4. DownUsable(d)'
    BY <1>1, <1>3, Zenon DEF DownUsable, IsShootdownStateValid
<1>5. \A s \in serves'[d] : Serves(d, s)'
    <2>1. Invalidated(d)' = Invalidated(d)
        BY <1>3, InvalidatedKept, Zenon
    <2> QED BY <1>1, <1>3, <2>1 DEF Serves
<1> QED BY <1>2, <1>3, <1>4, <1>5, DownMoves, Zenon

\* A processor executes INVVPID: what the shootdown covers is gone from it.
LEMMA InvvpidKeeps ==
    ASSUME VpidInv, NEW d \in Downs, NEW c \in Cpus, Invvpid(c, d)
    PROVE  VpidInv'
<1>1. /\ VpidTypeOK /\ NoDuplicateLease /\ FreeVpidsAreFlushed
      /\ \A e \in Downs : DownUsable(e)
      /\ \A p \in Slots : lease[p].generation <= issued
      /\ \A e \in Downs : \A p \in serves[e] : Serves(e, p)
    BY VpidParts, Zenon
<1>2. /\ down[d].state = "Pending" /\ c \in down[d].target /\ c \notin down[d].acknowledged
      /\ tlb' = [tlb EXCEPT ![c] = tlb[c] \ Invalidated(d)]
      /\ owes' = [owes EXCEPT ![c] = owes[c] \cup {d}]
      /\ UNCHANGED <<lease, issued, down, serves>>
    BY Zenon DEF Invvpid
<1>3. /\ owes' \in [Cpus -> SUBSET Downs] /\ owes'[c] = owes[c] \cup {d}
      /\ tlb' \in [Cpus -> SUBSET Vpids] /\ tlb'[c] = tlb[c] \ Invalidated(d)
      /\ \A b \in Cpus \ {c} : owes'[b] = owes[b] /\ tlb'[b] = tlb[b]
    BY <1>1, <1>2, Zenon DEF VpidTypeOK
<1>4. VpidTypeOK'
    BY <1>1, <1>2, <1>3, Zenon DEF VpidTypeOK
<1>5. NoDuplicateLease' /\ \A p \in Slots : lease'[p].generation <= issued'
    BY <1>1, <1>2, Zenon DEF NoDuplicateLease
<1>6. FreeVpidsAreFlushed'
    BY <1>1, <1>2, <1>3 DEF FreeVpidsAreFlushed, IsVpidUsed
<1>7. \A e \in Downs : DownUsable(e)'
    BY <1>1, <1>2, <1>3, Zenon DEF DownUsable
<1>8. ASSUME NEW e \in Downs, NEW s \in serves'[e] PROVE Serves(e, s)'
    <2>1. Serves(e, s) /\ Invalidated(e)' = Invalidated(e)
        BY <1>1, <1>2, <1>8, InvalidatedKept, Zenon
    <2> QED BY <1>2, <1>3, <2>1 DEF Serves
<1> QED BY <1>4, <1>5, <1>6, <1>7, <1>8, VpidAgain, Zenon

\* A processor acknowledges after its INVVPID; one that is late changes nothing.
LEMMA AcknowledgeKeeps ==
    ASSUME VpidInv, NEW d \in Downs, NEW c \in Cpus, CpuAcknowledges(c, d)
    PROVE  VpidInv'
<1>1. VpidTypeOK /\ DownUsable(d) /\ \A s \in serves[d] : Serves(d, s)
    BY VpidParts, Zenon
<1>2. /\ d \in owes[c] /\ owes' = [owes EXCEPT ![c] = owes[c] \ {d}]
      /\ UNCHANGED <<lease, issued, serves, tlb>>
    BY Zenon DEF CpuAcknowledges
<1>3. /\ down \in [Downs -> DownRecords] /\ serves \in [Downs -> SUBSET Slots]
      /\ owes \in [Cpus -> SUBSET Downs]
    BY <1>1, Zenon DEF VpidTypeOK, DownRecords
<1>4. /\ owes' \in [Cpus -> SUBSET Downs] /\ owes'[c] = owes[c] \ {d}
      /\ \A b \in Cpus \ {c} : owes'[b] = owes[b]
    BY <1>2, <1>3, Zenon
<1>5. CASE UNCHANGED down
    <2>1. DownUsable(d)'
        BY <1>1, <1>2, <1>4, <1>5, Zenon DEF DownUsable
    <2>2. Invalidated(d)' = Invalidated(d)
        BY <1>5, InvalidatedKept, Zenon
    <2>3. \A s \in serves'[d] : Serves(d, s)'
        BY <1>1, <1>2, <1>4, <1>5, <2>2 DEF Serves
    <2>4. /\ down' \in [Downs -> DownRecords] /\ serves' \in [Downs -> SUBSET Slots]
          /\ \A e \in Downs \ {d} : /\ down'[e] = down[e] /\ serves'[e] = serves[e]
                                    /\ \A b \in Cpus : e \in owes'[b] <=> e \in owes[b]
        BY <1>2, <1>3, <1>4, <1>5, Zenon
    <2> QED BY <1>2, <1>4, <2>1, <2>3, <2>4, DownMoves, Zenon
<1>6. CASE AcknowledgeShootdown(d, c)
    <2>1. /\ IsShootdownStateValid(down[d]) /\ down[d].state = "Pending" /\ c \in down[d].target
          /\ down' = [down EXCEPT ![d].acknowledged = down[d].acknowledged \cup {c}]
        BY <1>6, Zenon DEF AcknowledgeShootdown
    <2>2. down[d] \in DownRecords
        BY <1>3, Zenon
    <2>3. down[d].acknowledged \cup {c} \in SUBSET Cpus
        BY <2>2, Zenon DEF DownRecords
    <2>4. /\ down' \in [Downs -> DownRecords] /\ \A e \in Downs \ {d} : down'[e] = down[e]
          /\ down'[d].state = "Pending" /\ down'[d].type = down[d].type
          /\ down'[d].vpid = down[d].vpid
          /\ down'[d].generation = down[d].generation /\ down'[d].target = down[d].target
          /\ down'[d].acknowledged = down[d].acknowledged \cup {c}
        BY <1>3, <2>1, <2>3, Zenon DEF DownRecords
    <2>5. DownUsable(d)'
        BY <1>1, <1>2, <1>4, <2>1, <2>4 DEF DownUsable, IsShootdownStateValid
    <2>6. Invalidated(d)' = Invalidated(d)
        BY <2>4, InvalidatedKept, Zenon
    <2>7. \A s \in serves'[d] : Serves(d, s)'
        BY <1>1, <1>2, <1>4, <2>4, <2>6 DEF Serves
    <2>8. /\ serves' \in [Downs -> SUBSET Slots]
          /\ \A e \in Downs \ {d} : /\ down'[e] = down[e] /\ serves'[e] = serves[e]
                                    /\ \A b \in Cpus : e \in owes'[b] <=> e \in owes[b]
        BY <1>2, <1>3, <1>4, <2>4, Zenon
    <2> QED BY <1>2, <1>4, <2>4, <2>5, <2>7, <2>8, DownMoves, Zenon
<1> QED BY <1>5, <1>6, Zenon DEF CpuAcknowledges

\* Every operation of the library and of the processors keeps the invariants.
LEMMA VpidStepKeeps == VpidInv /\ [VpidNext]_vpidVars => VpidInv'
<1> SUFFICES ASSUME VpidInv, [VpidNext]_vpidVars PROVE VpidInv'
    BY Zenon
<1>1. CASE UNCHANGED vpidVars
    <2>1. UNCHANGED <<lease, issued, down, serves, owes, tlb>>
        BY <1>1, Zenon DEF vpidVars
    <2>2. \A d \in Downs : Invalidated(d)' = Invalidated(d)
        BY <2>1, InvalidatedKept, Zenon
    <2>3. /\ VpidTypeOK /\ NoDuplicateLease /\ FreeVpidsAreFlushed
          /\ \A d \in Downs : DownUsable(d)
          /\ \A s \in Slots : lease[s].generation <= issued
          /\ \A d \in Downs : \A s \in serves[d] : Serves(d, s)
        BY VpidParts, Zenon
    <2>4. VpidTypeOK' /\ NoDuplicateLease' /\ FreeVpidsAreFlushed'
        BY <2>1, <2>3, Zenon DEF VpidTypeOK, NoDuplicateLease, FreeVpidsAreFlushed, IsVpidUsed
    <2>5. \A d \in Downs : DownUsable(d)'
        BY <2>1, <2>3, Zenon DEF DownUsable
    <2>6. \A d \in Downs : \A s \in serves'[d] : Serves(d, s)'
        BY <2>1, <2>2, <2>3, Zenon DEF Serves
    <2> QED BY <2>1, <2>3, <2>4, <2>5, <2>6, VpidAgain, Zenon
<1>2. ASSUME NEW s \in Slots, NEW max \in Vpids, AllocateVpid(s, max) PROVE VpidInv'
    BY <1>2, AllocateKeeps, Zenon
<1>3. ASSUME NEW s \in Slots, NEW g \in Generations,
             BeginVpidRetire(s, g) \/ QuarantineVpid(s, g)
      PROVE  VpidInv'
    BY <1>3, LeaseMoves, Zenon DEF BeginVpidRetire, QuarantineVpid
<1>4. ASSUME NEW s \in Slots, NEW g \in Generations, NEW d \in Downs, ReclaimVpid(s, g, d)
      PROVE  VpidInv'
    BY <1>4, ReclaimKeeps, Zenon
<1>5. ASSUME NEW d \in Downs, NEW r \in Requests, BeginShootdown(d, r) PROVE VpidInv'
    BY <1>5, BeginKeeps, Zenon
<1>6. ASSUME NEW d \in Downs, NEW at, CompleteShootdown(d, at) PROVE VpidInv'
    BY <1>6, DownSettles, Zenon DEF CompleteShootdown
<1>7. ASSUME NEW d \in Downs, QuarantineShootdown(d) PROVE VpidInv'
    BY <1>7, DownSettles, Zenon DEF QuarantineShootdown
<1>8. ASSUME NEW d \in Downs, NEW c \in Cpus, Invvpid(c, d) PROVE VpidInv'
    BY <1>8, InvvpidKeeps, Zenon
<1>9. ASSUME NEW d \in Downs, NEW c \in Cpus, CpuAcknowledges(c, d) PROVE VpidInv'
    BY <1>9, AcknowledgeKeeps, Zenon
<1>10. ASSUME NEW c \in Cpus, NEW s \in Slots, RunGuest(c, s) PROVE VpidInv'
    BY <1>10, RunKeeps, Zenon
<1> QED BY <1>1, <1>2, <1>3, <1>4, <1>5, <1>6, <1>7, <1>8, <1>9, <1>10, Zenon DEF VpidNext

\* No operation touches a quarantined lease.
LEMMA QuarantinedStays ==
    ASSUME VpidInv, [VpidNext]_vpidVars, NEW s \in Slots, lease[s].state = "Quarantined"
    PROVE  lease'[s] = lease[s]
<1>1. lease \in [Slots -> LeaseRecords]
    BY Zenon DEF VpidInv, VpidTypeOK, LeaseRecords
<1>2. CASE UNCHANGED lease
    BY <1>2, Zenon
<1>3. ASSUME NEW p \in Slots, NEW max, AllocateVpid(p, max) PROVE lease'[s] = lease[s]
    BY <1>1, <1>3, Zenon DEF AllocateVpid
<1>4. ASSUME NEW p \in Slots, NEW g, BeginVpidRetire(p, g) \/ QuarantineVpid(p, g)
      PROVE  lease'[s] = lease[s]
    BY <1>1, <1>4, Zenon DEF BeginVpidRetire, QuarantineVpid
<1>5. ASSUME NEW p \in Slots, NEW g, NEW d, ReclaimVpid(p, g, d) PROVE lease'[s] = lease[s]
    BY <1>1, <1>5, Zenon DEF ReclaimVpid
<1>6. ASSUME NEW d, NEW c, NEW p, NEW r, NEW at,
             \/ BeginShootdown(d, r) \/ CompleteShootdown(d, at) \/ QuarantineShootdown(d)
             \/ Invvpid(c, d) \/ CpuAcknowledges(c, d) \/ RunGuest(c, p)
      PROVE  UNCHANGED lease
    BY <1>6, Zenon DEF BeginShootdown, CompleteShootdown, QuarantineShootdown, Invvpid,
       CpuAcknowledges, RunGuest
<1> QED BY <1>2, <1>3, <1>4, <1>5, <1>6, Zenon DEF VpidNext, vpidVars

\* vpid_model.cpp, for any number of processors, table entries and shootdowns under
\* way: live leases never share a number, a number comes back only flushed on every
\* processor, a shootdown that is not late stays usable, and quarantine is final.
THEOREM VpidsStayExclusive == VpidSpec => VpidsAreExclusive
<1>1. VpidInit => VpidInv
    BY VpidInitHolds, Zenon
<1>2. VpidInv /\ [VpidNext]_vpidVars => VpidInv'
    BY VpidStepKeeps, Zenon
<1>3. VpidInv /\ [VpidNext]_vpidVars =>
        [\A s \in Slots : lease[s].state = "Quarantined" => lease'[s] = lease[s]]_vpidVars
    BY QuarantinedStays, Zenon
<1>4. VpidInv => /\ VpidTypeOK /\ LiveVpidsUnique /\ FreeVpidsAreFlushed
                 /\ ShootdownsStayUsable /\ ShootdownsServeTheirTenure
    BY Zenon DEF VpidInv
<1> QED BY <1>1, <1>2, <1>3, <1>4, PTL DEF VpidSpec, VpidsAreExclusive, QuarantineVpidIsFinal

=============================================================================
