--------------------------- MODULE ContractProofs ---------------------------
(***************************************************************************)
(* Proofs about two contracts of the virtual platform that are state       *)
(* machines over records: EPT hooks (EptHook.tla) and device assignment    *)
(* (Iommu.tla), for every number of processors, transactions, devices,     *)
(* guests, assignment records and generations.                             *)
(***************************************************************************)
EXTENDS EptHook, Iommu, FiniteSetTheorems, TLAPS

-----------------------------------------------------------------------------
(***************************************************************************)
(* EPT hooks.  The counters count processors, so that a full count is the  *)
(* set of all of them: a generation is current, and an update published,   *)
(* only when no processor is missing.                                      *)
(***************************************************************************)

HookInv ==
    /\ HookTypeOK /\ NoCpuBehind /\ PublishedIsAcknowledged /\ AcksAreCounted

HookRecords == [state : HookStates, parent : 0 .. MaxEptGeneration,
                pending : 0 .. MaxEptGeneration,
                deadline : {0} \cup {l.expires : l \in Leases}, observed : 0 .. RequiredAcks]
GenerationRecords == [generation : 0 .. MaxEptGeneration, parent : 0 .. MaxEptGeneration,
                      observed : 0 .. RequiredAcks]

\* A set of processors is counted by a number up to required_cpu_acks, which only the
\* set of all of them reaches; one more processor counts one more.
LEMMA CountCpus ==
    /\ RequiredAcks \in Nat
    /\ \A S \in SUBSET HookCpus :
          /\ IsFiniteSet(S) /\ Cardinality(S) \in 0 .. RequiredAcks
          /\ Cardinality(S) = RequiredAcks => S = HookCpus
          /\ \A c \in HookCpus \ S : Cardinality(S \cup {c}) = Cardinality(S) + 1
<1>1. RequiredAcks \in Nat
    BY EptHookConstants, FS_CardinalityType, Zenon DEF RequiredAcks
<1>2. ASSUME NEW S \in SUBSET HookCpus
      PROVE  /\ IsFiniteSet(S) /\ Cardinality(S) \in 0 .. RequiredAcks
             /\ Cardinality(S) = RequiredAcks => S = HookCpus
    <2>1. /\ IsFiniteSet(S) /\ Cardinality(S) <= Cardinality(HookCpus)
          /\ Cardinality(HookCpus) = Cardinality(S) => HookCpus = S
        BY EptHookConstants, FS_Subset, Zenon
    <2>2. Cardinality(S) \in Nat
        BY <2>1, FS_CardinalityType, Zenon
    <2> QED BY <1>1, <2>1, <2>2 DEF RequiredAcks
<1>3. ASSUME NEW S \in SUBSET HookCpus, NEW c \in HookCpus \ S
      PROVE  Cardinality(S \cup {c}) = Cardinality(S) + 1
    BY <1>2, FS_AddElement, Zenon
<1> QED BY <1>1, <1>2, <1>3, Zenon

\* At first every processor runs on generation 1 and no update was begun.
LEMMA HookInitHolds == HookInit => HookInv
<1> SUFFICES ASSUME HookInit PROVE HookInv
    BY Zenon
<1>1. RequiredAcks \in Nat
    BY CountCpus, Zenon
<1>2. NoTransaction \in HookRecords /\ NoGeneration \in GenerationRecords
    BY <1>1, EptHookConstants
       DEF NoTransaction, NoGeneration, HookRecords, GenerationRecords, HookStates
<1>3. HookTypeOK
    BY <1>2, EptHookConstants DEF HookInit, HookTypeOK, HookRecords, GenerationRecords
<1>4. NoTransaction.state = "None" /\ NoTransaction.observed = 0
    BY Zenon DEF NoTransaction
<1>5. NoCpuBehind /\ PublishedIsAcknowledged
    BY <1>4, Zenon DEF HookInit, NoCpuBehind, PublishedIsAcknowledged
<1>6. AcksAreCounted
    BY <1>4, FS_EmptySet, Zenon DEF HookInit, AcksAreCounted
<1> QED BY <1>3, <1>5, <1>6, Zenon DEF HookInv

\* BeginEptGeneration: nobody runs on the next generation yet.
LEMMA BeginGenerationKeeps ==
    ASSUME HookInv, BeginEptGeneration
    PROVE  HookInv'
<1>1. /\ pending = NoGeneration /\ current \in Nat /\ current < MaxEptGeneration
      /\ UNCHANGED <<current, view, hook, acked, now>>
    BY EptHookConstants DEF BeginEptGeneration, HookInv, HookTypeOK
<1>2. /\ pending' = [generation |-> current + 1, parent |-> current, observed |-> 0]
      /\ pending'.generation = current + 1 /\ pending'.parent = current /\ pending'.observed = 0
    BY Zenon DEF BeginEptGeneration, NextEptGeneration
<1>3. pending' \in GenerationRecords
    BY <1>1, <1>2, CountCpus, EptHookConstants DEF GenerationRecords
<1>4. \A c \in HookCpus : view[c] = current
    BY <1>1, Zenon DEF HookInv, NoCpuBehind, NoGeneration
<1>5. {c \in HookCpus : view'[c] = pending'.generation} = {}
    BY <1>1, <1>2, <1>4
<1>6. HookTypeOK'
    BY <1>1, <1>3, Zenon DEF HookInv, HookTypeOK, GenerationRecords, IsEptHookTransactionValid
<1>7. NoCpuBehind' /\ PublishedIsAcknowledged'
    BY <1>1, <1>4, Zenon DEF HookInv, NoCpuBehind, PublishedIsAcknowledged
<1>8. AcksAreCounted'
    BY <1>1, <1>2, <1>5, FS_EmptySet, Zenon DEF HookInv, AcksAreCounted
<1> QED BY <1>6, <1>7, <1>8, Zenon DEF HookInv

\* AcknowledgeEptGeneration: one processor more, counted once.
LEMMA SwitchKeeps ==
    ASSUME HookInv, NEW c \in HookCpus, AcknowledgeEptGeneration(c)
    PROVE  HookInv'
<1> DEFINE on == {b \in HookCpus : view[b] = pending.generation}
<1>1. /\ pending # NoGeneration /\ view[c] # pending.generation
      /\ pending.observed < RequiredAcks
      /\ view' = [view EXCEPT ![c] = pending.generation]
      /\ pending' = [pending EXCEPT !.observed = pending.observed + 1]
      /\ UNCHANGED <<current, hook, acked, now>>
    BY Zenon DEF AcknowledgeEptGeneration
<1>2. /\ pending \in GenerationRecords /\ pending.generation = current + 1
      /\ pending.parent = current /\ pending.observed = Cardinality(on)
      /\ view \in [HookCpus -> 1 .. MaxEptGeneration] /\ current \in 1 .. MaxEptGeneration
    BY <1>1, Zenon DEF HookInv, HookTypeOK, GenerationRecords, AcksAreCounted
<1>3. pending.observed + 1 \in 0 .. RequiredAcks
    BY <1>1, <1>2, CountCpus DEF GenerationRecords
<1>4. /\ pending' \in GenerationRecords /\ pending'.generation = pending.generation
      /\ pending'.parent = pending.parent /\ pending'.observed = pending.observed + 1
    BY <1>1, <1>2, <1>3, Zenon DEF GenerationRecords
<1>5. /\ view' \in [HookCpus -> 1 .. MaxEptGeneration] /\ view'[c] = pending.generation
      /\ \A b \in HookCpus \ {c} : view'[b] = view[b]
    BY <1>1, <1>2 DEF GenerationRecords
<1>6. {b \in HookCpus : view'[b] = pending'.generation} = on \cup {c}
    BY <1>4, <1>5, Zenon
<1>7. Cardinality(on \cup {c}) = Cardinality(on) + 1
    BY <1>1, CountCpus, Zenon
<1>8. HookTypeOK'
    BY <1>1, <1>4, <1>5, Zenon
       DEF HookInv, HookTypeOK, GenerationRecords, IsEptHookTransactionValid
<1>9. NoCpuBehind'
    BY <1>1, <1>2, <1>4, <1>5 DEF HookInv, NoCpuBehind
<1>10. PublishedIsAcknowledged'
    BY <1>1, Zenon DEF HookInv, PublishedIsAcknowledged
<1>11. AcksAreCounted'
    BY <1>1, <1>2, <1>4, <1>6, <1>7, Zenon DEF HookInv, AcksAreCounted
<1> QED BY <1>8, <1>9, <1>10, <1>11, Zenon DEF HookInv

\* PublishEptGeneration: the count is full, so every processor has the generation.
LEMMA PublishGenerationKeeps ==
    ASSUME HookInv, PublishEptGeneration
    PROVE  HookInv'
<1> DEFINE on == {b \in HookCpus : view[b] = pending.generation}
<1>1. /\ pending # NoGeneration /\ pending.observed = RequiredAcks
      /\ current' = pending.generation /\ pending' = NoGeneration
      /\ UNCHANGED <<view, hook, acked, now>>
    BY Zenon DEF PublishEptGeneration
<1>2. /\ pending \in GenerationRecords /\ pending.generation = current + 1
      /\ pending.observed = Cardinality(on) /\ current \in 1 .. MaxEptGeneration
    BY <1>1, Zenon DEF HookInv, HookTypeOK, GenerationRecords, AcksAreCounted
<1>3. on = HookCpus
    BY <1>1, <1>2, CountCpus, Zenon
<1>4. current' \in 1 .. MaxEptGeneration /\ current < current'
    BY <1>1, <1>2 DEF GenerationRecords
<1>5. NoGeneration \in GenerationRecords
    BY CountCpus, EptHookConstants DEF NoGeneration, GenerationRecords
<1>6. HookTypeOK'
    BY <1>1, <1>4, <1>5, Zenon
       DEF HookInv, HookTypeOK, GenerationRecords, IsEptHookTransactionValid
<1>7. NoCpuBehind'
    BY <1>1, <1>3, Zenon DEF NoCpuBehind
<1>8. PublishedIsAcknowledged'
    BY <1>1, Zenon DEF HookInv, PublishedIsAcknowledged
<1>9. AcksAreCounted'
    <2>1. \A t \in Txns : hook[t].pending \in Nat
        BY DEF HookInv, HookTypeOK
    <2> QED BY <1>1, <1>2, <1>4, <2>1 DEF HookInv, AcksAreCounted
<1> QED BY <1>6, <1>7, <1>8, <1>9, Zenon DEF HookInv

\* A step that moves one update keeps what is said of the others.
LEMMA HookMoves ==
    ASSUME HookInv, NEW t \in Txns, UNCHANGED <<current, pending, view, now>>,
           hook' \in [Txns -> HookRecords], acked' \in [Txns -> SUBSET HookCpus],
           \A u \in Txns \ {t} : hook'[u] = hook[u] /\ acked'[u] = acked[u],
           hook'[t] = NoTransaction \/ IsEptHookTransactionValid(t)',
           hook'[t].observed = Cardinality(acked'[t]),
           hook'[t].state = "Retired" => hook'[t].pending <= current,
           hook'[t].state \in {"Published", "Retired"} => acked'[t] = HookCpus
    PROVE  HookInv'
<1>1. HookTypeOK'
    <2>1. \A u \in Txns : hook'[u] = NoTransaction \/ IsEptHookTransactionValid(u)'
        BY Zenon DEF HookInv, HookTypeOK, IsEptHookTransactionValid
    <2> QED BY <2>1, Zenon DEF HookInv, HookTypeOK, HookRecords
<1>2. NoCpuBehind' /\ PublishedIsAcknowledged'
    BY Zenon DEF HookInv, NoCpuBehind, PublishedIsAcknowledged
<1>3. AcksAreCounted'
    BY Zenon DEF HookInv, AcksAreCounted
<1> QED BY <1>1, <1>2, <1>3, Zenon DEF HookInv

\* BeginEptHookUpdate starts with no acknowledgement.
LEMMA BeginUpdateKeeps ==
    ASSUME HookInv, NEW t \in Txns, NEW l \in Leases, NEW r, BeginEptHookUpdate(t, l, r)
    PROVE  HookInv'
<1>1. /\ hook \in [Txns -> HookRecords] /\ acked \in [Txns -> SUBSET HookCpus]
      /\ current \in 1 .. MaxEptGeneration
    BY Zenon DEF HookInv, HookTypeOK, HookRecords
<1>2. acked' = [acked EXCEPT ![t] = {}] /\ UNCHANGED <<current, pending, view, now>>
    BY Zenon DEF BeginEptHookUpdate
<1>3. PICK z : /\ z = IF CanPublishEptHook(l, r) /\ current # MaxEptGeneration
                      THEN [state |-> "Prepared", parent |-> current, pending |-> current + 1,
                            deadline |-> l.expires, observed |-> 0]
                      ELSE NoTransaction
               /\ hook' = [hook EXCEPT ![t] = z]
    BY Zenon DEF BeginEptHookUpdate
<1>4. /\ acked' \in [Txns -> SUBSET HookCpus] /\ acked'[t] = {} /\ hook'[t] = z
      /\ \A u \in Txns \ {t} : hook'[u] = hook[u] /\ acked'[u] = acked[u]
    BY <1>1, <1>2, <1>3, Zenon
<1>5. CASE CanPublishEptHook(l, r) /\ current # MaxEptGeneration
    <2>1. l.expires # 0 /\ current # 0
        BY <1>5, Zenon DEF CanPublishEptHook, IsEptHookLeaseValid
    <2>2. current + 1 \in 0 .. MaxEptGeneration /\ current \in 0 .. MaxEptGeneration
        BY <1>1, <1>5, EptHookConstants
    <2>3. /\ z.state = "Prepared" /\ z.parent = current /\ z.pending = current + 1
          /\ z.deadline = l.expires /\ z.observed = 0
        BY <1>3, <1>5, Zenon
    <2>4. z \in HookRecords
        BY <1>3, <1>5, <2>2, CountCpus DEF HookRecords, HookStates
    <2>5. hook' \in [Txns -> HookRecords]
        BY <1>1, <1>3, <2>4, Zenon
    <2>6. IsEptHookTransactionValid(t)'
        BY <1>2, <1>4, <1>5, <2>1, <2>3, CountCpus DEF IsEptHookTransactionValid
    <2> QED BY <1>2, <1>4, <2>3, <2>5, <2>6, FS_EmptySet, HookMoves, Zenon
<1>6. CASE ~(CanPublishEptHook(l, r) /\ current # MaxEptGeneration)
    <2>1. z = NoTransaction /\ z.state = "None" /\ z.observed = 0
        BY <1>3, <1>6, Zenon DEF NoTransaction
    <2>2. z \in HookRecords
        BY <2>1, CountCpus, EptHookConstants DEF NoTransaction, HookRecords, HookStates
    <2>3. hook' \in [Txns -> HookRecords]
        BY <1>1, <1>3, <2>2, Zenon
    <2> QED BY <1>2, <1>4, <2>1, <2>3, FS_EmptySet, HookMoves, Zenon
<1> QED BY <1>5, <1>6, Zenon

\* AcknowledgeEptHookCpu: one processor more, counted once.
LEMMA AcknowledgeHookKeeps ==
    ASSUME HookInv, NEW t \in Txns, NEW c \in HookCpus, NEW g, AcknowledgeEptHookCpu(t, c, g)
    PROVE  HookInv'
<1>1. /\ hook \in [Txns -> HookRecords] /\ acked \in [Txns -> SUBSET HookCpus]
      /\ hook[t].observed = Cardinality(acked[t])
    BY Zenon DEF HookInv, HookTypeOK, HookRecords, AcksAreCounted
<1>2. /\ c \notin acked[t] /\ IsEptHookTransactionValid(t) /\ hook[t].state = "Prepared"
      /\ hook' = [hook EXCEPT ![t].observed = hook[t].observed + 1]
      /\ acked' = [acked EXCEPT ![t] = acked[t] \cup {c}]
      /\ UNCHANGED <<current, pending, view, now>>
    BY Zenon DEF AcknowledgeEptHookCpu, IsEptHookTransactionLive
<1>3. /\ acked' \in [Txns -> SUBSET HookCpus] /\ acked'[t] = acked[t] \cup {c}
      /\ \A u \in Txns \ {t} : hook'[u] = hook[u] /\ acked'[u] = acked[u]
    BY <1>1, <1>2, Zenon
<1>4. Cardinality(acked'[t]) = hook[t].observed + 1 /\ Cardinality(acked'[t]) \in 0 .. RequiredAcks
    BY <1>1, <1>2, <1>3, CountCpus
<1>5. /\ hook' \in [Txns -> HookRecords] /\ hook'[t].state = hook[t].state
      /\ hook'[t].parent = hook[t].parent /\ hook'[t].pending = hook[t].pending
      /\ hook'[t].deadline = hook[t].deadline /\ hook'[t].observed = hook[t].observed + 1
    BY <1>1, <1>2, <1>4, Zenon DEF HookRecords
<1>6. IsEptHookTransactionValid(t)'
    BY <1>2, <1>4, <1>5, CountCpus DEF IsEptHookTransactionValid
<1> QED BY <1>2, <1>3, <1>4, <1>5, <1>6, HookMoves, Zenon

\* Publishing, retiring, rolling back and quarantining change the state field only.
LEMMA SettleKeeps ==
    ASSUME HookInv, NEW t \in Txns, NEW to \in HookStates \ {"None"}, SettleAs(t, to),
           IsEptHookTransactionValid(t),
           to = "Published" => hook[t].observed = RequiredAcks,
           to = "Retired" => hook[t].state = "Published" /\ current = hook[t].pending
    PROVE  HookInv'
<1>1. /\ hook \in [Txns -> HookRecords] /\ acked \in [Txns -> SUBSET HookCpus]
      /\ hook[t].observed = Cardinality(acked[t]) /\ current \in Nat
    BY DEF HookInv, HookTypeOK, HookRecords, AcksAreCounted
<1>2. hook' = [hook EXCEPT ![t].state = to] /\ UNCHANGED <<current, pending, view, acked, now>>
    BY Zenon DEF SettleAs
<1>3. /\ hook' \in [Txns -> HookRecords] /\ hook'[t].state = to
      /\ hook'[t].parent = hook[t].parent /\ hook'[t].pending = hook[t].pending
      /\ hook'[t].deadline = hook[t].deadline /\ hook'[t].observed = hook[t].observed
      /\ \A u \in Txns \ {t} : hook'[u] = hook[u]
    BY <1>1, <1>2, Zenon DEF HookRecords
<1>4. IsEptHookTransactionValid(t)'
    BY <1>2, <1>3, Zenon DEF IsEptHookTransactionValid
<1>5. to \in {"Published", "Retired"} => acked[t] = HookCpus
    <2>1. CASE to = "Published"
        BY <1>1, <2>1, CountCpus, Zenon
    <2>2. CASE to = "Retired"
        BY <2>2, Zenon DEF HookInv, PublishedIsAcknowledged
    <2> QED BY <2>1, <2>2, Zenon
<1> QED BY <1>1, <1>2, <1>3, <1>4, <1>5, HookMoves

\* Every operation of the library and of the processors keeps the invariants.
LEMMA HookStepKeeps == HookInv /\ [HookNext]_hookVars => HookInv'
<1> SUFFICES ASSUME HookInv, [HookNext]_hookVars PROVE HookInv'
    BY Zenon
<1>1. CASE UNCHANGED hookVars
    <2>1. UNCHANGED <<current, pending, view, hook, acked, now>>
        BY <1>1, Zenon DEF hookVars
    <2> QED BY <2>1, Zenon DEF HookInv, HookTypeOK, NoCpuBehind, PublishedIsAcknowledged,
            AcksAreCounted, IsEptHookTransactionValid
<1>2. CASE Tick
    <2>1. now' \in 0 .. MaxTime /\ UNCHANGED <<current, pending, view, hook, acked>>
        BY <1>2, EptHookConstants DEF Tick, HookInv, HookTypeOK
    <2> QED BY <2>1, Zenon DEF HookInv, HookTypeOK, NoCpuBehind, PublishedIsAcknowledged,
            AcksAreCounted, IsEptHookTransactionValid
<1>3. ASSUME NEW t \in Txns, PublishEptHookUpdate(t) \/ RetireEptHookUpdate(t) PROVE HookInv'
    BY <1>3, SettleKeeps, Zenon
       DEF PublishEptHookUpdate, RetireEptHookUpdate, IsEptHookTransactionLive, HookStates
<1>4. ASSUME NEW t \in Txns,
             RollbackEptHookUpdate(t) \/ QuarantineEptHookUpdate(t) \/ ExpireEptHookUpdate(t)
      PROVE  HookInv'
    BY <1>4, SettleKeeps, Zenon
       DEF RollbackEptHookUpdate, QuarantineEptHookUpdate, ExpireEptHookUpdate, HookStates
<1> QED BY <1>1, <1>2, <1>3, <1>4, BeginGenerationKeeps, PublishGenerationKeeps, SwitchKeeps,
        BeginUpdateKeeps, AcknowledgeHookKeeps, Zenon DEF HookNext

\* An update is moved by its own operations only, each under its own condition on the
\* state of the record and on the current generation.
LEMMA UpdateMoves ==
    ASSUME HookInv, [HookNext]_hookVars, NEW t \in Txns, hook'[t] # hook[t]
    PROVE  /\ Settled(t) => hook'[t].state \in {"Prepared", "None"}
           /\ hook[t].state \in {"Prepared", "Published"} => current <= ExpectedGeneration(t)
<1>1. hook \in [Txns -> HookRecords] /\ current \in Nat
    BY DEF HookInv, HookTypeOK, HookRecords
<1>2. ~UNCHANGED hook
    BY Zenon
<1>3. PICK u \in Txns :
        \/ \E l \in Leases, r \in HookRequests : BeginEptHookUpdate(u, l, r)
        \/ \E c \in HookCpus : AcknowledgeEptHookCpu(u, c, view[c])
        \/ PublishEptHookUpdate(u) \/ RetireEptHookUpdate(u) \/ RollbackEptHookUpdate(u)
        \/ QuarantineEptHookUpdate(u) \/ ExpireEptHookUpdate(u)
    <2>1. ~(BeginEptGeneration \/ PublishEptGeneration \/ Tick
            \/ \E c \in HookCpus : AcknowledgeEptGeneration(c))
        BY <1>2, Zenon
           DEF BeginEptGeneration, PublishEptGeneration, Tick, AcknowledgeEptGeneration
    <2>2. ~UNCHANGED hookVars
        BY <1>2, Zenon DEF hookVars
    <2> QED BY <2>1, <2>2, Zenon DEF HookNext
<1>4. u = t
    BY <1>1, <1>3, Zenon DEF BeginEptHookUpdate, AcknowledgeEptHookCpu, PublishEptHookUpdate,
       RetireEptHookUpdate, RollbackEptHookUpdate, QuarantineEptHookUpdate,
       ExpireEptHookUpdate, SettleAs
<1>5. ASSUME NEW l, NEW r, BeginEptHookUpdate(t, l, r)
      PROVE  /\ hook'[t].state \in {"Prepared", "None"}
             /\ hook[t].state \notin {"Prepared", "Published"}
    BY <1>1, <1>5, Zenon DEF BeginEptHookUpdate, NoTransaction
<1>6. ASSUME NEW c \in HookCpus, AcknowledgeEptHookCpu(t, c, view[c])
      PROVE  hook[t].state = "Prepared" /\ current <= ExpectedGeneration(t)
    <2>1. hook[t].state = "Prepared" /\ view[c] = hook[t].parent
        BY <1>6, Zenon DEF AcknowledgeEptHookCpu
    <2>2. view[c] = current \/ (view[c] = pending.generation /\ pending.generation # 0)
        BY Zenon DEF HookInv, NoCpuBehind
    <2>3. pending.generation # 0 => pending.generation = current + 1
        BY DEF HookInv, AcksAreCounted, NoGeneration
    <2> QED BY <1>1, <2>1, <2>2, <2>3 DEF ExpectedGeneration
<1>7. ASSUME \/ PublishEptHookUpdate(t) \/ RetireEptHookUpdate(t) \/ RollbackEptHookUpdate(t)
             \/ QuarantineEptHookUpdate(t) \/ ExpireEptHookUpdate(t)
      PROVE  ~Settled(t) /\ current <= ExpectedGeneration(t)
    BY <1>1, <1>7 DEF PublishEptHookUpdate, RetireEptHookUpdate, RollbackEptHookUpdate,
       QuarantineEptHookUpdate, ExpireEptHookUpdate, Settled, ExpectedGeneration
<1> QED BY <1>3, <1>4, <1>5, <1>6, <1>7, Zenon DEF Settled

\* ept_model.cpp, for any number of processors, updates and generations: a generation is
\* current only when every processor has it, an update is published when all
\* acknowledged it and retired when all have left what it replaced, and settled or
\* overtaken updates stay.
THEOREM HooksReachAll == HookSpec => HooksReachEveryCpu
<1>1. HookInit => HookInv
    BY HookInitHolds, Zenon
<1>2. HookInv /\ [HookNext]_hookVars => HookInv'
    BY HookStepKeeps, Zenon
<1>3. HookInv => /\ HookTypeOK /\ NoCpuBehind /\ PublishedIsAcknowledged
                 /\ AcksAreCounted /\ RetiredHookIsEverywhere
    <2> SUFFICES ASSUME HookInv, NEW t \in Txns, NEW c \in HookCpus, hook[t].state = "Retired"
                 PROVE  view[c] >= hook[t].pending
        BY Zenon DEF HookInv, RetiredHookIsEverywhere
    <2>1. hook[t].pending <= current /\ hook[t].pending \in Nat /\ current \in Nat
        BY DEF HookInv, HookTypeOK, AcksAreCounted
    <2>2. view[c] = current \/ view[c] = current + 1
        BY DEF HookInv, NoCpuBehind, AcksAreCounted, NoGeneration
    <2> QED BY <2>1, <2>2
<1>4. HookInv /\ [HookNext]_hookVars =>
        [\A t \in Txns : Settled(t) =>
            hook'[t].state \in {hook[t].state, "Prepared", "None"}]_hookVars
    BY UpdateMoves, Zenon
<1>5. HookInv /\ [HookNext]_hookVars =>
        [\A t \in Txns :
           (hook[t].state \in {"Prepared", "Published"} /\ current > ExpectedGeneration(t)) =>
             hook'[t] = hook[t]]_hookVars
    <2> SUFFICES ASSUME HookInv, [HookNext]_hookVars, NEW t \in Txns,
                        hook[t].state \in {"Prepared", "Published"},
                        current > ExpectedGeneration(t), hook'[t] # hook[t]
                 PROVE  FALSE
        BY Zenon
    <2>1. current <= ExpectedGeneration(t)
        BY UpdateMoves, Zenon
    <2>2. current \in Nat /\ ExpectedGeneration(t) \in Nat
        BY DEF HookInv, HookTypeOK, ExpectedGeneration
    <2> QED BY <2>1, <2>2
<1> QED BY <1>1, <1>2, <1>3, <1>4, <1>5, PTL
        DEF HookSpec, HooksReachEveryCpu, SettledUpdateIsFinal, OvertakenUpdateIsInert

-----------------------------------------------------------------------------
(***************************************************************************)
(* Device assignment.                                                      *)
(***************************************************************************)

IommuInv ==
    IommuTypeOK /\ AttachedDeviceIsOwnersOnly /\ NoGuestResidue /\ AssignmentsAreCurrent

AssignmentRecords ==
    [state : AssignmentStates \ {"Empty"}, dev : Devices, owner : Owners,
     domain : DOMAIN Domains, generation : 1 .. MaxIommuGeneration]
DeviceRecords == [hostBound : BOOLEAN, dma : Holders, irq : BOOLEAN, holds : Holders]

\* What PrepareIommuAssignment permits depends on the platform, the profile and the
\* domain's stamp only, and needs a domain of the current generation.
LEMMA PermittedFacts ==
    ASSUME NEW dev, NEW dom, NEW owner
    PROVE  /\ PrepareStatus(dev, dom, owner) = "Success" => stamp[dom] = generation
           /\ (/\ UNCHANGED <<generation, features, profile>> /\ stamp'[dom] = stamp[dom])
              => PrepareStatus(dev, dom, owner)' = PrepareStatus(dev, dom, owner)
<1>1. PrepareStatus(dev, dom, owner) = "Success" => stamp[dom] = generation
    BY Zenon DEF PrepareStatus
<1>2. (/\ UNCHANGED <<generation, features, profile>> /\ stamp'[dom] = stamp[dom])
      => PrepareStatus(dev, dom, owner)' = PrepareStatus(dev, dom, owner)
    BY Zenon DEF PrepareStatus
<1> QED BY <1>1, <1>2, Zenon

\* What the caller's readiness bits say of the device.
LEMMA ReadinessFacts ==
    ASSUME NEW dev
    PROVE  /\ "HostQuiesced" \in Readiness(dev) => ~device[dev].hostBound
           /\ "DmaDrained" \in Readiness(dev) => device[dev].dma = Nobody
           /\ "ResetComplete" \in Readiness(dev) => device[dev].holds = Nobody
BY Zenon DEF Readiness

\* At first the host has every device.
LEMMA IommuInitHolds == IommuInit => IommuInv
<1> SUFFICES ASSUME IommuInit PROVE IommuInv
    BY Zenon
<1>1. \A a \in AssignmentSlots : assign[a] = EmptyAssignment
    BY Zenon DEF IommuInit
<1>2. EmptyAssignment.state = "Empty" /\ EmptyAssignment.generation = 0
    BY Zenon DEF EmptyAssignment
<1>3. /\ device \in [Devices -> DeviceRecords]
      /\ \A d \in Devices : device[d].dma = Nobody /\ device[d].holds = Host
    BY Zenon DEF IommuInit, DeviceRecords, Holders
<1>4. IommuTypeOK
    BY <1>3, IommuConstants DEF IommuInit, IommuTypeOK, DeviceRecords
<1>5. AttachedDeviceIsOwnersOnly
    BY <1>1, <1>2, Zenon DEF AttachedDeviceIsOwnersOnly
<1>6. NoGuestResidue
    BY <1>3, IommuConstants, Zenon DEF NoGuestResidue, Host, Nobody
<1>7. AssignmentsAreCurrent
    BY <1>1, <1>2 DEF AssignmentsAreCurrent, Live, IommuInit
<1> QED BY <1>4, <1>5, <1>6, <1>7, Zenon DEF IommuInv

\* A step that moves one assignment, and neither a device nor the platform, keeps what
\* is said of the others.
LEMMA AssignmentMoves ==
    ASSUME IommuInv, NEW a \in AssignmentSlots,
           UNCHANGED <<generation, features, profile, stamp, device, faults>>,
           assign' \in [AssignmentSlots -> {EmptyAssignment} \cup AssignmentRecords],
           \A b \in AssignmentSlots \ {a} : assign'[b] = assign[b],
           assign'[a].state \in {"Active", "Draining"} =>
             /\ ~device[assign'[a].dev].hostBound
             /\ {device[assign'[a].dev].dma, device[assign'[a].dev].holds}
                  \subseteq {assign'[a].owner, Nobody},
           Live(a) =>
             \/ Live(a)' /\ assign'[a].dev = assign[a].dev /\ assign'[a].owner = assign[a].owner
             \/ device[assign[a].dev].dma = Nobody /\ device[assign[a].dev].holds = Nobody,
           Live(a)' =>
             \A b \in AssignmentSlots \ {a} : Live(b) => assign[b].dev # assign'[a].dev,
           assign'[a].generation <= generation,
           (assign'[a].state = "Prepared" /\ assign'[a].generation = generation) =>
              PrepareStatus(assign'[a].dev, assign'[a].domain, assign'[a].owner) = "Success"
    PROVE  IommuInv'
<1>1. IommuTypeOK'
    BY Zenon DEF IommuInv, IommuTypeOK, AssignmentRecords
<1>2. AttachedDeviceIsOwnersOnly'
    BY DEF IommuInv, AttachedDeviceIsOwnersOnly
<1>3. NoGuestResidue'
    <2> SUFFICES ASSUME NEW dev \in Devices, NEW o \in Owners,
                        o \in {device[dev].dma, device[dev].holds}
                 PROVE  \E b \in AssignmentSlots :
                           Live(b)' /\ assign'[b].dev = dev /\ assign'[b].owner = o
        BY Zenon DEF NoGuestResidue
    <2>1. PICK b \in AssignmentSlots : Live(b) /\ assign[b].dev = dev /\ assign[b].owner = o
        BY DEF IommuInv, NoGuestResidue
    <2>2. o # Nobody
        BY IommuConstants, Zenon DEF Nobody
    <2>3. CASE b = a
        BY <2>1, <2>2, <2>3, Zenon
    <2>4. CASE b # a
        BY <2>1, <2>4, Zenon DEF Live
    <2> QED BY <2>3, <2>4, Zenon
<1>4. AssignmentsAreCurrent'
    <2>1. \A b \in AssignmentSlots \ {a} : Live(b)' <=> Live(b)
        BY Zenon DEF Live
    <2>2. \A dev, dom, o : PrepareStatus(dev, dom, o)' = PrepareStatus(dev, dom, o)
        BY PermittedFacts, SMTT(60)
    <2>3. ASSUME NEW b \in AssignmentSlots
          PROVE  /\ assign'[b].generation <= generation'
                 /\ (assign'[b].state = "Prepared" /\ assign'[b].generation = generation') =>
                      PrepareStatus(assign[b].dev, assign[b].domain, assign[b].owner)' = "Success"
        <3>1. PrepareStatus(assign[b].dev, assign[b].domain, assign[b].owner)'
                = PrepareStatus(assign'[b].dev, assign'[b].domain, assign'[b].owner)
            BY <2>2, Zenon DEF PrepareStatus
        <3>2. CASE b = a
            BY <3>1, <3>2, Zenon
        <3>3. CASE b # a
            BY <3>1, <3>3, Zenon DEF IommuInv, AssignmentsAreCurrent
        <3> QED BY <3>2, <3>3, Zenon
    <2>4. ASSUME NEW b \in AssignmentSlots, NEW c \in AssignmentSlots,
                 Live(b)', Live(c)', assign'[b].dev = assign'[c].dev
          PROVE  b = c
        <3>1. CASE b # a /\ c # a
            BY <2>1, <2>4, <3>1, Zenon DEF IommuInv, AssignmentsAreCurrent
        <3>2. CASE b = a \/ c = a
            BY <2>1, <2>4, <3>2, Zenon
        <3> QED BY <3>1, <3>2, Zenon
    <2> QED BY <2>3, <2>4, Zenon DEF AssignmentsAreCurrent
<1> QED BY <1>1, <1>2, <1>3, <1>4, Zenon DEF IommuInv

\* PrepareIommuAssignment: nobody has the device, and it is permitted now.
LEMMA PrepareKeeps ==
    ASSUME IommuInv, NEW a \in AssignmentSlots, NEW dev \in Devices,
           NEW dom \in DOMAIN Domains, NEW o \in Owners, PrepareIommuAssignment(a, dev, dom, o)
    PROVE  IommuInv'
<1>1. /\ assign \in [AssignmentSlots -> {EmptyAssignment} \cup AssignmentRecords]
      /\ generation \in 1 .. MaxIommuGeneration
    BY Zenon DEF IommuInv, IommuTypeOK, AssignmentRecords
<1>2. /\ ~Live(a) /\ \A b \in AssignmentSlots : Live(b) => assign[b].dev # dev
      /\ UNCHANGED <<generation, features, profile, stamp, device, faults>>
    BY Zenon DEF PrepareIommuAssignment
<1>3. PICK z : /\ z = IF PrepareStatus(dev, dom, o) = "Success"
                      THEN [state |-> "Prepared", dev |-> dev, owner |-> o, domain |-> dom,
                            generation |-> generation]
                      ELSE EmptyAssignment
               /\ assign' = [assign EXCEPT ![a] = z]
    BY Zenon DEF PrepareIommuAssignment
<1>4. assign'[a] = z /\ \A b \in AssignmentSlots \ {a} : assign'[b] = assign[b]
    BY <1>1, <1>3, Zenon
<1>5. CASE PrepareStatus(dev, dom, o) = "Success"
    <2>1. /\ z.state = "Prepared" /\ z.dev = dev /\ z.owner = o /\ z.domain = dom
          /\ z.generation = generation /\ z \in AssignmentRecords
        BY <1>1, <1>3, <1>5, Zenon DEF AssignmentRecords, AssignmentStates
    <2>2. assign' \in [AssignmentSlots -> {EmptyAssignment} \cup AssignmentRecords]
        BY <1>1, <1>3, <2>1, Zenon
    <2> QED BY <1>1, <1>2, <1>4, <1>5, <2>1, <2>2, AssignmentMoves
<1>6. CASE PrepareStatus(dev, dom, o) # "Success"
    <2>1. z = EmptyAssignment /\ z.state = "Empty" /\ z.generation = 0
        BY <1>3, <1>6, Zenon DEF EmptyAssignment
    <2>2. assign' \in [AssignmentSlots -> {EmptyAssignment} \cup AssignmentRecords]
        BY <1>1, <1>3, <2>1, Zenon
    <2>3. ~Live(a)'
        BY <1>4, <2>1, Zenon DEF Live
    <2> QED BY <1>1, <1>2, <1>4, <2>1, <2>2, <2>3, AssignmentMoves
<1> QED BY <1>5, <1>6, Zenon

\* Activation, detach and quarantine change the state field only.
LEMMA AssignmentAdvances ==
    ASSUME IommuInv, NEW a \in AssignmentSlots,
           NEW to \in {"Active", "Draining", "Retired", "Quarantined"},
           UNCHANGED <<generation, features, profile, stamp, device, faults>>,
           Live(a), assign' = [assign EXCEPT ![a].state = to],
           to \in {"Active", "Draining"} =>
             /\ ~device[assign[a].dev].hostBound
             /\ {device[assign[a].dev].dma, device[assign[a].dev].holds}
                  \subseteq {assign[a].owner, Nobody},
           to = "Retired" =>
             device[assign[a].dev].dma = Nobody /\ device[assign[a].dev].holds = Nobody
    PROVE  IommuInv'
<1>1. /\ assign \in [AssignmentSlots -> {EmptyAssignment} \cup AssignmentRecords]
      /\ \A b \in AssignmentSlots : Live(b) /\ assign[b].dev = assign[a].dev => b = a
      /\ assign[a].generation <= generation
    BY Zenon DEF IommuInv, IommuTypeOK, AssignmentRecords, AssignmentsAreCurrent
<1>2. assign[a] \in AssignmentRecords
    BY <1>1 DEF Live, EmptyAssignment
<1>3. /\ assign'[a] \in AssignmentRecords /\ assign'[a].state = to
      /\ assign'[a].dev = assign[a].dev /\ assign'[a].owner = assign[a].owner
      /\ assign'[a].generation = assign[a].generation
      /\ \A b \in AssignmentSlots \ {a} : assign'[b] = assign[b]
    BY <1>1, <1>2, Zenon DEF AssignmentRecords, AssignmentStates
<1>4. assign' \in [AssignmentSlots -> {EmptyAssignment} \cup AssignmentRecords]
    BY <1>1, <1>3, Zenon
<1>5. Live(a)' \/ to = "Retired"
    BY <1>3, Zenon DEF Live
<1> QED BY <1>1, <1>3, <1>4, <1>5, AssignmentMoves

\* ActivateIommuAssignment, BeginIommuDetach, CompleteIommuDetach and
\* QuarantineIommuAssignment: what readiness they ask for is what the next state needs.
LEMMA AdvanceKeeps ==
    ASSUME IommuInv, NEW a \in AssignmentSlots,
           \/ ActivateIommuAssignment(a) \/ BeginIommuDetach(a) \/ CompleteIommuDetach(a)
           \/ \E f \in faults : QuarantineIommuAssignment(a, f)
    PROVE  IommuInv'
<1>1. UNCHANGED <<generation, features, profile, stamp, device, faults>>
    BY Zenon DEF ActivateIommuAssignment, BeginIommuDetach, CompleteIommuDetach,
       AdvanceAssignment, QuarantineIommuAssignment
<1>2. CASE ActivateIommuAssignment(a)
    <2>1. /\ assign[a].state = "Prepared" /\ ReadyBits \subseteq Readiness(assign[a].dev)
          /\ assign' = [assign EXCEPT ![a].state = "Active"]
        BY <1>2, Zenon DEF ActivateIommuAssignment, AdvanceAssignment, ActivateReady
    <2>2. /\ ~device[assign[a].dev].hostBound /\ device[assign[a].dev].dma = Nobody
          /\ device[assign[a].dev].holds = Nobody
        BY <2>1, ReadinessFacts, Zenon DEF ReadyBits
    <2>3. Live(a)
        BY <2>1, Zenon DEF Live
    <2> QED BY <1>1, <2>1, <2>2, <2>3, AssignmentAdvances, Zenon
<1>3. CASE BeginIommuDetach(a)
    <2>1. assign[a].state = "Active" /\ assign' = [assign EXCEPT ![a].state = "Draining"]
        BY <1>3, Zenon DEF BeginIommuDetach, AdvanceAssignment
    <2>2. /\ ~device[assign[a].dev].hostBound
          /\ {device[assign[a].dev].dma, device[assign[a].dev].holds}
               \subseteq {assign[a].owner, Nobody}
        BY <2>1, Zenon DEF IommuInv, AttachedDeviceIsOwnersOnly
    <2>3. Live(a)
        BY <2>1, Zenon DEF Live
    <2> QED BY <1>1, <2>1, <2>2, <2>3, AssignmentAdvances, Zenon
<1>4. CASE CompleteIommuDetach(a)
    <2>1. /\ assign[a].state = "Draining" /\ CompleteDetachReady \subseteq Readiness(assign[a].dev)
          /\ assign' = [assign EXCEPT ![a].state = "Retired"]
        BY <1>4, Zenon DEF CompleteIommuDetach, AdvanceAssignment
    <2>2. device[assign[a].dev].dma = Nobody /\ device[assign[a].dev].holds = Nobody
        BY <2>1, ReadinessFacts, Zenon DEF CompleteDetachReady, DetachReady, ReadyBits
    <2>3. Live(a)
        BY <2>1, Zenon DEF Live
    <2> QED BY <1>1, <2>1, <2>2, <2>3, AssignmentAdvances, Zenon
<1>5. CASE \E f \in faults : QuarantineIommuAssignment(a, f)
    <2>1. Live(a) /\ assign' = [assign EXCEPT ![a].state = "Quarantined"]
        BY <1>5, Zenon DEF QuarantineIommuAssignment, Live
    <2> QED BY <1>1, <2>1, AssignmentAdvances, Zenon
<1> QED BY <1>2, <1>3, <1>4, <1>5, Zenon

\* A probe makes every assignment's stamp old.
LEMMA ProbeKeeps ==
    ASSUME IommuInv, Probe
    PROVE  IommuInv'
<1>1. /\ generation < MaxIommuGeneration /\ generation' = generation + 1
      /\ features' \in Features /\ UNCHANGED <<stamp, assign, device, faults>>
    BY Zenon DEF Probe
<1>2. generation \in Nat /\ generation' \in 1 .. MaxIommuGeneration
    BY <1>1, IommuConstants DEF IommuInv, IommuTypeOK
<1>3. IommuTypeOK'
    BY <1>1, <1>2, Zenon DEF IommuInv, IommuTypeOK
<1>4. AttachedDeviceIsOwnersOnly' /\ NoGuestResidue'
    BY <1>1 DEF IommuInv, AttachedDeviceIsOwnersOnly, NoGuestResidue, Live
<1>5. ASSUME NEW a \in AssignmentSlots
      PROVE  assign'[a].generation <= generation' /\ assign'[a].generation # generation'
    <2>1. assign[a].generation \in Nat /\ assign[a].generation <= generation
        BY SMTT(60) DEF IommuInv, IommuTypeOK, AssignmentsAreCurrent, EmptyAssignment
    <2> QED BY <1>1, <1>2, <2>1, SMTT(60)
<1>6. \A a, b \in AssignmentSlots :
        Live(a)' /\ Live(b)' /\ assign'[a].dev = assign'[b].dev => a = b
    BY <1>1, Zenon DEF IommuInv, AssignmentsAreCurrent, Live
<1>7. AssignmentsAreCurrent'
    BY <1>5, <1>6, Zenon DEF AssignmentsAreCurrent
<1> QED BY <1>3, <1>4, <1>7, Zenon DEF IommuInv

\* A domain that is rebuilt had an old stamp, so nothing current rests on it.
LEMMA RebuildKeeps ==
    ASSUME IommuInv, NEW dom \in DOMAIN Domains, RebuildDomain(dom)
    PROVE  IommuInv'
<1>1. /\ stamp[dom] # generation /\ stamp' = [stamp EXCEPT ![dom] = generation]
      /\ UNCHANGED <<generation, features, profile, assign, device, faults>>
    BY Zenon DEF RebuildDomain
<1>2. /\ stamp' \in [DOMAIN Domains -> 1 .. MaxIommuGeneration]
      /\ \A d \in DOMAIN Domains \ {dom} : stamp'[d] = stamp[d]
    BY <1>1, Zenon DEF IommuInv, IommuTypeOK
<1>3. IommuTypeOK'
    BY <1>1, <1>2, Zenon DEF IommuInv, IommuTypeOK
<1>4. AttachedDeviceIsOwnersOnly' /\ NoGuestResidue'
    BY <1>1 DEF IommuInv, AttachedDeviceIsOwnersOnly, NoGuestResidue, Live
<1>5. ASSUME NEW a \in AssignmentSlots, assign[a].state = "Prepared",
             assign[a].generation = generation
      PROVE  PrepareStatus(assign[a].dev, assign[a].domain, assign[a].owner)' = "Success"
    <2>1. PrepareStatus(assign[a].dev, assign[a].domain, assign[a].owner) = "Success"
        BY <1>5, Zenon DEF IommuInv, AssignmentsAreCurrent
    <2>2. stamp[assign[a].domain] = generation
        BY <2>1, PermittedFacts, Zenon
    <2>3. assign[a].domain \in DOMAIN Domains
        BY <1>5 DEF IommuInv, IommuTypeOK, EmptyAssignment
    <2>4. stamp'[assign[a].domain] = stamp[assign[a].domain]
        BY <1>1, <1>2, <2>2, <2>3, Zenon
    <2> QED BY <1>1, <2>1, <2>4, Zenon DEF PrepareStatus
<1>6. /\ \A a \in AssignmentSlots : assign'[a].generation <= generation'
      /\ \A a, b \in AssignmentSlots :
           Live(a)' /\ Live(b)' /\ assign'[a].dev = assign'[b].dev => a = b
    BY <1>1, Zenon DEF IommuInv, AssignmentsAreCurrent, Live
<1>7. AssignmentsAreCurrent'
    BY <1>1, <1>5, <1>6, Zenon DEF AssignmentsAreCurrent
<1> QED BY <1>3, <1>4, <1>7, Zenon DEF IommuInv

\* A step of one device: who may hold it follows from its live assignment.
LEMMA DeviceMoves ==
    ASSUME IommuInv, NEW dev \in Devices, NEW d \in DeviceRecords, Device(dev, d),
           \A a \in AssignmentSlots :
              (assign[a].state \in {"Active", "Draining"} /\ assign[a].dev = dev) =>
                 ~d.hostBound /\ {d.dma, d.holds} \subseteq {assign[a].owner, Nobody},
           \A o \in Owners : o \in {d.dma, d.holds} =>
              \E a \in AssignmentSlots : Live(a) /\ assign[a].dev = dev /\ assign[a].owner = o
    PROVE  IommuInv'
<1>1. /\ UNCHANGED <<generation, features, profile, stamp, assign, faults>>
      /\ device \in [Devices -> DeviceRecords] /\ device' = [device EXCEPT ![dev] = d]
    BY Zenon DEF Device, IommuInv, IommuTypeOK, DeviceRecords
<1>2. /\ device' \in [Devices -> DeviceRecords] /\ device'[dev] = d
      /\ \A e \in Devices \ {dev} : device'[e] = device[e]
    BY <1>1, Zenon
<1>3. IommuTypeOK'
    BY <1>1, <1>2, Zenon DEF IommuInv, IommuTypeOK, DeviceRecords
<1>4. AttachedDeviceIsOwnersOnly'
    <2> SUFFICES ASSUME NEW a \in AssignmentSlots, assign[a].state \in {"Active", "Draining"}
                 PROVE  /\ ~device'[assign[a].dev].hostBound
                        /\ {device'[assign[a].dev].dma, device'[assign[a].dev].holds}
                             \subseteq {assign[a].owner, Nobody}
        BY <1>1, Zenon DEF AttachedDeviceIsOwnersOnly
    <2>1. assign[a].dev \in Devices
        BY SMTT(60) DEF IommuInv, IommuTypeOK, EmptyAssignment
    <2>2. CASE assign[a].dev = dev
        BY <1>2, <2>2, Zenon
    <2>3. CASE assign[a].dev # dev
        BY <1>2, <2>1, <2>3 DEF IommuInv, AttachedDeviceIsOwnersOnly
    <2> QED BY <2>2, <2>3, Zenon
<1>5. NoGuestResidue'
    <2> SUFFICES ASSUME NEW e \in Devices, NEW o \in Owners,
                        o \in {device'[e].dma, device'[e].holds}
                 PROVE  \E a \in AssignmentSlots :
                           Live(a) /\ assign[a].dev = e /\ assign[a].owner = o
        BY <1>1 DEF NoGuestResidue, Live
    <2>1. CASE e = dev
        BY <1>2, <2>1, Zenon
    <2>2. CASE e # dev
        BY <1>2, <2>2, SMTT(60) DEF IommuInv, NoGuestResidue
    <2> QED BY <2>1, <2>2, Zenon
<1>6. AssignmentsAreCurrent'
    <2>1. \A a \in AssignmentSlots :
            /\ Live(a)' <=> Live(a)
            /\ PrepareStatus(assign[a].dev, assign[a].domain, assign[a].owner)'
                 = PrepareStatus(assign[a].dev, assign[a].domain, assign[a].owner)
        BY <1>1, ZenonT(60) DEF Live, PrepareStatus
    <2> QED BY <1>1, <2>1, Zenon DEF IommuInv, AssignmentsAreCurrent
<1> QED BY <1>3, <1>4, <1>5, <1>6, Zenon DEF IommuInv

\* StartDma: the one who may use the device is the host, or the owner of the only
\* assignment attached to it.
LEMMA StartDmaKeeps ==
    ASSUME IommuInv, NEW dev \in Devices, StartDma(dev)
    PROVE  IommuInv'
<1>1. PICK who \in Users(dev) :
         Device(dev, [device[dev] EXCEPT !.dma = who, !.holds = who, !.irq = TRUE])
    BY Zenon DEF StartDma
<1>2. device[dev] \in DeviceRecords
    BY Zenon DEF IommuInv, IommuTypeOK, DeviceRecords
<1>3. \A a \in AssignmentSlots : assign[a].state \in {"Active", "Draining"} =>
        /\ Live(a) /\ assign[a].owner \in Owners
        /\ assign[a].dev = dev => ~device[dev].hostBound
    BY DEF IommuInv, IommuTypeOK, AttachedDeviceIsOwnersOnly, Live, EmptyAssignment
<1>4. PICK d : d = [device[dev] EXCEPT !.dma = who, !.holds = who, !.irq = TRUE]
    BY Zenon
<1>5. CASE device[dev].hostBound
    <2>1. who = Host
        BY <1>1, <1>3, <1>5, Zenon DEF Users
    <2>2. d \in DeviceRecords /\ d.dma = Host /\ d.holds = Host
        BY <1>2, <1>4, <2>1, Zenon DEF DeviceRecords, Holders
    <2>3. \A a \in AssignmentSlots :
            ~(assign[a].state \in {"Active", "Draining"} /\ assign[a].dev = dev)
        BY <1>3, <1>5, Zenon
    <2>4. Host \notin Owners
        BY IommuConstants, Zenon DEF Host
    <2>5. \A o \in Owners : o \notin {d.dma, d.holds}
        BY <2>2, <2>4, Zenon
    <2>6. Device(dev, d)
        BY <1>1, <1>4, Zenon
    <2> HIDE DEF Device, Live
    <2> QED BY <2>2, <2>3, <2>5, <2>6, DeviceMoves, Zenon
<1>6. CASE ~device[dev].hostBound
    <2>1. PICK b \in AssignmentSlots : /\ assign[b].state \in {"Active", "Draining"}
                                       /\ assign[b].dev = dev /\ who = assign[b].owner
        BY <1>1, <1>6, Zenon DEF Users
    <2>2. /\ d \in DeviceRecords /\ d.dma = who /\ d.holds = who
          /\ d.hostBound = device[dev].hostBound
        BY <1>2, <1>3, <1>4, <2>1, Zenon DEF DeviceRecords, Holders
    <2>3. Live(b)
        BY <1>3, <2>1, Zenon
    <2>4. \A a \in AssignmentSlots :
            (assign[a].state \in {"Active", "Draining"} /\ assign[a].dev = dev) => a = b
        BY <1>3, <2>1, Zenon DEF IommuInv, AssignmentsAreCurrent
    <2>5. \A a \in AssignmentSlots :
            (assign[a].state \in {"Active", "Draining"} /\ assign[a].dev = dev) =>
               ~d.hostBound /\ {d.dma, d.holds} \subseteq {assign[a].owner, Nobody}
        BY <1>6, <2>1, <2>2, <2>4, Zenon
    <2>6. \A o \in Owners : o \in {d.dma, d.holds} =>
            \E a \in AssignmentSlots : Live(a) /\ assign[a].dev = dev /\ assign[a].owner = o
        BY <2>1, <2>2, <2>3, Zenon
    <2> QED BY <1>1, <1>4, <2>2, <2>5, <2>6, DeviceMoves, Zenon
<1> QED BY <1>5, <1>6, Zenon

\* The other steps of a device take holders away, or give it back to the host while
\* nobody has it.
LEMMA DeviceStepKeeps ==
    ASSUME IommuInv, NEW dev \in Devices,
           \/ FinishDma(dev) \/ DrainInterrupts(dev) \/ Reset(dev)
           \/ HostReleases(dev) \/ HostTakes(dev)
    PROVE  IommuInv'
<1>1. device[dev] \in DeviceRecords
    BY Zenon DEF IommuInv, IommuTypeOK, DeviceRecords
<1>2. PICK d \in DeviceRecords :
         /\ Device(dev, d)
         /\ d.dma \in {device[dev].dma, Nobody} /\ d.holds \in {device[dev].holds, Nobody}
         /\ d.hostBound => \/ device[dev].hostBound
                           \/ \A a \in AssignmentSlots : Live(a) => assign[a].dev # dev
    <2>1. CASE FinishDma(dev)
        <3>1. PICK d : d = [device[dev] EXCEPT !.dma = Nobody] /\ Device(dev, d)
            BY <2>1, Zenon DEF FinishDma
        <3>2. /\ d \in DeviceRecords
              /\ d.dma = Nobody /\ d.holds = device[dev].holds
              /\ d.hostBound = device[dev].hostBound
            BY <1>1, <3>1, Zenon DEF DeviceRecords, Holders
        <3> QED BY <3>1, <3>2, Zenon
    <2>2. CASE DrainInterrupts(dev)
        <3>1. PICK d : d = [device[dev] EXCEPT !.irq = FALSE] /\ Device(dev, d)
            BY <2>2, Zenon DEF DrainInterrupts
        <3>2. /\ d \in DeviceRecords
              /\ d.dma = device[dev].dma /\ d.holds = device[dev].holds
              /\ d.hostBound = device[dev].hostBound
            BY <1>1, <3>1, Zenon DEF DeviceRecords, Holders
        <3> QED BY <3>1, <3>2, Zenon
    <2>3. CASE Reset(dev)
        <3>1. PICK d : d = [device[dev] EXCEPT !.holds = Nobody] /\ Device(dev, d)
            BY <2>3, Zenon DEF Reset
        <3>2. /\ d \in DeviceRecords
              /\ d.dma = device[dev].dma /\ d.holds = Nobody
              /\ d.hostBound = device[dev].hostBound
            BY <1>1, <3>1, Zenon DEF DeviceRecords, Holders
        <3> QED BY <3>1, <3>2, Zenon
    <2>4. CASE HostReleases(dev)
        <3>1. PICK d : d = [device[dev] EXCEPT !.hostBound = FALSE] /\ Device(dev, d)
            BY <2>4, Zenon DEF HostReleases
        <3>2. /\ d \in DeviceRecords
              /\ d.dma = device[dev].dma /\ d.holds = device[dev].holds
              /\ d.hostBound = FALSE
            BY <1>1, <3>1, Zenon DEF DeviceRecords, Holders
        <3> QED BY <3>1, <3>2, Zenon
    <2>5. CASE HostTakes(dev)
        <3>1. PICK d : d = [device[dev] EXCEPT !.hostBound = TRUE] /\ Device(dev, d)
            BY <2>5, Zenon DEF HostTakes
        <3>2. /\ d \in DeviceRecords
              /\ d.dma = device[dev].dma /\ d.holds = device[dev].holds
              /\ d.hostBound = TRUE
            BY <1>1, <3>1, Zenon DEF DeviceRecords, Holders
        <3>3. \A a \in AssignmentSlots : Live(a) => assign[a].dev # dev
            BY <2>5, Zenon DEF HostTakes
        <3> QED BY <3>1, <3>2, <3>3, Zenon
    <2> QED BY <2>1, <2>2, <2>3, <2>4, <2>5, Zenon
<1>3. \A a \in AssignmentSlots :
        (assign[a].state \in {"Active", "Draining"} /\ assign[a].dev = dev) =>
           ~d.hostBound /\ {d.dma, d.holds} \subseteq {assign[a].owner, Nobody}
    BY <1>2, Zenon DEF IommuInv, AttachedDeviceIsOwnersOnly, Live
<1>4. \A o \in Owners : o \in {d.dma, d.holds} =>
        \E a \in AssignmentSlots : Live(a) /\ assign[a].dev = dev /\ assign[a].owner = o
    <2>1. Nobody \notin Owners
        BY IommuConstants, Zenon DEF Nobody
    <2> QED BY <1>2, <2>1 DEF IommuInv, NoGuestResidue
<1> QED BY <1>2, <1>3, <1>4, DeviceMoves, Zenon

\* A fault is recorded, and nothing else happens.
LEMMA FaultKeeps ==
    ASSUME IommuInv, NEW dev \in Devices, Fault(dev)
    PROVE  IommuInv'
<1>1. /\ UNCHANGED <<generation, features, profile, stamp, assign, device>>
      /\ faults' = faults \cup {[dev |-> dev, generation |-> generation]}
    BY Zenon DEF Fault
<1>2. IommuTypeOK'
    BY <1>1, SMTT(60) DEF IommuInv, IommuTypeOK
<1>3. AttachedDeviceIsOwnersOnly' /\ NoGuestResidue'
    BY <1>1, SMTT(60) DEF IommuInv, AttachedDeviceIsOwnersOnly, NoGuestResidue, Live
<1>4. AssignmentsAreCurrent'
    <2>1. \A a \in AssignmentSlots :
            /\ Live(a)' <=> Live(a)
            /\ PrepareStatus(assign[a].dev, assign[a].domain, assign[a].owner)'
                 = PrepareStatus(assign[a].dev, assign[a].domain, assign[a].owner)
        BY <1>1, ZenonT(60) DEF Live, PrepareStatus
    <2> QED BY <1>1, <2>1, Zenon DEF IommuInv, AssignmentsAreCurrent
<1> QED BY <1>2, <1>3, <1>4, Zenon DEF IommuInv

\* Every step of the assignments, the platform and the devices, and a stutter.
LEMMA IommuStepKeeps ==
    IommuInv /\ [IommuNext]_iommuVars => IommuInv'
<1> SUFFICES ASSUME IommuInv, [IommuNext]_iommuVars PROVE IommuInv'
    BY Zenon
<1>1. CASE UNCHANGED iommuVars
    <2>1. UNCHANGED <<generation, features, profile, stamp, assign, device, faults>>
        BY <1>1, Zenon DEF iommuVars
    <2>2. IommuTypeOK' /\ AttachedDeviceIsOwnersOnly' /\ NoGuestResidue'
        BY <2>1 DEF IommuInv, IommuTypeOK, AttachedDeviceIsOwnersOnly, NoGuestResidue, Live
    <2>3. \A a \in AssignmentSlots :
            /\ Live(a)' <=> Live(a)
            /\ PrepareStatus(assign[a].dev, assign[a].domain, assign[a].owner)'
                 = PrepareStatus(assign[a].dev, assign[a].domain, assign[a].owner)
        BY <2>1, Zenon DEF Live, PrepareStatus
    <2>4. AssignmentsAreCurrent'
        BY <2>1, <2>3, Zenon DEF IommuInv, AssignmentsAreCurrent
    <2> QED BY <2>2, <2>4, Zenon DEF IommuInv
<1>2. CASE IommuNext
    BY <1>2, PrepareKeeps, AdvanceKeeps, ProbeKeeps, RebuildKeeps, StartDmaKeeps,
       DeviceStepKeeps, FaultKeeps, Zenon DEF IommuNext
<1> QED BY <1>1, <1>2, Zenon

\* What an assignment may do in one step: only ActivateIommuAssignment makes a
\* prepared one active, and it asks for the current generation; nothing moves a
\* quarantined one.
LEMMA AssignmentSteps ==
    ASSUME IommuInv, [IommuNext]_iommuVars, NEW a \in AssignmentSlots
    PROVE  /\ (assign[a].state = "Prepared" /\ assign'[a].state = "Active") =>
                assign[a].generation = generation
           /\ assign[a].state = "Quarantined" => assign'[a] = assign[a]
<1>0. assign \in [AssignmentSlots -> {EmptyAssignment} \cup AssignmentRecords]
    BY Zenon DEF IommuInv, IommuTypeOK, AssignmentRecords
<1>1. CASE \E b \in AssignmentSlots, dev \in Devices, dom \in DOMAIN Domains, o \in Owners :
             PrepareIommuAssignment(b, dev, dom, o)
    <2>1. PICK b \in AssignmentSlots :
             ~Live(b) /\ \E z : assign' = [assign EXCEPT ![b] = z]
        BY <1>1, Zenon DEF PrepareIommuAssignment
    <2>2. PICK z : assign' = [assign EXCEPT ![b] = z]
        BY <2>1, Zenon
    <2> QED BY <1>0, <2>1, <2>2, Zenon DEF Live
<1>2. CASE \E b \in AssignmentSlots : ActivateIommuAssignment(b)
    BY <1>0, <1>2, Zenon DEF ActivateIommuAssignment, AdvanceAssignment
<1>3. CASE \E b \in AssignmentSlots : BeginIommuDetach(b) \/ CompleteIommuDetach(b)
    <2>1. PICK b \in AssignmentSlots : BeginIommuDetach(b) \/ CompleteIommuDetach(b)
        BY <1>3, Zenon
    <2>2. assign[b].state \in {"Active", "Draining"}
        BY <2>1, Zenon DEF BeginIommuDetach, CompleteIommuDetach, AdvanceAssignment
    <2>3. \/ assign' = [assign EXCEPT ![b].state = "Draining"]
          \/ assign' = [assign EXCEPT ![b].state = "Retired"]
        BY <2>1, Zenon DEF BeginIommuDetach, CompleteIommuDetach, AdvanceAssignment
    <2> QED BY <1>0, <2>2, <2>3, Zenon
<1>4. CASE \E b \in AssignmentSlots, f \in faults : QuarantineIommuAssignment(b, f)
    <2>1. PICK b \in AssignmentSlots : /\ assign[b].state \notin {"Empty", "Quarantined"}
                                       /\ assign' = [assign EXCEPT ![b].state = "Quarantined"]
        BY <1>4, Zenon DEF QuarantineIommuAssignment
    <2>2. assign[b] \in AssignmentRecords
        BY <1>0, <2>1 DEF EmptyAssignment
    <2>3. assign'[b].state = "Quarantined" /\ (b # a => assign'[a] = assign[a])
        BY <1>0, <2>1, <2>2, Zenon DEF AssignmentRecords
    <2> QED BY <2>1, <2>3, Zenon
<1>5. CASE UNCHANGED assign
    BY <1>5, Zenon
<1>6. \/ UNCHANGED assign
      \/ \E b \in AssignmentSlots, dev \in Devices, dom \in DOMAIN Domains, o \in Owners :
            PrepareIommuAssignment(b, dev, dom, o)
      \/ \E b \in AssignmentSlots : ActivateIommuAssignment(b)
      \/ \E b \in AssignmentSlots : BeginIommuDetach(b) \/ CompleteIommuDetach(b)
      \/ \E b \in AssignmentSlots, f \in faults : QuarantineIommuAssignment(b, f)
    BY Zenon DEF IommuNext, iommuVars, Probe, RebuildDomain, StartDma, FinishDma,
       DrainInterrupts, Reset, HostReleases, HostTakes, Device, Fault
<1> QED BY <1>1, <1>2, <1>3, <1>4, <1>5, <1>6, Zenon

\* iommu_model.cpp, for any number of devices, guests, domains, assignment records and
\* probes: an attached device is its owner's only and leaves nothing behind, an
\* assignment becomes active only while it is permitted, and quarantine is final.
THEOREM DevicesStayExclusive == IommuSpec => DevicesAreExclusive
<1>1. IommuInit => IommuInv
    BY IommuInitHolds, Zenon
<1>2. IommuInv /\ [IommuNext]_iommuVars => IommuInv'
    BY IommuStepKeeps, Zenon
<1>3. IommuInv /\ [IommuNext]_iommuVars =>
        [\A a \in AssignmentSlots :
           (assign[a].state = "Prepared" /\ assign'[a].state = "Active") =>
             PrepareStatus(assign[a].dev, assign[a].domain, assign[a].owner) = "Success"]_iommuVars
    BY AssignmentSteps, Zenon DEF IommuInv, AssignmentsAreCurrent
<1>4. IommuInv /\ [IommuNext]_iommuVars =>
        [\A a \in AssignmentSlots :
           assign[a].state = "Quarantined" => assign'[a] = assign[a]]_iommuVars
    BY AssignmentSteps, Zenon
<1>5. IommuInv => /\ IommuTypeOK /\ AttachedDeviceIsOwnersOnly /\ NoGuestResidue
                  /\ AssignmentsAreCurrent
    BY Zenon DEF IommuInv
<1> QED BY <1>1, <1>2, <1>3, <1>4, <1>5, PTL
    DEF IommuSpec, DevicesAreExclusive, ActivationIsStillPermitted, QuarantineKeepsDevice

=============================================================================
