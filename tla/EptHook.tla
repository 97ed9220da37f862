------------------------------ MODULE EptHook -------------------------------
(***************************************************************************)
(* EPT generations and hook transactions (ept/ept_model.cpp 281-517 and    *)
(* 541-594).                                                               *)
(*                                                                         *)
(* A generation of the EPT is begun from the active one, acknowledged by   *)
(* every processor and published.  A hook update is a transaction against  *)
(* one generation: prepared, acknowledged, published, and retired once the *)
(* next generation is current; or rolled back, expired or quarantined.     *)
(*                                                                         *)
(* External: the caller that passes the current generation and the time,   *)
(* sets required_cpu_acks to the number of processors, and installs a      *)
(* published generation as the current one; and the processors, each of    *)
(* which acknowledges a generation after it has switched to it, once.      *)
(***************************************************************************)
EXTENDS Integers, FiniteSets

CONSTANTS
  HookCpus,          \* processors
  Txns,              \* transaction records
  MaxEptGeneration,  \* the largest generation number, ~0ULL in the code
  MaxTime,           \* bound of the time stamp counter
  Leases,            \* hook leases the broker may have granted
  HookRequests       \* hook requests clients may send

ASSUME EptHookConstants ==
  /\ IsFiniteSet(HookCpus) /\ HookCpus # {}
  /\ MaxEptGeneration \in Nat \ {0} /\ MaxTime \in Nat

VARIABLES
  current,  \* the number of the active EptGeneration
  pending,  \* the pending EptGeneration, or NoGeneration
  view,     \* per processor, the generation it runs on
  hook,     \* the transaction records
  acked,    \* the processors that acknowledged each transaction
  now       \* the time stamp counter

hookVars == <<current, pending, view, hook, acked, now>>

HookStates == {"None", "Prepared", "Published", "Retired", "RolledBack", "Quarantined"}
HookKinds == {"Execute", "Read", "Write", "Access", "Monitor"}
RequiredAcks == Cardinality(HookCpus)

NoGeneration == [generation |-> 0, parent |-> 0, observed |-> 0]
NoTransaction == [state |-> "None", parent |-> 0, pending |-> 0, deadline |-> 0, observed |-> 0]

----------------------------------------------------------------------------
(* Generations. *)

NextEptGeneration(g) == g + 1

BeginEptGeneration ==
  /\ pending = NoGeneration
  /\ current < MaxEptGeneration
  /\ pending' = [generation |-> NextEptGeneration(current), parent |-> current, observed |-> 0]
  /\ UNCHANGED <<current, view, hook, acked, now>>

\* Processor c switches to the pending generation and acknowledges it.
AcknowledgeEptGeneration(c) ==
  /\ pending # NoGeneration
  /\ view[c] # pending.generation
  /\ pending.observed < RequiredAcks
  /\ view' = [view EXCEPT ![c] = pending.generation]
  /\ pending' = [pending EXCEPT !.observed = @ + 1]
  /\ UNCHANGED <<current, hook, acked, now>>

\* The published generation becomes the current one.
PublishEptGeneration ==
  /\ pending # NoGeneration /\ pending.observed = RequiredAcks
  /\ current' = pending.generation /\ pending' = NoGeneration
  /\ UNCHANGED <<view, hook, acked, now>>

----------------------------------------------------------------------------
(* Hook transactions. *)

IsEptHookLeaseValid(l) ==
  /\ l.owner # 0 /\ l.generation # 0 /\ l.expires # 0
  /\ l.view = "GuestDebug" /\ l.kind \in HookKinds
  /\ l.state = "Active" /\ l.maxPages # 0

IsEptHookRequestValid(r) ==
  /\ r.owner # 0 /\ r.expected # 0 /\ r.pages # 0
  /\ r.view = "GuestDebug" /\ r.kind \in HookKinds

CanPublishEptHook(l, r) ==
  /\ IsEptHookLeaseValid(l) /\ IsEptHookRequestValid(r)
  /\ current # 0 /\ l.owner = r.owner
  /\ l.generation = current /\ r.expected = current
  /\ l.kind = r.kind /\ now < l.expires /\ r.pages <= l.maxPages

IsEptHookTransactionValid(t) ==
  /\ hook[t].state # "None"
  /\ hook[t].parent # 0 /\ hook[t].parent # MaxEptGeneration
  /\ hook[t].pending = hook[t].parent + 1
  /\ hook[t].deadline # 0
  /\ hook[t].observed <= RequiredAcks

\* A record is begun again only when its last update is settled.
BeginEptHookUpdate(t, l, r) ==
  /\ hook[t].state \notin {"Prepared", "Published"}
  /\ hook' = [hook EXCEPT ![t] =
       IF CanPublishEptHook(l, r) /\ current # MaxEptGeneration
       THEN [state |-> "Prepared", parent |-> current, pending |-> current + 1,
             deadline |-> l.expires, observed |-> 0]
       ELSE NoTransaction]
  /\ acked' = [acked EXCEPT ![t] = {}]
  /\ UNCHANGED <<current, pending, view, now>>

IsEptHookTransactionLive(t) ==
  /\ IsEptHookTransactionValid(t)
  /\ hook[t].state \in {"Prepared", "Published"}
  /\ now < hook[t].deadline

\* Processor c, running on the given generation, acknowledges the update.
AcknowledgeEptHookCpu(t, c, generation) ==
  /\ c \notin acked[t]
  /\ IsEptHookTransactionLive(t) /\ hook[t].state = "Prepared"
  /\ generation = hook[t].parent
  /\ 1 <= RequiredAcks - hook[t].observed
  /\ hook' = [hook EXCEPT ![t].observed = @ + 1]
  /\ acked' = [acked EXCEPT ![t] = @ \cup {c}]
  /\ UNCHANGED <<current, pending, view, now>>

SettleAs(t, state) ==
  /\ hook' = [hook EXCEPT ![t].state = state]
  /\ UNCHANGED <<current, pending, view, acked, now>>

PublishEptHookUpdate(t) ==
  /\ IsEptHookTransactionLive(t) /\ hook[t].state = "Prepared"
  /\ current = hook[t].parent /\ hook[t].observed = RequiredAcks
  /\ SettleAs(t, "Published")

RetireEptHookUpdate(t) ==
  /\ IsEptHookTransactionValid(t) /\ hook[t].state = "Published"
  /\ current = hook[t].pending
  /\ SettleAs(t, "Retired")

\* The generation an update in its state must find current.
ExpectedGeneration(t) ==
  IF hook[t].state = "Prepared" THEN hook[t].parent ELSE hook[t].pending

\* Mutant: rolled back whatever generation is current.
RollbackOvertaken(t) ==
  /\ IsEptHookTransactionValid(t) /\ hook[t].state \in {"Prepared", "Published"}
  /\ SettleAs(t, "RolledBack")

RollbackEptHookUpdate(t) ==
  /\ IsEptHookTransactionValid(t) /\ hook[t].state \in {"Prepared", "Published"}
  /\ current = ExpectedGeneration(t)
  /\ SettleAs(t, "RolledBack")

QuarantineEptHookUpdate(t) ==
  /\ IsEptHookTransactionValid(t)
  /\ hook[t].state \notin {"Retired", "RolledBack", "Quarantined"}
  /\ current = ExpectedGeneration(t)
  /\ SettleAs(t, "Quarantined")

ExpireEptHookUpdate(t) ==
  /\ IsEptHookTransactionValid(t) /\ now >= hook[t].deadline
  /\ current = ExpectedGeneration(t)
  /\ \/ hook[t].state = "Prepared" /\ SettleAs(t, "RolledBack")
     \/ hook[t].state = "Published" /\ SettleAs(t, "Quarantined")

Tick ==
  /\ now < MaxTime /\ now' = now + 1
  /\ UNCHANGED <<current, pending, view, hook, acked>>

----------------------------------------------------------------------------
HookInit ==
  /\ current = 1 /\ pending = NoGeneration
  /\ view = [c \in HookCpus |-> 1]
  /\ hook = [t \in Txns |-> NoTransaction]
  /\ acked = [t \in Txns |-> {}]
  /\ now = 0

HookNext ==
  \/ BeginEptGeneration \/ PublishEptGeneration \/ Tick
  \/ \E c \in HookCpus : AcknowledgeEptGeneration(c)
  \/ \E t \in Txns :
       \/ \E l \in Leases, r \in HookRequests : BeginEptHookUpdate(t, l, r)
       \/ \E c \in HookCpus : AcknowledgeEptHookCpu(t, c, view[c])
       \/ PublishEptHookUpdate(t)
       \/ RetireEptHookUpdate(t)
       \/ RollbackEptHookUpdate(t)
       \/ QuarantineEptHookUpdate(t)
       \/ ExpireEptHookUpdate(t)

HookSpec == HookInit /\ [][HookNext]_hookVars

----------------------------------------------------------------------------
Settled(t) == hook[t].state \in {"Retired", "RolledBack", "Quarantined"}

\* Every record has its shape, and every transaction that was ever begun is
\* one IsEptHookTransactionValid accepts, so that it can always be settled.
HookTypeOK ==
  /\ current \in 1 .. MaxEptGeneration
  /\ pending \in [generation : 0 .. MaxEptGeneration, parent : 0 .. MaxEptGeneration,
                  observed : 0 .. RequiredAcks]
  /\ view \in [HookCpus -> 1 .. MaxEptGeneration]
  /\ hook \in [Txns -> [state : HookStates, parent : 0 .. MaxEptGeneration,
                        pending : 0 .. MaxEptGeneration,
                        deadline : {0} \cup {l.expires : l \in Leases},
                        observed : 0 .. RequiredAcks]]
  /\ \A t \in Txns : hook[t] = NoTransaction \/ IsEptHookTransactionValid(t)
  /\ acked \in [Txns -> SUBSET HookCpus]
  /\ now \in 0 .. MaxTime

\* PublishEptGeneration: no processor is ever behind the current generation,
\* and none is ahead of the pending one.
NoCpuBehind ==
  \A c \in HookCpus : view[c] \in {current} \cup ({pending.generation} \ {0})

\* AcknowledgeEptHookCpu counts processors: an update that was published had
\* the acknowledgement of every processor, given on the generation the update
\* was prepared on.
PublishedIsAcknowledged ==
  \A t \in Txns : hook[t].state \in {"Published", "Retired"} => acked[t] = HookCpus

\* The counters that PublishEptGeneration and PublishEptHookUpdate compare with
\* required_cpu_acks count processors, none twice; the pending generation is the
\* next one, and an update is retired only when its generation has come.
AcksAreCounted ==
  /\ pending # NoGeneration =>
       /\ pending.generation = current + 1 /\ pending.parent = current
       /\ pending.observed = Cardinality({c \in HookCpus : view[c] = pending.generation})
  /\ \A t \in Txns : /\ hook[t].observed = Cardinality(acked[t])
                     /\ hook[t].state = "Retired" => hook[t].pending <= current

\* RetireEptHookUpdate: the pages of the replaced generation are given back
\* only when every processor has left that generation.
RetiredHookIsEverywhere ==
  \A t \in Txns, c \in HookCpus : hook[t].state = "Retired" => view[c] >= hook[t].pending

\* Rollback, retirement and quarantine are final, whichever of a client, the
\* expiry and the quarantine comes first.
SettledUpdateIsFinal ==
  [][\A t \in Txns : Settled(t) => hook'[t].state \in {hook[t].state, "Prepared", "None"}]_hookVars

\* Rollback, expiry and quarantine all check the current generation: an
\* update that another generation has overtaken takes no further effect, it
\* is neither published nor undone on pages it does not own any more.  (It is
\* not settled either: no operation of the library applies to it.)
OvertakenUpdateIsInert ==
  [][\A t \in Txns :
       (hook[t].state \in {"Prepared", "Published"} /\ current > ExpectedGeneration(t)) =>
         hook'[t] = hook[t]]_hookVars

\* ept_model.cpp on several processors: a generation is current only when every
\* processor has it, an update is published when all acknowledged it and retired
\* when all have left what it replaced, and settled or overtaken updates stay.
HooksReachEveryCpu ==
  /\ []HookTypeOK
  /\ []NoCpuBehind
  /\ []PublishedIsAcknowledged
  /\ []AcksAreCounted
  /\ []RetiredHookIsEverywhere
  /\ SettledUpdateIsFinal
  /\ OvertakenUpdateIsInert
=============================================================================
