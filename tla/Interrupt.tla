----------------------------- MODULE Interrupt ------------------------------
(***************************************************************************)
(* The interrupt queue of a virtual processor and its posted-interrupt     *)
(* descriptor (interrupt/interrupt_model.cpp, knhv_interrupt.h).           *)
(*                                                                         *)
(* Devices enqueue events and post vectors at any time; the exit handler   *)
(* drains the posted vectors, selects an event and, in a later call,       *)
(* commits its injection.  Between the two calls the queue may grow.       *)
(* External: the guest, which changes its blocking state and its task      *)
(* priority only while no decision is outstanding, and the caller that     *)
(* starts the queue again under a new generation.                          *)
(***************************************************************************)
EXTENDS Integers, Sequences, SequencesExt

CONSTANTS
  QueueDepth,          \* kInterruptQueueDepth
  MaxSequence,         \* the largest sequence number, ~0ULL in the code
  MaxQueueGeneration,  \* bound of the generations
  FirstExternal,       \* kInterruptVectorFirstExternal
  VectorCount,         \* kInterruptVectorCount
  ClassSize,           \* vectors per priority class, 16 in the code
  Sources              \* kind and vector of the events devices enqueue

ASSUME InterruptConstants ==
  /\ QueueDepth \in Nat \ {0} /\ MaxSequence \in Nat /\ MaxSequence > 1
  /\ MaxQueueGeneration \in Nat /\ ClassSize \in Nat \ {0}
  /\ FirstExternal \in Nat /\ VectorCount \in Nat /\ VectorCount > FirstExternal

VARIABLES
  state,     \* InterruptState
  pir,       \* the descriptor: posted vectors and its generation
  decision,  \* the decision the exit handler holds, or NoDecision
  owed,      \* the vectors posted and not yet injected
  inNmi      \* the guest is in its NMI handler

intVars == <<state, pir, decision, owed, inNmi>>

Kinds == {"HardwareException", "External", "Nmi", "Virtual", "Init", "Sipi", "Smi"}
BlockBits == {"BySti", "ByMovSs", "Nmi"}
External == FirstExternal .. VectorCount - 1
NoDecision == [status |-> "NoPending", action |-> "WaitWindow"]

IsVectorValid(kind, vector) ==
  CASE kind = "HardwareException" -> vector < FirstExternal
    [] kind \in {"External", "Virtual"} -> vector \in External
    [] kind = "Nmi" -> vector = 2
    [] kind \in {"Init", "Smi"} -> vector = 0
    [] OTHER -> vector < VectorCount

Priority(e) ==
  CASE e.kind = "Nmi" -> 4
    [] e.kind = "HardwareException" -> 3
    [] e.kind \in {"Init", "Sipi", "Smi"} -> 2
    [] OTHER -> 1

IsBlocked(s, e) ==
  CASE e.kind = "Nmi" -> "Nmi" \in s.blocked
    [] e.kind \in {"External", "Virtual"} ->
         \/ s.blocked \cap {"BySti", "ByMovSs"} # {}
         \/ e.vector \div ClassSize <= s.tpr \div ClassSize
    [] OTHER -> FALSE

IsInterruptEventValid(e) ==
  /\ e.kind \in Kinds /\ IsVectorValid(e.kind, e.vector)
  /\ e.generation # 0 /\ e.sequence # 0

IsInterruptStateValid(s) ==
  /\ s.generation # 0 /\ s.next \in 1 .. MaxSequence
  /\ Len(s.pending) <= QueueDepth
  /\ \A i \in 1 .. Len(s.pending) :
       /\ IsInterruptEventValid(s.pending[i]) /\ s.pending[i].generation = s.generation
       /\ \A j \in 1 .. i - 1 : s.pending[j].sequence # s.pending[i].sequence

----------------------------------------------------------------------------

Enqueued(s, e) ==
  [s EXCEPT !.pending = Append(@, e),
            !.next = IF e.sequence >= @ THEN e.sequence + 1 ELSE @]

CanEnqueue(s, e) ==
  /\ IsInterruptStateValid(s) /\ IsInterruptEventValid(e)
  /\ e.generation = s.generation
  /\ Len(s.pending) < QueueDepth
  /\ \A i \in 1 .. Len(s.pending) : s.pending[i].sequence # e.sequence
  /\ e.sequence # MaxSequence

EnqueueInterrupt(e) ==
  /\ CanEnqueue(state, e)
  /\ state' = Enqueued(state, e)
  /\ UNCHANGED <<pir, decision, owed, inNmi>>

\* Mutant: of two equal events the one that is met later wins.
PreferLater(best, e) == IF Priority(e) >= Priority(best) THEN e ELSE best

\* The better of the event selected so far and the next one of the queue.
Prefer(best, e) ==
  IF \/ Priority(e) > Priority(best)
     \/ Priority(e) = Priority(best) /\ e.sequence < best.sequence
  THEN e ELSE best

Candidates(s) == SelectSeq(s.pending, LAMBDA e : ~IsBlocked(s, e))

\* The loop over the queue, and the decision it ends in.  The decision is
\* zeroed first and zero is Ready, so a refused call leaves a decision whose
\* action alone tells it from one to inject.
SelectInterrupt(generation) ==
  /\ decision' =
       IF ~IsInterruptStateValid(state) \/ state.generation # generation
       THEN [status |-> "Ready", action |-> "Quarantine"]
       ELSE IF Candidates(state) = <<>>
       THEN [NoDecision EXCEPT !.status = IF state.pending = <<>> THEN @ ELSE "Blocked"]
       ELSE [status |-> "Ready", action |-> "Inject",
             event |-> FoldLeft(Prefer, Head(Candidates(state)), Tail(Candidates(state)))]
  /\ UNCHANGED <<state, pir, owed, inNmi>>

Inject(s, i) ==
  [s EXCEPT !.pending = RemoveAt(@, i),
            !.blocked = IF s.pending[i].kind = "Nmi" THEN @ \cup {"Nmi"} ELSE @]

Queued(s, v) == \E i \in 1 .. Len(s.pending) : s.pending[i].posted /\ s.pending[i].vector = v

\* The decision is dropped whether or not its event is found.
CommitInterruptInjection ==
  /\ decision.status = "Ready" /\ decision.action = "Inject"
  /\ IsInterruptStateValid(state)
  /\ decision' = NoDecision
  /\ \/ \E i \in 1 .. Len(state.pending) :
          /\ decision.event.generation = state.generation
          /\ state.pending[i] = decision.event
          /\ \A j \in 1 .. i - 1 : state.pending[j] # decision.event
          /\ state' = Inject(state, i)
          /\ inNmi' = (inNmi \/ decision.event.kind = "Nmi")
          /\ owed' = IF /\ decision.event.posted
                        /\ decision.event.vector \notin pir.vectors
                        /\ ~Queued(state', decision.event.vector)
                     THEN owed \ {decision.event.vector} ELSE owed
     \/ /\ \/ decision.event.generation # state.generation
           \/ \A i \in 1 .. Len(state.pending) : state.pending[i] # decision.event
        /\ UNCHANGED <<state, inNmi, owed>>
  /\ UNCHANGED pir

PostInterrupt(v, generation) ==
  /\ v \in External /\ pir.generation = generation
  /\ pir' = [pir EXCEPT !.vectors = @ \cup {v}]
  /\ owed' = owed \cup {v}
  /\ UNCHANGED <<state, decision, inNmi>>

\* How many posted vectors a drain moves: the loop runs over them upwards and
\* stops at a full queue or at the last sequence number.
Fits(s, n) ==
  CHOOSE k \in 0 .. n :
    /\ Len(s.pending) + k <= QueueDepth /\ s.next + k <= MaxSequence
    /\ k < n => Len(s.pending) + k = QueueDepth \/ s.next + k = MaxSequence

PostedEvent(v, s) ==
  [kind |-> "Virtual", vector |-> v, generation |-> s.generation, sequence |-> s.next,
   posted |-> TRUE]

\* A bit is cleared only after its event is in the queue.
DrainPostedInterrupt(generation) ==
  LET vectors == SetToSortSeq(pir.vectors, <)
      taken == SubSeq(vectors, 1, Fits(state, Len(vectors)))
  IN /\ IsInterruptStateValid(state)
     /\ pir.generation = generation /\ state.generation = generation
     /\ state' = FoldLeft(LAMBDA s, v : Enqueued(s, PostedEvent(v, s)), state, taken)
     /\ pir' = [pir EXCEPT !.vectors = @ \ ToSet(taken)]
     /\ UNCHANGED <<decision, owed, inNmi>>

----------------------------------------------------------------------------
(* The guest and the caller, external. *)

GuestRuns ==
  /\ decision.action # "Inject"
  /\ \E b \in SUBSET {"BySti"}, t \in {0, ClassSize} :
       state' = [state EXCEPT !.tpr = t, !.blocked = (@ \cap {"Nmi"}) \cup b]
  /\ UNCHANGED <<pir, decision, owed, inNmi>>

GuestIret ==
  /\ decision.action # "Inject" /\ inNmi /\ inNmi' = FALSE
  /\ state' = [state EXCEPT !.blocked = @ \ {"Nmi"}]
  /\ UNCHANGED <<pir, decision, owed>>

FreshState(g) == [generation |-> g, next |-> 1, pending |-> <<>>, blocked |-> {}, tpr |-> 0]

NewGeneration ==
  /\ state.generation < MaxQueueGeneration
  /\ state' = FreshState(state.generation + 1)
  /\ pir' = [vectors |-> {}, generation |-> state.generation + 1]
  /\ owed' = {} /\ inNmi' = FALSE /\ UNCHANGED decision

IntInit ==
  /\ state = FreshState(1)
  /\ pir = [vectors |-> {}, generation |-> 1]
  /\ decision = NoDecision /\ owed = {} /\ inNmi = FALSE

IntNext ==
  \/ \E src \in Sources, sequence \in 1 .. MaxSequence, g \in 1 .. MaxQueueGeneration :
       EnqueueInterrupt([kind |-> src[1], vector |-> src[2], generation |-> g,
                         sequence |-> sequence, posted |-> FALSE])
  \/ \E g \in 1 .. MaxQueueGeneration :
       \/ SelectInterrupt(g)
       \/ \E v \in External : PostInterrupt(v, g)
       \/ DrainPostedInterrupt(g)
  \/ CommitInterruptInjection
  \/ GuestRuns \/ GuestIret \/ NewGeneration

IntSpec == IntInit /\ [][IntNext]_intVars

----------------------------------------------------------------------------
\* The queue stays one that every later call accepts: IsInterruptStateValid is
\* checked on entry everywhere, so a state it refuses would be stuck for good.
IntTypeOK ==
  /\ IsInterruptStateValid(state)
  /\ state.blocked \subseteq BlockBits
  /\ pir.vectors \subseteq External /\ pir.generation \in 1 .. MaxQueueGeneration
  /\ owed \subseteq External /\ inNmi \in BOOLEAN

\* DrainPostedInterrupt against a full queue and the end of the sequence
\* numbers: a vector that was posted stays in the descriptor or in the queue
\* until it is injected.
NoPostedLost == \A v \in owed : v \in pir.vectors \/ Queued(state, v)

\* EnqueueInterrupt takes any sequence number from its caller; next_sequence
\* stays above all of them, so that a drained event never meets its own
\* number in the queue.
NextSequenceIsFresh == \A i \in 1 .. Len(state.pending) : state.pending[i].sequence < state.next

\* SelectInterrupt: what the loop selects is not blocked, no pending event that
\* could be injected has a higher priority, and among equals the one enqueued
\* under the lowest number goes first.
SelectionIsBest ==
  [][(decision'.action = "Inject" /\ decision' # decision) =>
       \A i \in 1 .. Len(state.pending) :
         LET e == state.pending[i]
             d == decision'.event
         IN IsBlocked(state, e) \/ e = d \/ Priority(e) < Priority(d)
              \/ (Priority(e) = Priority(d) /\ e.sequence > d.sequence)]_intVars

\* CommitInterruptInjection blocks NMIs: while the guest is in its NMI handler
\* no second NMI is injected.
NmiIsNotNested == inNmi => "Nmi" \in state.blocked

\* interrupt_model.cpp with a full queue and exhausted numbers: no posted vector is
\* lost, sequence numbers stay fresh, NMIs do not nest and the best event is
\* chosen.
InterruptsAreKept ==
  /\ []IntTypeOK
  /\ []NoPostedLost
  /\ []NextSequenceIsFresh
  /\ []NmiIsNotNested
  /\ SelectionIsBest
=============================================================================
