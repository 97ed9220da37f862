----------------------------- MODULE DumpProofs ------------------------------
(***************************************************************************)
(* Proofs about what a crash dump holds: the tail of the trace ring        *)
(* (TraceRing.tla), for every number of writers, size of the ring and of   *)
(* the tail, and number of writes; and the blob with its callback          *)
(* (CrashDump.tla), for every size of the blob and whatever room the dump  *)
(* writer offers.                                                          *)
(***************************************************************************)
EXTENDS TraceRing, CrashDump, TLAPS

-----------------------------------------------------------------------------
(* The trace ring. *)

Fields == {"Sequence", "head", "args"}
Records == [Sequence : Int, head : Int, args : Int]

TraceTypeOK ==
  /\ ring \in [0 .. Capacity - 1 -> Records]
  /\ writeIndex \in Nat
  /\ writer \in [Writers -> [seq : Int, left : SUBSET Halves]]
  /\ reader \in [at : {"wait", "copy", "done"}, index : Nat, count : Nat, j : Nat,
                 record : Records, left : SUBSET Fields, done : SUBSET Nat]
  /\ tail \in [0 .. TailRecords - 1 -> Records]

\* Writers hold different claimed numbers; a later number of a slot that is still
\* being written is one of the lapped ones.
WritersDiffer ==
  \A w \in Writers :
    /\ writer[w].seq = Idle => writer[w].left = {}
    /\ writer[w].seq # Idle =>
         /\ writer[w].seq \in 0 .. writeIndex - 1
         /\ \A v \in Writers : writer[v].seq = writer[w].seq => v = w
         /\ \A s \in 0 .. writeIndex - 1 :
              s > writer[w].seq /\ Slot(s) = Slot(writer[w].seq) => s \in lapped

\* No slot carries a number that is still to be claimed, but for number 0.
NumbersAreClaimed ==
  \A i \in 0 .. Capacity - 1 :
    ring[i].Sequence = 0 \/ ring[i].Sequence \in 0 .. writeIndex - 1

\* What the slot of an undisturbed number holds: its record, or as much of it as
\* its writer has stored, and then not yet its number.
SlotHolds(s) ==
  /\ (\A w \in Writers : writer[w].seq # s) => ring[Slot(s)] = Whole(s)
  /\ \A w \in Writers : writer[w].seq = s =>
       /\ \A h \in Halves \ writer[w].left : ring[Slot(s)][h] = s
       /\ ring[Slot(s)].Sequence = s => s = 0

RingHolds == \A s \in 0 .. writeIndex - 1 : ~Disturbed(s) => SlotHolds(s)

\* Where the copy is, and that what it has not reached is zero.
ReaderInRange ==
  /\ reader.index <= writeIndex /\ reader.count <= reader.index
  /\ reader.count <= TailRecords /\ reader.j <= reader.count
  /\ reader.at = "wait" => reader.count = 0 /\ raced = {}
  /\ reader.at = "copy" => reader.j < reader.count
  /\ reader.at = "done" => reader.j = reader.count
  /\ \A k \in 0 .. TailRecords - 1 : k >= reader.j => tail[k] = ZeroRecord

\* A record that was complete when the index was read stays so, and is not stored
\* to during its copy while it is undisturbed.
DoneStaysDone ==
  /\ reader.done \subseteq 0 .. reader.index - 1
  /\ \A w \in Writers : writer[w].seq \notin reader.done
  /\ \A s \in reader.done \cap raced : Disturbed(s)

\* What has been copied of an undisturbed slot is what the slot holds.
CopyIsFaithful ==
  LET s == TailSequence(reader.j)
  IN reader.at = "copy" /\ s \notin raced /\ ~Disturbed(s) =>
       \A f \in Fields \ reader.left : reader.record[f] = ring[Slot(s)][f]

\* CompleteRecordsAreKept, for the part of the tail that is already copied.
DoneIsKept ==
  \A k \in Copied :
    TailSequence(k) \in reader.done /\ ~Disturbed(TailSequence(k)) =>
      tail[k] = Whole(TailSequence(k))

RingInv ==
  /\ TraceTypeOK /\ WritersDiffer /\ NumbersAreClaimed /\ RingHolds
  /\ ReaderInRange /\ DoneStaysDone /\ CopyIsFaithful /\ DoneIsKept
  /\ KeptRecordsAreWhole

-----------------------------------------------------------------------------

\* Slots lie in the ring, and numbers of one slot are a whole turn apart.
LEMMA SlotFacts ==
  ASSUME NEW a \in Nat, NEW b \in Nat
  PROVE  /\ Slot(a) \in 0 .. Capacity - 1
         /\ a < b /\ Slot(a) = Slot(b) => a + Capacity <= b
<1>1. Capacity \in Nat /\ Capacity > 0
  BY RingAssumption
<1>2. Slot(a) \in 0 .. Capacity - 1
  BY <1>1 DEF Slot
<1>3. ASSUME a < b, Slot(a) = Slot(b)
      PROVE  a + Capacity <= b
  <2>1. PICK q \in Int : q = a \div Capacity
    BY <1>1
  <2>2. PICK r \in Int : r = b \div Capacity
    BY <1>1
  <2>3. a = q * Capacity + Slot(a) /\ b = r * Capacity + Slot(b)
    BY <1>1, <2>1, <2>2 DEF Slot
  <2>4. Slot(a) \in Int
    BY <1>2
  <2>5. b - a = r * Capacity - q * Capacity
    BY <1>1, <1>3, <2>3, <2>4, SMTT(60)
  <2>6. b - a = (r - q) * Capacity
    BY <1>1, <2>5
  <2>7. CASE r - q <= 0
    BY <1>1, <1>3, <2>6, <2>7
  <2>8. CASE r - q >= 1
    BY <1>1, <1>3, <2>6, <2>8
  <2> QED BY <2>7, <2>8
<1> QED BY <1>2, <1>3, Zenon

\* A store to the slot of an undisturbed number comes from the writer of that number.
LEMMA OnlyItsWriterStores ==
  ASSUME TraceTypeOK, WritersDiffer, NEW w \in Writers, writer[w].seq # Idle,
         NEW s \in 0 .. writeIndex - 1, ~Disturbed(s), Slot(s) = Slot(writer[w].seq)
  PROVE  s = writer[w].seq
<1>1. writer[w].seq \in Nat /\ writer[w].seq < writeIndex /\ writeIndex \in Nat
  BY DEF TraceTypeOK, WritersDiffer
<1>2. s \in Nat /\ s < writeIndex
  BY <1>1
<1>3. ~(s > writer[w].seq)
  BY Zenon DEF WritersDiffer, Disturbed
<1>4. ASSUME s < writer[w].seq PROVE FALSE
  <2>1. s + Capacity <= writer[w].seq
    BY <1>1, <1>2, <1>4, SlotFacts, Zenon
  <2> QED BY <1>1, <1>2, <2>1, RingAssumption DEF Disturbed
<1> QED BY <1>1, <1>2, <1>3, <1>4

\* Claiming a number leaves the ring and the copy alone.
LEMMA ClaimMoves ==
  ASSUME TraceTypeOK, NEW w \in Writers, Claim(w)
  PROVE  /\ writer[w].seq = Idle /\ writeIndex' = writeIndex + 1
         /\ writer'[w].seq = writeIndex /\ writer'[w].left = Halves
         /\ \A v \in Writers \ {w} : writer'[v] = writer[v]
         /\ writer' \in [Writers -> [seq : Int, left : SUBSET Halves]]
         /\ lapped \subseteq lapped'
         /\ \A v \in InFlight(writeIndex) : writeIndex \in lapped'
         /\ UNCHANGED <<ring, reader, tail, raced>>
<1>1. writer' = [writer EXCEPT ![w] = [seq |-> writeIndex, left |-> Halves]]
  BY Zenon DEF Claim, ClaimNumber
<1>2. [seq |-> writeIndex, left |-> Halves] \in [seq : Int, left : SUBSET Halves]
  BY DEF TraceTypeOK
<1>3. /\ writer'[w].seq = writeIndex /\ writer'[w].left = Halves
      /\ \A v \in Writers \ {w} : writer'[v] = writer[v]
      /\ writer' \in [Writers -> [seq : Int, left : SUBSET Halves]]
  BY <1>1, <1>2, Zenon DEF TraceTypeOK
<1>4. lapped \subseteq lapped' /\ \A v \in InFlight(writeIndex) : writeIndex \in lapped'
  <2>1. CASE InFlight(writeIndex) = {}
    BY <2>1, Zenon DEF Claim, ClaimNumber
  <2>2. CASE InFlight(writeIndex) # {}
    BY <2>2, Zenon DEF Claim, ClaimNumber
  <2> QED BY <2>1, <2>2, Zenon
<1> QED BY <1>3, <1>4, Zenon DEF Claim, ClaimNumber

\* A number once disturbed stays disturbed, whatever the step.
LEMMA DisturbedStays ==
  ASSUME writeIndex \in Nat, writeIndex' \in Nat, writeIndex <= writeIndex',
         lapped \subseteq lapped', NEW s \in Int, Disturbed(s)
  PROVE  Disturbed(s)'
BY RingAssumption DEF Disturbed

LEMMA ClaimStep ==
  ASSUME RingInv, NEW w \in Writers, Claim(w)
  PROVE  RingInv'
<1>1. TraceTypeOK
  BY Zenon DEF RingInv
<1>2. /\ writer[w].seq = Idle /\ writeIndex' = writeIndex + 1
      /\ writer'[w].seq = writeIndex /\ writer'[w].left = Halves
      /\ \A v \in Writers \ {w} : writer'[v] = writer[v]
      /\ writer' \in [Writers -> [seq : Int, left : SUBSET Halves]]
      /\ lapped \subseteq lapped'
      /\ \A v \in InFlight(writeIndex) : writeIndex \in lapped'
      /\ UNCHANGED <<ring, reader, tail, raced>>
  BY <1>1, ClaimMoves, Zenon
<1>3. writeIndex \in Nat /\ writeIndex' \in Nat
  BY <1>1, <1>2 DEF TraceTypeOK
<1>4. \A s \in Int : Disturbed(s) => Disturbed(s)'
  BY <1>2, <1>3, DisturbedStays
<1>5. TraceTypeOK'
  BY <1>1, <1>2, <1>3, Zenon DEF TraceTypeOK
<1>6. WritersDiffer'
  <2> SUFFICES ASSUME NEW v \in Writers
               PROVE  /\ writer'[v].seq = Idle => writer'[v].left = {}
                      /\ writer'[v].seq # Idle =>
                           /\ writer'[v].seq \in 0 .. writeIndex' - 1
                           /\ \A u \in Writers : writer'[u].seq = writer'[v].seq => u = v
                           /\ \A s \in 0 .. writeIndex' - 1 :
                                s > writer'[v].seq /\ Slot(s) = Slot(writer'[v].seq)
                                  => s \in lapped'
    BY Zenon DEF WritersDiffer, Slot
  <2>1. \A u \in Writers : writer[u].seq # Idle => writer[u].seq \in 0 .. writeIndex - 1
    BY Zenon DEF RingInv, WritersDiffer
  <2>2. \A u \in Writers \ {w} : writer'[u].seq # writeIndex
    BY <1>2, <1>3, <2>1 DEF Idle
  <2>3. CASE v = w
    BY <1>2, <1>3, <2>2, <2>3 DEF Idle
  <2>4. CASE v # w
    <3>1. writer'[v] = writer[v]
      BY <1>2, <2>4, Zenon
    <3>2. ASSUME writer[v].seq # Idle, NEW s \in 0 .. writeIndex,
                 s > writer[v].seq, Slot(s) = Slot(writer[v].seq)
          PROVE  s \in lapped'
      <4>1. CASE s = writeIndex
        <5>1. v \in InFlight(writeIndex)
          BY <3>2, <4>1, Zenon DEF InFlight
        <5> QED BY <1>2, <4>1, <5>1, Zenon
      <4>2. CASE s # writeIndex
        <5>1. s \in 0 .. writeIndex - 1
          BY <1>3, <4>2
        <5> QED BY <1>2, <3>2, <5>1, Zenon DEF RingInv, WritersDiffer
      <4> QED BY <4>1, <4>2, Zenon
    <3>3. writer[v].seq # Idle => \A u \in Writers : writer'[u].seq = writer[v].seq => u = v
      <4> SUFFICES ASSUME writer[v].seq # Idle, NEW u \in Writers, writer'[u].seq = writer[v].seq
                   PROVE  u = v
        BY Zenon
      <4>1. u # w
        BY <1>2, <1>3, <2>1
      <4> QED BY <1>2, <4>1, Zenon DEF RingInv, WritersDiffer
    <3>4. writer[v].seq = Idle => writer[v].left = {}
      BY Zenon DEF RingInv, WritersDiffer
    <3>5. 0 .. writeIndex' - 1 = 0 .. writeIndex
      BY <1>2, <1>3
    <3>6. writer[v].seq # Idle => writer[v].seq \in 0 .. writeIndex
      BY <1>3, <2>1
    <3> QED BY <3>1, <3>2, <3>3, <3>4, <3>5, <3>6, Zenon
  <2> QED BY <2>3, <2>4, Zenon
<1>7. NumbersAreClaimed'
  BY <1>2, <1>3 DEF RingInv, NumbersAreClaimed
<1>8. RingHolds'
  <2> SUFFICES ASSUME NEW s \in 0 .. writeIndex, ~Disturbed(s)'
               PROVE  SlotHolds(s)'
    BY <1>2, <1>3 DEF RingHolds
  <2>1. \A u \in Writers : writer[u].seq # Idle => writer[u].seq \in 0 .. writeIndex - 1
    BY Zenon DEF RingInv, WritersDiffer
  <2>2. CASE s = writeIndex
    <3>1. \A u \in Writers : writer'[u].seq = s => u = w
      BY <1>2, <1>3, <2>1, <2>2 DEF Idle
    <3>2. Slot(s) \in 0 .. Capacity - 1
      BY <1>3, SlotFacts
    <3>3. ring[Slot(s)].Sequence = s => s = 0
      BY <1>3, <2>2, <3>2 DEF RingInv, NumbersAreClaimed
    <3> QED BY <1>2, <2>2, <3>1, <3>3, Zenon DEF SlotHolds, Slot
  <2>3. CASE s # writeIndex
    <3>1. s \in 0 .. writeIndex - 1 /\ ~Disturbed(s)
      BY <1>3, <1>4, <2>3
    <3>2. SlotHolds(s)
      BY <3>1, Zenon DEF RingInv, RingHolds
    <3>3. \A u \in Writers : writer'[u].seq = s => u # w /\ writer[u].seq = s
      BY <1>2, <2>3, Zenon
    <3>4. \A u \in Writers : writer[u].seq = s => u # w /\ writer'[u].seq = s
      BY <1>2, <3>1 DEF Idle
    <3>5. \A u \in Writers \ {w} : writer'[u].left = writer[u].left
      BY <1>2, Zenon
    <3> QED BY <1>2, <3>2, <3>3, <3>4, <3>5, Zenon DEF SlotHolds, Slot
  <2> QED BY <2>2, <2>3, Zenon
<1>9. ReaderInRange'
  BY <1>1, <1>2, <1>3 DEF RingInv, ReaderInRange, TraceTypeOK
<1>10. reader.index \in Nat /\ reader.index <= writeIndex
  BY <1>1, Zenon DEF RingInv, ReaderInRange, TraceTypeOK
<1>11. DoneStaysDone'
  <2>1. \A u \in Writers : writer'[u].seq \notin reader.done
    <3> SUFFICES ASSUME NEW u \in Writers PROVE writer'[u].seq \notin reader.done
      BY Zenon
    <3>1. CASE u = w
      BY <1>2, <1>3, <1>10, <3>1 DEF RingInv, DoneStaysDone
    <3>2. CASE u # w
      BY <1>2, <3>2, Zenon DEF RingInv, DoneStaysDone
    <3> QED BY <3>1, <3>2, Zenon
  <2>2. \A s \in reader.done \cap raced : Disturbed(s)'
    BY <1>4, <1>10 DEF RingInv, DoneStaysDone
  <2> QED BY <1>2, <2>1, <2>2, Zenon DEF RingInv, DoneStaysDone
<1>12. \A k \in Int : TailSequence(k) \in Int /\ TailSequence(k)' = TailSequence(k)
  BY <1>1, <1>2 DEF TailSequence, TraceTypeOK
<1>13. reader.j \in Nat
  BY <1>1, Zenon DEF TraceTypeOK
<1>14. CopyIsFaithful'
  BY <1>2, <1>4, <1>12, <1>13 DEF RingInv, CopyIsFaithful, TailSequence
<1>15. Copied' = Copied /\ Copied \subseteq Int
  BY <1>2, <1>13 DEF Copied
<1>16. DoneIsKept'
  BY <1>2, <1>4, <1>12, <1>15, Zenon DEF RingInv, DoneIsKept, TailSequence
<1>17. KeptRecordsAreWhole'
  BY <1>2, <1>4, <1>12, <1>15, Zenon DEF RingInv, KeptRecordsAreWhole, TailSequence
<1> QED BY <1>5, <1>6, <1>7, <1>8, <1>9, <1>11, <1>14, <1>16, <1>17, Zenon DEF RingInv

\* The number a tail entry is expected to carry has been claimed.
LEMMA TailIsClaimed ==
  ASSUME TraceTypeOK, ReaderInRange
  PROVE  /\ \A k \in Nat : TailSequence(k) \in Nat
         /\ \A k \in Nat : k < reader.count => TailSequence(k) \in 0 .. writeIndex - 1
         /\ Copied \subseteq Nat /\ \A k \in Copied : k < reader.count
<1>1. /\ reader.index \in Nat /\ reader.count \in Nat /\ reader.j \in Nat
      /\ writeIndex \in Nat /\ reader.index <= writeIndex
      /\ reader.count <= reader.index /\ reader.j <= reader.count
  BY Zenon DEF TraceTypeOK, ReaderInRange
<1> QED BY <1>1 DEF TailSequence, Copied

\* One field of one slot changes, and a copy of that slot is remembered.
LEMMA StoreMoves ==
  ASSUME TraceTypeOK, NEW w \in Writers, writer[w].seq \in Nat, NEW field \in Fields,
         Store(w, field)
  PROVE  LET at == Slot(writer[w].seq)
         IN /\ ring' \in [0 .. Capacity - 1 -> Records]
            /\ ring'[at][field] = writer[w].seq
            /\ \A f \in Fields \ {field} : ring'[at][f] = ring[at][f]
            /\ \A i \in 0 .. Capacity - 1 : i # at => ring'[i] = ring[i]
            /\ raced \subseteq raced'
            /\ BeingCopied(writer[w].seq) => TailSequence(reader.j) \in raced'
            /\ \A s \in raced' : \/ s \in raced
                                 \/ BeingCopied(writer[w].seq) /\ s = TailSequence(reader.j)
<1> DEFINE at == Slot(writer[w].seq)
<1>1. at \in 0 .. Capacity - 1
  BY SlotFacts, Zenon
<1>2. PICK t \in Int : t = writer[w].seq
  BY Zenon DEF TraceTypeOK
<1>3. ring' = [ring EXCEPT ![at][field] = t]
  BY <1>2, Zenon DEF Store
<1>4. ring \in [0 .. Capacity - 1 -> Records]
  BY Zenon DEF TraceTypeOK
<1> HIDE DEF at
<1>5. ring[at] \in Records
  BY <1>1, <1>4, Zenon
<1>6. /\ [ring[at] EXCEPT ![field] = t] \in Records
      /\ [ring[at] EXCEPT ![field] = t][field] = t
      /\ \A f \in Fields \ {field} : [ring[at] EXCEPT ![field] = t][f] = ring[at][f]
  BY <1>5, Zenon DEF Records, Fields
<1>7. ring' = [ring EXCEPT ![at] = [ring[at] EXCEPT ![field] = t]]
  BY <1>1, <1>3, <1>4, Zenon
<1>8. /\ ring' \in [0 .. Capacity - 1 -> Records]
      /\ ring'[at][field] = writer[w].seq
      /\ \A f \in Fields \ {field} : ring'[at][f] = ring[at][f]
      /\ \A i \in 0 .. Capacity - 1 : i # at => ring'[i] = ring[i]
  BY <1>1, <1>2, <1>4, <1>6, <1>7, Zenon
<1>9. /\ raced \subseteq raced'
      /\ BeingCopied(writer[w].seq) => TailSequence(reader.j) \in raced'
      /\ \A s \in raced' : \/ s \in raced
                           \/ BeingCopied(writer[w].seq) /\ s = TailSequence(reader.j)
  <2>1. CASE BeingCopied(writer[w].seq)
    BY <2>1, Zenon DEF Store
  <2>2. CASE ~BeingCopied(writer[w].seq)
    BY <2>2, Zenon DEF Store
  <2> QED BY <2>1, <2>2, Zenon
<1> QED BY <1>8, <1>9, Zenon DEF at

\* A store keeps the invariant: of a field that was still to be stored, or of the
\* number, with which the write is complete.
LEMMA StoreKeeps ==
  ASSUME RingInv, NEW w \in Writers, writer[w].seq # Idle, NEW field \in Fields,
         Store(w, field), UNCHANGED <<writeIndex, reader, tail, lapped>>,
         writer' \in [Writers -> [seq : Int, left : SUBSET Halves]],
         \A v \in Writers \ {w} : writer'[v] = writer[v],
         \/ /\ field \in Halves /\ writer'[w].seq = writer[w].seq
            /\ writer'[w].left = writer[w].left \ {field}
         \/ /\ field = "Sequence" /\ writer[w].left = {}
            /\ writer'[w].seq = Idle /\ writer'[w].left = {}
  PROVE  RingInv'
<1> DEFINE t == writer[w].seq
<1>1. TraceTypeOK /\ WritersDiffer /\ ReaderInRange
  BY Zenon DEF RingInv
<1>2. t \in Nat /\ t \in 0 .. writeIndex - 1 /\ writeIndex \in Nat
  BY <1>1 DEF TraceTypeOK, WritersDiffer
<1>3. /\ ring' \in [0 .. Capacity - 1 -> Records]
      /\ ring'[Slot(t)][field] = t
      /\ \A f \in Fields \ {field} : ring'[Slot(t)][f] = ring[Slot(t)][f]
      /\ \A i \in 0 .. Capacity - 1 : i # Slot(t) => ring'[i] = ring[i]
      /\ raced \subseteq raced'
      /\ BeingCopied(t) => TailSequence(reader.j) \in raced'
      /\ \A s \in raced' : \/ s \in raced
                           \/ BeingCopied(t) /\ s = TailSequence(reader.j)
  BY <1>1, <1>2, StoreMoves, Zenon
<1>4. \A s \in Int : Disturbed(s)' <=> Disturbed(s)
  BY Zenon DEF Disturbed
<1>5. \A s \in 0 .. writeIndex - 1 : ~Disturbed(s) /\ Slot(s) = Slot(t) => s = t
  BY <1>1, OnlyItsWriterStores, Zenon
<1>6. \A s \in Nat : Slot(s) \in 0 .. Capacity - 1
  BY SlotFacts, Zenon
<1>7. \A u \in Writers : writer'[u].seq # Idle => writer'[u].seq = writer[u].seq
  BY Zenon
<1>8. \A u \in Writers : writer[u].seq = t => u = w
  BY <1>1, Zenon DEF WritersDiffer
<1> HIDE DEF t
<1>9. TraceTypeOK'
  BY <1>1, <1>3, Zenon DEF TraceTypeOK
<1>10. WritersDiffer'
  <2> SUFFICES ASSUME NEW v \in Writers
               PROVE  /\ writer'[v].seq = Idle => writer'[v].left = {}
                      /\ writer'[v].seq # Idle =>
                           /\ writer'[v].seq \in 0 .. writeIndex - 1
                           /\ \A u \in Writers : writer'[u].seq = writer'[v].seq => u = v
                           /\ \A s \in 0 .. writeIndex - 1 :
                                s > writer'[v].seq /\ Slot(s) = Slot(writer'[v].seq)
                                  => s \in lapped
    BY Zenon DEF WritersDiffer, Slot
  <2>1. writer'[v].seq = Idle => writer'[v].left = {}
    <3>1. CASE v = w
      BY <3>1, Zenon
    <3>2. CASE v # w
      BY <1>1, <3>2, Zenon DEF WritersDiffer
    <3> QED BY <3>1, <3>2, Zenon
  <2>2. ASSUME writer'[v].seq # Idle
        PROVE  /\ writer'[v].seq \in 0 .. writeIndex - 1
               /\ \A u \in Writers : writer'[u].seq = writer'[v].seq => u = v
               /\ \A s \in 0 .. writeIndex - 1 :
                    s > writer'[v].seq /\ Slot(s) = Slot(writer'[v].seq) => s \in lapped
    <3>1. writer'[v].seq = writer[v].seq
      BY <1>7, <2>2, Zenon
    <3>2. \A u \in Writers : writer'[u].seq = writer'[v].seq => writer[u].seq = writer[v].seq
      BY <1>7, <2>2, <3>1, Zenon
    <3> QED BY <1>1, <2>2, <3>1, <3>2, Zenon DEF WritersDiffer
  <2> QED BY <2>1, <2>2, Zenon
<1>11. NumbersAreClaimed'
  <2> SUFFICES ASSUME NEW i \in 0 .. Capacity - 1
               PROVE  ring'[i].Sequence = 0 \/ ring'[i].Sequence \in 0 .. writeIndex - 1
    BY Zenon DEF NumbersAreClaimed
  <2>1. ring'[i].Sequence = t \/ ring'[i].Sequence = ring[i].Sequence
    <3>1. ring'[i]["Sequence"] = t \/ ring'[i]["Sequence"] = ring[i]["Sequence"]
      BY <1>3, Zenon DEF Fields
    <3> QED BY <3>1, Zenon
  <2> QED BY <1>2, <2>1, Zenon DEF RingInv, NumbersAreClaimed
<1>12. RingHolds'
  <2> SUFFICES ASSUME NEW s \in 0 .. writeIndex - 1, ~Disturbed(s)
               PROVE  SlotHolds(s)'
    BY <1>4 DEF RingHolds
  <2>1. SlotHolds(s)
    BY Zenon DEF RingInv, RingHolds
  <2>2. Slot(s) \in 0 .. Capacity - 1 /\ s # Idle
    BY <1>2, <1>6 DEF Idle
  <2>3. CASE Slot(s) # Slot(t)
    <3>1. ring'[Slot(s)] = ring[Slot(s)] /\ s # t
      BY <1>3, <2>2, <2>3, Zenon
    <3>2. \A u \in Writers : writer'[u].seq = s => u # w /\ writer[u].seq = s
      BY <1>7, <2>2, <3>1, Zenon DEF t
    <3>3. \A u \in Writers : writer[u].seq = s => u # w /\ writer'[u].seq = s
      BY <3>1, Zenon DEF t
    <3> QED BY <2>1, <3>1, <3>2, <3>3, Zenon DEF SlotHolds, Slot
  <2>4. CASE Slot(s) = Slot(t)
    <3>1. s = t
      BY <1>5, <2>4, Zenon
    <3>2. \A u \in Writers : writer'[u].seq = t => u = w /\ writer'[w].seq = t
      BY <1>7, <1>8, <2>2, <3>1, Zenon
    <3>3. \A h \in Halves \ writer[w].left : ring[Slot(t)][h] = t
      BY <2>1, <3>1, Zenon DEF SlotHolds, t
    <3>4. ring[Slot(t)].Sequence = t => t = 0
      BY <2>1, <3>1, Zenon DEF SlotHolds, t
    <3>5. CASE field \in Halves /\ writer'[w].seq = t /\ writer'[w].left = writer[w].left \ {field}
      <4>1. \A h \in Halves \ writer'[w].left : ring'[Slot(t)][h] = t
        <5> SUFFICES ASSUME NEW h \in Halves \ writer'[w].left
                     PROVE  ring'[Slot(t)][h] = t
          BY Zenon
        <5>1. CASE h = field
          BY <1>3, <5>1, Zenon
        <5>2. CASE h # field
          BY <1>3, <3>3, <3>5, <5>2, Zenon DEF Halves, Fields
        <5> QED BY <5>1, <5>2, Zenon
      <4>2. ring'[Slot(t)].Sequence = ring[Slot(t)].Sequence
        <5>1. ring'[Slot(t)]["Sequence"] = ring[Slot(t)]["Sequence"]
          BY <1>3, <3>5, Zenon DEF Halves, Fields
        <5> QED BY <5>1, Zenon
      <4> QED BY <3>1, <3>2, <3>4, <3>5, <4>1, <4>2, Zenon DEF SlotHolds, Slot
    <3>6. CASE field = "Sequence" /\ writer[w].left = {} /\ writer'[w].seq = Idle
      <4>1. \A f \in Fields : ring'[Slot(t)][f] = t
        BY <1>3, <3>3, <3>6, Zenon DEF Halves, Fields
      <4>2. ring'[Slot(t)] \in Records
        BY <1>3, <2>2, <2>4, Zenon
      <4>3. ring'[Slot(t)] = Whole(t)
        BY <4>1, <4>2, Zenon DEF Fields, Records, Whole
      <4>4. \A u \in Writers : writer'[u].seq # t
        BY <2>2, <3>1, <3>2, <3>6, Zenon
      <4> QED BY <3>1, <4>3, <4>4, Zenon DEF SlotHolds, Slot, Whole
    <3> QED BY <3>5, <3>6, Zenon DEF t
  <2> QED BY <2>3, <2>4, Zenon
<1>13. ReaderInRange'
  <2>1. reader.at = "wait" => raced' = {}
    BY <1>1, <1>3, Zenon DEF ReaderInRange, BeingCopied
  <2> QED BY <1>1, <2>1, Zenon DEF ReaderInRange
<1>14. reader.j \in Nat /\ (reader.at = "copy" => TailSequence(reader.j) \in 0 .. writeIndex - 1)
  BY <1>1, TailIsClaimed, Zenon DEF TraceTypeOK, ReaderInRange
<1>15. DoneStaysDone'
  <2>1. \A u \in Writers : writer'[u].seq \notin reader.done
    <3>1. Idle \notin reader.done
      BY <1>1 DEF TraceTypeOK, Idle
    <3> QED BY <1>7, <3>1, Zenon DEF RingInv, DoneStaysDone
  <2>2. ASSUME NEW s \in reader.done \cap raced' PROVE Disturbed(s)
    <3>1. CASE s \in raced
      BY <3>1, Zenon DEF RingInv, DoneStaysDone
    <3>2. CASE BeingCopied(t) /\ s = TailSequence(reader.j)
      <4>1. Slot(s) = Slot(t) /\ s \in 0 .. writeIndex - 1
        BY <1>14, <3>2, Zenon DEF BeingCopied
      <4>2. s # t
        BY Zenon DEF RingInv, DoneStaysDone, t
      <4> QED BY <1>5, <4>1, <4>2, Zenon
    <3> QED BY <1>3, <3>1, <3>2, Zenon
  <2>3. reader.done \subseteq Int
    BY <1>1 DEF TraceTypeOK
  <2> QED BY <1>4, <2>1, <2>2, <2>3, Zenon DEF RingInv, DoneStaysDone
<1>16. \A k \in Nat : TailSequence(k) \in Int /\ TailSequence(k)' = TailSequence(k)
  BY <1>1, TailIsClaimed, SMTT(60) DEF TailSequence
<1>17. CopyIsFaithful'
  <2> DEFINE s == TailSequence(reader.j)
  <2> SUFFICES ASSUME reader.at = "copy", s \notin raced', ~Disturbed(s)
               PROVE  \A f \in Fields \ reader.left : reader.record[f] = ring'[Slot(s)][f]
    BY <1>4, <1>14, <1>16, Zenon DEF CopyIsFaithful, Slot
  <2>1. Slot(s) # Slot(t)
    BY <1>3, Zenon DEF BeingCopied
  <2>2. Slot(s) \in 0 .. Capacity - 1
    BY <1>2, <1>6, <1>14, SMTT(60)
  <2>3. ring'[Slot(s)] = ring[Slot(s)]
    BY <1>3, <2>1, <2>2, Zenon
  <2>4. s \notin raced
    BY <1>3, Zenon
  <2> QED BY <2>3, <2>4, Zenon DEF RingInv, CopyIsFaithful
<1>18. Copied' = Copied /\ Copied \subseteq Nat
  BY <1>1, TailIsClaimed, Zenon DEF Copied
<1>19. DoneIsKept'
  BY <1>4, <1>16, <1>18, Zenon DEF RingInv, DoneIsKept
<1>20. KeptRecordsAreWhole'
  BY <1>3, <1>4, <1>16, <1>18 DEF RingInv, KeptRecordsAreWhole
<1> QED BY <1>9, <1>10, <1>11, <1>12, <1>13, <1>15, <1>17, <1>19, <1>20, Zenon DEF RingInv

LEMMA WriteFieldsStep ==
  ASSUME RingInv, NEW w \in Writers, WriteFields(w)
  PROVE  RingInv'
<1>1. PICK half \in writer[w].left :
        /\ Store(w, half)
        /\ writer' = [writer EXCEPT ![w].left = @ \ {half}]
        /\ UNCHANGED <<writeIndex, reader, tail, lapped>>
  BY Zenon DEF WriteFields
<1>2. writer \in [Writers -> [seq : Int, left : SUBSET Halves]]
  BY Zenon DEF RingInv, TraceTypeOK
<1>3. writer[w].seq # Idle
  BY <1>1, Zenon DEF RingInv, WritersDiffer
<1>4. half \in Halves /\ half \in Fields
  BY <1>1, <1>2, Zenon DEF Halves, Fields
<1>5. /\ writer' \in [Writers -> [seq : Int, left : SUBSET Halves]]
      /\ \A v \in Writers \ {w} : writer'[v] = writer[v]
      /\ writer'[w].seq = writer[w].seq /\ writer'[w].left = writer[w].left \ {half}
  BY <1>1, <1>2, Zenon
<1> QED BY <1>1, <1>3, <1>4, <1>5, StoreKeeps, Zenon

LEMMA WriteSequenceStep ==
  ASSUME RingInv, NEW w \in Writers, WriteSequence(w)
  PROVE  RingInv'
<1>1. writer \in [Writers -> [seq : Int, left : SUBSET Halves]]
  BY Zenon DEF RingInv, TraceTypeOK
<1>2. writer' = [writer EXCEPT ![w].seq = Idle] /\ writer[w].left = {}
  BY Zenon DEF WriteSequence
<1>3. /\ writer' \in [Writers -> [seq : Int, left : SUBSET Halves]]
      /\ \A v \in Writers \ {w} : writer'[v] = writer[v]
      /\ writer'[w].seq = Idle /\ writer'[w].left = {}
  BY <1>1, <1>2 DEF Idle
<1>4. /\ "Sequence" \in Fields /\ writer[w].seq # Idle /\ Store(w, "Sequence")
      /\ UNCHANGED <<writeIndex, reader, tail, lapped>>
  BY Zenon DEF WriteSequence, Fields
<1> QED BY <1>2, <1>3, <1>4, StoreKeeps, Zenon

\* What no step of the copy touches stays true.
LEMMA ReaderKeepsRing ==
  ASSUME RingInv, UNCHANGED <<ring, writeIndex, writer, lapped, raced>>
  PROVE  /\ WritersDiffer' /\ NumbersAreClaimed' /\ RingHolds'
         /\ \A s \in Int : Disturbed(s)' <=> Disturbed(s)
<1>1. \A s \in Int : Disturbed(s)' <=> Disturbed(s)
  BY Zenon DEF Disturbed
<1>2. WritersDiffer'
  BY Zenon DEF RingInv, WritersDiffer, Slot
<1>3. NumbersAreClaimed'
  BY Zenon DEF RingInv, NumbersAreClaimed
<1>4. \A s \in 0 .. writeIndex - 1 : SlotHolds(s)' <=> SlotHolds(s)
  BY Zenon DEF SlotHolds, Slot
<1>5. writeIndex \in Nat
  BY Zenon DEF RingInv, TraceTypeOK
<1>6. RingHolds'
  BY <1>1, <1>4, <1>5 DEF RingInv, RingHolds
<1> QED BY <1>1, <1>2, <1>3, <1>6, Zenon

LEMMA ReadIndexStep ==
  ASSUME RingInv, ReadIndex
  PROVE  RingInv'
<1>1. TraceTypeOK /\ ReaderInRange /\ reader.at = "wait"
  BY Zenon DEF RingInv, ReadIndex
<1>2. PICK count : count = Min2(Min2(writeIndex, Capacity), TailRecords)
  BY Zenon
<1>3. /\ writeIndex \in Nat /\ count \in Nat /\ count <= writeIndex /\ count <= TailRecords
      /\ TailRecords \in Nat
  BY <1>1, <1>2, RingAssumption DEF Min2, TraceTypeOK
<1>4. reader.count = 0 /\ reader.j = 0 /\ raced = {}
  BY <1>1 DEF ReaderInRange, TraceTypeOK
<1>5. PICK place : place = IF count = 0 THEN "done" ELSE "copy"
  BY Zenon
<1>6. reader' = [reader EXCEPT !.at = place, !.index = writeIndex, !.count = count,
                               !.left = DOMAIN ZeroRecord, !.done = Completed]
  BY <1>2, <1>5, Zenon DEF ReadIndex
<1>7. DOMAIN ZeroRecord = Fields
  BY Zenon DEF ZeroRecord, Fields
<1>8. Completed \subseteq 0 .. writeIndex - 1 /\ \A w \in Writers : writer[w].seq \notin Completed
  BY Zenon DEF Completed
<1>9. place \in {"wait", "copy", "done"} /\ Completed \in SUBSET Nat
  BY <1>3, <1>5, <1>8
<1>10. /\ reader' \in [at : {"wait", "copy", "done"}, index : Nat, count : Nat, j : Nat,
                       record : Records, left : SUBSET Fields, done : SUBSET Nat]
       /\ reader'.at = place /\ reader'.index = writeIndex /\ reader'.count = count
       /\ reader'.j = 0 /\ reader'.left = Fields /\ reader'.done = Completed
  BY <1>1, <1>3, <1>4, <1>6, <1>7, <1>9, Zenon DEF TraceTypeOK
<1>11. UNCHANGED <<ring, writeIndex, writer, tail, lapped, raced>>
  BY Zenon DEF ReadIndex
<1>12. /\ WritersDiffer' /\ NumbersAreClaimed' /\ RingHolds'
  BY <1>11, ReaderKeepsRing, Zenon
<1>13. TraceTypeOK'
  BY <1>1, <1>10, <1>11, Zenon DEF TraceTypeOK
<1>14. ReaderInRange'
  <2>1. /\ place = "copy" => 0 < count
        /\ place = "done" => 0 = count
        /\ place # "wait"
    BY <1>3, <1>5
  <2>2. \A k \in 0 .. TailRecords - 1 : tail[k] = ZeroRecord
    BY <1>1, <1>3, <1>4 DEF ReaderInRange
  <2> QED BY <1>3, <1>10, <1>11, <2>1, <2>2 DEF ReaderInRange
<1>15. DoneStaysDone'
  BY <1>4, <1>8, <1>10, <1>11, Zenon DEF DoneStaysDone
<1>16. CopyIsFaithful'
  BY <1>10, Zenon DEF CopyIsFaithful
<1>17. Copied' = {}
  BY <1>10 DEF Copied
<1>18. DoneIsKept' /\ KeptRecordsAreWhole'
  BY <1>17, Zenon DEF DoneIsKept, KeptRecordsAreWhole
<1> QED BY <1>12, <1>13, <1>14, <1>15, <1>16, <1>18, Zenon DEF RingInv

LEMMA CopyFieldsStep ==
  ASSUME RingInv, CopyFields
  PROVE  RingInv'
<1> DEFINE s == TailSequence(reader.j)
<1>1. TraceTypeOK /\ ReaderInRange /\ reader.at = "copy"
  BY Zenon DEF RingInv, CopyFields
<1>2. PICK part \in SUBSET reader.left \ {{}} :
        reader' = [reader EXCEPT !.left = @ \ part,
                     !.record = [f \in DOMAIN @ |->
                                   IF f \in part THEN ring[Slot(s)][f] ELSE @[f]]]
  BY Zenon DEF CopyFields
<1>3. /\ reader.j \in Nat /\ s \in 0 .. writeIndex - 1 /\ s \in Nat
      /\ reader.record \in Records /\ reader.left \subseteq Fields
  BY <1>1, TailIsClaimed, Zenon DEF TraceTypeOK, ReaderInRange
<1>4. ring[Slot(s)] \in Records
  BY <1>1, <1>3, SlotFacts, Zenon DEF TraceTypeOK
<1>5. DOMAIN reader.record = Fields
  BY <1>3, Zenon DEF Records, Fields
<1>6. PICK copy : copy = [f \in Fields |->
                            IF f \in part THEN ring[Slot(s)][f] ELSE reader.record[f]]
  BY Zenon
<1>7. copy \in Records
  BY <1>3, <1>4, <1>6, Zenon DEF Records, Fields
<1>8. reader' = [reader EXCEPT !.left = reader.left \ part, !.record = copy]
  BY <1>1, <1>2, <1>5, <1>6, Zenon DEF TraceTypeOK
<1>9. /\ reader' \in [at : {"wait", "copy", "done"}, index : Nat, count : Nat, j : Nat,
                      record : Records, left : SUBSET Fields, done : SUBSET Nat]
      /\ reader'.left = reader.left \ part /\ reader'.record = copy
      /\ reader'.at = reader.at /\ reader'.index = reader.index
      /\ reader'.count = reader.count /\ reader'.j = reader.j
      /\ reader'.done = reader.done
  BY <1>1, <1>3, <1>7, <1>8, Zenon DEF TraceTypeOK
<1>10. UNCHANGED <<ring, writeIndex, writer, tail, lapped, raced>>
  BY Zenon DEF CopyFields
<1>11. /\ WritersDiffer' /\ NumbersAreClaimed' /\ RingHolds'
       /\ \A n \in Int : Disturbed(n)' <=> Disturbed(n)
  BY <1>10, ReaderKeepsRing, Zenon
<1>12. TraceTypeOK'
  BY <1>1, <1>9, <1>10, Zenon DEF TraceTypeOK
<1>13. ReaderInRange'
  BY <1>1, <1>9, <1>10, Zenon DEF ReaderInRange
<1>14. DoneStaysDone'
  <2>1. reader.done \subseteq Int
    BY <1>1 DEF TraceTypeOK
  <2> QED BY <1>9, <1>10, <1>11, <2>1, Zenon DEF RingInv, DoneStaysDone
<1>15. \A k \in Nat : TailSequence(k) \in Int /\ TailSequence(k)' = TailSequence(k)
  BY <1>1, <1>9, TailIsClaimed DEF TailSequence
<1>16. TailSequence(reader.j)' = s
  BY <1>3, <1>9, Zenon DEF TailSequence
<1>17. CopyIsFaithful'
  <2> SUFFICES ASSUME s \notin raced, ~Disturbed(s), NEW f \in Fields \ (reader.left \ part)
               PROVE  copy[f] = ring[Slot(s)][f]
    BY <1>3, <1>9, <1>10, <1>11, <1>16 DEF CopyIsFaithful, Slot
  <2>1. CASE f \in part
    BY <1>6, <2>1, Zenon
  <2>2. CASE f \notin part
    <3>1. reader.record[f] = ring[Slot(s)][f]
      BY <1>1, <2>2, Zenon DEF RingInv, CopyIsFaithful
    <3> QED BY <1>6, <2>2, <3>1, Zenon
  <2> QED BY <2>1, <2>2, Zenon
<1>18. Copied' = Copied /\ Copied \subseteq Nat
  BY <1>1, <1>9, TailIsClaimed, Zenon DEF Copied
<1>19. DoneIsKept'
  BY <1>9, <1>10, <1>11, <1>15, <1>18, Zenon DEF RingInv, DoneIsKept
<1>20. KeptRecordsAreWhole'
  BY <1>9, <1>10, <1>11, <1>15, <1>18, Zenon DEF RingInv, KeptRecordsAreWhole
<1> QED BY <1>11, <1>12, <1>13, <1>14, <1>17, <1>19, <1>20, Zenon DEF RingInv

\* A record copied whole from an undisturbed slot is the slot's.  It carries the
\* expected number only when its write was complete, and does when it was
\* complete before the index was read.
LEMMA CopiedRecord ==
  ASSUME RingInv, reader.at = "copy", reader.left = {},
         ~Disturbed(TailSequence(reader.j))
  PROVE  LET s == TailSequence(reader.j)
         IN /\ s \notin raced /\ s # 0 /\ reader.record.Sequence = s => reader.record = Whole(s)
            /\ s \in reader.done => reader.record = Whole(s)
<1> DEFINE s == TailSequence(reader.j)
<1>1. TraceTypeOK /\ ReaderInRange
  BY Zenon DEF RingInv
<1>2. s \in 0 .. writeIndex - 1 /\ s \in Nat /\ reader.record \in Records
  BY <1>1, TailIsClaimed, Zenon DEF TraceTypeOK, ReaderInRange
<1>3. ring[Slot(s)] \in Records
  BY <1>1, <1>2, SlotFacts, Zenon DEF TraceTypeOK
<1>4. SlotHolds(s)
  BY <1>2, Zenon DEF RingInv, RingHolds
<1>5. s \notin raced => \A f \in Fields : reader.record[f] = ring[Slot(s)][f]
  BY Zenon DEF RingInv, CopyIsFaithful
<1> HIDE DEF s
<1>6. ASSUME s \notin raced
      PROVE  reader.record = ring[Slot(s)]
  BY <1>2, <1>3, <1>5, <1>6 DEF Records, Fields
<1>7. ASSUME s \notin raced, s # 0, reader.record.Sequence = s
      PROVE  reader.record = Whole(s)
  BY <1>4, <1>6, <1>7, Zenon DEF SlotHolds
<1>8. ASSUME s \in reader.done
      PROVE  reader.record = Whole(s)
  <2>1. s \notin raced
    BY <1>8, Zenon DEF RingInv, DoneStaysDone, s
  <2>2. \A w \in Writers : writer[w].seq # s
    BY <1>8, Zenon DEF RingInv, DoneStaysDone
  <2> QED BY <1>4, <1>6, <2>1, <2>2, Zenon DEF SlotHolds
<1> QED BY <1>7, <1>8, Zenon DEF s

LEMMA KeepRecordStep ==
  ASSUME RingInv, KeepRecord
  PROVE  RingInv'
<1> DEFINE s == TailSequence(reader.j)
<1>1. TraceTypeOK /\ ReaderInRange /\ reader.at = "copy" /\ reader.left = {}
  BY Zenon DEF RingInv, KeepRecord
<1>2. UNCHANGED <<ring, writeIndex, writer, lapped, raced>>
  BY Zenon DEF KeepRecord
<1>3. PICK place : place = IF reader.j + 1 = reader.count THEN "done" ELSE "copy"
  BY Zenon
<1>4. /\ reader.j \in Nat /\ reader.count \in Nat /\ reader.index \in Nat /\ TailRecords \in Nat
      /\ reader.j < reader.count /\ reader.count <= TailRecords
      /\ reader.j \in 0 .. TailRecords - 1 /\ reader.record \in Records
  BY <1>1, RingAssumption DEF TraceTypeOK, ReaderInRange
<1>5. reader' = [reader EXCEPT !.j = reader.j + 1, !.left = Fields, !.at = place]
  <2>1. DOMAIN ZeroRecord = Fields
    BY Zenon DEF ZeroRecord, Fields
  <2> QED BY <1>3, <2>1, Zenon DEF KeepRecord
<1>6. /\ reader' \in [at : {"wait", "copy", "done"}, index : Nat, count : Nat, j : Nat,
                      record : Records, left : SUBSET Fields, done : SUBSET Nat]
      /\ reader'.at = place /\ reader'.j = reader.j + 1 /\ reader'.left = Fields
      /\ reader'.index = reader.index /\ reader'.count = reader.count
      /\ reader'.done = reader.done
  <2>1. place \in {"wait", "copy", "done"} /\ reader.j + 1 \in Nat
    BY <1>3, <1>4
  <2> QED BY <1>1, <1>5, <2>1, Zenon DEF TraceTypeOK
<1>7. /\ tail' \in [0 .. TailRecords - 1 -> Records]
      /\ \A k \in 0 .. TailRecords - 1 : k # reader.j => tail'[k] = tail[k]
      /\ reader.record.Sequence = s => tail'[reader.j] = reader.record
      /\ reader.record.Sequence # s => tail'[reader.j] = tail[reader.j]
  <2>1. tail \in [0 .. TailRecords - 1 -> Records]
    BY <1>1, Zenon DEF TraceTypeOK
  <2>2. CASE reader.record.Sequence = s
    <3>1. tail' = [tail EXCEPT ![reader.j] = reader.record]
      BY <2>2, Zenon DEF KeepRecord
    <3> QED BY <1>4, <2>1, <2>2, <3>1, Zenon
  <2>3. CASE reader.record.Sequence # s
    <3>1. tail' = tail
      BY <2>3, Zenon DEF KeepRecord
    <3> QED BY <2>1, <2>3, <3>1, Zenon
  <2> QED BY <2>2, <2>3, Zenon
<1>8. /\ WritersDiffer' /\ NumbersAreClaimed' /\ RingHolds'
      /\ \A n \in Int : Disturbed(n)' <=> Disturbed(n)
  BY <1>2, ReaderKeepsRing, Zenon
<1>9. TraceTypeOK'
  BY <1>1, <1>2, <1>6, <1>7, Zenon DEF TraceTypeOK
<1>10. ReaderInRange'
  <2>1. /\ place = "copy" => reader.j + 1 < reader.count
        /\ place = "done" => reader.j + 1 = reader.count
        /\ place # "wait" /\ reader.j + 1 <= reader.count
    BY <1>3, <1>4, SMTT(60)
  <2>2. \A k \in 0 .. TailRecords - 1 : k >= reader.j + 1 => tail'[k] = ZeroRecord
    BY <1>1, <1>4, <1>7, SMTT(60) DEF ReaderInRange
  <2> QED BY <1>1, <1>2, <1>6, <2>1, <2>2, Zenon DEF ReaderInRange
<1>11. DoneStaysDone'
  <2>1. reader.done \subseteq Int
    BY <1>1, SMTT(60) DEF TraceTypeOK
  <2> QED BY <1>2, <1>6, <1>8, <2>1, Zenon DEF RingInv, DoneStaysDone
<1>12. CopyIsFaithful'
  BY <1>6, Zenon DEF CopyIsFaithful
<1>13. \A k \in Nat : TailSequence(k) \in Int /\ TailSequence(k)' = TailSequence(k)
  BY <1>1, <1>6, TailIsClaimed DEF TailSequence
<1>14. /\ Copied' \subseteq Nat
       /\ \A k \in Copied' : k = reader.j \/ (k \in Copied /\ tail'[k] = tail[k])
  BY <1>4, <1>6, <1>7, SMTT(60) DEF Copied
<1>15. s \in Int
  BY <1>4, <1>13, Zenon
<1>16. DoneIsKept'
  <2> SUFFICES ASSUME NEW k \in Copied', TailSequence(k) \in reader.done,
                      ~Disturbed(TailSequence(k))
               PROVE  tail'[k] = Whole(TailSequence(k))
    BY <1>6, <1>8, <1>13, <1>14, Zenon DEF DoneIsKept
  <2>1. CASE k = reader.j
    <3>1. reader.record = Whole(s)
      BY <1>1, <2>1, CopiedRecord, Zenon
    <3>2. reader.record.Sequence = s
      BY <3>1 DEF Whole
    <3> QED BY <1>7, <2>1, <3>1, <3>2, Zenon
  <2>2. CASE k \in Copied /\ tail'[k] = tail[k]
    BY <2>2, Zenon DEF RingInv, DoneIsKept
  <2> QED BY <1>14, <2>1, <2>2, Zenon
<1>17. KeptRecordsAreWhole'
  <2> SUFFICES ASSUME NEW k \in Copied', tail'[k] # ZeroRecord,
                      TailSequence(k) # 0, TailSequence(k) \notin raced,
                      ~Disturbed(TailSequence(k))
               PROVE  tail'[k] = Whole(TailSequence(k))
    BY <1>2, <1>8, <1>13, <1>14, Zenon DEF KeptRecordsAreWhole
  <2>1. CASE k = reader.j
    <3>1. tail[reader.j] = ZeroRecord
      BY <1>1, <1>4 DEF ReaderInRange
    <3>2. reader.record.Sequence = s
      BY <1>7, <2>1, <3>1, Zenon
    <3>3. reader.record = Whole(s)
      BY <1>1, <2>1, <3>2, CopiedRecord, Zenon
    <3> QED BY <1>7, <2>1, <3>2, <3>3, Zenon
  <2>2. CASE k \in Copied /\ tail'[k] = tail[k]
    BY <2>2, Zenon DEF RingInv, KeptRecordsAreWhole
  <2> QED BY <1>14, <2>1, <2>2, Zenon
<1> QED BY <1>8, <1>9, <1>10, <1>11, <1>12, <1>16, <1>17, Zenon DEF RingInv

LEMMA TraceInitInv ==
  ASSUME TraceInit
  PROVE  RingInv
<1>1. /\ Capacity \in Nat /\ TailRecords \in Nat /\ ZeroRecord \in Records
  BY RingAssumption DEF ZeroRecord, Records
<1>2. /\ ring = [i \in 0 .. Capacity - 1 |-> ZeroRecord]
      /\ writeIndex = 0
      /\ writer = [w \in Writers |-> [seq |-> Idle, left |-> {}]]
      /\ reader = [at |-> "wait", index |-> 0, count |-> 0, j |-> 0,
                   record |-> ZeroRecord, left |-> {}, done |-> {}]
      /\ tail = [j \in 0 .. TailRecords - 1 |-> ZeroRecord]
      /\ lapped = {} /\ raced = {}
  BY Zenon DEF TraceInit
<1>3. writer \in [Writers -> [seq : Int, left : SUBSET Halves]]
  BY <1>2, SMTT(60) DEF Idle
<1>4. reader \in [at : {"wait", "copy", "done"}, index : Nat, count : Nat, j : Nat,
                  record : Records, left : SUBSET Fields, done : SUBSET Nat]
  BY <1>1, <1>2, Zenon
<1>5. TraceTypeOK
  BY <1>1, <1>2, <1>3, <1>4, Zenon DEF TraceTypeOK
<1>6. WritersDiffer
  BY <1>2, Zenon DEF WritersDiffer
<1>7. NumbersAreClaimed
  BY <1>2, Zenon DEF NumbersAreClaimed, ZeroRecord
<1>8. RingHolds
  BY <1>2 DEF RingHolds
<1>9. ReaderInRange
  BY <1>1, <1>2 DEF ReaderInRange
<1>10. DoneStaysDone /\ CopyIsFaithful
  BY <1>2, Zenon DEF DoneStaysDone, CopyIsFaithful
<1>11. Copied = {}
  BY <1>2 DEF Copied
<1>12. DoneIsKept /\ KeptRecordsAreWhole
  BY <1>11, Zenon DEF DoneIsKept, KeptRecordsAreWhole
<1> QED BY <1>5, <1>6, <1>7, <1>8, <1>9, <1>10, <1>12, Zenon DEF RingInv

LEMMA TraceStutter ==
  ASSUME RingInv, UNCHANGED ringVars
  PROVE  RingInv'
<1>1. /\ ring' = ring /\ writeIndex' = writeIndex /\ writer' = writer /\ reader' = reader
      /\ tail' = tail /\ lapped' = lapped /\ raced' = raced
  BY Zenon DEF ringVars
<1>2. TraceTypeOK'
  BY <1>1, Zenon DEF RingInv, TraceTypeOK
<1>3. WritersDiffer' /\ NumbersAreClaimed'
  BY <1>1, Zenon DEF RingInv, WritersDiffer, NumbersAreClaimed
<1>4. RingHolds'
  BY <1>1 DEF RingInv, RingHolds, SlotHolds, Disturbed
<1>5. ReaderInRange' /\ DoneStaysDone'
  BY <1>1, Zenon DEF RingInv, ReaderInRange, DoneStaysDone, Disturbed
<1>6. CopyIsFaithful'
  BY <1>1, Zenon DEF RingInv, CopyIsFaithful, TailSequence, Disturbed
<1>7. DoneIsKept' /\ KeptRecordsAreWhole'
  BY <1>1, Zenon DEF RingInv, DoneIsKept, KeptRecordsAreWhole, TailSequence, Copied, Disturbed
<1> QED BY <1>2, <1>3, <1>4, <1>5, <1>6, <1>7, Zenon DEF RingInv

\* The inductive invariant says what the dump and a quiet ring hold.
LEMMA RingInvTellsTheTail ==
  ASSUME RingInv
  PROVE  TailIsTruthful
<1>1. TraceTypeOK /\ ReaderInRange
  BY Zenon DEF RingInv
<1>2. ASSUME NEW s \in reader.done, s \in reader.index - reader.count .. reader.index - 1,
             ~Disturbed(s), reader.at = "done"
      PROVE  \E k \in Copied : tail[k] = Whole(s)
  <2>1. /\ reader.index \in Nat /\ reader.count \in Nat /\ reader.j = reader.count
    BY <1>1, <1>2, Zenon DEF TraceTypeOK, ReaderInRange
  <2>2. PICK k \in Copied : TailSequence(k) = s
    <3>1. s - (reader.index - reader.count) \in Copied
      BY <1>2, <2>1 DEF Copied
    <3>2. TailSequence(s - (reader.index - reader.count)) = s
      BY <1>2, <2>1 DEF TailSequence
    <3> QED BY <3>1, <3>2, Zenon
  <2>3. tail[k] = Whole(s)
    BY <1>2, <2>2, Zenon DEF RingInv, DoneIsKept
  <2> QED BY <2>3, Zenon
<1>3. CompleteRecordsAreKept
  BY <1>2, Zenon DEF CompleteRecordsAreKept
<1>4. ASSUME \A w \in Writers : writer[w].seq = Idle,
             NEW s \in {n \in 0 .. writeIndex - 1 : n + Capacity >= writeIndex} \ lapped
      PROVE  \E i \in DOMAIN ring : ring[i] = Whole(s)
  <2>1. writeIndex \in Nat /\ s \in 0 .. writeIndex - 1 /\ s \in Nat /\ s # Idle
    BY <1>1, <1>4 DEF TraceTypeOK, Idle
  <2>2. ~Disturbed(s)
    BY <1>4, <2>1, RingAssumption DEF Disturbed
  <2>3. ring[Slot(s)] = Whole(s)
    BY <1>4, <2>1, <2>2, Zenon DEF RingInv, RingHolds, SlotHolds
  <2>4. Slot(s) \in DOMAIN ring
    BY <1>1, <2>1, SlotFacts, Zenon DEF TraceTypeOK
  <2> QED BY <2>3, <2>4, Zenon
<1>5. QuietRingIsCurrent
  BY <1>4, Zenon DEF QuietRingIsCurrent
<1> QED BY <1>3, <1>5, Zenon DEF RingInv, TailIsTruthful

\* WriteHvTrace and CaptureHvCrashBlob, however their stores and loads interleave:
\* the records of the dumped tail are whole, none that was complete is missing,
\* and a quiet ring holds the last writes, with the exceptions TailIsTruthful names.
THEOREM TailStaysTruthful == TraceSpec => []TailIsTruthful
<1>1. ASSUME RingInv, TraceNext PROVE RingInv'
  BY <1>1, ClaimStep, WriteFieldsStep, WriteSequenceStep, ReadIndexStep, CopyFieldsStep,
     KeepRecordStep, Zenon DEF TraceNext
<1>2. RingInv /\ [TraceNext]_ringVars => RingInv'
  BY <1>1, TraceStutter, Zenon
<1>3. RingInv => TailIsTruthful
  BY RingInvTellsTheTail, Zenon
<1>4. TraceInit => RingInv
  BY TraceInitInv, Zenon
<1> QED BY <1>2, <1>3, <1>4, PTL DEF TraceSpec

-----------------------------------------------------------------------------
(* The crash blob and its callback. *)

CapturePlaces == {"none", "offered", "begin", "state", "reason", "guest", "valid", "check",
                  "tail", "finish", "faulted"}
Copying == {"reason", "guest", "valid", "check"}
Dumps == [registered : BOOLEAN, authorized : BOOLEAN, pointer : BOOLEAN, size : Nat]
Blobs == [reason : Origins, guest : Origins, valid : SUBSET {"reason", "guest"}]
Snapshots == [commit : CommitStates, reason : Origins, guest : Origins,
              valid : SUBSET {"reason", "guest"}]
Captures == [at : CapturePlaces, max : Nat, first : CommitStates]

\* The callback is listed only while it is registered, the blob it finds is
\* allocated, and the last part of the unload runs without it.
StorageInv ==
  /\ dump \in Dumps
  /\ listed => dump.registered
  /\ listed /\ dump.pointer => "blob" \in live
  /\ driver = "unloaded" => ~dump.pointer
  /\ listed => driver \notin {"deregistered", "release", "unregisterClear", "unmapped"}

\* Once a fatal snapshot is begun, nothing from an earlier exit is marked valid.
SnapshotInv ==
  /\ snapshot \in Snapshots
  /\ BugCheckShowsTheFatalExit
  /\ snapshot.commit # "Empty" =>
       snapshot.valid \subseteq {"reason"} /\
       ("reason" \in snapshot.valid => snapshot.reason = "fatal")

\* What a blob may show.
Coherent(b) == b.valid \subseteq {"reason"} /\ ("reason" \in b.valid => b.reason = "fatal")

\* Unless the contexts are freed under it, a copy that began under a committed
\* snapshot is a copy of it and what leaves the check is coherent; the blob rests
\* while no capture is under way.
CaptureInv ==
  /\ capture \in Captures /\ blob \in Blobs /\ captured \in {"Idle", "Writing", "Committed"}
  /\ captured = "Writing" <=> capture.at \notin {"none", "offered"}
  /\ captured = "Idle" => blob = EmptyBlob
  /\ ~ContextsDangle /\ capture.first = "Committed" /\ capture.at \in Copying =>
       /\ snapshot.commit = "Committed"
       /\ capture.at # "reason" => blob.reason = snapshot.reason
       /\ capture.at \in {"valid", "check"} => blob.guest = snapshot.guest
       /\ capture.at = "check" => blob.valid = snapshot.valid
  /\ ~ContextsDangle /\ (captured = "Committed" \/ capture.at \in {"tail", "finish"}) =>
       Coherent(blob)

\* The cursor of a dump under way is what has been delivered.
ChunkInv ==
  /\ cursor \in Nat \cup {Ended} /\ delivered \in Nat
  /\ answer \in [offset : Int, length : Nat]
  /\ ~bugcheck => cursor = Ended /\ answer = NoChunk /\ delivered = 0 /\ captured = "Idle"
  /\ capture.at # "none" => cursor # Ended
  /\ cursor # Ended => cursor = delivered
  /\ OnlyCommittedDataLeaves /\ ChunksMakeTheBlob

DumpInv == StorageInv /\ SnapshotInv /\ CaptureInv /\ ChunkInv

\* The driver thread keeps the callback's storage, step by step.
LEMMA DriverKeepsStorage ==
  ASSUME StorageInv, DriverThread
  PROVE  StorageInv' /\ dump' \in Dumps
<1>1. dump \in Dumps
  BY Zenon DEF StorageInv
<1>2. CASE RegisterSecondaryDumpCallback
  <2>1. PICK ok \in BOOLEAN : listed' = ok /\ dump' = [dump EXCEPT !.registered = ok]
    BY <1>2, Zenon DEF RegisterSecondaryDumpCallback
  <2>2. dump' \in Dumps /\ dump'.registered = ok /\ dump'.pointer = dump.pointer
    BY <1>1, <2>1, Zenon DEF Dumps
  <2>3. driver = "unloaded" /\ driver' = "start"
    BY <1>2, Zenon DEF RegisterSecondaryDumpCallback, Driver
  <2> QED BY <2>1, <2>2, <2>3, Zenon DEF StorageInv
<1>3. CASE InitializePointer
  <2>1. dump' \in Dumps /\ dump'.registered = dump.registered
    BY <1>1, <1>3, Zenon DEF InitializePointer, Dumps
  <2> QED BY <1>3, <2>1, Zenon DEF StorageInv, InitializePointer, Driver
<1>4. CASE InitializeSize
  <2>1. dump' \in Dumps /\ dump'.registered = dump.registered /\ dump'.pointer = dump.pointer
    BY <1>1, <1>4, DumpAssumption, Zenon DEF InitializeSize, Dumps
  <2> QED BY <1>4, <2>1, Zenon DEF StorageInv, InitializeSize, Driver
<1>5. CASE AllocateContexts
  BY <1>5, Zenon DEF StorageInv, AllocateContexts, Driver
<1>6. CASE RejectStart \/ QuarantineStop \/ ClearContexts \/ SetIdle
  BY <1>6 DEF StorageInv, RejectStart, QuarantineStop, ClearContexts, SetIdle, Driver
<1>7. CASE FreeRing \/ FreeContexts
  BY <1>7 DEF StorageInv, FreeRing, FreeContexts, Driver
<1>8. ~Retained => ~listed
  BY Zenon DEF Retained, StorageInv
<1>9. CASE ReleaseInStop \/ ReleaseInReject
  <2>1. driver' \in {"stopClear", "stopped", "rejectClear", "idle"} /\ UNCHANGED <<listed, dump>>
    BY <1>9, Zenon DEF ReleaseInStop, ReleaseInReject, FreeBlob, Driver
  <2>2. listed => live' = live
    BY <1>8, <1>9, Zenon DEF ReleaseInStop, ReleaseInReject, FreeBlob
  <2> QED BY <2>1, <2>2, Zenon DEF StorageInv
<1>10. CASE ReleaseInUnregister
  <2>1. ~listed
    BY <1>10, Zenon DEF StorageInv, ReleaseInUnregister, FreeBlob, Driver
  <2>2. driver' \in {"unregisterClear", "unmapped"} /\ UNCHANGED <<listed, dump>>
    BY <1>10, Zenon DEF ReleaseInUnregister, FreeBlob, Driver
  <2> QED BY <2>1, <2>2, Zenon DEF StorageInv
<1>11. ASSUME dump' = [dump EXCEPT !.pointer = FALSE, !.size = 0, !.authorized = FALSE]
       PROVE  dump' \in Dumps /\ dump'.registered = dump.registered /\ dump'.pointer = FALSE
  BY <1>1, <1>11, Zenon DEF Dumps
<1>12. CASE ClearBlob("rejectClear", "idle")
  BY <1>11, <1>12, Zenon DEF StorageInv, ClearBlob, Driver
<1>13. CASE ClearBlob("unregisterClear", "unmapped")
  BY <1>11, <1>13, Zenon DEF StorageInv, ClearBlob, Driver
<1>14. CASE UnregisterNothing
  BY <1>14, Zenon DEF StorageInv, UnregisterNothing, Driver
<1>15. CASE Deregister
  BY <1>15, Zenon DEF StorageInv, Deregister, Driver
<1>16. CASE Authorize
  <2>1. dump' \in Dumps
    BY <1>1, <1>16, Zenon DEF Authorize, Dumps
  <2>2. ~listed /\ listed' = listed /\ driver' = "release"
    BY <1>16, Zenon DEF StorageInv, Authorize, Driver
  <2> QED BY <2>1, <2>2, Zenon DEF StorageInv
<1>17. StorageInv'
  BY <1>2, <1>3, <1>4, <1>5, <1>6, <1>7, <1>9, <1>10, <1>12, <1>13, <1>14, <1>15, <1>16, Zenon
  DEF DriverThread
<1> QED BY <1>17, Zenon DEF StorageInv

\* The driver thread runs only before the bugcheck, when nothing has been dumped.
LEMMA DriverStep ==
  ASSUME DumpInv, DriverThread
  PROVE  DumpInv'
<1>1. StorageInv'
  BY DriverKeepsStorage, Zenon DEF DumpInv
<1>2. UNCHANGED <<snapshot, bugcheck, parameters, captured, capture, blob,
                  cursor, answer, delivered>>
  BY Zenon DEF DriverThread, callbackVars
<1>3. ~bugcheck
  BY Zenon DEF DriverThread, RegisterSecondaryDumpCallback, InitializePointer, InitializeSize,
     AllocateContexts, RejectStart, QuarantineStop, FreeRing, FreeContexts, ClearContexts, ReleaseInStop,
     ReleaseInReject, SetIdle, UnregisterNothing, Deregister, Authorize, ReleaseInUnregister,
     FreeBlob, ClearBlob, Driver
<1>4. SnapshotInv'
  BY <1>2, Zenon DEF DumpInv, SnapshotInv, BugCheckShowsTheFatalExit
<1>5. captured = "Idle" /\ capture.at = "none"
  BY <1>3, Zenon DEF DumpInv, ChunkInv
<1>6. CaptureInv'
  BY <1>2, <1>5, Zenon DEF DumpInv, CaptureInv, Copying
<1>7. answer.length = 0
  BY <1>3 DEF DumpInv, ChunkInv, NoChunk
<1>8. ChunkInv'
  BY <1>2, <1>7 DEF DumpInv, ChunkInv, OnlyCommittedDataLeaves, ChunksMakeTheBlob
<1> QED BY <1>1, <1>4, <1>8, <1>6, Zenon DEF DumpInv

\* What the processor in VMX root does to its snapshot: a committed one it leaves
\* alone.
LEMMA RootStep ==
  ASSUME DumpInv,
         \/ RecordExitReason \/ RecordGuestState \/ BeginFatalSnapshot
         \/ ReadFatalReason \/ ReadFatalGuestState \/ CommitFatalSnapshot
  PROVE  DumpInv'
<1>1. UNCHANGED <<storageVars, callbackVars, bugcheck, parameters>>
  BY Zenon DEF RecordExitReason, RecordGuestState, BeginFatalSnapshot, ReadFatalReason,
     ReadFatalGuestState, CommitFatalSnapshot, Root
<1>2. snapshot \in Snapshots
  BY Zenon DEF DumpInv, SnapshotInv
<1>3. snapshot.commit # "Committed"
  BY Zenon DEF RecordExitReason, RecordGuestState, BeginFatalSnapshot, ReadFatalReason,
     ReadFatalGuestState, CommitFatalSnapshot
<1>4. BugCheckShowsTheFatalExit'
  BY <1>1, Zenon DEF DumpInv, SnapshotInv, BugCheckShowsTheFatalExit
<1>5. SnapshotInv'
  <2>1. CASE RecordExitReason
    <3>1. snapshot' \in Snapshots /\ snapshot'.commit = "Empty"
      BY <1>2, <2>1, Zenon DEF RecordExitReason, Snapshots, Origins
    <3> QED BY <1>4, <3>1, Zenon DEF SnapshotInv
  <2>2. CASE RecordGuestState
    <3>1. snapshot' \in Snapshots /\ snapshot'.commit = "Empty"
      BY <1>2, <2>2, Zenon DEF RecordGuestState, Snapshots, Origins
    <3> QED BY <1>4, <3>1, Zenon DEF SnapshotInv
  <2>3. CASE BeginFatalSnapshot
    <3>1. snapshot' \in Snapshots /\ snapshot'.valid = {}
      BY <1>2, <2>3, Zenon DEF BeginFatalSnapshot, Snapshots, CommitStates
    <3> QED BY <1>4, <3>1, Zenon DEF SnapshotInv
  <2>4. CASE ReadFatalReason
    <3>1. snapshot' \in Snapshots /\ snapshot'.valid = {"reason"} /\ snapshot'.reason = "fatal"
      BY <1>2, <2>4, Zenon DEF ReadFatalReason, Snapshots, Origins
    <3> QED BY <1>4, <3>1, Zenon DEF SnapshotInv
  <2>5. CASE ReadFatalGuestState
    <3>1. /\ snapshot' \in Snapshots /\ snapshot'.valid = snapshot.valid
          /\ snapshot'.reason = snapshot.reason /\ snapshot'.commit = snapshot.commit
      BY <1>2, <2>5, Zenon DEF ReadFatalGuestState, Snapshots, Origins
    <3> QED BY <1>4, <3>1, Zenon DEF DumpInv, SnapshotInv
  <2>6. CASE CommitFatalSnapshot
    <3>1. /\ snapshot' \in Snapshots /\ snapshot'.valid = snapshot.valid
          /\ snapshot'.reason = snapshot.reason /\ snapshot.commit = "Writing"
      BY <1>2, <2>6, Zenon DEF CommitFatalSnapshot, Snapshots, CommitStates
    <3> QED BY <1>4, <3>1, Zenon DEF DumpInv, SnapshotInv
  <2> QED BY <2>1, <2>2, <2>3, <2>4, <2>5, <2>6, Zenon
<1>6. ~(~ContextsDangle /\ capture.first = "Committed" /\ capture.at \in Copying)
  BY <1>3, Zenon DEF DumpInv, CaptureInv
<1>7. CaptureInv'
  BY <1>1, <1>6, Zenon DEF DumpInv, CaptureInv, Coherent, ContextsDangle, callbackVars, storageVars
<1>8. StorageInv' /\ ChunkInv'
  BY <1>1, Zenon
     DEF DumpInv, StorageInv, ChunkInv, OnlyCommittedDataLeaves, ChunksMakeTheBlob,
     storageVars, callbackVars
<1> QED BY <1>5, <1>7, <1>8, Zenon DEF DumpInv

\* The bugcheck starts the dump at byte 0.
LEMMA BugCheckStep ==
  ASSUME DumpInv, FatalExitBugCheck \/ ForeignBugCheck
  PROVE  DumpInv'
<1>1. /\ ~bugcheck /\ bugcheck' = TRUE /\ cursor' = IF listed THEN 0 ELSE Ended
      /\ UNCHANGED <<storageVars, snapshot, captured, capture, blob, answer, delivered>>
  BY Zenon DEF FatalExitBugCheck, ForeignBugCheck, StartDump
<1>2. StorageInv' /\ CaptureInv'
  BY <1>1, Zenon DEF DumpInv, StorageInv, CaptureInv, Coherent, ContextsDangle, storageVars
<1>3. BugCheckShowsTheFatalExit'
  <2>1. CASE FatalExitBugCheck
    BY <2>1, Zenon DEF FatalExitBugCheck, DumpInv, SnapshotInv, BugCheckShowsTheFatalExit
  <2>2. CASE ForeignBugCheck
    BY <2>2, Zenon DEF ForeignBugCheck, DumpInv, SnapshotInv, BugCheckShowsTheFatalExit
  <2> QED BY <2>1, <2>2, Zenon
<1>4. SnapshotInv'
  BY <1>1, <1>3, Zenon DEF DumpInv, SnapshotInv
<1>5. cursor = Ended /\ answer = NoChunk /\ delivered = 0 /\ capture.at = "none"
  BY <1>1, Zenon DEF DumpInv, ChunkInv
<1>6. cursor' \in {0, Ended} /\ answer'.length = 0 /\ NoChunk \in [offset : Int, length : Nat]
  BY <1>1, <1>5 DEF NoChunk
<1>7. ChunkInv'
  BY <1>1, <1>5, <1>6 DEF ChunkInv, OnlyCommittedDataLeaves, ChunksMakeTheBlob
<1> QED BY <1>2, <1>7, <1>4, Zenon DEF DumpInv

\* The chunk handed out at the cursor continues what was delivered, and the dump
\* ends with the blob.
LEMMA AnswerChunkFacts ==
  ASSUME ChunkInv, dump \in Dumps, cursor # Ended, NEW max \in Nat, AnswerChunk(max)
  PROVE  /\ cursor' \in Nat \cup {Ended} /\ delivered' \in Nat
         /\ answer' \in [offset : Int, length : Nat]
         /\ cursor' # Ended => cursor' = delivered'
         /\ answer'.length > 0 =>
              /\ answer'.offset + answer'.length = delivered'
              /\ cursor' # Ended => cursor' = delivered' /\ delivered' < dump.size
              /\ cursor' = Ended => delivered' = dump.size
<1>1. /\ cursor \in Nat /\ cursor = delivered /\ dump.size \in Nat
  BY Zenon DEF ChunkInv, Dumps
<1>2. PICK remaining : remaining = dump.size - cursor
  BY Zenon
<1>3. PICK length : length = IF max >= remaining THEN remaining ELSE max
  BY Zenon
<1>4. CASE ~dump.pointer \/ dump.size = 0 \/ cursor >= dump.size \/ max = 0
  <2>1. answer' = NoChunk /\ delivered' = delivered /\ cursor' = Ended
    BY <1>4, Zenon DEF AnswerChunk, EmptyAnswer
  <2>2. NoChunk \in [offset : Int, length : Nat] /\ NoChunk.length = 0
    BY DEF NoChunk
  <2> QED BY <1>1, <2>1, <2>2
<1>5. CASE ~(~dump.pointer \/ dump.size = 0 \/ cursor >= dump.size \/ max = 0)
  <2>1. /\ answer' = [offset |-> cursor, length |-> length]
        /\ delivered' = delivered + length
        /\ cursor' = IF length < remaining THEN cursor + length ELSE Ended
    BY <1>2, <1>3, <1>5, Zenon DEF AnswerChunk
  <2>2. remaining \in Nat /\ length \in Nat /\ length <= remaining
    BY <1>1, <1>2, <1>3, <1>5
  <2>3. answer'.offset = cursor /\ answer'.length = length
    BY <2>1, Zenon
  <2>4. answer' \in [offset : Int, length : Nat]
    BY <1>1, <2>1, <2>2
  <2>5. CASE length < remaining
    <3>1. cursor' = cursor + length
      BY <2>1, <2>5, Zenon
    <3> QED BY <1>1, <1>2, <2>1, <2>2, <2>3, <2>4, <2>5, <3>1 DEF Ended
  <2>6. CASE ~(length < remaining)
    <3>1. cursor' = Ended /\ length = remaining
      BY <2>1, <2>2, <2>6
    <3> QED BY <1>1, <1>2, <2>1, <2>2, <2>3, <2>4, <3>1
  <2> QED BY <2>5, <2>6, Zenon
<1> QED BY <1>4, <1>5, Zenon

\* The steps of the capture: a place of the copy is left for the next one.
LEMMA CaptureMoves ==
  ASSUME capture \in Captures, NEW from, NEW to \in CapturePlaces, Capturing(from, to)
  PROVE  /\ capture' \in Captures /\ capture.at = from /\ capture'.at = to
         /\ capture'.first = capture.first
         /\ UNCHANGED <<captured, cursor, answer, delivered,
                        storageVars, snapshot, bugcheck, parameters>>
BY Zenon DEF Capturing, Called, Captures

\* The offset of the dump writer is not touched, and the capture has not ended.
LEMMA ChunkKept ==
  ASSUME ChunkInv, UNCHANGED <<captured, cursor, answer, delivered, storageVars, bugcheck>>,
         capture'.at # "none" => cursor # Ended
  PROVE  ChunkInv'
BY Zenon DEF ChunkInv, OnlyCommittedDataLeaves, ChunksMakeTheBlob, storageVars

\* A read of the context finds its value, or any of its type once it is freed.
LEMMA ContextRead ==
  ASSUME NEW S, NEW value \in S, NEW x \in FromContext(value, S)
  PROVE  x \in S /\ (~ContextsDangle => x = value)
BY Zenon DEF FromContext

\* The part of CaptureInv about a copy under way.
LEMMA CopyStep ==
  ASSUME DumpInv,
         \/ BeginCapture \/ ReadCommitState \/ CopyReason \/ CopyGuestState
         \/ CopyValidity \/ CheckCommitState \/ CopyTraceTail \/ FaultInCapture
  PROVE  /\ CaptureInv' /\ capture.at # "none"
         /\ UNCHANGED <<captured, cursor, answer, delivered,
                        storageVars, snapshot, bugcheck, parameters>>
<1> DEFINE Kept == UNCHANGED <<captured, cursor, answer, delivered, storageVars, snapshot,
                               bugcheck, parameters>>
<1>1. /\ capture \in Captures /\ blob \in Blobs /\ snapshot \in Snapshots
      /\ capture.at \notin {"none", "offered"} => captured = "Writing"
  BY Zenon DEF DumpInv, CaptureInv, SnapshotInv
<1>2. /\ EmptyBlob \in Blobs /\ Coherent(EmptyBlob)
      /\ {"state", "finish", "reason", "guest", "valid", "check", "tail"} \subseteq CapturePlaces
  BY Zenon DEF EmptyBlob, Blobs, Origins, Coherent, CapturePlaces
<1>3. ASSUME Kept
      PROVE  ContextsDangle' <=> ContextsDangle
  <2>1. contexts' = contexts /\ live' = live
    BY <1>3, Zenon DEF storageVars
  <2> QED BY <2>1, Zenon DEF ContextsDangle
<1>4. CASE BeginCapture
  <2>1. PICK to \in {"state", "finish"} : Capturing("begin", to)
    BY <1>4, Zenon DEF BeginCapture
  <2>2. capture' \in Captures /\ capture.at = "begin" /\ capture'.at = to /\ Kept
    BY <1>1, <1>2, <2>1, CaptureMoves, Zenon
  <2>3. blob' = EmptyBlob /\ captured = "Writing"
    BY <1>1, <1>4, <2>2, Zenon DEF BeginCapture
  <2> QED BY <1>2, <2>1, <2>2, <2>3, Zenon DEF CaptureInv, Copying
<1>5. CASE ReadCommitState
  <2>1. snapshot.commit \in CommitStates
    BY <1>1, Zenon DEF Snapshots
  <2>2. PICK commit \in FromContext(snapshot.commit, CommitStates) :
               capture' = [capture EXCEPT !.at = "reason", !.first = commit]
    BY <1>5, Zenon DEF ReadCommitState
  <2>3. commit \in CommitStates /\ (~ContextsDangle => commit = snapshot.commit)
    BY <2>1, <2>2, ContextRead, Zenon
  <2>4. capture' \in Captures /\ capture'.at = "reason" /\ capture'.first = commit
    BY <1>1, <1>2, <2>2, <2>3, Zenon DEF Captures
  <2>5. capture.at = "state" /\ blob' = blob /\ Kept
    BY <1>5, Zenon DEF ReadCommitState, Called
  <2> QED BY <1>1, <1>3, <2>3, <2>4, <2>5, Zenon DEF CaptureInv
<1>6. CASE CopyReason
  <2>1. /\ capture' \in Captures /\ capture.at = "reason" /\ capture'.at = "guest"
        /\ capture'.first = capture.first /\ Kept
    BY <1>1, <1>2, <1>6, CaptureMoves, Zenon DEF CopyReason
  <2>2. PICK reason \in FromContext(snapshot.reason, Origins) :
               blob' = [blob EXCEPT !.reason = reason]
    BY <1>6, Zenon DEF CopyReason
  <2>3. reason \in Origins /\ (~ContextsDangle => reason = snapshot.reason)
    BY <1>1, <2>2, ContextRead, Zenon DEF Snapshots
  <2>4. blob' \in Blobs /\ blob'.reason = reason
    BY <1>1, <2>2, <2>3, Zenon DEF Blobs
  <2> QED BY <1>1, <1>3, <2>1, <2>3, <2>4, Zenon DEF DumpInv, CaptureInv, Copying
<1>7. CASE CopyGuestState
  <2>1. /\ capture' \in Captures /\ capture.at = "guest" /\ capture'.at = "valid"
        /\ capture'.first = capture.first /\ Kept
    BY <1>1, <1>2, <1>7, CaptureMoves, Zenon DEF CopyGuestState
  <2>2. PICK guest \in FromContext(snapshot.guest, Origins) :
               blob' = [blob EXCEPT !.guest = guest]
    BY <1>7, Zenon DEF CopyGuestState
  <2>3. guest \in Origins /\ (~ContextsDangle => guest = snapshot.guest)
    BY <1>1, <2>2, ContextRead, Zenon DEF Snapshots
  <2>4. blob' \in Blobs /\ blob'.reason = blob.reason /\ blob'.guest = guest
    BY <1>1, <2>2, <2>3, Zenon DEF Blobs
  <2> QED BY <1>1, <1>3, <2>1, <2>3, <2>4, Zenon DEF DumpInv, CaptureInv, Copying
<1>8. CASE CopyValidity
  <2>1. /\ capture' \in Captures /\ capture.at = "valid" /\ capture'.at = "check"
        /\ capture'.first = capture.first /\ Kept
    BY <1>1, <1>2, <1>8, CaptureMoves, Zenon DEF CopyValidity
  <2>2. PICK valid \in FromContext(snapshot.valid, SUBSET {"reason", "guest"}) :
               blob' = [blob EXCEPT !.valid = valid]
    BY <1>8, Zenon DEF CopyValidity
  <2>3. valid \in SUBSET {"reason", "guest"} /\ (~ContextsDangle => valid = snapshot.valid)
    <3>1. snapshot.valid \in SUBSET {"reason", "guest"}
      BY <1>1, Zenon DEF Snapshots
    <3> QED BY <2>2, <3>1, Zenon DEF FromContext
  <2>4. /\ blob' \in Blobs /\ blob'.reason = blob.reason /\ blob'.guest = blob.guest
        /\ blob'.valid = valid
    BY <1>1, <2>2, <2>3, Zenon DEF Blobs
  <2> QED BY <1>1, <1>3, <2>1, <2>3, <2>4, Zenon DEF DumpInv, CaptureInv, Copying
<1>9. CASE CheckCommitState
  <2>1. capture' \in Captures /\ capture.at = "check" /\ capture'.at = "tail" /\ Kept
    BY <1>1, <1>2, <1>9, CaptureMoves, Zenon DEF CheckCommitState
  <2>2. PICK commit \in FromContext(snapshot.commit, CommitStates) :
               blob' = IF capture.first = "Committed" /\ commit = "Committed"
                       THEN blob ELSE [blob EXCEPT !.valid = {}]
    BY <1>9, Zenon DEF CheckCommitState
  <2>3. CASE capture.first = "Committed" /\ commit = "Committed"
    <3>1. blob' = blob
      BY <2>2, <2>3, Zenon
    <3>2. ASSUME ~ContextsDangle PROVE Coherent(blob)
      <4>1. /\ blob.reason = snapshot.reason /\ blob.valid = snapshot.valid
            /\ snapshot.commit = "Committed"
        BY <2>1, <2>3, <3>2, Zenon DEF DumpInv, CaptureInv, Copying
      <4> QED BY <4>1, Zenon DEF DumpInv, SnapshotInv, Coherent
    <3>3. ~ContextsDangle => Coherent(blob)'
      BY <3>1, <3>2, Zenon DEF Coherent
    <3> QED BY <1>1, <1>3, <2>1, <3>1, <3>3, Zenon DEF CaptureInv, Copying
  <2>4. CASE ~(capture.first = "Committed" /\ commit = "Committed")
    <3>1. blob' \in Blobs /\ blob'.valid = {}
      BY <1>1, <2>2, <2>4, Zenon DEF Blobs
    <3> QED BY <1>1, <2>1, <3>1, Zenon DEF CaptureInv, Coherent, Copying
  <2> QED BY <2>3, <2>4, Zenon
<1>10. CASE CopyTraceTail
  <2>1. capture' \in Captures /\ capture.at = "tail" /\ capture'.at = "finish" /\ Kept
    BY <1>1, <1>2, <1>10, CaptureMoves, Zenon DEF CopyTraceTail
  <2>2. blob' = blob
    BY <1>10, Zenon DEF CopyTraceTail
  <2> QED BY <1>1, <1>3, <2>1, <2>2, Zenon DEF DumpInv, CaptureInv, Coherent, Copying
<1>11. CASE FaultInCapture
  <2>1. capture' \in Captures /\ capture'.at = "faulted"
    BY <1>1, <1>11, Zenon DEF FaultInCapture, Captures, CapturePlaces
  <2>2. capture.at \in Copying \cup {"state", "tail"} /\ blob' = blob /\ Kept
    BY <1>11, Zenon DEF FaultInCapture, ReadsFreed, Called, Copying
  <2> QED BY <1>1, <2>1, <2>2, Zenon DEF CaptureInv, Copying
<1> QED BY <1>4, <1>5, <1>6, <1>7, <1>8, <1>9, <1>10, <1>11, Zenon

\* A call of the dump writer, or one that arrives during the capture.
LEMMA CallbackStep ==
  ASSUME DumpInv, Callback \/ CallWhileWriting \/ FaultInCapture
  PROVE  DumpInv'
<1>1. /\ StorageInv /\ SnapshotInv /\ CaptureInv /\ ChunkInv
      /\ capture \in Captures /\ blob \in Blobs /\ dump \in Dumps
  BY Zenon DEF DumpInv, CaptureInv, StorageInv
<1>2. ASSUME UNCHANGED <<storageVars, snapshot, parameters>>, CaptureInv', ChunkInv'
      PROVE  DumpInv'
  BY <1>1, <1>2, Zenon
     DEF DumpInv, StorageInv, SnapshotInv, BugCheckShowsTheFatalExit, storageVars
<1>3. NoCapture \in Captures /\ NoCapture.at = "none"
  BY Zenon DEF NoCapture, Captures, CapturePlaces, CommitStates
<1>4. CASE OfferRoom
  <2>1. PICK max \in Allowed : capture' = [NoCapture EXCEPT !.at = "offered", !.max = max]
    BY <1>4, Zenon DEF OfferRoom
  <2>2. capture' \in Captures /\ capture'.at = "offered"
    BY <1>3, <2>1, DumpAssumption, Zenon DEF Captures, CapturePlaces
  <2>3. /\ UNCHANGED <<captured, blob, cursor, answer, delivered,
                       storageVars, snapshot, bugcheck, parameters>>
        /\ cursor # Ended /\ capture.at = "none"
    BY <1>4, Zenon DEF OfferRoom, Called
  <2>4. CaptureInv'
    BY <1>1, <2>2, <2>3, Zenon DEF CaptureInv, Coherent, Copying, ContextsDangle, storageVars
  <2> QED BY <1>1, <1>2, <2>3, <2>4, ChunkKept, Zenon
<1>5. CASE CallAndCapture
  <2>1. PICK to \in {"begin", "finish"} : capture' = [capture EXCEPT !.at = to]
    BY <1>5, Zenon DEF CallAndCapture
  <2>2. capture' \in Captures /\ capture'.at = to
    BY <1>1, <2>1, Zenon DEF Captures, CapturePlaces
  <2>3. /\ UNCHANGED <<blob, cursor, answer, delivered,
                       storageVars, snapshot, bugcheck, parameters>>
        /\ capture.at = "offered" /\ captured = "Idle" /\ captured' = "Writing"
    BY <1>5, Zenon DEF CallAndCapture, Called
  <2>4. blob = EmptyBlob
    BY <1>1, <2>3, Zenon DEF CaptureInv
  <2>5. CaptureInv'
    BY <1>1, <2>1, <2>2, <2>3, <2>4, Zenon DEF CaptureInv, Coherent, EmptyBlob, Copying
  <2>6. ~(answer.length > 0)
    BY <1>1, <2>3, Zenon DEF ChunkInv, OnlyCommittedDataLeaves
  <2>7. ChunkInv'
    BY <1>1, <2>3, <2>6, Zenon
       DEF ChunkInv, OnlyCommittedDataLeaves, ChunksMakeTheBlob, storageVars
  <2> QED BY <1>2, <2>3, <2>5, <2>7, Zenon
<1>6. CASE CallForChunk \/ CommitCapture
  <2>1. /\ captured' = "Committed" /\ capture' = NoCapture /\ AnswerChunk(capture.max)
        /\ UNCHANGED <<blob, storageVars, snapshot, bugcheck, parameters>> /\ bugcheck
        /\ captured = "Committed" \/ capture.at = "finish"
        /\ capture.at # "none"
    BY <1>6, Zenon DEF CallForChunk, CommitCapture, Called
  <2>2. CaptureInv'
    BY <1>1, <1>3, <2>1, Zenon DEF CaptureInv, Coherent, Copying, ContextsDangle, storageVars
  <2>3. cursor # Ended /\ capture.max \in Nat
    BY <1>1, <2>1, Zenon DEF ChunkInv, Captures
  <2>4. /\ cursor' \in Nat \cup {Ended} /\ delivered' \in Nat
        /\ answer' \in [offset : Int, length : Nat]
        /\ cursor' # Ended => cursor' = delivered'
        /\ answer'.length > 0 =>
             /\ answer'.offset + answer'.length = delivered'
             /\ cursor' # Ended => cursor' = delivered' /\ delivered' < dump.size
             /\ cursor' = Ended => delivered' = dump.size
    BY <1>1, <2>1, <2>3, AnswerChunkFacts, Zenon
  <2>5. ChunkInv'
    BY <1>3, <2>1, <2>4, Zenon
       DEF ChunkInv, OnlyCommittedDataLeaves, ChunksMakeTheBlob, storageVars
  <2> QED BY <1>2, <2>1, <2>2, <2>5, Zenon
<1>7. CASE \/ BeginCapture \/ ReadCommitState \/ CopyReason \/ CopyGuestState
           \/ CopyValidity \/ CheckCommitState \/ CopyTraceTail \/ FaultInCapture
  <2>1. /\ CaptureInv' /\ capture.at # "none"
        /\ UNCHANGED <<captured, cursor, answer, delivered,
                       storageVars, snapshot, bugcheck, parameters>>
    BY <1>7, CopyStep, Zenon
  <2>2. cursor # Ended
    BY <1>1, <2>1, Zenon DEF ChunkInv
  <2> QED BY <1>1, <1>2, <2>1, <2>2, ChunkKept, Zenon
<1>8. CASE CallWhileWriting
  <2>1. /\ UNCHANGED <<captured, capture, blob, cursor, delivered,
                       storageVars, snapshot, bugcheck, parameters>>
        /\ answer' = NoChunk /\ bugcheck
    BY <1>8, Zenon DEF CallWhileWriting, EmptyAnswer, Called
  <2>2. CaptureInv'
    BY <1>1, <2>1, Zenon DEF CaptureInv, Coherent, Copying, ContextsDangle, storageVars
  <2>3. NoChunk \in [offset : Int, length : Nat] /\ NoChunk.length = 0
    BY DEF NoChunk
  <2>4. ChunkInv'
    BY <1>1, <2>1, <2>3 DEF ChunkInv, OnlyCommittedDataLeaves, ChunksMakeTheBlob
  <2> QED BY <1>2, <2>1, <2>2, <2>4, Zenon
<1> QED BY <1>4, <1>5, <1>6, <1>7, <1>8, Zenon DEF Callback

LEMMA DumpInitInv ==
  ASSUME DumpInit
  PROVE  DumpInv
<1>1. StorageInv
  BY Zenon DEF DumpInit, StorageInv, Dumps
<1>2. SnapshotInv
  BY Zenon
     DEF DumpInit, SnapshotInv, Snapshots, CommitStates, Origins, BugCheckShowsTheFatalExit,
     NoParameters
<1>3. CaptureInv
  BY Zenon
     DEF DumpInit, CaptureInv, Captures, NoCapture, CapturePlaces, CommitStates, Blobs, EmptyBlob,
     Origins
<1>4. ChunkInv
  BY DEF DumpInit, ChunkInv, NoCapture, NoChunk, OnlyCommittedDataLeaves, ChunksMakeTheBlob
<1> QED BY <1>1, <1>2, <1>3, <1>4, Zenon DEF DumpInv

LEMMA DumpStep ==
  ASSUME DumpInv, [DumpNext]_dumpVars
  PROVE  DumpInv'
<1>1. CASE DumpNext
  BY <1>1, DriverStep, RootStep, BugCheckStep, CallbackStep, Zenon DEF DumpNext
<1>2. CASE UNCHANGED dumpVars
  <2>1. UNCHANGED <<driver, listed, dump, contexts, live, snapshot, bugcheck, parameters>>
    BY <1>2, Zenon DEF dumpVars, storageVars
  <2>2. UNCHANGED <<captured, capture, blob, cursor, answer, delivered>>
    BY <1>2, Zenon DEF dumpVars, callbackVars
  <2>3. StorageInv' /\ SnapshotInv'
    BY <2>1, Zenon DEF DumpInv, StorageInv, SnapshotInv, BugCheckShowsTheFatalExit
  <2>4. CaptureInv'
    BY <2>1, <2>2, Zenon DEF DumpInv, CaptureInv, Coherent, ContextsDangle
  <2>5. ChunkInv'
    BY <2>1, <2>2, Zenon DEF DumpInv, ChunkInv, OnlyCommittedDataLeaves, ChunksMakeTheBlob
  <2> QED BY <2>3, <2>4, <2>5, Zenon DEF DumpInv
<1> QED BY <1>1, <1>2, Zenon

\* A committed blob is not captured again: no step writes it.
LEMMA CommittedStepStays ==
  ASSUME DumpInv, [DumpNext]_dumpVars, captured = "Committed"
  PROVE  captured' = "Committed" /\ blob' = blob
<1>1. capture.at \in {"none", "offered"}
  BY Zenon DEF DumpInv, CaptureInv
<1>2. CASE \/ DriverThread \/ FatalExitBugCheck \/ ForeignBugCheck \/ CallWhileWriting
           \/ FaultInCapture
  BY <1>2, Zenon
     DEF DriverThread, FatalExitBugCheck, ForeignBugCheck, CallWhileWriting, FaultInCapture,
     callbackVars
<1>3. CASE \/ RecordExitReason \/ RecordGuestState \/ BeginFatalSnapshot
           \/ ReadFatalReason \/ ReadFatalGuestState \/ CommitFatalSnapshot
  BY <1>3, Zenon DEF RecordExitReason, RecordGuestState, BeginFatalSnapshot, ReadFatalReason,
     ReadFatalGuestState, CommitFatalSnapshot, Root, callbackVars
<1>4. CASE Callback
  BY <1>1, <1>4, Zenon DEF Callback, OfferRoom, CallAndCapture, CallForChunk, BeginCapture,
     ReadCommitState, CopyReason, CopyGuestState, CopyValidity, CheckCommitState, CopyTraceTail,
     CommitCapture, Capturing
<1>5. CASE UNCHANGED dumpVars
  BY <1>5, Zenon DEF dumpVars, callbackVars
<1> QED BY <1>2, <1>3, <1>4, <1>5, Zenon DEF DumpNext

\* The secondary dump callback, wherever the bugcheck stops the driver and however
\* the processor in VMX root goes on: the blob is there, and what leaves is
\* committed, contiguous and unchanging.  It is coherent unless the bugcheck came
\* between the free of the contexts and the clearing of their pointer, where the
\* capture reads whatever the freed memory holds or faults.  That the dump also
\* ends (DumpEnds) needs the dump writer's fairness.
THEOREM DumpStaysTruthful ==
  DumpSpec => /\ []CallbackHasItsBlob
              /\ []DumpedSnapshotIsCoherent
              /\ []BugCheckShowsTheFatalExit
              /\ []OnlyCommittedDataLeaves
              /\ []ChunksMakeTheBlob
              /\ CommittedBlobStays
<1>1. DumpInit => DumpInv
  BY DumpInitInv, Zenon
<1>2. DumpInv /\ [DumpNext]_dumpVars => DumpInv'
  BY DumpStep, Zenon
<1>3. DumpInv => /\ CallbackHasItsBlob /\ DumpedSnapshotIsCoherent
                 /\ BugCheckShowsTheFatalExit
                 /\ OnlyCommittedDataLeaves /\ ChunksMakeTheBlob
  BY Zenon
     DEF DumpInv, StorageInv, SnapshotInv, CaptureInv, ChunkInv, CallbackHasItsBlob,
     DumpedSnapshotIsCoherent, Coherent
<1>4. DumpInv /\ [DumpNext]_dumpVars =>
        [captured = "Committed" => captured' = "Committed" /\ blob' = blob]_dumpVars
  BY CommittedStepStays, Zenon
<1> QED BY <1>1, <1>2, <1>3, <1>4, PTL DEF DumpSpec, CommittedBlobStays

=============================================================================
