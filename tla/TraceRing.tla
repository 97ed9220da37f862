------------------------------ MODULE TraceRing ------------------------------
(***************************************************************************)
(* The trace ring of one virtual processor (core/vmm_state.cpp) and the    *)
(* copy of its tail into the crash blob (vmx/vmx_crash.cpp).  WriteHvTrace *)
(* claims a sequence number atomically and fills the slot with plain       *)
(* stores, the sequence number last; the copy takes no lock and may run    *)
(* while a processor in VMX root is still writing.  A half of a record is  *)
(* represented by the sequence number of the write it comes from.          *)
(***************************************************************************)
EXTENDS Integers, FiniteSets

CONSTANTS
  Writers,       \* contexts that trace to this ring
  Capacity,      \* TraceCapacity
  TailRecords,   \* HV_TRACE_TAIL_RECORDS
  MaxWrites      \* bound on the writes

ASSUME RingAssumption ==
  /\ Capacity \in Nat \ {0} /\ MaxWrites \in Nat
  /\ TailRecords \in 1 .. Capacity

VARIABLES
  ring,          \* TraceRing
  writeIndex,    \* TraceWriteIndex
  writer,        \* per writer: the number it claimed and the halves to store
  reader,        \* the copy of the tail
  tail,          \* traceTail in the crash blob
  lapped,        \* history: numbers claimed on a slot that was being written
  raced          \* history: numbers stored to while their slot was copied

ringVars == <<ring, writeIndex, writer, reader, tail, lapped, raced>>

Halves == {"head", "args"}
Idle == -1

\* The ring and the tail are zeroed; -1 stands for a half nobody wrote.
ZeroRecord == [Sequence |-> 0, head |-> -1, args |-> -1]

\* What the record of one complete write looks like.
Whole(s) == [Sequence |-> s, head |-> s, args |-> s]

Slot(s) == s % Capacity

Min2(a, b) == IF a < b THEN a ELSE b

TraceInit ==
  /\ ring = [i \in 0 .. Capacity - 1 |-> ZeroRecord]
  /\ writeIndex = 0
  /\ writer = [w \in Writers |-> [seq |-> Idle, left |-> {}]]
  /\ reader = [at |-> "wait", index |-> 0, count |-> 0, j |-> 0,
               record |-> ZeroRecord, left |-> {}, done |-> {}]
  /\ tail = [j \in 0 .. TailRecords - 1 |-> ZeroRecord]
  /\ lapped = {} /\ raced = {}

\* Writers that are storing into the slot of sequence s.
InFlight(s) == {w \in Writers : writer[w].seq # Idle /\ Slot(writer[w].seq) = Slot(s)}

\* WriteHvTrace: InterlockedIncrement64 of the index.
ClaimNumber(w) ==
  /\ writer[w].seq = Idle /\ writeIndex < MaxWrites
  /\ writeIndex' = writeIndex + 1
  /\ writer' = [writer EXCEPT ![w] = [seq |-> writeIndex, left |-> Halves]]
  /\ lapped' = IF InFlight(writeIndex) = {} THEN lapped
               ELSE lapped \cup {writeIndex} \cup {writer[v].seq : v \in InFlight(writeIndex)}
  /\ UNCHANGED <<reader, tail, raced>>

\* Mutant: the sequence number is stored before the fields.
ClaimAndPublish(w) ==
  /\ ClaimNumber(w)
  /\ ring' = [ring EXCEPT ![Slot(writeIndex)].Sequence = writeIndex]

Claim(w) ==
  /\ ClaimNumber(w)
  /\ UNCHANGED ring

\* The sequence number expected in entry j of the tail.
TailSequence(j) == reader.index - reader.count + j

\* The copy of the slot of sequence s is under way.
BeingCopied(s) ==
  reader.at = "copy" /\ Slot(TailSequence(reader.j)) = Slot(s)

\* A store to the slot of the claimed number, remembered if it races the copy.
Store(w, field) ==
  LET s == writer[w].seq
  IN /\ ring' = [ring EXCEPT ![Slot(s)][field] = s]
     /\ raced' = IF BeingCopied(s) THEN raced \cup {TailSequence(reader.j)} ELSE raced

\* The fields before the barrier, in the order the compiler chose.
WriteFields(w) ==
  \E half \in writer[w].left :
    /\ Store(w, half)
    /\ writer' = [writer EXCEPT ![w].left = @ \ {half}]
    /\ UNCHANGED <<writeIndex, reader, tail, lapped>>

\* After the barrier the sequence number makes the record valid.
WriteSequence(w) ==
  /\ writer[w].seq # Idle /\ writer[w].left = {}
  /\ Store(w, "Sequence")
  /\ writer' = [writer EXCEPT ![w].seq = Idle]
  /\ UNCHANGED <<writeIndex, reader, tail, lapped>>

\* Sequence numbers that are claimed and completely written.
Completed == (0 .. writeIndex - 1) \ {writer[w].seq : w \in Writers}

\* CaptureHvCrashBlob reads the index and decides how many records to copy.
ReadIndex ==
  /\ reader.at = "wait"
  /\ LET count == Min2(Min2(writeIndex, Capacity), TailRecords)
     IN reader' = [reader EXCEPT !.at = IF count = 0 THEN "done" ELSE "copy",
                                 !.index = writeIndex, !.count = count,
                                 !.left = DOMAIN ZeroRecord, !.done = Completed]
  /\ UNCHANGED <<ring, writeIndex, writer, tail, lapped, raced>>

\* A record is copied field by field, in any order, under the writers.
CopyFields ==
  /\ reader.at = "copy" /\ reader.left # {}
  /\ \E part \in SUBSET reader.left \ {{}} :
       reader' = [reader EXCEPT !.left = @ \ part,
                    !.record = [f \in DOMAIN @ |->
                                  IF f \in part THEN ring[Slot(TailSequence(reader.j))][f]
                                  ELSE @[f]]]
  /\ UNCHANGED <<ring, writeIndex, writer, tail, lapped, raced>>

\* The copy is kept when its number is the expected one.
KeepRecord ==
  /\ reader.at = "copy" /\ reader.left = {}
  /\ tail' = IF reader.record.Sequence = TailSequence(reader.j)
             THEN [tail EXCEPT ![reader.j] = reader.record] ELSE tail
  /\ reader' = [reader EXCEPT !.j = @ + 1, !.left = DOMAIN ZeroRecord,
                  !.at = IF reader.j + 1 = reader.count THEN "done" ELSE "copy"]
  /\ UNCHANGED <<ring, writeIndex, writer, lapped, raced>>

TraceNext ==
  \/ \E w \in Writers : Claim(w) \/ WriteFields(w) \/ WriteSequence(w)
  \/ ReadIndex \/ CopyFields \/ KeepRecord

TraceSpec == TraceInit /\ [][TraceNext]_ringVars

-----------------------------------------------------------------------------

\* The record of s was disturbed: two writes to its slot overlapped, or the
\* ring has come round to the slot since.
Disturbed(s) == s \in lapped \/ s + Capacity < writeIndex

Copied == 0 .. reader.j - 1

\* WriteHvTrace against CaptureHvCrashBlob: a record that reaches the dump
\* under a number is the complete record of that number.  The exceptions are
\* a slot that is stored to during its own copy (the number is not looked at
\* again after it), a slot the ring came round to while it was in use, and
\* number 0, which a zeroed slot carries before its first write is complete.
KeptRecordsAreWhole ==
  \A j \in Copied :
    tail[j] # ZeroRecord =>
      \/ tail[j] = Whole(TailSequence(j))
      \/ TailSequence(j) = 0
      \/ TailSequence(j) \in raced
      \/ Disturbed(TailSequence(j))

\* CaptureHvCrashBlob: none of the last records that were complete when the
\* index was read is missing from the dump, unless its slot was disturbed.
CompleteRecordsAreKept ==
  \A s \in reader.done :
    (s \in reader.index - reader.count .. reader.index - 1 /\ ~Disturbed(s)
       /\ reader.at = "done")
      => \E j \in Copied : tail[j] = Whole(s)

\* WriteHvTrace: when nobody is writing the ring holds the last Capacity
\* records, except where two writes to one slot overlapped.
QuietRingIsCurrent ==
  (\A w \in Writers : writer[w].seq = Idle) =>
    \A s \in {n \in 0 .. writeIndex - 1 : n + Capacity >= writeIndex} \ lapped :
      \E i \in DOMAIN ring : ring[i] = Whole(s)

\* WriteHvTrace against WriteHvTrace and CaptureHvCrashBlob, with the
\* exceptions the parts name: the dumped tail holds whole records, all that were
\* complete, and a quiet ring holds the last ones.
TailIsTruthful ==
  /\ KeptRecordsAreWhole
  /\ CompleteRecordsAreKept
  /\ QuietRingIsCurrent
=============================================================================
