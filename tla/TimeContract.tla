---------------------------- MODULE TimeContract ----------------------------
(***************************************************************************)
(* The virtual TSC of time/time_contract.cpp: a fixed-point transform of   *)
(* the source counter, its calibration, rebase and composition.  Words are *)
(* TimeBits wide instead of 64, a scale has FractionBits fraction bits     *)
(* instead of 32; every overflow check of the code is kept.  The caller    *)
(* (external) reads with a source counter that does not run backwards,     *)
(* pauses and resumes, and chooses between clamp and strict mode.          *)
(***************************************************************************)
EXTENDS Integers

CONSTANTS
  TimeBits, FractionBits,
  Offsets, Scales,  \* of the transforms before the first calibration
  Steps,            \* by which the source counter advances
  Minima,           \* the floors asked of a rebase
  MaxDrift,         \* max_drift_ticks
  MaxCalibrations   \* bound on the calibrations

ASSUME TimeAssumption ==
  /\ TimeBits \in Nat \ {0} /\ FractionBits \in 0 .. TimeBits
  /\ MaxCalibrations \in Nat

VARIABLES
  transform, inner,  \* the transform of L0 and the one L1 stacks on it
  source,            \* the source counter
  samples,           \* the samples of the last calibration
  seen,              \* last readings, alone and through inner; -1: none
  op                 \* what was done last

timeVars == <<transform, inner, source, samples, seen, op>>

MaxCount == 2^TimeBits - 1
MaxSigned == 2^(TimeBits - 1) - 1
ScaleOne == 2^FractionBits
Words == 0 .. MaxCount
NoReading == -1
NoReadings == [own |-> NoReading, nested |-> NoReading]

Failed(status) == [status |-> status, value |-> 0]
Succeeded(value) == [status |-> "Success", value |-> value]

\* ProjectTscTransform: no intermediate result may leave the word.
ProjectTscTransform(t, tsc) ==
  LET scaled == ((tsc - t.base) * t.scale) \div ScaleOne
      candidate == t.baseVirtual + scaled
  IN IF tsc < t.base THEN Failed("NonMonotonic")
     ELSE IF scaled \in Words /\ candidate \in Words /\ candidate + t.offset \in Words
          THEN Succeeded(candidate + t.offset) ELSE Failed("Overflow")

IsTscTransformValid(t) == t.scale # 0 /\ t.generation # 0

ApplyTscTransform(t, tsc) ==
  LET projected == ProjectTscTransform(t, tsc)
  IN IF ~IsTscTransformValid(t) THEN Failed("Invalid")
     ELSE IF t.paused THEN Failed("Paused")
     ELSE IF projected.status # "Success" THEN projected
     ELSE IF t.last # 0 /\ projected.value < t.last
          THEN IF t.clamp THEN Succeeded(t.last) ELSE Failed("NonMonotonic")
          ELSE projected

ComposeTscTransforms(o, i, tsc) ==
  LET outer == ApplyTscTransform(o, tsc)
  IN IF o.generation # i.generation THEN Failed("GenerationMismatch")
     ELSE IF outer.status # "Success" THEN outer
     ELSE ApplyTscTransform(i, outer.value)

\* DifferenceToSigned: the difference fits a signed word.
DifferenceToSigned(value, reference) ==
  value - reference \in -MaxSigned - 1 .. MaxSigned

ObserveTimeSample(t, tsc, reference) ==
  LET own == ApplyTscTransform(t, tsc)
      drift == own.value - reference
  IN IF own.status # "Success" THEN own.status
     ELSE IF ~DifferenceToSigned(own.value, reference) THEN "Overflow"
     ELSE IF (IF drift < 0 THEN -(drift + 1) + 1 ELSE drift) > MaxDrift
          THEN "DriftExceeded" ELSE "Success"

Scale(first, second) ==
  ((second.reference - first.reference) * ScaleOne) \div (second.tsc - first.tsc)

\* CalibrateTscTransform succeeds.  The division is not attempted when its
\* quotient would be wider than a word.
Calibrates(first, second) ==
  /\ second.tsc > first.tsc /\ second.reference > first.reference
  /\ Scale(first, second) \in Words \ {0}

CalibrateTscTransform(first, second, generation) ==
  [base |-> first.tsc, baseVirtual |-> first.reference,
   scale |-> Scale(first, second), offset |-> 0, generation |-> generation,
   last |-> first.reference, clamp |-> TRUE, paused |-> FALSE]

\* Mutant: a clock that is ahead of the target is set back to it.
RebaseBothWays(t, tsc, minimum) ==
  LET projected == ProjectTscTransform(t, tsc)
      target == IF minimum < t.last THEN t.last ELSE minimum
      adjustment == target - projected.value
  IN IF /\ IsTscTransformValid(t) /\ ~t.paused /\ projected.status = "Success"
        /\ adjustment <= MaxSigned
        /\ adjustment = 0 \/ t.offset <= MaxSigned - adjustment
     THEN {[t EXCEPT !.offset = @ + adjustment, !.last = target]} ELSE {}

\* The transforms RebaseTscTransform can leave: one, or none when it refuses.
RebaseTscTransform(t, tsc, minimum) ==
  LET projected == ProjectTscTransform(t, tsc)
      target == IF minimum < t.last THEN t.last ELSE minimum
      adjustment == IF projected.value < target THEN target - projected.value ELSE 0
  IN IF /\ IsTscTransformValid(t) /\ ~t.paused /\ projected.status = "Success"
        /\ adjustment <= MaxSigned
        /\ adjustment = 0 \/ t.offset <= MaxSigned - adjustment
     THEN {[t EXCEPT !.offset = @ + adjustment, !.last = target]} ELSE {}

\* NextTimeGeneration, from a generation that is not exhausted.
NextTimeGeneration(g) == IF g = 0 THEN 1 ELSE g + 1

-----------------------------------------------------------------------------

Plain(scale, offset) ==
  [base |-> 0, baseVirtual |-> 0, scale |-> scale, offset |-> offset,
   generation |-> 1, last |-> 0, clamp |-> FALSE, paused |-> FALSE]

TimeInit ==
  /\ \E scale \in Scales, offset \in Offsets : transform = Plain(scale, offset)
  /\ inner = Plain(ScaleOne, 0)
  /\ source = 0 /\ samples = <<>> /\ seen = NoReadings /\ op = "none"

Advance ==
  /\ \E n \in Steps : source + n <= MaxCount /\ source' = source + n
  /\ op' = "none" /\ UNCHANGED <<transform, inner, samples, seen>>

\* A reading at the source counter; a refused one returns no value.
Read ==
  LET own == ApplyTscTransform(transform, source)
      nested == ComposeTscTransforms(transform, inner, source)
  IN /\ seen' = [own |-> IF own.status = "Success" THEN own.value ELSE seen.own,
                 nested |-> IF nested.status = "Success" THEN nested.value ELSE seen.nested]
     /\ op' = "read" /\ UNCHANGED <<transform, inner, source, samples>>

Rebase ==
  /\ \E minimum \in Minima : transform' \in RebaseTscTransform(transform, source, minimum)
  /\ op' = "rebased" /\ UNCHANGED <<inner, source, samples, seen>>

RebaseInner ==
  LET outer == ApplyTscTransform(transform, source)
  IN /\ outer.status = "Success"
     /\ \E minimum \in Minima : inner' \in RebaseTscTransform(inner, outer.value, minimum)
     /\ op' = "none" /\ UNCHANGED <<transform, source, samples, seen>>

\* Two samples up to now give a new transform, of a new generation.
Calibrate ==
  /\ transform.generation < MaxCalibrations
  /\ \E t1 \in 0 .. source, r1, r2 \in Minima \cup {MaxCount} :
       LET first == [tsc |-> t1, reference |-> r1]
           second == [tsc |-> source, reference |-> r2]
       IN /\ Calibrates(first, second)
          /\ transform' = CalibrateTscTransform(first, second,
                            NextTimeGeneration(transform.generation))
          /\ samples' = <<first, second>>
  /\ seen' = NoReadings /\ op' = "calibrated" /\ UNCHANGED <<inner, source>>

\* The owner of the transform changes its flags.
ChangeFlags ==
  /\ \E clamp, paused \in BOOLEAN :
       transform' = [transform EXCEPT !.clamp = clamp, !.paused = paused]
  /\ op' = "none" /\ UNCHANGED <<inner, source, samples, seen>>

TimeNext == Advance \/ Read \/ Rebase \/ RebaseInner \/ Calibrate \/ ChangeFlags
TimeSpec == TimeInit /\ [][TimeNext]_timeVars

-----------------------------------------------------------------------------

\* ApplyTscTransform, ComposeTscTransforms and RebaseTscTransform: between two
\* calibrations the virtual TSC a guest reads, at either level, never runs
\* backwards, whatever rebases, pauses and mode changes come between.
ReadingsDoNotRunBackwards ==
  [][op' = "read" => seen'.own >= seen.own /\ seen'.nested >= seen.nested]_timeVars

\* RebaseTscTransform: a rebase that succeeds leaves a clock that can be read
\* at once, without overflow, at or above its last value.
RebasedClockIsReadable ==
  op = "rebased" =>
    LET r == ApplyTscTransform(transform, source)
    IN r.status = "Success" /\ r.value >= transform.last

\* CalibrateTscTransform: the transform takes the first sample to its
\* reference exactly and the second one to within the rounding of the scale.
CalibrationIsAccurate ==
  op = "calibrated" =>
    LET first == ApplyTscTransform(transform, samples[1].tsc)
        second == ApplyTscTransform(transform, samples[2].tsc)
        error == (samples[2].tsc - samples[1].tsc + ScaleOne - 1) \div ScaleOne
    IN /\ first = Succeeded(samples[1].reference)
       /\ second.status = "Success"
       /\ second.value \in samples[2].reference - error .. samples[2].reference

\* ObserveTimeSample: a reading that is off by no more than the allowed drift,
\* in either direction and up to the ends of the signed range, is accepted, and
\* no other is.
DriftIsJudgedExactly ==
  LET own == ApplyTscTransform(transform, source)
  IN own.status = "Success" =>
       \A reference \in Words :
         ObserveTimeSample(transform, source, reference) = "Success" <=>
           /\ own.value <= reference + MaxDrift /\ reference <= own.value + MaxDrift
           /\ own.value - reference < 2^(TimeBits - 1)
           /\ reference - own.value <= 2^(TimeBits - 1)

\* time_contract.cpp on words that overflow: a guest's clock is readable after a
\* rebase, accurate after a calibration, judged exactly against its reference and
\* never runs backwards in between.
ClockIsSound ==
  /\ []RebasedClockIsReadable
  /\ []CalibrationIsAccurate
  /\ []DriftIsJudgedExactly
  /\ ReadingsDoNotRunBackwards
=============================================================================
