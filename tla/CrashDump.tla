------------------------------ MODULE CrashDump ------------------------------
(***************************************************************************)
(* The crash blob, its capture at a bugcheck and the multi-part dump       *)
(* callback (vmx/vmx_crash.cpp), with the storage they use: the order in   *)
(* which DriverEntry, StartHypervisor, StopHypervisorInternal and          *)
(* DriverUnload allocate, register, free and deregister.  A bugcheck may   *)
(* come from any code at any time; it stops the driver thread where it is, *)
(* but a processor in VMX root goes on with its fatal snapshot.  One       *)
(* processor context stands for all; a snapshot is an exit reason, a guest *)
(* state and their validity bits, a value being named for its origin.      *)
(* Reading a context that was freed gives any value, or faults.            *)
(***************************************************************************)
EXTENDS Integers

CONSTANTS
  BlobSize,     \* g_HvCrashBlobSize of an initialised blob
  Allowed       \* values of MaximumAllowed the dump writer may pass

ASSUME DumpAssumption == BlobSize \in Nat \ {0} /\ Allowed \subseteq Nat

VARIABLES
  driver,       \* where the driver thread is
  lifecycle,    \* g_HvLifecycle
  listed,       \* the kernel's list holds the callback
  dump,         \* registered, authorized, blob pointer and size
  contexts,     \* g_VcpuData pointer
  live,         \* allocations that are not freed: blob, contexts, ring
  snapshot,     \* the fatal snapshot in the context, and its commit state
  bugcheck,     \* the machine is stopping
  parameters,   \* reason and RIP passed to KeBugCheckEx by HvFatalBugCheck
  captured,     \* g_HvCrashBlobCaptured
  capture,      \* the dump writer's call and progress of CaptureHvCrashBlob
  blob,         \* what was captured
  cursor,       \* Context of the dump writer, or Ended
  answer,       \* the last chunk handed to the dump writer
  delivered     \* bytes the dump writer has

storageVars == <<driver, lifecycle, listed, dump, contexts, live>>
callbackVars == <<captured, capture, blob, cursor, answer, delivered>>
dumpVars == <<storageVars, snapshot, bugcheck, parameters, callbackVars>>

Origins == {"zero", "exit", "fatal", "other"}
CommitStates == {"Empty", "Writing", "Committed"}

Ended == -1
NoChunk == [offset |-> -1, length |-> 0]
EmptyBlob == [reason |-> "zero", guest |-> "zero", valid |-> {}]
NoCapture == [at |-> "none", max |-> 0, first |-> "Empty"]
NoParameters == [reason |-> "zero", rip |-> "zero"]

DumpInit ==
  /\ driver = "unloaded" /\ lifecycle = "Idle" /\ listed = FALSE
  /\ dump = [registered |-> FALSE, authorized |-> FALSE, pointer |-> FALSE, size |-> 0]
  /\ contexts = FALSE /\ live = {}
  /\ snapshot = [commit |-> "Empty", reason |-> "zero", guest |-> "zero", valid |-> {}]
  /\ bugcheck = FALSE /\ parameters = NoParameters
  /\ captured = "Idle" /\ capture = NoCapture
  /\ blob = EmptyBlob /\ cursor = Ended /\ answer = NoChunk /\ delivered = 0

-----------------------------------------------------------------------------
(* The driver thread.                                                      *)

Driver(from, to) == ~bugcheck /\ driver = from /\ driver' = to

\* DriverEntry registers the callback, or goes on without it.
RegisterSecondaryDumpCallback ==
  /\ Driver("unloaded", "start")
  /\ \E ok \in BOOLEAN : listed' = ok /\ dump' = [dump EXCEPT !.registered = ok]
  /\ UNCHANGED <<lifecycle, contexts, live>>

\* InitializeHvCrashBlob publishes the pointer, then the size.
InitializePointer ==
  /\ Driver("start", "pointer")
  /\ lifecycle' = "Starting"
  /\ live' = live \cup {"blob"} /\ dump' = [dump EXCEPT !.pointer = TRUE]
  /\ UNCHANGED <<listed, contexts>>

InitializeSize ==
  /\ Driver("pointer", "initialized")
  /\ dump' = [dump EXCEPT !.size = BlobSize]
  /\ UNCHANGED <<lifecycle, listed, contexts, live>>

AllocateContexts ==
  /\ Driver("initialized", "running")
  /\ contexts' = TRUE /\ live' = live \cup {"contexts", "ring"}
  /\ UNCHANGED <<lifecycle, listed, dump>>

\* rejectStart: the lifecycle is Idle again before the release.
RejectStart ==
  /\ Driver("initialized", "rejected")
  /\ lifecycle' = "Idle"
  /\ UNCHANGED <<listed, dump, contexts, live>>

\* StopHypervisorInternal: the processor of a fatal snapshot is parked and is
\* quarantined; otherwise the rings are freed, then the contexts, then the
\* pointer is cleared.
QuarantineStop ==
  /\ Driver("running", "quarantined") /\ snapshot.commit # "Empty"
  /\ lifecycle' = "Quarantined"
  /\ UNCHANGED <<listed, dump, contexts, live>>

FreeRing ==
  /\ Driver("running", "ringFreed") /\ snapshot.commit = "Empty"
  /\ lifecycle' = "Stopping" /\ live' = live \ {"ring"}
  /\ UNCHANGED <<listed, dump, contexts>>

FreeContexts ==
  /\ Driver("ringFreed", "contextsFreed")
  /\ live' = live \ {"contexts"}
  /\ UNCHANGED <<lifecycle, listed, dump, contexts>>

ClearContexts ==
  /\ Driver("contextsFreed", "reclaimed")
  /\ contexts' = FALSE
  /\ UNCHANGED <<lifecycle, listed, dump, live>>

\* The conditions under which ReleaseHvCrashBlob keeps the blob.
Retained ==
  \/ dump.registered
  \/ lifecycle = "Quarantined"
  \/ ~dump.authorized /\ lifecycle # "Idle"

\* ReleaseHvCrashBlob frees the memory, and after it clears the pointer.
FreeBlob(from, clear, done) ==
  /\ Driver(from, IF Retained THEN done ELSE clear)
  /\ live' = IF Retained THEN live ELSE live \ {"blob"}
  /\ UNCHANGED <<lifecycle, listed, dump, contexts>>

ClearBlob(from, to) ==
  /\ Driver(from, to)
  /\ dump' = [dump EXCEPT !.pointer = FALSE, !.size = 0, !.authorized = FALSE]
  /\ UNCHANGED <<lifecycle, listed, contexts, live>>

\* The release in StopHypervisorInternal comes before the lifecycle is Idle.
ReleaseInStop == FreeBlob("reclaimed", "stopClear", "stopped")
ReleaseInReject == FreeBlob("rejected", "rejectClear", "idle")

SetIdle ==
  /\ Driver("stopped", "idle")
  /\ lifecycle' = "Idle"
  /\ UNCHANGED <<listed, dump, contexts, live>>

\* UnregisterSecondaryDumpCallback without a registration only releases.
UnregisterNothing ==
  /\ Driver("idle", "release") /\ ~dump.registered
  /\ UNCHANGED <<lifecycle, listed, dump, contexts, live>>

\* The kernel removes the callback first; Refuse is the other outcome.
Deregister ==
  /\ Driver("idle", "deregistered") /\ dump.registered
  /\ listed' = FALSE
  /\ UNCHANGED <<lifecycle, dump, contexts, live>>

Authorize ==
  /\ Driver("deregistered", "release")
  /\ dump' = [dump EXCEPT !.registered = FALSE, !.authorized = TRUE]
  /\ UNCHANGED <<lifecycle, listed, contexts, live>>

ReleaseInUnregister == FreeBlob("release", "unregisterClear", "unmapped")

DriverThread ==
  /\ \/ RegisterSecondaryDumpCallback \/ InitializePointer \/ InitializeSize
     \/ AllocateContexts \/ RejectStart \/ QuarantineStop \/ FreeRing \/ FreeContexts
     \/ ClearContexts \/ ReleaseInStop \/ ReleaseInReject \/ SetIdle
     \/ UnregisterNothing \/ Deregister \/ Authorize \/ ReleaseInUnregister
     \/ ClearBlob("rejectClear", "idle")
     \/ ClearBlob("unregisterClear", "unmapped")
  /\ UNCHANGED <<snapshot, bugcheck, parameters, callbackVars>>

-----------------------------------------------------------------------------
(* The processor in VMX root.                                              *)

Root ==
  driver \in {"running", "quarantined"} /\ UNCHANGED <<storageVars, callbackVars>>

\* VmExitHandler starts a new diagnostic transaction, unless a fatal snapshot
\* was begun; the guest state follows when it could be read.
RecordExitReason ==
  /\ Root /\ snapshot.commit = "Empty"
  /\ snapshot' = [snapshot EXCEPT !.valid = {"reason"}, !.reason = "exit"]
  /\ UNCHANGED <<bugcheck, parameters>>

RecordGuestState ==
  /\ Root /\ snapshot.commit = "Empty" /\ snapshot.valid = {"reason"}
  /\ snapshot' = [snapshot EXCEPT !.valid = @ \cup {"guest"}, !.guest = "exit"]
  /\ UNCHANGED <<bugcheck, parameters>>

\* HvCaptureFatalSnapshotPreVmxoff: only the first call gets past Empty.
BeginFatalSnapshot ==
  /\ Root /\ snapshot.commit = "Empty"
  /\ snapshot' = [snapshot EXCEPT !.commit = "Writing", !.valid = {}]
  /\ UNCHANGED <<bugcheck, parameters>>

ReadFatalReason ==
  /\ Root /\ snapshot.commit = "Writing" /\ snapshot.reason # "fatal"
  /\ snapshot' = [snapshot EXCEPT !.reason = "fatal", !.valid = {"reason"}]
  /\ UNCHANGED <<bugcheck, parameters>>

\* The guest fields are read; their validity bit is left as it was.
ReadFatalGuestState ==
  /\ Root /\ snapshot.commit = "Writing" /\ snapshot.reason = "fatal"
  /\ snapshot.guest # "fatal"
  /\ snapshot' = [snapshot EXCEPT !.guest = "fatal"]
  /\ UNCHANGED <<bugcheck, parameters>>

\* Both reads are skipped after a failed VMRESUME or a failed read of the
\* reason, the second one after a failed VM entry.
CommitFatalSnapshot ==
  /\ Root /\ snapshot.commit = "Writing"
  /\ snapshot' = [snapshot EXCEPT !.commit = "Committed"]
  /\ UNCHANGED <<bugcheck, parameters>>

\* The dump writer calls the callback if the kernel's list holds it.
StartDump == bugcheck' = TRUE /\ cursor' = IF listed THEN 0 ELSE Ended

\* HvFatalBugCheck, on the processor whose snapshot is committed.
FatalExitBugCheck ==
  /\ ~bugcheck /\ driver \in {"running", "quarantined"} /\ snapshot.commit = "Committed"
  /\ StartDump
  /\ parameters' = [reason |-> IF "reason" \in snapshot.valid THEN snapshot.reason ELSE "zero",
                    rip |-> IF "guest" \in snapshot.valid THEN snapshot.guest ELSE "zero"]
  /\ UNCHANGED <<storageVars, snapshot, captured, capture, blob, answer, delivered>>

\* Any other bugcheck: foreign code, or the kernel refuses to deregister.
ForeignBugCheck ==
  /\ ~bugcheck /\ StartDump
  /\ UNCHANGED <<storageVars, snapshot, parameters, captured, capture, blob, answer, delivered>>

-----------------------------------------------------------------------------
(* HvSecondaryDumpDataCallback.                                            *)

Called == bugcheck /\ listed /\ UNCHANGED <<storageVars, snapshot, bugcheck, parameters>>

EmptyAnswer == answer' = NoChunk /\ UNCHANGED delivered

\* The chunk at the cursor of a committed blob.  ADDITIONAL_DATA is set, and
\* the dump writer comes back, exactly when the new cursor is not Ended.
AnswerChunk(max) ==
  LET remaining == dump.size - cursor
      length == IF max >= remaining THEN remaining ELSE max
  IN IF ~dump.pointer \/ dump.size = 0 \/ cursor >= dump.size \/ max = 0
     THEN EmptyAnswer /\ cursor' = Ended
     ELSE /\ answer' = [offset |-> cursor, length |-> length]
          /\ delivered' = delivered + length
          /\ cursor' = IF length < remaining THEN cursor + length ELSE Ended

\* The dump writer prepares a call with some room for data.
OfferRoom ==
  /\ Called /\ cursor # Ended /\ capture.at = "none"
  /\ \E max \in Allowed : capture' = [NoCapture EXCEPT !.at = "offered", !.max = max]
  /\ UNCHANGED <<captured, blob, cursor, answer, delivered>>

\* The first call captures the blob; the capture returns at once without one.
CallAndCapture ==
  /\ Called /\ capture.at = "offered" /\ captured = "Idle"
  /\ captured' = "Writing"
  /\ capture' = [capture EXCEPT !.at = IF dump.pointer THEN "begin" ELSE "finish"]
  /\ UNCHANGED <<blob, cursor, answer, delivered>>

CallForChunk ==
  /\ Called /\ capture.at = "offered" /\ captured = "Committed"
  /\ AnswerChunk(capture.max)
  /\ capture' = NoCapture
  /\ UNCHANGED <<captured, blob>>

\* A call that arrives during the capture is answered with nothing.
CallWhileWriting ==
  /\ Called /\ captured = "Writing" /\ EmptyAnswer
  /\ UNCHANGED <<captured, capture, blob, cursor>>

Capturing(from, to) ==
  /\ Called /\ capture.at = from /\ capture' = [capture EXCEPT !.at = to]
  /\ UNCHANGED <<captured, cursor, answer, delivered>>

\* Mutant: the blob is published as committed before it is filled.
CommitBeforeCapture ==
  /\ Called /\ capture.at = "begin"
  /\ capture' = [capture EXCEPT !.at = IF contexts THEN "state" ELSE "finish"]
  /\ captured' = "Committed" /\ blob' = EmptyBlob
  /\ UNCHANGED <<cursor, answer, delivered>>

\* CaptureHvCrashBlob zeroes the blob and goes on if there are contexts.
BeginCapture ==
  /\ Capturing("begin", IF contexts THEN "state" ELSE "finish")
  /\ blob' = EmptyBlob

\* StopHypervisorInternal frees the rings and then the contexts before it
\* clears the pointer to them; until then the callback follows it.
ContextsDangle == contexts /\ "contexts" \notin live
EvidenceDangles == contexts /\ ~({"contexts", "ring"} \subseteq live)

\* What a read of the context finds: its value, or anything once it is freed.
FromContext(value, possible) == IF ContextsDangle THEN possible ELSE {value}

\* The context is copied between two reads of its commit state.
ReadCommitState ==
  /\ Called /\ capture.at = "state"
  /\ \E commit \in FromContext(snapshot.commit, CommitStates) :
       capture' = [capture EXCEPT !.at = "reason", !.first = commit]
  /\ UNCHANGED <<captured, blob, cursor, answer, delivered>>

CopyReason ==
  /\ Capturing("reason", "guest")
  /\ \E reason \in FromContext(snapshot.reason, Origins) :
       blob' = [blob EXCEPT !.reason = reason]

CopyGuestState ==
  /\ Capturing("guest", "valid")
  /\ \E guest \in FromContext(snapshot.guest, Origins) :
       blob' = [blob EXCEPT !.guest = guest]

CopyValidity ==
  /\ Capturing("valid", "check")
  /\ \E valid \in FromContext(snapshot.valid, SUBSET {"reason", "guest"}) :
       blob' = [blob EXCEPT !.valid = valid]

CheckCommitState ==
  /\ Capturing("check", "tail")
  /\ \E commit \in FromContext(snapshot.commit, CommitStates) :
       blob' = IF capture.first = "Committed" /\ commit = "Committed"
               THEN blob ELSE [blob EXCEPT !.valid = {}]

\* The tail of the trace ring (see TraceRing).
CopyTraceTail == Capturing("tail", "finish") /\ UNCHANGED blob

\* The next read of the capture is of memory the driver has freed.
ReadsFreed ==
  \/ capture.at \in {"state", "reason", "guest", "valid", "check"} /\ ContextsDangle
  \/ capture.at = "tail" /\ EvidenceDangles

\* Such a read may fault; the callback does not come back from it.
FaultInCapture ==
  /\ Called /\ ReadsFreed
  /\ capture' = [capture EXCEPT !.at = "faulted"]
  /\ UNCHANGED <<captured, blob, cursor, answer, delivered>>

CommitCapture ==
  /\ Called /\ capture.at = "finish"
  /\ captured' = "Committed" /\ capture' = NoCapture
  /\ AnswerChunk(capture.max)
  /\ UNCHANGED blob

Callback ==
  \/ OfferRoom \/ CallAndCapture \/ CallForChunk
  \/ BeginCapture \/ ReadCommitState
  \/ CopyReason \/ CopyGuestState \/ CopyValidity \/ CheckCommitState
  \/ CopyTraceTail \/ CommitCapture

DumpNext ==
  \/ DriverThread
  \/ RecordExitReason \/ RecordGuestState \/ BeginFatalSnapshot
  \/ ReadFatalReason \/ ReadFatalGuestState \/ CommitFatalSnapshot
  \/ FatalExitBugCheck \/ ForeignBugCheck
  \/ Callback \/ CallWhileWriting \/ FaultInCapture

\* The dump writer calls again as long as it is told there is more.
DumpSpec == DumpInit /\ [][DumpNext]_dumpVars /\ WF_dumpVars(Callback)

-----------------------------------------------------------------------------

\* ReleaseHvCrashBlob and UnregisterSecondaryDumpCallback: as long as the
\* kernel may call the callback the blob it points to is allocated and the
\* image is not unmapped, wherever the bugcheck stops the driver.
CallbackHasItsBlob ==
  listed => (dump.pointer => "blob" \in live) /\ driver # "unmapped"

\* CaptureHvCrashBlob against HvCaptureFatalSnapshotPreVmxoff: the exit reason a
\* dump marks as valid is the one of the committed fatal snapshot, even when the
\* processor was writing it during the copy, and the guest state is never marked
\* valid, since the snapshot drops its bit and reads the fields as raw storage.
\* The exception is a bugcheck between the free of the contexts and the clearing
\* of the pointer to them, after which the dump shows whatever the memory holds.
DumpedSnapshotIsCoherent ==
  captured = "Committed" /\ ~ContextsDangle =>
    /\ blob.valid \subseteq {"reason"}
    /\ "reason" \in blob.valid => blob.reason = "fatal"

\* HvFatalBugCheck: the reason it passes to KeBugCheckEx is that of the fatal
\* exit or zero, and never that of an exit handled before it; it passes no RIP.
BugCheckShowsTheFatalExit ==
  parameters.reason \in {"zero", "fatal"} /\ parameters.rip = "zero"

\* HvSecondaryDumpDataCallback: no byte of a blob leaves before its capture is
\* committed.
OnlyCommittedDataLeaves == answer.length > 0 => captured = "Committed"

\* ... and it does not change under the dump writer afterwards.
CommittedBlobStays ==
  [][captured = "Committed" => captured' = "Committed" /\ blob' = blob]_dumpVars

\* HvSecondaryDumpDataCallback: the chunks follow each other without gap or
\* overlap, and the last one ends with the blob.
ChunksMakeTheBlob ==
  answer.length > 0 =>
    /\ answer.offset + answer.length = delivered
    /\ cursor # Ended => cursor = delivered /\ delivered < dump.size
    /\ cursor = Ended => delivered = dump.size

\* HvSecondaryDumpDataCallback: the dump ends, whatever room the dump writer
\* offers in each call, unless the capture may fault on freed memory.
DumpEnds == (cursor # Ended /\ ~EvidenceDangles) ~> (cursor = Ended)

\* InitializeHvCrashBlob's reason to keep callback storage, asked of all the
\* capture follows: the bugcheck callback does not dereference freed evidence.
\* StopHypervisorInternal frees the rings and contexts under a callback that is
\* registered, and clears the pointer last, so this does not hold.
CaptureReadsLiveEvidence == ~ReadsFreed

\* The secondary dump callback against a bugcheck anywhere in load, run and
\* unload: its blob is there, what leaves is committed, contiguous, unchanging and,
\* while the contexts it follows are allocated, coherent, and then the dump ends.
DumpIsTruthful ==
  /\ []CallbackHasItsBlob
  /\ []DumpedSnapshotIsCoherent
  /\ []BugCheckShowsTheFatalExit
  /\ []OnlyCommittedDataLeaves
  /\ []ChunksMakeTheBlob
  /\ CommittedBlobStays
  /\ DumpEnds
=============================================================================
