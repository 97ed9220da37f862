----------------------------- MODULE VmcsSetup -----------------------------
(***************************************************************************)
(* SetupVmcs on one processor (vmx_vmcs.cpp), with the checked VMWRITE and *)
(* VMREAD helpers and the first-wins failure record (vmx_diagnostics.cpp), *)
(* the part of PrepareHvCallback around the call, and a crash callback     *)
(* that copies the record at any time from another processor.              *)
(*                                                                         *)
(* SetupVmcs is a fixed program: Steps lists its checks and its VMCS       *)
(* writes in order, fields that are written together and read back alike   *)
(* under one name.  A write is "direct" when its failure returns at once   *)
(* and "latched" when only VmcsWriteFailed remembers it.  The processor    *)
(* may refuse a VMWRITE or VMREAD, or hold a value other than the one      *)
(* written; an RDMSR of AdjustControls outside ReadMsrSafe may raise.      *)
(* NativeTeardownSafe is set between DescriptorSteps and HostSteps.        *)
(***************************************************************************)
EXTENDS VmxControls, Sequences

CONSTANTS Inputs,    \* processors, contracts and failing samples to try
          MaxFaults  \* bound: faults in one setup, those of its inputs included

VARIABLES
    in,        \* [hw, profile, xsaves, cet, flaws], fixed for the call
    line,      \* index into Steps, past the end: the readback steps
    vmcs,      \* field group -> "stale", "sample" or "other"
    latch,     \* VmcsWriteFailed
    read,      \* history: groups read back so far
    complete,  \* readbackComplete
    wrong,     \* success or valuesMatch became FALSE in the readback
    bit,       \* HvVmcsValidityVmcsReadback
    rec,       \* VmcsFailureCommitState, Reason and Arg0
    pub,       \* a PublishVmcsFailure in progress and what follows it
    result,    \* "Running", "Ok" or "Failed": what PrepareHvCallback sees
    cause,     \* history: the first thing that went wrong
    faults,
    rd         \* the crash callback's copy

setupVars == <<in, line, vmcs, latch, read, complete, wrong, bit, rec, pub, result,
          cause, faults, rd>>

---------------------------------------------------------------------------
\* When the code takes a step at all.
Active(cond) ==
    LET asked == SecondaryRequested(in.hw, in.profile, in.xsaves)
    IN  CASE cond = "Cet" -> in.cet
          [] cond = "Xsaves" -> in.xsaves
          [] cond = "Secondary" -> "Secondary" \in
                 AdjustControls(PrimaryRequested(asked), in.hw.primary)
          [] cond = "Tertiary" -> TertiaryActive(in.hw, asked)
          [] OTHER -> TRUE

Check(name, reason, cond) == [op |-> "check", name |-> name,
                              reason |-> reason, cond |-> cond]
Direct(name, cond) == [op |-> "direct", name |-> name,
                       reason |-> "Vmwrite", cond |-> cond]
Latched(name) == [op |-> "latched", name |-> name,
                  reason |-> "Vmwrite", cond |-> "Always"]
LatchTest == [op |-> "latch", name |-> "VmcsWriteFailed",
              reason |-> "None", cond |-> "Always"]

\* PrepareHvCallback before the call; the injected faults come first.
LaunchSteps ==
    << Check("AfterVmclear", "Injected", "Always"),
       Check("AfterVmptrld", "Injected", "Always"),
       Check("Vmclear", "Vmclear", "Always"),
       Check("Vmptrld", "Vmptrld", "Always") >>

DescriptorSteps ==
    << Check("CetWriteProtect", "CetWriteProtect", "Always"),
       Check("MsrSnapshot", "MsrSnapshot", "Always"),
       Check("CetSnapshot", "ControlPolicy", "Cet"),
       Check("GuestTr", "GuestTr", "Always"),
       Check("Descriptors", "DescriptorCr3", "Always"),
       Check("Ldtr", "Ldtr", "Always"),
       Check("SampledTr", "SampledTr", "Always"),
       Check("HostIdt", "DescriptorCr3", "Always") >>

HostSteps ==
    << Direct("HostCr", "Always"), Latched("HostSelectors"), Latched("HostState"),
       LatchTest, Direct("HostCet", "Cet"),
       Check("AfterHostState", "Injected", "Always") >>

GuestSteps ==
    << Latched("GuestCr0"), Latched("GuestCr3"), Latched("GuestCr4"),
       Latched("GuestSegments"), Latched("GuestState"), Latched("HostPat"),
       Direct("GuestCet", "Cet"), Latched("GuestActivity"), Latched("GuestDebugctl"),
       Check("GuestEntry", "GuestEntry", "Always"), Latched("GuestRipRsp"),
       Check("Rflags", "GuestEntry", "Always"), Direct("GuestRflags", "Always"),
       Check("AfterGuestState", "Injected", "Always") >>

ControlSteps ==
    << Direct("Baseline", "Always"),
       Check("PrimaryMsr", "ControlPolicy", "Always"),
       Check("Pin", "ControlPolicy", "Always"),
       Latched("PinWord"), Latched("EntryEvent"),
       Check("Waitpkg", "ControlPolicy", "Always"),
       Check("Xstate", "XstatePolicy", "Always"),
       Check("Primary", "ControlPolicy", "Always"),
       Direct("PrimaryWord", "Always"),
       Check("Secondary", "ControlPolicy", "Secondary"),
       Direct("SecondaryWord", "Secondary"),
       Check("AfterVmcsControls", "Injected", "Always"),
       Check("Tertiary", "ControlPolicy", "Tertiary"),
       Direct("TertiaryWord", "Tertiary") >>

ExitEntrySteps ==
    << Direct("MsrBitmap", "Always"), Direct("XssBitmap", "Xsaves"),
       Check("Exit", "ControlPolicy", "Always"), Direct("ExitWord", "Always"),
       Check("Entry", "ControlPolicy", "Always"), Direct("EntryWord", "Always"),
       Latched("GuestCr0"), Latched("GuestCr4"), Latched("CrMasks") >>

\* The VMREADs, in order, and the groups compared after all of them; the host
\* CET fields are read after that comparison and compared with the guest's.
ReadSteps ==
    LET R(name, cond) == [op |-> "read", name |-> name,
                          reason |-> "Vmread", cond |-> cond]
        C(name) == [op |-> "compare", name |-> name,
                    reason |-> "Mismatch", cond |-> "Always"]
    IN  << R("HostCr", "Always"), R("HostState", "Always"), R("HostPat", "Always"),
           R("PinWord", "Always"), R("PrimaryWord", "Always"),
           R("ExitWord", "Always"), R("EntryWord", "Always"),
           R("MsrBitmap", "Always"), R("CrMasks", "Always"),
           R("GuestCr0", "Always"), R("GuestCr3", "Always"),
           R("GuestCr4", "Always"), R("GuestRipRsp", "Always"),
           R("GuestRflags", "Always"), R("GuestState", "Always"),
           R("GuestDebugctl", "Always"),
           R("SecondaryWord", "Secondary"), R("TertiaryWord", "Tertiary"),
           R("XssBitmap", "Xsaves"), R("GuestCet", "Cet"),
           C("Values"),
           [R("HostCet", "Cet") EXCEPT !.op = "readCet"], C("Cet") >>

WriteSteps == LaunchSteps \o DescriptorSteps \o HostSteps \o GuestSteps
              \o ControlSteps \o ExitEntrySteps

Compared ==
    [Values |-> << "HostCr", "HostState", "HostPat", "PinWord", "PrimaryWord",
                   "ExitWord", "EntryWord", "MsrBitmap", "CrMasks", "GuestCr0",
                   "GuestCr3", "GuestCr4", "GuestRipRsp", "GuestRflags",
                   "GuestState", "GuestDebugctl", "SecondaryWord",
                   "TertiaryWord", "XssBitmap" >>,
     Cet    |-> << "HostCet", "GuestCet" >>]

\* Written and never read back.
NotCompared == {"HostSelectors", "GuestSegments", "GuestActivity", "Baseline",
                "EntryEvent"}

Groups == {WriteSteps[i].name : i \in {j \in DOMAIN WriteSteps :
                                       WriteSteps[j].op \in {"direct", "latched"}}}

FieldCond(g) ==
    CASE g = "SecondaryWord" -> "Secondary"
      [] g = "TertiaryWord" -> "Tertiary"
      [] g = "XssBitmap" -> "Xsaves"
      [] g \in {"HostCet", "GuestCet"} -> "Cet"
      [] OTHER -> "Always"

Steps == WriteSteps \o ReadSteps
Here == Steps[line]
ReadbackStart == Len(WriteSteps) + 1
End == Len(Steps) + 1

---------------------------------------------------------------------------
\* The checks this processor fails: samples by `flaws`, policies by VmxControls.
Refused ==
    LET asked == SecondaryRequested(in.hw, in.profile, in.xsaves)
    IN  in.flaws
        \cup When(~ReadMsrSafe(in.hw, "Primary"), {"PrimaryMsr"})
        \cup When(~PinPolicy(in.hw.pin), {"Pin"})
        \cup When(~WaitpkgPolicy(in.hw, in.profile), {"Waitpkg"})
        \cup When(~XstatePolicy(in.profile, in.xsaves), {"Xstate"})
        \cup When(~PrimaryPolicy(in.hw.primary, asked), {"Primary"})
        \cup When(~SecondaryPolicy(in.hw.secondary, asked), {"Secondary"})
        \cup When(~TertiaryPolicy(in.hw, in.profile), {"Tertiary"})
        \cup When(~WordPolicy(in.hw.exit, in.cet), {"Exit"})
        \cup When(~WordPolicy(in.hw.entry, in.cet), {"Entry"})

\* Checks that read a capability MSR no ReadMsrSafe has tried before.
Unguarded == {"Pin", "Exit", "Entry"}

Reasons == {"CetWriteProtect", "MsrSnapshot", "ControlPolicy", "GuestTr",
            "DescriptorCr3", "Ldtr", "SampledTr", "GuestEntry", "Injected",
            "XstatePolicy", "Vmclear", "Vmptrld", "Vmwrite", "Vmread",
            "Mismatch", "Readback", "Exception"}

NoRecord == [commit |-> "Empty", reason |-> "None", arg |-> "None"]
NoReader == [at |-> "Idle", commit |-> "Empty", reason |-> "None", arg |-> "None"]
NoPub == [at |-> "None", reason |-> "None", arg |-> "None", then |-> "None"]

SetupInit ==
    /\ in \in Inputs
    /\ line = 1
    /\ vmcs = [g \in Groups |-> "stale"]
    /\ latch = FALSE /\ read = {}
    /\ complete = FALSE /\ wrong = FALSE /\ bit = FALSE
    /\ rec = NoRecord /\ pub = NoPub
    /\ result = "Running" /\ cause = <<>>
    /\ faults = Cardinality(in.flaws)
    /\ rd = NoReader

\* PublishVmcsFailure(reason, arg), then: "Fail" returns FALSE (or leaves by
\* the exception handler), "Latch" sets the write latch, "Go" continues.
Publishing(reason, arg, then) ==
    /\ pub' = [at |-> "Claim", reason |-> reason, arg |-> arg, then |-> then]
    /\ cause' = IF cause = <<>> THEN <<reason, arg>> ELSE cause

\* SetupVmcs returns FALSE: a fallback record is added if there is none.
Failing ==
    IF rec.commit = "Committed"
    THEN result' = "Failed" /\ UNCHANGED <<pub, cause>>
    ELSE /\ pub' = [at |-> "Claim", reason |-> "Readback", arg |-> "Phase",
                    then |-> "Fail"]
         /\ UNCHANGED <<result, cause>>

At(op) == /\ result = "Running" /\ pub.at = "None" /\ line < End
          /\ Here.op = op /\ Active(Here.cond)

Skip ==
    /\ result = "Running" /\ pub.at = "None" /\ line < End
    /\ ~Active(Here.cond)
    /\ line' = line + 1
    /\ UNCHANGED <<in, vmcs, latch, read, complete, wrong, bit, rec, pub,
                   result, cause, faults, rd>>

DoCheck ==
    /\ At("check")
    /\ \/ /\ Here.name \in Refused
          /\ Publishing(Here.reason, Here.name, "Fail")
          /\ UNCHANGED <<line, faults>>
       \/ /\ Here.name \notin Refused
          /\ line' = line + 1
          /\ UNCHANGED <<pub, cause, faults>>
       \/ /\ Here.name \in Unguarded
          /\ faults < MaxFaults /\ faults' = faults + 1
          /\ Publishing("Exception", "Prepare", "Fail")
          /\ UNCHANGED line
    /\ UNCHANGED <<in, vmcs, latch, read, complete, wrong, bit, rec, result, rd>>

\* VmWriteChecked past its latch test: accepted, held wrong, or refused.
Store(g) ==
    \/ /\ vmcs' = [vmcs EXCEPT ![g] = "sample"]
       /\ line' = line + 1
       /\ UNCHANGED <<pub, cause, faults>>
    \/ /\ faults < MaxFaults /\ faults' = faults + 1
       /\ vmcs' = [vmcs EXCEPT ![g] = "other"]
       /\ line' = line + 1
       /\ UNCHANGED <<pub, cause>>
    \/ /\ faults < MaxFaults /\ faults' = faults + 1
       /\ Publishing("Vmwrite", g, "Latch")
       /\ UNCHANGED <<vmcs, line>>

DoDirect ==
    /\ At("direct")
    /\ IF latch
       THEN Failing /\ UNCHANGED <<line, vmcs, faults>>
       ELSE Store(Here.name) /\ UNCHANGED result
    /\ UNCHANGED <<in, latch, read, complete, wrong, bit, rec, rd>>

DoLatched ==
    /\ At("latched")
    /\ IF latch
       THEN line' = line + 1 /\ UNCHANGED <<vmcs, pub, cause, faults>>
       ELSE Store(Here.name)
    /\ UNCHANGED <<in, latch, read, complete, wrong, bit, rec, result, rd>>

DoLatchTest ==
    /\ At("latch")
    /\ IF latch THEN Failing /\ UNCHANGED line
                ELSE line' = line + 1 /\ UNCHANGED <<pub, cause, result>>
    /\ UNCHANGED <<in, vmcs, latch, read, complete, wrong, bit, rec, faults, rd>>

---------------------------------------------------------------------------
\* The readback is entered only with the latch clear.
ReadbackAllowed == ~latch

\* A VMREAD that fails ends the readback before any comparison.
DoRead ==
    /\ At("read")
    /\ \/ /\ line = ReadbackStart /\ ~ReadbackAllowed
          /\ wrong' = TRUE /\ line' = End
          /\ UNCHANGED <<pub, cause, faults, read>>
       \/ /\ line = ReadbackStart => ReadbackAllowed
          /\ read' = read \cup {Here.name} /\ line' = line + 1
          /\ UNCHANGED <<pub, cause, faults, wrong>>
       \/ /\ line = ReadbackStart => ReadbackAllowed
          /\ faults < MaxFaults /\ faults' = faults + 1
          /\ Publishing("Vmread", Here.name, "Go")
          /\ wrong' = TRUE /\ line' = End
          /\ UNCHANGED read
    /\ UNCHANGED <<in, vmcs, latch, complete, bit, rec, result, rd>>

\* The host CET fields are read after the other values were compared.
DoReadCet ==
    /\ At("readCet")
    /\ \/ /\ read' = read \cup {Here.name} /\ line' = line + 1
          /\ UNCHANGED <<pub, cause, faults, wrong>>
       \/ /\ faults < MaxFaults /\ faults' = faults + 1
          /\ Publishing("Vmread", Here.name, "Go")
          /\ wrong' = TRUE /\ line' = End
          /\ UNCHANGED read
    /\ UNCHANGED <<in, vmcs, latch, complete, bit, rec, result, rd>>

Differs(g) == Active(FieldCond(g)) /\ vmcs[g] # "sample"

\* VmcsValueMatches over a list: all are evaluated, the first that differs is
\* the one recorded.
FirstDifference(list) ==
    list[CHOOSE i \in DOMAIN list :
             Differs(list[i]) /\ \A j \in 1 .. i - 1 : ~Differs(list[j])]

\* The first comparison is reached with every read of the main list done.
DoCompare ==
    LET list == Compared[Here.name]
    IN  /\ At("compare")
        /\ IF \E i \in DOMAIN list : Differs(list[i])
           THEN /\ wrong' = TRUE
                /\ IF wrong THEN UNCHANGED <<pub, cause>>
                   ELSE Publishing("Mismatch", FirstDifference(list), "Go")
           ELSE UNCHANGED <<wrong, pub, cause>>
        /\ complete' = TRUE
        /\ line' = line + 1
        /\ UNCHANGED <<in, vmcs, latch, read, bit, rec, result, faults, rd>>

\* The end of SetupVmcs.
Finish ==
    /\ result = "Running" /\ pub.at = "None" /\ line = End
    /\ bit' = (bit \/ complete)
    /\ IF wrong THEN Failing ELSE result' = "Ok" /\ UNCHANGED <<pub, cause>>
    /\ UNCHANGED <<in, line, vmcs, latch, read, complete, wrong, rec, faults, rd>>

---------------------------------------------------------------------------

\* PublishVmcsFailure, one store at a time.
Claim ==
    /\ pub.at = "Claim"
    /\ IF rec.commit = "Empty"
       THEN rec' = [rec EXCEPT !.commit = "Writing"] /\ pub' = [pub EXCEPT !.at = "Arg"]
       ELSE pub' = [pub EXCEPT !.at = "Done"] /\ UNCHANGED rec

\* Mutant: the record is committed before its reason is stored.
StoreArgAndCommit ==
    /\ pub.at = "Arg"
    /\ rec' = [rec EXCEPT !.arg = pub.arg, !.commit = "Committed"]
    /\ pub' = [pub EXCEPT !.at = "Reason"]

StoreArg ==
    /\ pub.at = "Arg"
    /\ rec' = [rec EXCEPT !.arg = pub.arg] /\ pub' = [pub EXCEPT !.at = "Reason"]

StoreReason ==
    /\ pub.at = "Reason"
    /\ rec' = [rec EXCEPT !.reason = pub.reason] /\ pub' = [pub EXCEPT !.at = "Commit"]

Commit ==
    /\ pub.at = "Commit"
    /\ rec' = [rec EXCEPT !.commit = "Committed"] /\ pub' = [pub EXCEPT !.at = "Done"]

PublishStep ==
    /\ Claim \/ StoreArg \/ StoreReason \/ Commit
    /\ UNCHANGED <<in, line, vmcs, latch, read, complete, wrong, bit, result, cause,
                   faults, rd>>

\* Back in the caller.  A direct write returns FALSE, a latched one goes on.
Return ==
    /\ pub.at = "Done"
    /\ pub' = NoPub
    /\ CASE pub.then = "Fail" -> result' = "Failed" /\ UNCHANGED <<line, latch>>
         [] pub.then = "Latch" ->
                /\ latch' = TRUE
                /\ IF Here.op = "direct"
                   THEN result' = "Failed" /\ UNCHANGED line
                   ELSE line' = line + 1 /\ UNCHANGED result
         [] OTHER -> UNCHANGED <<line, latch, result>>
    /\ UNCHANGED <<in, vmcs, read, complete, wrong, bit, rec, cause, faults, rd>>

---------------------------------------------------------------------------
\* ReadVmcsFailureRecord, once, from a crash callback on another processor.
ReadFirst ==
    /\ rd.at = "Idle"
    /\ rd' = [rd EXCEPT !.commit = rec.commit,
                 !.at = IF rec.commit = "Committed" THEN "Reason" ELSE "Done"]

ReadReason ==
    /\ rd.at = "Reason"
    /\ rd' = [rd EXCEPT !.reason = rec.reason, !.at = "Arg"]

ReadArg ==
    /\ rd.at = "Arg"
    /\ rd' = [rd EXCEPT !.arg = rec.arg, !.at = "Final"]

ReadFinal ==
    /\ rd.at = "Final"
    /\ rd' = IF rec.commit = "Committed" THEN [rd EXCEPT !.at = "Done"]
             ELSE [NoReader EXCEPT !.at = "Done", !.commit = rec.commit]

CrashRead ==
    /\ ReadFirst \/ ReadReason \/ ReadArg \/ ReadFinal
    /\ UNCHANGED <<in, line, vmcs, latch, read, complete, wrong, bit, rec, pub, result,
                   cause, faults>>

Setup == \/ Skip \/ DoCheck \/ DoDirect \/ DoLatched \/ DoLatchTest
         \/ DoRead \/ DoReadCet \/ DoCompare \/ Finish
         \/ PublishStep \/ Return

SetupNext == Setup \/ CrashRead

\* SetupVmcs runs in a DPC that nothing preempts for good.
SetupSpec == SetupInit /\ [][SetupNext]_setupVars /\ WF_setupVars(Setup)

---------------------------------------------------------------------------
\* Types of the setup's state: the latches, the record's commit word and the
\* stages of a publication, which PublishVmcsFailure is never asked for
\* without a reason.
SetupTypeOK ==
    /\ line \in 1 .. End
    /\ vmcs \in [Groups -> {"stale", "sample", "other"}]
    /\ {latch, complete, wrong, bit} \subseteq BOOLEAN
    /\ read \subseteq Groups
    /\ rec.commit \in {"Empty", "Writing", "Committed"}
    /\ pub.at \in {"None", "Claim", "Arg", "Reason", "Commit", "Done"}
    /\ pub.at # "None" => pub.reason \in Reasons
    /\ result \in {"Running", "Ok", "Failed"}
    /\ faults \in 0 .. MaxFaults
    /\ rd.at \in {"Idle", "Reason", "Arg", "Final", "Done"}

\* SetupVmcs returns TRUE only when every VMWRITE was accepted, although most
\* are not tested where they are made, and every field group it compares
\* holds the value sampled for it.
SuccessIsSound ==
    result = "Ok" =>
        /\ cause = <<>>
        /\ \A g \in Groups : Active(FieldCond(g)) => vmcs[g] # "stale"
        /\ \A g \in Groups \ NotCompared :
               Active(FieldCond(g)) => vmcs[g] = "sample"

\* A failed setup leaves a committed record that names the first thing that
\* went wrong: neither a later failure, nor PrepareHvCallback's fallback
\* Readback record, replaces it.
FailureNamesFirstCause ==
    result = "Failed" =>
        rec.commit = "Committed" /\ <<rec.reason, rec.arg>> = cause

\* "A concurrent teardown reader therefore sees a complete diagnostic record":
\* VmcsWriteFailed is visible only after a record is committed.
LatchFollowsRecord == latch => rec.commit = "Committed"

\* ReadVmcsFailureRecord never exposes a half-written tuple: the crash copy is
\* the whole first record or carries no reason at all.
ReaderSeesWholeRecord ==
    rd.at = "Done" =>
        IF rd.commit = "Committed" THEN <<rd.reason, rd.arg>> = cause
        ELSE rd.reason = "None" /\ rd.arg = "None"

\* HvVmcsValidityVmcsReadback is set only when every field the first readback
\* list names was read.
ReadbackBitIsEarned ==
    bit => \A g \in Groups \ (NotCompared \cup {"HostCet"}) :
               Active(FieldCond(g)) => g \in read

\* A setup that succeeds runs the processor with words its capability MSRs
\* allow, in which every requested control is on and no exit is enabled that
\* has no handler, nor a secondary feature that is not implemented.
WordsAreHandled ==
    LET asked == SecondaryRequested(in.hw, in.profile, in.xsaves)
        primary == AdjustControls(PrimaryRequested(asked), in.hw.primary)
        secondary == SecondaryWord(in.hw, in.profile, in.xsaves)
        exit == AdjustControls(WordRequested(in.cet), in.hw.exit)
        entry == AdjustControls(WordRequested(in.cet), in.hw.entry)
    IN  result = "Ok" =>
            /\ "PinExit" \notin AdjustControls({}, in.hw.pin)
            /\ "MsrBitmaps" \in primary /\ "Unhandled" \notin primary
            /\ asked = secondary
            /\ in.cet <=> "Cet" \in exit
            /\ in.cet <=> "Cet" \in entry

\* A record once committed never changes, so every reader sees the same one.
RecordIsFinal == [][rec.commit = "Committed" => UNCHANGED rec]_setupVars

\* Every setup that has begun ends, with TRUE or FALSE.
SetupEnds == (line > 1 \/ pub # NoPub) ~> (result # "Running")

\* SetupVmcs, PublishVmcsFailure and ReadVmcsFailureRecord together: a setup
\* that succeeds is sound, one that fails leaves one whole record of its first
\* cause, which no reader sees half written and nothing replaces, and it ends.
SetupIsTruthful ==
  /\ []SetupTypeOK
  /\ []SuccessIsSound
  /\ []FailureNamesFirstCause
  /\ []LatchFollowsRecord
  /\ []ReaderSeesWholeRecord
  /\ []ReadbackBitIsEarned
  /\ []WordsAreHandled
  /\ RecordIsFinal
  /\ SetupEnds
============================================================================
