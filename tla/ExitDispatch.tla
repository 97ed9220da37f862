---------------------------- MODULE ExitDispatch ----------------------------
(***************************************************************************)
(* VmExitHandler and its handlers on one processor (vmx/vmx_exit.cpp,      *)
(* vmx/vmx_diagnostics.cpp): what each VM exit does to the guest's RIP,    *)
(* registers and pending events, and whether the guest is resumed, left    *)
(* natively (the unload call) or parked.  Any VMREAD, VMWRITE, VMRESUME or *)
(* VM entry may fail.  With the CR0 and CR4 masks at zero the only control *)
(* register that exits is CR3; the MSR bitmap traps IA32_XSS, and MSRs     *)
(* outside the bitmap always exit.                                         *)
(***************************************************************************)
EXTENDS Integers

CONSTANTS
  MaxRip,          \* the last canonical instruction address
  Components,      \* supervisor state components
  XsavesMask       \* those of the fixed XSAVES frame

ASSUME DispatchAssumption ==
  MaxRip \in Nat \ {0} /\ XsavesMask \subseteq Components

VARIABLES
  processor,            \* "guest", "resuming", "native" or "halted"
  xstate, pcide,   \* g_XstateMode and CR4.PCIDE of the running system
  rip, inject,     \* GUEST_RIP and the event in the VM-entry fields
  guest,           \* CR3, XCR0 and IA32_XSS of the guest
  failed,          \* VmcsReadFailed or VmcsWriteFailed
  probe,           \* FirstExitProbeState
  last             \* the last exit and its LastExitAction

dispatchVars == <<processor, xstate, pcide, rip, inject, guest, failed, probe, last>>

Advancing == {"cpuid", "probe", "unload", "vmcall", "rdmsr", "wrmsr", "msr",
              "movToCr3", "movFromCr3", "xsetbv"}
Undefined == {"vmxInstruction"}
Fatal == {"xsaves", "externalInterrupt", "tripleFault", "doubleFault", "other"}
Reasons == Advancing \cup Undefined \cup Fatal

ExitOperands(reason) ==
  CASE reason = "wrmsr" -> SUBSET Components
    [] reason = "movToCr3" -> {"base", "pcid", "noFlush", "invalid"}
    [] reason = "unload" -> {"steady", "unsteady", "unfit"}
    [] reason = "xsetbv" -> {"host", "subset", "invalid"}
    [] OTHER -> {"none"}

\* idt: an event was being delivered; dbg: a debug exception is pending.  At
\* the unload call, steady: interruptibility, activity and descriptors allow a
\* native return; unfit: the registers not modelled here are not fit for one.
Exits ==
  UNION {[reason : {r}, operand : ExitOperands(r), cpl : {0, 3}, len : 0 .. 1,
          idt : BOOLEAN, dbg : BOOLEAN] : r \in Reasons}

\* What is looked at before the dispatch.
Arrivals == [reason : Reasons, len : 0 .. 1, idt : BOOLEAN, dbg : BOOLEAN]

NoExit == [reason |-> "none", action |-> "None"]

\* Where a VMCS access fails: before the dispatch, in a handler, at the RIP
\* write.  "test" is ShouldInjectFault before VMRESUME.
Faults == {"none", "early", "handler", "rip", "test"}

DispatchInit ==
  /\ processor = "guest" /\ rip = 0 /\ inject = "none" /\ failed = FALSE
  /\ xstate \in {"fxsave", "xsave", "xsaves"} /\ pcide \in BOOLEAN
  /\ guest = [cr3 |-> "base", xss |-> {}, xcr0 |-> "host"]
  /\ probe = "idle" /\ last = NoExit

-----------------------------------------------------------------------------

\* What a handler decides.
Stay == [halt |-> FALSE, abort |-> FALSE, advance |-> FALSE, inject |-> "none",
         guest |-> guest]
Halt == [Stay EXCEPT !.halt = TRUE]
Advance(g) == [Stay EXCEPT !.advance = TRUE, !.guest = g]

\* An exit that was delivering an event never gets here; one with a pending
\* debug exception is not merged with a second event.
InjectGuestException(e, vector) ==
  IF e.dbg THEN Halt ELSE [Stay EXCEPT !.inject = vector]

\* IsValidArchitecturalCr3: the no-flush hint is not part of CR3.
IsValidArchitecturalCr3(value) == value = "base" \/ (pcide /\ value = "pcid")
IsValidCr3(value) == IsValidArchitecturalCr3(value) \/ (pcide /\ value = "noFlush")

NormalizeCr3(value) == IF value = "noFlush" THEN "pcid" ELSE value

\* IsValidGuestState, of the registers the handlers change.
IsValidGuestState(g) ==
  /\ IsValidArchitecturalCr3(g.cr3)
  /\ g.xcr0 = "host" /\ g.xss \subseteq (IF xstate = "xsaves" THEN XsavesMask ELSE {})

\* RequestAuthenticatedUnload: accepted, put off to a retry, or fatal.
RequestAuthenticatedUnload(e) ==
  IF e.operand = "unfit" \/ ~IsValidGuestState(guest) THEN Halt
  ELSE [Advance(guest) EXCEPT !.abort = (e.operand = "steady" /\ ~e.dbg)]

HandleVmCall(e) ==
  IF e.reason = "unload" /\ e.cpl = 0 THEN RequestAuthenticatedUnload(e)
  ELSE InjectGuestException(e, "GP")

HandleMsrRead(e) ==
  IF e.cpl # 0 THEN InjectGuestException(e, "GP") ELSE Advance(guest)

\* Mutant: the value is stored before the privilege level is looked at.
MsrWriteBeforeCheck(e) ==
  IF e.operand \subseteq (IF xstate = "xsaves" THEN XsavesMask ELSE {})
  THEN IF e.cpl # 0 THEN [InjectGuestException(e, "GP") EXCEPT !.guest.xss = e.operand]
       ELSE Advance([guest EXCEPT !.xss = e.operand])
  ELSE Halt

\* IA32_XSS outside the fixed frame, or any but zero without XSAVES, parks.
HandleMsrWrite(e) ==
  IF e.cpl # 0 THEN InjectGuestException(e, "GP")
  ELSE IF e.operand \subseteq (IF xstate = "xsaves" THEN XsavesMask ELSE {})
       THEN Advance([guest EXCEPT !.xss = e.operand]) ELSE Halt

HandleCrAccess(e) ==
  IF e.cpl # 0 THEN InjectGuestException(e, "GP")
  ELSE IF e.reason = "movFromCr3" THEN Advance(guest)
  ELSE IF IsValidCr3(e.operand)
       THEN Advance([guest EXCEPT !.cr3 = NormalizeCr3(e.operand)])
       ELSE InjectGuestException(e, "GP")

\* Only the selector that is in force already is taken.
HandleXsetbv(e) ==
  IF e.cpl # 0 THEN InjectGuestException(e, "GP")
  ELSE IF xstate = "fxsave" THEN InjectGuestException(e, "UD")
  ELSE IF e.operand = "invalid" THEN InjectGuestException(e, "GP")
  ELSE IF e.operand # "host" THEN Halt
  ELSE Advance([guest EXCEPT !.xcr0 = e.operand])

Dispatch(e) ==
  CASE e.reason \in {"cpuid", "probe"} -> Advance(guest)
    [] e.reason \in {"unload", "vmcall"} -> HandleVmCall(e)
    [] e.reason = "rdmsr" -> HandleMsrRead(e)
    [] e.reason = "wrmsr" -> HandleMsrWrite(e)
    [] e.reason = "msr" -> InjectGuestException(e, "GP")
    [] e.reason \in {"movToCr3", "movFromCr3"} -> HandleCrAccess(e)
    [] e.reason = "xsetbv" -> HandleXsetbv(e)
    [] e.reason \in Undefined -> InjectGuestException(e, "UD")
    [] e.reason \in Fatal -> Halt

FailFirstExitProbeAtFatalBoundary(p) ==
  IF p \in {"armed", "entered", "validated"} THEN "failed" ELSE p

\* MarkFirstExitProbeVmExitEntered.
ProbeEntered(e) == IF e.reason = "probe" /\ probe = "armed" THEN "entered" ELSE probe

\* CompleteFirstExitProbe; the counters it compares cannot disagree.
CompleteFirstExitProbe(p, action) ==
  IF p # "entered" THEN p ELSE IF action = "Resume" THEN "validated" ELSE "failed"

-----------------------------------------------------------------------------

\* The handler parks the processor before it looks at the reason.
ParksEarly(e, fault) ==
  fault = "early" \/ e.idt \/ (e.reason \in Advancing /\ e.len = 0)

ExitEarly(e, fault) ==
  /\ ParksEarly(e, fault)
  /\ processor' = "halted" /\ failed' = (failed \/ fault = "early")
  /\ probe' = FailFirstExitProbeAtFatalBoundary(probe)
  /\ last' = [reason |-> e.reason, len |-> e.len, idt |-> e.idt, dbg |-> e.dbg,
              action |-> "Halt"]
  /\ UNCHANGED <<xstate, pcide, rip, inject, guest>>

\* Accesses a handler makes that can fail: the event fields, CR3, and the
\* descriptors of a native return.
Accesses(e, o) ==
  o.inject # "none" \/ (e.reason \in {"unload", "movToCr3", "movFromCr3"} /\ e.cpl = 0)

\* A fault happens where there is something to fail.
Possible(e, o, fault) ==
  /\ fault # "early"
  /\ fault = "handler" => Accesses(e, o)
  /\ fault = "rip" => o.advance /\ rip + e.len <= MaxRip

Halts(e, o, fault) ==
  o.halt \/ fault # "none" \/ (o.advance /\ rip + e.len > MaxRip)

ActionOf(o, halts) ==
  IF halts THEN "Halt" ELSE IF o.abort THEN "Abort"
  ELSE IF o.advance THEN "Resume" ELSE "Inject"

\* The dispatch and the tail of VmExitHandler.
VmExitHandler(e, fault) ==
  LET o == Dispatch(e)
      halts == Halts(e, o, fault)
      action == ActionOf(o, halts)
      done == o.advance /\ fault \notin {"handler", "rip"} /\ rip + e.len <= MaxRip
  IN /\ ~ParksEarly(e, fault) /\ Possible(e, o, fault)
     /\ failed' = (failed \/ fault \in {"handler", "rip"})
     /\ rip' = IF done THEN rip + e.len ELSE rip
     /\ inject' \in {o.inject} \cup (IF fault = "handler" THEN {"none"} ELSE {})
     /\ guest' = IF fault = "handler" THEN guest ELSE o.guest
     /\ processor' = IF halts THEN "halted" ELSE IF o.abort THEN "native" ELSE "resuming"
     /\ probe' = CompleteFirstExitProbe(
                   IF action \in {"Halt", "Abort"}
                   THEN FailFirstExitProbeAtFatalBoundary(ProbeEntered(e)) ELSE ProbeEntered(e),
                   action)
     /\ last' = [reason |-> e.reason, len |-> e.len, idt |-> e.idt, dbg |-> e.dbg,
                 action |-> action]
     /\ UNCHANGED <<xstate, pcide>>

GuestExit ==
  /\ processor = "guest"
  /\ \/ \E e \in Arrivals, fault \in {"none", "early"} : ExitEarly(e, fault)
     \/ \E e \in Exits, fault \in Faults \ {"early"} : VmExitHandler(e, fault)

\* VMRESUME succeeds; the processor delivers the event at a guest handler.
Enter ==
  /\ processor = "resuming" /\ processor' = "guest" /\ inject' = "none"
  /\ rip' = IF inject = "none" THEN rip ELSE 0
  /\ UNCHANGED <<xstate, pcide, guest, failed, probe, last>>

\* HandleVmResumeFailure; reading the instruction error may fail too.
ResumeFails ==
  /\ processor = "resuming" /\ processor' = "halted" /\ failed' \in {failed, TRUE}
  /\ probe' = FailFirstExitProbeAtFatalBoundary(probe)
  /\ last' = [last EXCEPT !.reason = "vmresumeFailure", !.action = "Halt"]
  /\ UNCHANGED <<xstate, pcide, rip, inject, guest>>

\* A VM entry that fails late comes back as an exit with no running guest.
EntryFails ==
  /\ processor = "resuming" /\ processor' = "halted"
  /\ probe' = FailFirstExitProbeAtFatalBoundary(probe)
  /\ last' = [last EXCEPT !.reason = "entryFailure", !.action = "Halt"]
  /\ UNCHANGED <<xstate, pcide, rip, inject, guest, failed>>

\* The guest runs without exits.
Execute ==
  /\ processor = "guest" /\ rip' \in 0 .. MaxRip
  /\ UNCHANGED <<processor, xstate, pcide, inject, guest, failed, probe, last>>

ArmFirstExitProbe ==
  /\ processor = "guest" /\ probe = "idle" /\ probe' = "armed"
  /\ UNCHANGED <<processor, xstate, pcide, rip, inject, guest, failed, last>>

\* VerifyFirstExitProbeReturn, after the sentinel CPUID returned.
VerifyFirstExitProbeReturn ==
  /\ processor = "guest" /\ probe = "validated" /\ probe' = "returned"
  /\ UNCHANGED <<processor, xstate, pcide, rip, inject, guest, failed, last>>

DispatchNext ==
  \/ GuestExit \/ Enter \/ ResumeFails \/ EntryFails \/ Execute
  \/ ArmFirstExitProbe \/ VerifyFirstExitProbeReturn

DispatchSpec == DispatchInit /\ [][DispatchNext]_dispatchVars

-----------------------------------------------------------------------------

\* VmExitHandler: an exit after which the guest is resumed is settled in one of
\* two ways.  Its instruction is done and RIP is past it, or the instruction
\* left no trace and one exception waits at it.  A native return is past it too.
ExitsAreSettled ==
  [][processor = "guest" /\ processor' \in {"resuming", "native"} =>
       \/ rip' = rip + last'.len /\ last'.len > 0 /\ inject' = "none"
       \/ rip' = rip /\ inject' # "none" /\ guest' = guest /\ processor' = "resuming"]_dispatchVars

\* VmExitHandler, InjectGuestException: the guest is not resumed over an event
\* that was being delivered, nor with an exception on top of a pending one.
NoEventIsLostOrMerged ==
  processor = "resuming" => ~last.idt /\ (inject # "none" => ~last.dbg)

\* VmReadChecked, VmWriteChecked: after the first failed VMCS access the guest
\* runs no further instruction, in VMX or out of it.
FailedAccessIsFinal == failed => processor = "halted"

\* HandleMsrWrite, HandleCrAccess, HandleXsetbv, IsValidGuestState: no sequence
\* of handled exits brings a guest into a state that a later unload call would
\* find unfit for a native return.
UnloadStaysPossible == processor \in {"guest", "resuming"} => IsValidGuestState(guest)

\* FailFirstExitProbeAtFatalBoundary: a probe that was validated is withdrawn
\* when the processor parks or leaves before the probe has returned.
ValidatedProbeIsAlive == probe = "validated" => processor \in {"guest", "resuming"}

\* vmx_entry.asm:637: after a failed VMRESUME "only an invalid frame falls
\* through to park".
ValidFramesAreNotParked ==
  last.reason = "vmresumeFailure" /\ ~failed /\ IsValidGuestState(guest) => processor # "halted"

\* VmExitHandler over any sequence of exits: no event is lost or merged, a
\* failed VMCS access is the end, the guest stays fit for a native return, a
\* validated probe is alive, and every exit is settled in one of two ways.
ExitsKeepTheGuest ==
  /\ []NoEventIsLostOrMerged
  /\ []FailedAccessIsFinal
  /\ []UnloadStaysPossible
  /\ []ValidatedProbeIsAlive
  /\ ExitsAreSettled
=============================================================================
