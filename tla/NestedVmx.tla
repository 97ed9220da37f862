----------------------------- MODULE NestedVmx ------------------------------
(***************************************************************************)
(* The software VMX of one nested processor (nested/nested_instructions.cpp*)
(* and nested/nested_vmcs.cpp): the VMX instructions a client sends, the   *)
(* table of VMCS12s they work on, and the exits of L2 that are reflected   *)
(* into one of them.                                                       *)
(*                                                                         *)
(* Instructions and exits come through the control device, in any order:   *)
(* also VMX instructions of L1 while L2 is running.                        *)
(* Left out: generation and dirty_groups, which nothing reads, and the     *)
(* action of a result, which the instruction and the status determine.     *)
(***************************************************************************)
EXTENDS Integers, FiniteSets

CONSTANTS
  Regions,      \* guest-physical pages with a valid VMX revision
  NoRegion,     \* ~0ULL, no current VMCS
  Slots,        \* kNestedVmcsSlots
  ControlFields,\* the control fields of a VMCS12
  Allowed0, Allowed1,  \* per control field: the bits that must, and may, be set
  Values,       \* per writable field: the values VMWRITE is tried with
  Features,     \* capabilities.feature_bits
  EptpEntries,  \* capabilities.eptp_list_entries
  VpidCount,    \* capabilities.vpid_count
  Operands,     \* memory operands of VMXON, VMCLEAR and VMPTRLD
  Descriptors   \* descriptors of INVEPT and INVVPID

ASSUME NestedConstants ==
  /\ NoRegion \notin Regions /\ Slots \in Nat \ {0}
  /\ EptpEntries \in Nat \ {0} /\ VpidCount \in Nat \ {0}
  /\ {"Primary", "Secondary"} \subseteq ControlFields
  /\ ControlFields \subseteq DOMAIN Values
  /\ {"EptPointer", "Vpid", "GuestRflags", "Addresses", "ControlRegisters"} \subseteq DOMAIN Values

VARIABLES
  nested,    \* NestedVcpu without its table
  vmcs,      \* the allocated VMCS12s, by region_gpa
  result,    \* the status of the last NestedResult
  entered,   \* the VMCS12 L2 was entered through, while it runs
  launched   \* the VMCS12s VMLAUNCH entered since they were last cleared

nestedVars == <<nested, vmcs, result, entered, launched>>

Vmcs12States == {"Clear", "Active", "Launched"}
ReadOnlyFields == {"InstructionError", "ExitReason"}
Fields == DOMAIN Values \cup ReadOnlyFields

\* The VM-instruction errors: about an operand, or about the VMCS12 entered.
NoError == "None"
Errors == {NoError, "Operand", "Entry"}

\* A zeroed VMCS12: no control bit, no value, no error.
ClearFields ==
  [f \in Fields |-> CASE f \in ControlFields -> {} [] f = "InstructionError" -> NoError
                     [] OTHER -> 0]

ClearVmcs == [state |-> "Clear", field |-> ClearFields]

SetVmcsReadOnly(table, r, f, value) ==
  IF r \in DOMAIN table THEN [table EXCEPT ![r].field[f] = value] ELSE table

----------------------------------------------------------------------------
(* How an instruction ends. *)

\* VMfailValid records the error in the processor and in the current VMCS12;
\* the other failures record nothing.
MakeVmfail(status, error) ==
  /\ result' = status
  /\ nested' = IF status = "VmfailValid" THEN [nested EXCEPT !.error = error] ELSE nested
  /\ vmcs' = IF status = "VmfailValid"
             THEN SetVmcsReadOnly(vmcs, nested.current, "InstructionError", error) ELSE vmcs

Report(status) == result' = status /\ UNCHANGED <<nested, vmcs>>

\* MakeSuccess after ClearVmInstructionError, on the new processor state.
Succeed(to, table) ==
  /\ result' = "Success"
  /\ nested' = [to EXCEPT !.error = NoError]
  /\ vmcs' = SetVmcsReadOnly(table, to.current, "InstructionError", NoError)

----------------------------------------------------------------------------
(* Checks of operands and of the VMCS12. *)

\* The operand is read through a canonical linear address, and the page it
\* names is aligned, within the physical address width, readable to its last
\* byte and starts with the revision of this processor.
ValidateVmxRegion(op) ==
  op.canonical /\ op.readable /\ op.aligned /\ op.physical /\ op.whole /\ op.revision

\* A control value is its own adjustment to the allowed bits.
ValidateControlValue(f, value) ==
  f \in ControlFields => (value \cup Allowed0[f]) \cap Allowed1[f] = value

\* A field holds 0 when its check passes (control registers within the fixed
\* bits, canonical addresses, an aligned EPT pointer); RFLAGS needs its bit 1.
ValidateEntryState(v) ==
  /\ \A f \in ControlFields : ValidateControlValue(f, v.field[f])
  /\ v.field["Secondary"] # {} => "ActivateSecondary" \in v.field["Primary"]
  /\ v.field["ControlRegisters"] = 0 /\ v.field["Addresses"] = 0
  /\ v.field["GuestRflags"] # 0
  /\ "Ept" \in v.field["Secondary"] => "Ept" \in Features /\ v.field["EptPointer"] = 0
  /\ "Vpid" \in v.field["Secondary"] =>
       "Vpid" \in Features /\ v.field["Vpid"] \in 1 .. VpidCount
  /\ "Vmfunc" \in v.field["Secondary"] => "VirtualTlbFlush" \in Features

Current == nested.current \in DOMAIN vmcs

\* FindVmcs over the whole table, then the first free slot.
CanAllocate(r) == r \in DOMAIN vmcs \/ Cardinality(DOMAIN vmcs) < Slots

AllocateVmcs(r) ==
  [x \in DOMAIN vmcs \cup {r} |-> IF x \in DOMAIN vmcs THEN vmcs[x] ELSE ClearVmcs]

----------------------------------------------------------------------------
(* The instructions.  Everything but VMXON needs VMX operation. *)

EmulateVmxon(op) ==
  /\ IF nested.on THEN MakeVmfail("VmfailValid", "Operand")
     ELSE IF "NestedVmx" \notin Features THEN Report("NestedUnavailable")
     ELSE IF ~ValidateVmxRegion(op) THEN MakeVmfail("VmfailInvalid", "Operand")
     ELSE Succeed([nested EXCEPT !.on = TRUE, !.vmxon = op.gpa, !.current = NoRegion,
                               !.l2 = FALSE], vmcs)
  /\ UNCHANGED <<entered, launched>>

\* The error stays: VMXOFF does not clear it.
EmulateVmxoff ==
  /\ IF nested.l2 THEN Report("Busy")
     ELSE /\ nested' = [nested EXCEPT !.on = FALSE, !.l2 = FALSE, !.current = NoRegion]
          /\ result' = "Success"
          /\ UNCHANGED vmcs
  /\ UNCHANGED <<entered, launched>>

EmulateVmclear(op) ==
  LET r == op.gpa IN
  /\ IF nested.l2 THEN Report("Busy")
     ELSE IF ~ValidateVmxRegion(op) THEN MakeVmfail("VmfailInvalid", "Operand")
     ELSE IF r = nested.vmxon THEN MakeVmfail("VmfailValid", "Operand")
     ELSE IF ~CanAllocate(r) THEN MakeVmfail("CapabilityMismatch", "Operand")
     ELSE Succeed([nested EXCEPT !.current = IF @ = r THEN NoRegion ELSE @],
                  [AllocateVmcs(r) EXCEPT ![r] = ClearVmcs])
  /\ launched' = IF result' = "Success" THEN launched \ {r} ELSE launched
  /\ UNCHANGED entered

\* Mutant: the slot is taken before the operand is compared with the VMXON region.
VmptrldAllocatesFirst(op) ==
  LET r == op.gpa
      found == AllocateVmcs(r)
  IN /\ ValidateVmxRegion(op) /\ CanAllocate(r)
     /\ IF r = nested.vmxon \/ (found[r].state = "Active" /\ nested.current # r)
        THEN /\ result' = "VmfailValid" /\ nested' = [nested EXCEPT !.error = "Operand"]
             /\ vmcs' = SetVmcsReadOnly(found, nested.current, "InstructionError", "Operand")
        ELSE Succeed([nested EXCEPT !.current = r], [found EXCEPT ![r].state = "Active"])
     /\ UNCHANGED <<entered, launched>>

\* L2 may be running, and a launched VMCS12 becomes Active.
EmulateVmptrld(op) ==
  LET r == op.gpa IN
  /\ IF ~ValidateVmxRegion(op) THEN MakeVmfail("VmfailInvalid", "Operand")
     ELSE IF r = nested.vmxon THEN MakeVmfail("VmfailValid", "Operand")
     ELSE IF ~CanAllocate(r) THEN MakeVmfail("CapabilityMismatch", "Operand")
     ELSE IF AllocateVmcs(r)[r].state = "Active" /\ nested.current # r
     THEN MakeVmfail("VmfailValid", "Operand")
     ELSE Succeed([nested EXCEPT !.current = r],
                  [AllocateVmcs(r) EXCEPT ![r].state = "Active"])
  /\ UNCHANGED <<entered, launched>>

\* A store to a register keeps the error, a store to memory clears it.
EmulateVmptrst(destination) ==
  /\ CASE destination = "register" -> Report("Success")
       [] destination = "memory" -> Succeed(nested, vmcs)
       [] destination = "unmapped" -> MakeVmfail("VmfailInvalid", "Operand")
  /\ UNCHANGED <<entered, launched>>

EmulateVmread(f, destination) ==
  /\ IF ~Current \/ f \notin Fields THEN MakeVmfail("VmfailInvalid", "Operand")
     ELSE IF destination = "unmapped" THEN MakeVmfail("VmfailInvalid", "Operand")
     ELSE Succeed(nested, vmcs)
  /\ UNCHANGED <<entered, launched>>

EmulateVmwrite(f, value) ==
  /\ IF ~Current \/ f \notin DOMAIN Values THEN MakeVmfail("VmfailInvalid", "Operand")
     ELSE IF ~ValidateControlValue(f, value) THEN MakeVmfail("VmfailValid", "Entry")
     ELSE Succeed(nested,
                  [vmcs EXCEPT ![nested.current].field[f] = value])
  /\ UNCHANGED <<entered, launched>>

\* VMLAUNCH and VMRESUME.
EmulateVmEntry(op) ==
  LET r == nested.current
      from == IF op = "Vmlaunch" THEN "Active" ELSE "Launched"
  IN /\ IF ~Current THEN MakeVmfail("VmfailInvalid", "Entry")
        ELSE IF vmcs[r].state # from THEN MakeVmfail("VmfailValid", "Entry")
        ELSE IF nested.l2 \/ ~ValidateEntryState(vmcs[r]) THEN MakeVmfail("VmfailValid", "Entry")
        ELSE Succeed([nested EXCEPT !.l2 = TRUE],
                     [vmcs EXCEPT ![r].state = "Launched"])
     /\ IF result' = "Success"
        THEN entered' = r /\ launched' = IF op = "Vmlaunch" THEN launched \cup {r} ELSE launched
        ELSE UNCHANGED <<entered, launched>>

EmulateInvept(d) ==
  /\ IF "Ept" \notin Features THEN Report("VirtualUnsupported")
     ELSE IF \/ ~d.readable \/ d.second # 0 \/ d.type \notin {1, 2}
             \/ d.type = 1 /\ ~d.firstPage
     THEN MakeVmfail("VmfailInvalid", "Operand")
     ELSE Succeed(nested, vmcs)
  /\ UNCHANGED <<entered, launched>>

EmulateInvvpid(d) ==
  /\ IF "Vpid" \notin Features THEN Report("VirtualUnsupported")
     ELSE IF \/ ~d.readable \/ d.first \notin 1 .. VpidCount \/ d.type > 3
             \/ d.type \in {0, 2} /\ ~d.secondCanonical
     THEN MakeVmfail("VmfailInvalid", "Operand")
     ELSE Succeed(nested, vmcs)
  /\ UNCHANGED <<entered, launched>>

EmulateVmfunc(source, index) ==
  /\ IF ~Current THEN Report("VirtualUnsupported")
     ELSE IF "Vmfunc" \notin vmcs[nested.current].field["Secondary"]
     THEN Report("VirtualUnsupported")
     ELSE IF source # 0 \/ index >= EptpEntries THEN MakeVmfail("VmfailValid", "Operand")
     ELSE Succeed([nested EXCEPT !.eptpIndex = index], vmcs)
  /\ UNCHANGED <<entered, launched>>

EmulateVmcall ==
  Succeed(nested, vmcs) /\ UNCHANGED <<entered, launched>>

----------------------------------------------------------------------------
Destinations == {"register", "memory", "unmapped"}

\* InstructionIsValid refuses first, VMX operation is asked for next.
DispatchNestedInstruction ==
  \/ /\ Report("InvalidParameter") /\ UNCHANGED <<entered, launched>>
  \/ \E op \in Operands : EmulateVmxon(op)
  \/ /\ ~nested.on /\ MakeVmfail("VmfailInvalid", "Operand") /\ UNCHANGED <<entered, launched>>
  \/ /\ nested.on
     /\ \/ EmulateVmxoff
        \/ \E op \in Operands : EmulateVmclear(op) \/ EmulateVmptrld(op)
        \/ \E d \in Destinations : EmulateVmptrst(d)
        \/ \E d \in Destinations : EmulateVmread("InstructionError", d)
        \/ EmulateVmread("no field", "register")
        \/ \E f \in DOMAIN Values : \E x \in Values[f] : EmulateVmwrite(f, x)
        \/ EmulateVmwrite("InstructionError", NoError)
        \/ EmulateVmEntry("Vmlaunch") \/ EmulateVmEntry("Vmresume")
        \/ \E d \in Descriptors : EmulateInvept(d) \/ EmulateInvvpid(d)
        \/ \E source \in 0 .. 1, index \in 0 .. EptpEntries : EmulateVmfunc(source, index)
        \/ EmulateVmcall
        \/ Report("VirtualUnsupported")
           /\ UNCHANGED <<entered, launched>>

\* reason 0 stands for a record that is not well formed.
ReflectNestedExit(reason) ==
  /\ IF reason = 0 \/ ~nested.l2 THEN Report("InvalidParameter")
     ELSE IF ~Current THEN Report("RecoveryRequired")
     ELSE /\ vmcs' = SetVmcsReadOnly(vmcs, nested.current, "ExitReason", reason)
          /\ nested' = [nested EXCEPT !.l2 = FALSE]
          /\ result' = "Success"
  /\ entered' = IF nested'.l2 THEN entered ELSE NoRegion
  /\ UNCHANGED launched

\* InitializeNestedVcpu: vmxon_gpa is 0, which is no region until VMXON.
NestedInit ==
  /\ nested = [on |-> FALSE, vmxon |-> NoRegion, current |-> NoRegion, l2 |-> FALSE,
             error |-> NoError, eptpIndex |-> 0]
  /\ vmcs = [r \in {} |-> ClearVmcs]
  /\ result = "Success"
  /\ entered = NoRegion /\ launched = {}

NestedNext == DispatchNestedInstruction \/ \E reason \in 0 .. 1 : ReflectNestedExit(reason)

NestedSpec == NestedInit /\ [][NestedNext]_nestedVars

----------------------------------------------------------------------------
NestedTypeOK ==
  /\ nested.on \in BOOLEAN /\ nested.l2 \in BOOLEAN
  /\ nested.vmxon \in Regions \cup {NoRegion} /\ nested.current \in Regions \cup {NoRegion}
  /\ nested.error \in Errors /\ nested.eptpIndex \in 0 .. EptpEntries - 1
  /\ DOMAIN vmcs \subseteq Regions /\ Cardinality(DOMAIN vmcs) <= Slots
  /\ \A r \in DOMAIN vmcs : vmcs[r].state \in Vmcs12States /\ DOMAIN vmcs[r].field = Fields

\* MakeVmfail and ClearVmInstructionError keep two copies of the error, one in
\* the processor and one in the current VMCS12, while VMPTRLD, VMCLEAR and
\* VMXOFF change which VMCS12 is current: L1 reads the error that the
\* processor holds.
ErrorIsMirrored ==
  Current => vmcs[nested.current].field["InstructionError"] = nested.error

\* While L2 runs there is a current VMCS12, so that an exit is never without one
\* to be reflected into (RecoveryRequired in ReflectNestedExit), and the VMCS12 it
\* was entered through is still there and not cleared ("VMCLEAR is rejected while
\* L2 is running", nested_model_test.cpp).  The two need not be the same: VMPTRLD
\* is not refused while L2 runs, and the exit then goes to the VMCS12 loaded last.
L2HasAVmcs ==
  /\ nested.l2 => nested.on /\ Current
  /\ nested.l2 => entered \in DOMAIN vmcs /\ vmcs[entered].state # "Clear"
  /\ result # "RecoveryRequired"

\* Only what VMLAUNCH entered can be resumed: a VMCS12 that is in the state
\* VMRESUME asks for, and the one L2 was entered through, was launched since it was
\* last cleared, whatever VMPTRLD and VMXOFF did in between.  The converse does
\* not hold (LaunchedIsNotLaunchedAgain).
ResumeNeedsLaunch ==
  /\ nested.l2 => entered \in launched
  /\ \A r \in DOMAIN vmcs : vmcs[r].state = "Launched" => r \in launched

\* "VMLAUNCH rejects an already launched VMCS with VMfailValid"
\* (nested_model_test.cpp): what was launched and not cleared since is entered by
\* VMRESUME only.  It does not hold: VMPTRLD of a launched VMCS12 makes it Active
\* again (EmulateVmptrld), and EmulateVmEntry asks for no more.
LaunchedIsNotLaunchedAgain ==
  [][(~nested.l2 /\ nested'.l2 /\ vmcs[nested.current].state = "Active")
       => nested.current \notin launched]_nestedVars

\* The region of VMXON is never worked on as a VMCS12, although its page may
\* have been one before VMXON.
VmxonRegionIsNotCurrent == nested.on => nested.current # nested.vmxon

WithoutErrors ==
  <<[nested EXCEPT !.error = NoError],
    [r \in DOMAIN vmcs |-> [vmcs[r] EXCEPT !.field["InstructionError"] = NoError]]>>

\* An instruction that fails leaves the table, the pointers and L2 alone; only
\* the error number may change.
FailureChangesNothing ==
  [][result' # "Success" => WithoutErrors' = WithoutErrors]_nestedVars

\* VMWRITE lets no control value in that a VM entry would refuse: whatever L1
\* writes, also while L2 runs, every control field it touched stays allowed.
StoredControlsAreAllowed ==
  \A r \in DOMAIN vmcs : \A f \in ControlFields :
    vmcs[r].field[f] # {} => ValidateControlValue(f, vmcs[r].field[f])

\* nested_instructions.cpp over any sequence of VMX instructions: L2 was entered
\* through a VMCS12 that was launched and is still there, an exit finds a current
\* one, the VMXON region is never one, errors are mirrored, stored controls are
\* allowed, and an instruction that fails changes nothing else.
NestedStateIsConsistent ==
  /\ []NestedTypeOK
  /\ []ErrorIsMirrored
  /\ []L2HasAVmcs
  /\ []ResumeNeedsLaunch
  /\ []VmxonRegionIsNotCurrent
  /\ []StoredControlsAreAllowed
  /\ FailureChangesNothing
=============================================================================
