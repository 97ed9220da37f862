-------------------------------- MODULE MCVmx --------------------------------
(***************************************************************************)
(* VMX operation, the driver's own and the one it gives to L1.  A          *)
(* behaviour is about one part: the launch, stop and exit code of the      *)
(* processors, the VMX instructions of L1, the shadow VMCS, one build of a *)
(* VMCS02, or one access to guest memory.  The parts share no state; those *)
(* a behaviour is not about stay in their initial state.                   *)
(***************************************************************************)
EXTENDS Vcpu, NestedVmx, VmcsShadow, Vmcs02, NestedAccess, TLC

VARIABLE part

----------------------------------------------------------------------------
(* VMX instructions. *)

MCAllowed0 == [Primary |-> {}, Secondary |-> {}]
MCAllowed1 == [Primary |-> {"ActivateSecondary"}, Secondary |-> {"Vmfunc"}]

\* The fields without a value stay as they are after VMCLEAR.
MCValues ==
  [Primary |-> {{"ActivateSecondary"}},
   Secondary |-> {{"Vmfunc"}, {"Reserved"}},
   EptPointer |-> {}, Vpid |-> {}, GuestRflags |-> {2}, Addresses |-> {}, ControlRegisters |-> {}]

Page(r) == [gpa |-> r, canonical |-> TRUE, readable |-> TRUE, aligned |-> TRUE,
            physical |-> TRUE, whole |-> TRUE, revision |-> TRUE]

\* The checks of an operand are one conjunction: one of them fails.
MCOperands ==
  {Page(r) : r \in Regions} \cup
  {[Page(NoRegion) EXCEPT !.revision = FALSE]}

\* The checks of a descriptor are one condition: each instruction refuses one.
Good(t) == [readable |-> TRUE, first |-> 1, firstPage |-> TRUE, second |-> 0,
            secondCanonical |-> TRUE, type |-> t]

MCDescriptors == {Good(1), [Good(1) EXCEPT !.first = 0], [Good(1) EXCEPT !.second = 1]}

Interchangeable == Permutations(Regions)

----------------------------------------------------------------------------
(* Shadow VMCS: bitmaps that let different fields through; one bit beyond a *)
(* small count; one bitmap that is set but not enabled; one bad pointer.    *)

MCFields == 0 .. 2

Config(flags, read, write, pages) ==
  [flags |-> flags, read |-> read, write |-> write, pages |-> pages]

MCConfigs ==
  {Config(Flags, {}, {}, TRUE), Config(Flags, {0}, {1}, TRUE),
   Config(Flags, {1, 2}, {0}, TRUE), Config({"ReadBitmap"}, {1}, {}, TRUE),
   Config({"ReadBitmap"}, {}, {1}, TRUE), Config(Flags, {}, {}, FALSE)}

----------------------------------------------------------------------------
(* VMCS02: the pin, exit and entry words are adjusted alike: one is kept. *)

MCControlWords == {"Pin", "Primary", "Secondary"}

Words(pin, primary, secondary) ==
  [w \in MCControlWords |->
    CASE w = "Pin" -> pin [] w = "Primary" -> primary [] OTHER -> secondary]

\* No pointer, one without a walk, a good one, one with a reserved bit and one
\* beyond the physical addresses.
MCPointers == {[page |-> 0, low |-> 0], [page |-> 1, low |-> 0],
               [page |-> 1, low |-> 6 + 3 * 8], [page |-> 1, low |-> 6 + 3 * 8 + 128],
               [page |-> 9, low |-> 6 + 3 * 8]}

MCVmcs12s ==
  [state : {"Active"}, guest : {"g"}, vpid : {1}, eptp : MCPointers,
   controls : {Words(p, q, s) : p \in {{}, {"p"}}, q \in {{}, {"Activate"}},
                                s \in SUBSET {"Ept", "x"}}]
  \cup [state : {"Clear", "Active"}, guest : {"g", Bad}, vpid : {0, 3},
        eptp : {[page |-> 1, low |-> 6 + 3 * 8]},
        controls : {Words({}, {"Activate"}, s) : s \in {{}, {"Vpid"}, {"Vmfunc"}, {"Ept"}}}]

MCCapabilities ==
  [features : {{"Ept", "Vpid"}, {}}, pages : {4}, vpids : {2},
   allowed0 : {Words({}, {}, {}), Words({"p"}, {}, {"x"})},
   allowed1 : {Words({"p"}, {"Activate"}, {"Ept", "x", "Vpid", "Vmfunc"}),
               Words({"p"}, {}, {"Ept", "Vpid"}), Words({}, {"Activate"}, {"x", "Ept"})}]

MCPolicies ==
  [required : {Words({}, {}, {}), Words({"p"}, {}, {"Ept"}), Words({}, {"Activate"}, {"x"})},
   forbidden : {Words({}, {}, {}), Words({"p"}, {}, {}), Words({}, {"Activate"}, {}),
                Words({}, {}, {"x"}), Words({}, {}, {"Ept"})},
   eptp : {[page |-> 0, low |-> 0], [page |-> 2, low |-> 6 + 3 * 8], [page |-> 2, low |-> 0]},
   host : {"h"}, generation : {3}]
  \cup [required : {Words({}, {}, {})}, forbidden : {Words({}, {}, {})},
        eptp : {[page |-> 0, low |-> 0]}, host : {"h", Bad}, generation : {0, 3}]

----------------------------------------------------------------------------
MCFrames == {0, 2}

Init ==
  /\ part \in {"vcpu", "instructions", "shadow", "vmcs02", "access"}
  /\ VcpuInit
  /\ NestedInit
  /\ ShadowInit
  /\ Vmcs02Init
  /\ AccessInit

Next ==
  \/ part = "vcpu" /\ VcpuNext
     /\ UNCHANGED <<part, nestedVars, shadowVars, call, access>>
  \/ part = "instructions" /\ NestedNext
     /\ UNCHANGED <<part, vcpuVars, shadowVars, call, access>>
  \/ part = "shadow" /\ ShadowNext
     /\ UNCHANGED <<part, vcpuVars, nestedVars, call, access>>
  \/ part = "vmcs02" /\ Vmcs02Next
     /\ UNCHANGED <<part, vcpuVars, nestedVars, shadowVars, access>>
  \/ part = "access" /\ AccessNext
     /\ UNCHANGED <<part, vcpuVars, nestedVars, shadowVars, call>>

Spec == Init /\ [][Next]_<<part, vcpuVars, nestedVars, shadowVars, call, access>>
=============================================================================
