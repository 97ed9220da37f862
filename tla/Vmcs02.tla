------------------------------- MODULE Vmcs02 -------------------------------
(***************************************************************************)
(* Building the VMCS that L2 would really run on from the one L1 wrote and *)
(* the policy of L0 (nested/vmcs02_model.cpp).  A pure function of its     *)
(* three inputs: one behaviour is one call.                                *)
(* Abstracted: a control word is the set of its bits; guest and host stand *)
(* for the registers and addresses that are checked and copied together.   *)
(* The sizes, versions and reserved words of the structures are valid.     *)
(***************************************************************************)
EXTENDS Integers

CONSTANTS
  ControlWords,  \* pin, primary, secondary, exit and entry controls
  Vmcs12s,       \* Vmcs12Model values
  Capabilities,  \* NestedCapabilities values
  Policies       \* Vmcs02Policy values

ASSUME Vmcs02Constants == {"Primary", "Secondary"} \subseteq ControlWords

VARIABLE call  \* the call made, with its result

NoCall == [made |-> FALSE]
NoControls == [w \in ControlWords |-> {}]
\* The value 0 of an EPT pointer.
NoEptPointer == [page |-> 0, low |-> 0]
Bad == "bad"

----------------------------------------------------------------------------
(* Checks. *)

\* The low bits name a memory type (0 or 6) and a walk of 4 or 5 levels, and ask
\* for accessed and dirty flags; those above, to the page, are reserved.
DecodeEptPointer(low) ==
  /\ low < 128
  /\ low % 8 \in {0, 6}
  /\ ((low \div 8) % 8) + 1 \in {4, 5}

ValidateEptPointer(eptp, caps) == DecodeEptPointer(eptp.low) /\ eptp.page < caps.pages

IsPolicyContractValid(policy) ==
  /\ policy.generation # 0
  /\ \A w \in ControlWords : policy.required[w] \cap policy.forbidden[w] = {}

IsVmcs12ModelValid(vmcs12, caps) ==
  /\ vmcs12.state # "Clear" /\ vmcs12.guest # Bad
  /\ "Ept" \in vmcs12.controls["Secondary"] =>
       "Ept" \in caps.features /\ ValidateEptPointer(vmcs12.eptp, caps)
  /\ "Vpid" \in vmcs12.controls["Secondary"] =>
       "Vpid" \in caps.features /\ vmcs12.vpid \in 1 .. caps.vpids
  /\ "Vmfunc" \in vmcs12.controls["Secondary"] => "VirtualTlbFlush" \in caps.features

----------------------------------------------------------------------------
(* Control words. *)

Adjusted(w, requested, caps, policy) ==
  (requested \cup policy.required[w] \cup caps.allowed0[w]) \cap caps.allowed1[w]

\* Mutant: what the hardware requires is not compared with what is forbidden.
CanAdjustUnchecked(w, requested, caps, policy) ==
  /\ requested \subseteq caps.allowed1[w] /\ policy.required[w] \subseteq caps.allowed1[w]
  /\ policy.required[w] \cap policy.forbidden[w] = {}
  /\ requested \cap policy.forbidden[w] = {}

CanAdjust(w, requested, caps, policy) ==
  /\ requested \subseteq caps.allowed1[w] /\ policy.required[w] \subseteq caps.allowed1[w]
  /\ policy.required[w] \cap policy.forbidden[w] = {}
  /\ Adjusted(w, requested, caps, policy) \cap policy.forbidden[w] = {}

ControlMatches(w, value, caps, policy) ==
  CanAdjust(w, value, caps, policy) /\ Adjusted(w, value, caps, policy) = value

\* Secondary controls take effect only when the primary word activates them.
Activate(controls) ==
  IF controls["Secondary"] # {}
  THEN [controls EXCEPT !["Primary"] = @ \cup {"Activate"}] ELSE controls

CanActivate(controls, caps, policy) ==
  \/ controls["Secondary"] = {} \/ "Activate" \in controls["Primary"]
  \/ "Activate" \in caps.allowed1["Primary"] /\ "Activate" \notin policy.forbidden["Primary"]

----------------------------------------------------------------------------
(* The build.  A refused build leaves the words it had filled in. *)

EmptyImage(status) ==
  [status |-> status, controls |-> NoControls, eptp |-> NoEptPointer,
   guest |-> Bad, host |-> Bad, generation |-> 0]

ChosenEptPointer(vmcs12, policy) ==
  IF policy.eptp = NoEptPointer THEN vmcs12.eptp ELSE policy.eptp

BuildEptPointer(vmcs12, caps, policy, controls) ==
  CASE "Ept" \in controls["Secondary"] ->
         IF ValidateEptPointer(ChosenEptPointer(vmcs12, policy), caps) THEN "Success"
         ELSE "AddressInvalid"
    [] policy.eptp # NoEptPointer -> "ControlConflict"
    [] OTHER -> "Success"

BuildVmcs02Model(vmcs12, caps, policy) ==
  LET adjusted == [w \in ControlWords |-> Adjusted(w, vmcs12.controls[w], caps, policy)]
      controls == Activate(adjusted)
      eptp == IF "Ept" \in controls["Secondary"] THEN ChosenEptPointer(vmcs12, policy)
              ELSE NoEptPointer
      step == BuildEptPointer(vmcs12, caps, policy, controls)
      partial == [EmptyImage("Success") EXCEPT !.controls = controls, !.eptp = eptp]
  IN CASE ~IsPolicyContractValid(policy) -> EmptyImage("InvalidParameter")
       [] ~IsVmcs12ModelValid(vmcs12, caps) -> EmptyImage("Vmcs12Invalid")
       [] \E w \in ControlWords : ~CanAdjust(w, vmcs12.controls[w], caps, policy) ->
            EmptyImage("ControlConflict")
       [] ~CanActivate(adjusted, caps, policy) ->
            [EmptyImage("CapabilityMismatch") EXCEPT !.controls = adjusted]
       [] step # "Success" ->
            [partial EXCEPT !.status = step, !.eptp = NoEptPointer]
       [] policy.host = Bad -> [partial EXCEPT !.status = "AddressInvalid"]
       [] OTHER -> [partial EXCEPT !.guest = vmcs12.guest, !.host = policy.host,
                                   !.generation = policy.generation]

IsVmcs02ImageValid(image, caps, policy) ==
  /\ IsPolicyContractValid(policy)
  /\ image.status = "Success" /\ image.generation = policy.generation
  /\ image.guest # Bad /\ image.host # Bad
  /\ \A w \in ControlWords : ControlMatches(w, image.controls[w], caps, policy)
  /\ image.controls["Secondary"] # {} => "Activate" \in image.controls["Primary"]
  /\ "Ept" \in image.controls["Secondary"] => ValidateEptPointer(image.eptp, caps)

----------------------------------------------------------------------------
Vmcs02Init == call = NoCall

Build(vmcs12, caps, policy) ==
  call' = [made |-> TRUE, vmcs12 |-> vmcs12, caps |-> caps, policy |-> policy,
           image |-> BuildVmcs02Model(vmcs12, caps, policy)]

Vmcs02Next ==
  /\ call = NoCall
  /\ \E vmcs12 \in Vmcs12s, caps \in Capabilities, policy \in Policies :
       Build(vmcs12, caps, policy)

Vmcs02Spec == Vmcs02Init /\ [][Vmcs02Next]_call

----------------------------------------------------------------------------
\* BuildVmcs02Model and IsVmcs02ImageValid agree: every image built passes the
\* check made before it is used, although the build checks the parts one by
\* one and adds to the primary word after adjusting it; no image of a refused
\* build passes, although some of it is filled in.
BuiltImageIsValid ==
  call.made =>
    (IsVmcs02ImageValid(call.image, call.caps, call.policy) <=> call.image.status = "Success")

\* The values of one control word that L1, L0 and the hardware can live with.
LegalWord(w, vmcs12, caps, policy) ==
  {c \in SUBSET (caps.allowed1[w] \ policy.forbidden[w]) :
     /\ vmcs12.controls[w] \cup policy.required[w] \subseteq c
     /\ caps.allowed0[w] \cap caps.allowed1[w] \subseteq c}

\* The merge in BuildVmcs02Model is exact: it refuses the controls only when no
\* words satisfy what L1 asks, what L0 requires and forbids, what the hardware
\* allows and the need to activate the secondary word, and otherwise builds the
\* least such words.
LeastLegalControls ==
  call.made /\ IsPolicyContractValid(call.policy) /\ IsVmcs12ModelValid(call.vmcs12, call.caps) =>
    LET Legal(w) == LegalWord(w, call.vmcs12, call.caps, call.policy)
        pairs == {c \in Legal("Primary") \X Legal("Secondary") :
                    c[2] # {} => "Activate" \in c[1]}
        none == pairs = {} \/ \E w \in ControlWords : Legal(w) = {}
    IN /\ call.image.status = "Success" =>
            /\ <<call.image.controls["Primary"], call.image.controls["Secondary"]>> \in pairs
            /\ \A c \in pairs : /\ call.image.controls["Primary"] \subseteq c[1]
                                /\ call.image.controls["Secondary"] \subseteq c[2]
            /\ \A w \in ControlWords \ {"Primary", "Secondary"} :
                 /\ call.image.controls[w] \in Legal(w)
                 /\ \A c \in Legal(w) : call.image.controls[w] \subseteq c
       /\ call.image.status = "CapabilityMismatch" => none
       /\ call.image.status = "ControlConflict" => none \/ call.policy.eptp # NoEptPointer

\* BuildVmcs02Model: it builds the least legal controls whenever there are any,
\* and what it builds is what the later validity check accepts.
BuildIsExact ==
  /\ BuiltImageIsValid
  /\ LeastLegalControls
=============================================================================
