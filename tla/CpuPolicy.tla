----------------------------- MODULE CpuPolicy -----------------------------
(***************************************************************************)
(* vmx/cpu_policy_model.cpp: what a guest is shown of CPUID, and which of  *)
(* its MSR accesses are served.  Registers are sets of named bits, except  *)
(* that max, the leaf count of leaves 0 and 80000000, is a number.  Leaves *)
(* are named ("B" is either topology leaf); LeafNumber orders them within  *)
(* their range.                                                            *)
(***************************************************************************)
EXTENDS Integers, Sequences, FiniteSets

CONSTANTS Hosts,          \* leaf -> [max, bits]: CPUID of the processor
          CpuidPolicies,  \* policies the owner can install
          MsrPolicies,
          Msrs,
          Values          \* values a guest writes

Leaves == {"0", "1", "7", "B", "40000000", "80000000", "80000007"}
Basic == {"0", "1", "7", "B"}
LeafNumber == [l \in Leaves |-> CASE l = "1" -> 1 [] l = "7" -> 7 [] l = "B" -> 11
                                  [] l = "80000007" -> 7 [] OTHER -> 0]
NoResult == [max |-> 0, bits |-> {}]

VARIABLES host, cpuidPolicy, guest, msrPolicy, stored, decision

policyVars == <<host, cpuidPolicy, guest, msrPolicy, stored, decision>>

\* rules: a sequence of [leaf, keep], the and-masks of one leaf.
IsCpuidPolicyValid(p) ==
  /\ p.generation # 0 /\ p.max_basic # 0
  /\ ("ExposeHypervisor" \in p.flags) <=> (p.hypervisor_leaf # NoResult)
  /\ \A i \in DOMAIN p.rules : p.rules[i].leaf # "40000000"
  /\ \A i, j \in DOMAIN p.rules : i # j => p.rules[i].leaf # p.rules[j].leaf

Clamp(p, leaf, n) ==
  LET most == IF leaf = "0" THEN p.max_basic ELSE p.max_extended
  IN IF leaf \in {"0", "80000000"} /\ n > most THEN most ELSE n

\* The masks of the leaf's rule; a mask on the leaf count keeps it or clears it.
Masked(p, leaf, r) ==
  LET mine == {i \in DOMAIN p.rules : p.rules[i].leaf = leaf}
  IN IF mine = {} THEN r
     ELSE LET keep == p.rules[CHOOSE i \in mine : TRUE].keep
          IN [max |-> IF "max" \in keep THEN r.max ELSE 0, bits |-> r.bits \cap keep]

LeafOneBits(p, h, bits) ==
  (bits \ {"Vmx", "Hypervisor"})
  \cup (IF "ExposeVmx" \in p.flags /\ "Vmx" \in h.bits THEN {"Vmx"} ELSE {})
  \cup (IF "ExposeHypervisor" \in p.flags THEN {"Hypervisor"} ELSE {})

HypervisorLeaf(p, h) ==
  IF "ExposeHypervisor" \in p.flags THEN p.hypervisor_leaf ELSE NoResult

FilterCpuid(p, leaf, h) ==
  LET beyond == LeafNumber[leaf] > (IF leaf \in Basic THEN p.max_basic ELSE p.max_extended)
      r == Masked(p, leaf, [h EXCEPT !.max = Clamp(p, leaf, h.max)])
  IN IF leaf = "40000000" THEN HypervisorLeaf(p, h)
     ELSE IF beyond THEN NoResult
     ELSE CASE leaf = "1" -> [r EXCEPT !.bits = LeafOneBits(p, h, r.bits)]
            [] leaf = "80000007" /\ "ExposeInvariantTsc" \notin p.flags ->
                 [r EXCEPT !.bits = @ \ {"InvariantTsc"}]
            [] leaf = "B" /\ "PreserveTopology" \notin p.flags -> NoResult
            [] OTHER -> r

----------------------------------------------------------------------------
Faults == {"InjectGeneralProtection", "InjectUndefinedInstruction"}

IsSpecialPassThroughAllowed(p, msr) ==
  /\ "AllowPassThrough" \in p.flags
  /\ CASE msr = "Tsc" -> "AllowTsc" \in p.flags
       [] msr = "Pat" -> "AllowPat" \in p.flags
       [] msr = "Debugctl" -> "AllowDebug" \in p.flags
       [] msr = "Cet" -> "AllowCet" \in p.flags
       [] OTHER -> msr # "Efer"

IsRuleValid(p, r) ==
  /\ r.required \subseteq r.allowed
  /\ r.read \in Faults => r.read_mask = {}
  /\ r.write \in Faults => r.allowed = {} /\ r.required = {}
  /\ "PassThrough" \in {r.read, r.write} => IsSpecialPassThroughAllowed(p, r.msr)

\* Mutant: bits may be forced on that no write is allowed to set.
PolicyWithForcedBits(p) ==
  /\ p.generation # 0
  /\ \A i, j \in DOMAIN p.rules : i # j => p.rules[i].msr # p.rules[j].msr

IsMsrPolicyValid(p) ==
  /\ p.generation # 0
  /\ \A i \in DOMAIN p.rules : IsRuleValid(p, p.rules[i])
  /\ \A i, j \in DOMAIN p.rules : i # j => p.rules[i].msr # p.rules[j].msr

Decide(status, action, value) == [status |-> status, action |-> action, value |-> value]
GeneralProtection == Decide("InjectGeneralProtection", "InjectGeneralProtection", {})

Rules(p, msr) == {i \in DOMAIN p.rules : p.rules[i].msr = msr}

EvaluateMsrAccess(p, msr, write, value) ==
  IF ~IsMsrPolicyValid(p) THEN Decide("InvalidParameter", "InjectGeneralProtection", {})
  ELSE IF Rules(p, msr) = {} THEN GeneralProtection
  ELSE LET r == p.rules[CHOOSE i \in Rules(p, msr) : TRUE]
           action == IF write THEN r.write ELSE r.read
       IN CASE action = "PassThrough" ->
                 IF IsSpecialPassThroughAllowed(p, msr) THEN Decide("Success", action, value)
                 ELSE GeneralProtection
            [] action = "Virtualized" ->
                 IF ~write THEN Decide("Success", action, value \cap r.read_mask)
                 ELSE IF ~(value \subseteq r.allowed) THEN GeneralProtection
                 ELSE Decide("Success", action, (value \cap r.allowed) \cup r.required)
            [] OTHER -> Decide(action, action, {})

----------------------------------------------------------------------------
NoDecision == [status |-> "None", action |-> "None", value |-> {}]

PolicyInit ==
  /\ host \in Hosts /\ cpuidPolicy \in CpuidPolicies /\ guest = [l \in {} |-> NoResult]
  /\ msrPolicy \in MsrPolicies /\ stored = [m \in {} |-> {}] /\ decision = NoDecision

\* The guest runs CPUID; an invalid policy answers nothing.
Cpuid(leaf) ==
  /\ IsCpuidPolicyValid(cpuidPolicy) /\ leaf \notin DOMAIN guest
  /\ guest' = [l \in DOMAIN guest \cup {leaf} |->
                 IF l = leaf THEN FilterCpuid(cpuidPolicy, leaf, host[leaf]) ELSE guest[l]]
  /\ UNCHANGED <<host, cpuidPolicy, msrPolicy, stored, decision>>

\* What a served write leaves in the register is kept by the caller.
WriteMsr(msr, value) ==
  /\ decision' = EvaluateMsrAccess(msrPolicy, msr, TRUE, value)
  /\ stored' = IF decision'.status = "Success"
               THEN [m \in DOMAIN stored \cup {msr} |->
                       IF m = msr THEN decision'.value ELSE stored[m]]
               ELSE stored
  /\ UNCHANGED <<host, cpuidPolicy, guest, msrPolicy>>

ReadMsr(msr) ==
  /\ msr \in DOMAIN stored
  /\ decision' = EvaluateMsrAccess(msrPolicy, msr, FALSE, stored[msr])
  /\ UNCHANGED <<host, cpuidPolicy, guest, msrPolicy, stored>>

PolicyNext ==
  \/ \E leaf \in Leaves : Cpuid(leaf)
  \/ \E msr \in Msrs : ReadMsr(msr) \/ \E value \in Values : WriteMsr(msr, value)

PolicySpec == PolicyInit /\ [][PolicyNext]_policyVars
----------------------------------------------------------------------------
(* FilterCpuid only takes away: apart from the hypervisor's own bit and    *)
(* leaf the guest sees no bit, and no higher leaf count, than the          *)
(* processor reports, whatever flags and rules are combined.               *)
GuestSeesNoMoreThanHost ==
  \A l \in DOMAIN guest \ {"40000000"} :
    /\ guest[l].max <= host[l].max
    /\ guest[l].bits \ {"Hypervisor"} \subseteq host[l].bits

(* The two places a guest looks for a hypervisor agree: the bit of leaf 1  *)
(* is set exactly when leaf 40000000 answers.                              *)
HypervisorLeavesAgree ==
  {"1", "40000000"} \subseteq DOMAIN guest =>
    ("Hypervisor" \in guest["1"].bits <=> guest["40000000"] # NoResult)

(* A guest can save and restore a virtualised register: what it reads from *)
(* a register it wrote is accepted when it writes it back.                 *)
ReadBackIsAccepted ==
  \A msr \in DOMAIN stored :
    LET read == EvaluateMsrAccess(msrPolicy, msr, FALSE, stored[msr])
    IN read.status = "Success" =>
         EvaluateMsrAccess(msrPolicy, msr, TRUE, read.value).status = "Success"

\* FilterCpuid and EvaluateMsrAccess: the guest is shown no more than the host
\* has, one story about the hypervisor, and no MSR value that it could not write
\* back.
PolicyIsConsistent ==
  /\ GuestSeesNoMoreThanHost
  /\ HypervisorLeavesAgree
  /\ ReadBackIsAccepted
=============================================================================
