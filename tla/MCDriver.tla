------------------------------ MODULE MCDriver ------------------------------
(***************************************************************************)
(* The driver towards the guest and towards its clients.  A behaviour is   *)
(* about one part: the exits of one processor, the control device with two *)
(* requests in flight, the negotiation of a lease, or one evaluation of    *)
(* the owner gate.  The parts share no state; those a behaviour is not     *)
(* about stay in one initial state.                                        *)
(***************************************************************************)
EXTENDS ExitDispatch, ControlDevice, Negotiation, OwnerGate, TLC

VARIABLE part

\* Two supervisor components, of which one is in the fixed frame.
MCComponents == {"cet", "lbr"}
MCXsavesMask == {"cet"}

\* Two file object addresses, two requests in flight, a table of two slots.
Interchangeable == Permutations(Files) \cup Permutations(Threads)

\* Four capabilities that decide, and an unset and a set owner generation.
MCFeatures == {"Vmx", "NestedVmx", "WhpPartition", "BootL0"}
MCGenerations == {0, 3}

----------------------------------------------------------------------------
(* The owner gate: all evidence; the WHP probe matters to one owner only. *)
MCObservations ==
  {o \in [cpuid : EvidenceStates, windows : EvidenceStates, vbs : EvidenceStates,
          hvci : EvidenceStates, whp : EvidenceStates, device : EvidenceStates,
          handoff : EvidenceStates, owner : Owners, state : ObservedStates,
          generation : {0, 1}] :
     o.owner = "WhpManaged" \/ o.whp = "Clear"}

ProviderAnswer(open, valid, flags, owner, boot) ==
  [open |-> open, valid |-> valid, flags |-> flags,
   owner_generation |-> owner, boot_generation |-> boot]

MCProviders ==
  {ProviderAnswer(FALSE, FALSE, {}, 0, 0),
   ProviderAnswer(TRUE, FALSE, {"KnhvBootL0Active", "BootHandoffVerified"}, 1, 0)}
  \cup {ProviderAnswer(TRUE, TRUE, f, g, h) :
          f \in SUBSET (OwnerFlags \cup {"BootHandoffVerified"}), g \in {0}, h \in {0, 1}}
  \cup {ProviderAnswer(TRUE, TRUE, {"KnhvBootL0Active", "BootHandoffVerified"}, 1, 0)}

\* Two services stand for the three that are asked alike.
MCServices == {"vmms", "HvHost"}
MCServiceAnswers == {"running", "stopped", "missing"}

Host(cpuid, vbs, hvci, services, whp, provider, rest) ==
  [cpuid |-> cpuid, vbs |-> vbs, hvci |-> hvci, services |-> services, whp |-> whp,
   provider |-> provider, vmx |-> rest, topology |-> rest,
   secure_boot |-> IF rest THEN 1 ELSE 0, dmar |-> IF rest THEN "Yes" ELSE "Unknown"]

MCHosts ==
  {Host(c, v, h, s, w, p, TRUE) :
     c \in {"bare", "hypervisor"}, v \in {-1, 0, 1}, h \in {0, 1},
     s \in [MCServices -> MCServiceAnswers],
     w \in {"present", "absent", "no library"}, p \in MCProviders}
  \cup {Host(c, 0, -1, [s \in MCServices |-> "stopped"], w, p, r) :
          c \in {"no leaf", "bare"}, w \in {"no function", "no answer"},
          p \in MCProviders, r \in BOOLEAN}

----------------------------------------------------------------------------
Init ==
  /\ part \in {"exits", "control", "negotiation", "gate"}
  /\ part # "exits" => xstate = "fxsave" /\ pcide = FALSE
  /\ part # "negotiation" => platform = CHOOSE s \in Snapshots : s.features = {}
  /\ DispatchInit
  /\ ControlInit
  /\ NegotiationInit
  /\ OwnerGateInit

Next ==
  \/ part = "exits" /\ DispatchNext
     /\ UNCHANGED <<part, controlVars, negotiationVars, evaluation>>
  \/ part = "control" /\ ControlNext
     /\ UNCHANGED <<part, dispatchVars, negotiationVars, evaluation>>
  \/ part = "negotiation" /\ NegotiationNext
     /\ UNCHANGED <<part, dispatchVars, controlVars, evaluation>>
  \/ part = "gate" /\ OwnerGateNext
     /\ UNCHANGED <<part, dispatchVars, controlVars, negotiationVars>>

Spec ==
  /\ Init
  /\ [][Next]_<<part, dispatchVars, controlVars, negotiationVars, evaluation>>
=============================================================================
