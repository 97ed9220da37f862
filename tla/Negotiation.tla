----------------------------- MODULE Negotiation -----------------------------
(***************************************************************************)
(* A client negotiates with a platform whose owner changes: the platform   *)
(* is probed again into another capability snapshot while the client holds *)
(* the lease it got from an earlier one.  The client asks both ABI         *)
(* versions.  The rules are those of Provider.                             *)
(***************************************************************************)
EXTENDS Provider

CONSTANTS
    Features,           \* the capabilities a probe may report
    Generations         \* owner generations; 0 is an unset one

ASSUME FeaturesAssumption == Features \subseteq KnownCapabilities

VARIABLES
    platform,           \* HvCapabilitySnapshot of the last probe
    offer,              \* the last version 1 answer: status and provider
    held                \* the HvOwnerLeaseV2 the client holds

negotiationVars == <<platform, offer, held>>

SnapshotRecords == [features : SUBSET Features, flags : SUBSET KnownStatusFlags,
                    owner_generation : Generations, boot_generation : {0},
                    e_vmcs_version : {0}]

Snapshots == {s \in SnapshotRecords : SnapshotIsValid(s)}

V1Requests == [mode : Modes, identity_verified : BOOLEAN,
               legacy_manifest_match : BOOLEAN,
               requested_features : {{}, {"NestedVmx"}}]

V2Requests == [session : {[client_id |-> 7, generation |-> 6]},
               mode : LeaseModes \ {"None"}, flags : SUBSET RequestFlags,
               hardware : {{}, {"Vmx"}}, provider : {{}}, policy : {{}}]

NegotiationTypeOK ==
    /\ platform \in SnapshotRecords /\ SnapshotIsValid(platform)
    /\ offer.provider \in ProviderKinds
    /\ held.mode \in LeaseModes /\ held.flags \subseteq LeaseFlags

NegotiationInit ==
    /\ platform \in Snapshots
    /\ offer = Refuse("UnsupportedMode")
    /\ held = NoLease

\* The platform is probed again and anything about it may have changed.
Probe(found) ==
    /\ platform' = found
    /\ offer' = Refuse("UnsupportedMode")
    /\ UNCHANGED held

Ask(request) ==
    /\ held = NoLease
    /\ offer' = SelectProvider(request, platform)
    /\ UNCHANGED <<platform, held>>

Acquire(request) ==
    /\ held = NoLease
    /\ held' = SelectProviderV2(request, MakeCapabilitySnapshotV2(platform)).lease
    /\ UNCHANGED <<platform, offer>>

NegotiationNext ==
    \/ held # NoLease /\ \E found \in Snapshots : Probe(found)
    \/ \E request \in V1Requests : Ask(request)
    \/ \E request \in V2Requests : Acquire(request)

NegotiationSpec == NegotiationInit /\ [][NegotiationNext]_negotiationVars

-----------------------------------------------------------------------------
(* Properties *)

MinimalRequest(mode) ==
    [session |-> [client_id |-> 7, generation |-> 6], mode |-> mode,
     flags |-> {}, hardware |-> {}, provider |-> {}, policy |-> {}]

GrantableModes ==
    {mode \in LeaseModes \ {"None"} :
        SelectProviderV2(MinimalRequest(mode),
                         MakeCapabilitySnapshotV2(platform)).status = "Success"}

\* Whatever combination of owner flags a probe reports, a platform grants leases
\* of one mode at most: hardware, WHP and laboratory leases never coexist
\* (the owner count of MakeCapabilitySnapshotV2 against SelectProviderV2).
OneModePerPlatform == Cardinality(GrantableModes) <= 1

\* The rules that check a held lease (LeaseMatchesCapabilityV2) and the rules
\* that grant one (SelectProviderV2) are written apart and agree: a lease that
\* matches the platform, perhaps after another probe, is one the platform would
\* grant now.
MatchingLeaseWouldBeGranted ==
    LeaseMatchesCapabilityV2(held, MakeCapabilitySnapshotV2(platform))
        => held.mode \in GrantableModes

\* A lease granted on a platform with an owner generation passes the check of a
\* held lease at once, whatever flags were asked for.
GrantMatchesPlatform ==
    [][ (held = NoLease /\ held' # NoLease /\ CapabilityGeneration(platform) # 0)
          => LeaseMatchesCapabilityV2(held', MakeCapabilitySnapshotV2(platform))
      ]_negotiationVars

\* "A hardware lease is returned only for a verified KNHV Boot L0 owner", and
\* version 1 keeps to it as well: under an outer L0 neither version offers a
\* provider that owns the hardware.
HardwareNeedsVerifiedOwner ==
    /\ offer.provider \in {"BootL0Interposer", "NativeExclusiveBaseline"}
           => "OuterL0Active" \notin platform.flags /\ "NativeVmxReady" \in platform.flags
    /\ "HardwareL0" \in GrantableModes
           => /\ {"KnhvBootL0Active", "BootHandoffVerified"} \subseteq platform.flags
              /\ platform.flags \cap {"OuterL0Active", "SyntheticSnapshot"} = {}

\* provider_v2.cpp between a capability snapshot and a lease that is
\* matched against a later one: one mode per platform, hardware only for a
\* verified owner, and a lease matches exactly where it would be granted.
LeasesFollowThePlatform ==
  /\ []NegotiationTypeOK
  /\ []OneModePerPlatform
  /\ []MatchingLeaseWouldBeGranted
  /\ []HardwareNeedsVerifiedOwner
  /\ GrantMatchesPlatform
=============================================================================
