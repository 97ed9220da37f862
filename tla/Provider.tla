------------------------------ MODULE Provider ------------------------------
(***************************************************************************)
(* Provider negotiation: which mode of virtualization a client may use on  *)
(* a platform that was probed into a capability snapshot                   *)
(* (provider_selection.cpp for ABI version 1, provider_v2.cpp for owner    *)
(* leases).  Bit masks are sets of names; structure sizes and versions are *)
(* left to the callers, which pass well formed structures only.            *)
(***************************************************************************)
EXTENDS Naturals, FiniteSets

KnownCapabilities == {"Vmx", "Ept", "Vpid", "NestedVmx", "EnlightenedVmcs",
                      "VirtualTlbFlush", "WhpPartition", "BootL0", "Iommu",
                      "VirtualApic", "TscContract"}

KnownStatusFlags == {"OuterL0Active", "NativeVmxReady", "BootHandoffVerified",
                     "KnhvBootL0Active", "NestedVmx", "WhpPartition",
                     "SyntheticSnapshot"}

ProviderKinds == {"None", "BootL0Interposer", "CooperativeL1",
                  "KnownLegacyAdapter", "LoadOnly", "ExternalL0Fallback",
                  "WhpClient", "NativeExclusiveBaseline"}

Modes == {"BootL0Interposer", "CooperativeL1", "KnownLegacyCompat", "LoadOnly",
          "ExternalL0Fallback", "NativeExclusiveBaseline", "WhpClient"}

-----------------------------------------------------------------------------
(* Version 1 *)

\* A snapshot is [features, flags, owner_generation, boot_generation,
\* e_vmcs_version].
SnapshotIsValid(caps) ==
    /\ caps.features \subseteq KnownCapabilities
    /\ caps.flags \subseteq KnownStatusFlags
    /\ ~ {"OuterL0Active", "KnhvBootL0Active"} \subseteq caps.flags
    /\ caps.flags \cap {"BootHandoffVerified", "KnhvBootL0Active"} # {}
           => "BootL0" \in caps.features
    /\ caps.flags \cap {"NestedVmx", "SyntheticSnapshot"} # {}
           => "NestedVmx" \in caps.features
    /\ "WhpPartition" \in caps.flags => "WhpPartition" \in caps.features
    /\ "NativeVmxReady" \in caps.flags => "Vmx" \in caps.features
    /\ caps.e_vmcs_version = 0 \/ "EnlightenedVmcs" \in caps.features

Refuse(status) == [status |-> status, provider |-> "None"]
Grant(provider) == [status |-> "Success", provider |-> provider]
GrantLoadOnly == [status |-> "LoadOnly", provider |-> "LoadOnly"]

\* request is [mode, identity_verified, legacy_manifest_match,
\* requested_features].
SelectProvider(request, caps) ==
    LET outer_l0 == "OuterL0Active" \in caps.flags
        native_ready == "NativeVmxReady" \in caps.flags
        knhv_l0 == "KnhvBootL0Active" \in caps.flags
        nested_vmx == "NestedVmx" \in caps.flags /\ "NestedVmx" \in caps.features
        whp_partition == "WhpPartition" \in caps.flags
                            /\ "WhpPartition" \in caps.features
        features_met == request.requested_features \subseteq caps.features
    IN CASE ~ SnapshotIsValid(caps) -> Refuse("InvalidParameter")
         [] request.mode = "BootL0Interposer" ->
              (CASE outer_l0 -> Refuse("HardwareOwnerConflict")
                 [] ~ native_ready -> Refuse("HardwareUnsupported")
                 [] "BootHandoffVerified" \notin caps.flags
                      -> Refuse("BootHandoffFailed")
                 [] ~ features_met -> Refuse("CapabilityMismatch")
                 [] OTHER -> Grant("BootL0Interposer"))
         [] request.mode = "CooperativeL1" ->
              (CASE \/ ~ (knhv_l0 \/ "SyntheticSnapshot" \in caps.flags)
                    \/ ~ nested_vmx
                    \/ ~ request.identity_verified -> Refuse("NestedUnavailable")
                 [] ~ features_met -> Refuse("CapabilityMismatch")
                 [] OTHER -> Grant("CooperativeL1"))
         [] request.mode = "KnownLegacyCompat" ->
              IF knhv_l0 /\ nested_vmx /\ request.legacy_manifest_match
              THEN Grant("KnownLegacyAdapter") ELSE GrantLoadOnly
         [] request.mode = "LoadOnly" -> GrantLoadOnly
         [] request.mode = "ExternalL0Fallback" ->
              IF outer_l0 /\ whp_partition
              THEN Grant("ExternalL0Fallback") ELSE Refuse("UnsupportedMode")
         [] request.mode = "NativeExclusiveBaseline" ->
              IF outer_l0 \/ ~ native_ready
              THEN Refuse("HardwareOwnerConflict")
              ELSE Grant("NativeExclusiveBaseline")
         [] request.mode = "WhpClient" ->
              IF whp_partition THEN Grant("WhpClient")
                               ELSE Refuse("NestedUnavailable")
         [] OTHER -> Refuse("UnsupportedMode")

MakeFallbackCapabilitySnapshot(outer_l0_active, whp_available) ==
    [features |-> {"Vmx"} \cup (IF whp_available THEN {"WhpPartition"} ELSE {}),
     flags |-> (IF outer_l0_active THEN {"OuterL0Active"} ELSE {})
                 \cup (IF whp_available THEN {"WhpPartition"} ELSE {}),
     owner_generation |-> 0, boot_generation |-> 0, e_vmcs_version |-> 0]

-----------------------------------------------------------------------------
(* Version 2: owners and leases *)

V2HardwareFeatures == {"Vmx", "Ept", "Vpid", "Iommu", "VirtualApic",
                       "TscContract"}
V2ProviderFeatures == {"NestedVmx", "EnlightenedVmcs", "VirtualTlbFlush",
                       "WhpPartition", "BootL0"}
KnownPolicyFeatures == {"ExclusiveOwner", "WindowsHandoff", "NoPhysicalDma",
                        "SyntheticOnly"}
OwnerKinds == {"Unknown", "ExternalL0", "KnhvBootL0", "WhpManaged",
               "SyntheticLab"}
ProviderStates == {"Unknown", "Available", "Active", "Conflict", "Blocked",
                   "Quarantined"}
LeaseModes == {"None", "HardwareL0", "WhpManaged", "SyntheticLab"}
RequestFlags == {"RequireExclusive", "ReadOnly"}
LeaseFlags == {"Exclusive", "Synthetic", "ReadOnly"}

CapabilityGeneration(caps) ==
    IF caps.owner_generation # 0 THEN caps.owner_generation
                                 ELSE caps.boot_generation

\* Which owner the status flags name.  Two owners at once are a conflict.
OwnerOf(flags) ==
    LET Owner(kind, state, policy) ==
            [owner_kind |-> kind, state |-> state, policy_features |-> policy]
        owners == flags \cap {"SyntheticSnapshot", "KnhvBootL0Active",
                              "OuterL0Active", "WhpPartition"}
    IN CASE Cardinality(owners) > 1 ->
              Owner("Unknown", "Conflict", {"NoPhysicalDma"})
         [] owners = {"SyntheticSnapshot"} ->
              Owner("SyntheticLab", "Available", {"SyntheticOnly", "NoPhysicalDma"})
         [] owners = {"KnhvBootL0Active"} ->
              Owner("KnhvBootL0",
                    IF "BootHandoffVerified" \in flags THEN "Active" ELSE "Blocked",
                    {"ExclusiveOwner", "WindowsHandoff"})
         [] owners = {"OuterL0Active"} ->
              Owner("ExternalL0", "Conflict", {"NoPhysicalDma"})
         [] owners = {"WhpPartition"} ->
              Owner("WhpManaged", "Available", {"NoPhysicalDma"})
         [] OTHER -> Owner("Unknown", "Blocked", {})

MakeCapabilitySnapshotV2(caps) ==
    LET owner == OwnerOf(caps.flags)
    IN [hardware_features |-> caps.features \cap V2HardwareFeatures,
        provider_features |-> caps.features \cap V2ProviderFeatures,
        policy_features |-> owner.policy_features,
        owner_kind |-> owner.owner_kind,
        state |-> owner.state,
        generation |-> CapabilityGeneration(caps)]

IsCapabilitySnapshotV2Valid(v2) ==
    /\ v2.hardware_features \subseteq V2HardwareFeatures
    /\ v2.provider_features \subseteq V2ProviderFeatures
    /\ v2.policy_features \subseteq KnownPolicyFeatures
    /\ v2.owner_kind \in OwnerKinds
    /\ v2.state \in ProviderStates
    /\ v2.state = "Active" => v2.owner_kind # "Unknown" /\ v2.generation # 0
    /\ v2.owner_kind = "SyntheticLab" =>
           "SyntheticOnly" \in v2.policy_features
             /\ "NestedVmx" \in v2.provider_features
    /\ v2.owner_kind = "KnhvBootL0" =>
           /\ "ExclusiveOwner" \in v2.policy_features
           /\ "BootL0" \in v2.provider_features
           /\ "Vmx" \in v2.hardware_features
    /\ v2.owner_kind = "WhpManaged" => "WhpPartition" \in v2.provider_features

NoLease == [owner_id |-> 0, generation |-> 0, mode |-> "None", flags |-> {}]

IsOwnerLeaseV2Valid(lease) ==
    /\ lease.flags \subseteq LeaseFlags
    /\ lease.mode \in LeaseModes
    /\ IF lease.mode = "None" THEN lease = NoLease
       ELSE /\ lease.owner_id # 0 /\ lease.generation # 0
            /\ lease.mode = "HardwareL0" <=> "Exclusive" \in lease.flags
            /\ lease.mode = "SyntheticLab" <=> "Synthetic" \in lease.flags

\* Mutant: a held hardware lease is checked by owner alone.
LeaseMatchesAnyState(lease, v2) ==
    /\ IsOwnerLeaseV2Valid(lease)
    /\ IsCapabilitySnapshotV2Valid(v2)
    /\ lease.generation = v2.generation
    /\ lease.mode = "HardwareL0" /\ v2.owner_kind = "KnhvBootL0"

LeaseMatchesCapabilityV2(lease, v2) ==
    /\ IsOwnerLeaseV2Valid(lease)
    /\ IsCapabilitySnapshotV2Valid(v2)
    /\ lease.generation = v2.generation
    /\ \/ /\ lease.mode = "HardwareL0" /\ v2.owner_kind = "KnhvBootL0"
          /\ v2.state = "Active" /\ "ExclusiveOwner" \in v2.policy_features
       \/ /\ lease.mode = "WhpManaged" /\ v2.owner_kind = "WhpManaged"
          /\ v2.state \notin {"Conflict", "Blocked"}
       \/ /\ lease.mode = "SyntheticLab" /\ v2.owner_kind = "SyntheticLab"
          /\ "SyntheticOnly" \in v2.policy_features

\* request is [session, mode, flags, hardware, provider, policy]: the session
\* key, the lease mode, the request flags and the required feature sets.
RequestV2Valid(request) ==
    /\ request.flags \subseteq RequestFlags
    /\ request.mode \in LeaseModes \ {"None"}
    /\ request.hardware \subseteq V2HardwareFeatures
    /\ request.provider \subseteq V2ProviderFeatures
    /\ request.policy \subseteq KnownPolicyFeatures

HasRequiredFeatures(request, v2) ==
    /\ request.hardware \subseteq v2.hardware_features
    /\ request.provider \subseteq v2.provider_features
    /\ request.policy \subseteq v2.policy_features

RefuseV2(status) == [status |-> status, provider |-> "None", lease |-> NoLease]

GrantV2(request, v2, provider, marks) ==
    [status |-> "Success", provider |-> provider,
     lease |-> [owner_id |-> request.session.client_id,
                generation |-> v2.generation, mode |-> request.mode,
                flags |-> marks \cup (request.flags \cap {"ReadOnly"})]]

SelectHardwareL0(request, v2) ==
    CASE v2.owner_kind = "ExternalL0" \/ v2.state = "Conflict" ->
           RefuseV2("HardwareOwnerConflict")
      [] v2.owner_kind # "KnhvBootL0" \/ v2.state # "Active" ->
           RefuseV2("NestedUnavailable")
      [] "Vmx" \notin v2.hardware_features -> RefuseV2("HardwareUnsupported")
      [] "RequireExclusive" \in request.flags
           /\ "ExclusiveOwner" \notin v2.policy_features ->
           RefuseV2("HardwareOwnerConflict")
      [] "WindowsHandoff" \notin v2.policy_features ->
           RefuseV2("BootHandoffFailed")
      [] OTHER -> GrantV2(request, v2, "BootL0Interposer", {"Exclusive"})

SelectWhpManaged(request, v2) ==
    IF /\ "WhpPartition" \in v2.provider_features
       /\ v2.owner_kind = "WhpManaged"
       /\ v2.state \in {"Available", "Active"}
    THEN GrantV2(request, v2, "WhpClient", {})
    ELSE RefuseV2("NestedUnavailable")

SelectSyntheticLab(request, v2) ==
    IF /\ v2.owner_kind = "SyntheticLab"
       /\ "NestedVmx" \in v2.provider_features
       /\ "SyntheticOnly" \in v2.policy_features
       /\ v2.state \in {"Available", "Active"}
    THEN GrantV2(request, v2, "CooperativeL1", {"Synthetic"})
    ELSE RefuseV2("NestedUnavailable")

SelectProviderV2(request, v2) ==
    CASE ~ (RequestV2Valid(request) /\ IsCapabilitySnapshotV2Valid(v2)) ->
           RefuseV2("InvalidParameter")
      [] ~ HasRequiredFeatures(request, v2) -> RefuseV2("CapabilityMismatch")
      [] request.session.client_id = 0 \/ request.session.generation = 0 ->
           RefuseV2("InvalidParameter")
      [] request.mode = "HardwareL0" -> SelectHardwareL0(request, v2)
      [] request.mode = "WhpManaged" -> SelectWhpManaged(request, v2)
      [] request.mode = "SyntheticLab" -> SelectSyntheticLab(request, v2)
=============================================================================
