--------------------------- MODULE ControlProofs ---------------------------
(***************************************************************************)
(* Proofs about ControlDevice.tla for every set of file objects, number of *)
(* requests in flight, table size, generation range and length of run.     *)
(*                                                                         *)
(* SessionsArePrivate is inductive.  The step lemmas work slot by slot:    *)
(* Sound says of one slot what SessionsArePrivate says of all of them, and *)
(* a step is shown to keep every slot sound, to keep two sessions from     *)
(* sharing a key, and to keep the count that of the table.                 *)
(*                                                                         *)
(* GateFailsClosed (OwnerGate.tla) is a fact about the gate's answer to    *)
(* one observation or one host; it is proved for every observation and     *)
(* every host whose probes have the ranges of OwnerGateAssumption.         *)
(***************************************************************************)
EXTENDS ControlDevice, OwnerGate, FiniteSetTheorems, TLAPS

-----------------------------------------------------------------------------
(***************************************************************************)
(* The platform the image was loaded on.                                   *)
(***************************************************************************)

\* What the loaded snapshot can say: an owner outside, or the laboratory model, in
\* its first generation.
LEMMA LoadedSnapshot ==
    ASSUME NEW caps,
           \/ caps = MakeFallbackCapabilitySnapshot(FALSE, FALSE)
           \/ \E nested, outer_l0 \in BOOLEAN : caps = LoadedCapabilities(nested, outer_l0)
    PROVE  /\ SnapshotIsValid(caps)
           /\ caps.flags \subseteq {"OuterL0Active", "NestedVmx", "SyntheticSnapshot"}
           /\ "NestedVmx" \in caps.flags <=> "SyntheticSnapshot" \in caps.flags
           /\ "SyntheticSnapshot" \in caps.flags =>
                 caps.owner_generation = 1 /\ caps.boot_generation = 1
<1>1. CASE caps = MakeFallbackCapabilitySnapshot(FALSE, FALSE)
    BY <1>1, Zenon DEF MakeFallbackCapabilitySnapshot, SnapshotIsValid, KnownCapabilities,
       KnownStatusFlags
<1>2. ASSUME NEW nested \in BOOLEAN, NEW outer_l0 \in BOOLEAN,
             caps = LoadedCapabilities(nested, outer_l0)
      PROVE  /\ SnapshotIsValid(caps)
             /\ caps.flags \subseteq {"OuterL0Active", "NestedVmx", "SyntheticSnapshot"}
             /\ "NestedVmx" \in caps.flags <=> "SyntheticSnapshot" \in caps.flags
             /\ "SyntheticSnapshot" \in caps.flags =>
                   caps.owner_generation = 1 /\ caps.boot_generation = 1
    <2>1. /\ caps.features = {"Vmx"} \cup {} \cup
                IF nested THEN {"Ept", "Vpid", "NestedVmx", "VirtualTlbFlush"} ELSE {}
          /\ caps.flags = (IF outer_l0 THEN {"OuterL0Active"} ELSE {}) \cup {} \cup
                IF nested THEN {"NestedVmx", "SyntheticSnapshot"} ELSE {}
          /\ caps.owner_generation = 1 /\ caps.boot_generation = 1 /\ caps.e_vmcs_version = 0
        BY <1>2, Zenon DEF LoadedCapabilities, MakeFallbackCapabilitySnapshot
    <2> QED BY <2>1, Zenon DEF SnapshotIsValid, KnownCapabilities, KnownStatusFlags
<1> QED BY <1>1, <1>2, Zenon

\* On such a platform a version 1 provider is granted by the laboratory model only.
LEMMA GrantIsSynthetic ==
    ASSUME NEW caps, NEW request,
           caps.flags \subseteq {"OuterL0Active", "NestedVmx", "SyntheticSnapshot"},
           "NestedVmx" \in caps.flags <=> "SyntheticSnapshot" \in caps.flags,
           SelectProvider(request, caps).status = "Success"
    PROVE  "SyntheticSnapshot" \in caps.flags
BY Zenon DEF SelectProvider, Refuse, Grant, GrantLoadOnly

\* Where neither the boot hypervisor nor WHP owns the platform, only the laboratory
\* model grants a lease.
LEMMA OnlySyntheticGrants ==
    ASSUME NEW request, NEW v2, request.mode \in LeaseModes,
           v2.owner_kind # "KnhvBootL0", v2.owner_kind # "WhpManaged",
           SelectProviderV2(request, v2).status = "Success"
    PROVE  /\ SelectProviderV2(request, v2) =
                 GrantV2(request, v2, "CooperativeL1", {"Synthetic"})
           /\ request.mode = "SyntheticLab" /\ v2.owner_kind = "SyntheticLab"
<1>1. SelectHardwareL0(request, v2).status # "Success"
    BY Zenon DEF SelectHardwareL0, RefuseV2
<1>2. SelectWhpManaged(request, v2).status # "Success"
    BY Zenon DEF SelectWhpManaged, RefuseV2
<1>3. \A status : RefuseV2(status).status = status
    BY Zenon DEF RefuseV2
<1>4. ~RequestV2Valid(request) \/ request.mode \in {"HardwareL0", "WhpManaged", "SyntheticLab"}
    BY Zenon DEF RequestV2Valid, LeaseModes
<1>5. /\ SelectProviderV2(request, v2) \in
            {RefuseV2("InvalidParameter"), RefuseV2("CapabilityMismatch"),
             SelectHardwareL0(request, v2), SelectWhpManaged(request, v2),
             SelectSyntheticLab(request, v2)}
      /\ request.mode # "SyntheticLab" =>
            SelectProviderV2(request, v2) \in
               {RefuseV2("InvalidParameter"), RefuseV2("CapabilityMismatch"),
                SelectHardwareL0(request, v2), SelectWhpManaged(request, v2)}
    BY <1>4, Zenon DEF SelectProviderV2
<1>6. SelectProviderV2(request, v2) = SelectSyntheticLab(request, v2)
      /\ request.mode = "SyntheticLab"
    BY <1>1, <1>2, <1>3, <1>5, Zenon
<1>7. \/ SelectSyntheticLab(request, v2) = RefuseV2("NestedUnavailable")
      \/ /\ SelectSyntheticLab(request, v2) = GrantV2(request, v2, "CooperativeL1", {"Synthetic"})
         /\ v2.owner_kind = "SyntheticLab"
    BY Zenon DEF SelectSyntheticLab
<1> QED BY <1>3, <1>6, <1>7, Zenon

\* A granted owner lease names the session that asked, is synthetic, and is valid.
LEMMA LeaseIsSynthetic ==
    ASSUME NEW caps, NEW key, NEW mode \in LeaseModes, NEW flags \in SUBSET {"ReadOnly"},
           caps.flags \subseteq {"OuterL0Active", "NestedVmx", "SyntheticSnapshot"},
           "SyntheticSnapshot" \in caps.flags =>
                 caps.owner_generation = 1 /\ caps.boot_generation = 1,
           key.client_id \in Nat \ {0},
           NEW request, NEW response,
           request = [session |-> key, mode |-> mode, flags |-> flags,
                      hardware |-> {}, provider |-> {}, policy |-> {}],
           response = SelectProviderV2(request, MakeCapabilitySnapshotV2(caps)),
           response.status = "Success"
    PROVE  /\ mode = "SyntheticLab" /\ response.lease \in LeaseType
           /\ IsOwnerLeaseV2Valid(response.lease)
           /\ response.lease.owner_id = key.client_id
           /\ response.lease.mode = "SyntheticLab"
<1> DEFINE v2 == MakeCapabilitySnapshotV2(caps)
           lease == response.lease
<1>1. /\ request.session = key /\ request.mode = mode /\ request.flags = flags
    BY Zenon
<1>2. /\ v2.owner_kind = OwnerOf(caps.flags).owner_kind
      /\ v2.generation = CapabilityGeneration(caps)
    BY Zenon DEF MakeCapabilitySnapshotV2
<1>3. /\ OwnerOf(caps.flags).owner_kind \notin {"KnhvBootL0", "WhpManaged"}
      /\ OwnerOf(caps.flags).owner_kind = "SyntheticLab" => "SyntheticSnapshot" \in caps.flags
    BY Zenon DEF OwnerOf
<1>4. /\ v2.owner_kind # "KnhvBootL0" /\ v2.owner_kind # "WhpManaged"
      /\ v2.owner_kind = "SyntheticLab" => v2.generation = 1
    BY <1>2, <1>3, Zenon DEF CapabilityGeneration
<1> HIDE DEF v2, lease
<1>5. /\ response = GrantV2(request, v2, "CooperativeL1", {"Synthetic"})
      /\ mode = "SyntheticLab" /\ v2.generation = 1
    BY <1>1, <1>4, OnlySyntheticGrants, ZenonT(60) DEF v2
<1>6. /\ lease = [owner_id |-> key.client_id, generation |-> 1, mode |-> "SyntheticLab",
                  flags |-> {"Synthetic"} \cup (flags \cap {"ReadOnly"})]
      /\ lease.owner_id = key.client_id /\ lease.generation = 1 /\ lease.mode = "SyntheticLab"
      /\ lease.flags = {"Synthetic"} \cup (flags \cap {"ReadOnly"})
    <2>1. /\ lease = [owner_id |-> request.session.client_id, generation |-> v2.generation,
                      mode |-> request.mode,
                      flags |-> {"Synthetic"} \cup (request.flags \cap {"ReadOnly"})]
          /\ lease.owner_id = request.session.client_id
          /\ lease.generation = v2.generation /\ lease.mode = request.mode
          /\ lease.flags = {"Synthetic"} \cup (request.flags \cap {"ReadOnly"})
        <3>1. lease = GrantV2(request, v2, "CooperativeL1", {"Synthetic"}).lease
            BY <1>5, Zenon DEF lease
        <3> QED BY ONLY <3>1, Zenon DEF GrantV2
    <2>2. request.session.client_id = key.client_id
        BY <1>1, Zenon
    <2> QED BY ONLY <1>1, <1>5, <2>1, <2>2, Zenon
<1>7. {"Synthetic"} \cup (flags \cap {"ReadOnly"}) \in SUBSET LeaseFlags
    BY Zenon DEF LeaseFlags
<1>8. lease \in LeaseType
    BY <1>6, <1>7, Zenon DEF LeaseType, LeaseModes
<1>9. /\ lease.owner_id # 0 /\ lease.generation # 0 /\ lease.mode = "SyntheticLab"
      /\ lease.flags \subseteq LeaseFlags
      /\ "Exclusive" \notin lease.flags /\ "Synthetic" \in lease.flags
    BY <1>6, <1>7
<1>10. IsOwnerLeaseV2Valid(lease)
    BY <1>9, Zenon DEF LeaseModes, IsOwnerLeaseV2Valid
<1> QED BY <1>5, <1>6, <1>8, <1>10, Zenon DEF lease

-----------------------------------------------------------------------------
(***************************************************************************)
(* Slots and requests.                                                     *)
(***************************************************************************)

Replies == [key : Keys, opener : Nat]
Irps == [file : Files \cup {NoFile}, stage : {"idle", "entered", "served"}, reply : Replies]

\* What SessionsArePrivate says of one slot.
Sound(z) ==
    IF z.active
    THEN /\ z.owner_file \in Files /\ z.opener # 0 /\ file[z.owner_file] = z.opener
         /\ z.key \in {KeyOf(c) : c \in 1 .. next_client}
         /\ z.nestedBy \subseteq {z.opener}
         /\ ~ z.virtualization_ready
         /\ z.lease_active => /\ IsOwnerLeaseV2Valid(z.lease)
                              /\ z.lease.owner_id = z.key.client_id
                              /\ z.lease.mode = "SyntheticLab" /\ z.nested_ready
    ELSE z = ZeroSession

\* No two sessions of a file object share a key.
Distinct ==
    \A s, r \in Slots :
        /\ sessions[s].active /\ sessions[r].active
        /\ sessions[s].key = sessions[r].key
        /\ sessions[s].owner_file = sessions[r].owner_file
        => s = r

\* A key that was handed out can be looked up: FindSession refuses zero fields.
LEMMA KeyFacts ==
    \A c : KeyOf(c).client_id = c /\ KeyOf(c).generation # 0
BY DEF KeyOf, SessionGeneration

\* The keys that can be named only grow while the driver is loaded.
LEMMA KeysGrow ==
    ASSUME next_client \in Nat, next_client' \in Nat, next_client <= next_client'
    PROVE  /\ Keys \subseteq Keys'
           /\ {KeyOf(c) : c \in 1 .. next_client} \subseteq {KeyOf(c) : c \in 1 .. next_client'}
BY DEF Keys

\* A blank slot, field by field.
LEMMA ZeroFacts ==
    /\ ~ZeroSession.active /\ ~ZeroSession.virtualization_ready /\ ~ZeroSession.lease_active
    /\ ZeroSession.nestedBy = {} /\ ZeroSession \in SessionType
    /\ NoIrp.stage = "idle" /\ NoIrp.reply = NoReply /\ NoIrp.file = NoFile /\ NoIrp \in Irps
    /\ NoReply \in Replies
<1>1. /\ ~ZeroSession.active /\ ~ZeroSession.virtualization_ready /\ ~ZeroSession.lease_active
      /\ ZeroSession.nestedBy = {}
    BY Zenon DEF ZeroSession
<1>2. NoKey \in Keys
    BY Zenon DEF Keys
<1>3. NoLease \in LeaseType
    BY Zenon DEF NoLease, LeaseType, LeaseModes
<1>4. ZeroSession \in SessionType
    BY <1>2, <1>3, Zenon DEF ZeroSession, SessionType
<1>5. NoReply \in Replies
    BY <1>2, Zenon DEF NoReply, Replies
<1>6. NoIrp.stage = "idle" /\ NoIrp.reply = NoReply /\ NoIrp.file = NoFile /\ NoIrp \in Irps
    BY <1>5, Zenon DEF NoIrp, Irps
<1> QED BY <1>1, <1>4, <1>5, <1>6, Zenon

\* SessionsArePrivate says that slots are sound, sessions distinct, and the rest.
LEMMA SlotwiseThen ==
    ASSUME SessionsArePrivate
    PROVE  /\ ControlTypeOK /\ SnapshotIsLoaded /\ RequestsHoldTheirFile /\ RepliesAreOwn
           /\ CountIsTableSize /\ Distinct
           /\ \A s \in Slots : Sound(sessions[s])
<1>1. /\ ControlTypeOK /\ SnapshotIsLoaded /\ RequestsHoldTheirFile /\ RepliesAreOwn
      /\ CountIsTableSize
    BY Zenon DEF SessionsArePrivate
<1>2. Distinct
    <2> SUFFICES ASSUME NEW s \in Slots, NEW r \in Slots,
                        sessions[s].active, sessions[r].active,
                        sessions[s].key = sessions[r].key,
                        sessions[s].owner_file = sessions[r].owner_file
                 PROVE  s = r
        BY Zenon DEF Distinct
    <2>1. FindSession(sessions[s].key, sessions[s].owner_file) = {s}
          /\ FindSession(sessions[r].key, sessions[r].owner_file) = {r}
        BY Zenon DEF SessionsArePrivate, EverySessionIsFound
    <2> QED BY <2>1
<1>3. ASSUME NEW s \in Slots PROVE Sound(sessions[s])
    <2>1. CASE sessions[s].active
        BY <2>1, Zenon
           DEF SessionsArePrivate, SlotsAreBlankOrFilled, SessionsDieWithTheirOpen,
           LeasesAreReturnable, NestedStateIsPrivate, Sound
    <2>2. CASE ~sessions[s].active
        BY <2>2, Zenon DEF SessionsArePrivate, SlotsAreBlankOrFilled, Sound
    <2> QED BY <2>1, <2>2, Zenon
<1> QED BY <1>1, <1>2, <1>3, Zenon

\* The other way round, after a step.
LEMMA SlotwiseIs ==
    ASSUME ControlTypeOK', SnapshotIsLoaded', RequestsHoldTheirFile', RepliesAreOwn',
           CountIsTableSize', Distinct', \A s \in Slots : Sound(sessions[s])'
    PROVE  SessionsArePrivate'
<1>1. SlotsAreBlankOrFilled' /\ SessionsDieWithTheirOpen'
    BY Zenon DEF Sound, SlotsAreBlankOrFilled, SessionsDieWithTheirOpen
<1>2. LeasesAreReturnable'
    BY ZeroFacts, Zenon DEF Sound, LeasesAreReturnable
<1>3. NestedStateIsPrivate'
    BY ZeroFacts, Zenon DEF Sound, NestedStateIsPrivate
<1>4. EverySessionIsFound'
    <2> SUFFICES ASSUME NEW s \in Slots, sessions'[s].active
                 PROVE  FindSession(sessions[s].key, sessions[s].owner_file)' = {s}
        BY Zenon DEF EverySessionIsFound
    <2>1. PICK c \in 1 .. next_client' : sessions'[s].key = KeyOf(c)
        BY Zenon DEF Sound
    <2>2. sessions'[s].key.client_id # 0 /\ sessions'[s].key.generation # 0
        BY <2>1, KeyFacts
    <2>3. \A r \in Slots : /\ sessions'[r].active
                           /\ sessions'[r].owner_file = sessions'[s].owner_file
                           /\ sessions'[r].key = sessions'[s].key
                           => r = s
        BY Zenon DEF Distinct
    <2> QED BY <2>2, <2>3, Zenon DEF FindSession
<1> QED BY <1>1, <1>2, <1>3, <1>4, Zenon DEF SessionsArePrivate

\* Writing a reply: the request keeps its file object, and what it says is about the
\* open that asks.
LEMMA ReplyKeeps ==
    ASSUME ControlTypeOK, RequestsHoldTheirFile, RepliesAreOwn,
           UNCHANGED <<device, file, opens>>,
           next_client' \in Nat, next_client <= next_client',
           NEW t \in Threads, Entered(t), NEW reply \in Replies', Reply(t, reply),
           reply = NoReply \/ reply.opener = file[irp[t].file]
    PROVE  irp' \in [Threads -> Irps'] /\ RequestsHoldTheirFile' /\ RepliesAreOwn'
<1>1. Keys \subseteq Keys'
    BY KeysGrow DEF ControlTypeOK
<1>2. irp \in [Threads -> Irps]
    BY Zenon DEF ControlTypeOK, Irps, Replies
<1>3. Irps \subseteq Irps'
    BY <1>1, Zenon DEF Irps, Replies
<1>4. /\ irp'[t].file = irp[t].file /\ irp'[t].stage = "served" /\ irp'[t].reply = reply
      /\ \A u \in Threads \ {t} : irp'[u] = irp[u]
    BY <1>2, Zenon DEF Reply, Irps
<1>5. irp' \in [Threads -> Irps']
    <2>1. irp'[t] \in Irps'
        BY <1>2, <1>3, ZenonT(60) DEF Reply, Irps
    <2> QED BY <1>2, <1>3, <1>4, <2>1, Zenon DEF Reply
<1>6. irp[t].file \in Files /\ file[irp[t].file] # 0
    BY Zenon DEF RequestsHoldTheirFile, Entered
<1>7. RequestsHoldTheirFile'
    BY <1>4, <1>6 DEF RequestsHoldTheirFile
<1>8. RepliesAreOwn'
    BY <1>4, Zenon DEF RepliesAreOwn
<1> QED BY <1>5, <1>7, <1>8, Zenon

\* A step that leaves alone which slots are in use, and whose they are, keeps the
\* count and keeps sessions distinct.
LEMMA TableKept ==
    ASSUME CountIsTableSize, Distinct, UNCHANGED active_sessions,
           \A s \in Slots : /\ sessions'[s].active = sessions[s].active
                            /\ sessions'[s].key = sessions[s].key
                            /\ sessions'[s].owner_file = sessions[s].owner_file
    PROVE  CountIsTableSize' /\ Distinct'
<1>1. {s \in Slots : sessions'[s].active} = {s \in Slots : sessions[s].active}
    BY Zenon
<1>2. CountIsTableSize'
    BY <1>1, Zenon DEF CountIsTableSize
<1>3. Distinct'
    BY DEF Distinct
<1> QED BY <1>2, <1>3, Zenon

\* A slot that a step leaves alone stays sound while files and keys stay.
LEMMA SoundStays ==
    ASSUME ControlTypeOK, UNCHANGED file, next_client' \in Nat, next_client <= next_client',
           NEW z, Sound(z)
    PROVE  Sound(z)'
BY KeysGrow DEF Sound, ControlTypeOK

\* A handler that changes at most what sessions hold keeps them private.
LEMMA HandlerKeeps ==
    ASSUME SessionsArePrivate, NEW t \in Threads, Entered(t), NEW reply \in Replies,
           Reply(t, reply), reply = NoReply \/ reply.opener = file[irp[t].file],
           UNCHANGED <<loadVars, file, opens, active_sessions, next_client>>,
           sessions' \in [Slots -> SessionType],
           \A s \in Slots : /\ Sound(sessions'[s])
                            /\ sessions'[s].active = sessions[s].active
                            /\ sessions'[s].key = sessions[s].key
                            /\ sessions'[s].owner_file = sessions[s].owner_file
    PROVE  SessionsArePrivate'
<1>1. /\ ControlTypeOK /\ SnapshotIsLoaded /\ RequestsHoldTheirFile /\ RepliesAreOwn
      /\ CountIsTableSize /\ Distinct
    BY SlotwiseThen, Zenon
<1>2. next_client \in Nat /\ next_client' = next_client
    BY <1>1 DEF ControlTypeOK
<1>3. Keys' = Keys /\ SessionType' = SessionType /\ Replies' = Replies
    BY <1>2, Zenon DEF Keys, SessionType, Replies
<1>4. irp' \in [Threads -> Irps'] /\ RequestsHoldTheirFile' /\ RepliesAreOwn'
    BY <1>1, <1>2, <1>3, ReplyKeeps DEF loadVars
<1>5. ControlTypeOK'
    BY <1>1, <1>3, <1>4, Zenon DEF ControlTypeOK, Irps, Replies, loadVars
<1>6. SnapshotIsLoaded'
    BY <1>1, Zenon DEF SnapshotIsLoaded, loadVars
<1>7. CountIsTableSize' /\ Distinct'
    BY <1>1, TableKept, Zenon
<1>8. \A s \in Slots : Sound(sessions[s])'
    BY <1>2, Zenon DEF Sound
<1> QED BY <1>4, <1>5, <1>6, <1>7, <1>8, SlotwiseIs, Zenon

\* A request that is refused, and a query, change nothing and answer about the
\* asking open.
LEMMA QueryKeeps ==
    ASSUME SessionsArePrivate, NEW t \in Threads,
           RefuseInput(t) \/ \E key \in Keys : HandleQuerySession(t, key)
    PROVE  SessionsArePrivate'
<1>1. /\ ControlTypeOK /\ RequestsHoldTheirFile
      /\ \A s \in Slots : Sound(sessions[s])
    BY SlotwiseThen, Zenon
<1>2. /\ Entered(t) /\ UNCHANGED <<loadVars, file, opens, active_sessions, next_client>>
      /\ UNCHANGED sessions
    BY Zenon DEF RefuseInput, HandleQuerySession, tableVars
<1>3. \E reply \in Replies : /\ Reply(t, reply)
                             /\ reply = NoReply \/ reply.opener = file[irp[t].file]
    <2>1. CASE RefuseInput(t)
        BY <2>1, ZeroFacts, Zenon DEF RefuseInput
    <2>2. ASSUME NEW key \in Keys, HandleQuerySession(t, key)
          PROVE  \E reply \in Replies : /\ Reply(t, reply)
                                        /\ reply = NoReply \/ reply.opener = file[irp[t].file]
        <3>1. CASE Reply(t, NoReply)
            BY <3>1, ZeroFacts, Zenon
        <3>2. ASSUME NEW s \in FindSession(key, irp[t].file),
                     Reply(t, [key |-> sessions[s].key, opener |-> sessions[s].opener])
              PROVE  \E reply \in Replies :
                        /\ Reply(t, reply)
                        /\ reply = NoReply \/ reply.opener = file[irp[t].file]
            <4> DEFINE reply == [key |-> sessions[s].key, opener |-> sessions[s].opener]
            <4>1. s \in Slots /\ sessions[s].active /\ sessions[s].owner_file = irp[t].file
                BY <3>2, Zenon DEF FindSession
            <4>2. sessions[s] \in SessionType
                BY <1>1, <4>1, Zenon DEF ControlTypeOK
            <4>3. reply \in Replies
                BY <4>2, Zenon DEF SessionType, Replies
            <4>4. reply.opener = file[irp[t].file]
                BY <1>1, <4>1, Zenon DEF Sound
            <4> QED BY <3>2, <4>3, <4>4, Zenon
        <3> QED BY <2>2, <3>1, <3>2, Zenon DEF HandleQuerySession
    <2> QED BY <2>1, <2>2, Zenon
<1>4. sessions' \in [Slots -> SessionType]
    BY <1>1, <1>2, Zenon DEF ControlTypeOK
<1> QED BY <1>1, <1>2, <1>3, <1>4, HandlerKeeps, Zenon

\* HandleAcquireLeaseV2 grants a session its own synthetic lease or nothing.
LEMMA AcquireKeeps ==
    ASSUME SessionsArePrivate, NEW t \in Threads, NEW key \in Keys,
           NEW mode \in LeaseModes, NEW flags \in SUBSET {"ReadOnly"},
           HandleAcquireLeaseV2(t, key, mode, flags)
    PROVE  SessionsArePrivate'
<1> DEFINE request == [session |-> key, mode |-> mode, flags |-> flags,
                       hardware |-> {}, provider |-> {}, policy |-> {}]
           response == SelectProviderV2(request, MakeCapabilitySnapshotV2(capabilities))
           granted(s) == s \in FindSession(key, irp[t].file) /\ LeaseIsGranted(s, request, response)
<1>1. /\ ControlTypeOK /\ SnapshotIsLoaded /\ \A s \in Slots : Sound(sessions[s])
    BY SlotwiseThen, Zenon
<1>2. /\ Entered(t) /\ Reply(t, NoReply)
      /\ UNCHANGED <<loadVars, file, opens, active_sessions, next_client>>
      /\ sessions' = [s \in Slots |->
            IF granted(s)
            THEN [sessions[s] EXCEPT !.lease = response.lease, !.lease_active = TRUE]
            ELSE sessions[s]]
    BY Zenon DEF HandleAcquireLeaseV2
<1>3. ASSUME NEW s \in Slots, granted(s)
      PROVE  /\ mode = "SyntheticLab" /\ response.lease \in LeaseType
             /\ IsOwnerLeaseV2Valid(response.lease)
             /\ response.lease.owner_id = sessions[s].key.client_id
             /\ response.lease.mode = "SyntheticLab" /\ sessions[s].nested_ready
    <2>1. /\ sessions[s].active /\ sessions[s].key = key /\ response.status = "Success"
          /\ mode = "SyntheticLab" => sessions[s].nested_ready
        BY <1>3, Zenon DEF FindSession, LeaseIsGranted
    <2>2. key.client_id \in Nat \ {0}
        <3>1. PICK c \in 1 .. next_client : key = KeyOf(c)
            BY <1>1, <2>1, Zenon DEF Sound
        <3> QED BY <3>1, KeyFacts, <1>1 DEF ControlTypeOK
    <2> HIDE DEF request, response
    <2>3. request = [session |-> key, mode |-> mode, flags |-> flags,
                     hardware |-> {}, provider |-> {}, policy |-> {}]
          /\ response = SelectProviderV2(request, MakeCapabilitySnapshotV2(capabilities))
        BY Zenon DEF request, response
    <2>4. /\ mode = "SyntheticLab" /\ response.lease \in LeaseType
          /\ IsOwnerLeaseV2Valid(response.lease)
          /\ response.lease.owner_id = key.client_id
          /\ response.lease.mode = "SyntheticLab"
        <3>1. /\ capabilities.flags \subseteq {"OuterL0Active", "NestedVmx", "SyntheticSnapshot"}
              /\ "SyntheticSnapshot" \in capabilities.flags =>
                    capabilities.owner_generation = 1 /\ capabilities.boot_generation = 1
            BY <1>1, LoadedSnapshot, Zenon DEF SnapshotIsLoaded
        <3> QED BY <2>1, <2>2, <2>3, <3>1, LeaseIsSynthetic
    <2> QED BY <2>1, <2>4, Zenon
<1> HIDE DEF granted, response
<1>4. ASSUME NEW s \in Slots
      PROVE  /\ sessions'[s] \in SessionType /\ Sound(sessions'[s])
             /\ sessions'[s].active = sessions[s].active
             /\ sessions'[s].key = sessions[s].key
             /\ sessions'[s].owner_file = sessions[s].owner_file
    <2>1. sessions[s] \in SessionType /\ Sound(sessions[s])
        BY <1>1, Zenon DEF ControlTypeOK
    <2>2. CASE granted(s)
        <3>1. sessions'[s] = [sessions[s] EXCEPT !.lease = response.lease, !.lease_active = TRUE]
            BY <1>2, <2>2, Zenon
        <3>2. /\ sessions'[s] \in SessionType
              /\ sessions'[s].active = sessions[s].active
              /\ sessions'[s].key = sessions[s].key
              /\ sessions'[s].owner_file = sessions[s].owner_file
              /\ sessions'[s].opener = sessions[s].opener
              /\ sessions'[s].nestedBy = sessions[s].nestedBy
              /\ sessions'[s].nested_ready = sessions[s].nested_ready
              /\ sessions'[s].virtualization_ready = sessions[s].virtualization_ready
              /\ sessions'[s].lease = response.lease
            BY ONLY <2>1, <3>1, <1>3, <2>2, Zenon DEF SessionType
        <3>3. sessions[s].active
            BY <2>2, Zenon DEF granted, FindSession
        <3>4. Sound(sessions'[s])
            BY <2>1, <2>2, <3>2, <3>3, <1>3 DEF Sound
        <3> QED BY <3>2, <3>4, Zenon
    <2>3. CASE ~granted(s)
        BY <1>2, <2>1, <2>3, Zenon
    <2> QED BY <2>2, <2>3, Zenon
<1>5. sessions' \in [Slots -> SessionType]
    BY <1>2, <1>4, Zenon
<1> QED BY <1>2, <1>4, <1>5, ZeroFacts, HandlerKeeps, Zenon

\* HandleReleaseLeaseV2 takes back the session's lease or nothing.
LEMMA GiveBackKeeps ==
    ASSUME SessionsArePrivate, NEW t \in Threads, NEW key \in Keys, NEW lease,
           HandleReleaseLeaseV2(t, key, lease)
    PROVE  SessionsArePrivate'
<1> DEFINE held(s) == /\ IsOwnerLeaseV2Valid(lease) /\ lease.mode # "None"
                      /\ s \in FindSession(key, irp[t].file)
                      /\ sessions[s].lease_active /\ sessions[s].lease = lease
<1>1. /\ ControlTypeOK /\ \A s \in Slots : Sound(sessions[s])
    BY SlotwiseThen, Zenon
<1>2. /\ Entered(t) /\ Reply(t, NoReply)
      /\ UNCHANGED <<loadVars, file, opens, active_sessions, next_client>>
      /\ sessions' = [s \in Slots |->
            IF held(s)
            THEN [sessions[s] EXCEPT !.lease = NoLease, !.lease_active = FALSE]
            ELSE sessions[s]]
    BY Zenon DEF HandleReleaseLeaseV2
<1>3. ASSUME NEW s \in Slots, held(s) PROVE sessions[s].active
    BY <1>3, Zenon DEF FindSession
<1>4. NoLease \in LeaseType
    BY Zenon DEF NoLease, LeaseType, LeaseModes
<1> HIDE DEF held
<1>5. ASSUME NEW s \in Slots
      PROVE  /\ sessions'[s] \in SessionType /\ Sound(sessions'[s])
             /\ sessions'[s].active = sessions[s].active
             /\ sessions'[s].key = sessions[s].key
             /\ sessions'[s].owner_file = sessions[s].owner_file
    <2>1. sessions[s] \in SessionType /\ Sound(sessions[s])
        BY <1>1, Zenon DEF ControlTypeOK
    <2>2. CASE held(s)
        <3>1. sessions'[s] = [sessions[s] EXCEPT !.lease = NoLease, !.lease_active = FALSE]
            BY <1>2, <2>2, Zenon
        <3>2. /\ sessions'[s] \in SessionType
              /\ sessions'[s].active = sessions[s].active
              /\ sessions'[s].key = sessions[s].key
              /\ sessions'[s].owner_file = sessions[s].owner_file
              /\ sessions'[s].opener = sessions[s].opener
              /\ sessions'[s].nestedBy = sessions[s].nestedBy
              /\ sessions'[s].virtualization_ready = sessions[s].virtualization_ready
              /\ ~sessions'[s].lease_active
            BY ONLY <2>1, <3>1, <1>4, Zenon DEF SessionType
        <3>3. Sound(sessions'[s])
            BY <2>1, <2>2, <3>2, <1>3, Zenon DEF Sound
        <3> QED BY <3>2, <3>3, Zenon
    <2>3. CASE ~held(s)
        BY <1>2, <2>1, <2>3, Zenon
    <2> QED BY <2>2, <2>3, Zenon
<1>6. sessions' \in [Slots -> SessionType]
    BY <1>2, <1>5, Zenon
<1> QED BY <1>2, <1>5, <1>6, ZeroFacts, HandlerKeeps, Zenon

\* HandleNestedInstruction and HandleReflectExit run the nested processor of the
\* open's own session.
LEMMA NestedKeeps ==
    ASSUME SessionsArePrivate, NEW t \in Threads, NEW key \in Keys, UseNested(t, key)
    PROVE  SessionsArePrivate'
<1> DEFINE used(s) == s \in FindSession(key, irp[t].file) /\ sessions[s].nested_ready
           caller == file[irp[t].file]
<1>1. /\ ControlTypeOK /\ \A s \in Slots : Sound(sessions[s])
    BY SlotwiseThen, Zenon
<1>2. /\ Entered(t) /\ Reply(t, NoReply)
      /\ UNCHANGED <<loadVars, file, opens, active_sessions, next_client>>
      /\ sessions' = [s \in Slots |->
            IF used(s) THEN [sessions[s] EXCEPT !.nestedBy = @ \cup {caller}] ELSE sessions[s]]
    BY Zenon DEF UseNested
<1>3. ASSUME NEW s \in Slots, used(s)
      PROVE  sessions[s].active /\ caller = sessions[s].opener
    BY <1>1, <1>3, Zenon DEF FindSession, Sound
<1> HIDE DEF used, caller
<1>4. ASSUME NEW s \in Slots
      PROVE  /\ sessions'[s] \in SessionType /\ Sound(sessions'[s])
             /\ sessions'[s].active = sessions[s].active
             /\ sessions'[s].key = sessions[s].key
             /\ sessions'[s].owner_file = sessions[s].owner_file
    <2>1. sessions[s] \in SessionType /\ Sound(sessions[s])
        BY <1>1, Zenon DEF ControlTypeOK
    <2>2. CASE used(s)
        <3>1. sessions'[s] = [sessions[s] EXCEPT !.nestedBy = sessions[s].nestedBy \cup {caller}]
            BY <1>2, <2>2, Zenon
        <3>2. caller = sessions[s].opener /\ sessions[s].active
            BY <1>3, <2>2, Zenon
        <3>5. sessions[s].nestedBy \cup {caller} \in SUBSET Nat
            BY <2>1, <3>2, Zenon DEF SessionType
        <3>3. /\ sessions'[s] \in SessionType
              /\ sessions'[s].active = sessions[s].active
              /\ sessions'[s].key = sessions[s].key
              /\ sessions'[s].owner_file = sessions[s].owner_file
              /\ sessions'[s].opener = sessions[s].opener
              /\ sessions'[s].nestedBy = sessions[s].nestedBy \cup {sessions[s].opener}
              /\ sessions'[s].nested_ready = sessions[s].nested_ready
              /\ sessions'[s].virtualization_ready = sessions[s].virtualization_ready
              /\ sessions'[s].lease_active = sessions[s].lease_active
              /\ sessions'[s].lease = sessions[s].lease
            BY ONLY <2>1, <3>1, <3>2, <3>5, ZenonT(60) DEF SessionType
        <3>4. Sound(sessions'[s])
            BY <2>1, <3>2, <3>3, Zenon DEF Sound
        <3> QED BY <3>3, <3>4, Zenon
    <2>3. CASE ~used(s)
        BY <1>2, <2>1, <2>3, Zenon
    <2> QED BY <2>2, <2>3, Zenon
<1>5. sessions' \in [Slots -> SessionType]
    BY <1>2, <1>4, Zenon
<1> QED BY <1>2, <1>4, <1>5, ZeroFacts, HandlerKeeps, Zenon

\* A set of slots is finite and no larger than the table.
LEMMA SlotSets ==
    ASSUME NEW S \in SUBSET Slots
    PROVE  IsFiniteSet(S) /\ Cardinality(S) \in 0 .. MaxSessions
<1>1. IsFiniteSet(Slots) /\ Cardinality(Slots) = MaxSessions
    BY ControlAssumption, FS_Interval DEF Slots
<1>2. IsFiniteSet(S) /\ Cardinality(S) \in Nat /\ Cardinality(S) <= MaxSessions
    BY <1>1, FS_Subset, FS_CardinalityType, Zenon
<1> QED BY <1>2, ControlAssumption

\* FillSession makes a sound session of the asking open, under the key it is given.
LEMMA FilledFacts ==
    ASSUME ControlTypeOK, SnapshotIsLoaded, NEW f \in Files, file[f] # 0,
           NEW client_id \in Nat, NEW request, NEW choice,
           choice = SelectProvider(request, capabilities),
           NEW z, z = FillSession(f, client_id, choice)
    PROVE  /\ z.active /\ z.owner_file = f /\ z.key = KeyOf(client_id) /\ z.opener = file[f]
           /\ z.nestedBy = {} /\ z.lease = NoLease /\ ~z.lease_active
           /\ ~z.virtualization_ready
           /\ z \in [active : BOOLEAN, nested_ready : BOOLEAN, owner_file : Files \cup {NoFile},
                     key : {KeyOf(client_id)}, virtualization_ready : BOOLEAN,
                     lease : LeaseType, lease_active : BOOLEAN, opener : Nat,
                     nestedBy : SUBSET Nat]
<1> DEFINE ready == /\ choice.status = "Success" /\ choice.provider # "LoadOnly"
                    /\ "SyntheticSnapshot" \notin capabilities.flags
           nested == nested_test_driver /\ choice.status = "Success"
<1>1. ready = FALSE
    <2>1. /\ capabilities.flags \subseteq {"OuterL0Active", "NestedVmx", "SyntheticSnapshot"}
          /\ "NestedVmx" \in capabilities.flags <=> "SyntheticSnapshot" \in capabilities.flags
        BY LoadedSnapshot, Zenon DEF SnapshotIsLoaded
    <2> QED BY <2>1, GrantIsSynthetic, Zenon
<1>2. nested \in BOOLEAN
    BY Zenon
<1> HIDE DEF ready, nested
<1>3. z = [ZeroSession EXCEPT
             !.active = TRUE, !.owner_file = f, !.key = KeyOf(client_id),
             !.virtualization_ready = ready, !.nested_ready = nested, !.opener = file[f]]
    BY Zenon DEF FillSession, ready, nested
<1>4. z = [active |-> TRUE, nested_ready |-> nested, owner_file |-> f,
           key |-> KeyOf(client_id), virtualization_ready |-> FALSE,
           lease |-> NoLease, lease_active |-> FALSE, opener |-> file[f], nestedBy |-> {}]
    BY ONLY <1>1, <1>3, Zenon DEF ZeroSession
<1>5. NoLease \in LeaseType /\ file[f] \in Nat
    BY DEF NoLease, LeaseType, LeaseModes, ControlTypeOK
<1> QED BY ONLY <1>2, <1>4, <1>5, f \in Files, Zenon

\* HandleRegisterClient fills a free slot under a key nobody has, or changes nothing.
LEMMA RegisterKeeps ==
    ASSUME SessionsArePrivate, NEW t \in Threads, NEW kind, NEW verified,
           HandleRegisterClient(t, kind, verified)
    PROVE  SessionsArePrivate'
<1> DEFINE f == irp[t].file
           choice == SelectProvider(MakeProviderRequest(kind, verified), capabilities)
           active == {s \in Slots : sessions[s].active}
<1>1. /\ ControlTypeOK /\ SnapshotIsLoaded /\ RequestsHoldTheirFile /\ RepliesAreOwn
      /\ CountIsTableSize /\ Distinct /\ \A s \in Slots : Sound(sessions[s])
    BY SlotwiseThen, Zenon
<1>2. Entered(t) /\ UNCHANGED <<loadVars, file, opens>>
    BY Zenon DEF HandleRegisterClient
<1>3. f \in Files /\ file[f] # 0 /\ file[f] \in Nat
    BY <1>1, <1>2, SMTT(60) DEF RequestsHoldTheirFile, Entered, ControlTypeOK
<1>4. CASE Reply(t, NoReply) /\ UNCHANGED tableVars
    <2>1. sessions' \in [Slots -> SessionType] /\ UNCHANGED <<sessions, active_sessions, next_client>>
        BY <1>1, <1>4, Zenon DEF ControlTypeOK, tableVars
    <2> QED BY <1>1, <1>2, <1>4, <2>1, ZeroFacts, HandlerKeeps, Zenon
<1>5. ASSUME NEW s0 \in AllocateSession,
             next_client < MaxClient, next_client' = next_client + 1,
             active_sessions' = active_sessions + 1,
             sessions' = [sessions EXCEPT ![s0] = FillSession(f, next_client', choice)],
             Reply(t, [key |-> KeyOf(next_client'), opener |-> file[f]])
      PROVE  SessionsArePrivate'
    <2>1. /\ next_client \in Nat /\ next_client' \in Nat /\ next_client <= next_client'
          /\ next_client' \in 0 .. MaxClient /\ next_client' \in 1 .. next_client'
          /\ next_client' # 0
        BY <1>1, <1>5, ControlAssumption DEF ControlTypeOK
    <2>2. /\ Keys \subseteq Keys' /\ KeyOf(next_client') \in Keys'
          /\ KeyOf(next_client') \in {KeyOf(c) : c \in 1 .. next_client'}
        BY <2>1, KeysGrow, Zenon DEF Keys
    <2>3. s0 \in Slots /\ ~sessions[s0].active
        BY <1>5, Zenon DEF AllocateSession
    <2>4. PICK z : z = sessions'[s0] /\ z = FillSession(f, next_client', choice)
        BY <1>1, <1>5, <2>3, Zenon DEF ControlTypeOK
    <2>5. \A s \in Slots \ {s0} : sessions'[s] = sessions[s]
        BY <1>1, <1>5, Zenon DEF ControlTypeOK
    <2> HIDE DEF f, choice
    <2>6. /\ z.active /\ z.owner_file = f /\ z.key = KeyOf(next_client') /\ z.opener = file[f]
          /\ z.nestedBy = {} /\ ~z.lease_active /\ ~z.virtualization_ready
          /\ z \in [active : BOOLEAN, nested_ready : BOOLEAN, owner_file : Files \cup {NoFile},
                    key : {KeyOf(next_client')}, virtualization_ready : BOOLEAN,
                    lease : LeaseType, lease_active : BOOLEAN, opener : Nat,
                    nestedBy : SUBSET Nat]
        BY <1>1, <1>3, <2>1, <2>4, FilledFacts DEF choice
    <2>7. z \in SessionType'
        BY <2>2, <2>6, Zenon DEF SessionType
    <2>8. Sound(z)'
        BY <1>2, <1>3, <2>2, <2>6, Zenon DEF Sound
    <2>9. ASSUME NEW s \in Slots PROVE Sound(sessions[s])'
        <3>1. CASE s = s0
            BY <2>4, <2>8, <3>1, Zenon
        <3>2. CASE s # s0
            <4>1. sessions'[s] = sessions[s] /\ Sound(sessions[s])
                BY <1>1, <2>5, <3>2, Zenon
            <4> QED BY <4>1, <1>2, <2>2, KeysGrow, <2>1, Zenon DEF Sound
        <3> QED BY <3>1, <3>2, Zenon
    <2>10. SessionType \subseteq SessionType'
        BY <2>2, Zenon DEF SessionType
    <2>11. sessions' \in [Slots -> SessionType']
        BY <1>1, <1>5, <2>3, <2>4, <2>7, <2>10, Zenon DEF ControlTypeOK
    <2>12. {s \in Slots : sessions'[s].active} = active \cup {s0}
        BY <2>3, <2>4, <2>5, <2>6, Zenon
    <2>13. CountIsTableSize'
        <3>1. IsFiniteSet(active) /\ s0 \notin active /\ active_sessions = Cardinality(active)
            BY <1>1, <2>3, SlotSets, Zenon DEF CountIsTableSize
        <3>2. Cardinality(active \cup {s0}) = Cardinality(active) + 1
            BY <3>1, FS_AddElement, Zenon
        <3> QED BY <3>1, <3>2, <1>5, <2>12, Zenon DEF CountIsTableSize
    <2>14. active_sessions' \in 0 .. MaxSessions
        BY <2>13, SlotSets, Zenon DEF CountIsTableSize
    <2>15. Distinct'
        <3>1. ASSUME NEW s \in Slots, s # s0, sessions[s].active
              PROVE  sessions[s].key # KeyOf(next_client')
            <4>1. PICK c \in 1 .. next_client : sessions[s].key = KeyOf(c)
                BY <1>1, <3>1, Zenon DEF Sound
            <4>2. KeyOf(c).client_id = c /\ KeyOf(next_client').client_id = next_client'
                BY KeyFacts, Zenon
            <4>3. c # next_client'
                BY <2>1, <1>5
            <4> QED BY ONLY <4>1, <4>2, <4>3, Zenon
        <3>2. ASSUME NEW s \in Slots, NEW r \in Slots, s # r,
                     sessions'[s].active, sessions'[r].active
              PROVE  ~ /\ sessions'[s].key = sessions'[r].key
                       /\ sessions'[s].owner_file = sessions'[r].owner_file
            <4>1. CASE s = s0
                BY <2>4, <2>5, <2>6, <3>1, <3>2, <4>1, Zenon
            <4>2. CASE r = s0
                BY <2>4, <2>5, <2>6, <3>1, <3>2, <4>2, Zenon
            <4>3. CASE s # s0 /\ r # s0
                BY <1>1, <2>5, <3>2, <4>3, Zenon DEF Distinct
            <4> QED BY <4>1, <4>2, <4>3, Zenon
        <3> QED BY <3>2, Zenon DEF Distinct
    <2>16. irp' \in [Threads -> Irps'] /\ RequestsHoldTheirFile' /\ RepliesAreOwn'
        <3> DEFINE reply == [key |-> KeyOf(next_client'), opener |-> file[f]]
        <3>1. reply \in Replies' /\ reply.opener = file[f]
            BY <2>2, <1>3, Zenon DEF Replies
        <3> HIDE DEF reply
        <3> QED BY <1>1, <1>2, <1>5, <2>1, <3>1, ReplyKeeps, Zenon DEF reply, f, loadVars
    <2>17. ControlTypeOK'
        BY <1>1, <1>2, <2>1, <2>11, <2>14, <2>16, Zenon
           DEF ControlTypeOK, Irps, Replies, loadVars
    <2>18. SnapshotIsLoaded'
        BY <1>1, <1>2, Zenon DEF SnapshotIsLoaded, loadVars
    <2> QED BY <2>9, <2>13, <2>15, <2>16, <2>17, <2>18, SlotwiseIs, Zenon
<1> QED BY <1>4, <1>5, Zenon DEF HandleRegisterClient

\* Clearing some of the sessions and counting them off keeps the count that of the
\* table, and the others distinct.
LEMMA Cleared ==
    ASSUME ControlTypeOK, CountIsTableSize, Distinct,
           NEW C \in SUBSET {s \in Slots : sessions[s].active},
           sessions' = [s \in Slots |-> IF s \in C THEN ZeroSession ELSE sessions[s]],
           Cardinality(C) <= active_sessions => active_sessions' = active_sessions - Cardinality(C)
    PROVE  /\ sessions' \in [Slots -> SessionType] /\ active_sessions' \in 0 .. MaxSessions
           /\ CountIsTableSize' /\ Distinct'
<1> DEFINE active == {s \in Slots : sessions[s].active}
<1>1. sessions' \in [Slots -> SessionType]
    BY ZeroFacts, Zenon DEF ControlTypeOK
<1>2. {s \in Slots : sessions'[s].active} = active \ C
    BY ZeroFacts, Zenon
<1>3. /\ IsFiniteSet(active) /\ active_sessions = Cardinality(active)
      /\ Cardinality(C) <= Cardinality(active)
    BY SlotSets, FS_Subset, Zenon DEF CountIsTableSize
<1>4. Cardinality(active \ C) = Cardinality(active) - Cardinality(C)
    <2>1. active \cap C = C
        BY Zenon
    <2> HIDE DEF active
    <2>2. Cardinality(active \ C) = Cardinality(active) - Cardinality(active \cap C)
        BY <1>3, FS_Difference, Zenon
    <2> QED BY ONLY <2>1, <2>2, Zenon
<1>5. CountIsTableSize'
    BY <1>2, <1>3, <1>4, Zenon DEF CountIsTableSize
<1>6. active_sessions' \in 0 .. MaxSessions
    BY <1>5, SlotSets, Zenon DEF CountIsTableSize
<1>7. Distinct'
    BY ZeroFacts, Zenon DEF Distinct
<1> QED BY <1>1, <1>5, <1>6, <1>7, Zenon

\* HandleReleaseSession clears the one session it finds.
LEMMA ReleaseKeeps ==
    ASSUME SessionsArePrivate, NEW t \in Threads, NEW key \in Keys,
           HandleReleaseSession(t, key)
    PROVE  SessionsArePrivate'
<1> DEFINE found == FindSession(key, irp[t].file)
<1>1. /\ ControlTypeOK /\ SnapshotIsLoaded /\ RequestsHoldTheirFile /\ RepliesAreOwn
      /\ CountIsTableSize /\ Distinct /\ \A s \in Slots : Sound(sessions[s])
    BY SlotwiseThen, Zenon
<1>2. /\ Entered(t) /\ Reply(t, NoReply) /\ UNCHANGED <<loadVars, file, opens, next_client>>
      /\ sessions' = [s \in Slots |-> IF s \in found THEN ZeroSession ELSE sessions[s]]
      /\ active_sessions' = IF found # {} /\ active_sessions # 0
                            THEN active_sessions - 1 ELSE active_sessions
    BY Zenon DEF HandleReleaseSession
<1>3. found \in SUBSET {s \in Slots : sessions[s].active}
    BY Zenon DEF FindSession
<1>4. found = {} \/ \E s : found = {s}
    BY <1>1, Zenon DEF FindSession, Distinct
<1> HIDE DEF found
<1>5. Cardinality(found) <= active_sessions => active_sessions' = active_sessions - Cardinality(found)
    <2>1. active_sessions \in Nat
        BY <1>1 DEF ControlTypeOK
    <2>2. CASE found = {}
        BY <1>2, <2>1, <2>2, FS_EmptySet
    <2>3. CASE \E s : found = {s}
        <3>1. found # {} /\ Cardinality(found) = 1
            BY <2>3, FS_Singleton, Zenon
        <3> QED BY <1>2, <2>1, <3>1
    <2> QED BY <1>4, <2>2, <2>3, Zenon
<1>6. /\ sessions' \in [Slots -> SessionType] /\ active_sessions' \in 0 .. MaxSessions
      /\ CountIsTableSize' /\ Distinct'
    BY <1>1, <1>2, <1>3, <1>5, Cleared, Zenon
<1>7. next_client \in Nat /\ next_client' = next_client
    BY <1>1, <1>2 DEF ControlTypeOK
<1>8. SessionType' = SessionType
    BY <1>7, Zenon DEF Keys, SessionType
<1>9. irp' \in [Threads -> Irps'] /\ RequestsHoldTheirFile' /\ RepliesAreOwn'
    <2>1. NoReply \in Replies'
        BY <1>7, ZeroFacts, Zenon DEF Replies, Keys
    <2> QED BY <1>1, <1>2, <1>7, <2>1, ReplyKeeps DEF loadVars
<1>10. ControlTypeOK'
    BY <1>1, <1>2, <1>6, <1>8, <1>9, Zenon DEF ControlTypeOK, Irps, Replies, loadVars
<1>11. SnapshotIsLoaded'
    BY <1>1, <1>2, Zenon DEF SnapshotIsLoaded, loadVars
<1>12. ASSUME NEW s \in Slots PROVE Sound(sessions[s])'
    <2>1. Sound(sessions[s])
        BY <1>1, Zenon
    <2>2. CASE s \in found
        BY <1>2, <2>2, ZeroFacts, Zenon DEF Sound
    <2>3. CASE s \notin found
        BY <1>2, <1>7, <2>1, <2>3, Zenon DEF Sound
    <2> QED BY <2>2, <2>3, Zenon
<1> QED BY <1>6, <1>9, <1>10, <1>11, <1>12, SlotwiseIs, Zenon

\* KnHvDispatchClose clears the sessions of the file object, and only those: a closed
\* object is owned by none, and none of its requests is in flight.
LEMMA CloseKeeps ==
    ASSUME SessionsArePrivate, NEW f \in Files, KnHvDispatchClose(f)
    PROVE  SessionsArePrivate'
<1> DEFINE gone == SessionsOf(f)
<1>1. /\ ControlTypeOK /\ SnapshotIsLoaded /\ RequestsHoldTheirFile /\ RepliesAreOwn
      /\ CountIsTableSize /\ Distinct /\ \A s \in Slots : Sound(sessions[s])
    BY SlotwiseThen, Zenon
<1>2. /\ \A t \in Threads : irp[t].file # f
      /\ file' = [file EXCEPT ![f] = 0]
      /\ UNCHANGED <<loadVars, opens, next_client, irp>>
      /\ sessions' = [s \in Slots |-> IF s \in gone THEN ZeroSession ELSE sessions[s]]
      /\ active_sessions' = IF active_sessions < Cardinality(gone) THEN 0
                            ELSE active_sessions - Cardinality(gone)
      /\ device = "ready"
    BY Zenon DEF KnHvDispatchClose, ReleaseSessionsForFile
<1>3. gone \in SUBSET {s \in Slots : sessions[s].active}
    BY Zenon DEF SessionsOf
<1>4. \A s \in Slots \ gone : sessions[s].active => sessions[s].owner_file # f
    BY Zenon DEF SessionsOf
<1> HIDE DEF gone
<1>5. Cardinality(gone) <= active_sessions => active_sessions' = active_sessions - Cardinality(gone)
    <2>1. active_sessions \in Nat /\ Cardinality(gone) \in Nat
        BY <1>1, <1>3, SlotSets DEF ControlTypeOK
    <2> QED BY <1>2, <2>1
<1>6. /\ sessions' \in [Slots -> SessionType] /\ active_sessions' \in 0 .. MaxSessions
      /\ CountIsTableSize' /\ Distinct'
    BY <1>1, <1>2, <1>3, <1>5, Cleared, Zenon
<1>7. /\ SessionType' = SessionType /\ Keys' = Keys
    BY <1>2, Zenon DEF Keys, SessionType
<1>8. /\ file' \in [Files -> 0 .. opens] /\ file'[f] = 0
      /\ \A g \in Files \ {f} : file'[g] = file[g]
    BY <1>1, <1>2, SMTT(60) DEF ControlTypeOK
<1>9. ControlTypeOK'
    BY <1>1, <1>2, <1>6, <1>7, <1>8, Zenon DEF ControlTypeOK, loadVars
<1>10. SnapshotIsLoaded'
    BY <1>1, <1>2, Zenon DEF SnapshotIsLoaded, loadVars
<1>11. RequestsHoldTheirFile'
    BY <1>1, <1>2, <1>8, Zenon DEF RequestsHoldTheirFile, loadVars
<1>12. RepliesAreOwn'
    BY <1>1, <1>2, <1>8, ZeroFacts, Zenon DEF RepliesAreOwn, RequestsHoldTheirFile
<1>13. ASSUME NEW s \in Slots PROVE Sound(sessions[s])'
    <2>1. Sound(sessions[s])
        BY <1>1, Zenon
    <2>2. CASE s \in gone
        BY <1>2, <2>2, ZeroFacts, Zenon DEF Sound
    <2>3. CASE s \notin gone
        BY <1>2, <1>4, <1>8, <2>1, <2>3, Zenon DEF Sound
    <2> QED BY <2>2, <2>3, Zenon
<1> QED BY <1>6, <1>9, <1>10, <1>11, <1>12, <1>13, SlotwiseIs, Zenon

\* KnHvInitializeControlDriver and KnHvUnloadControlDriver leave a blank table behind;
\* no request is in flight then, since no file object is open.
LEMMA BlankKeeps ==
    ASSUME SessionsArePrivate,
           \/ \E nested, outer_l0 \in BOOLEAN : KnHvInitializeControlDriver(nested, outer_l0)
           \/ KnHvUnloadControlDriver
    PROVE  SessionsArePrivate'
<1>1. ControlTypeOK /\ SnapshotIsLoaded /\ RequestsHoldTheirFile
    BY SlotwiseThen, Zenon
<1>2. /\ device' \in {"ready", "deleted"} /\ nested_test_driver' \in BOOLEAN
      /\ sessions' = [s \in Slots |-> ZeroSession] /\ active_sessions' = 0
      /\ next_client' \in 0 .. MaxClient /\ UNCHANGED <<file, opens, irp>>
      /\ \A f \in Files : file[f] = 0
    BY <1>1, ControlAssumption
       DEF KnHvInitializeControlDriver, KnHvUnloadControlDriver, ControlTypeOK,
           RequestsHoldTheirFile
<1>3. \A t \in Threads : irp'[t] = NoIrp
    BY <1>1, <1>2, Zenon DEF RequestsHoldTheirFile
<1>4. NoIrp \in Irps' /\ ZeroSession \in SessionType'
    <2>1. NoKey \in Keys'
        BY Zenon DEF Keys
    <2>2. NoReply \in Replies'
        BY <2>1, Zenon DEF NoReply, Replies
    <2>3. NoLease \in LeaseType
        BY Zenon DEF NoLease, LeaseType, LeaseModes
    <2> QED BY <2>1, <2>2, <2>3, Zenon DEF NoIrp, Irps, ZeroSession, SessionType
<1>5. irp' \in [Threads -> Irps'] /\ sessions' \in [Slots -> SessionType']
    BY <1>1, <1>2, <1>3, <1>4, Zenon DEF ControlTypeOK
<1>6. ControlTypeOK'
    BY <1>1, <1>2, <1>5, ControlAssumption DEF ControlTypeOK, Irps, Replies
<1>7. SnapshotIsLoaded'
    <2>1. CASE KnHvUnloadControlDriver
        BY <1>1, <2>1, Zenon DEF KnHvUnloadControlDriver, SnapshotIsLoaded
    <2>2. CASE \E nested, outer_l0 \in BOOLEAN : KnHvInitializeControlDriver(nested, outer_l0)
        <3>1. \E nested, outer_l0 \in BOOLEAN :
                 capabilities' = LoadedCapabilities(nested, outer_l0)
            BY <2>2, Zenon DEF KnHvInitializeControlDriver
        <3> QED BY <3>1, LoadedSnapshot, Zenon DEF SnapshotIsLoaded
    <2> QED BY <2>1, <2>2, Zenon
<1>8. RequestsHoldTheirFile' /\ RepliesAreOwn'
    BY <1>2, <1>3, ZeroFacts, Zenon DEF RequestsHoldTheirFile, RepliesAreOwn
<1>9. CountIsTableSize'
    <2>1. {s \in Slots : sessions'[s].active} = {}
        BY <1>2, ZeroFacts, Zenon
    <2> QED BY <1>2, <2>1, FS_EmptySet, Zenon DEF CountIsTableSize
<1>10. Distinct' /\ \A s \in Slots : Sound(sessions[s])'
    BY <1>2, ZeroFacts, Zenon DEF Distinct, Sound
<1> QED BY <1>6, <1>7, <1>8, <1>9, <1>10, SlotwiseIs, Zenon

\* KnHvDispatchCreate opens a closed file object, which owns no session.
LEMMA CreateKeeps ==
    ASSUME SessionsArePrivate, NEW f \in Files, KnHvDispatchCreate(f)
    PROVE  SessionsArePrivate'
<1>1. /\ ControlTypeOK /\ SnapshotIsLoaded /\ RequestsHoldTheirFile /\ RepliesAreOwn
      /\ CountIsTableSize /\ Distinct /\ \A s \in Slots : Sound(sessions[s])
    BY SlotwiseThen, Zenon
<1>2. /\ device = "ready" /\ file[f] = 0 /\ opens < MaxOpens /\ opens' = opens + 1
      /\ file' = [file EXCEPT ![f] = opens'] /\ UNCHANGED <<loadVars, tableVars, irp>>
    BY Zenon DEF KnHvDispatchCreate
<1>3. /\ opens' \in 0 .. MaxOpens /\ file' \in [Files -> 0 .. opens'] /\ file'[f] # 0
      /\ \A g \in Files \ {f} : file'[g] = file[g]
    BY <1>1, <1>2, ControlAssumption DEF ControlTypeOK
<1>4. Keys' = Keys /\ SessionType' = SessionType
    BY <1>2, Zenon DEF Keys, SessionType, tableVars
<1>5. ControlTypeOK'
    BY <1>1, <1>2, <1>3, <1>4, Zenon DEF ControlTypeOK, loadVars, tableVars
<1>6. SnapshotIsLoaded'
    BY <1>1, <1>2, Zenon DEF SnapshotIsLoaded, loadVars
<1>7. RequestsHoldTheirFile'
    BY <1>1, <1>2, <1>3, Zenon DEF RequestsHoldTheirFile, loadVars
<1>8. RepliesAreOwn'
    BY <1>1, <1>2, <1>3, ZeroFacts, Zenon DEF RepliesAreOwn, RequestsHoldTheirFile
<1>9. CountIsTableSize' /\ Distinct'
    BY <1>1, <1>2, Zenon DEF CountIsTableSize, Distinct, tableVars
<1>10. \A s \in Slots : Sound(sessions[s])'
    BY <1>1, <1>2, <1>3 DEF Sound, tableVars
<1> QED BY <1>5, <1>6, <1>7, <1>8, <1>9, <1>10, SlotwiseIs, Zenon

\* Entering the dispatch routine and completing a request touch the request only.
LEMMA RequestKeeps ==
    ASSUME SessionsArePrivate, NEW t \in Threads,
           (\E f \in Files : EnterDeviceControl(t, f)) \/ CompleteDeviceControl(t)
    PROVE  SessionsArePrivate'
<1>1. /\ ControlTypeOK /\ SnapshotIsLoaded /\ RequestsHoldTheirFile /\ RepliesAreOwn
      /\ CountIsTableSize /\ Distinct /\ \A s \in Slots : Sound(sessions[s])
    BY SlotwiseThen, Zenon
<1>2. UNCHANGED <<loadVars, file, opens, tableVars>>
    BY Zenon DEF EnterDeviceControl, CompleteDeviceControl
<1>3. /\ Keys' = Keys /\ SessionType' = SessionType /\ Irps' = Irps /\ Replies' = Replies
    BY <1>2, Zenon DEF Keys, SessionType, Irps, Replies, tableVars
<1>4. irp \in [Threads -> Irps]
    BY <1>1, Zenon DEF ControlTypeOK, Irps, Replies
<1>5. /\ irp' \in [Threads -> Irps] /\ \A u \in Threads \ {t} : irp'[u] = irp[u]
      /\ \/ irp'[t] = NoIrp
         \/ /\ irp'[t].stage = "entered" /\ irp'[t].file \in Files /\ file[irp'[t].file] # 0
            /\ irp'[t].reply = NoReply
    <2>1. CASE CompleteDeviceControl(t)
        BY <1>4, <2>1, ZeroFacts, Zenon DEF CompleteDeviceControl
    <2>2. ASSUME NEW f \in Files, EnterDeviceControl(t, f)
          PROVE  /\ irp' \in [Threads -> Irps] /\ \A u \in Threads \ {t} : irp'[u] = irp[u]
                 /\ irp'[t].stage = "entered" /\ irp'[t].file \in Files
                 /\ file[irp'[t].file] # 0 /\ irp'[t].reply = NoReply
        <3>1. /\ irp[t] = NoIrp /\ file[f] # 0
              /\ irp' = [irp EXCEPT ![t].file = f, ![t].stage = "entered"]
            BY <2>2, Zenon DEF EnterDeviceControl
        <3>2. /\ irp'[t].file = f /\ irp'[t].stage = "entered"
              /\ irp'[t].reply = irp[t].reply /\ irp'[t] \in Irps
            BY <1>4, <3>1, Zenon DEF Irps
        <3>3. irp' \in [Threads -> Irps] /\ \A u \in Threads \ {t} : irp'[u] = irp[u]
            BY <1>4, <3>1, <3>2, Zenon
        <3> QED BY <3>1, <3>2, <3>3, ZeroFacts, Zenon
    <2> QED BY <2>1, <2>2, Zenon
<1>6. ControlTypeOK'
    BY <1>1, <1>2, <1>3, <1>5, Zenon DEF ControlTypeOK, Irps, Replies, loadVars, tableVars
<1>7. SnapshotIsLoaded'
    BY <1>1, <1>2, Zenon DEF SnapshotIsLoaded, loadVars
<1>8. RequestsHoldTheirFile'
    BY <1>1, <1>2, <1>5, ZeroFacts, Zenon DEF RequestsHoldTheirFile, loadVars
<1>9. RepliesAreOwn'
    BY <1>1, <1>2, <1>5, ZeroFacts, Zenon DEF RepliesAreOwn
<1>10. /\ CountIsTableSize' /\ Distinct' /\ \A s \in Slots : Sound(sessions[s])'
    BY <1>1, <1>2, Zenon DEF CountIsTableSize, Distinct, Sound, tableVars
<1> QED BY <1>6, <1>7, <1>8, <1>9, <1>10, SlotwiseIs, Zenon

-----------------------------------------------------------------------------
(***************************************************************************)
(* The theorem.                                                            *)
(***************************************************************************)

\* The driver starts unloaded, with a blank table.
LEMMA PrivateAtFirst == ControlInit => SessionsArePrivate
<1> SUFFICES ASSUME ControlInit PROVE SessionsArePrivate
    BY Zenon
<1>1. \A s \in Slots : sessions[s] = ZeroSession
    BY Zenon DEF ControlInit
<1>2. \A t \in Threads : irp[t] = NoIrp
    BY Zenon DEF ControlInit
<1>3. ControlTypeOK
    <2>1. sessions \in [Slots -> SessionType] /\ irp \in [Threads -> Irps]
        BY ZeroFacts, Zenon DEF ControlInit
    <2>2. opens = 0 /\ file \in [Files -> 0 .. opens] /\ opens \in 0 .. MaxOpens
        BY ControlAssumption DEF ControlInit
    <2>3. active_sessions \in 0 .. MaxSessions /\ next_client \in 0 .. MaxClient
        BY ControlAssumption DEF ControlInit
    <2>4. device \in {"ready", "deleted"} /\ nested_test_driver \in BOOLEAN
        BY Zenon DEF ControlInit
    <2> QED BY <2>1, <2>2, <2>3, <2>4, Zenon DEF ControlTypeOK, Irps, Replies
<1>4. SnapshotIsLoaded
    BY LoadedSnapshot, Zenon DEF ControlInit, SnapshotIsLoaded
<1>5. RequestsHoldTheirFile /\ RepliesAreOwn
    BY <1>2, ZeroFacts, Zenon DEF ControlInit, RequestsHoldTheirFile, RepliesAreOwn
<1>6. CountIsTableSize
    <2>1. {s \in Slots : sessions[s].active} = {}
        BY <1>1, ZeroFacts, Zenon
    <2> QED BY <2>1, FS_EmptySet, Zenon DEF ControlInit, CountIsTableSize
<1>7. /\ SlotsAreBlankOrFilled /\ SessionsDieWithTheirOpen /\ EverySessionIsFound
      /\ LeasesAreReturnable /\ NestedStateIsPrivate
    BY <1>1, ZeroFacts, Zenon
       DEF SlotsAreBlankOrFilled, SessionsDieWithTheirOpen, EverySessionIsFound,
           LeasesAreReturnable, NestedStateIsPrivate
<1> QED BY <1>3, <1>4, <1>5, <1>6, <1>7, Zenon DEF SessionsArePrivate

\* Every step of the driver, of the I/O manager and of a request keeps them.
LEMMA PrivateStepKeeps ==
    SessionsArePrivate /\ [ControlNext]_controlVars => SessionsArePrivate'
<1> SUFFICES ASSUME SessionsArePrivate, [ControlNext]_controlVars PROVE SessionsArePrivate'
    BY Zenon
<1>1. CASE UNCHANGED controlVars
    <2>1. /\ ControlTypeOK' /\ SnapshotIsLoaded' /\ RequestsHoldTheirFile' /\ RepliesAreOwn'
          /\ CountIsTableSize' /\ Distinct' /\ \A s \in Slots : Sound(sessions[s])'
        <3>1. /\ ControlTypeOK /\ SnapshotIsLoaded /\ RequestsHoldTheirFile /\ RepliesAreOwn
              /\ CountIsTableSize /\ Distinct /\ \A s \in Slots : Sound(sessions[s])
            BY SlotwiseThen, Zenon
        <3>2. UNCHANGED <<device, nested_test_driver, capabilities, file, opens, sessions,
                          active_sessions, next_client, irp>>
            BY <1>1, Zenon DEF controlVars, loadVars, tableVars
        <3>3. Keys' = Keys /\ SessionType' = SessionType
            BY <3>2, Zenon DEF Keys, SessionType
        <3>4. ControlTypeOK'
            BY <3>1, <3>2, <3>3, Zenon DEF ControlTypeOK
        <3>5. SnapshotIsLoaded' /\ RequestsHoldTheirFile' /\ RepliesAreOwn'
            BY <3>1, <3>2, Zenon DEF SnapshotIsLoaded, RequestsHoldTheirFile, RepliesAreOwn
        <3>6. CountIsTableSize' /\ Distinct' /\ \A s \in Slots : Sound(sessions[s])'
            BY <3>1, <3>2, Zenon DEF CountIsTableSize, Distinct, Sound
        <3> QED BY <3>4, <3>5, <3>6, Zenon
    <2> QED BY <2>1, SlotwiseIs, Zenon
<1>2. CASE \/ \E nested, outer_l0 \in BOOLEAN : KnHvInitializeControlDriver(nested, outer_l0)
           \/ KnHvUnloadControlDriver
    BY <1>2, BlankKeeps, Zenon
<1>3. CASE \E f \in Files : KnHvDispatchCreate(f) \/ KnHvDispatchClose(f)
    BY <1>3, CreateKeeps, CloseKeeps, Zenon
<1>4. CASE \E t \in Threads, f \in Files : EnterDeviceControl(t, f)
    BY <1>4, RequestKeeps, Zenon
<1>5. ASSUME NEW t \in Threads, CompleteDeviceControl(t) PROVE SessionsArePrivate'
    BY <1>5, RequestKeeps, Zenon
<1>6. ASSUME NEW t \in Threads, Handle(t) PROVE SessionsArePrivate'
    <2>1. CASE RefuseInput(t)
        BY <2>1, QueryKeeps, Zenon
    <2>2. ASSUME NEW kind, NEW verified, HandleRegisterClient(t, kind, verified)
          PROVE  SessionsArePrivate'
        BY <2>2, RegisterKeeps, Zenon
    <2>3. ASSUME NEW key \in Keys, HandleQuerySession(t, key) PROVE SessionsArePrivate'
        BY <2>3, QueryKeeps, Zenon
    <2>4. ASSUME NEW key \in Keys, HandleReleaseSession(t, key) PROVE SessionsArePrivate'
        BY <2>4, ReleaseKeeps, Zenon
    <2>5. ASSUME NEW key \in Keys, NEW mode \in LeaseModes, NEW flags \in SUBSET {"ReadOnly"},
                 HandleAcquireLeaseV2(t, key, mode, flags)
          PROVE  SessionsArePrivate'
        BY <2>5, AcquireKeeps, Zenon
    <2>6. ASSUME NEW key \in Keys, NEW lease, HandleReleaseLeaseV2(t, key, lease)
          PROVE  SessionsArePrivate'
        BY <2>6, GiveBackKeeps, Zenon
    <2>7. ASSUME NEW key \in Keys, HandleNestedInstruction(t, key) \/ HandleReflectExit(t, key)
          PROVE  SessionsArePrivate'
        BY <2>7, NestedKeeps, Zenon DEF HandleNestedInstruction, HandleReflectExit
    <2> QED BY <1>6, <2>1, <2>2, <2>3, <2>4, <2>5, <2>6, <2>7, Zenon DEF Handle
<1> QED BY <1>1, <1>2, <1>3, <1>4, <1>5, <1>6, Zenon DEF ControlNext

\* control_device.cpp, for any number of clients, requests in flight, opens and slots:
\* the count is that of the table, a session lives exactly as long as the open that
\* registered it, is found by its key and by no other open, and neither its lease, its
\* nested processor nor a reply about it is anyone else's.
THEOREM SessionsStayPrivate == ControlSpec => []SessionsArePrivate
<1>1. ControlInit => SessionsArePrivate
    BY PrivateAtFirst, Zenon
<1>2. SessionsArePrivate /\ [ControlNext]_controlVars => SessionsArePrivate'
    BY PrivateStepKeeps, Zenon
<1> QED BY <1>1, <1>2, PTL DEF ControlSpec

-----------------------------------------------------------------------------
(***************************************************************************)
(* The owner gate and the preflight: every answer the gate can give, what  *)
(* a grant needs, and what a passed gate says of the host's probes.        *)
(***************************************************************************)

\* A fallback is offered by the result that goes with it, or refused.
LEMMA FallbackResult ==
  ASSUME NEW o, o.owner \in {"ExternalL0", "WhpManaged", "SyntheticLab"}
  PROVE  \/ \E reason \in {"GenerationMissing", "ProviderUnavailable", "ProviderStateInvalid"},
               status \in {"IncompatibleProvider", "NestedUnavailable"} :
              FallbackGate(o) = Block(reason, status, o)
         \/ /\ o.generation # 0 /\ o.owner = "ExternalL0"
            /\ FallbackGate(o) = Result("UseExternalProvider", "ExternalOwnerActive",
                                        "IncompatibleProvider", {"Fallback", "Conflict"}, o)
         \/ /\ o.generation # 0 /\ o.owner = "WhpManaged"
            /\ FallbackGate(o) = Result("UseWhp", "WhpFallback", "Success", {"Fallback"}, o)
         \/ /\ o.generation # 0 /\ o.owner = "SyntheticLab"
            /\ FallbackGate(o) = Result("UseSynthetic", "SyntheticFallback", "Success",
                                        {"Fallback"}, o)
<1>1. CASE o.owner = "ExternalL0"
  <2>1. FallbackGate(o) =
          IF o.generation = 0 THEN Block("GenerationMissing", "IncompatibleProvider", o)
          ELSE Result("UseExternalProvider", "ExternalOwnerActive", "IncompatibleProvider",
                      {"Fallback", "Conflict"}, o)
    BY <1>1, Zenon DEF FallbackGate
  <2> QED BY <1>1, <2>1, Zenon
<1>2. CASE o.owner = "WhpManaged"
  <2>1. FallbackGate(o) =
          IF o.generation = 0 THEN Block("GenerationMissing", "NestedUnavailable", o)
          ELSE IF ~IsAvailableOrActive(o) \/ o.whp # "Present"
          THEN Block("ProviderUnavailable", "NestedUnavailable", o)
          ELSE Result("UseWhp", "WhpFallback", "Success", {"Fallback"}, o)
    BY <1>2, Zenon DEF FallbackGate
  <2> QED BY <1>2, <2>1, Zenon
<1>3. CASE o.owner = "SyntheticLab"
  <2>1. FallbackGate(o) =
          IF o.generation = 0 \/ ~IsAvailableOrActive(o)
          THEN Block("ProviderStateInvalid", "NestedUnavailable", o)
          ELSE Result("UseSynthetic", "SyntheticFallback", "Success", {"Fallback"}, o)
    BY <1>3, Zenon DEF FallbackGate
  <2> QED BY <1>3, <2>1, Zenon
<1> QED BY <1>1, <1>2, <1>3, Zenon

\* EvaluateOwnerGate grants the native owner on full evidence only; its other
\* results are a fallback to another provider or a refusal.
LEMMA GateResult ==
  ASSUME NEW o, o.owner \in Owners
  PROVE  LET r == EvaluateOwnerGate(o)
         IN \/ /\ r.action = "Block" /\ r.status # "Success" /\ r.reason # "None"
               /\ r.flags \in {{}, {"Conflict"}}
            \/ /\ HasNativeEvidence(o) /\ o.state = "Active" /\ o.generation # 0
               /\ o.owner = "KnhvBootL0"
               /\ r = Result("AcquireNative", "KnhvOwnerReady", "Success",
                             {"EvidenceComplete", "Exclusive"}, o)
            \/ /\ o.generation # 0 /\ o.owner = "ExternalL0"
               /\ r = Result("UseExternalProvider", "ExternalOwnerActive",
                             "IncompatibleProvider", {"Fallback", "Conflict"}, o)
            \/ /\ o.generation # 0 /\ o.owner = "WhpManaged"
               /\ r = Result("UseWhp", "WhpFallback", "Success", {"Fallback"}, o)
            \/ /\ o.generation # 0 /\ o.owner = "SyntheticLab"
               /\ r = Result("UseSynthetic", "SyntheticFallback", "Success", {"Fallback"}, o)
<1> DEFINE r == EvaluateOwnerGate(o)
           refused(x) == /\ x.action = "Block" /\ x.status # "Success" /\ x.reason # "None"
                         /\ x.flags \in {{}, {"Conflict"}}
<1>1. ASSUME NEW reason, NEW status, reason # "None", status # "Success"
      PROVE  refused(Block(reason, status, o))
  BY <1>1, Zenon DEF Block, Result
<1>2. ASSUME NEW reason, reason # "None"
      PROVE  refused(Conflict(reason, o))
  BY <1>2, Zenon DEF Conflict, Result
<1>3. CASE ~IsOwnerObservationValid(o)
  <2>1. r = [Block("InvalidObservation", "InvalidParameter", o)
               EXCEPT !.owner = "Unknown", !.generation = 0]
    BY <1>3, Zenon DEF EvaluateOwnerGate
  <2>2. refused(r)
    BY <2>1, Zenon DEF Block, Result
  <2> QED BY <2>2, Zenon
<1>4. CASE IsOwnerObservationValid(o) /\ HasContradictoryEvidence(o)
  <2>1. r = Conflict("ContradictoryEvidence", o)
    BY <1>4, Zenon DEF EvaluateOwnerGate
  <2>2. refused(r)
    BY <2>1, <1>2, SMTT(60)
  <2> QED BY <2>2, Zenon
<1>5. CASE IsOwnerObservationValid(o) /\ ~HasContradictoryEvidence(o) /\ o.owner = "KnhvBootL0"
  <2>1. r = NativeOwnerGate(o)
    BY <1>5, Zenon DEF EvaluateOwnerGate
  <2> HIDE DEF refused, r
  <2>2. \/ refused(NativeOwnerGate(o))
        \/ /\ HasNativeEvidence(o) /\ o.state = "Active" /\ o.generation # 0
           /\ NativeOwnerGate(o) = Result("AcquireNative", "KnhvOwnerReady", "Success",
                                          {"EvidenceComplete", "Exclusive"}, o)
    BY <1>1, <1>2, Zenon DEF NativeOwnerGate
  <2> QED BY <1>5, <2>1, <2>2, Zenon DEF refused, r
<1>6. CASE IsOwnerObservationValid(o) /\ ~HasContradictoryEvidence(o) /\ o.owner = "Unknown"
  <2>1. r = UnknownOwnerGate(o)
    BY <1>6, Zenon DEF EvaluateOwnerGate
  <2> HIDE DEF refused, r
  <2>2. refused(UnknownOwnerGate(o))
    BY <1>1, <1>2, Zenon DEF UnknownOwnerGate
  <2> QED BY <2>1, <2>2, Zenon DEF refused, r
<1>7. CASE /\ IsOwnerObservationValid(o) /\ ~HasContradictoryEvidence(o)
           /\ o.owner \notin {"KnhvBootL0", "Unknown"}
  <2>1. r = FallbackGate(o)
    BY <1>7, Zenon DEF EvaluateOwnerGate
  <2>2. o.owner \in {"ExternalL0", "WhpManaged", "SyntheticLab"}
    BY <1>7, Zenon DEF Owners
  <2> HIDE DEF refused, r
  <2>3. ASSUME NEW reason \in {"GenerationMissing", "ProviderUnavailable", "ProviderStateInvalid"},
               NEW status \in {"IncompatibleProvider", "NestedUnavailable"}
        PROVE  refused(Block(reason, status, o))
    BY <1>1, Zenon
  <2> QED BY <2>1, <2>2, <2>3, FallbackResult DEF refused, r
<1> QED BY <1>3, <1>4, <1>5, <1>6, <1>7, Zenon

\* The results of IsOwnerGateResultValid's table are valid with a generation.
LEMMA ExpectedIsValid ==
  ASSUME NEW o, NEW action, NEW reason, NEW status, NEW flags, action # "Block",
         o.generation # 0,
         ExpectedResults[action] =
           [status |-> status, reason |-> reason, owner |-> o.owner, flags |-> flags]
  PROVE  IsOwnerGateResultValid(Result(action, reason, status, flags, o))
BY Zenon DEF IsOwnerGateResultValid, Result

LEMMA GateResultValid ==
  ASSUME NEW o, o.owner \in Owners
  PROVE  IsOwnerGateResultValid(EvaluateOwnerGate(o))
<1> DEFINE r == EvaluateOwnerGate(o)
<1>1. CASE /\ r.action = "Block" /\ r.status # "Success" /\ r.reason # "None"
           /\ r.flags \in {{}, {"Conflict"}}
  <2>1. r.flags \cap {"Exclusive", "Fallback"} = {}
    BY <1>1, Zenon
  <2> QED BY <1>1, <2>1, Zenon DEF IsOwnerGateResultValid
<1>2. /\ ExpectedResults["AcquireNative"] =
           [status |-> "Success", reason |-> "KnhvOwnerReady", owner |-> "KnhvBootL0",
            flags |-> {"EvidenceComplete", "Exclusive"}]
      /\ ExpectedResults["UseExternalProvider"] =
           [status |-> "IncompatibleProvider", reason |-> "ExternalOwnerActive",
            owner |-> "ExternalL0", flags |-> {"Fallback", "Conflict"}]
      /\ ExpectedResults["UseWhp"] =
           [status |-> "Success", reason |-> "WhpFallback", owner |-> "WhpManaged",
            flags |-> {"Fallback"}]
      /\ ExpectedResults["UseSynthetic"] =
           [status |-> "Success", reason |-> "SyntheticFallback", owner |-> "SyntheticLab",
            flags |-> {"Fallback"}]
  BY Zenon DEF ExpectedResults
<1> HIDE DEF r
<1>3. CASE /\ HasNativeEvidence(o) /\ o.state = "Active" /\ o.generation # 0
           /\ o.owner = "KnhvBootL0"
           /\ r = Result("AcquireNative", "KnhvOwnerReady", "Success",
                         {"EvidenceComplete", "Exclusive"}, o)
  <2>1. ExpectedResults["AcquireNative"] =
          [status |-> "Success", reason |-> "KnhvOwnerReady", owner |-> o.owner,
           flags |-> {"EvidenceComplete", "Exclusive"}]
    BY <1>2, <1>3, Zenon
  <2> QED BY <1>3, <2>1, ExpectedIsValid, Zenon DEF r
<1>4. CASE /\ o.generation # 0 /\ o.owner = "ExternalL0"
           /\ r = Result("UseExternalProvider", "ExternalOwnerActive", "IncompatibleProvider",
                         {"Fallback", "Conflict"}, o)
  <2>1. ExpectedResults["UseExternalProvider"] =
          [status |-> "IncompatibleProvider", reason |-> "ExternalOwnerActive", owner |-> o.owner,
           flags |-> {"Fallback", "Conflict"}]
    BY <1>2, <1>4, Zenon
  <2> QED BY <1>4, <2>1, ExpectedIsValid, Zenon DEF r
<1>5. CASE /\ o.generation # 0 /\ o.owner = "WhpManaged"
           /\ r = Result("UseWhp", "WhpFallback", "Success", {"Fallback"}, o)
  <2>1. ExpectedResults["UseWhp"] =
          [status |-> "Success", reason |-> "WhpFallback", owner |-> o.owner,
           flags |-> {"Fallback"}]
    BY <1>2, <1>5, Zenon
  <2> QED BY <1>5, <2>1, ExpectedIsValid, Zenon DEF r
<1>6. CASE /\ o.generation # 0 /\ o.owner = "SyntheticLab"
           /\ r = Result("UseSynthetic", "SyntheticFallback", "Success", {"Fallback"}, o)
  <2>1. ExpectedResults["UseSynthetic"] =
          [status |-> "Success", reason |-> "SyntheticFallback", owner |-> o.owner,
           flags |-> {"Fallback"}]
    BY <1>2, <1>6, Zenon
  <2> QED BY <1>6, <2>1, ExpectedIsValid, Zenon DEF r
<1> QED BY <1>1, <1>3, <1>4, <1>5, <1>6, GateResult, Zenon DEF r

\* A grant shows what it was given on.
LEMMA GrantNeedsEvidence ==
  ASSUME NEW o, o.owner \in Owners, EvaluateOwnerGate(o).action = "AcquireNative"
  PROVE  /\ HasNativeEvidence(o) /\ o.state = "Active" /\ o.generation # 0
         /\ o.owner = "KnhvBootL0" /\ EvaluateOwnerGate(o).generation = o.generation
<1> DEFINE r == EvaluateOwnerGate(o)
<1>1. ASSUME NEW action, NEW reason, NEW status, NEW flags,
             r = Result(action, reason, status, flags, o)
      PROVE  r.action = action /\ r.generation = o.generation
  BY <1>1 DEF Result
<1> HIDE DEF r
<1>2. r.action = "AcquireNative"
  BY Zenon DEF r
<1> QED BY <1>1, <1>2, GateResult, Zenon DEF r

-----------------------------------------------------------------------------

\* The conversions of the preflight, backwards: evidence that is clear was
\* answered, and answered no.
LEMMA ClearIsNo ==
  ASSUME NEW tri, ToOwnerEvidence(tri) = "Clear"
  PROVE  tri = "No"
BY Zenon DEF ToOwnerEvidence

LEMMA NoIsZero ==
  ASSUME NEW answer, ReadRegistryDword(answer) = "No"
  PROVE  answer = 0
<1>1. CASE answer = 0
  BY <1>1, Zenon
<1>2. CASE answer = RegistryError
  <2>1. answer # 0
    BY <1>2 DEF RegistryError
  <2>2. ReadRegistryDword(answer) = "Unknown"
    BY <1>2, <2>1, Zenon DEF ReadRegistryDword
  <2> QED BY <2>2, Zenon
<1>3. CASE answer # 0 /\ answer # RegistryError
  BY <1>3, Zenon DEF ReadRegistryDword
<1> QED BY <1>1, <1>2, <1>3, Zenon

LEMMA ServiceAnswers ==
  ASSUME NEW answer
  PROVE  /\ QueryService(answer) \in {"Yes", "No", "Unknown"}
         /\ QueryService(answer) = "No" => answer = "stopped"
BY Zenon DEF QueryService

LEMMA QuietWindows ==
  ASSUME NEW host,
         BuildOwnerObservation(host).windows = "Clear"
  PROVE  /\ \A s \in DOMAIN host.services : host.services[s] = "stopped"
         /\ host.whp # "present"
<1> DEFINE whp == QueryWhp(host.whp)
           services == [s \in DOMAIN host.services |-> QueryService(host.services[s])]
<1>1. ToOwnerEvidence(WindowsHypervisorEvidence(services, whp)) = "Clear"
  BY Zenon DEF BuildOwnerObservation
<1> HIDE DEF whp, services
<1>2. WindowsHypervisorEvidence(services, whp) = "No"
  BY <1>1, ClearIsNo, Zenon
<1>3. whp.hypervisor # "Yes" /\ \A s \in DOMAIN services : services[s] \notin {"Yes", "Unknown"}
  BY <1>2, Zenon DEF WindowsHypervisorEvidence
<1>4. ASSUME NEW s \in DOMAIN host.services
      PROVE  host.services[s] = "stopped"
  <2>1. QueryService(host.services[s]) \notin {"Yes", "Unknown"}
    BY <1>3, Zenon DEF services
  <2> QED BY <2>1, ServiceAnswers, Zenon
<1>5. ASSUME host.whp = "present" PROVE FALSE
  <2>1. (CASE host.whp = "present" -> "Yes" [] host.whp = "absent" -> "No"
           [] OTHER -> "Unknown") = "Yes"
    BY <1>5, Zenon
  <2>2. whp.hypervisor = "Yes"
    BY <2>1, Zenon DEF whp, QueryWhp
  <2> QED BY <1>3, <2>2, Zenon
<1> QED BY <1>4, <1>5, Zenon

\* The provider claims KNHV's boot owner, and no other one.
LEMMA OneOwnerClaimed ==
  ASSUME NEW provider, ProviderOwner(provider) = "KnhvBootL0"
  PROVE  /\ provider.device = "Yes" /\ "KnhvBootL0Active" \in provider.flags
         /\ provider.flags \cap OwnerFlags = {"KnhvBootL0Active"}
<1> DEFINE claims == provider.flags \cap OwnerFlags
<1>1. /\ provider.device = "Yes" /\ ~(Cardinality(claims) > 1)
      /\ "KnhvBootL0Active" \in provider.flags
  BY Zenon DEF ProviderOwner, ProviderOwnerFlagCount
<1>2. "KnhvBootL0Active" \in claims
  BY <1>1, Zenon DEF OwnerFlags
<1>3. IsFiniteSet(OwnerFlags)
  <2>1. IsFiniteSet({}) /\ OwnerFlags = ((({} \cup {"SyntheticSnapshot"})
           \cup {"KnhvBootL0Active"}) \cup {"OuterL0Active"}) \cup {"WhpPartition"}
    BY FS_EmptySet, Zenon DEF OwnerFlags
  <2>2. IsFiniteSet({} \cup {"SyntheticSnapshot"})
    BY <2>1, FS_AddElement, Zenon
  <2>3. IsFiniteSet(({} \cup {"SyntheticSnapshot"}) \cup {"KnhvBootL0Active"})
    BY <2>2, FS_AddElement, Zenon
  <2>4. IsFiniteSet((({} \cup {"SyntheticSnapshot"}) \cup {"KnhvBootL0Active"})
                      \cup {"OuterL0Active"})
    BY <2>3, FS_AddElement, Zenon
  <2> QED BY <2>1, <2>4, FS_AddElement, Zenon
<1>4. IsFiniteSet(claims) /\ Cardinality(claims) \in Nat
  BY <1>3, FS_Subset, FS_CardinalityType, Zenon
<1> HIDE DEF claims
<1>5. IsFiniteSet(claims \ {"KnhvBootL0Active"}) /\
      Cardinality(claims \ {"KnhvBootL0Active"}) = Cardinality(claims) - 1
  BY <1>2, <1>4, FS_RemoveElement, Zenon
<1>6. Cardinality(claims \ {"KnhvBootL0Active"}) \in Nat
  BY <1>5, FS_CardinalityType, Zenon
<1>7. Cardinality(claims \ {"KnhvBootL0Active"}) = 0
  BY <1>1, <1>4, <1>5, <1>6
<1>8. claims \ {"KnhvBootL0Active"} = {}
  BY <1>5, <1>7, FS_EmptySet, Zenon
<1> QED BY <1>1, <1>2, <1>8, Zenon DEF claims

\* What a passed owner gate says of the host the preflight asked.
LEMMA PassedGate ==
  ASSUME NEW host, host.cpuid \in CpuidAnswers,
         OwnerGateState(EvaluateOwnerGate(BuildOwnerObservation(host))) = "Pass"
  PROVE  /\ \A s \in DOMAIN host.services : host.services[s] = "stopped"
         /\ host.whp # "present" /\ host.cpuid = "bare" /\ host.vbs = 0 /\ host.hvci = 0
         /\ ReadRegistryDword(host.vbs) = "No" /\ ReadRegistryDword(host.hvci) = "No"
         /\ host.provider.flags \cap OwnerFlags = {"KnhvBootL0Active"}
         /\ QueryProvider(host.provider).device = "Yes"
         /\ QueryProvider(host.provider).answered
         /\ QueryProvider(host.provider).flags = host.provider.flags
<1> DEFINE o == BuildOwnerObservation(host)
           provider == QueryProvider(host.provider)
<1>1. /\ o.owner = ProviderOwner(provider)
      /\ o.vbs = ToOwnerEvidence(ReadRegistryDword(host.vbs))
      /\ o.hvci = ToOwnerEvidence(ReadRegistryDword(host.hvci))
      /\ o.cpuid = "Clear" => host.cpuid \notin {"no leaf", "hypervisor"}
  BY Zenon DEF BuildOwnerObservation
<1>2. o.owner \in Owners
  BY <1>1, Zenon DEF ProviderOwner, Owners
<1>3. EvaluateOwnerGate(o).action = "AcquireNative"
  BY Zenon DEF OwnerGateState
<1>4. HasNativeEvidence(o) /\ o.owner = "KnhvBootL0"
  BY <1>2, <1>3, GrantNeedsEvidence, Zenon
<1>5. o.cpuid = "Clear" /\ o.windows = "Clear" /\ o.vbs = "Clear" /\ o.hvci = "Clear"
  BY <1>4, Zenon DEF HasNativeEvidence
<1>6. /\ \A s \in DOMAIN host.services : host.services[s] = "stopped"
      /\ host.whp # "present"
  BY <1>5, QuietWindows, Zenon
<1> HIDE DEF o
<1>7. ReadRegistryDword(host.vbs) = "No" /\ ReadRegistryDword(host.hvci) = "No"
  BY <1>1, <1>5, ClearIsNo, Zenon
<1>8. host.vbs = 0 /\ host.hvci = 0
  BY <1>7, NoIsZero, Zenon
<1>9. host.cpuid = "bare"
  BY <1>1, <1>5, Zenon DEF CpuidAnswers
<1>10. /\ provider.device = "Yes" /\ "KnhvBootL0Active" \in provider.flags
       /\ provider.flags \cap OwnerFlags = {"KnhvBootL0Active"}
  BY <1>1, <1>4, OneOwnerClaimed, Zenon
<1>11. provider.answered /\ provider.flags = host.provider.flags
  BY <1>10, Zenon DEF QueryProvider
<1> QED BY <1>6, <1>7, <1>8, <1>9, <1>10, <1>11, Zenon

\* The other gates about the owner agree with it.
LEMMA StrictestGate ==
  ASSUME NEW host, host.cpuid \in CpuidAnswers, NEW gate,
         OwnerGateState(EvaluateOwnerGate(BuildOwnerObservation(host))) = "Pass"
  PROVE  \A g \in {"hypervisor_bit", "vbs_hvci", "device", "unique_owner", "knhv_boot_l0"} :
           EvaluateGates(host, gate)[g] = "Pass"
<1> DEFINE provider == QueryProvider(host.provider)
           vbs == ReadRegistryDword(host.vbs)
           hvci == ReadRegistryDword(host.hvci)
<1>1. /\ host.cpuid = "bare" /\ vbs = "No" /\ hvci = "No"
      /\ host.provider.flags \cap OwnerFlags = {"KnhvBootL0Active"}
      /\ provider.device = "Yes" /\ provider.answered /\ provider.flags = host.provider.flags
  BY PassedGate, Zenon
<1>2. "KnhvBootL0Active" \in provider.flags /\ "OuterL0Active" \notin provider.flags
  BY <1>1 DEF OwnerFlags
<1>3. UniqueOwner(provider) = "Yes"
  BY <1>1, <1>2, Zenon DEF UniqueOwner
<1>4. (CASE vbs = "Yes" \/ hvci = "Yes" -> "Fail"
         [] vbs = "No" /\ hvci = "No" -> "Pass"
         [] OTHER -> "Unknown") = "Pass"
  BY <1>1, Zenon
<1> HIDE DEF provider, vbs, hvci
<1>5. /\ EvaluateGates(host, gate)["hypervisor_bit"] = IF host.cpuid = "hypervisor" THEN "Fail" ELSE "Pass"
      /\ EvaluateGates(host, gate)["device"] = PassIf(provider.device = "Yes")
      /\ EvaluateGates(host, gate)["unique_owner"] = PassIf(UniqueOwner(provider) = "Yes")
      /\ EvaluateGates(host, gate)["knhv_boot_l0"] =
           PassIf(provider.answered /\ "KnhvBootL0Active" \in provider.flags)
      /\ EvaluateGates(host, gate)["vbs_hvci"] =
           CASE vbs = "Yes" \/ hvci = "Yes" -> "Fail"
             [] vbs = "No" /\ hvci = "No" -> "Pass"
             [] OTHER -> "Unknown"
  BY Zenon DEF EvaluateGates, provider, vbs, hvci
<1> QED BY <1>1, <1>2, <1>3, <1>4, <1>5, Zenon DEF PassIf

\* The state after an evaluation satisfies what GateFailsClosed says.
LEMMA EvaluationFailsClosed ==
  ASSUME NEW o \in Observations,
         evaluation' = [kind |-> "Observation", observation |-> o, gate |-> EvaluateOwnerGate(o)]
  PROVE  GateFailsClosed'
<1>1. o.owner \in Owners
  BY OwnerGateAssumption, Zenon
<1>2. /\ evaluation'.kind = "Observation" /\ evaluation'.observation = o
      /\ evaluation'.gate = EvaluateOwnerGate(o)
  BY Zenon
<1>3. GateResultIsValid'
  BY <1>1, <1>2, GateResultValid, Zenon DEF GateResultIsValid
<1>4. NativeOnlyOnFullEvidence'
  <2> SUFFICES ASSUME EvaluateOwnerGate(o).action = "AcquireNative"
               PROVE  /\ \A e \in ForeignEvidence : o[e] = "Clear"
                      /\ o.handoff = "Present" /\ o.state = "Active"
                      /\ EvaluateOwnerGate(o).generation # 0
    BY <1>2, Zenon DEF NativeOnlyOnFullEvidence
  <2>1. /\ HasNativeEvidence(o) /\ o.state = "Active" /\ o.generation # 0
        /\ EvaluateOwnerGate(o).generation = o.generation
    BY <1>1, GrantNeedsEvidence, Zenon
  <2> QED BY <2>1, Zenon DEF HasNativeEvidence, ForeignEvidence
<1>5. OwnerGateSeesTheHost' /\ OwnerGateIsStrictest' /\ UnknownStateBlocks'
  BY <1>2, Zenon DEF OwnerGateSeesTheHost, OwnerGateIsStrictest, UnknownStateBlocks
<1> QED BY <1>3, <1>4, <1>5, Zenon DEF GateFailsClosed

LEMMA PreflightFailsClosed ==
  ASSUME NEW host \in Hosts, NEW profile \in {"native-l0", "host-only"},
         evaluation' = RunPreflight(host, profile)
  PROVE  GateFailsClosed'
<1> DEFINE o == BuildOwnerObservation(host)
           gate == EvaluateOwnerGate(o)
           gates == EvaluateGates(host, gate)
           ready == NativeReady(gates, profile)
<1>1. host.cpuid \in CpuidAnswers
  BY OwnerGateAssumption, Zenon
<1>2. o.owner \in Owners
  <2>1. o.owner = ProviderOwner(QueryProvider(host.provider))
    BY Zenon DEF BuildOwnerObservation
  <2> QED BY <2>1, Zenon DEF ProviderOwner, Owners
<1>3. /\ evaluation'.kind = "Preflight" /\ evaluation'.host = host /\ evaluation'.profile = profile
      /\ evaluation'.observation = o /\ evaluation'.gate = gate /\ evaluation'.gates = gates
      /\ evaluation'.ready = ready
      /\ evaluation'.exit = IF profile = "host-only" \/ ready THEN "Success" ELSE "Blocked"
  BY Zenon DEF RunPreflight
<1>4. gates["owner"] = OwnerGateState(gate) /\ gates["vmx_firmware"] = "Unknown"
      /\ "vmx_firmware" \in DOMAIN gates
  BY Zenon DEF EvaluateGates
<1>5. ~ready
  BY <1>4, Zenon DEF NativeReady
<1>6. gates.owner = gates["owner"]
  BY Zenon
<1>7. ASSUME gate.action = "AcquireNative"
      PROVE  /\ HasNativeEvidence(o) /\ o.state = "Active" /\ gate.generation # 0
  BY <1>2, <1>7, GrantNeedsEvidence, Zenon
<1>8. IsOwnerGateResultValid(gate)
  BY <1>2, GateResultValid, Zenon
<1>9. ASSUME gates["owner"] = "Pass"
      PROVE  /\ \A s \in DOMAIN host.services : host.services[s] = "stopped"
             /\ host.whp # "present" /\ host.cpuid = "bare"
             /\ host.vbs = 0 /\ host.hvci = 0
             /\ host.provider.flags \cap OwnerFlags = {"KnhvBootL0Active"}
             /\ \A g \in {"hypervisor_bit", "vbs_hvci", "device", "unique_owner", "knhv_boot_l0"} :
                  gates[g] = "Pass"
  <2>1. OwnerGateState(EvaluateOwnerGate(BuildOwnerObservation(host))) = "Pass"
    BY <1>4, <1>9, Zenon
  <2> HIDE DEF gates
  <2>2. /\ \A s \in DOMAIN host.services : host.services[s] = "stopped"
        /\ host.whp # "present" /\ host.cpuid = "bare"
        /\ host.vbs = 0 /\ host.hvci = 0
        /\ host.provider.flags \cap OwnerFlags = {"KnhvBootL0Active"}
    BY <1>1, <2>1, PassedGate, ZenonT(60)
  <2>3. \A g \in {"hypervisor_bit", "vbs_hvci", "device", "unique_owner", "knhv_boot_l0"} :
          EvaluateGates(host, EvaluateOwnerGate(BuildOwnerObservation(host)))[g] = "Pass"
    BY <1>1, <2>1, StrictestGate, Zenon
  <2> QED BY <2>2, <2>3, Zenon DEF gates
<1> HIDE DEF o, gate, gates, ready
<1>10. GateResultIsValid'
  BY <1>3, <1>8, Zenon DEF GateResultIsValid
<1>11. NativeOnlyOnFullEvidence'
  BY <1>3, <1>7, Zenon DEF NativeOnlyOnFullEvidence, HasNativeEvidence, ForeignEvidence
<1>12. OwnerGateSeesTheHost'
  BY <1>3, <1>6, <1>9 DEF OwnerGateSeesTheHost
<1>13. OwnerGateIsStrictest'
  BY <1>3, <1>6, <1>9, Zenon DEF OwnerGateIsStrictest
<1>14. UnknownStateBlocks'
  BY <1>3, <1>5, Zenon DEF UnknownStateBlocks
<1> QED BY <1>10, <1>11, <1>12, <1>13, <1>14, Zenon DEF GateFailsClosed

\* EvaluateOwnerGate and the preflight fail closed on every observation and every
\* host: whatever a probe answers, or does not.
THEOREM GateStaysClosed == OwnerGateSpec => []GateFailsClosed
<1>1. OwnerGateInit => GateFailsClosed
  BY DEF OwnerGateInit, NoEvaluation, GateFailsClosed, GateResultIsValid, NativeOnlyOnFullEvidence,
     OwnerGateSeesTheHost, OwnerGateIsStrictest, UnknownStateBlocks
<1>2. ASSUME GateFailsClosed, [OwnerGateNext]_evaluation PROVE GateFailsClosed'
  <2>1. CASE OwnerGateNext
    BY <2>1, EvaluationFailsClosed, PreflightFailsClosed, Zenon
       DEF OwnerGateNext, Evaluate, PreflightTool
  <2>2. CASE UNCHANGED evaluation
    BY <1>2, <2>2, Zenon DEF GateFailsClosed, GateResultIsValid, NativeOnlyOnFullEvidence,
       OwnerGateSeesTheHost, OwnerGateIsStrictest, UnknownStateBlocks
  <2> QED BY <1>2, <2>1, <2>2, Zenon
<1> QED BY <1>1, <1>2, PTL DEF OwnerGateSpec

=============================================================================
