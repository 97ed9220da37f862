---------------------------- MODULE ControlDevice ----------------------------
(***************************************************************************)
(* The control device (control_device.cpp): clients open file objects and  *)
(* send IOCTLs that register sessions, query and release them, acquire and *)
(* release owner leases, and run nested instructions.  Threads send        *)
(* requests concurrently, also on one file object.  A handler's body runs  *)
(* under state_lock and is one step; entering the dispatch routine and     *)
(* completing the request are steps of their own.  METHOD_BUFFERED gives   *)
(* the handler a private copy of the input, so the input is chosen when    *)
(* the handler runs.                                                       *)
(*                                                                         *)
(* The I/O manager is external: a file object is closed once and only when *)
(* none of its requests is in flight, its address may then be used by the  *)
(* next open, and the driver is unloaded only when no file object is open. *)
(* The open that registered a session and the opens that ran instructions  *)
(* in its nested processor are recorded as history.                        *)
(***************************************************************************)
EXTENDS Provider

CONSTANTS
    Files,              \* addresses of file objects
    Threads,            \* requests that may be in flight
    MaxSessions,        \* kMaxClientSessions
    GenerationWidth,    \* 2^32, the range of a generation
    MaxClient,          \* bound: registrations explored
    MaxOpens            \* bound: opens explored

ASSUME ControlAssumption ==
    /\ MaxSessions \in Nat \ {0} /\ MaxClient \in Nat /\ MaxOpens \in Nat
    /\ GenerationWidth \in Nat \ {0} /\ GenerationWidth % 2 = 0
    /\ "none" \notin Files

VARIABLES
    device,             \* "deleted" or "ready"
    nested_test_driver, \* the image: KNHV-NestedTest.sys or KNHV-Control.sys
    capabilities,       \* the snapshot taken when the driver is loaded
    file,               \* file[f]: number of the open that uses f, 0 if closed
    opens,              \* opens so far
    sessions,           \* the session table
    active_sessions,
    next_client,
    irp                 \* irp[t]: file object and reply of a request in flight

loadVars == <<device, nested_test_driver, capabilities>>
tableVars == <<sessions, active_sessions, next_client>>
controlVars == <<loadVars, file, opens, tableVars, irp>>

Slots == 1 .. MaxSessions

NoFile == "none"
NoKey == [client_id |-> 0, generation |-> 0]

ZeroSession ==
    [active |-> FALSE, nested_ready |-> FALSE, owner_file |-> NoFile,
     key |-> NoKey, virtualization_ready |-> FALSE,
     lease |-> NoLease, lease_active |-> FALSE, opener |-> 0, nestedBy |-> {}]

\* A reply names the session it is about and the open that registered it.
NoReply == [key |-> NoKey, opener |-> 0]
NoIrp == [file |-> NoFile, stage |-> "idle", reply |-> NoReply]

\* owner_generation is 1: the exclusive or flips the lowest bit.
XorOne(n) == IF n % 2 = 1 THEN n - 1 ELSE n + 1

SessionGeneration(client_id) ==
    LET generation == XorOne(client_id % GenerationWidth)
    IN IF generation = 0 THEN 1 ELSE generation

KeyOf(client_id) == [client_id |-> client_id,
                     generation |-> SessionGeneration(client_id)]

\* Keys a client can name: those handed out at some time and an unset one.
Keys == {NoKey} \cup {KeyOf(c) : c \in 1 .. next_client}

LeaseType == [owner_id : Nat, generation : Nat, mode : LeaseModes,
              flags : SUBSET LeaseFlags]

SessionType ==
    [active : BOOLEAN, nested_ready : BOOLEAN, owner_file : Files \cup {NoFile},
     key : Keys, virtualization_ready : BOOLEAN, lease : LeaseType,
     lease_active : BOOLEAN, opener : Nat, nestedBy : SUBSET Nat]

ControlTypeOK ==
    /\ device \in {"ready", "deleted"}
    /\ nested_test_driver \in BOOLEAN
    /\ file \in [Files -> 0 .. opens]
    /\ opens \in 0 .. MaxOpens
    /\ active_sessions \in 0 .. MaxSessions
    /\ next_client \in 0 .. MaxClient
    /\ sessions \in [Slots -> SessionType]
    /\ irp \in [Threads -> [file : Files \cup {NoFile},
                            stage : {"idle", "entered", "served"},
                            reply : [key : Keys, opener : Nat]]]

ControlInit ==
    /\ device = "deleted"
    /\ nested_test_driver = FALSE
    /\ capabilities = MakeFallbackCapabilitySnapshot(FALSE, FALSE)
    /\ file = [f \in Files |-> 0]
    /\ opens = 0
    /\ sessions = [s \in Slots |-> ZeroSession]
    /\ active_sessions = 0
    /\ next_client = 0
    /\ irp = [t \in Threads |-> NoIrp]

-----------------------------------------------------------------------------
(* The driver and its files *)

LoadedCapabilities(nested, outer_l0) ==
    LET fallback == MakeFallbackCapabilitySnapshot(outer_l0, FALSE)
    IN [fallback EXCEPT
          !.owner_generation = 1, !.boot_generation = 1,
          !.features = @ \cup IF nested THEN {"Ept", "Vpid", "NestedVmx",
                                              "VirtualTlbFlush"} ELSE {},
          !.flags = @ \cup IF nested THEN {"NestedVmx", "SyntheticSnapshot"}
                                     ELSE {}]

\* The device extension is zeroed; outer_l0 is what CPUID reports.
KnHvInitializeControlDriver(nested, outer_l0) ==
    /\ device = "deleted"
    /\ device' = "ready"
    /\ nested_test_driver' = nested
    /\ capabilities' = LoadedCapabilities(nested, outer_l0)
    /\ sessions' = [s \in Slots |-> ZeroSession]
    /\ active_sessions' = 0
    /\ next_client' = 0
    /\ UNCHANGED <<file, opens, irp>>

\* The remove lock has no other holder: no file object is open.
KnHvUnloadControlDriver ==
    /\ device = "ready"
    /\ \A f \in Files : file[f] = 0
    /\ device' = "deleted"
    /\ sessions' = [s \in Slots |-> ZeroSession]
    /\ active_sessions' = 0
    /\ UNCHANGED <<nested_test_driver, capabilities, file, opens, next_client, irp>>

KnHvDispatchCreate(f) ==
    /\ device = "ready"
    /\ file[f] = 0 /\ opens < MaxOpens
    /\ opens' = opens + 1
    /\ file' = [file EXCEPT ![f] = opens']
    /\ UNCHANGED <<loadVars, tableVars, irp>>

SessionsOf(f) == {s \in Slots : sessions[s].active /\ sessions[s].owner_file = f}

\* Mutant: only the first session of the file is released.
ReleaseOneSessionForFile(f) ==
    LET first == {s \in SessionsOf(f) : \A r \in SessionsOf(f) : s <= r}
    IN /\ sessions' = [s \in Slots |->
                         IF s \in first THEN ZeroSession ELSE sessions[s]]
       /\ active_sessions' = IF first # {} THEN active_sessions - 1
                                           ELSE active_sessions

ReleaseSessionsForFile(f) ==
    /\ sessions' = [s \in Slots |->
                      IF s \in SessionsOf(f) THEN ZeroSession ELSE sessions[s]]
    /\ active_sessions' = IF active_sessions < Cardinality(SessionsOf(f)) THEN 0
                          ELSE active_sessions - Cardinality(SessionsOf(f))

KnHvDispatchClose(f) ==
    /\ device = "ready"
    /\ file[f] # 0
    /\ \A t \in Threads : irp[t].file # f
    /\ ReleaseSessionsForFile(f)
    /\ file' = [file EXCEPT ![f] = 0]
    /\ UNCHANGED <<loadVars, opens, next_client, irp>>

-----------------------------------------------------------------------------
(* Requests *)

\* KnHvDispatchDeviceControl up to the handler: the device is initialized, the
\* file object went through KnHvDispatchCreate, the remove lock is acquired.
EnterDeviceControl(t, f) ==
    /\ device = "ready"
    /\ irp[t] = NoIrp
    /\ file[f] # 0
    /\ irp' = [irp EXCEPT ![t].file = f, ![t].stage = "entered"]
    /\ UNCHANGED <<loadVars, file, opens, tableVars>>

Entered(t) == irp[t].stage = "entered"

\* A handler ends with its reply still to be copied to the caller.
Reply(t, reply) == irp' = [irp EXCEPT ![t].stage = "served", ![t].reply = reply]

\* The output is written and the remove lock released.
CompleteDeviceControl(t) ==
    /\ irp[t].stage = "served"
    /\ irp' = [irp EXCEPT ![t] = NoIrp]
    /\ UNCHANGED <<loadVars, file, opens, tableVars>>

\* A buffer that is short, long or ill-versioned, and an unknown IOCTL.
RefuseInput(t) ==
    /\ Entered(t)
    /\ Reply(t, NoReply)
    /\ UNCHANGED <<loadVars, file, opens, tableVars>>

\* The live session with this key and owner file: one slot or none.
FindSession(key, f) ==
    {s \in Slots : /\ key.client_id # 0 /\ key.generation # 0
                   /\ sessions[s].active
                   /\ sessions[s].owner_file = f
                   /\ sessions[s].key = key}

\* The first free slot, unless the count says that the table is full.
AllocateSession ==
    LET free == {s \in Slots : ~ sessions[s].active}
    IN IF active_sessions >= MaxSessions THEN {}
       ELSE {s \in free : \A r \in free : s <= r}

\* verified is the outcome of IsKnownTestProvider.
MakeProviderRequest(kind, verified) ==
    [mode |-> IF kind = "KnownLegacyAdapter" THEN "KnownLegacyCompat" ELSE kind,
     identity_verified |-> nested_test_driver /\ verified,
     legacy_manifest_match |-> FALSE, requested_features |-> {}]

\* FillSession with InitializeNestedSession.
FillSession(f, client_id, choice) ==
    [ZeroSession EXCEPT
       !.active = TRUE, !.owner_file = f, !.key = KeyOf(client_id),
       !.virtualization_ready =
           /\ choice.status = "Success" /\ choice.provider # "LoadOnly"
           /\ "SyntheticSnapshot" \notin capabilities.flags,
       !.nested_ready = nested_test_driver /\ choice.status = "Success",
       !.opener = file[f]]

HandleRegisterClient(t, kind, verified) ==
    LET f == irp[t].file
        choice == SelectProvider(MakeProviderRequest(kind, verified), capabilities)
    IN /\ Entered(t)
       /\ UNCHANGED <<loadVars, file, opens>>
       /\ IF choice.status \in {"Success", "LoadOnly"} /\ AllocateSession # {}
          THEN /\ next_client < MaxClient
               /\ next_client' = next_client + 1
               /\ active_sessions' = active_sessions + 1
               /\ \E s \in AllocateSession :
                    sessions' = [sessions EXCEPT
                                   ![s] = FillSession(f, next_client', choice)]
               /\ Reply(t, [key |-> KeyOf(next_client'), opener |-> file[f]])
          ELSE Reply(t, NoReply) /\ UNCHANGED tableVars

HandleQuerySession(t, key) ==
    LET found == FindSession(key, irp[t].file)
    IN /\ Entered(t)
       /\ \/ found = {} /\ Reply(t, NoReply)
          \/ \E s \in found : Reply(t, [key |-> sessions[s].key,
                                        opener |-> sessions[s].opener])
       /\ UNCHANGED <<loadVars, file, opens, tableVars>>

HandleReleaseSession(t, key) ==
    LET found == FindSession(key, irp[t].file)
    IN /\ Entered(t)
       /\ sessions' = [s \in Slots |->
                         IF s \in found THEN ZeroSession ELSE sessions[s]]
       /\ active_sessions' = IF found # {} /\ active_sessions # 0
                             THEN active_sessions - 1 ELSE active_sessions
       /\ Reply(t, NoReply)
       /\ UNCHANGED <<loadVars, file, opens, next_client>>

\* One lease for a session; a synthetic one needs its nested processor.
LeaseIsGranted(s, request, response) ==
    /\ ~ sessions[s].lease_active
    /\ response.status = "Success"
    /\ request.mode = "SyntheticLab" => sessions[s].nested_ready

HandleAcquireLeaseV2(t, key, mode, flags) ==
    LET request == [session |-> key, mode |-> mode, flags |-> flags,
                    hardware |-> {}, provider |-> {}, policy |-> {}]
        response == SelectProviderV2(request,
                                     MakeCapabilitySnapshotV2(capabilities))
    IN /\ Entered(t)
       /\ sessions' = [s \in Slots |->
            IF /\ s \in FindSession(key, irp[t].file)
               /\ LeaseIsGranted(s, request, response)
            THEN [sessions[s] EXCEPT !.lease = response.lease, !.lease_active = TRUE]
            ELSE sessions[s]]
       /\ Reply(t, NoReply)
       /\ UNCHANGED <<loadVars, file, opens, active_sessions, next_client>>

\* The lease presented must be valid and the one the session holds.
HandleReleaseLeaseV2(t, key, lease) ==
    /\ Entered(t)
    /\ sessions' = [s \in Slots |->
         IF /\ IsOwnerLeaseV2Valid(lease) /\ lease.mode # "None"
            /\ s \in FindSession(key, irp[t].file)
            /\ sessions[s].lease_active /\ sessions[s].lease = lease
         THEN [sessions[s] EXCEPT !.lease = NoLease, !.lease_active = FALSE]
         ELSE sessions[s]]
    /\ Reply(t, NoReply)
    /\ UNCHANGED <<loadVars, file, opens, active_sessions, next_client>>

\* Run the nested processor of a session; what it does is up to NestedVmx.
UseNested(t, key) ==
    /\ Entered(t) /\ nested_test_driver
    /\ sessions' = [s \in Slots |->
         IF s \in FindSession(key, irp[t].file) /\ sessions[s].nested_ready
         THEN [sessions[s] EXCEPT !.nestedBy = @ \cup {file[irp[t].file]}]
         ELSE sessions[s]]
    /\ Reply(t, NoReply)
    /\ UNCHANGED <<loadVars, file, opens, active_sessions, next_client>>

HandleNestedInstruction(t, key) == UseNested(t, key)
HandleReflectExit(t, key) == UseNested(t, key)

\* Leases a client may present: every valid one (RefuseInput has the others).
LeaseShapes == {lease \in [owner_id : {1}, generation : {1},
                           mode : LeaseModes \ {"None"}, flags : SUBSET LeaseFlags] :
                  IsOwnerLeaseV2Valid(lease)}
Leases == {[lease EXCEPT !.owner_id = id] : lease \in LeaseShapes, id \in 1 .. next_client}

Handle(t) ==
    \/ RefuseInput(t)
    \/ \E kind \in ProviderKinds \ {"None"}, verified \in BOOLEAN :
         HandleRegisterClient(t, kind, verified)
    \/ \E key \in Keys :
         \/ HandleQuerySession(t, key)
         \/ HandleReleaseSession(t, key)
         \/ \E mode \in LeaseModes, flags \in SUBSET {"ReadOnly"} :
              HandleAcquireLeaseV2(t, key, mode, flags)
         \/ \E lease \in Leases : HandleReleaseLeaseV2(t, key, lease)
         \/ HandleNestedInstruction(t, key)
         \/ HandleReflectExit(t, key)

ControlNext ==
    \/ \E nested, outer_l0 \in BOOLEAN : KnHvInitializeControlDriver(nested, outer_l0)
    \/ KnHvUnloadControlDriver
    \/ \E f \in Files : KnHvDispatchCreate(f) \/ KnHvDispatchClose(f)
    \/ \E t \in Threads, f \in Files : EnterDeviceControl(t, f)
    \/ \E t \in Threads : Handle(t) \/ CompleteDeviceControl(t)

ControlSpec == ControlInit /\ [][ControlNext]_controlVars

-----------------------------------------------------------------------------
(* Properties *)

\* The count that AllocateSession and the limit rely on is the number of active
\* slots, through releases by key, by file and by unload: a table that is not
\* full is never reported busy, and no session overwrites another.
CountIsTableSize ==
    active_sessions = Cardinality({s \in Slots : sessions[s].active})

\* A session ends with the open that registered it.  File object addresses are
\* reused, so a session left behind would be inherited by the next open there
\* (KnHvDispatchClose, ReleaseSessionsForFile).
SessionsDieWithTheirOpen ==
    \A s \in Slots : sessions[s].active =>
        sessions[s].opener # 0 /\ file[sessions[s].owner_file] = sessions[s].opener

\* The owner of a session can always name it: the key it was given finds its
\* slot and no other, whatever the generation came out as (HandleRegisterClient
\* against FindSession).
EverySessionIsFound ==
    \A s \in Slots : sessions[s].active =>
        FindSession(sessions[s].key, sessions[s].owner_file) = {s}

\* A lease that was granted belongs to its session, is the synthetic one, and is
\* one that HandleReleaseLeaseV2 accepts back; no session of either image claims
\* to be ready for virtualization ("that lease is a laboratory model and never
\* authorizes physical VMX").
LeasesAreReturnable ==
    \A s \in Slots :
        /\ ~ sessions[s].virtualization_ready
        /\ sessions[s].lease_active =>
             /\ IsOwnerLeaseV2Valid(sessions[s].lease)
             /\ sessions[s].lease.owner_id = sessions[s].key.client_id
             /\ sessions[s].lease.mode = "SyntheticLab" /\ sessions[s].nested_ready

\* A slot that is not in use is blank, one that is was filled by a registration
\* from a file object, under a key handed out (FillSession, ReleaseSessionsForFile).
SlotsAreBlankOrFilled ==
    \A s \in Slots :
        IF sessions[s].active
        THEN /\ sessions[s].owner_file \in Files
             /\ sessions[s].key \in {KeyOf(c) : c \in 1 .. next_client}
        ELSE sessions[s] = ZeroSession

\* The snapshot is the one the loaded image was given; no platform in it lets
\* SelectProvider promise more than the laboratory model.
SnapshotIsLoaded ==
    /\ SnapshotIsValid(capabilities)
    /\ \/ capabilities = MakeFallbackCapabilitySnapshot(FALSE, FALSE)
       \/ \E nested, outer_l0 \in BOOLEAN :
             capabilities = LoadedCapabilities(nested, outer_l0)

\* A request in flight holds its file object open, and an open file object the
\* device (the remove lock and the I/O manager's reference).
RequestsHoldTheirFile ==
    /\ \A t \in Threads :
          IF irp[t].stage = "idle" THEN irp[t] = NoIrp
          ELSE irp[t].file \in Files /\ file[irp[t].file] # 0
    /\ device = "deleted" => \A f \in Files : file[f] = 0

\* The nested processor of a session has only run instructions of the open that
\* registered the session: slots are reused, their nested state is not.
NestedStateIsPrivate ==
    \A s \in Slots : sessions[s].nestedBy \subseteq {sessions[s].opener}

\* What a thread is told is about a session its own open registered, although
\* the reply is copied after state_lock was released.
RepliesAreOwn ==
    \A t \in Threads : irp[t].reply # NoReply =>
        irp[t].reply.opener = file[irp[t].file]

\* control_device.cpp under concurrent requests, closes and unload: the count is
\* that of the table, a session lives exactly as long as its open, is found by
\* its key and by no other open, and neither its lease, its nested processor nor
\* a reply about it is anyone else's.
SessionsArePrivate ==
  /\ ControlTypeOK
  /\ SnapshotIsLoaded
  /\ RequestsHoldTheirFile
  /\ SlotsAreBlankOrFilled
  /\ CountIsTableSize
  /\ SessionsDieWithTheirOpen
  /\ EverySessionIsFound
  /\ LeasesAreReturnable
  /\ NestedStateIsPrivate
  /\ RepliesAreOwn
=============================================================================
