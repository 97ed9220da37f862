-------------------------------- MODULE Ept ---------------------------------
(***************************************************************************)
(* The pure part of ept/ept_model.cpp: EPT pointers, mappings, the nested  *)
(* lookup and the hook rate budget.  Addresses and counts are integers of  *)
(* WordBits bits; every call is one step from the initial state, and the   *)
(* properties compare what it returns with a reference definition.         *)
(***************************************************************************)
EXTENDS Integers

CONSTANTS
  PageShift,      \* kEptPageShift
  OrderShift,     \* address bits per page order, 9 in the code
  PhysicalBits,   \* kEptMaxPhysicalAddressBits
  WordBits,       \* the width of u64
  MaxPages,       \* kEptMaxMappingPages
  Gpas,           \* guest-physical addresses looked up
  Roots,          \* root_physical of the pointers built
  Rates           \* values of the counts in a rate check

ASSUME EptConstants ==
  /\ PageShift \in Nat /\ PageShift >= 7
  /\ OrderShift \in Nat \ {0}
  /\ PhysicalBits \in Nat /\ PhysicalBits >= PageShift
  /\ WordBits \in Nat /\ WordBits >= PhysicalBits
  /\ Gpas \subseteq 0 .. 2^WordBits - 1

VARIABLE call    \* the call made: its name, its arguments, its result

PageSize == 2^PageShift
MaxWord == 2^WordBits - 1
Permissions == {"Read", "Write", "Execute"}
MemoryTypes == {0, 6}
NoCall == [op |-> "none"]

IsPhysicalAddress(a) == a < 2^PhysicalBits
AddOverflow(a, b) == a > MaxWord - b

----------------------------------------------------------------------------
(* EPT pointers: memory type in bits 0-2, walk length - 1 in bits 3-5,     *)
(* access/dirty in bit 6, the root from bit PageShift up.                  *)

IsEptpConfigValid(c) ==
  /\ c.memoryType \in MemoryTypes /\ c.walk \in 4 .. 5
  /\ c.generation # 0
  /\ IsPhysicalAddress(c.root) /\ c.root % PageSize = 0

BuildEptPointer(c) ==
  c.root + c.memoryType + (c.walk - 1) * 8 + (IF c.accessDirty THEN 64 ELSE 0)

IsEptPointer(raw) ==
  /\ raw % PageSize < 128 /\ raw \div PageSize < 2^(PhysicalBits - PageShift)
  /\ raw % 8 \in MemoryTypes
  /\ ((raw \div 8) % 8) + 1 \in 4 .. 5

\* The pointer holds no generation: the decoded configuration has none.
DecodeEptPointer(raw) ==
  [root |-> (raw \div PageSize) * PageSize, memoryType |-> raw % 8,
   walk |-> ((raw \div 8) % 8) + 1, accessDirty |-> (raw \div 64) % 2 = 1,
   generation |-> 0]

----------------------------------------------------------------------------
(* Mappings. *)

MappingPageSize(m) == 2^(PageShift + m.order * OrderShift)
MappingSpan(m) == m.pages * MappingPageSize(m)

IsEptMappingValid(m) ==
  /\ m.permissions # {} /\ m.generation # 0
  /\ m.order <= 2 /\ m.pages \in 1 .. MaxPages /\ MappingSpan(m) <= MaxWord
  /\ m.guest % MappingPageSize(m) = 0 /\ m.host % MappingPageSize(m) = 0
  /\ IsPhysicalAddress(m.guest) /\ IsPhysicalAddress(m.host)
  /\ ~AddOverflow(m.guest, MappingSpan(m) - 1) /\ ~AddOverflow(m.host, MappingSpan(m) - 1)
  /\ IsPhysicalAddress(m.guest + MappingSpan(m) - 1)
  /\ IsPhysicalAddress(m.host + MappingSpan(m) - 1)

EptMappingContains(m, a) == m.guest <= a /\ a - m.guest < MappingSpan(m)

Denied(status) == [status |-> status, permissions |-> {}, host |-> 0]

\* Mutant: the permissions of the L1 mapping alone are checked and returned.
ResolveByL1(l1, root, a, access) ==
  LET l1Guest == l1.host + (a - l1.guest) IN
  IF l1.generation # root.generation THEN Denied("Stale")
  ELSE IF ~EptMappingContains(l1, a) \/ ~EptMappingContains(root, l1Guest) THEN Denied("NotPresent")
  ELSE IF access \notin l1.permissions THEN Denied("PermissionDenied")
  ELSE [status |-> "Hit", permissions |-> l1.permissions,
        host |-> root.host + (l1Guest - root.guest)]

ResolveNestedEpt(l1, root, a, access) ==
  LET l1Guest == l1.host + (a - l1.guest) IN
  IF ~IsEptMappingValid(l1) \/ ~IsEptMappingValid(root) THEN Denied("Invalid")
  ELSE IF l1.generation # root.generation THEN Denied("Stale")
  ELSE IF ~EptMappingContains(l1, a) THEN Denied("NotPresent")
  ELSE IF access \notin l1.permissions THEN Denied("PermissionDenied")
  ELSE IF ~EptMappingContains(root, l1Guest) THEN Denied("NotPresent")
  ELSE IF root.hostOwned THEN Denied("HostOwned")
  ELSE IF access \notin root.permissions THEN Denied("PermissionDenied")
  ELSE [status |-> "Hit", permissions |-> l1.permissions \cap root.permissions,
        host |-> root.host + (l1Guest - root.guest)]

----------------------------------------------------------------------------
(* The hook rate budget: exits in a window of ticks, hz ticks a second.    *)

IsEptHookRateWithin(max, exits, window, hz) ==
  /\ max # 0 /\ hz # 0 /\ window # 0
  /\ IF window >= hz
     THEN /\ max * (window \div hz) <= MaxWord
          /\ exits <= max * (window \div hz)
     ELSE /\ exits * hz <= MaxWord /\ max * window <= MaxWord
          /\ exits * hz <= max * window

----------------------------------------------------------------------------
Mappings ==
  {m \in [guest : {a \in 0 .. MaxWord : a % PageSize = 0}, pages : 1 .. MaxPages,
          host : {a \in 0 .. MaxWord : a % PageSize = 0}, order : 0 .. 2,
          permissions : SUBSET {"Read", "Write"} \ {{}}, hostOwned : BOOLEAN,
          generation : 1 .. 2] : IsEptMappingValid(m)}

\* What is on the other side of a Root mapping does not depend on L1's view of
\* ownership: hostOwned is looked at on the root mapping only.
ResolveNested ==
  \E root \in Mappings, l1 \in {m \in Mappings : ~m.hostOwned /\ m.generation = 1} :
    call' = [op |-> "resolve", l1 |-> l1, root |-> root]

EncodePointer ==
  \E c \in [root : Roots, memoryType : 0 .. 7, walk : 3 .. 6, accessDirty : BOOLEAN,
            generation : 0 .. 1] :
    /\ IsEptpConfigValid(c)
    /\ call' = [op |-> "build", config |-> c, raw |-> BuildEptPointer(c)]

DecodePointer ==
  \E r \in Roots, low \in 0 .. 255 :
    /\ IsEptPointer(r + low)
    /\ call' = [op |-> "decode", raw |-> r + low, config |-> DecodeEptPointer(r + low)]

CheckRate ==
  \E max, exits, window, hz \in Rates :
    call' = [op |-> "rate", max |-> max, exits |-> exits, window |-> window, hz |-> hz,
             within |-> IsEptHookRateWithin(max, exits, window, hz)]

EptInit == call = NoCall
EptNext == call = NoCall /\ (ResolveNested \/ EncodePointer \/ DecodePointer \/ CheckRate)
EptSpec == EptInit /\ [][EptNext]_call

----------------------------------------------------------------------------
\* The page frames a mapping relates.
Frames(m) ==
  {<<m.guest \div PageSize + i, m.host \div PageSize + i>> :
     i \in 0 .. (MappingSpan(m) \div PageSize) - 1}

\* ResolveNestedEpt: the lookup hits exactly where the composition of the two
\* mappings, frame by frame, is defined, both grant the access, the page is
\* not the host's and the generations agree; it returns the composed address
\* and never a permission that one of the two withholds.
NestedLookupIsComposition ==
  call.op = "resolve" =>
    LET l1 == call.l1
        root == call.root
        nested == {pq \in Frames(l1) \X Frames(root) : pq[1][2] = pq[2][1]}
    IN \A a \in Gpas, access \in Permissions :
         LET r == ResolveNestedEpt(l1, root, a, access)
             targets == {pq[2][2] * PageSize + (a % PageSize) :
                           pq \in {n \in nested : n[1][1] = a \div PageSize}}
         IN /\ r.status = "Hit" <=>
                 /\ targets # {} /\ l1.generation = root.generation /\ ~root.hostOwned
                 /\ access \in l1.permissions \cap root.permissions
            /\ r.status = "Hit" =>
                 /\ r.host \in targets /\ IsPhysicalAddress(r.host)
                 /\ r.permissions \subseteq l1.permissions \cap root.permissions

\* BuildEptPointer and DecodeEptPointer are inverse to each other but for the
\* generation, which the pointer does not carry; every pointer built is one
\* that Decode accepts, and a decoded one is not valid until it is given a
\* generation.
PointerRoundTrip ==
  /\ call.op = "build" =>
       /\ IsEptPointer(call.raw)
       /\ DecodeEptPointer(call.raw) = [call.config EXCEPT !.generation = 0]
  /\ call.op = "decode" =>
       /\ BuildEptPointer(call.config) = call.raw
       /\ ~IsEptpConfigValid(call.config)
       /\ IsEptpConfigValid([call.config EXCEPT !.generation = 1])

\* IsEptHookRateWithin: whatever is accepted really is within the lease's exits
\* per second over the window, on either side of one second and at overflow.
RateIsSound ==
  (call.op = "rate" /\ call.within) => call.exits * call.hz <= call.max * call.window

\* ept_model.cpp, the pure rules: a nested lookup is the composition
\* of the two mappings, pointers survive encoding and decoding, and the rate
\* budget is never exceeded, at overflow included.
EptRulesAreExact ==
  /\ NestedLookupIsComposition
  /\ PointerRoundTrip
  /\ RateIsSound
=============================================================================
