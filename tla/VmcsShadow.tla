----------------------------- MODULE VmcsShadow -----------------------------
(***************************************************************************)
(* VMCS shadowing (nested/vmcs_shadow_model.cpp): VMREAD and VMWRITE of L1 *)
(* are served from an image of the VMCS12 where the bitmaps of a config    *)
(* allow it, and reflected as exits where they do not.                     *)
(*                                                                         *)
(* Capabilities, config, image and access each carry a generation, and     *)
(* each may be behind the others.  External: the caller, which probes the  *)
(* capabilities again, builds one config per generation and begins an      *)
(* image only in storage that holds none.                                  *)
(***************************************************************************)
EXTENDS Integers

CONSTANTS
  ShadowFields,  \* indices of the fields, 0 ..
  Writable,      \* fields whose rule lets L1 write them
  Configs,       \* flags, bitmaps and pointers of the configs a caller may build
  FieldCounts,   \* values of capabilities.max_fields a probe may find
  MaxGeneration  \* bound of the generations

ASSUME ShadowConstants ==
  /\ ShadowFields \subseteq Nat /\ Writable \subseteq ShadowFields
  /\ FieldCounts \subseteq Nat /\ MaxGeneration \in Nat

VARIABLES
  caps,      \* VmcsShadowCapabilities
  config,    \* the config built for each generation, or NoConfig
  image,     \* VmcsShadowImage
  decision,  \* the last VmcsShadowDecision
  retired    \* the highest generation cleared or quarantined

shadowVars == <<caps, config, image, decision, retired>>

Generations == 1 .. MaxGeneration
Flags == {"LinkPointer", "ReadBitmap", "WriteBitmap"}
States == {"Empty", "Active", "Cleared", "Quarantined"}
NoConfig == [generation |-> 0, flags |-> {}, read |-> {}, write |-> {}, pages |-> TRUE]

\* Zeroed storage: its version is 0, so that no operation accepts it.
NoImage == [version |-> 0, state |-> "Empty", generation |-> 0, count |-> 0,
            value |-> [f \in ShadowFields |-> 0], dirty |-> {}]

----------------------------------------------------------------------------
IsVmcsShadowCapabilitiesValid(c) ==
  "Supported" \in c.features /\ c.count # 0 /\ c.generation # 0

\* The bitmaps name no field beyond the count, an enabled pointer names a
\* physical page, a bitmap that is not enabled is zero.
IsVmcsShadowConfigValid(g, c) ==
  /\ g.generation # 0 /\ g.pages
  /\ \A f \in g.read \cup g.write : f < c.count
  /\ "ReadBitmap" \notin g.flags => g.read = {}
  /\ "WriteBitmap" \notin g.flags => g.write = {}

ConfigMatchesCapabilities(c, g) ==
  g.generation = c.generation /\ g.flags \subseteq c.features /\ "Supported" \in c.features

IsVmcsShadowImageValid(i) ==
  /\ i.version = 1 /\ i.state \in States
  /\ IF i.state = "Empty" THEN i.generation = 0 /\ i.count = 0
     ELSE i.generation # 0 /\ i.count # 0 /\ \A f \in i.dirty : f < i.count

Usable(c, g) ==
  IsVmcsShadowCapabilitiesValid(c) /\ IsVmcsShadowConfigValid(g, c)
    /\ ConfigMatchesCapabilities(c, g)

\* The zeroed image with its header filled in.
Begun(c, g) ==
  [NoImage EXCEPT !.version = 1, !.state = "Active", !.generation = g.generation,
                  !.count = c.count]

----------------------------------------------------------------------------
(* The image. *)

BeginVmcsShadow(g) ==
  /\ image = NoImage
  /\ image' = IF Usable(caps, config[g]) THEN Begun(caps, config[g]) ELSE NoImage
  /\ UNCHANGED <<caps, config, decision, retired>>

ClearVmcsShadow(generation) ==
  /\ IsVmcsShadowImageValid(image) /\ image.state = "Active"
  /\ image.generation = generation
  /\ image' = [image EXCEPT !.state = "Cleared"]
  /\ retired' = generation /\ UNCHANGED <<caps, config, decision>>

RebindVmcsShadow(g, expected) ==
  /\ IsVmcsShadowImageValid(image) /\ image.state = "Cleared"
  /\ expected > image.generation
  /\ config[g].generation = expected /\ Usable(caps, config[g])
  /\ image' = Begun(caps, config[g])
  /\ UNCHANGED <<caps, config, decision, retired>>

QuarantineVmcsShadow(generation) ==
  /\ IsVmcsShadowImageValid(image) /\ image.generation = generation
  /\ image.state \in {"Active", "Cleared"}
  /\ image' = [image EXCEPT !.state = "Quarantined"]
  /\ retired' = generation /\ UNCHANGED <<caps, config, decision>>

----------------------------------------------------------------------------
(* An access. *)

\* Mutant: a cleared image still serves.
ClassifyClearedAccess(g, a, generation) ==
  IF ~Usable(caps, g) \/ ~IsVmcsShadowImageValid(image) THEN "Invalid"
  ELSE IF \E x \in {g.generation, image.generation, a.generation} : x # generation
  THEN "Stale"
  ELSE IF image.state = "Quarantined" THEN "Quarantined"
  ELSE IF a.field >= image.count THEN "Invalid"
  ELSE IF a.op = "Write" /\ a.field \notin Writable THEN "ReflectExit"
  ELSE IF a.op = "Write" /\ ("WriteBitmap" \notin g.flags \/ a.field \in g.write)
  THEN "ReflectExit"
  ELSE IF a.op = "Read" /\ ("ReadBitmap" \notin g.flags \/ a.field \in g.read)
  THEN "ReflectExit"
  ELSE "Shadow"

ClassifyVmcsShadowAccess(g, a, generation) ==
  IF ~Usable(caps, g) \/ ~IsVmcsShadowImageValid(image) THEN "Invalid"
  ELSE IF \E x \in {g.generation, image.generation, a.generation} : x # generation
  THEN "Stale"
  ELSE IF image.state = "Quarantined" THEN "Quarantined"
  ELSE IF image.state # "Active" \/ a.field >= image.count THEN "Invalid"
  ELSE IF a.op = "Write" /\ a.field \notin Writable THEN "ReflectExit"
  ELSE IF a.op = "Write" /\ ("WriteBitmap" \notin g.flags \/ a.field \in g.write)
  THEN "ReflectExit"
  ELSE IF a.op = "Read" /\ ("ReadBitmap" \notin g.flags \/ a.field \in g.read)
  THEN "ReflectExit"
  ELSE "Shadow"

\* A value is the generation of the access that wrote it.
Written(i, a) == [i EXCEPT !.value[a.field] = a.generation, !.dirty = @ \cup {a.field}]

ApplyVmcsShadowAccess(g, a, generation) ==
  LET r == ClassifyVmcsShadowAccess(config[g], a, generation) IN
  /\ image' = IF r = "Shadow" /\ a.op = "Write" THEN Written(image, a) ELSE image
  /\ decision' = [result |-> r, generation |-> generation,
                  value |-> IF r = "Shadow" THEN image'.value[a.field] ELSE 0]
  /\ UNCHANGED <<caps, config, retired>>

----------------------------------------------------------------------------
(* The caller, external. *)

Probe ==
  /\ caps.generation < MaxGeneration
  /\ \E n \in FieldCounts, fs \in {Flags \cup {"Supported"}, Flags, {"Supported", "ReadBitmap"}} :
       caps' = [features |-> fs, count |-> n, generation |-> caps.generation + 1]
  /\ UNCHANGED <<config, image, decision, retired>>

\* A config is built once per generation, well or badly.
BuildConfig ==
  \E g \in Generations, c \in Configs :
    /\ config[g] = NoConfig
    /\ config' = [config EXCEPT ![g] =
         [generation |-> g, flags |-> c.flags, read |-> c.read, write |-> c.write,
          pages |-> c.pages]]
    /\ UNCHANGED <<caps, image, decision, retired>>

ShadowInit ==
  /\ caps = [features |-> {}, count |-> 0, generation |-> 0]
  /\ config = [g \in Generations |-> NoConfig]
  /\ image = NoImage
  /\ decision = [result |-> "Invalid", generation |-> 0, value |-> 0]
  /\ retired = 0

ShadowNext ==
  \/ Probe \/ BuildConfig
  \/ \E g \in Generations :
       \/ BeginVmcsShadow(g) \/ ClearVmcsShadow(g) \/ QuarantineVmcsShadow(g)
       \/ \E expected \in Generations : RebindVmcsShadow(g, expected)
       \/ \E f \in ShadowFields, op \in {"Read", "Write"}, ga \in Generations, now \in Generations :
            ApplyVmcsShadowAccess(g, [field |-> f, op |-> op, generation |-> ga], now)

ShadowSpec == ShadowInit /\ [][ShadowNext]_shadowVars

----------------------------------------------------------------------------
ShadowTypeOK ==
  /\ image = NoImage \/ IsVmcsShadowImageValid(image)
  /\ image.dirty \subseteq ShadowFields /\ retired \in 0 .. MaxGeneration
  /\ \A g \in Generations : config[g].generation \in {0, g}

\* BeginVmcsShadow starts from zero, so that RebindVmcsShadow passes nothing of
\* one generation's VMCS12 on to the next: what a read may be served is zero
\* or was written in the generation the image is bound to.
ValuesAreOwnGeneration ==
  /\ \A f \in ShadowFields : image.value[f] \in {0, image.generation}
  /\ decision.result = "Shadow" => decision.value \in {0, decision.generation}

\* The write-back of an image goes by its dirty bitmap: it names exactly the
\* fields that were written since the image was begun.
DirtyIsExact == \A f \in ShadowFields : f \in image.dirty <=> image.value[f] # 0

\* A field L1 may not write, or whose writes the config of this generation
\* intercepts, never gets into the image by any sequence of accesses.
InterceptedFieldsNeverShadowed ==
  \A f \in image.dirty :
    /\ f \in Writable /\ f < image.count
    /\ "WriteBitmap" \in config[image.generation].flags
    /\ f \notin config[image.generation].write

\* An access of a generation that was cleared or quarantined is never served
\* again, whatever the caller probes, configures and binds afterwards.
RetiredGenerationIsGone ==
  [][(decision' # decision /\ decision'.result = "Shadow") =>
       decision'.generation > retired]_shadowVars

\* vmcs_shadow_model.cpp through begin, bind, rebind, clear and quarantine: what is
\* served was written in its own generation by an access its config lets
\* through, the dirty bitmap is exact, and a retired generation is gone.
ShadowKeepsGenerations ==
  /\ []ShadowTypeOK
  /\ []ValuesAreOwnGeneration
  /\ []DirtyIsExact
  /\ []InterceptedFieldsNeverShadowed
  /\ RetiredGenerationIsGone
=============================================================================
