---------------------------- MODULE NestedAccess ----------------------------
(***************************************************************************)
(* How the nested VMX model reads and writes guest memory                  *)
(* (nested/nested_memory.cpp, and the address checks of                    *)
(* nested/nested_vmcs.cpp): a linear range is cut at page boundaries, each *)
(* piece is translated and moved on its own.  Scaled down: addresses are   *)
(* below Word, which is 2^64 in the code.                                  *)
(* External: the callbacks translate, read and write, which may refuse any *)
(* page and map neighbouring pages apart.                                  *)
(***************************************************************************)
EXTENDS Integers, Sequences

CONSTANTS
  Word,       \* number of addresses
  LowWord,    \* 2^linear_address_bits
  PageSize,   \* kNestedPageSize
  MaxLength,  \* longest access
  Frames      \* guest-physical pages

ASSUME AccessConstants ==
  /\ PageSize \in Nat \ {0} /\ Word % PageSize = 0 /\ Word % LowWord = 0
  /\ LowWord % 2 = 0 /\ MaxLength \in Nat \ {0} /\ MaxLength < Word - LowWord
  /\ Frames \subseteq Nat

VARIABLE access  \* the access made, with its result

NoAccess == [made |-> FALSE]
Unmapped == -1

----------------------------------------------------------------------------

\* The bits above the address width all equal its sign bit.
IsCanonicalAddress(value) ==
  LET sign == (value \div (LowWord \div 2)) % 2
      upper == value \div LowWord
  IN IF sign = 0 THEN upper = 0 ELSE upper = (Word \div LowWord) - 1

IsLinearRangeCanonical(linear, length) ==
  /\ length # 0 /\ linear <= Word - 1 - (length - 1)
  /\ IsCanonicalAddress(linear) /\ IsCanonicalAddress(linear + length - 1)

\* memory.translate: the page table of the call, relative to its first page,
\* names a frame for the pages it maps.
TranslateLinear(table, first, linear) ==
  LET frame == table[(linear \div PageSize) - first]
  IN IF frame = Unmapped THEN Unmapped ELSE frame * PageSize + (linear % PageSize)

Smaller(a, b) == IF a < b THEN a ELSE b

\* Mutant: the whole rest is moved through the first translation.
ChunkWhole(remaining, linear) == remaining

Chunk(remaining, linear) == Smaller(remaining, PageSize - (linear % PageSize))

\* The loop of ReadLinear and of WriteLinear: the guest-physical bytes moved,
\* in order, and whether all were.
RECURSIVE Pieces(_, _, _, _, _, _)
Pieces(table, backed, first, current, remaining, done) ==
  LET gpa == TranslateLinear(table, first, current)
      chunk == Chunk(remaining, current)
      bytes == [i \in 1 .. chunk |-> gpa + i - 1]
  IN IF remaining = 0 THEN [ok |-> TRUE, bytes |-> done]
     ELSE IF gpa = Unmapped THEN [ok |-> FALSE, bytes |-> done]
     ELSE IF \E i \in 1 .. chunk : (gpa + i - 1) \div PageSize \notin backed
     THEN [ok |-> FALSE, bytes |-> done]
     ELSE IF remaining # chunk /\ current > Word - 1 - chunk
     THEN [ok |-> FALSE, bytes |-> done \o bytes]
     ELSE Pieces(table, backed, first, current + chunk, remaining - chunk, done \o bytes)

ReadLinear(table, backed, linear, length) ==
  Pieces(table, backed, linear \div PageSize, linear, length, <<>>)

\* A write that fails keeps the pieces already written.
WriteLinear(table, backed, linear, length) ==
  Pieces(table, backed, linear \div PageSize, linear, length, <<>>)

----------------------------------------------------------------------------
Access(kind, linear, length, table, backed) ==
  access' = [made |-> TRUE, linear |-> linear, length |-> length, table |-> table,
              backed |-> backed, canonical |-> IsLinearRangeCanonical(linear, length),
              result |-> IF IsLinearRangeCanonical(linear, length)
                         THEN IF kind = "Read" THEN ReadLinear(table, backed, linear, length)
                              ELSE WriteLinear(table, backed, linear, length)
                         ELSE [ok |-> FALSE, bytes |-> <<>>]]

\* Linear pages one access can touch.
Span == 0 .. (MaxLength + PageSize - 2) \div PageSize

AccessInit == access = NoAccess

AccessNext ==
  ~access.made /\
  \E kind \in {"Read", "Write"}, linear \in 0 .. Word - 1, length \in 1 .. MaxLength,
     table \in [Span -> Frames \cup {Unmapped}], backed \in {Frames, Frames \ {0}} :
    Access(kind, linear, length, table, backed)

AccessSpec == AccessInit /\ [][AccessNext]_access

----------------------------------------------------------------------------
\* What an address means, byte by byte: sign extension, and one translation
\* for each byte.
IsSignExtended(a) == a < LowWord \div 2 \/ a >= Word - (LowWord \div 2)

ByteOf(i) ==
  LET a == access.linear + i
      gpa == TranslateLinear(access.table, access.linear \div PageSize, a)
  IN IF gpa = Unmapped THEN Unmapped
     ELSE IF gpa \div PageSize \in access.backed THEN gpa ELSE Unmapped

\* IsLinearRangeCanonical looks at the two ends only and must not wrap: it
\* accepts exactly the ranges all of whose bytes are canonical addresses.
RangeIsCanonical ==
  access.made =>
    (access.canonical <=>
       \A i \in 0 .. access.length - 1 :
         access.linear + i < Word /\ IsSignExtended(access.linear + i))

\* ReadLinear and WriteLinear cut a range at its page boundaries and move each
\* piece through its own translation.  A range that is moved is moved byte for
\* byte; a range that cannot be moved fails, having moved at most whole pieces
\* before the first byte that could not be.
AccessIsBytewise ==
  (access.made /\ access.canonical) =>
    LET done == access.result.bytes IN
    /\ \A i \in 1 .. Len(done) : done[i] = ByteOf(i - 1)
    /\ access.result.ok <=> (\A i \in 0 .. access.length - 1 : ByteOf(i) # Unmapped)
    /\ access.result.ok => Len(done) = access.length
    /\ ~access.result.ok => (access.linear + Len(done)) % PageSize = 0 \/ done = <<>>

\* ReadLinear and WriteLinear: the canonical check and the walk in pieces agree
\* with the meaning of a range, byte by byte.
AccessIsExact ==
  /\ RangeIsCanonical
  /\ AccessIsBytewise
=============================================================================
