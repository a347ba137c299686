--------------------------- MODULE FrameAllocator ----------------------------
(***************************************************************************)
(* The physical frame allocator of src/memory.rs.  The bitmap is the set   *)
(* of indices whose bit is set; the words it is split into are left out.   *)
(* Addresses are kept, with their width, because callers hand back         *)
(* addresses and the allocator turns them into indices.                    *)
(***************************************************************************)
EXTENDS Integers, FiniteSets, PageSize

CONSTANTS
  CAPACITY,    \* WORDS * 64, the bits of the bitmap
  ADDRESSES,   \* 2^64, the addresses of a u64
  Regions      \* the <<base, bytes>> an allocator is made for

Bits == 0 .. CAPACITY - 1
Address == 0 .. ADDRESSES - 1
Allocator == [base : Address, frame_count : 1 .. CAPACITY,
              used : SUBSET Bits, next_hint : Bits]

\* new: the error, or "Ok"
NewError(base, bytes) ==
  IF base % PAGE_SIZE # 0 \/ bytes % PAGE_SIZE # 0 THEN "Unaligned"
  ELSE IF bytes \div PAGE_SIZE \notin 1 .. CAPACITY THEN "EmptyRegion"
  ELSE "Ok"

\* The bits beyond the region are marked used.
New(base, bytes) ==
  LET count == bytes \div PAGE_SIZE
  IN [base |-> base, frame_count |-> count,
      used |-> count .. CAPACITY - 1, next_hint |-> 0]

\* new does not check that the region ends within the address space; its
\* callers see to it.
ASSUME FrameSizes ==
  /\ PAGE_SIZE \in Nat \ {0} /\ CAPACITY \in Nat \ {0} /\ ADDRESSES \in Nat
  /\ Regions \subseteq Address \X Nat
  /\ \A r \in Regions : r[1] + r[2] <= ADDRESSES

-----------------------------------------------------------------------------
(* Frames by index and by address. *)

Frames(fa) == 0 .. fa.frame_count - 1

AddressOf(fa, i) == (fa.base + i * PAGE_SIZE) % ADDRESSES

\* Mutant: an address within a frame is taken for the frame's own.
HasIndexUnaligned(fa, address) ==
  /\ address >= fa.base
  /\ (address - fa.base) \div PAGE_SIZE < fa.frame_count

\* index_of: whether it succeeds, and the index.
HasIndex(fa, address) ==
  /\ address % PAGE_SIZE = 0 /\ address >= fa.base
  /\ (address - fa.base) \div PAGE_SIZE < fa.frame_count

IndexOf(fa, address) == (address - fa.base) \div PAGE_SIZE

\* available counts these.
FreeFrames(fa) == {i \in Frames(fa) : i \notin fa.used}

-----------------------------------------------------------------------------
(* allocate looks at every frame once, from the hint on, around the end. *)

Probe(fa, offset) == (fa.next_hint + offset) % fa.frame_count

\* Mutant: the search stops one frame short of a full turn.
FreeOffsetsShort(fa) ==
  {o \in Frames(fa) : o + 1 < fa.frame_count /\ Probe(fa, o) \notin fa.used}

FreeOffsets(fa) == {o \in Frames(fa) : Probe(fa, o) \notin fa.used}

\* The frame allocate takes, unless it returns OutOfMemory.
Pick(fa) ==
  Probe(fa, CHOOSE o \in FreeOffsets(fa) : \A p \in FreeOffsets(fa) : o <= p)

\* Mutant: the hint is not wrapped.
AllocateNoWrap(fa) ==
  IF FreeOffsets(fa) = {} THEN fa
  ELSE [fa EXCEPT !.used = @ \cup {Pick(fa)}, !.next_hint = Pick(fa) + 1]

Allocate(fa) ==
  IF FreeOffsets(fa) = {} THEN fa
  ELSE [fa EXCEPT !.used = @ \cup {Pick(fa)},
                  !.next_hint = (Pick(fa) + 1) % fa.frame_count]

-----------------------------------------------------------------------------
(* reserve and free; an error changes nothing. *)

ReserveError(fa, start, pages) ==
  IF start % PAGE_SIZE # 0 THEN "Unaligned"
  ELSE IF ~HasIndex(fa, start) THEN "OutOfRange"
  ELSE IF IndexOf(fa, start) + pages > fa.frame_count THEN "OutOfRange"
  ELSE "Ok"

Reserved(fa, start, pages) ==
  IndexOf(fa, start) .. IndexOf(fa, start) + pages - 1

\* Mutant: the last page of the range is left out.
ReserveShort(fa, start, pages) ==
  [fa EXCEPT !.used = @ \cup Reserved(fa, start, pages - 1)]

Reserve(fa, start, pages) ==
  [fa EXCEPT !.used = @ \cup Reserved(fa, start, pages)]

FreeError(fa, address) ==
  IF ~HasIndex(fa, address) THEN "OutOfRange"
  ELSE IF IndexOf(fa, address) \notin fa.used THEN "DoubleFree"
  ELSE "Ok"

\* Mutant: the hint is not moved back.
FreeKeepsHint(fa, address) == [fa EXCEPT !.used = @ \ {IndexOf(fa, address)}]

Free(fa, address) ==
  LET i == IndexOf(fa, address)
  IN [fa EXCEPT !.used = @ \ {i}, !.next_hint = IF i < @ THEN i ELSE @]

=============================================================================
