---------------------------- MODULE AddressSpace -----------------------------
(***************************************************************************)
(* The address-space map and the page descriptors of src/paging.rs.        *)
(* Addresses are numbers, cut into table indices and masked as the code    *)
(* does; a descriptor is its output address and its attribute bits.        *)
(***************************************************************************)
EXTENDS Integers, FiniteSets, Option, PageSize, Descriptors

CONSTANTS
  MAPPINGS,            \* the const generic of AddressSpace
  ENTRIES_PER_TABLE,   \* 2^9
  USER_TOP,            \* 2^39
  OUTPUT_TOP,          \* 2^48: OUTPUT_ADDRESS_MASK keeps the bits below
  Virtual,             \* the virtual addresses callers ask for
  Physical             \* the physical addresses callers ask for

\* What one entry of a table of levels 0 .. 3 covers: 2^39, 2^30, 2^21, 2^12.
Reach(level) ==
  CASE level = 3 -> PAGE_SIZE
    [] level = 2 -> PAGE_SIZE * ENTRIES_PER_TABLE
    [] level = 1 -> PAGE_SIZE * ENTRIES_PER_TABLE * ENTRIES_PER_TABLE
    [] level = 0 -> PAGE_SIZE * ENTRIES_PER_TABLE * ENTRIES_PER_TABLE * ENTRIES_PER_TABLE

Mapping ==
  [virtual_address : Virtual, physical_address : Physical,
   permissions : PagePermissions]
Entries == 0 .. MAPPINGS - 1

\* The tables reach up to USER_TOP.  Nothing is assumed of physical addresses: map
\* admits those a descriptor has no bits for.
ASSUME PagingSizes ==
  /\ MAPPINGS \in Nat /\ PAGE_SIZE \in Nat \ {0} /\ ENTRIES_PER_TABLE \in Nat \ {0}
  /\ USER_TOP \in Nat /\ USER_TOP <= Reach(0) * ENTRIES_PER_TABLE
  /\ OUTPUT_TOP \in Nat \ {0}
  /\ Virtual \subseteq Nat /\ Physical \subseteq Nat

ASSUME PagingNone == None \notin Mapping

VARIABLE mappings    \* the array

\* The array is filled from the front.
MapTypeOK ==
  /\ mappings \in [Entries -> Mapping \cup {None}]
  /\ \A i, j \in Entries : i < j /\ mappings[j] # None => mappings[i] # None

MapInit == mappings = [i \in Entries |-> None]

-----------------------------------------------------------------------------
(* map and mapping_at *)

Present == {i \in Entries : mappings[i] # None}
Vacant == Entries \ Present

\* Mutant of Unaligned: only the physical address is looked at.
UnalignedPhysical(m) == m.physical_address % PAGE_SIZE # 0

Unaligned(m) ==
  m.virtual_address % PAGE_SIZE # 0 \/ m.physical_address % PAGE_SIZE # 0

\* Mutant of WriteExecute: only user pages are looked at.
WriteExecuteUser(p) == p.user /\ p.writable /\ p.executable

WriteExecute(p) == p.writable /\ p.executable

MapError(m) ==
  IF Unaligned(m) THEN "Unaligned"
  ELSE IF m.virtual_address >= USER_TOP /\ m.permissions.user THEN "InvalidAddress"
  ELSE IF WriteExecute(m.permissions) THEN "WriteExecute"
  ELSE IF \E i \in Present : mappings[i].virtual_address = m.virtual_address
  THEN "AlreadyMapped"
  ELSE IF Vacant = {} THEN "MapFull"
  ELSE "Ok"

\* Mutant of Slot: the search runs from the other end.
SlotLast == CHOOSE i \in Vacant : \A j \in Vacant : i >= j

\* Mutant of Slot: an entry is taken whether it is vacant or not.
SlotFirst == 0

\* The first vacant entry.
Slot == CHOOSE i \in Vacant : \A j \in Vacant : i <= j

Map(m) ==
  /\ MapError(m) = "Ok"
  /\ mappings' = [mappings EXCEPT ![Slot] = m]

\* A map call that is refused.
MapRefused(m) == MapError(m) # "Ok" /\ UNCHANGED mappings

\* What mapping_at finds for an address: the first entry that has it.
MappingAt(array, va) ==
  LET found == {i \in Entries : array[i] # None /\ array[i].virtual_address = va}
  IN IF found = {} THEN None
     ELSE array[CHOOSE i \in found : \A j \in found : i <= j]

MapNext == \E m \in Mapping : Map(m) \/ MapRefused(m)

MapSpec == MapInit /\ [][MapNext]_mappings

-----------------------------------------------------------------------------
(* Descriptors and table walks. *)

\* level_index: shift and mask
LevelIndex(va, level) == (va \div Reach(level)) % ENTRIES_PER_TABLE

\* OUTPUT_ADDRESS_MASK: the bits of an address from the page offset up to 47.
Masked(pa) == (pa % OUTPUT_TOP) - ((pa % OUTPUT_TOP) % PAGE_SIZE)

\* page_descriptor
PageDescriptor(pa, p) == [output |-> Masked(pa), bits |-> Attributes(p)]

-----------------------------------------------------------------------------
(* Properties. *)

\* Every mapping the policy has admitted can be turned into a descriptor, and
\* the hardware then grants what was asked for: writable or executable but never
\* both, at whatever level, with user code out of the kernel's pages and the
\* kernel never executing a user page.  It is the page at the given address
\* exactly when that address is below OUTPUT_TOP: page_descriptor masks the bits
\* above away, and neither it nor map refuses them.
DescriptorsFaithful ==
  \A i \in Present :
    LET m == mappings[i]
        p == m.permissions
        d == PageDescriptor(m.physical_address, p)
    IN /\ HasDescriptor(PAGE_SIZE, m.physical_address, p)
       /\ d.output = m.physical_address <=> m.physical_address < OUTPUT_TOP
       /\ \A el, level \in {0, 1} : ~(Writes(el, d.bits) /\ Executes(level, d.bits))
       /\ Writes(0, d.bits) = (p.user /\ p.writable)
       /\ Executes(0, d.bits) = (p.user /\ p.executable)
       /\ Executes(1, d.bits) = (~p.user /\ p.executable)

\* No two user mappings meet in the page tables: their walks differ at some
\* level, so writing the tables entry by entry overwrites nothing.
WalksDisjoint ==
  \A i, j \in Present :
    /\ mappings[i].permissions.user /\ mappings[j].permissions.user
    /\ \A level \in 0 .. 3 : LevelIndex(mappings[i].virtual_address, level)
                               = LevelIndex(mappings[j].virtual_address, level)
    => i = j

\* A mapping, once made, is what mapping_at answers from then on.
MappingsStay ==
  [][\A va \in Virtual : MappingAt(mappings, va) # None =>
       MappingAt(mappings', va) = MappingAt(mappings, va)]_mappings

=============================================================================
