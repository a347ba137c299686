---------------------------- MODULE FrameClients -----------------------------
(***************************************************************************)
(* A frame allocator and its callers.  They allocate, reserve whatever     *)
(* range they like, and free whatever address they like: a Frame is copied *)
(* and made at will, so free is also called for a frame of another caller, *)
(* for a reserved one, twice, or with an address that is no frame at all.  *)
(***************************************************************************)
EXTENDS FrameAllocator

CONSTANT MaxPages    \* the longest range a caller reserves

VARIABLES
  fa,        \* the allocator
  held,      \* addresses allocate returned, not freed by anybody since
  reserved   \* indices of the frames reserved, not freed by anybody since

vars == <<fa, held, reserved>>

TypeOK ==
  /\ fa \in Allocator
  /\ held \subseteq Address
  /\ reserved \subseteq Bits

Init ==
  /\ \E r \in Regions : NewError(r[1], r[2]) = "Ok" /\ fa = New(r[1], r[2])
  /\ held = {} /\ reserved = {}

\* OutOfMemory changes nothing.
DoAllocate ==
  /\ fa' = Allocate(fa)
  /\ held' = IF FreeOffsets(fa) = {} THEN held
             ELSE held \cup {AddressOf(fa, Pick(fa))}
  /\ UNCHANGED reserved

DoReserve(start, pages) ==
  /\ IF ReserveError(fa, start, pages) = "Ok"
     THEN /\ fa' = Reserve(fa, start, pages)
          /\ reserved' = reserved \cup Reserved(fa, start, pages)
     ELSE UNCHANGED <<fa, reserved>>
  /\ UNCHANGED held

\* Whoever calls it, and for whatever address: the one bit of the frame stands
\* for an allocation and for a reservation, and free clears it for both.
DoFree(address) ==
  /\ fa' = IF FreeError(fa, address) = "Ok" THEN Free(fa, address) ELSE fa
  /\ held' = held \ {address}
  /\ reserved' = reserved \ {i \in Frames(fa) : AddressOf(fa, i) = address}

Next ==
  \/ DoAllocate
  \/ \E a \in Address, n \in 0 .. MaxPages : DoReserve(a, n)
  \/ \E a \in Address : DoFree(a)

Spec == Init /\ [][Next]_vars

-----------------------------------------------------------------------------
(* Properties. *)

\* "A first-fit bitmap allocator": although the search starts at a hint that
\* moves back and forth and wraps around, the frame allocate returns was free
\* and no lower frame was.
FirstFit ==
  [][\A a \in held' \ held :
       /\ IndexOf(fa, a) \in FreeFrames(fa)
       /\ \A i \in FreeFrames(fa) : IndexOf(fa, a) <= i]_vars

\* A frame in somebody's hands is not given to anybody else: it is marked used
\* until free is called with its own address, and that call will be accepted.
\* No other address, misaligned, beyond the region or another frame's, does it.
HeldFramesCanBeFreed == \A a \in held : FreeError(fa, a) = "Ok"

\* allocate's search returns OutOfMemory only when every frame was handed out
\* or reserved and not freed since.
NoFrameLost ==
  FreeOffsets(fa) = {} =>
    \A i \in Frames(fa) : i \in reserved \/ AddressOf(fa, i) \in held

\* allocation_skips_reserved_frames, as the test is called: a frame that was
\* reserved, held by somebody at the time or not, is not handed out until free
\* is called with its address.  (That call need not come from whoever reserved it: the holder of a
\* frame that was reserved under it ends the reservation too.)
ReservedNeverHandedOut ==
  [][\A a \in held' \ held : IndexOf(fa, a) \notin reserved]_vars

=============================================================================
