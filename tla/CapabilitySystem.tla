-------------------------- MODULE CapabilitySystem ---------------------------
(***************************************************************************)
(* One capability store of src/capability.rs and every sequence of calls   *)
(* its users can make: create_root, mint and revoke with any task, slot,   *)
(* object and rights, in range or not.  resolve only reads (ResolveError). *)
(* A call returns before the next one starts: the kernel is single-core    *)
(* and each method takes the store by exclusive reference.                 *)
(***************************************************************************)
EXTENDS LeaseTree

CONSTANT
  RightArgs    \* the rights callers ask for

ASSUME RightArgsAssumption == RightArgs \subseteq SUBSET Right

VARIABLE
  caps         \* the store

\* Arguments: every valid index and the first invalid one.
TaskArgs == 0 .. TASKS
SlotArgs == 0 .. SLOTS

TypeOK == caps \in Store

Init == caps = EmptyStore

\* A call that stops at an early return hands its error to the caller and
\* changes nothing: it is a stuttering step of the store.
CreateRoot(owner, slot, object, rights) ==
  /\ CreateRootError(caps, owner, slot) = "Ok"
  /\ caps' = CreateRootStore(caps, owner, slot, object, rights)

Mint(srcTask, srcSlot, dstTask, dstSlot, rights) ==
  /\ MintError(caps, srcTask, srcSlot, dstTask, dstSlot, rights) = "Ok"
  /\ caps' = MintStore(caps, srcTask, srcSlot, dstTask, dstSlot, rights)

Revoke(task, slot) ==
  /\ SourceError(caps, task, slot) = "Ok"
  /\ caps' = RevokeStore(caps, task, slot)

Next ==
  \/ \E t \in TaskArgs, s \in SlotArgs, o \in Objects, r \in RightArgs :
       CreateRoot(t, s, o, r)
  \/ \E t, u \in TaskArgs, s, v \in SlotArgs, r \in RightArgs :
       Mint(t, s, u, v, r)
  \/ \E t \in TaskArgs, s \in SlotArgs : Revoke(t, s)

Spec == Init /\ [][Next]_caps

-----------------------------------------------------------------------------
(* Properties of the store; each is the property of LeaseTree, of this store. *)

\* No slot of any CSpace ever holds a stale reference: the node it names is
\* live and of the slot's generation.  So resolve_ref never answers Stale, and
\* the generation counter may wrap around without reviving anything.
SlotsCurrent == NoStaleSlot(caps)

\* A live node is named by exactly one slot: no node leaks (nothing but a slot
\* can revoke it, so it would be lost for ever) and no two slots share one.
OneSlotPerNode == NoLeakedNode(caps)

\* The derivation tree has no orphans: the parent a live node was minted from
\* is itself live and unreused.  A capability that outlived the revocation of
\* an ancestor, or an ancestor whose node went to somebody else, breaks it.
ParentsCurrent == NoOrphan(caps)

\* Rights only shrink down the tree, the object stays, and whoever minted a
\* capability still holds GRANT on it.
Attenuated == NoAmplification(caps)

\* The count a successful revoke returns is the number of slots it emptied,
\* over all tasks, and it fills none.
RevokeCountsSlots ==
  [][\A h \in Occupied(caps) \ Occupied(caps') :
       caps' = RevokeStore(caps, h[1], h[2]) =>
         /\ Occupied(caps') \subseteq Occupied(caps)
         /\ Cardinality(Occupied(caps) \ Occupied(caps'))
              = RevokedCount(caps, h[1], h[2])]_caps

=============================================================================
