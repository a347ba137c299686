------------------------------ MODULE LeaseTree ------------------------------
(***************************************************************************)
(* The capability store of src/capability.rs as a value: one CSpace of     *)
(* slots per task, and a fixed array of derivation nodes the slots refer   *)
(* to.  Every public method of CapabilitySystem is an operator from a      *)
(* store to the store it leaves behind and the value it returns, so that   *)
(* the state machine of one store (module CapabilitySystem) and the        *)
(* runtime that owns one use the same operations.                          *)
(***************************************************************************)
EXTENDS Integers, FiniteSets, Option

CONSTANTS
  TASKS, SLOTS, NODES,  \* the const generics of CapabilitySystem
  GENERATIONS,          \* values of the u16 generation counter: 2^16
  Objects,              \* the kernel objects a capability can name
  EmptyObject           \* Object::Endpoint(0), what an unused node holds

Tasks == 0 .. TASKS - 1
Slots == 0 .. SLOTS - 1
Nodes == 0 .. NODES - 1
Generations == 0 .. GENERATIONS - 1

Right == {"READ", "WRITE", "GRANT", "CONTROL"}
CapRef == [node : Nodes, generation : Generations]
Node == [object : Objects, rights : SUBSET Right, parent : CapRef \cup {None},
         generation : Generations, live : BOOLEAN]
Store == [spaces : [Tasks -> [Slots -> CapRef \cup {None}]],
          nodes : [Nodes -> Node]]

CapErrors == {"BadTask", "BadSlot", "EmptySlot", "DestinationOccupied",
              "OutOfNodes", "Stale", "PermissionDenied"}

\* A node index is stored in a u16 (`index as u16`), which must not truncate.
ASSUME SizesAssumption ==
  /\ TASKS \in Nat /\ SLOTS \in Nat
  /\ NODES \in Nat /\ NODES <= 65536
  /\ GENERATIONS \in Nat \ {0}
  /\ EmptyObject \in Objects

ASSUME NoneAssumption == None \notin CapRef

EmptyNode == [object |-> EmptyObject, rights |-> {}, parent |-> None,
              generation |-> 0, live |-> FALSE]

EmptyStore == [spaces |-> [t \in Tasks |-> [s \in Slots |-> None]],
               nodes |-> [i \in Nodes |-> EmptyNode]]

-----------------------------------------------------------------------------
(* Lookups.  An error operator is "Ok" when the code takes no early return. *)

\* resolve_ref accepts exactly the references to a live node of the same
\* generation; `nodes.get` never fails, a reference names a node.
Current(nodes, cap) ==
  nodes[cap.node].live /\ nodes[cap.node].generation = cap.generation

\* Mutant of DestinationError: an occupied slot is overwritten.
DestinationErrorOverwrites(c, task, slot) ==
  IF task \notin Tasks THEN "BadTask"
  ELSE IF slot \notin Slots THEN "BadSlot"
  ELSE "Ok"

\* check_destination
DestinationError(c, task, slot) ==
  IF task \notin Tasks THEN "BadTask"
  ELSE IF slot \notin Slots THEN "BadSlot"
  ELSE IF c.spaces[task][slot] # None THEN "DestinationOccupied"
  ELSE "Ok"

\* cap_at followed by resolve_ref
SourceError(c, task, slot) ==
  IF task \notin Tasks THEN "BadTask"
  ELSE IF slot \notin Slots THEN "BadSlot"
  ELSE IF c.spaces[task][slot] = None THEN "EmptySlot"
  ELSE IF ~Current(c.nodes, c.spaces[task][slot]) THEN "Stale"
  ELSE "Ok"

\* The node behind an occupied slot.
NodeAt(c, task, slot) == c.nodes[c.spaces[task][slot].node]

\* resolve: the error, or "Ok" when NodeAt(c, task, slot) is the answer.
ResolveError(c, task, slot, required) ==
  IF SourceError(c, task, slot) # "Ok" THEN SourceError(c, task, slot)
  ELSE IF ~(required \subseteq NodeAt(c, task, slot).rights)
       THEN "PermissionDenied"
  ELSE "Ok"

-----------------------------------------------------------------------------
(* allocate: the first node that is not live, its generation kept. *)

FreeNodes(nodes) == {i \in Nodes : ~nodes[i].live}

FirstFree(nodes) ==
  CHOOSE i \in FreeNodes(nodes) : \A j \in FreeNodes(nodes) : i <= j

\* The store after allocating a node and writing its reference into a slot.
Install(c, task, slot, object, rights, parent) ==
  LET i == FirstFree(c.nodes)
  IN [spaces |-> [c.spaces EXCEPT ![task][slot] =
                    [node |-> i, generation |-> c.nodes[i].generation]],
      nodes |-> [c.nodes EXCEPT ![i] =
                    [object |-> object, rights |-> rights, parent |-> parent,
                     generation |-> c.nodes[i].generation, live |-> TRUE]]]

-----------------------------------------------------------------------------
(* create_root and mint *)

CreateRootError(c, owner, slot) ==
  IF DestinationError(c, owner, slot) # "Ok" THEN DestinationError(c, owner, slot)
  ELSE IF FreeNodes(c.nodes) = {} THEN "OutOfNodes"
  ELSE "Ok"

CreateRootStore(c, owner, slot, object, rights) ==
  Install(c, owner, slot, object, rights, None)

\* Mutant of MintError: GRANT is required, the rights asked for are not.
MintErrorAmplifies(c, srcTask, srcSlot, dstTask, dstSlot, rights) ==
  IF DestinationError(c, dstTask, dstSlot) # "Ok"
  THEN DestinationError(c, dstTask, dstSlot)
  ELSE IF SourceError(c, srcTask, srcSlot) # "Ok" THEN SourceError(c, srcTask, srcSlot)
  ELSE IF "GRANT" \notin NodeAt(c, srcTask, srcSlot).rights THEN "PermissionDenied"
  ELSE IF FreeNodes(c.nodes) = {} THEN "OutOfNodes"
  ELSE "Ok"

MintError(c, srcTask, srcSlot, dstTask, dstSlot, rights) ==
  IF DestinationError(c, dstTask, dstSlot) # "Ok"
  THEN DestinationError(c, dstTask, dstSlot)
  ELSE IF SourceError(c, srcTask, srcSlot) # "Ok" THEN SourceError(c, srcTask, srcSlot)
  ELSE IF ~(rights \cup {"GRANT"} \subseteq NodeAt(c, srcTask, srcSlot).rights)
       THEN "PermissionDenied"
  ELSE IF FreeNodes(c.nodes) = {} THEN "OutOfNodes"
  ELSE "Ok"

\* Mutant of MintStore: the child is hung beside its source, not below it.
MintStoreSibling(c, srcTask, srcSlot, dstTask, dstSlot, rights) ==
  Install(c, dstTask, dstSlot, NodeAt(c, srcTask, srcSlot).object, rights,
          NodeAt(c, srcTask, srcSlot).parent)

MintStore(c, srcTask, srcSlot, dstTask, dstSlot, rights) ==
  Install(c, dstTask, dstSlot, NodeAt(c, srcTask, srcSlot).object, rights,
          c.spaces[srcTask][srcSlot])

-----------------------------------------------------------------------------
(* revoke *)

\* The references is_descendant_or_self visits from node i: its own, then
\* parent after parent, neither liveness nor generation of a parent checked.
\* The loop gives up once it has followed more than NODES parents.
Ancestry(nodes, i) ==
  LET cap[k \in 0 .. NODES] ==
        IF k = 0 THEN [node |-> i, generation |-> nodes[i].generation]
        ELSE IF cap[k - 1] = None THEN None
        ELSE nodes[cap[k - 1].node].parent
  IN cap

\* Mutant of IsDescendantOrSelf: the walk goes on through current nodes only.
IsDescendantChecked(nodes, i, root) ==
  \E k \in 0 .. NODES :
    /\ Ancestry(nodes, i)[k] = root
    /\ \A j \in 0 .. k - 1 : Current(nodes, Ancestry(nodes, i)[j])

IsDescendantOrSelf(nodes, i, root) ==
  \E k \in 0 .. NODES : Ancestry(nodes, i)[k] = root

\* Mutant of Killed: the generation does not wrap around.
KilledUnbounded(node) ==
  [node EXCEPT !.live = FALSE, !.generation = @ + 1]

Killed(node) ==
  [node EXCEPT !.live = FALSE, !.generation = (@ + 1) % GENERATIONS]

\* Mutant of RevokeLoop: the revoked capability itself is not counted.
RevokeLoopDescendants(nodes, root) ==
  LET after[k \in 0 .. NODES] ==
        IF k = 0 THEN [nodes |-> nodes, revoked |-> 0]
        ELSE LET before == after[k - 1]
             IN IF \E now \in {before.nodes} :
                     now[k - 1].live /\ IsDescendantOrSelf(now, k - 1, root)
                THEN [nodes |-> [before.nodes EXCEPT ![k - 1] = Killed(@)],
                      revoked |-> before.revoked + IF k - 1 = root.node THEN 0 ELSE 1]
                ELSE before
  IN after

\* The first loop of revoke: the nodes and the count after its first k
\* iterations.  Node k - 1 is judged in the array as the iterations before left
\* it, with some of its ancestors killed already.  (The array is bound to now
\* so that TLC evaluates it once.)
RevokeLoop(nodes, root) ==
  LET after[k \in 0 .. NODES] ==
        IF k = 0 THEN [nodes |-> nodes, revoked |-> 0]
        ELSE LET before == after[k - 1]
             IN IF \E now \in {before.nodes} :
                     now[k - 1].live /\ IsDescendantOrSelf(now, k - 1, root)
                THEN [nodes |-> [before.nodes EXCEPT ![k - 1] = Killed(@)],
                      revoked |-> before.revoked + 1]
                ELSE before
  IN after

\* The second loop of revoke empties every slot of every task whose reference
\* is not current any more.
SweepSlots(spaces, nodes) ==
  [t \in Tasks |-> [s \in Slots |->
     IF spaces[t][s] # None /\ ~Current(nodes, spaces[t][s])
     THEN None ELSE spaces[t][s]]]

\* Mutant of RevokeStore: only the caller's own CSpace is swept.
RevokeStoreOwnSpace(c, task, slot) ==
  LET nodes == RevokeLoop(c.nodes, c.spaces[task][slot])[NODES].nodes
  IN [spaces |-> [c.spaces EXCEPT ![task] = SweepSlots(c.spaces, nodes)[task]],
      nodes |-> nodes]

RevokeStore(c, task, slot) ==
  LET nodes == RevokeLoop(c.nodes, c.spaces[task][slot])[NODES].nodes
  IN [spaces |-> SweepSlots(c.spaces, nodes), nodes |-> nodes]

\* What a successful revoke returns.
RevokedCount(c, task, slot) ==
  RevokeLoop(c.nodes, c.spaces[task][slot])[NODES].revoked

-----------------------------------------------------------------------------
(* What a sound store satisfies. *)

\* The slots in use, over all tasks.
Occupied(c) == {h \in Tasks \X Slots : c.spaces[h[1]][h[2]] # None}

\* Every reference in a slot is one resolve_ref accepts.
NoStaleSlot(c) ==
  \A t \in Tasks, s \in Slots :
    c.spaces[t][s] # None => Current(c.nodes, c.spaces[t][s])

\* Every live node is named by exactly one slot.
NoLeakedNode(c) ==
  \A i \in Nodes : c.nodes[i].live =>
    \E t \in Tasks, s \in Slots : \A u \in Tasks, v \in Slots :
      (c.spaces[u][v] # None /\ c.spaces[u][v].node = i) <=> (u = t /\ v = s)

\* The parent of a live node, when it has one, is current.
NoOrphan(c) ==
  \A i \in Nodes :
    c.nodes[i].live /\ c.nodes[i].parent # None
      => Current(c.nodes, c.nodes[i].parent)

\* A live child names its parent's object, with no more than its rights, and
\* the parent may GRANT.
NoAmplification(c) ==
  \A i \in Nodes :
    c.nodes[i].live /\ c.nodes[i].parent # None =>
      LET p == c.nodes[c.nodes[i].parent.node]
      IN /\ c.nodes[i].object = p.object
         /\ c.nodes[i].rights \subseteq p.rights
         /\ "GRANT" \in p.rights

=============================================================================
