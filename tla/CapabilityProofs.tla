-------------------------- MODULE CapabilityProofs ---------------------------
(***************************************************************************)
(* The capability store is sound for any number of tasks, slots, nodes and *)
(* generations.  The lemmas are about a store as a value; the theorems at  *)
(* the end are about every behaviour of CapabilitySystem.                  *)
(***************************************************************************)
EXTENDS CapabilityLineage, LeaseTreeProofs, FiniteSetTheorems, TLAPS

-----------------------------------------------------------------------------
(* The store. *)

\* allocate finds a free node whenever there is one.
LEMMA FirstFreeIsFree ==
  ASSUME NEW nodes, FreeNodes(nodes) # {}
  PROVE  FirstFree(nodes) \in Nodes /\ ~nodes[FirstFree(nodes)].live
<1>1. FreeNodes(nodes) \in SUBSET Nat
  BY DEF FreeNodes, Nodes
<1>2. \E i \in FreeNodes(nodes) : \A j \in FreeNodes(nodes) : i <= j
  BY <1>1, LeastElement
<1>3. FirstFree(nodes) \in FreeNodes(nodes)
  BY <1>2 DEF FirstFree
<1> QED
  BY <1>3 DEF FreeNodes

\* Installing a capability in a slot keeps the store well typed.
LEMMA InstallType ==
  ASSUME NEW c \in Store, NEW t \in Tasks, NEW s \in Slots,
         NEW o \in Objects, NEW r \in SUBSET Right,
         NEW p \in CapRef \cup {None}, FreeNodes(c.nodes) # {}
  PROVE  Install(c, t, s, o, r, p) \in Store
<1> DEFINE i == FirstFree(c.nodes)
<1>1. i \in Nodes
  BY FirstFreeIsFree
<1>2. c.nodes[i].generation \in Generations
  BY <1>1 DEF Store, Node
<1>3. [node |-> i, generation |-> c.nodes[i].generation] \in CapRef
  BY <1>1, <1>2 DEF CapRef
<1>4. [object |-> o, rights |-> r, parent |-> p,
       generation |-> c.nodes[i].generation, live |-> TRUE] \in Node
  BY <1>2 DEF Node
<1> QED
  BY <1>1, <1>3, <1>4 DEF Install, Store

\* Killing any set of nodes and sweeping the slots keeps the store well typed.
LEMMA KillType ==
  ASSUME NEW c \in Store, NEW dead
  PROVE  [spaces |-> SweepSlots(c.spaces, KillNodes(c.nodes, dead)),
          nodes |-> KillNodes(c.nodes, dead)] \in Store
<1>1. KillNodes(c.nodes, dead) \in [Nodes -> Node]
  BY KilledNodes DEF Store
<1>2. SweepSlots(c.spaces, KillNodes(c.nodes, dead))
        \in [Tasks -> [Slots -> CapRef \cup {None}]]
  BY DEF SweepSlots, Store
<1> QED
  BY <1>1, <1>2 DEF Store

-----------------------------------------------------------------------------
(* The inductive invariant: the four properties, and a depth for every live *)
(* node that grows by one from a parent to its children, so that the        *)
(* derivation links have no cycle.                                          *)

Layered(nodes, depth) ==
  \A i \in Nodes : nodes[i].live =>
    depth[i] = IF nodes[i].parent = None THEN 0
               ELSE depth[nodes[i].parent.node] + 1

Sound(c) ==
  /\ c \in Store
  /\ NoStaleSlot(c)
  /\ NoLeakedNode(c)
  /\ NoOrphan(c)
  /\ NoAmplification(c)
  /\ \E depth \in [Nodes -> Nat] : Layered(c.nodes, depth)

\* What mint hands to allocate: a current parent and no more than its rights.
MayDerive(c, o, r, p) ==
  /\ p \in CapRef /\ Current(c.nodes, p)
  /\ o = c.nodes[p.node].object
  /\ r \subseteq c.nodes[p.node].rights
  /\ "GRANT" \in c.nodes[p.node].rights

\* Installing a root, or a child of a current capability, in an empty slot
\* keeps the store sound, whichever free node is reused for it.
LEMMA InstallSound ==
  ASSUME NEW c, Sound(c), NEW t \in Tasks, NEW s \in Slots,
         c.spaces[t][s] = None, FreeNodes(c.nodes) # {},
         NEW o \in Objects, NEW r \in SUBSET Right,
         NEW p, p = None \/ MayDerive(c, o, r, p)
  PROVE  Sound(Install(c, t, s, o, r, p))
<1> DEFINE i == FirstFree(c.nodes)
           new == [object |-> o, rights |-> r, parent |-> p,
                   generation |-> c.nodes[i].generation, live |-> TRUE]
           ref == [node |-> i, generation |-> c.nodes[i].generation]
           d == Install(c, t, s, o, r, p)
<1>1. c \in Store /\ p \in CapRef \cup {None}
  BY DEF Sound, MayDerive
<1>2. d \in Store
  BY <1>1, InstallType, Zenon
<1>3. i \in Nodes /\ ~c.nodes[i].live
  BY FirstFreeIsFree
<1>4. /\ d.nodes[i] = new
      /\ \A j \in Nodes : j # i => d.nodes[j] = c.nodes[j]
  BY <1>1, <1>3, Zenon DEF Install, Store
<1>5. /\ d.spaces[t][s] = ref
      /\ \A u \in Tasks, v \in Slots :
           ~(u = t /\ v = s) => d.spaces[u][v] = c.spaces[u][v]
  BY <1>1 DEF Install, Store
<1>6. ref # None /\ ref.node = i
  BY <1>1, <1>3, NoneAssumption DEF Store, Node, CapRef
<1>7. ASSUME NEW q \in CapRef, Current(c.nodes, q)
      PROVE  q.node \in Nodes /\ q.node # i /\ Current(d.nodes, q)
  BY <1>3, <1>4, <1>7 DEF Current, CapRef
<1>8. \A u \in Tasks, v \in Slots : c.spaces[u][v] \in CapRef \cup {None}
  BY <1>1 DEF Store
<1>9. \A j \in Nodes : c.nodes[j].parent \in CapRef \cup {None}
  BY <1>1 DEF Store, Node
<1> HIDE DEF d, i, new, ref
<1>10. NoStaleSlot(d)
  <2> SUFFICES ASSUME NEW u \in Tasks, NEW v \in Slots, d.spaces[u][v] # None
               PROVE  Current(d.nodes, d.spaces[u][v])
    BY DEF NoStaleSlot
  <2>1. CASE u = t /\ v = s
    BY <2>1, <1>3, <1>4, <1>5 DEF Current, ref, new
  <2>2. CASE ~(u = t /\ v = s)
    BY <2>2, <1>5, <1>7, <1>8 DEF Sound, NoStaleSlot
  <2> QED
    BY <2>1, <2>2
<1>11. NoLeakedNode(d)
  <2> SUFFICES ASSUME NEW j \in Nodes, d.nodes[j].live
               PROVE  \E x \in Tasks, y \in Slots :
                        \A u \in Tasks, v \in Slots :
                          (d.spaces[u][v] # None /\ d.spaces[u][v].node = j)
                            <=> (u = x /\ v = y)
    BY Zenon DEF NoLeakedNode
  <2>1. CASE j = i
    <3>1. \A u \in Tasks, v \in Slots :
            c.spaces[u][v] # None => c.spaces[u][v].node # i
      BY <1>7, <1>8 DEF Sound, NoStaleSlot
    <3>2. \A u \in Tasks, v \in Slots :
            (d.spaces[u][v] # None /\ d.spaces[u][v].node = j)
              <=> (u = t /\ v = s)
      BY <2>1, <3>1, <1>5, <1>6
    <3> QED
      BY <3>2
  <2>2. CASE j # i
    <3>1. PICK x \in Tasks, y \in Slots : \A u \in Tasks, v \in Slots :
            (c.spaces[u][v] # None /\ c.spaces[u][v].node = j)
              <=> (u = x /\ v = y)
      BY <2>2, <1>4, Zenon DEF Sound, NoLeakedNode
    <3>2. ~(x = t /\ y = s)
      BY <3>1
    <3>3. \A u \in Tasks, v \in Slots :
            (d.spaces[u][v] # None /\ d.spaces[u][v].node = j)
              <=> (u = x /\ v = y)
      BY <2>2, <3>1, <3>2, <1>5, <1>6
    <3> QED
      BY <3>3
  <2> QED
    BY <2>1, <2>2
<1>12. ASSUME NEW j \in Nodes, d.nodes[j].live, d.nodes[j].parent # None
       PROVE  /\ Current(d.nodes, d.nodes[j].parent)
              /\ d.nodes[j].parent.node \in Nodes
              /\ d.nodes[j].parent.node # i
              /\ LET q == c.nodes[d.nodes[j].parent.node]
                 IN /\ d.nodes[j].object = q.object
                    /\ d.nodes[j].rights \subseteq q.rights
                    /\ "GRANT" \in q.rights
  <2>1. CASE j = i
    BY <1>12, <2>1, <1>4, <1>7 DEF MayDerive, new
  <2>2. CASE j # i
    BY <1>12, <2>2, <1>4, <1>7, <1>9, ZenonT(60) DEF Sound, NoOrphan, NoAmplification
  <2> QED
    BY <2>1, <2>2, Zenon
<1>13. NoOrphan(d) /\ NoAmplification(d)
  BY <1>12, <1>4, ZenonT(60) DEF NoOrphan, NoAmplification
<1>14. \E depth \in [Nodes -> Nat] : Layered(d.nodes, depth)
  <2>1. PICK depth \in [Nodes -> Nat] : Layered(c.nodes, depth)
    BY DEF Sound
  <2> DEFINE deeper == [depth EXCEPT ![i] =
                          IF p = None THEN 0 ELSE depth[p.node] + 1]
  <2>2. deeper \in [Nodes -> Nat]
    <3>1. p # None => p.node \in Nodes
      BY <1>1 DEF CapRef
    <3> QED
      BY <3>1, <1>3
  <2>3. ASSUME NEW j \in Nodes, d.nodes[j].live
        PROVE  deeper[j] = IF d.nodes[j].parent = None THEN 0
                           ELSE deeper[d.nodes[j].parent.node] + 1
    <3>1. CASE j = i
      <4>1. d.nodes[i].parent = p
        BY <1>4 DEF new
      <4>2. p # None => p.node \in Nodes /\ p.node # i
        BY <2>3, <3>1, <4>1, <1>12, Zenon
      <4> QED
        BY <3>1, <4>1, <4>2, <1>3
    <3>2. CASE j # i
      BY <2>1, <2>3, <3>2, <1>12, <1>4, ZenonT(60) DEF Layered
    <3> QED
      BY <3>1, <3>2
  <2> QED
    BY <2>2, <2>3, ZenonT(60) DEF Layered
<1> QED
  BY <1>2, <1>10, <1>11, <1>13, <1>14 DEF Sound, d

-----------------------------------------------------------------------------
(* The loop bound of is_descendant_or_self is never the reason it stops. *)

\* What the walk lemmas need of a node array.
SoundTree(nodes, depth) ==
  /\ nodes \in [Nodes -> Node] /\ depth \in [Nodes -> Nat]
  /\ Layered(nodes, depth)
  /\ \A i \in Nodes : nodes[i].live /\ nodes[i].parent # None
                        => Current(nodes, nodes[i].parent)

\* A live node at depth n has a live ancestor at every smaller depth; they are
\* different nodes, so there are at most NODES depths.
LEMMA DepthBound ==
  ASSUME NEW nodes, NEW depth, SoundTree(nodes, depth),
         NEW i \in Nodes, nodes[i].live
  PROVE  depth[i] < NODES
<1> DEFINE n == depth[i]
           T == {k \in 0 .. n : \E j \in Nodes : nodes[j].live
                                                 /\ depth[j] = n - k}
<1>1. n \in Nat /\ depth \in [Nodes -> Nat] /\ nodes \in [Nodes -> Node]
  BY DEF SoundTree
<1>2. 0 \in T
  BY <1>1
<1>3. ASSUME NEW k \in 0 .. n, k \in T, k + 1 <= n PROVE k + 1 \in T
  <2>1. PICK j \in Nodes : nodes[j].live /\ depth[j] = n - k
    BY <1>3
  <2>2. nodes[j].parent # None
    BY <2>1, <1>1, <1>3 DEF SoundTree, Layered
  <2>3. nodes[j].parent.node \in Nodes /\ nodes[nodes[j].parent.node].live
    BY <2>1, <2>2, <1>1 DEF SoundTree, Current, Node, CapRef
  <2>4. depth[j] = depth[nodes[j].parent.node] + 1
    BY <2>1, <2>2 DEF SoundTree, Layered
  <2>5. depth[nodes[j].parent.node] = n - (k + 1)
    BY <2>1, <2>3, <2>4, <1>1, <1>3
  <2> QED
    BY <2>3, <2>5, <1>1, <1>3
<1>4. \A k \in 0 .. n : k \in T
  <2> HIDE DEF T, n
  <2> QED
    BY <1>1, <1>2, <1>3, SetInduction
<1> DEFINE f == [k \in 0 .. n |-> CHOOSE j \in Nodes : depth[j] = n - k]
<1>5. \A k \in 0 .. n : f[k] \in Nodes /\ depth[f[k]] = n - k
  BY <1>4
<1>6. f \in [0 .. n -> Nodes]
  BY <1>5, Zenon
<1>7. \A x, y \in 0 .. n : f[x] = f[y] => x = y
  BY <1>5, <1>1
<1>8. IsFiniteSet(0 .. n) /\ Cardinality(0 .. n) = n + 1
  <2> HIDE DEF n
  <2> QED
    BY <1>1, FS_Interval
<1>9. IsFiniteSet(Nodes) /\ Cardinality(Nodes) = NODES
  <2>1. NODES \in Nat /\ NODES - 1 \in Int
    BY SizesAssumption
  <2> QED
    BY <2>1, FS_Interval DEF Nodes
<1>10. ~(Cardinality(Nodes) < Cardinality(0 .. n))
  <2> HIDE DEF f, n
  <2> QED
    BY <1>6, <1>7, <1>8, <1>9, FS_PigeonHole, ZenonT(60)
<1> QED
  BY <1>1, <1>8, <1>9, <1>10, SizesAssumption

\* Every reference on the walk from a live node is current, and one step
\* nearer to the root than the one before.
LEMMA WalkClimbs ==
  ASSUME NEW nodes, NEW depth, SoundTree(nodes, depth),
         NEW i \in Nodes, nodes[i].live,
         NEW k \in 0 .. NODES, Ancestry(nodes, i)[k] # None
  PROVE  /\ Ancestry(nodes, i)[k] \in CapRef
         /\ Current(nodes, Ancestry(nodes, i)[k])
         /\ depth[Ancestry(nodes, i)[k].node] = depth[i] - k
<1> DEFINE w == Ancestry(nodes, i)
           T == {m \in 0 .. NODES : w[m] # None =>
                   Current(nodes, w[m]) /\ depth[w[m].node] = depth[i] - m}
<1>1. nodes \in [Nodes -> Node] /\ depth \in [Nodes -> Nat] /\ NODES \in Nat
  BY SizesAssumption DEF SoundTree
<1>2. IsWalk(nodes, i, w, NODES)
  BY <1>1, AncestryIsWalk
<1>3. \A m \in 0 .. NODES : w[m] \in CapRef \cup {None}
  BY <1>2 DEF IsWalk
<1> HIDE DEF w
<1>4. 0 \in T
  BY <1>1, <1>2 DEF IsWalk, RefTo, Current
<1>5. ASSUME NEW m \in 0 .. NODES, m \in T, m + 1 <= NODES PROVE m + 1 \in T
  <2> SUFFICES ASSUME w[m + 1] # None
               PROVE  /\ Current(nodes, w[m + 1])
                      /\ depth[w[m + 1].node] = depth[i] - (m + 1)
    BY <1>1, <1>5
  <2>1. w[m + 1] = Up(nodes, w[m])
    BY <1>2, <1>5 DEF IsWalk
  <2>2. w[m] # None /\ w[m + 1] = nodes[w[m].node].parent
    BY <2>1 DEF Up
  <2>3. w[m].node \in Nodes /\ nodes[w[m].node].live
    BY <2>2, <1>3, <1>5 DEF CapRef, Current
  <2>4. Current(nodes, w[m + 1]) /\ w[m + 1] \in CapRef
    BY <2>2, <2>3, <1>1 DEF SoundTree, Node
  <2>5. depth[w[m].node] = depth[w[m + 1].node] + 1
    BY <2>2, <2>3 DEF SoundTree, Layered
  <2>6. depth[w[m].node] = depth[i] - m
    BY <2>2, <1>5
  <2>7. depth[i] \in Nat /\ depth[w[m + 1].node] \in Nat
    BY <2>4, <1>1 DEF CapRef
  <2> QED
    BY <2>4, <2>5, <2>6, <2>7
<1>6. \A m \in 0 .. NODES : m \in T
  <2> HIDE DEF T
  <2> QED
    BY <1>1, <1>4, <1>5, SetInduction
<1> QED
  BY <1>3, <1>6 DEF w

\* The walk from a child is its own reference and then its parent's walk.
LEMMA WalkThroughParent ==
  ASSUME NEW nodes, NEW depth, SoundTree(nodes, depth),
         NEW i \in Nodes, nodes[i].live, nodes[i].parent # None,
         NEW k \in 0 .. NODES, k + 1 <= NODES
  PROVE  Ancestry(nodes, i)[k + 1] = Ancestry(nodes, nodes[i].parent.node)[k]
<1> DEFINE p == nodes[i].parent
           w == Ancestry(nodes, i)
           u == Ancestry(nodes, p.node)
           T == {m \in 0 .. NODES : m + 1 <= NODES => w[m + 1] = u[m]}
<1>1. nodes \in [Nodes -> Node] /\ NODES \in Nat
  BY SizesAssumption DEF SoundTree
<1>2. p \in CapRef /\ p.node \in Nodes /\ p.generation = nodes[p.node].generation
  BY <1>1 DEF SoundTree, Node, CapRef, Current
<1>3. IsWalk(nodes, i, w, NODES) /\ IsWalk(nodes, p.node, u, NODES)
  BY <1>1, <1>2, AncestryIsWalk
<1>4. RefTo(nodes, p.node) = p
  BY <1>2 DEF RefTo, CapRef
<1> HIDE DEF w, u
<1>5. 0 \in T
  <2> SUFFICES ASSUME 1 <= NODES PROVE w[1] = u[0]
    BY <1>1
  <2>1. w[0] = RefTo(nodes, i) /\ u[0] = p
    BY <1>3, <1>4 DEF IsWalk
  <2>2. w[0 + 1] = Up(nodes, w[0])
    BY <1>1, <1>3 DEF IsWalk
  <2>3. RefTo(nodes, i) # None
    BY <1>1, NoneAssumption DEF RefTo, CapRef, Node
  <2> QED
    BY <2>1, <2>2, <2>3 DEF Up, RefTo
<1>6. ASSUME NEW m \in 0 .. NODES, m \in T, m + 1 <= NODES PROVE m + 1 \in T
  <2> SUFFICES ASSUME m + 2 <= NODES PROVE w[m + 2] = u[m + 1]
    BY <1>1, <1>6
  <2>1. m + 1 \in 0 .. NODES /\ (m + 1) + 1 = m + 2
    BY <1>1, <1>6
  <2>2. w[m + 2] = Up(nodes, w[m + 1])
    BY <1>3, <2>1 DEF IsWalk
  <2>3. u[m + 1] = Up(nodes, u[m])
    BY <1>3, <1>6 DEF IsWalk
  <2> QED
    BY <2>2, <2>3, <1>6
<1>7. \A m \in 0 .. NODES : m \in T
  <2> HIDE DEF T
  <2> QED
    BY <1>1, <1>5, <1>6, SetInduction
<1> QED
  BY <1>7 DEF w, u

\* revoke kills a live child of every node it kills: the walk from the child is
\* one longer, and still within the loop bound.
LEMMA RevokedClosed ==
  ASSUME NEW nodes, NEW depth, SoundTree(nodes, depth), NEW root \in CapRef,
         NEW i \in Nodes, nodes[i].live, nodes[i].parent # None,
         nodes[i].parent.node \in Revoked(nodes, root)
  PROVE  i \in Revoked(nodes, root)
<1> DEFINE j == nodes[i].parent.node
<1>1. j \in Nodes /\ nodes[j].live /\ depth[j] \in Nat /\ NODES \in Nat
  BY SizesAssumption DEF Revoked, SoundTree
<1>2. PICK k \in 0 .. NODES : Ancestry(nodes, j)[k] = root
  BY DEF Revoked, IsDescendantOrSelf
<1>3. root # None
  BY NoneAssumption
<1>4. root.node \in Nodes /\ depth[root.node] \in Nat
  BY DEF CapRef, SoundTree
<1>5. depth[root.node] = depth[j] - k
  BY <1>1, <1>2, <1>3, WalkClimbs
<1>6. depth[j] < NODES
  BY <1>1, DepthBound
<1>7. k + 1 \in 0 .. NODES
  BY <1>1, <1>4, <1>5, <1>6
<1>8. Ancestry(nodes, i)[k + 1] = root
  BY <1>1, <1>2, <1>7, WalkThroughParent
<1> QED
  BY <1>7, <1>8 DEF Revoked, IsDescendantOrSelf

\* Killing a set of nodes that is closed under live children, and sweeping the
\* slots, keeps the store sound.
LEMMA KillSound ==
  ASSUME NEW c, Sound(c), NEW dead,
         \A i \in Nodes : /\ c.nodes[i].live
                          /\ c.nodes[i].parent # None
                          /\ c.nodes[i].parent.node \in dead
                          => i \in dead
  PROVE  Sound([spaces |-> SweepSlots(c.spaces, KillNodes(c.nodes, dead)),
                nodes |-> KillNodes(c.nodes, dead)])
<1> DEFINE d == [spaces |-> SweepSlots(c.spaces, KillNodes(c.nodes, dead)),
                 nodes |-> KillNodes(c.nodes, dead)]
<1>1. c \in Store
  BY DEF Sound
<1>2. d \in Store
  BY <1>1, KillType
<1>3. \A i \in Nodes : IF i \in dead THEN ~d.nodes[i].live
                       ELSE d.nodes[i] = c.nodes[i]
  BY <1>1, Zenon DEF KillNodes, Killed, Store, Node
<1>4. \A u \in Tasks, v \in Slots :
        d.spaces[u][v] =
          IF c.spaces[u][v] # None /\ ~Current(d.nodes, c.spaces[u][v])
          THEN None ELSE c.spaces[u][v]
  BY DEF SweepSlots
<1>5. \A u \in Tasks, v \in Slots : c.spaces[u][v] \in CapRef \cup {None}
  BY <1>1 DEF Store
<1>6. \A i \in Nodes : c.nodes[i].parent \in CapRef \cup {None}
  BY <1>1 DEF Store, Node
<1> HIDE DEF d
<1>7. NoStaleSlot(d)
  BY <1>4 DEF NoStaleSlot
<1>8. NoLeakedNode(d)
  <2> SUFFICES ASSUME NEW i \in Nodes, d.nodes[i].live
               PROVE  \E x \in Tasks, y \in Slots :
                        \A u \in Tasks, v \in Slots :
                          (d.spaces[u][v] # None /\ d.spaces[u][v].node = i)
                            <=> (u = x /\ v = y)
    BY DEF NoLeakedNode
  <2>1. i \notin dead /\ c.nodes[i].live /\ d.nodes[i] = c.nodes[i]
    BY <1>3
  <2>2. PICK x \in Tasks, y \in Slots : \A u \in Tasks, v \in Slots :
          (c.spaces[u][v] # None /\ c.spaces[u][v].node = i)
            <=> (u = x /\ v = y)
    BY <2>1 DEF Sound, NoLeakedNode
  <2>3. c.spaces[x][y] # None /\ c.spaces[x][y].node = i
    BY <2>2
  <2>4. Current(d.nodes, c.spaces[x][y])
    BY <2>1, <2>3, SMTT(60) DEF Sound, NoStaleSlot, Current
  <2>5. d.spaces[x][y] = c.spaces[x][y]
    BY <2>4, <1>4
  <2>6. \A u \in Tasks, v \in Slots :
          (d.spaces[u][v] # None /\ d.spaces[u][v].node = i)
            <=> (u = x /\ v = y)
    BY <2>2, <2>3, <2>5, <1>4
  <2> QED
    BY <2>6
<1>9. ASSUME NEW i \in Nodes, d.nodes[i].live
      PROVE  /\ d.nodes[i] = c.nodes[i] /\ c.nodes[i].live
             /\ c.nodes[i].parent # None =>
                  /\ c.nodes[i].parent.node \in Nodes
                  /\ c.nodes[i].parent.node \notin dead
                  /\ Current(d.nodes, c.nodes[i].parent)
                  /\ d.nodes[c.nodes[i].parent.node]
                       = c.nodes[c.nodes[i].parent.node]
  <2>1. d.nodes[i] = c.nodes[i] /\ c.nodes[i].live /\ i \notin dead
    BY <1>9, <1>3
  <2> SUFFICES ASSUME c.nodes[i].parent # None
               PROVE  /\ c.nodes[i].parent.node \in Nodes
                      /\ c.nodes[i].parent.node \notin dead
                      /\ Current(d.nodes, c.nodes[i].parent)
                      /\ d.nodes[c.nodes[i].parent.node]
                           = c.nodes[c.nodes[i].parent.node]
    BY <2>1
  <2>2. c.nodes[i].parent.node \in Nodes /\ c.nodes[i].parent.node \notin dead
    BY <2>1, <1>6 DEF CapRef
  <2>3. Current(c.nodes, c.nodes[i].parent)
    BY <2>1 DEF Sound, NoOrphan
  <2> QED
    BY <2>2, <2>3, <1>3, Zenon DEF Current
<1>10. NoOrphan(d) /\ NoAmplification(d)
  <2>1. NoOrphan(d)
    BY <1>9, Zenon DEF NoOrphan
  <2>2. NoAmplification(c)
    BY DEF Sound
  <2>3. NoAmplification(d)
    BY <1>9, <2>2, ZenonT(60) DEF NoAmplification
  <2> QED
    BY <2>1, <2>3
<1>11. \E depth \in [Nodes -> Nat] : Layered(d.nodes, depth)
  <2>1. PICK depth \in [Nodes -> Nat] : Layered(c.nodes, depth)
    BY DEF Sound
  <2>2. Layered(d.nodes, depth)
    BY <2>1, <1>9 DEF Layered
  <2> QED
    BY <2>2
<1> QED
  BY <1>2, <1>7, <1>8, <1>10, <1>11 DEF Sound, d

\* Revoking a capability keeps the store sound.
LEMMA RevokeSound ==
  ASSUME NEW c, Sound(c), NEW t \in Tasks, NEW s \in Slots,
         c.spaces[t][s] # None
  PROVE  Sound(RevokeStore(c, t, s))
<1> DEFINE root == c.spaces[t][s]
           dead == Revoked(c.nodes, root)
<1>1. c \in Store /\ root \in CapRef
  BY DEF Sound, Store
<1>2. PICK depth \in [Nodes -> Nat] : Layered(c.nodes, depth)
  BY DEF Sound
<1>3. SoundTree(c.nodes, depth)
  BY <1>1, <1>2 DEF SoundTree, Sound, NoOrphan, Store
<1>4. ASSUME NEW i \in Nodes, c.nodes[i].live, c.nodes[i].parent # None,
             c.nodes[i].parent.node \in dead
      PROVE  i \in dead
  BY <1>1, <1>3, <1>4, RevokedClosed
<1> HIDE DEF dead
<1>5. Sound([spaces |-> SweepSlots(c.spaces, KillNodes(c.nodes, dead)),
             nodes |-> KillNodes(c.nodes, dead)])
  BY <1>4, KillSound, Zenon
<1> QED
  BY <1>1, <1>5, RevokeKills, Zenon DEF dead

-----------------------------------------------------------------------------
(* Every behaviour of CapabilitySystem. *)

StoreInv == Sound(caps)

\* The empty store is sound: no node is live and no slot is in use.
LEMMA InitSound == Init => StoreInv
<1> SUFFICES ASSUME Init PROVE Sound(caps)
  BY DEF StoreInv
<1>1. caps.spaces = [t \in Tasks |-> [s \in Slots |-> None]]
      /\ caps.nodes = [i \in Nodes |-> EmptyNode]
  BY DEF Init, EmptyStore
<1>2. caps \in Store
  <2>1. EmptyNode \in Node
    BY SizesAssumption DEF EmptyNode, Node, Generations
  <2> QED
    BY <2>1 DEF Init, EmptyStore, Store
<1>3. \A i \in Nodes : ~caps.nodes[i].live
  BY <1>1 DEF EmptyNode
<1>4. Layered(caps.nodes, [i \in Nodes |-> 0])
  BY <1>3 DEF Layered
<1>5. \E depth \in [Nodes -> Nat] : Layered(caps.nodes, depth)
  BY <1>4
<1>6. NoStaleSlot(caps) /\ NoLeakedNode(caps)
  BY <1>1, <1>3 DEF NoStaleSlot, NoLeakedNode
<1>7. NoOrphan(caps) /\ NoAmplification(caps)
  BY <1>3 DEF NoOrphan, NoAmplification
<1> QED
  BY <1>2, <1>5, <1>6, <1>7 DEF Sound

\* A call, whatever its arguments, leaves a sound store sound.
LEMMA NextSound == StoreInv /\ [Next]_caps => StoreInv'
<1> SUFFICES ASSUME Sound(caps), [Next]_caps PROVE Sound(caps')
  BY DEF StoreInv
<1>0. caps \in Store /\ RightArgs \subseteq SUBSET Right
  BY RightArgsAssumption DEF Sound
<1>1. ASSUME NEW t \in TaskArgs, NEW s \in SlotArgs, NEW o \in Objects,
             NEW r \in RightArgs, CreateRoot(t, s, o, r)
      PROVE  Sound(caps')
  <2>1. /\ t \in Tasks /\ s \in Slots /\ caps.spaces[t][s] = None
        /\ FreeNodes(caps.nodes) # {}
    BY <1>1 DEF CreateRoot, CreateRootError, DestinationError
  <2>2. Sound(Install(caps, t, s, o, r, None))
    BY <2>1, <1>0, InstallSound
  <2> QED
    BY <2>2, <1>1 DEF CreateRoot, CreateRootStore
<1>2. ASSUME NEW t \in TaskArgs, NEW u \in TaskArgs, NEW s \in SlotArgs,
             NEW v \in SlotArgs, NEW r \in RightArgs, Mint(t, s, u, v, r)
      PROVE  Sound(caps')
  <2> DEFINE p == caps.spaces[t][s]
  <2>0. /\ MintError(caps, t, s, u, v, r) = "Ok"
        /\ caps' = MintStore(caps, t, s, u, v, r)
    BY <1>2 DEF Mint
  <2>1. /\ u \in Tasks /\ v \in Slots /\ caps.spaces[u][v] = None
        /\ FreeNodes(caps.nodes) # {}
    BY <2>0 DEF MintError, DestinationError
  <2>2. t \in Tasks /\ s \in Slots /\ p # None /\ Current(caps.nodes, p)
    BY <2>0 DEF MintError, SourceError
  <2>3. r \cup {"GRANT"} \subseteq caps.nodes[p.node].rights
    BY <2>0, Zenon DEF MintError, NodeAt
  <2>4. p \in CapRef /\ p.node \in Nodes
    BY <2>2, <1>0 DEF Store, CapRef
  <2>5. caps.nodes[p.node].object \in Objects
    BY <2>4, <1>0 DEF Store, Node
  <2>6. MayDerive(caps, caps.nodes[p.node].object, r, p)
    BY <2>2, <2>3, <2>4, Zenon DEF MayDerive
  <2>7. Sound(Install(caps, u, v, caps.nodes[p.node].object, r, p))
    BY <2>1, <2>5, <2>6, <1>0, InstallSound, ZenonT(60)
  <2> QED
    BY <2>7, <2>0, Zenon DEF MintStore, NodeAt
<1>3. ASSUME NEW t \in TaskArgs, NEW s \in SlotArgs, Revoke(t, s)
      PROVE  Sound(caps')
  <2>1. t \in Tasks /\ s \in Slots /\ caps.spaces[t][s] # None
    BY <1>3 DEF Revoke, SourceError
  <2> QED
    BY <2>1, <1>3, RevokeSound DEF Revoke
<1>4. CASE UNCHANGED caps
  BY <1>4
<1> QED
  BY <1>1, <1>2, <1>3, <1>4 DEF Next

\* The inductive invariant holds in every reachable state of the store.
THEOREM StoreSound == Spec => []StoreInv
  BY InitSound, NextSound, PTL DEF Spec

\* The store always has its type: a generation stays in its counter, a
\* reference names a node of the array.
THEOREM StoreType == Spec => []TypeOK
<1>1. StoreInv => TypeOK
  BY DEF StoreInv, Sound, TypeOK
<1> QED
  BY <1>1, StoreSound, PTL

\* No slot is ever stale, for any number of generations: resolve never finds a
\* reference whose node died or was reused.
THEOREM SlotsStayCurrent == Spec => []SlotsCurrent
<1>1. StoreInv => SlotsCurrent
  BY DEF StoreInv, Sound, SlotsCurrent
<1> QED
  BY <1>1, StoreSound, PTL

\* Live nodes and occupied slots correspond one to one in every reachable store.
THEOREM NodesStayHeld == Spec => []OneSlotPerNode
<1>1. StoreInv => OneSlotPerNode
  BY DEF StoreInv, Sound, OneSlotPerNode
<1> QED
  BY <1>1, StoreSound, PTL

\* No capability outlives an ancestor: the bounded walk of revoke reaches every
\* descendant, however long the chain and in whatever order nodes were reused.
THEOREM NoOrphansEver == Spec => []ParentsCurrent
<1>1. StoreInv => ParentsCurrent
  BY DEF StoreInv, Sound, ParentsCurrent
<1> QED
  BY <1>1, StoreSound, PTL

\* Rights never grow along a derivation.
THEOREM RightsOnlyShrink == Spec => []Attenuated
<1>1. StoreInv => Attenuated
  BY DEF StoreInv, Sound, Attenuated
<1> QED
  BY <1>1, StoreSound, PTL

-----------------------------------------------------------------------------
(* The store implements Authority.  The history variable follows the        *)
(* parent links; every node a live node descends from is live.              *)

Follows(nodes, lin) ==
  /\ lin \in [Nodes -> SUBSET Nodes]
  /\ \A i \in Nodes : lin[i] =
       IF ~nodes[i].live THEN {}
       ELSE IF nodes[i].parent = None THEN {i}
       ELSE {i} \cup lin[nodes[i].parent.node]
  /\ \A i \in Nodes : \A j \in lin[i] : nodes[j].live /\ lin[j] \subseteq lin[i]

\* The bounded walk of is_descendant_or_self finds exactly the nodes derived
\* through the capability it looks for.
LEMMA WalkIsLineage ==
  ASSUME NEW nodes, NEW depth, SoundTree(nodes, depth), NEW lin,
         Follows(nodes, lin), NEW root \in CapRef, Current(nodes, root),
         NEW x \in Nodes, nodes[x].live
  PROVE  IsDescendantOrSelf(nodes, x, root) <=> root.node \in lin[x]
<1> DEFINE T == {n \in Nat : \A i \in Nodes : nodes[i].live /\ depth[i] = n =>
                   (IsDescendantOrSelf(nodes, i, root) <=> root.node \in lin[i])}
<1>1. nodes \in [Nodes -> Node] /\ depth \in [Nodes -> Nat] /\ NODES \in Nat
  BY SizesAssumption DEF SoundTree
<1>2. root # None /\ root.node \in Nodes
  BY NoneAssumption DEF CapRef
<1>3. ASSUME NEW i \in Nodes, nodes[i].live
      PROVE  /\ root.node = i => IsDescendantOrSelf(nodes, i, root)
             /\ \A k \in 0 .. NODES : Ancestry(nodes, i)[k] = root =>
                  depth[root.node] = depth[i] - k /\ (k = 0 => root.node = i)
  <2>1. Ancestry(nodes, i)[0] = RefTo(nodes, i)
    BY <1>1, AncestryIsWalk DEF IsWalk
  <2>2. root.node = i => root = RefTo(nodes, i)
    BY DEF Current, RefTo, CapRef
  <2>3. root.node = i => IsDescendantOrSelf(nodes, i, root)
    BY <2>1, <2>2, <1>1 DEF IsDescendantOrSelf
  <2>4. \A k \in 0 .. NODES : Ancestry(nodes, i)[k] = root =>
          depth[root.node] = depth[i] - k
    BY <1>2, <1>3, WalkClimbs
  <2>5. RefTo(nodes, i).node = i
    BY DEF RefTo
  <2> QED
    BY <2>1, <2>3, <2>4, <2>5
<1>4. ASSUME NEW i \in Nodes, nodes[i].live, nodes[i].parent = None
      PROVE  IsDescendantOrSelf(nodes, i, root) <=> root.node \in lin[i]
  <2>1. lin[i] = {i} /\ depth[i] = 0
    BY <1>4 DEF Follows, SoundTree, Layered
  <2>2. \A k \in 0 .. NODES : Ancestry(nodes, i)[k] = root => root.node = i
    BY <2>1, <1>1, <1>2, <1>3, <1>4
  <2> QED
    BY <2>1, <2>2, <1>3, <1>4 DEF IsDescendantOrSelf
<1>5. ASSUME NEW i \in Nodes, nodes[i].live, nodes[i].parent # None
      PROVE  LET j == nodes[i].parent.node
             IN /\ j \in Nodes /\ nodes[j].live /\ depth[i] = depth[j] + 1
                /\ (IsDescendantOrSelf(nodes, j, root) <=> root.node \in lin[j])
                     => (IsDescendantOrSelf(nodes, i, root) <=> root.node \in lin[i])
  <2> DEFINE j == nodes[i].parent.node
  <2>1. j \in Nodes /\ nodes[j].live /\ depth[i] = depth[j] + 1
    BY <1>1, <1>5 DEF SoundTree, Layered, Current, Node, CapRef
  <2>2. lin[i] = {i} \cup lin[j]
    BY <1>5 DEF Follows
  <2>3. IsDescendantOrSelf(nodes, j, root) => IsDescendantOrSelf(nodes, i, root)
    <3> SUFFICES ASSUME IsDescendantOrSelf(nodes, j, root)
                 PROVE  IsDescendantOrSelf(nodes, i, root)
      OBVIOUS
    <3>1. j \in Revoked(nodes, root)
      BY <2>1 DEF Revoked
    <3>2. i \in Revoked(nodes, root)
      BY <3>1, <1>5, RevokedClosed
    <3> QED
      BY <3>2 DEF Revoked
  <2>4. IsDescendantOrSelf(nodes, i, root) /\ root.node # i
          => IsDescendantOrSelf(nodes, j, root)
    <3> SUFFICES ASSUME IsDescendantOrSelf(nodes, i, root), root.node # i
                 PROVE  IsDescendantOrSelf(nodes, j, root)
      OBVIOUS
    <3>1. PICK k \in 0 .. NODES : Ancestry(nodes, i)[k] = root
      BY DEF IsDescendantOrSelf
    <3>2. k - 1 \in 0 .. NODES /\ (k - 1) + 1 <= NODES /\ (k - 1) + 1 = k
      BY <3>1, <1>1, <1>3, <1>5
    <3>3. Ancestry(nodes, i)[(k - 1) + 1] = Ancestry(nodes, j)[k - 1]
      BY <3>2, <1>5, WalkThroughParent
    <3>4. Ancestry(nodes, j)[k - 1] = root
      BY <3>1, <3>2, <3>3
    <3> QED
      BY <3>2, <3>4 DEF IsDescendantOrSelf
  <2> QED
    BY <2>1, <2>2, <2>3, <2>4, <1>3, <1>5
<1>6. 0 \in T
  <2>1. ASSUME NEW i \in Nodes, nodes[i].live, depth[i] = 0
        PROVE  nodes[i].parent = None
    BY <2>1, <1>1, <1>5
  <2> QED
    BY <2>1, <1>4
<1>7. ASSUME NEW n \in Nat, n \in T PROVE n + 1 \in T
  <2>1. ASSUME NEW i \in Nodes, nodes[i].live, depth[i] = n + 1
        PROVE  IsDescendantOrSelf(nodes, i, root) <=> root.node \in lin[i]
    <3>1. CASE nodes[i].parent = None
      BY <2>1, <3>1, <1>4
    <3>2. CASE nodes[i].parent # None
      <4> DEFINE j == nodes[i].parent.node
      <4>1. j \in Nodes /\ nodes[j].live /\ depth[j] = n
        BY <2>1, <3>2, <1>1, <1>5, <1>7, SMTT(60)
      <4>2. IsDescendantOrSelf(nodes, j, root) <=> root.node \in lin[j]
        BY <4>1, <1>7
      <4> QED
        BY <4>2, <2>1, <3>2, <1>5
    <3> QED
      BY <3>1, <3>2
  <2> QED
    BY <2>1, <1>7
<1>8. depth[x] \in T
  <2>1. depth[x] \in Nat
    BY <1>1
  <2> HIDE DEF T
  <2> QED
    BY <2>1, <1>6, <1>7, SetInduction
<1> QED
  BY <1>8

\* The refinement mapping and the history variable's next value, as operators.
HeldIn(c, lin) ==
  [t \in Tasks |-> [s \in Slots |->
    IF c.spaces[t][s] = None THEN None
    ELSE LET i == c.spaces[t][s].node
         IN [object |-> c.nodes[i].object, rights |-> c.nodes[i].rights,
             id |-> i, lineage |-> lin[i]]]]

RecordedIn(c, d, lin, source) ==
  [i \in Nodes |->
     IF ~d.nodes[i].live THEN {}
     ELSE IF c.nodes[i].live THEN lin[i]
     ELSE {i} \cup source]

\* A root descends from nothing, a minted capability from its source.
Descends(c, lin, o, r, p, source) ==
  \/ p = None /\ source = {}
  \/ MayDerive(c, o, r, p) /\ source = lin[p.node]

\* The mapping is a function of functions.
LEMMA HeldShape ==
  ASSUME NEW c, NEW lin
  PROVE  HeldIn(c, lin) = [t \in Tasks |-> [s \in Slots |-> HeldIn(c, lin)[t][s]]]
<1> DEFINE H == HeldIn(c, lin)
<1>1. H = [t \in Tasks |-> H[t]]
  BY DEF HeldIn
<1>2. \A t \in Tasks : H[t] = [s \in Slots |-> H[t][s]]
  BY DEF HeldIn
<1> HIDE DEF H
<1>3. H = [t \in Tasks |-> [s \in Slots |-> H[t][s]]]
  BY <1>1, <1>2
<1> QED
  BY <1>3 DEF H

\* A slot in use names a live node.
LEMMA SlotLive ==
  ASSUME NEW c, Sound(c), NEW t \in Tasks, NEW s \in Slots, c.spaces[t][s] # None
  PROVE  /\ c.spaces[t][s] \in CapRef /\ c.spaces[t][s].node \in Nodes
         /\ c.nodes[c.spaces[t][s].node].live
<1>1. c.spaces[t][s] \in CapRef /\ c.spaces[t][s].node \in Nodes
  BY DEF Sound, Store, CapRef
<1>2. c.nodes[c.spaces[t][s].node].live
  BY Zenon DEF Sound, NoStaleSlot, Current
<1> QED
  BY <1>1, <1>2

\* A grant as a record.
LEMMA GrantRecord ==
  ASSUME NEW o \in Objects, NEW r \in SUBSET Right, NEW i \in Nodes,
         NEW l \in SUBSET Nodes, NEW g,
         g = [object |-> o, rights |-> r, id |-> i, lineage |-> l]
  PROVE  /\ g \in A!Grant /\ g # None
         /\ g.object = o /\ g.rights = r /\ g.id = i /\ g.lineage = l
<1>1. g \in A!Grant
  BY DEF A!Grant
<1> QED
  BY <1>1, NoGrantAssumption

\* Slot s of t holds the grant of the node it names.
SlotGrant(c, lin, t, s) ==
  LET i == c.spaces[t][s].node
      g == HeldIn(c, lin)[t][s]
  IN /\ g \in A!Grant /\ g # None
     /\ g.object = c.nodes[i].object /\ g.rights = c.nodes[i].rights
     /\ g.id = i /\ g.lineage = lin[i]

\* The grant in a slot in use.
LEMMA HeldSlot ==
  ASSUME NEW c, Sound(c), NEW lin, Follows(c.nodes, lin),
         NEW t \in Tasks, NEW s \in Slots, c.spaces[t][s] # None
  PROVE  SlotGrant(c, lin, t, s)
<1> DEFINE i == c.spaces[t][s].node
           g == HeldIn(c, lin)[t][s]
<1>1. i \in Nodes
  BY SlotLive
<1>2. g = [object |-> c.nodes[i].object, rights |-> c.nodes[i].rights,
           id |-> i, lineage |-> lin[i]]
  BY DEF HeldIn
<1>3. c.nodes[i].object \in Objects /\ c.nodes[i].rights \in SUBSET Right
  BY <1>1 DEF Sound, Store, Node
<1>4. lin[i] \in SUBSET Nodes
  BY <1>1 DEF Follows
<1> HIDE DEF i, g
<1>5. /\ g \in A!Grant /\ g # None
      /\ g.object = c.nodes[i].object /\ g.rights = c.nodes[i].rights
      /\ g.id = i /\ g.lineage = lin[i]
  BY <1>1, <1>2, <1>3, <1>4, GrantRecord
<1> QED
  BY <1>5, Zenon DEF SlotGrant, i, g

Installed(c, lin, t, s, o, r, p, source) ==
  LET i == FirstFree(c.nodes)
      d == Install(c, t, s, o, r, p)
      new == RecordedIn(c, d, lin, source)
  IN /\ Follows(d.nodes, new)
     /\ i \in Nodes /\ ~c.nodes[i].live
     /\ d.spaces[t][s] # None /\ d.spaces[t][s].node = i
     /\ d.nodes[i].object = o /\ d.nodes[i].rights = r
     /\ new[i] = {i} \cup source
     /\ \A u \in Tasks, v \in Slots : ~(u = t /\ v = s) =>
          HeldIn(d, new)[u][v] = HeldIn(c, lin)[u][v]

\* allocate gives a grant that nobody has seen: no live node descends from the
\* node it reuses.
LEMMA InstallFollows ==
  ASSUME NEW c, Sound(c), NEW lin, Follows(c.nodes, lin),
         NEW t \in Tasks, NEW s \in Slots,
         c.spaces[t][s] = None, FreeNodes(c.nodes) # {},
         NEW o \in Objects, NEW r \in SUBSET Right,
         NEW p, NEW source, Descends(c, lin, o, r, p, source)
  PROVE  Installed(c, lin, t, s, o, r, p, source)
<1> DEFINE i == FirstFree(c.nodes)
           d == Install(c, t, s, o, r, p)
           new == RecordedIn(c, d, lin, source)
<1>1. c \in Store /\ p \in CapRef \cup {None} /\ lin \in [Nodes -> SUBSET Nodes]
  BY DEF Sound, MayDerive, Follows, Descends
<1>b. p # None => MayDerive(c, o, r, p) /\ source = lin[p.node]
  BY DEF Descends
<1>a. p = None => source = {}
  BY NoneAssumption DEF Descends, MayDerive
<1>2. i \in Nodes /\ ~c.nodes[i].live
  BY FirstFreeIsFree
<1>3. /\ d.nodes[i].live /\ d.nodes[i].object = o /\ d.nodes[i].rights = r
      /\ d.nodes[i].parent = p
      /\ \A j \in Nodes : j # i => d.nodes[j] = c.nodes[j]
  BY <1>1, <1>2 DEF Install, Store
<1>4. /\ d.spaces[t][s] = [node |-> i, generation |-> c.nodes[i].generation]
      /\ \A u \in Tasks, v \in Slots :
           ~(u = t /\ v = s) => d.spaces[u][v] = c.spaces[u][v]
  BY <1>1 DEF Install, Store
<1>5. d.spaces[t][s] # None /\ d.spaces[t][s].node = i
  <2> DEFINE ref == [node |-> i, generation |-> c.nodes[i].generation]
  <2>1. c.nodes[i] \in Node
    BY <1>1, <1>2 DEF Store
  <2> HIDE DEF i
  <2>2. ref \in CapRef /\ ref.node = i
    BY <1>2, <2>1 DEF Node, CapRef
  <2> HIDE DEF ref
  <2> QED
    BY <1>4, <2>2, NoneAssumption, Zenon DEF ref
<1>6. \A j \in Nodes : ~c.nodes[j].live => lin[j] = {}
  BY DEF Follows
<1>7. /\ new \in [Nodes -> SUBSET Nodes] /\ new[i] = {i} \cup source
      /\ \A j \in Nodes : j # i => new[j] = lin[j]
  <2>1. source \in SUBSET Nodes
    BY <1>1, <1>a, <1>b, SMTT(60) DEF CapRef
  <2>2. new[i] = {i} \cup source
    BY <1>2, <1>3 DEF RecordedIn
  <2> HIDE DEF d, i
  <2>3. ASSUME NEW j \in Nodes, j # i PROVE new[j] = lin[j]
    <3>1. new[j] = IF ~d.nodes[j].live THEN {}
                   ELSE IF c.nodes[j].live THEN lin[j] ELSE {j} \cup source
      BY DEF RecordedIn
    <3>2. d.nodes[j] = c.nodes[j]
      BY <2>3, <1>3
    <3>3. CASE c.nodes[j].live
      BY <3>1, <3>2, <3>3, Zenon
    <3>4. CASE ~c.nodes[j].live
      BY <3>1, <3>2, <3>4, <1>6, Zenon
    <3> QED
      BY <3>3, <3>4
  <2>4. \A j \in Nodes : new[j] \in SUBSET Nodes
    BY <1>1, <1>2, <2>1, <2>2, <2>3
  <2> QED
    BY <2>2, <2>3, <2>4, Zenon DEF RecordedIn
<1>8. p # None => p.node \in Nodes /\ p.node # i /\ c.nodes[p.node].live
  BY <1>2, <1>b DEF MayDerive, CapRef, Current
<1>9. \A j \in Nodes : c.nodes[j].live /\ c.nodes[j].parent # None =>
        c.nodes[j].parent.node \in Nodes /\ c.nodes[j].parent.node # i
  BY <1>1, <1>2, Zenon DEF Sound, NoOrphan, Current, Store, Node, CapRef
<1> HIDE DEF d, new, i
<1>10. \A j \in Nodes : new[j] =
         IF ~d.nodes[j].live THEN {}
         ELSE IF d.nodes[j].parent = None THEN {j}
         ELSE {j} \cup new[d.nodes[j].parent.node]
  <2>1. new[i] = IF ~d.nodes[i].live THEN {}
                 ELSE IF d.nodes[i].parent = None THEN {i}
                 ELSE {i} \cup new[d.nodes[i].parent.node]
    BY <1>2, <1>3, <1>7, <1>8, <1>a, <1>b
  <2>2. ASSUME NEW j \in Nodes, j # i
        PROVE  new[j] = IF ~d.nodes[j].live THEN {}
                        ELSE IF d.nodes[j].parent = None THEN {j}
                        ELSE {j} \cup new[d.nodes[j].parent.node]
    <3>1. d.nodes[j] = c.nodes[j] /\ new[j] = lin[j]
      BY <2>2, <1>3, <1>7, Zenon
    <3>2. c.nodes[j].live /\ c.nodes[j].parent # None =>
            new[c.nodes[j].parent.node] = lin[c.nodes[j].parent.node]
      BY <1>7, <1>9, Zenon
    <3>3. lin[j] = IF ~c.nodes[j].live THEN {}
                   ELSE IF c.nodes[j].parent = None THEN {j}
                   ELSE {j} \cup lin[c.nodes[j].parent.node]
      BY Zenon DEF Follows
    <3> QED
      BY <3>1, <3>2, <3>3, Zenon
  <2> SUFFICES ASSUME NEW j \in Nodes
               PROVE  new[j] = IF ~d.nodes[j].live THEN {}
                               ELSE IF d.nodes[j].parent = None THEN {j}
                               ELSE {j} \cup new[d.nodes[j].parent.node]
    BY Zenon
  <2>3. CASE j = i
    BY <2>1, <2>3
  <2>4. CASE j # i
    BY <2>2, <2>4, Zenon
  <2> QED
    BY <2>3, <2>4
<1>11. \A j \in Nodes : \A k \in lin[j] : k \in Nodes /\ k # i /\ c.nodes[k].live
  BY <1>1, <1>2 DEF Follows
<1>12. ASSUME NEW j \in Nodes, NEW k \in new[j]
       PROVE  d.nodes[k].live /\ new[k] \subseteq new[j]
  <2>1. CASE j # i
    <3>1. new[j] = lin[j] /\ k \in lin[j]
      BY <2>1, <1>7, <1>12, Zenon
    <3>2. k \in Nodes /\ k # i /\ c.nodes[k].live
      BY <3>1, <1>11, Zenon
    <3>3. lin[k] \subseteq lin[j]
      BY <3>1, Zenon DEF Follows
    <3> QED
      BY <3>1, <3>2, <3>3, <1>3, <1>7, Zenon
  <2>2. CASE j = i /\ k = i
    BY <2>2, <1>3
  <2>3. CASE j = i /\ k # i
    <3>1. p # None /\ k \in lin[p.node]
      BY <2>3, <1>7, <1>a, <1>b
    <3>2. lin[k] \subseteq lin[p.node]
      BY <3>1, <1>8 DEF Follows
    <3> QED
      BY <2>3, <3>1, <3>2, <1>3, <1>7, <1>8, <1>11, <1>b, ZenonT(60)
  <2> QED
    BY <2>1, <2>2, <2>3
<1>13. Follows(d.nodes, new)
  BY <1>7, <1>10, <1>12 DEF Follows
<1>14. ASSUME NEW u \in Tasks, NEW v \in Slots, ~(u = t /\ v = s)
       PROVE  HeldIn(d, new)[u][v] = HeldIn(c, lin)[u][v]
  <2>1. d.spaces[u][v] = c.spaces[u][v]
    BY <1>4, <1>14
  <2>2. c.spaces[u][v] # None =>
          c.spaces[u][v].node \in Nodes /\ c.nodes[c.spaces[u][v].node].live
    BY SlotLive, Zenon
  <2>3. c.spaces[u][v] # None => LET j == c.spaces[u][v].node
                                 IN d.nodes[j] = c.nodes[j] /\ new[j] = lin[j]
    BY <2>2, <1>2, <1>3, <1>7, Zenon
  <2> QED
    <3>1. CASE c.spaces[u][v] = None
      BY <2>1, <3>1, Zenon DEF HeldIn
    <3>2. CASE c.spaces[u][v] # None
      <4> DEFINE j == c.spaces[u][v].node
      <4>1. HeldIn(d, new)[u][v] =
              [object |-> d.nodes[j].object, rights |-> d.nodes[j].rights,
               id |-> j, lineage |-> new[j]]
        BY <2>1, <3>2, Zenon DEF HeldIn
      <4>2. HeldIn(c, lin)[u][v] =
              [object |-> c.nodes[j].object, rights |-> c.nodes[j].rights,
               id |-> j, lineage |-> lin[j]]
        BY <3>2 DEF HeldIn
      <4> QED
        BY <4>1, <4>2, <2>3, <3>2, Zenon
    <3> QED
      BY <3>1, <3>2
<1> QED
  BY <1>2, <1>3, <1>5, <1>7, <1>13, <1>14, ZenonT(60) DEF Installed, d, new, i

\* What a new capability is to Authority: a grant nobody has seen, in one slot.
Appears(c, lin, d, new, t, s, o, r, source) ==
  LET H == HeldIn(c, lin)
      K == HeldIn(d, new)
      g == K[t][s]
  IN /\ Sound(d) /\ Follows(d.nodes, new)
     /\ H[t][s] = None /\ K = [H EXCEPT ![t][s] = g]
     /\ g \in A!Grant /\ g # None
     /\ g.object = o /\ g.rights = r /\ g.lineage = {g.id} \cup source
     /\ \A u \in Tasks, v \in Slots : H[u][v] # None => g.id \notin H[u][v].lineage

AppearsInstalled(c, lin, t, s, o, r, p, source) ==
  LET d == Install(c, t, s, o, r, p)
  IN Appears(c, lin, d, RecordedIn(c, d, lin, source), t, s, o, r, source)

\* A capability that create_root or mint installs appears as a new grant.
LEMMA InstallAppears ==
  ASSUME NEW c, Sound(c), NEW lin, Follows(c.nodes, lin),
         NEW t \in Tasks, NEW s \in Slots,
         c.spaces[t][s] = None, FreeNodes(c.nodes) # {},
         NEW o \in Objects, NEW r \in SUBSET Right,
         NEW p, NEW source, Descends(c, lin, o, r, p, source)
  PROVE  AppearsInstalled(c, lin, t, s, o, r, p, source)
<1> DEFINE i == FirstFree(c.nodes)
           d == Install(c, t, s, o, r, p)
           new == RecordedIn(c, d, lin, source)
           H == HeldIn(c, lin)
           K == HeldIn(d, new)
           g == K[t][s]
<1>1. /\ Follows(d.nodes, new)
      /\ i \in Nodes /\ ~c.nodes[i].live
      /\ d.spaces[t][s] # None /\ d.spaces[t][s].node = i
      /\ d.nodes[i].object = o /\ d.nodes[i].rights = r
      /\ new[i] = {i} \cup source
      /\ \A u \in Tasks, v \in Slots : ~(u = t /\ v = s) => K[u][v] = H[u][v]
  <2>1. Installed(c, lin, t, s, o, r, p, source)
    BY InstallFollows
  <2> QED
    BY <2>1 DEF Installed
<1>2. Sound(d)
  BY InstallSound DEF Descends
<1> HIDE DEF i, d, new
<1>3. /\ g \in A!Grant /\ g # None
      /\ g.object = d.nodes[i].object /\ g.rights = d.nodes[i].rights
      /\ g.id = i /\ g.lineage = new[i]
  <2>1. SlotGrant(d, new, t, s)
    BY <1>1, <1>2, HeldSlot, Zenon
  <2> QED
    BY <1>1, <2>1, Zenon DEF SlotGrant
<1>4. H[t][s] = None
  BY Zenon DEF HeldIn
<1>5. H = [u \in Tasks |-> [v \in Slots |-> H[u][v]]]
  BY HeldShape
<1>6. K = [u \in Tasks |-> [v \in Slots |-> K[u][v]]]
  BY HeldShape
<1>7. ASSUME NEW u \in Tasks, NEW v \in Slots, H[u][v] # None
      PROVE  i \notin H[u][v].lineage
  <2>1. c.spaces[u][v] # None
    BY <1>7, Zenon DEF HeldIn
  <2>2. c.spaces[u][v].node \in Nodes
    BY <2>1, SlotLive
  <2>3. H[u][v].lineage = lin[c.spaces[u][v].node]
    <3>1. SlotGrant(c, lin, u, v)
      BY <2>1, HeldSlot, Zenon
    <3> QED
      BY <3>1, Zenon DEF SlotGrant
  <2> QED
    <3>1. \A j \in lin[c.spaces[u][v].node] : c.nodes[j].live
      BY <2>2, Zenon DEF Follows
    <3> QED
      BY <2>3, <3>1, <1>1, Zenon
<1> HIDE DEF H, K, g
<1>8. K = [H EXCEPT ![t][s] = g]
  <2>1. \A u \in Tasks, v \in Slots :
          K[u][v] = IF u = t /\ v = s THEN g ELSE H[u][v]
    BY <1>1 DEF g
  <2> QED
    BY <2>1, <1>5, <1>6
<1>9. g.object = o /\ g.rights = r /\ g.lineage = {g.id} \cup source
  BY <1>1, <1>3
<1>10. \A u \in Tasks, v \in Slots : H[u][v] # None => g.id \notin H[u][v].lineage
  BY <1>3, <1>7
<1> QED
  BY <1>1, <1>2, <1>3, <1>4, <1>8, <1>9, <1>10, Zenon
     DEF AppearsInstalled, Appears, g, H, K, d, new

\* From c to d, the grants that descend from node root went and no other did.
Survives(c, lin, d, new, root) ==
  /\ Follows(d.nodes, new)
  /\ \A u \in Tasks, v \in Slots :
       /\ c.spaces[u][v] = None => HeldIn(d, new)[u][v] = None
       /\ c.spaces[u][v] # None =>
            HeldIn(d, new)[u][v] =
              IF root \in lin[c.spaces[u][v].node] THEN None
              ELSE HeldIn(c, lin)[u][v]

\* Survives, for what revoke of slot s of t leaves of c.
RevokeSurvives(c, lin, t, s, source) ==
  LET d == RevokeStore(c, t, s)
  IN Survives(c, lin, d, RecordedIn(c, d, lin, source), c.spaces[t][s].node)

\* revoke keeps the history true: what survives keeps its whole lineage.
LEMMA RevokeFollows ==
  ASSUME NEW c, Sound(c), NEW lin, Follows(c.nodes, lin),
         NEW t \in Tasks, NEW s \in Slots, c.spaces[t][s] # None, NEW source
  PROVE  RevokeSurvives(c, lin, t, s, source)
<1> DEFINE d == RevokeStore(c, t, s)
           new == RecordedIn(c, d, lin, source)
           root == c.spaces[t][s].node
           dead == Revoked(c.nodes, c.spaces[t][s])
<1>1. c \in Store /\ lin \in [Nodes -> SUBSET Nodes]
  BY DEF Sound, Follows
<1>2. c.spaces[t][s] \in CapRef /\ Current(c.nodes, c.spaces[t][s])
  BY DEF Sound, NoStaleSlot, Store
<1>3. PICK depth \in [Nodes -> Nat] : SoundTree(c.nodes, depth)
  BY <1>1 DEF SoundTree, Sound, NoOrphan, Store
<1>4. \A i \in Nodes : i \in dead <=> c.nodes[i].live /\ root \in lin[i]
  <2>1. ASSUME NEW i \in Nodes, c.nodes[i].live
        PROVE  IsDescendantOrSelf(c.nodes, i, c.spaces[t][s]) <=> root \in lin[i]
    BY <2>1, <1>2, <1>3, WalkIsLineage
  <2> QED
    BY <2>1 DEF Revoked
<1>5. \A i \in Nodes : IF i \in dead THEN ~d.nodes[i].live
                       ELSE d.nodes[i] = c.nodes[i]
  <2>1. d.nodes = KillNodes(c.nodes, dead)
    BY <1>1, RevokeKills
  <2> HIDE DEF d, dead
  <2>2. \A i \in Nodes : d.nodes[i] = IF i \in dead THEN Killed(c.nodes[i])
                                      ELSE c.nodes[i]
    BY <2>1 DEF KillNodes
  <2>3. \A i \in Nodes : ~Killed(c.nodes[i]).live
    BY <1>1 DEF Killed, Store, Node
  <2> QED
    BY <2>2, <2>3, Zenon
<1>6. \A u \in Tasks, v \in Slots :
        d.spaces[u][v] =
          IF c.spaces[u][v] # None /\ ~Current(d.nodes, c.spaces[u][v])
          THEN None ELSE c.spaces[u][v]
  BY DEF RevokeStore, SweepSlots
<1>7. \A i \in Nodes : new[i] = IF ~d.nodes[i].live THEN {}
                                ELSE IF c.nodes[i].live THEN lin[i]
                                ELSE {i} \cup source
  BY DEF RecordedIn
<1>8. DOMAIN new = Nodes /\ new = [i \in Nodes |-> new[i]]
  BY DEF RecordedIn
<1> HIDE DEF d, new, dead, root
<1>9. ASSUME NEW i \in Nodes
      PROVE  new[i] = IF root \in lin[i] THEN {} ELSE lin[i]
  <2>1. CASE i \in dead
    <3>1. ~d.nodes[i].live
      BY <2>1, <1>5
    <3> QED
      BY <3>1, <2>1, <1>4, <1>7, Zenon
  <2>2. CASE i \notin dead /\ c.nodes[i].live
    <3>1. d.nodes[i].live
      BY <2>2, <1>5
    <3> QED
      BY <3>1, <2>2, <1>4, <1>7, Zenon
  <2>3. CASE i \notin dead /\ ~c.nodes[i].live
    <3>1. ~d.nodes[i].live
      BY <2>3, <1>5
    <3>2. lin[i] = {}
      BY <2>3 DEF Follows
    <3> QED
      BY <3>1, <3>2, <1>7, Zenon
  <2> QED
    BY <2>1, <2>2, <2>3
<1>10. new \in [Nodes -> SUBSET Nodes]
  BY <1>1, <1>8, <1>9
<1>11. ASSUME NEW i \in Nodes, root \notin lin[i], NEW j \in lin[i]
       PROVE  j \in Nodes /\ root \notin lin[j] /\ d.nodes[j].live
  <2>1. j \in Nodes /\ c.nodes[j].live /\ root \notin lin[j]
    BY <1>1, <1>11 DEF Follows
  <2> QED
    BY <2>1, <1>4, <1>5
<1>12. ASSUME NEW i \in Nodes, NEW j \in new[i]
       PROVE  d.nodes[j].live /\ new[j] \subseteq new[i]
  <2>1. root \notin lin[i] /\ j \in lin[i] /\ new[i] = lin[i]
    BY <1>9, <1>12
  <2>2. j \in Nodes /\ root \notin lin[j] /\ d.nodes[j].live
    BY <2>1, <1>11
  <2>3. lin[j] \subseteq lin[i]
    BY <2>1 DEF Follows
  <2>4. new[j] = lin[j]
    BY <2>2, <1>9
  <2> QED
    BY <2>1, <2>2, <2>3, <2>4
<1>13. ASSUME NEW i \in Nodes
       PROVE  new[i] = IF ~d.nodes[i].live THEN {}
                       ELSE IF d.nodes[i].parent = None THEN {i}
                       ELSE {i} \cup new[d.nodes[i].parent.node]
  <2>1. CASE ~d.nodes[i].live
    BY <2>1, <1>7, Zenon
  <2>2. CASE d.nodes[i].live
    <3>1. i \notin dead /\ d.nodes[i] = c.nodes[i] /\ c.nodes[i].live
      BY <2>2, <1>5
    <3>2. root \notin lin[i] /\ new[i] = lin[i]
      BY <3>1, <1>4, <1>9
    <3>3. CASE c.nodes[i].parent = None
      <4>1. lin[i] = {i}
        BY <3>1, <3>3 DEF Follows
      <4> QED
        BY <4>1, <2>2, <3>1, <3>2, <3>3
    <3>4. CASE c.nodes[i].parent # None
      <4> DEFINE j == c.nodes[i].parent.node
      <4>1. lin[i] = {i} \cup lin[j]
        BY <3>1, <3>4 DEF Follows
      <4>2. j \in Nodes
        BY <3>4, <1>1 DEF Store, Node, CapRef
      <4>3. new[j] = lin[j]
        BY <4>1, <4>2, <3>2, <1>9
      <4> QED
        BY <4>1, <4>3, <2>2, <3>1, <3>2, <3>4, ZenonT(60)
    <3> QED
      BY <3>3, <3>4
  <2> QED
    BY <2>1, <2>2
<1>14. Follows(d.nodes, new)
  BY <1>10, <1>12, <1>13 DEF Follows
<1>15. ASSUME NEW u \in Tasks, NEW v \in Slots, c.spaces[u][v] = None
       PROVE  HeldIn(d, new)[u][v] = None
  BY <1>6, <1>15, Zenon DEF HeldIn
<1>16. ASSUME NEW u \in Tasks, NEW v \in Slots, c.spaces[u][v] # None
       PROVE  HeldIn(d, new)[u][v] =
                IF root \in lin[c.spaces[u][v].node] THEN None
                ELSE HeldIn(c, lin)[u][v]
  <2> DEFINE i == c.spaces[u][v].node
  <2>1. i \in Nodes /\ c.nodes[i].live
    BY <1>16, SlotLive, Zenon
  <2>2. Current(c.nodes, c.spaces[u][v])
    BY <1>16 DEF Sound, NoStaleSlot
  <2>3. CASE root \in lin[i]
    <3>1. ~d.nodes[i].live
      BY <2>1, <2>3, <1>4, <1>5, ZenonT(60)
    <3>2. d.spaces[u][v] = None
      BY <3>1, <1>6, <1>16, Zenon DEF Current
    <3> QED
      BY <3>2, <2>3, Zenon DEF HeldIn
  <2>4. CASE root \notin lin[i]
    <3>1. d.nodes[i] = c.nodes[i] /\ new[i] = lin[i]
      BY <2>1, <2>4, <1>4, <1>5, <1>9, ZenonT(60)
    <3>2. d.spaces[u][v] = c.spaces[u][v]
      <4>1. Current(d.nodes, c.spaces[u][v])
        BY <3>1, <2>2, Zenon DEF Current
      <4> QED
        BY <4>1, <1>6, Zenon
    <3>3. HeldIn(d, new)[u][v] =
            [object |-> d.nodes[i].object, rights |-> d.nodes[i].rights,
             id |-> i, lineage |-> new[i]]
      BY <3>2, <1>16, ZenonT(60) DEF HeldIn
    <3>4. HeldIn(c, lin)[u][v] =
            [object |-> c.nodes[i].object, rights |-> c.nodes[i].rights,
             id |-> i, lineage |-> lin[i]]
      BY <1>16 DEF HeldIn
    <3> QED
      BY <3>1, <3>3, <3>4, <2>4, Zenon
  <2> QED
    BY <2>3, <2>4
<1>17. Survives(c, lin, d, new, root)
  BY <1>14, <1>15, <1>16, Zenon DEF Survives
<1> QED
  BY <1>17, Zenon DEF RevokeSurvives, d, new, root

-----------------------------------------------------------------------------
(* Every behaviour of CapabilityLineage. *)

LineageInv == Sound(caps) /\ Follows(caps.nodes, lineage)

\* The calls that change something, each with what it gives Recorded.
RootStep(t, s, o, r) ==
  /\ caps.spaces[t][s] = None /\ FreeNodes(caps.nodes) # {}
  /\ caps' = Install(caps, t, s, o, r, None)
  /\ lineage' = RecordedIn(caps, caps', lineage, {})

MintStep(t, s, u, v, o, r) ==
  LET p == caps.spaces[t][s]
  IN /\ caps.spaces[u][v] = None /\ FreeNodes(caps.nodes) # {}
     /\ p # None /\ MayDerive(caps, o, r, p)
     /\ caps' = Install(caps, u, v, o, r, p)
     /\ lineage' = RecordedIn(caps, caps', lineage, lineage[p.node])

RevokeStep(t, s) ==
  /\ caps.spaces[t][s] # None
  /\ caps' = RevokeStore(caps, t, s)
  /\ lineage' = RecordedIn(caps, caps', lineage, {})

\* A call that fails changes nothing, the history variable included.
LEMMA LineageSteps ==
  ASSUME LineageInv, [LineageNext]_lineageVars
  PROVE  \/ caps' = caps /\ lineage' = lineage
         \/ \E t \in Tasks, s \in Slots, o \in Objects, r \in SUBSET Right :
              RootStep(t, s, o, r)
         \/ \E t, u \in Tasks, s, v \in Slots, o \in Objects, r \in SUBSET Right :
              MintStep(t, s, u, v, o, r)
         \/ \E t \in Tasks, s \in Slots : RevokeStep(t, s)
<1>0. caps \in Store /\ RightArgs \subseteq SUBSET Right
  BY RightArgsAssumption DEF LineageInv, Sound
<1>1. ASSUME caps' = caps, NEW source, lineage' = Recorded(source)
      PROVE  caps' = caps /\ lineage' = lineage
  <2>1. /\ lineage \in [Nodes -> SUBSET Nodes]
        /\ \A i \in Nodes : ~caps.nodes[i].live => lineage[i] = {}
    BY DEF LineageInv, Follows
  <2>2. \A i \in Nodes : Recorded(source)[i] = lineage[i]
    <3> SUFFICES ASSUME NEW i \in Nodes PROVE Recorded(source)[i] = lineage[i]
      OBVIOUS
    <3>1. Recorded(source)[i] = IF ~caps.nodes[i].live THEN {}
                                ELSE IF caps.nodes[i].live THEN lineage[i]
                                ELSE {i} \cup source
      BY <1>1 DEF Recorded
    <3> QED
      BY <3>1, <2>1, Zenon
  <2>3. Recorded(source) = [i \in Nodes |-> Recorded(source)[i]]
    BY DEF Recorded
  <2>4. lineage = [i \in Nodes |-> lineage[i]]
    BY <2>1
  <2>5. Recorded(source) = lineage
    BY <2>2, <2>3, <2>4
  <2> QED
    BY <2>5, <1>1
<1>2. \A source : Recorded(source) = RecordedIn(caps, caps', lineage, source)
  BY DEF Recorded, RecordedIn
<1>3. ASSUME NEW t \in TaskArgs, NEW s \in SlotArgs, NEW o \in Objects,
             NEW r \in RightArgs, CreateRoot(t, s, o, r), caps' # caps
      PROVE  /\ t \in Tasks /\ s \in Slots /\ r \in SUBSET Right
             /\ lineage' = Recorded({}) => RootStep(t, s, o, r)
  <2>1. CreateRootError(caps, t, s) = "Ok" /\ caps' = CreateRootStore(caps, t, s, o, r)
    BY <1>3 DEF CreateRoot
  <2> QED
    BY <2>1, <1>0, <1>2 DEF CreateRootError, DestinationError, CreateRootStore, RootStep
<1>4. ASSUME NEW t \in TaskArgs, NEW u \in TaskArgs, NEW s \in SlotArgs,
             NEW v \in SlotArgs, NEW r \in RightArgs, Mint(t, s, u, v, r),
             caps' # caps
      PROVE  /\ t \in Tasks /\ s \in Slots /\ u \in Tasks /\ v \in Slots
             /\ r \in SUBSET Right
             /\ lineage' = Recorded(lineage[caps.spaces[t][s].node]) =>
                  \E o \in Objects : MintStep(t, s, u, v, o, r)
  <2> DEFINE p == caps.spaces[t][s]
  <2>0. MintError(caps, t, s, u, v, r) = "Ok" /\ caps' = MintStore(caps, t, s, u, v, r)
    BY <1>4 DEF Mint
  <2>1. /\ u \in Tasks /\ v \in Slots /\ caps.spaces[u][v] = None
        /\ FreeNodes(caps.nodes) # {}
    BY <2>0 DEF MintError, DestinationError
  <2>2. t \in Tasks /\ s \in Slots /\ p # None /\ Current(caps.nodes, p)
    BY <2>0 DEF MintError, SourceError
  <2>3. r \cup {"GRANT"} \subseteq caps.nodes[p.node].rights
    BY <2>0, Zenon DEF MintError, NodeAt
  <2>4. p \in CapRef /\ p.node \in Nodes
    BY <2>2, <1>0 DEF Store, CapRef
  <2>5. caps.nodes[p.node].object \in Objects
    BY <2>4, <1>0 DEF Store, Node
  <2>6. MayDerive(caps, caps.nodes[p.node].object, r, p)
    BY <2>2, <2>3, <2>4, ZenonT(60) DEF MayDerive
  <2>7. caps' = Install(caps, u, v, caps.nodes[p.node].object, r, p)
    BY <2>0 DEF MintStore, NodeAt
  <2> QED
    <3>1. lineage' = Recorded(lineage[p.node]) =>
            MintStep(t, s, u, v, caps.nodes[p.node].object, r)
      BY <1>2, <2>1, <2>2, <2>6, <2>7, Zenon DEF MintStep
    <3>2. r \in SUBSET Right
      BY <1>0
    <3> QED
      BY <2>1, <2>2, <2>5, <3>1, <3>2, Zenon
<1>5. ASSUME NEW t \in TaskArgs, NEW s \in SlotArgs, Revoke(t, s), caps' # caps
      PROVE  /\ t \in Tasks /\ s \in Slots
             /\ lineage' = Recorded({}) => RevokeStep(t, s)
  <2>1. SourceError(caps, t, s) = "Ok" /\ caps' = RevokeStore(caps, t, s)
    BY <1>5 DEF Revoke
  <2> QED
    BY <2>1, <1>2 DEF SourceError, RevokeStep
<1>6. CASE lineageVars' = lineageVars
  BY <1>6 DEF lineageVars
<1>7. CASE \E t \in TaskArgs, s \in SlotArgs, o \in Objects, r \in RightArgs :
             CreateRoot(t, s, o, r) /\ lineage' = Recorded({})
  <2>1. PICK t \in TaskArgs, s \in SlotArgs, o \in Objects, r \in RightArgs :
          CreateRoot(t, s, o, r) /\ lineage' = Recorded({})
    BY <1>7
  <2>2. CASE caps' = caps
    BY <2>1, <2>2, <1>1
  <2>3. CASE caps' # caps
    BY <2>1, <2>3, <1>3, Zenon
  <2> QED
    BY <2>2, <2>3
<1>8. CASE \E t, u \in TaskArgs, s, v \in SlotArgs, r \in RightArgs :
             /\ Mint(t, s, u, v, r)
             /\ lineage' = Recorded(lineage[caps.spaces[t][s].node])
  <2>1. PICK t \in TaskArgs, u \in TaskArgs, s \in SlotArgs, v \in SlotArgs,
             r \in RightArgs :
          /\ Mint(t, s, u, v, r)
          /\ lineage' = Recorded(lineage[caps.spaces[t][s].node])
    BY <1>8
  <2>2. CASE caps' = caps
    BY <2>1, <2>2, <1>1
  <2>3. CASE caps' # caps
    <3>1. /\ t \in Tasks /\ s \in Slots /\ u \in Tasks /\ v \in Slots
          /\ r \in SUBSET Right
      BY <2>1, <2>3, <1>4
    <3>2. \E o \in Objects : MintStep(t, s, u, v, o, r)
      BY <2>1, <2>3, <1>4
    <3> QED
      BY <3>1, <3>2, Zenon
  <2> QED
    BY <2>2, <2>3
<1>9. CASE \E t \in TaskArgs, s \in SlotArgs :
             Revoke(t, s) /\ lineage' = Recorded({})
  <2>1. PICK t \in TaskArgs, s \in SlotArgs : Revoke(t, s) /\ lineage' = Recorded({})
    BY <1>9
  <2>2. CASE caps' = caps
    BY <2>1, <2>2, <1>1
  <2>3. CASE caps' # caps
    BY <2>1, <2>3, <1>5, Zenon
  <2> QED
    BY <2>2, <2>3
<1> QED
  BY <1>6, <1>7, <1>8, <1>9 DEF LineageNext

\* The step gives slot s of t a grant of r on o that descends from source.
Gained(t, s, o, r, source) ==
  /\ LineageInv' /\ Held' # Held
  /\ A!Gain(t, s, Held'[t][s])
  /\ Held'[t][s].object = o /\ Held'[t][s].rights = r
  /\ Held'[t][s].lineage = {Held'[t][s].id} \cup source

\* Gaining a grant, as a step.
LEMMA AppearsIsGain ==
  ASSUME NEW t \in Tasks, NEW s \in Slots, NEW o, NEW r, NEW source,
         Appears(caps, lineage, caps', lineage', t, s, o, r, source)
  PROVE  Gained(t, s, o, r, source)
<1> DEFINE H == HeldIn(caps, lineage)
           K == HeldIn(caps', lineage')
           g == K[t][s]
<1>1. Held = H /\ Held' = K
  BY DEF Held, HeldIn
<1>2. /\ Sound(caps') /\ Follows(caps'.nodes, lineage')
      /\ H[t][s] = None /\ K = [H EXCEPT ![t][s] = g]
      /\ g \in A!Grant /\ g # None
      /\ g.object = o /\ g.rights = r /\ g.lineage = {g.id} \cup source
      /\ \A u \in Tasks, v \in Slots : H[u][v] # None => g.id \notin H[u][v].lineage
  BY DEF Appears
<1> HIDE DEF H, K, g
<1>3. LineageInv'
  BY <1>2 DEF LineageInv
<1>4. Held' # Held
  BY <1>1, <1>2 DEF g
<1>5. g.id \notin A!IdsInUse
  BY <1>1, <1>2 DEF A!IdsInUse, A!Holders
<1>6. A!Gain(t, s, g)
  BY <1>1, <1>2, <1>5 DEF A!Gain
<1>7. Held'[t][s] = g
  BY <1>1 DEF g
<1> QED
  BY <1>2, <1>3, <1>4, <1>6, <1>7, Zenon DEF Gained

\* Every call is a step of Authority, or changes nothing it can see.
LEMMA LineageStep ==
  ASSUME LineageInv, [LineageNext]_lineageVars
  PROVE  LineageInv' /\ [A!Next]_Held
<1>0. Held = HeldIn(caps, lineage) /\ Held' = HeldIn(caps', lineage')
  BY DEF Held, HeldIn
<1>1. CASE caps' = caps /\ lineage' = lineage
  BY <1>0, <1>1 DEF LineageInv
<1>2. ASSUME NEW t \in Tasks, NEW s \in Slots, NEW o \in Objects,
             NEW r \in SUBSET Right, RootStep(t, s, o, r)
      PROVE  LineageInv' /\ A!Next
  <2>1. Appears(caps, lineage, caps', lineage', t, s, o, r, {})
    <3>1. Descends(caps, lineage, o, r, None, {})
      BY DEF Descends
    <3> DEFINE d == Install(caps, t, s, o, r, None)
    <3>2. Appears(caps, lineage, d, RecordedIn(caps, d, lineage, {}), t, s, o, r, {})
      <4>1. Sound(caps) /\ Follows(caps.nodes, lineage)
        BY DEF LineageInv
      <4>2. caps.spaces[t][s] = None /\ FreeNodes(caps.nodes) # {}
        BY <1>2 DEF RootStep
      <4>3. AppearsInstalled(caps, lineage, t, s, o, r, None, {})
        BY <3>1, <4>1, <4>2, InstallAppears, ZenonT(30)
      <4> QED
        BY <4>3 DEF AppearsInstalled
    <3> HIDE DEF d
    <3>3. caps' = d /\ lineage' = RecordedIn(caps, d, lineage, {})
      BY <1>2 DEF RootStep, d
    <3> QED
      BY <3>2, <3>3
  <2> DEFINE g == Held'[t][s]
  <2>2. LineageInv' /\ Held' # Held /\ A!Gain(t, s, g) /\ g.lineage = {g.id} \cup {}
    <3>1. Gained(t, s, o, r, {})
      BY <2>1, AppearsIsGain, Zenon
    <3> QED
      BY <3>1, Zenon DEF Gained
  <2>3. A!Create(t, s, g)
    BY <2>2 DEF A!Create
  <2> QED
    BY <2>2, <2>3 DEF A!Next
<1>3. ASSUME NEW t \in Tasks, NEW u \in Tasks, NEW s \in Slots, NEW v \in Slots,
             NEW o \in Objects, NEW r \in SUBSET Right, MintStep(t, s, u, v, o, r)
      PROVE  LineageInv' /\ A!Next
  <2> DEFINE p == caps.spaces[t][s]
             source == lineage[p.node]
  <2>1. p # None /\ MayDerive(caps, o, r, p)
    BY <1>3 DEF MintStep
  <2>2. Appears(caps, lineage, caps', lineage', u, v, o, r, source)
    <3>1. Descends(caps, lineage, o, r, p, source)
      BY <2>1 DEF Descends
    <3> DEFINE d == Install(caps, u, v, o, r, p)
    <3>2. Appears(caps, lineage, d, RecordedIn(caps, d, lineage, source),
                  u, v, o, r, source)
      <4>1. Sound(caps) /\ Follows(caps.nodes, lineage)
        BY DEF LineageInv
      <4>2. caps.spaces[u][v] = None /\ FreeNodes(caps.nodes) # {}
        BY <1>3 DEF MintStep
      <4>3. AppearsInstalled(caps, lineage, u, v, o, r, p, source)
        BY <3>1, <4>1, <4>2, InstallAppears, ZenonT(30)
      <4> QED
        BY <4>3 DEF AppearsInstalled
    <3> HIDE DEF d
    <3>3. caps' = d /\ lineage' = RecordedIn(caps, d, lineage, source)
      BY <1>3 DEF MintStep, d
    <3> QED
      BY <3>2, <3>3, Zenon
  <2> DEFINE g == Held'[u][v]
             from == Held[t][s]
  <2>3. /\ LineageInv' /\ Held' # Held /\ A!Gain(u, v, g)
        /\ g.object = o /\ g.rights = r /\ g.lineage = {g.id} \cup source
    <3>1. Gained(u, v, o, r, source)
      BY <2>2, AppearsIsGain, Zenon
    <3> QED
      BY <3>1, Zenon DEF Gained
  <2>4. /\ from # None /\ from.object = caps.nodes[p.node].object
        /\ from.rights = caps.nodes[p.node].rights
        /\ from.lineage = source
    <3>1. SlotGrant(caps, lineage, t, s)
      BY <2>1, HeldSlot, Zenon DEF LineageInv
    <3>2. from = HeldIn(caps, lineage)[t][s]
      BY <1>0, Zenon
    <3> QED
      BY <3>1, <3>2, Zenon DEF SlotGrant
  <2>5. A!Derive(t, s, u, v, g)
    <3>0. /\ o = caps.nodes[p.node].object
          /\ r \cup {"GRANT"} \subseteq caps.nodes[p.node].rights
      BY <2>1, Zenon DEF MayDerive
    <3> HIDE DEF g, from, source, p
    <3>1. g.rights \cup {"GRANT"} \subseteq from.rights
      BY <3>0, <2>3, <2>4
    <3>2. g.object = from.object /\ g.lineage = from.lineage \cup {g.id}
      BY <3>0, <2>3, <2>4
    <3> QED
      BY <2>3, <2>4, <3>1, <3>2 DEF A!Derive, from
  <2> QED
    BY <2>3, <2>5 DEF A!Next
<1>4. ASSUME NEW t \in Tasks, NEW s \in Slots, RevokeStep(t, s)
      PROVE  LineageInv' /\ A!Next
  <2> DEFINE H == HeldIn(caps, lineage)
             K == HeldIn(caps', lineage')
             root == caps.spaces[t][s].node
  <2>1. /\ caps.spaces[t][s] # None /\ caps' = RevokeStore(caps, t, s)
        /\ lineage' = RecordedIn(caps, caps', lineage, {})
    BY <1>4 DEF RevokeStep
  <2>2. Sound(caps) /\ Follows(caps.nodes, lineage) /\ Sound(caps')
    BY <2>1, RevokeSound DEF LineageInv
  <2>3. /\ Follows(caps'.nodes, lineage')
        /\ \A u \in Tasks, v \in Slots :
             /\ caps.spaces[u][v] = None => K[u][v] = None
             /\ caps.spaces[u][v] # None =>
                  K[u][v] = IF root \in lineage[caps.spaces[u][v].node] THEN None
                            ELSE H[u][v]
    <3>1. RevokeSurvives(caps, lineage, t, s, {})
      BY <2>1, <2>2, RevokeFollows, Zenon
    <3>2. Survives(caps, lineage, caps', lineage', root)
      BY <3>1, <2>1, Zenon DEF RevokeSurvives
    <3> QED
      BY <3>2, Zenon DEF Survives
  <2>4. ASSUME NEW u \in Tasks, NEW v \in Slots
        PROVE  /\ caps.spaces[u][v] = None => H[u][v] = None
               /\ caps.spaces[u][v] # None =>
                    /\ H[u][v] # None /\ H[u][v].id = caps.spaces[u][v].node
                    /\ H[u][v].lineage = lineage[caps.spaces[u][v].node]
    <3>1. caps.spaces[u][v] = None => H[u][v] = None
      BY Zenon DEF HeldIn
    <3>2. ASSUME caps.spaces[u][v] # None
          PROVE  /\ H[u][v] # None /\ H[u][v].id = caps.spaces[u][v].node
                 /\ H[u][v].lineage = lineage[caps.spaces[u][v].node]
      <4>1. SlotGrant(caps, lineage, u, v)
        BY <3>2, <2>2, HeldSlot, Zenon
      <4> QED
        BY <4>1, Zenon DEF SlotGrant
    <3> QED
      BY <3>1, <3>2
  <2>5. H[t][s] # None /\ H[t][s].id = root
    BY <2>1, <2>4
  <2>6. ASSUME NEW u \in Tasks, NEW v \in Slots
        PROVE  K[u][v] = IF H[u][v] # None /\ H[t][s].id \in H[u][v].lineage
                         THEN None ELSE H[u][v]
    <3> HIDE DEF H, K
    <3> QED
      BY <2>3, <2>4, <2>5, ZenonT(60)
  <2>7. K = [u \in Tasks |-> [v \in Slots |-> K[u][v]]]
    BY HeldShape
  <2>8. root \in lineage[root]
    <3>1. root \in Nodes /\ caps.nodes[root].live
      BY <2>1, <2>2, SlotLive, Zenon
    <3> QED
      BY <3>1, <2>2, SMTT(60) DEF Follows
  <2>9. K[t][s] = None
    BY <2>1, <2>3, <2>8
  <2>10. A!Withdraw(t, s)
    <3> HIDE DEF H, K
    <3>1. K = [u \in Tasks |-> [v \in Slots |->
                 IF H[u][v] # None /\ H[t][s].id \in H[u][v].lineage
                 THEN None ELSE H[u][v]]]
      BY <2>6, <2>7
    <3> QED
      BY <3>1, <2>5, <1>0 DEF A!Withdraw, H, K
  <2>11. Held' # Held
    <3> HIDE DEF H, K
    <3>1. K # H
      BY <2>5, <2>9
    <3> QED
      BY <3>1, <1>0 DEF H, K
  <2>12. LineageInv'
    BY <2>2, <2>3 DEF LineageInv
  <2> QED
    BY <2>10, <2>11, <2>12 DEF A!Next
<1> QED
  BY <1>1, <1>2, <1>3, <1>4, LineageSteps

\* The store with its history implements Authority, for any number of tasks,
\* slots, nodes and generations: create_root and mint hand out grants nobody has
\* seen, and revoke takes away exactly what was derived from the revoked one.
THEOREM StoreImplementsAuthority == LineageSpec => ImplementsAuthority
<1>1. LineageInit => LineageInv /\ A!Init
  <2> SUFFICES ASSUME LineageInit PROVE LineageInv /\ A!Init
    OBVIOUS
  <2>1. Sound(caps)
    BY InitSound DEF LineageInit, StoreInv
  <2>2. /\ caps.spaces = [t \in Tasks |-> [s \in Slots |-> None]]
        /\ caps.nodes = [i \in Nodes |-> EmptyNode]
        /\ lineage = [i \in Nodes |-> {}]
    BY DEF LineageInit, Init, EmptyStore
  <2>3. Follows(caps.nodes, lineage)
    BY <2>2, SMTT(60) DEF Follows, EmptyNode
  <2>4. A!Init
    BY <2>2, SMTT(60) DEF A!Init, Held
  <2> QED
    BY <2>1, <2>3, <2>4 DEF LineageInv
<1>2. LineageInv /\ [LineageNext]_lineageVars => LineageInv' /\ [A!Next]_Held
  BY LineageStep
<1> QED
  BY <1>1, <1>2, PTL DEF LineageSpec, ImplementsAuthority, A!Spec

-----------------------------------------------------------------------------
(* The value revoke returns. *)

\* Revoking empties one slot for every node it kills, and fills none.
LEMMA RevokeCounts ==
  ASSUME NEW c, Sound(c), NEW t \in Tasks, NEW s \in Slots, c.spaces[t][s] # None
  PROVE  LET d == RevokeStore(c, t, s)
         IN /\ Occupied(d) \subseteq Occupied(c)
            /\ Cardinality(Occupied(c) \ Occupied(d)) = RevokedCount(c, t, s)
<1> DEFINE dead == Revoked(c.nodes, c.spaces[t][s])
           d == RevokeStore(c, t, s)
           lost == Occupied(c) \ Occupied(d)
           n(h) == c.spaces[h[1]][h[2]].node
           f == [i \in dead |-> CHOOSE h \in lost : n(h) = i]
<1>0. c \in Store
  BY DEF Sound
<1>1. \A i \in dead : i \in Nodes /\ c.nodes[i].live
  BY DEF Revoked
<1>2. \A i \in Nodes : IF i \in dead THEN ~d.nodes[i].live
                       ELSE d.nodes[i] = c.nodes[i]
  <2>1. d.nodes = KillNodes(c.nodes, dead)
    BY <1>0, RevokeKills
  <2> HIDE DEF d, dead
  <2>2. \A i \in Nodes : d.nodes[i] = IF i \in dead THEN Killed(c.nodes[i])
                                      ELSE c.nodes[i]
    BY <2>1 DEF KillNodes
  <2>3. \A i \in Nodes : ~Killed(c.nodes[i]).live
    BY DEF Sound, Killed, Store, Node
  <2> QED
    BY <2>2, <2>3, Zenon
<1>3. \A u \in Tasks, v \in Slots :
        d.spaces[u][v] =
          IF c.spaces[u][v] # None /\ ~Current(d.nodes, c.spaces[u][v])
          THEN None ELSE c.spaces[u][v]
  BY DEF RevokeStore, SweepSlots
<1> HIDE DEF dead, d
<1>4. ASSUME NEW u \in Tasks, NEW v \in Slots, c.spaces[u][v] # None
      PROVE  d.spaces[u][v] = None <=> c.spaces[u][v].node \in dead
  <2> DEFINE i == c.spaces[u][v].node
  <2>1. i \in Nodes /\ Current(c.nodes, c.spaces[u][v])
    BY <1>4, SlotLive, Zenon DEF Sound, NoStaleSlot
  <2>2. Current(d.nodes, c.spaces[u][v]) <=> i \notin dead
    BY <2>1, <1>2, Zenon DEF Current
  <2> QED
    BY <2>2, <1>3, <1>4, Zenon
<1>5. Occupied(d) \subseteq Occupied(c)
  BY <1>3 DEF Occupied
<1>6. \A h : h \in lost <=> /\ h \in Tasks \X Slots /\ c.spaces[h[1]][h[2]] # None
                            /\ c.spaces[h[1]][h[2]].node \in dead
  <2> SUFFICES ASSUME NEW h \in Tasks \X Slots, c.spaces[h[1]][h[2]] # None
               PROVE  d.spaces[h[1]][h[2]] = None <=> c.spaces[h[1]][h[2]].node \in dead
    BY DEF Occupied
  <2>1. h[1] \in Tasks /\ h[2] \in Slots
    OBVIOUS
  <2> QED
    BY <2>1, <1>4
<1> HIDE DEF lost
<1>7. ASSUME NEW i \in dead
      PROVE  \E h \in lost : n(h) = i
  <2>1. PICK x \in Tasks, y \in Slots : \A u \in Tasks, v \in Slots :
          (c.spaces[u][v] # None /\ c.spaces[u][v].node = i) <=> (u = x /\ v = y)
    BY <1>1, SMTT(60) DEF Sound, NoLeakedNode
  <2>2. c.spaces[x][y] # None /\ c.spaces[x][y].node = i
    BY <2>1
  <2>3. <<x, y>> \in lost
    BY <2>2, <1>6
  <2> QED
    BY <2>2, <2>3
<1>8. ASSUME NEW i \in dead PROVE f[i] \in lost /\ n(f[i]) = i
  <2> HIDE DEF n
  <2>1. f[i] = CHOOSE h \in lost : n(h) = i
    OBVIOUS
  <2> QED
    BY <2>1, <1>7
<1>9. ASSUME NEW g \in lost, NEW h \in lost, n(g) = n(h)
      PROVE  g = h
  <2> DEFINE i == n(h)
  <2>1. /\ g \in Tasks \X Slots /\ c.spaces[g[1]][g[2]] # None
        /\ h \in Tasks \X Slots /\ c.spaces[h[1]][h[2]] # None /\ i \in dead
    BY <1>6
  <2>2. i \in Nodes /\ c.nodes[i].live
    <3> HIDE DEF i
    <3> QED
      BY <2>1, <1>1
  <2>3. PICK x \in Tasks, y \in Slots : \A u \in Tasks, v \in Slots :
          (c.spaces[u][v] # None /\ c.spaces[u][v].node = i) <=> (u = x /\ v = y)
    <3> HIDE DEF i
    <3>1. NoLeakedNode(c)
      BY DEF Sound
    <3> QED
      BY <2>2, <3>1, Zenon DEF NoLeakedNode
  <2>4. g[1] \in Tasks /\ g[2] \in Slots /\ h[1] \in Tasks /\ h[2] \in Slots
    BY <2>1
  <2>5. g[1] = x /\ g[2] = y /\ h[1] = x /\ h[2] = y
    BY <2>1, <2>3, <2>4, <1>9, ZenonT(60)
  <2>6. g = <<g[1], g[2]>> /\ h = <<h[1], h[2]>>
    BY <2>1
  <2> QED
    BY <2>5, <2>6
<1>a. \A h \in lost : n(h) \in dead
  BY <1>6
<1> HIDE DEF n
<1>10. f \in Bijection(dead, lost)
  <2>1. f \in [dead -> lost]
    BY <1>8
  <2>2. \A i, j \in dead : f[i] = f[j] => i = j
    BY <1>8
  <2>3. \A h \in lost : \E i \in dead : f[i] = h
    <3> HIDE DEF f
    <3> SUFFICES ASSUME NEW h \in lost
                 PROVE  f[n(h)] = h /\ n(h) \in dead
      OBVIOUS
    <3>1. n(h) \in dead
      BY <1>a
    <3>2. f[n(h)] \in lost /\ n(f[n(h)]) = n(h)
      BY <3>1, <1>8
    <3> QED
      BY <3>1, <3>2, <1>9
  <2> HIDE DEF f
  <2> QED
    BY <2>1, <2>2, <2>3 DEF Bijection, Injection, Surjection, IsInjective
<1>11. ExistsBijection(dead, lost)
  <2> HIDE DEF f
  <2> QED
    BY <1>10 DEF ExistsBijection
<1>12. IsFiniteSet(dead)
  <2>1. IsFiniteSet(Nodes)
    <3>1. NODES - 1 \in Int
      BY SizesAssumption
    <3> QED
      BY <3>1, FS_Interval DEF Nodes
  <2>2. dead \in SUBSET Nodes
    BY <1>1
  <2> QED
    BY <2>1, <2>2, FS_Subset
<1>13. Cardinality(lost) = Cardinality(dead)
  BY <1>11, <1>12, FS_Bijection
<1> QED
  BY <1>0, <1>5, <1>13, RevokeKills, Zenon DEF dead, d, lost

\* revoke returns the number of capabilities that are gone, over all tasks,
\* whatever the size of the store.
THEOREM RevokeReturnsLosses == Spec => RevokeCountsSlots
<1>1. StoreInv /\ [Next]_caps =>
        [\A h \in Occupied(caps) \ Occupied(caps') :
           caps' = RevokeStore(caps, h[1], h[2]) =>
             /\ Occupied(caps') \subseteq Occupied(caps)
             /\ Cardinality(Occupied(caps) \ Occupied(caps'))
                  = RevokedCount(caps, h[1], h[2])]_caps
  <2> SUFFICES ASSUME StoreInv, NEW h \in Occupied(caps) \ Occupied(caps'),
                      caps' = RevokeStore(caps, h[1], h[2])
               PROVE  /\ Occupied(caps') \subseteq Occupied(caps)
                      /\ Cardinality(Occupied(caps) \ Occupied(caps'))
                           = RevokedCount(caps, h[1], h[2])
    OBVIOUS
  <2> DEFINE d == RevokeStore(caps, h[1], h[2])
  <2>1. h[1] \in Tasks /\ h[2] \in Slots /\ caps.spaces[h[1]][h[2]] # None
    BY DEF Occupied
  <2>2. /\ Occupied(d) \subseteq Occupied(caps)
        /\ Cardinality(Occupied(caps) \ Occupied(d)) = RevokedCount(caps, h[1], h[2])
    BY <2>1, RevokeCounts DEF StoreInv
  <2> QED
    BY <2>2
<1> QED
  BY <1>1, StoreSound, PTL DEF Spec, RevokeCountsSlots

=============================================================================
