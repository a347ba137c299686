--------------------------- MODULE LeaseTreeProofs ---------------------------
(***************************************************************************)
(* What the loops of capability.rs compute: the walk to the root, and the  *)
(* loop of revoke that kills nodes while it judges the ones behind them.   *)
(***************************************************************************)
EXTENDS LeaseTree, FiniteSetTheorems, WellFoundedInduction, TLAPS

-----------------------------------------------------------------------------
(* Induction over a set of numbers, so that it can be cited as it is. *)

\* Every non-empty set of natural numbers has a least element: what a loop
\* that searches an array from index 0 upwards finds.
LEMMA LeastElement ==
  ASSUME NEW S \in SUBSET Nat, S # {}
  PROVE  \E m \in S : \A n \in S : m <= n
<1>1. IsWellFoundedOn(OpToRel(<, Nat), Nat)
  BY NatLessThanWellFounded
<1>2. PICK m \in S : \A y \in S : ~(<<y, m>> \in OpToRel(<, Nat))
  BY <1>1, WFMin
<1>3. \A y \in S : ~(y < m)
  BY <1>2 DEF OpToRel
<1> QED
  BY <1>3

\* A set that contains 0 and is closed under successor up to n contains 0 .. n.
LEMMA SetInduction ==
  ASSUME NEW S, NEW n \in Nat, 0 \in S,
         \A k \in 0 .. n : k \in S /\ k + 1 <= n => k + 1 \in S
  PROVE  \A k \in 0 .. n : k \in S
<1> DEFINE Missing == {k \in 0 .. n : k \notin S}
<1> SUFFICES ASSUME Missing # {} PROVE FALSE
  OBVIOUS
<1>1. PICK m \in Missing : \A k \in Missing : m <= k
  <2>1. Missing \in SUBSET Nat
    OBVIOUS
  <2> HIDE DEF Missing
  <2> QED
    BY <2>1, LeastElement
<1>2. m \in 0 .. n /\ m \notin S /\ m # 0
  OBVIOUS
<1>3. m - 1 \in 0 .. n /\ m - 1 \in S
  BY <1>1, <1>2
<1> QED
  BY <1>2, <1>3

-----------------------------------------------------------------------------
(* The walk of is_descendant_or_self. *)

RefTo(nodes, i) == [node |-> i, generation |-> nodes[i].generation]

\* One turn of the loop.
Up(nodes, cap) == IF cap = None THEN None ELSE nodes[cap.node].parent

IsWalk(nodes, i, w, n) ==
  /\ w \in [0 .. n -> CapRef \cup {None}]
  /\ w[0] = RefTo(nodes, i)
  /\ \A k \in 0 .. n : k + 1 <= n => w[k + 1] = Up(nodes, w[k])

\* The walk exists, so Ancestry is it.
LEMMA AncestryIsWalk ==
  ASSUME NEW nodes \in [Nodes -> Node], NEW i \in Nodes
  PROVE  IsWalk(nodes, i, Ancestry(nodes, i), NODES)
<1> DEFINE P == {n \in Nat : \E w : IsWalk(nodes, i, w, n)}
<1>1. RefTo(nodes, i) \in CapRef
  BY DEF RefTo, CapRef, Node
<1>2. \A cap \in CapRef \cup {None} : Up(nodes, cap) \in CapRef \cup {None}
  BY DEF Up, CapRef, Node
<1>3. 0 \in P
  <2> DEFINE f == [k \in 0 .. 0 |-> RefTo(nodes, i)]
  <2>1. IsWalk(nodes, i, f, 0)
    BY <1>1 DEF IsWalk
  <2> QED
    BY <2>1
<1>4. ASSUME NEW n \in P PROVE n + 1 \in P
  <2>1. PICK f : IsWalk(nodes, i, f, n)
    OBVIOUS
  <2> DEFINE g == [k \in 0 .. n + 1 |->
                     IF k = n + 1 THEN Up(nodes, f[n]) ELSE f[k]]
  <2>2. n \in Nat
    OBVIOUS
  <2>3. g \in [0 .. n + 1 -> CapRef \cup {None}]
    BY <2>1, <2>2, <1>2 DEF IsWalk
  <2>4. g[0] = RefTo(nodes, i)
    BY <2>1, <2>2 DEF IsWalk
  <2>5. ASSUME NEW k \in 0 .. n + 1, k + 1 <= n + 1
        PROVE  g[k + 1] = Up(nodes, g[k])
    <3>1. CASE k = n
      BY <3>1, <2>2
    <3>2. CASE k # n
      BY <3>2, <2>1, <2>2, <2>5 DEF IsWalk
    <3> QED
      BY <3>1, <3>2
  <2>6. IsWalk(nodes, i, g, n + 1)
    BY <2>3, <2>4, <2>5 DEF IsWalk
  <2> QED
    BY <2>2, <2>6
<1>5. NODES \in P
  <2> HIDE DEF P
  <2>1. NODES \in Nat
    BY SizesAssumption
  <2> QED
    BY <2>1, <1>3, <1>4, SetInduction
<1>6. PICK w : IsWalk(nodes, i, w, NODES)
  BY <1>5
<1> DEFINE Body(f) == [k \in 0 .. NODES |->
             IF k = 0 THEN [node |-> i, generation |-> nodes[i].generation]
             ELSE IF f[k - 1] = None THEN None
             ELSE nodes[f[k - 1].node].parent]
<1>7. w = Body(w)
  <2>1. \A k \in 0 .. NODES : w[k] = Body(w)[k]
    <3> SUFFICES ASSUME NEW k \in 0 .. NODES PROVE w[k] = Body(w)[k]
      OBVIOUS
    <3>1. CASE k = 0
      BY <3>1, <1>6 DEF IsWalk, RefTo
    <3>2. CASE k # 0
      <4>1. k - 1 \in 0 .. NODES /\ (k - 1) + 1 <= NODES /\ (k - 1) + 1 = k
        BY <3>2, SizesAssumption
      <4>2. w[(k - 1) + 1] = Up(nodes, w[k - 1])
        BY <4>1, <1>6 DEF IsWalk
      <4> QED
        BY <4>1, <4>2, <3>2 DEF Up
    <3> QED
      BY <3>1, <3>2
  <2> QED
    BY <2>1, <1>6 DEF IsWalk
<1> DEFINE a == Ancestry(nodes, i)
<1>8. a = Body(a)
  BY <1>7, Zenon DEF Ancestry
<1>below. IsWalk(nodes, i, a, NODES)
  <2> HIDE DEF a
  <2>0. NODES \in Nat
    BY SizesAssumption
  <2>1. a[0] = RefTo(nodes, i)
    BY <1>8, <2>0 DEF RefTo
  <2>2. ASSUME NEW k \in 0 .. NODES, k + 1 <= NODES
        PROVE  a[k + 1] = Up(nodes, a[k])
    <3>1. k + 1 \in 0 .. NODES /\ k + 1 # 0 /\ (k + 1) - 1 = k
      BY <2>0, <2>2
    <3> QED
      BY <3>1, <1>8, ZenonT(60) DEF Up
  <2> DEFINE T == {k \in 0 .. NODES : a[k] \in CapRef \cup {None}}
  <2>3. 0 \in T
    BY <2>0, <2>1, <1>1
  <2>4. \A k \in 0 .. NODES : k \in T /\ k + 1 <= NODES => k + 1 \in T
    BY <2>0, <2>2, <1>2
  <2>5. \A k \in 0 .. NODES : k \in T
    <3> HIDE DEF T
    <3> QED
      BY <2>0, <2>3, <2>4, SetInduction
  <2>6. a \in [0 .. NODES -> CapRef \cup {None}]
    <3>1. a = [k \in 0 .. NODES |-> a[k]]
      BY <1>8
    <3> QED
      BY <3>1, <2>5
  <2> QED
    BY <2>1, <2>2, <2>6 DEF IsWalk
<1> QED
  BY <1>below

-----------------------------------------------------------------------------
(* The first loop of revoke kills what was to be revoked when it started. *)

\* The live nodes with the revoked capability on their walk.
Revoked(nodes, root) ==
  {i \in Nodes : nodes[i].live /\ IsDescendantOrSelf(nodes, i, root)}

KillNodes(nodes, dead) ==
  [i \in Nodes |-> IF i \in dead THEN Killed(nodes[i]) ELSE nodes[i]]

\* A killed node keeps its parent, and the others stay as they are.
LEMMA KilledNodes ==
  ASSUME NEW nodes \in [Nodes -> Node], NEW dead
  PROVE  /\ KillNodes(nodes, dead) \in [Nodes -> Node]
         /\ \A i \in Nodes : /\ KillNodes(nodes, dead)[i].parent = nodes[i].parent
                             /\ i \notin dead => KillNodes(nodes, dead)[i] = nodes[i]
<1>1. ASSUME NEW n \in Node PROVE Killed(n) \in Node /\ Killed(n).parent = n.parent
  <2>1. (n.generation + 1) % GENERATIONS \in Generations
    BY SizesAssumption DEF Node, Generations
  <2> QED
    BY <2>1, Zenon DEF Killed, Node
<1> QED
  BY <1>1 DEF KillNodes

\* Whether a node descends from the revoked capability does not change while
\* other nodes are killed, its ancestors among them: the walk starts with the
\* node's own generation and reads nothing but parents from there on.
LEMMA WalkAfterKills ==
  ASSUME NEW nodes \in [Nodes -> Node], NEW dead, NEW root,
         NEW i \in Nodes, i \notin dead
  PROVE  IsDescendantOrSelf(KillNodes(nodes, dead), i, root)
           <=> IsDescendantOrSelf(nodes, i, root)
<1> DEFINE killed == KillNodes(nodes, dead)
           w == Ancestry(nodes, i)
           u == Ancestry(killed, i)
           T == {k \in 0 .. NODES : u[k] = w[k]}
<1>1. /\ killed \in [Nodes -> Node] /\ killed[i] = nodes[i] /\ NODES \in Nat
      /\ \A j \in Nodes : killed[j].parent = nodes[j].parent
  BY KilledNodes, SizesAssumption
<1> HIDE DEF killed
<1>2. IsWalk(nodes, i, w, NODES) /\ IsWalk(killed, i, u, NODES)
  BY <1>1, AncestryIsWalk
<1> HIDE DEF w, u
<1>3. 0 \in T
  BY <1>1, <1>2 DEF IsWalk, RefTo
<1>4. ASSUME NEW k \in 0 .. NODES, k \in T, k + 1 <= NODES PROVE k + 1 \in T
  <2>1. k + 1 \in 0 .. NODES /\ w[k] \in CapRef \cup {None}
    BY <1>1, <1>2, <1>4 DEF IsWalk
  <2>2. u[k + 1] = Up(killed, w[k]) /\ w[k + 1] = Up(nodes, w[k])
    BY <1>2, <1>4 DEF IsWalk
  <2>3. Up(killed, w[k]) = Up(nodes, w[k])
    BY <2>1, <1>1 DEF Up, CapRef
  <2> QED
    BY <2>1, <2>2, <2>3
<1>5. \A k \in 0 .. NODES : k \in T
  <2> HIDE DEF T
  <2> QED
    BY <1>1, <1>3, <1>4, SetInduction
<1>6. \A k \in 0 .. NODES : u[k] = w[k]
  BY <1>5
<1> QED
  BY <1>6, Zenon DEF IsDescendantOrSelf, u, w, killed

\* What the loop leaves behind, and the count it returns.
LEMMA LoopKills ==
  ASSUME NEW nodes \in [Nodes -> Node], NEW root
  PROVE  RevokeLoop(nodes, root)[NODES]
           = [nodes |-> KillNodes(nodes, Revoked(nodes, root)),
              revoked |-> Cardinality(Revoked(nodes, root))]
<1> DEFINE dead == Revoked(nodes, root)
           First(k) == {i \in dead : i < k}
           State(k) == [nodes |-> KillNodes(nodes, First(k)),
                        revoked |-> Cardinality(First(k))]
           Turn(i, b) == IF \E now \in {b.nodes} :
                              now[i].live /\ IsDescendantOrSelf(now, i, root)
                         THEN [nodes |-> [b.nodes EXCEPT ![i] = Killed(@)],
                               revoked |-> b.revoked + 1]
                         ELSE b
           Body(f) == [k \in 0 .. NODES |->
                         IF k = 0 THEN [nodes |-> nodes, revoked |-> 0]
                         ELSE Turn(k - 1, f[k - 1])]
           a == RevokeLoop(nodes, root)
<1>0. NODES \in Nat /\ dead \subseteq Nodes /\ Nodes \subseteq Nat
  BY SizesAssumption DEF Revoked, Nodes
<1>1. \A x \in dead : x \in Nat /\ x < NODES
  BY SizesAssumption DEF Revoked, Nodes
<1>2. State(0) = [nodes |-> nodes, revoked |-> 0]
  <2>1. First(0) = {}
    <3> HIDE DEF dead
    <3> QED
      BY <1>1
  <2>2. KillNodes(nodes, {}) = nodes
    BY DEF KillNodes
  <2> QED
    BY <2>1, <2>2, FS_EmptySet, Zenon
<1>3. ASSUME NEW i \in Nodes PROVE Turn(i, State(i)) = State(i + 1)
  <2>1. i \notin First(i) /\ i \in Nat
    BY <1>0
  <2>2. State(i).nodes[i] = nodes[i]
    BY <2>1, KilledNodes, Zenon
  <2>3. IsDescendantOrSelf(State(i).nodes, i, root) <=> IsDescendantOrSelf(nodes, i, root)
    BY <2>1, WalkAfterKills, Zenon
  <2>4. IsFiniteSet(First(i))
    <3>1. IsFiniteSet(Nodes)
      BY <1>0, FS_Interval DEF Nodes
    <3>2. First(i) \subseteq Nodes
      BY <1>0, Zenon
    <3> HIDE DEF First
    <3> QED
      BY <3>1, <3>2, FS_Subset
  <2>5. CASE i \in dead
    <3>1. First(i + 1) = First(i) \cup {i}
      <4>1. \A x \in dead : x < i + 1 <=> x < i \/ x = i
        BY <2>1, <1>1
      <4> QED
        BY <4>1, <2>5, Zenon
    <3>2. KillNodes(nodes, First(i + 1)) = [KillNodes(nodes, First(i)) EXCEPT ![i] = Killed(@)]
      <4> DEFINE killed == KillNodes(nodes, First(i))
      <4>1. \A j \in Nodes : KillNodes(nodes, First(i + 1))[j]
                              = [killed EXCEPT ![i] = Killed(@)][j]
        <5> HIDE DEF First
        <5> QED
          BY <3>1, <2>1, Zenon DEF KillNodes
      <4> QED
        BY <4>1, Zenon DEF KillNodes
    <3>3. Cardinality(First(i + 1)) = Cardinality(First(i)) + 1
      <4> HIDE DEF First
      <4> QED
        BY <3>1, <2>1, <2>4, FS_AddElement
    <3>4. \E now \in {State(i).nodes} : now[i].live /\ IsDescendantOrSelf(now, i, root)
      BY <2>2, <2>3, <2>5, Zenon DEF Revoked
    <3> QED
      BY <3>2, <3>3, <3>4, Zenon
  <2>6. CASE i \notin dead
    <3>1. First(i + 1) = First(i)
      <4> HIDE DEF dead
      <4> QED
        BY <2>1, <2>6, <1>1
    <3>2. ~ \E now \in {State(i).nodes} : now[i].live /\ IsDescendantOrSelf(now, i, root)
      BY <2>2, <2>3, <2>6, Zenon DEF Revoked
    <3> QED
      BY <3>1, <3>2, Zenon
  <2> QED
    BY <2>5, <2>6
<1> DEFINE g == [k \in 0 .. NODES |-> State(k)]
<1> HIDE DEF dead, First, State, Turn
<1>4. g = Body(g)
  <2>1. ASSUME NEW k \in 0 .. NODES, k # 0
        PROVE  Turn(k - 1, g[k - 1]) = State(k)
    <3>1. k - 1 \in Nodes /\ k - 1 \in 0 .. NODES /\ (k - 1) + 1 = k
      BY <1>0, <2>1 DEF Nodes
    <3> QED
      BY <3>1, <1>3
  <2> QED
    BY <1>2, <2>1
<1>5. a = Body(a)
  BY <1>4, Zenon DEF RevokeLoop, Turn
<1> HIDE DEF a
<1> DEFINE T == {k \in 0 .. NODES : a[k] = State(k)}
<1>6. 0 \in T
  BY <1>0, <1>2, <1>5
<1>7. ASSUME NEW k \in 0 .. NODES, k \in T, k + 1 <= NODES PROVE k + 1 \in T
  <2>1. k \in Nodes /\ k + 1 \in 0 .. NODES /\ k + 1 # 0 /\ (k + 1) - 1 = k
    BY <1>0, <1>7 DEF Nodes
  <2>2. a[k + 1] = Turn(k, a[k])
    BY <1>5, <2>1
  <2> QED
    BY <2>1, <2>2, <1>3, <1>7
<1>8. \A k \in 0 .. NODES : k \in T
  <2> HIDE DEF T
  <2> QED
    BY <1>0, <1>6, <1>7, SetInduction
<1>9. First(NODES) = dead
  BY <1>1 DEF First
<1> QED
  BY <1>0, <1>8, <1>9 DEF State, a, dead

\* So a revocation kills the node of the revoked capability and those with it on
\* their walk, and returns how many they are.
LEMMA RevokeKills ==
  ASSUME NEW c \in Store, NEW t, NEW s
  PROVE  LET dead == Revoked(c.nodes, c.spaces[t][s])
         IN /\ RevokeStore(c, t, s)
                 = [spaces |-> SweepSlots(c.spaces, KillNodes(c.nodes, dead)),
                    nodes |-> KillNodes(c.nodes, dead)]
            /\ RevokedCount(c, t, s) = Cardinality(dead)
<1>1. c.nodes \in [Nodes -> Node]
  BY DEF Store
<1>2. RevokeLoop(c.nodes, c.spaces[t][s])[NODES]
        = [nodes |-> KillNodes(c.nodes, Revoked(c.nodes, c.spaces[t][s])),
           revoked |-> Cardinality(Revoked(c.nodes, c.spaces[t][s]))]
  BY <1>1, LoopKills
<1> QED
  BY <1>2 DEF RevokeStore, RevokedCount

=============================================================================
