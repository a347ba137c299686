---------------------------- MODULE RuntimeProofs ----------------------------
(***************************************************************************)
(* The runtime, for every size of its store and of its IPC that Runtime    *)
(* allows: what its grants, the calls through its endpoint and its         *)
(* services do.  And the self-tests of kernel_main, which make the same    *)
(* grants in a store of their own.                                         *)
(***************************************************************************)
EXTENDS Runtime, SelfTest, LeaseTreeProofs

-----------------------------------------------------------------------------
(* The states a runtime is in. *)

\* Nobody waits at the endpoint and the console can run.
IpcQuiet(f) ==
  /\ f \in IpcState
  /\ f.endpoints[0].senders.len = 0 /\ f.endpoints[0].receivers.len = 0
  /\ f.threads[CONSOLE_TASK].state = Runnable
  /\ f.threads[CONSOLE_TASK].inbox = None

IpcFree(f) ==
  /\ IpcQuiet(f)
  /\ f.threads[APP_TASK].state = Runnable
  /\ f.threads[CONSOLE_TASK].reply_target = None

IpcServing(f) ==
  /\ IpcQuiet(f)
  /\ f.threads[APP_TASK].state = ReplyBlocked(CONSOLE_TASK)
  /\ f.threads[CONSOLE_TASK].reply_target = APP_TASK

\* The app's capability for the endpoint is gone, for good.
Closed(c) == c \in Store /\ c.spaces[APP_TASK][ENDPOINT_SLOT] = None

\* The runtime before the first call, while the console serves it, and after.
Ready(r) ==
  /\ r \in RuntimeState /\ r.capabilities = Granted
  /\ r.current_task = APP_TASK /\ IpcFree(r.ipc)
Serving(r) ==
  /\ r \in RuntimeState /\ r.capabilities = Granted
  /\ r.current_task = CONSOLE_TASK /\ IpcServing(r.ipc)
Served(r) ==
  /\ r \in RuntimeState /\ Closed(r.capabilities)
  /\ r.current_task = APP_TASK /\ IpcFree(r.ipc)

\* README.md, expected serial output
Passed == [memory |-> TRUE, console |-> TRUE, sandbox |-> FALSE,
           ipc |-> TRUE, syscall |-> TRUE, sched |-> TRUE]

-----------------------------------------------------------------------------
(* What a search from the lowest index upwards finds. *)

\* The least element of a set is the one a search that starts at 0 stops at.
LEMMA FirstOf ==
  ASSUME NEW F \in SUBSET Nat, NEW k \in F, \A j \in F : k <= j
  PROVE  (CHOOSE i \in F : \A j \in F : i <= j) = k
<1> DEFINE i == CHOOSE i \in F : \A j \in F : i <= j
<1>1. i \in F /\ \A j \in F : i <= j
  OBVIOUS
<1> HIDE DEF i
<1>2. i <= k /\ k <= i /\ i \in Nat /\ k \in Nat
  BY <1>1
<1>3. i = k
  BY <1>2
<1> QED
  BY <1>3 DEF i

-----------------------------------------------------------------------------
(* The grants: four capabilities in the first four nodes, each once. *)

Ref(i) == [node |-> i, generation |-> 0]

GrantNode(i) ==
  [object |-> IF i <= 1 THEN UartObject ELSE EndpointObject,
   rights |-> IF i = 0 \/ i = 2 THEN Right ELSE {"WRITE"},
   parent |-> IF i = 0 \/ i = 2 THEN None ELSE Ref(i - 1),
   generation |-> 0, live |-> TRUE]

\* The slot the i-th grant goes to.
GrantTask(i) == IF i = 1 THEN CONSOLE_TASK ELSE IF i = 3 THEN APP_TASK ELSE ROOT_TASK
GrantSlot(i) == IF i <= 1 THEN UART_SLOT ELSE ENDPOINT_SLOT

\* A store with tasks T, slots U and n nodes, unused ones being e, after k of
\* the four calls.
Stage(T, U, n, e, k, c) ==
  /\ c.spaces \in [T -> [U -> {Ref(i) : i \in 0 .. 3} \cup {None}]]
  /\ c.nodes \in [0 .. n - 1 -> {GrantNode(i) : i \in 0 .. 3} \cup {e}]
  /\ \A i \in 0 .. k - 1 : /\ c.nodes[i] = GrantNode(i)
                           /\ c.spaces[GrantTask(i)][GrantSlot(i)] = Ref(i)
  /\ \A i \in k .. n - 1 : c.nodes[i] = e
  /\ \A t \in T, s \in U :
       (\A i \in 0 .. k - 1 : t # GrantTask(i) \/ s # GrantSlot(i))
         => c.spaces[t][s] = None

\* The sizes of a store that has room for the grants.
Roomy(T, U, n, e) ==
  /\ {ROOT_TASK, CONSOLE_TASK, APP_TASK} \subseteq T
  /\ {UART_SLOT, ENDPOINT_SLOT} \subseteq U
  /\ n \in Nat /\ n >= 4
  /\ e.live = FALSE /\ e.generation = 0

\* The k-th call writes the k-th node and slot.
Adds(k, c, d) ==
  /\ d.spaces = [c.spaces EXCEPT ![GrantTask(k)][GrantSlot(k)] = Ref(k)]
  /\ d.nodes = [c.nodes EXCEPT ![k] = GrantNode(k)]

\* No two grants share a slot.
LEMMA GrantsApart ==
  /\ \A i \in 0 .. 3 : /\ GrantTask(i) \in {ROOT_TASK, CONSOLE_TASK, APP_TASK}
                       /\ GrantSlot(i) \in {UART_SLOT, ENDPOINT_SLOT}
  /\ \A i, j \in 0 .. 3 :
       GrantTask(i) = GrantTask(j) /\ GrantSlot(i) = GrantSlot(j) => i = j
  BY DEF GrantTask, GrantSlot, ROOT_TASK, CONSOLE_TASK, APP_TASK, UART_SLOT,
         ENDPOINT_SLOT

\* A write to one entry of one row.
LEMMA WriteEntry ==
  ASSUME NEW T, NEW U, NEW R, NEW f \in [T -> [U -> R]], NEW t \in T, NEW s \in U,
         NEW v \in R, NEW g, g = [f EXCEPT ![t][s] = v]
  PROVE  /\ g \in [T -> [U -> R]]
         /\ g[t][s] = v
         /\ \A u \in T, w \in U : u # t \/ w # s => g[u][w] = f[u][w]
  OBVIOUS

\* From one stage to the next.
LEMMA StageAdds ==
  ASSUME NEW T, NEW U, NEW n, NEW e, Roomy(T, U, n, e), NEW k \in 0 .. 3,
         NEW c, Stage(T, U, n, e, k, c), NEW d, Adds(k, c, d)
  PROVE  Stage(T, U, n, e, k + 1, d)
<1> DEFINE R == {Ref(i) : i \in 0 .. 3} \cup {None}
           M == {GrantNode(i) : i \in 0 .. 3} \cup {e}
           t == GrantTask(k)
           s == GrantSlot(k)
<1>1. t \in T /\ s \in U /\ n \in Nat /\ n >= 4
  BY GrantsApart DEF Roomy
<1>2. Ref(k) \in R /\ GrantNode(k) \in M
  OBVIOUS
<1>3. c.spaces \in [T -> [U -> R]] /\ c.nodes \in [0 .. n - 1 -> M]
  BY DEF Stage
<1>4. d.spaces = [c.spaces EXCEPT ![t][s] = Ref(k)]
      /\ d.nodes = [c.nodes EXCEPT ![k] = GrantNode(k)]
  BY DEF Adds
<1> HIDE DEF R, M
<1>5. /\ d.spaces \in [T -> [U -> R]] /\ d.spaces[t][s] = Ref(k)
      /\ \A u \in T, w \in U : u # t \/ w # s => d.spaces[u][w] = c.spaces[u][w]
  <2> HIDE DEF t, s
  <2> QED
    BY <1>1, <1>2, <1>3, <1>4, WriteEntry
<1>6. k \in 0 .. n - 1
  BY <1>1
<1>7. /\ d.nodes \in [0 .. n - 1 -> M] /\ d.nodes[k] = GrantNode(k)
      /\ \A i \in 0 .. n - 1 : i # k => d.nodes[i] = c.nodes[i]
  BY <1>2, <1>3, <1>4, <1>6
<1>8. ASSUME NEW i \in 0 .. k
      PROVE  d.nodes[i] = GrantNode(i) /\ d.spaces[GrantTask(i)][GrantSlot(i)] = Ref(i)
  <2>1. CASE i = k
    BY <2>1, <1>5, <1>7
  <2>2. CASE i # k
    <3>1. i \in 0 .. k - 1 /\ i \in 0 .. 3 /\ i \in 0 .. n - 1
      BY <2>2, <1>1
    <3>2. GrantTask(i) \in T /\ GrantSlot(i) \in U
      BY <3>1, GrantsApart DEF Roomy
    <3>3. GrantTask(i) # t \/ GrantSlot(i) # s
      BY <3>1, <2>2, GrantsApart
    <3>4. c.nodes[i] = GrantNode(i) /\ c.spaces[GrantTask(i)][GrantSlot(i)] = Ref(i)
      BY <3>1, Zenon DEF Stage
    <3> QED
      BY <3>1, <3>2, <3>3, <3>4, <2>2, <1>5, <1>7, Zenon
  <2> QED
    BY <2>1, <2>2
<1>9. \A i \in k + 1 .. n - 1 : d.nodes[i] = e
  <2>1. \A i \in k + 1 .. n - 1 : i \in k .. n - 1 /\ i \in 0 .. n - 1 /\ i # k
    BY <1>1
  <2> QED
    BY <2>1, <1>7, Zenon DEF Stage
<1>10. ASSUME NEW u \in T, NEW w \in U,
              \A i \in 0 .. k : u # GrantTask(i) \/ w # GrantSlot(i)
       PROVE  d.spaces[u][w] = None
  <2>1. k \in 0 .. k /\ \A i \in 0 .. k - 1 : i \in 0 .. k
    OBVIOUS
  <2>2. u # t \/ w # s
    BY <2>1, <1>10, Zenon
  <2>3. c.spaces[u][w] = None
    BY <2>1, <1>10, Zenon DEF Stage
  <2> QED
    BY <2>2, <2>3, <1>5, Zenon
<1>11. \A i : i \in 0 .. (k + 1) - 1 <=> i \in 0 .. k
  OBVIOUS
<1>12. d.spaces \in [T -> [U -> R]] /\ d.nodes \in [0 .. n - 1 -> M]
  BY <1>5, <1>7
<1>13. \A i \in 0 .. (k + 1) - 1 :
          d.nodes[i] = GrantNode(i) /\ d.spaces[GrantTask(i)][GrantSlot(i)] = Ref(i)
  BY <1>8, <1>11, Zenon
<1>14. \A u \in T, w \in U :
          (\A i \in 0 .. (k + 1) - 1 : u # GrantTask(i) \/ w # GrantSlot(i))
            => d.spaces[u][w] = None
  BY <1>10, <1>11, Zenon
<1> QED
  BY <1>9, <1>12, <1>13, <1>14, Zenon DEF Stage, R, M

\* The unused ones of n nodes, and the one a search finds.
FreeIn(n, c) == {i \in 0 .. n - 1 : ~c.nodes[i].live}
FirstIn(n, c) == CHOOSE i \in FreeIn(n, c) : \A j \in FreeIn(n, c) : i <= j

\* The node the next call takes.
LEMMA StageFree ==
  ASSUME NEW T, NEW U, NEW n, NEW e, Roomy(T, U, n, e), NEW k \in 0 .. 3,
         NEW c, Stage(T, U, n, e, k, c)
  PROVE  FreeIn(n, c) # {} /\ FirstIn(n, c) = k /\ c.nodes[k].generation = 0
<1> DEFINE F == FreeIn(n, c)
<1>1. n \in Nat /\ n >= 4 /\ e.live = FALSE /\ e.generation = 0
  BY DEF Roomy
<1>2. k \in 0 .. n - 1 /\ k \in k .. n - 1
  BY <1>1
<1>3. c.nodes[k] = e
  BY <1>2, Zenon DEF Stage
<1>4. k \in F /\ c.nodes[k].generation = 0
  BY <1>1, <1>2, <1>3 DEF FreeIn
<1>5. ASSUME NEW j \in F PROVE k <= j
  <2>1. CASE j < k
    <3>1. j \in 0 .. k - 1 /\ ~c.nodes[j].live
      BY <2>1, <1>1 DEF FreeIn
    <3>2. c.nodes[j] = GrantNode(j)
      BY <3>1, Zenon DEF Stage
    <3> QED
      BY <3>1, <3>2 DEF GrantNode
  <2> QED
    BY <2>1, <1>1 DEF FreeIn
<1>6. F \in SUBSET Nat
  BY <1>1 DEF FreeIn
<1> HIDE DEF F
<1>7. (CHOOSE i \in F : \A j \in F : i <= j) = k
  BY <1>4, <1>5, <1>6, FirstOf, Zenon
<1>8. FirstIn(n, c) = k
  BY <1>7, Zenon DEF FirstIn, F
<1> QED
  BY <1>4, <1>8, Zenon DEF F

\* A reference is not None.
LEMMA RefIsSome ==
  ASSUME NEW i \in 0 .. 3
  PROVE  Ref(i) \in CapRef /\ Ref(i) # None
<1>1. i \in Nodes /\ 0 \in Generations
  BY SizesAssumption, RuntimeSizes DEF Nodes, Generations
<1>2. Ref(i) \in CapRef
  BY <1>1 DEF CapRef, Ref
<1> QED
  BY <1>2, NoneAssumption

\* The store after the k-th call to one with n nodes, by the node it is to make.
InstallGrant(n, c, k) ==
  LET i == FirstIn(n, c)
  IN [spaces |-> [c.spaces EXCEPT ![GrantTask(k)][GrantSlot(k)] =
                    [node |-> i, generation |-> c.nodes[i].generation]],
      nodes |-> [c.nodes EXCEPT ![i] =
                    [object |-> GrantNode(k).object, rights |-> GrantNode(k).rights,
                     parent |-> GrantNode(k).parent,
                     generation |-> c.nodes[i].generation, live |-> TRUE]]]

\* The k-th call finds its slot empty and a free node, and makes the k-th grant.
LEMMA GrantStep ==
  ASSUME NEW T, NEW U, NEW n, NEW e, Roomy(T, U, n, e), NEW k \in 0 .. 3, NEW c,
         Stage(T, U, n, e, k, c)
  PROVE  /\ Stage(T, U, n, e, k + 1, InstallGrant(n, c, k))
         /\ GrantTask(k) \in T /\ GrantSlot(k) \in U
         /\ c.spaces[GrantTask(k)][GrantSlot(k)] = None
         /\ FreeIn(n, c) # {}
<1> DEFINE i == FirstIn(n, c)
<1>1. FreeIn(n, c) # {} /\ i = k /\ c.nodes[k].generation = 0
  BY StageFree
<1>2. GrantNode(k) = [object |-> GrantNode(k).object, rights |-> GrantNode(k).rights,
                      parent |-> GrantNode(k).parent, generation |-> 0, live |-> TRUE]
  BY Zenon DEF GrantNode
<1>3. InstallGrant(n, c, k) =
        [spaces |-> [c.spaces EXCEPT ![GrantTask(k)][GrantSlot(k)] =
                       [node |-> i, generation |-> c.nodes[i].generation]],
         nodes |-> [c.nodes EXCEPT ![i] =
                       [object |-> GrantNode(k).object, rights |-> GrantNode(k).rights,
                        parent |-> GrantNode(k).parent,
                        generation |-> c.nodes[i].generation, live |-> TRUE]]]
  BY Zenon DEF InstallGrant
<1> HIDE DEF i
<1>4. Adds(k, c, InstallGrant(n, c, k))
  <2>1. [node |-> k, generation |-> 0] = Ref(k)
    BY DEF Ref
  <2>2. InstallGrant(n, c, k) =
          [spaces |-> [c.spaces EXCEPT ![GrantTask(k)][GrantSlot(k)] = Ref(k)],
           nodes |-> [c.nodes EXCEPT ![k] = GrantNode(k)]]
    BY <1>1, <1>2, <1>3, <2>1, Zenon
  <2> QED
    BY <2>2 DEF Adds
<1>5. Stage(T, U, n, e, k + 1, InstallGrant(n, c, k))
  BY <1>4, StageAdds, Zenon
<1>6. GrantTask(k) \in T /\ GrantSlot(k) \in U
  BY GrantsApart DEF Roomy
<1>7. \A j \in 0 .. k - 1 : GrantTask(k) # GrantTask(j) \/ GrantSlot(k) # GrantSlot(j)
  BY GrantsApart
<1>8. c.spaces[GrantTask(k)][GrantSlot(k)] = None
  BY <1>6, <1>7, Zenon DEF Stage
<1> QED
  BY <1>1, <1>5, <1>6, <1>8

\* Where the grants are when k of them are made.
LEMMA StageHolds ==
  ASSUME NEW T, NEW U, NEW n, NEW e, NEW k, NEW c, Stage(T, U, n, e, k, c),
         NEW i \in 0 .. k - 1
  PROVE  /\ c.spaces[GrantTask(i)][GrantSlot(i)] = Ref(i)
         /\ c.nodes[c.spaces[GrantTask(i)][GrantSlot(i)].node] = GrantNode(i)
<1>1. c.spaces[GrantTask(i)][GrantSlot(i)] = Ref(i) /\ c.nodes[i] = GrantNode(i)
  BY Zenon DEF Stage
<1>2. Ref(i).node = i
  BY DEF Ref
<1> QED
  BY <1>1, <1>2

\* The grants one by one.
LEMMA GrantValues ==
  /\ GrantTask(0) = ROOT_TASK /\ GrantTask(1) = CONSOLE_TASK
  /\ GrantTask(2) = ROOT_TASK /\ GrantTask(3) = APP_TASK
  /\ GrantSlot(0) = UART_SLOT /\ GrantSlot(1) = UART_SLOT
  /\ GrantSlot(2) = ENDPOINT_SLOT /\ GrantSlot(3) = ENDPOINT_SLOT
  /\ GrantNode(0).object = UartObject /\ GrantNode(1).object = UartObject
  /\ GrantNode(2).object = EndpointObject /\ GrantNode(3).object = EndpointObject
  /\ GrantNode(0).rights = Right /\ GrantNode(2).rights = Right
  /\ GrantNode(1).rights = {"WRITE"} /\ GrantNode(3).rights = {"WRITE"}
  /\ GrantNode(0).parent = None /\ GrantNode(2).parent = None
  /\ GrantNode(1).parent = Ref(0) /\ GrantNode(3).parent = Ref(2)
  /\ \A i \in 0 .. 3 : GrantNode(i).live /\ GrantNode(i).generation = 0
  BY DEF GrantTask, GrantSlot, GrantNode

\* The numbers of the four grants, and of the grants before each.
LEMMA Four ==
  /\ 0 \in 0 .. 3 /\ 1 \in 0 .. 3 /\ 2 \in 0 .. 3 /\ 3 \in 0 .. 3
  /\ 0 + 1 = 1 /\ 1 + 1 = 2 /\ 2 + 1 = 3 /\ 3 + 1 = 4
  /\ 0 \in 0 .. 1 - 1 /\ 2 \in 0 .. 3 - 1
  /\ 0 \in 0 .. 4 - 1 /\ 1 \in 0 .. 4 - 1 /\ 2 \in 0 .. 4 - 1 /\ 3 \in 0 .. 4 - 1
  OBVIOUS

\* A mint from a slot of the root task that holds a root capability is allowed.
LEMMA MayMint ==
  ASSUME NEW c, NEW s, NEW i \in {0, 2}, c.spaces[ROOT_TASK][s] = Ref(i),
         c.nodes[c.spaces[ROOT_TASK][s].node] = GrantNode(i)
  PROVE  /\ c.spaces[ROOT_TASK][s] # None
         /\ c.nodes[c.spaces[ROOT_TASK][s].node].live
         /\ c.nodes[c.spaces[ROOT_TASK][s].node].generation
              = c.spaces[ROOT_TASK][s].generation
         /\ {"WRITE"} \cup {"GRANT"} \subseteq c.nodes[c.spaces[ROOT_TASK][s].node].rights
<1>1. i \in 0 .. 3
  OBVIOUS
<1>2. Ref(i) # None /\ Ref(i).generation = 0
  BY <1>1, RefIsSome DEF Ref
<1>3. {"WRITE"} \cup {"GRANT"} \subseteq Right
  BY DEF Right
<1>4. GrantNode(i).live /\ GrantNode(i).generation = 0 /\ GrantNode(i).rights = Right
  BY <1>1, GrantValues
<1> QED
  BY <1>2, <1>3, <1>4

\* bootstrap makes the four grants in the live store, and none of its calls fails.
LEMMA GrantsDone ==
  Stage(Tasks, Slots, NODES, EmptyNode, 4, Granted) /\ GrantsSucceed
<1> DEFINE P(k, c) == Stage(Tasks, Slots, NODES, EmptyNode, k, c)
<1>1. Roomy(Tasks, Slots, NODES, EmptyNode)
  BY SizesAssumption, RuntimeSizes
  DEF Roomy, Tasks, Slots, EmptyNode, ROOT_TASK, CONSOLE_TASK, APP_TASK, UART_SLOT,
      ENDPOINT_SLOT
<1>2. P(0, EmptyStore)
  BY DEF Stage, EmptyStore, Nodes
<1>3. /\ \A c : FreeNodes(c.nodes) = FreeIn(NODES, c)
      /\ \A c : FirstFree(c.nodes) = FirstIn(NODES, c)
  BY DEF FreeNodes, FirstFree, Nodes, FreeIn, FirstIn
<1>4. ASSUME NEW c, NEW k \in 0 .. 3
      PROVE  Install(c, GrantTask(k), GrantSlot(k), GrantNode(k).object,
                     GrantNode(k).rights, GrantNode(k).parent) = InstallGrant(NODES, c, k)
  BY <1>3, Zenon DEF Install, InstallGrant
<1> HIDE DEF P
<1>5. ASSUME NEW c, NEW k \in 0 .. 3, P(k, c)
      PROVE  /\ P(k + 1, InstallGrant(NODES, c, k))
             /\ DestinationError(c, GrantTask(k), GrantSlot(k)) = "Ok"
             /\ FreeNodes(c.nodes) # {}
  <2>1. /\ P(k + 1, InstallGrant(NODES, c, k))
        /\ GrantTask(k) \in Tasks /\ GrantSlot(k) \in Slots
        /\ c.spaces[GrantTask(k)][GrantSlot(k)] = None
        /\ FreeIn(NODES, c) # {}
    BY <1>1, <1>5, GrantStep DEF P
  <2> QED
    BY <1>3, <2>1, Zenon DEF DestinationError
<1>6. UartMade = InstallGrant(NODES, EmptyStore, 0)
  BY <1>4, Four, GrantValues DEF UartMade, CreateRootStore
<1>7. P(1, UartMade)
  BY <1>2, <1>5, <1>6, Four
<1>8. /\ UartMade.spaces[ROOT_TASK][UART_SLOT] = Ref(0)
      /\ UartMade.nodes[UartMade.spaces[ROOT_TASK][UART_SLOT].node] = GrantNode(0)
  <2>1. Stage(Tasks, Slots, NODES, EmptyNode, 1, UartMade) /\ 0 \in 0 .. 1 - 1
    BY <1>7 DEF P
  <2> QED
    BY <2>1, GrantValues, StageHolds
<1>9. UartGranted = InstallGrant(NODES, UartMade, 1)
  BY <1>4, <1>8, Four, GrantValues DEF UartGranted, MintStore, NodeAt
<1>10. P(2, UartGranted)
  BY <1>5, <1>7, <1>9, Four
<1>11. EndpointMade = InstallGrant(NODES, UartGranted, 2)
  BY <1>4, Four, GrantValues DEF EndpointMade, CreateRootStore
<1>12. P(3, EndpointMade)
  BY <1>5, <1>10, <1>11, Four
<1>13. /\ EndpointMade.spaces[ROOT_TASK][ENDPOINT_SLOT] = Ref(2)
       /\ EndpointMade.nodes[EndpointMade.spaces[ROOT_TASK][ENDPOINT_SLOT].node]
            = GrantNode(2)
  BY <1>12, Four, GrantValues, StageHolds DEF P
<1>14. Granted = InstallGrant(NODES, EndpointMade, 3)
  BY <1>4, <1>13, Four, GrantValues DEF Granted, MintStore, NodeAt
<1>15. P(4, Granted)
  BY <1>5, <1>12, <1>14, Four
<1>16. ASSUME NEW c, NEW s \in {UART_SLOT, ENDPOINT_SLOT}, NEW i \in {0, 2},
              c.spaces[ROOT_TASK][s] = Ref(i),
              c.nodes[c.spaces[ROOT_TASK][s].node] = GrantNode(i)
       PROVE  /\ SourceError(c, ROOT_TASK, s) = "Ok"
              /\ {"WRITE"} \cup {"GRANT"} \subseteq NodeAt(c, ROOT_TASK, s).rights
  <2>1. ROOT_TASK \in Tasks /\ s \in Slots
    BY <1>1 DEF Roomy
  <2>2. /\ c.spaces[ROOT_TASK][s] # None
        /\ c.nodes[c.spaces[ROOT_TASK][s].node].live
        /\ c.nodes[c.spaces[ROOT_TASK][s].node].generation
             = c.spaces[ROOT_TASK][s].generation
        /\ {"WRITE"} \cup {"GRANT"}
             \subseteq c.nodes[c.spaces[ROOT_TASK][s].node].rights
    BY <1>16, MayMint, Zenon
  <2> QED
    BY <2>1, <2>2, Zenon DEF SourceError, NodeAt, Current
<1>17. /\ CreateRootError(EmptyStore, ROOT_TASK, UART_SLOT) = "Ok"
       /\ CreateRootError(UartGranted, ROOT_TASK, ENDPOINT_SLOT) = "Ok"
  BY <1>2, <1>5, <1>10, Four, GrantValues DEF CreateRootError
<1>18. MintError(UartMade, ROOT_TASK, UART_SLOT, CONSOLE_TASK, UART_SLOT,
                 {"WRITE"}) = "Ok"
  <2>1. DestinationError(UartMade, CONSOLE_TASK, UART_SLOT) = "Ok"
        /\ FreeNodes(UartMade.nodes) # {}
    BY <1>5, <1>7, Four, GrantValues
  <2> QED
    BY <1>8, <1>16, <2>1, Zenon DEF MintError
<1>19. MintError(EndpointMade, ROOT_TASK, ENDPOINT_SLOT, APP_TASK, ENDPOINT_SLOT,
                 {"WRITE"}) = "Ok"
  <2>1. DestinationError(EndpointMade, APP_TASK, ENDPOINT_SLOT) = "Ok"
        /\ FreeNodes(EndpointMade.nodes) # {}
    BY <1>5, <1>12, Four, GrantValues
  <2> QED
    BY <1>13, <1>16, <2>1, Zenon DEF MintError
<1> QED
  BY <1>15, <1>17, <1>18, <1>19, Zenon DEF P, GrantsSucceed

\* So does the self-test of kernel_main in its own store of 4 tasks, 8 slots and
\* 16 nodes.
LEMMA TestGrantsDone ==
  /\ Stage(TestCaps!Tasks, TestCaps!Slots, 16, TestCaps!EmptyNode, 4, TestCaps!Granted)
  /\ TestCaps!GrantsSucceed
<1> DEFINE n == 16
           P(k, c) == Stage(TestCaps!Tasks, TestCaps!Slots, n, TestCaps!EmptyNode, k, c)
<1>0. /\ TestCaps!ROOT_TASK = ROOT_TASK /\ TestCaps!CONSOLE_TASK = CONSOLE_TASK
      /\ TestCaps!APP_TASK = APP_TASK /\ TestCaps!UART_SLOT = UART_SLOT
      /\ TestCaps!ENDPOINT_SLOT = ENDPOINT_SLOT /\ TestCaps!Right = Right
      /\ TestCaps!UartObject = UartObject /\ TestCaps!EndpointObject = EndpointObject
  BY DEF TestCaps!ROOT_TASK, TestCaps!CONSOLE_TASK, TestCaps!APP_TASK, TestCaps!UART_SLOT,
         TestCaps!ENDPOINT_SLOT, TestCaps!Right, TestCaps!UartObject,
         TestCaps!EndpointObject,
         ROOT_TASK, CONSOLE_TASK, APP_TASK, UART_SLOT, ENDPOINT_SLOT, Right,
         UartObject, EndpointObject
<1>1. Roomy(TestCaps!Tasks, TestCaps!Slots, n, TestCaps!EmptyNode)
  BY DEF Roomy, TestCaps!Tasks, TestCaps!Slots, TestCaps!EmptyNode, ROOT_TASK, CONSOLE_TASK,
         APP_TASK, UART_SLOT, ENDPOINT_SLOT
<1>2. P(0, TestCaps!EmptyStore)
  BY DEF Stage, TestCaps!EmptyStore, TestCaps!Nodes
<1> HIDE DEF P
<1>3. /\ \A c : TestCaps!FreeNodes(c.nodes) = FreeIn(n, c)
      /\ \A c : TestCaps!FirstFree(c.nodes) = FirstIn(n, c)
  BY DEF TestCaps!FreeNodes, TestCaps!FirstFree, TestCaps!Nodes, FreeIn, FirstIn
<1>4. ASSUME NEW c, NEW k \in 0 .. 3
      PROVE  TestCaps!Install(c, GrantTask(k), GrantSlot(k), GrantNode(k).object,
                     GrantNode(k).rights, GrantNode(k).parent) = InstallGrant(n, c, k)
  BY <1>3, Zenon DEF TestCaps!Install, InstallGrant
<1> HIDE DEF P, n
<1>5. ASSUME NEW c, NEW k \in 0 .. 3, P(k, c)
      PROVE  /\ P(k + 1, InstallGrant(n, c, k))
             /\ TestCaps!DestinationError(c, GrantTask(k), GrantSlot(k)) = "Ok"
             /\ TestCaps!FreeNodes(c.nodes) # {}
  <2>1. /\ P(k + 1, InstallGrant(n, c, k))
        /\ GrantTask(k) \in TestCaps!Tasks /\ GrantSlot(k) \in TestCaps!Slots
        /\ c.spaces[GrantTask(k)][GrantSlot(k)] = None
        /\ FreeIn(n, c) # {}
    BY <1>1, <1>5, GrantStep DEF P
  <2> QED
    BY <1>3, <2>1, Zenon DEF TestCaps!DestinationError
<1>6. TestCaps!UartMade = InstallGrant(n, TestCaps!EmptyStore, 0)
  BY <1>0, <1>4, Four, GrantValues DEF TestCaps!UartMade, TestCaps!CreateRootStore
<1>7. P(1, TestCaps!UartMade)
  BY <1>2, <1>5, <1>6, Four
<1>8. /\ TestCaps!UartMade.spaces[ROOT_TASK][UART_SLOT] = Ref(0)
      /\ TestCaps!UartMade.nodes[TestCaps!UartMade.spaces[ROOT_TASK][UART_SLOT].node]
           = GrantNode(0)
  BY <1>7, Four, GrantValues, StageHolds DEF P
<1>9. TestCaps!UartGranted = InstallGrant(n, TestCaps!UartMade, 1)
  BY <1>0, <1>4, <1>8, Four, GrantValues
  DEF TestCaps!UartGranted, TestCaps!MintStore, TestCaps!NodeAt
<1>10. P(2, TestCaps!UartGranted)
  BY <1>5, <1>7, <1>9, Four
<1>11. TestCaps!EndpointMade = InstallGrant(n, TestCaps!UartGranted, 2)
  BY <1>0, <1>4, Four, GrantValues DEF TestCaps!EndpointMade, TestCaps!CreateRootStore
<1>12. P(3, TestCaps!EndpointMade)
  BY <1>5, <1>10, <1>11, Four
<1>13. /\ TestCaps!EndpointMade.spaces[ROOT_TASK][ENDPOINT_SLOT] = Ref(2)
       /\ TestCaps!EndpointMade.nodes[
            TestCaps!EndpointMade.spaces[ROOT_TASK][ENDPOINT_SLOT].node] = GrantNode(2)
  BY <1>12, Four, GrantValues, StageHolds DEF P
<1>14. TestCaps!Granted = InstallGrant(n, TestCaps!EndpointMade, 3)
  BY <1>0, <1>4, <1>13, Four, GrantValues
  DEF TestCaps!Granted, TestCaps!MintStore, TestCaps!NodeAt
<1>15. P(4, TestCaps!Granted)
  BY <1>5, <1>12, <1>14, Four
<1>16. ASSUME NEW c, NEW s \in {UART_SLOT, ENDPOINT_SLOT}, NEW i \in {0, 2},
              c.spaces[ROOT_TASK][s] = Ref(i),
              c.nodes[c.spaces[ROOT_TASK][s].node] = GrantNode(i)
       PROVE  /\ TestCaps!SourceError(c, ROOT_TASK, s) = "Ok"
              /\ {"WRITE"} \cup {"GRANT"} \subseteq TestCaps!NodeAt(c, ROOT_TASK, s).rights
  <2>1. ROOT_TASK \in TestCaps!Tasks /\ s \in TestCaps!Slots
    BY <1>1 DEF Roomy
  <2>2. /\ c.spaces[ROOT_TASK][s] # None
        /\ c.nodes[c.spaces[ROOT_TASK][s].node].live
        /\ c.nodes[c.spaces[ROOT_TASK][s].node].generation
             = c.spaces[ROOT_TASK][s].generation
        /\ {"WRITE"} \cup {"GRANT"}
             \subseteq c.nodes[c.spaces[ROOT_TASK][s].node].rights
    BY <1>16, MayMint, Zenon
  <2> QED
    BY <2>1, <2>2, Zenon DEF TestCaps!SourceError, TestCaps!NodeAt, TestCaps!Current
<1>17. /\ TestCaps!CreateRootError(TestCaps!EmptyStore, ROOT_TASK, UART_SLOT) = "Ok"
       /\ TestCaps!CreateRootError(TestCaps!UartGranted, ROOT_TASK, ENDPOINT_SLOT) = "Ok"
  BY <1>2, <1>5, <1>10, Four, GrantValues DEF TestCaps!CreateRootError
<1>18. TestCaps!MintError(TestCaps!UartMade, ROOT_TASK, UART_SLOT, CONSOLE_TASK,
                          UART_SLOT, {"WRITE"}) = "Ok"
  <2>1. TestCaps!DestinationError(TestCaps!UartMade, CONSOLE_TASK, UART_SLOT) = "Ok"
        /\ TestCaps!FreeNodes(TestCaps!UartMade.nodes) # {}
    BY <1>5, <1>7, Four, GrantValues
  <2> QED
    BY <1>8, <1>16, <2>1, Zenon DEF TestCaps!MintError
<1>19. TestCaps!MintError(TestCaps!EndpointMade, ROOT_TASK, ENDPOINT_SLOT, APP_TASK,
                          ENDPOINT_SLOT, {"WRITE"}) = "Ok"
  <2>1. TestCaps!DestinationError(TestCaps!EndpointMade, APP_TASK, ENDPOINT_SLOT) = "Ok"
        /\ TestCaps!FreeNodes(TestCaps!EndpointMade.nodes) # {}
    BY <1>5, <1>12, Four, GrantValues
  <2> QED
    BY <1>13, <1>16, <2>1, Zenon DEF TestCaps!MintError
<1> QED
  BY <1>0, <1>15, <1>17, <1>18, <1>19, Zenon DEF P, n, TestCaps!GrantsSucceed

\* Every grant as the live store holds it.
LEMMA GrantAt ==
  ASSUME NEW i \in 0 .. 3, NEW t, t = GrantTask(i), NEW s, s = GrantSlot(i)
  PROVE  /\ t \in Tasks /\ s \in Slots
         /\ Granted.spaces[t][s] = Ref(i)
         /\ Granted.nodes[i] = GrantNode(i)
         /\ NodeAt(Granted, t, s) = GrantNode(i)
         /\ SourceError(Granted, t, s) = "Ok"
<1>1. t \in {ROOT_TASK, CONSOLE_TASK, APP_TASK} /\ s \in {UART_SLOT, ENDPOINT_SLOT}
  BY GrantsApart
<1>2. t \in Tasks /\ s \in Slots
  BY <1>1, RuntimeSizes, SizesAssumption
  DEF Tasks, Slots, ROOT_TASK, CONSOLE_TASK, APP_TASK, UART_SLOT, ENDPOINT_SLOT
<1>3. i \in 0 .. 4 - 1
  OBVIOUS
<1>4. Granted.spaces[t][s] = Ref(i) /\ Granted.nodes[i] = GrantNode(i)
  BY <1>3, GrantsDone, Zenon DEF Stage
<1>5. Ref(i).node = i /\ Ref(i).generation = 0 /\ Ref(i) # None
  BY RefIsSome DEF Ref
<1>6. GrantNode(i).live /\ GrantNode(i).generation = 0
  BY GrantValues
<1>7. NodeAt(Granted, t, s) = GrantNode(i)
  BY <1>4, <1>5, Zenon DEF NodeAt
<1>8. Current(Granted.nodes, Granted.spaces[t][s])
  BY <1>4, <1>5, <1>6 DEF Current
<1>9. SourceError(Granted, t, s) = "Ok"
  BY <1>2, <1>4, <1>5, <1>8, Zenon DEF SourceError
<1> QED
  BY <1>2, <1>4, <1>7, <1>9

\* What bootstrap leaves is a store.
LEMMA GrantedType == Granted \in Store
<1>1. /\ Granted.spaces \in [Tasks -> [Slots -> {Ref(i) : i \in 0 .. 3} \cup {None}]]
      /\ Granted.nodes
           \in [0 .. NODES - 1 -> {GrantNode(i) : i \in 0 .. 3} \cup {EmptyNode}]
  BY GrantsDone, Zenon DEF Stage
<1>2. {Ref(i) : i \in 0 .. 3} \cup {None} \subseteq CapRef \cup {None}
  BY RefIsSome
<1>3. ASSUME NEW i \in 0 .. 3 PROVE GrantNode(i) \in Node
  <2>1. GrantNode(i).parent \in CapRef \cup {None}
    <3>1. i = 1 \/ i = 3 => i - 1 \in 0 .. 3
      OBVIOUS
    <3>2. CASE i = 0 \/ i = 2
      BY <3>2, GrantValues
    <3>3. CASE i = 1 \/ i = 3
      BY <3>3, GrantValues, RefIsSome
    <3> QED
      BY <3>2, <3>3
  <2>2. GrantNode(i).object \in Objects /\ GrantNode(i).rights \in SUBSET Right
    BY RuntimeSizes DEF GrantNode, Right
  <2>3. 0 \in Generations
    BY SizesAssumption DEF Generations
  <2>4. GrantNode(i) = [object |-> GrantNode(i).object, rights |-> GrantNode(i).rights,
                        parent |-> GrantNode(i).parent, generation |-> 0, live |-> TRUE]
    BY Zenon DEF GrantNode
  <2>5. ASSUME NEW o \in Objects, NEW r \in SUBSET Right, NEW p \in CapRef \cup {None}
        PROVE  [object |-> o, rights |-> r, parent |-> p,
                generation |-> 0, live |-> TRUE] \in Node
    BY <2>3 DEF Node
  <2>6. [object |-> GrantNode(i).object, rights |-> GrantNode(i).rights,
         parent |-> GrantNode(i).parent, generation |-> 0, live |-> TRUE] \in Node
    BY <2>1, <2>2, <2>5, Zenon
  <2> QED
    BY <2>4, <2>6, Zenon
<1>4. EmptyNode \in Node
  BY SizesAssumption DEF EmptyNode, Node, Generations
<1>5. Granted.spaces \in [Tasks -> [Slots -> CapRef \cup {None}]]
  BY <1>1, <1>2
<1>6. Granted.nodes \in [Nodes -> Node]
  BY <1>1, <1>3, <1>4 DEF Nodes
<1>7. Granted = [spaces |-> Granted.spaces, nodes |-> Granted.nodes]
  BY DEF Granted, MintStore, Install
<1> QED
  BY <1>5, <1>6, <1>7 DEF Store

\* The app may use the endpoint, the console the UART.
LEMMA GrantedAuthority ==
  /\ AuthorizeError(Granted, APP_TASK, ENDPOINT_SLOT, {"WRITE"}, "Endpoint") = "Ok"
  /\ AuthorizeError(Granted, CONSOLE_TASK, UART_SLOT, {"WRITE"}, "Mmio") = "Ok"
  /\ SourceError(Granted, ROOT_TASK, ENDPOINT_SLOT) = "Ok"
<1>1. /\ SourceError(Granted, APP_TASK, ENDPOINT_SLOT) = "Ok"
      /\ NodeAt(Granted, APP_TASK, ENDPOINT_SLOT) = GrantNode(3)
  BY Four, GrantValues, GrantAt
<1>2. /\ SourceError(Granted, CONSOLE_TASK, UART_SLOT) = "Ok"
      /\ NodeAt(Granted, CONSOLE_TASK, UART_SLOT) = GrantNode(1)
  BY Four, GrantValues, GrantAt
<1>3. SourceError(Granted, ROOT_TASK, ENDPOINT_SLOT) = "Ok"
  BY Four, GrantValues, GrantAt
<1>4. EndpointObject.type = "Endpoint" /\ UartObject.type = "Mmio"
  BY DEF EndpointObject, UartObject
<1>5. /\ ResolveError(Granted, APP_TASK, ENDPOINT_SLOT, {"WRITE"}) = "Ok"
      /\ ResolveError(Granted, CONSOLE_TASK, UART_SLOT, {"WRITE"}) = "Ok"
  BY <1>1, <1>2, GrantValues, Zenon DEF ResolveError
<1> QED
  BY <1>1, <1>2, <1>3, <1>4, <1>5, GrantValues, Zenon DEF AuthorizeError

\* Without the capability the app is refused.
LEMMA ClosedRefuses ==
  ASSUME NEW c, Closed(c)
  PROVE  AuthorizeError(c, APP_TASK, ENDPOINT_SLOT, {"WRITE"}, "Endpoint") # "Ok"
<1>1. APP_TASK \in Tasks /\ ENDPOINT_SLOT \in Slots
  BY RuntimeSizes, SizesAssumption DEF Tasks, Slots, APP_TASK, ENDPOINT_SLOT
<1>2. SourceError(c, APP_TASK, ENDPOINT_SLOT) = "EmptySlot"
  BY <1>1, Zenon DEF SourceError, Closed
<1> QED
  BY <1>2 DEF AuthorizeError, ResolveError

\* The walk of is_descendant_or_self from the app's node comes to the root task's
\* node of the endpoint and ends there.
LEMMA AppDescends == IsDescendantOrSelf(Granted.nodes, 3, Ref(2))
<1> DEFINE a == Ancestry(Granted.nodes, 3)
<1>1. Granted.nodes[3].generation = 0 /\ Granted.nodes[3].parent = Ref(2)
  BY Four, GrantValues, GrantAt
<1>2. Ref(3) # None /\ Ref(3).node = 3 /\ Ref(3) = [node |-> 3, generation |-> 0]
  BY Four, RefIsSome DEF Ref
<1>3. NODES \in Nat /\ NODES >= 4 /\ 3 \in Nodes
  BY SizesAssumption, RuntimeSizes DEF Nodes
<1>4. IsWalk(Granted.nodes, 3, a, NODES)
  BY <1>3, GrantedType, AncestryIsWalk DEF Store
<1> HIDE DEF a
<1>5. a[0] = Ref(3)
  BY <1>1, <1>2, <1>4 DEF IsWalk, RefTo
<1>6. a[0 + 1] = Up(Granted.nodes, a[0])
  BY <1>3, <1>4 DEF IsWalk
<1>7. a[1] = Ref(2) /\ 1 \in 0 .. NODES
  BY <1>1, <1>2, <1>3, <1>5, <1>6 DEF Up
<1> QED
  BY <1>7, Zenon DEF IsDescendantOrSelf, a

\* The revocation the console makes takes the endpoint from the app.
LEMMA RevokeCloses == Closed(RevokeStore(Granted, ROOT_TASK, ENDPOINT_SLOT))
<1> DEFINE dead == Revoked(Granted.nodes, Ref(2))
           nodes == KillNodes(Granted.nodes, dead)
           d == RevokeStore(Granted, ROOT_TASK, ENDPOINT_SLOT)
<1>1. /\ Granted.spaces[ROOT_TASK][ENDPOINT_SLOT] = Ref(2)
      /\ Granted.spaces[APP_TASK][ENDPOINT_SLOT] = Ref(3)
      /\ APP_TASK \in Tasks /\ ENDPOINT_SLOT \in Slots
      /\ Granted.nodes[3].live
  BY Four, GrantValues, GrantAt
<1>2. 3 \in Nodes
  BY SizesAssumption, RuntimeSizes DEF Nodes
<1>3. 3 \in dead
  BY <1>1, <1>2, AppDescends DEF Revoked
<1>4. ASSUME NEW n \in Node PROVE Killed(n) \in Node /\ Killed(n).live = FALSE
  <2>1. (n.generation + 1) % GENERATIONS \in Generations
    BY SizesAssumption DEF Node, Generations
  <2>2. Killed(n) \in Node
    BY <2>1, Zenon DEF Killed, Node
  <2> QED
    BY <2>2 DEF Killed, Node
<1>5. /\ Granted.nodes \in [Nodes -> Node]
      /\ Granted.spaces \in [Tasks -> [Slots -> CapRef \cup {None}]]
  BY GrantedType DEF Store
<1> HIDE DEF dead
<1>6. nodes \in [Nodes -> Node]
  BY <1>5, KilledNodes
<1>7. nodes[3].live = FALSE
  <2>1. nodes[3] = Killed(Granted.nodes[3])
    BY <1>2, <1>3, Zenon DEF KillNodes
  <2>2. Granted.nodes[3] \in Node
    BY <1>2, <1>5
  <2> HIDE DEF nodes
  <2> QED
    BY <2>1, <2>2, <1>4, Zenon
<1> HIDE DEF nodes
<1>8. d = [spaces |-> SweepSlots(Granted.spaces, nodes), nodes |-> nodes]
  <2> DEFINE r == Revoked(Granted.nodes, Granted.spaces[ROOT_TASK][ENDPOINT_SLOT])
  <2>1. d = [spaces |-> SweepSlots(Granted.spaces, KillNodes(Granted.nodes, r)),
             nodes |-> KillNodes(Granted.nodes, r)]
    BY GrantedType, RevokeKills, Zenon
  <2>2. r = dead
    BY <1>1 DEF dead
  <2> HIDE DEF r, d
  <2> QED
    BY <2>1, <2>2 DEF nodes
<1>9. SweepSlots(Granted.spaces, nodes) \in [Tasks -> [Slots -> CapRef \cup {None}]]
  BY <1>5 DEF SweepSlots
<1>10. d \in Store
  BY <1>6, <1>8, <1>9 DEF Store
<1>11. ~Current(nodes, Ref(3))
  BY <1>7 DEF Current, Ref
<1>12. SweepSlots(Granted.spaces, nodes)[APP_TASK][ENDPOINT_SLOT] = None
  BY <1>1, <1>11 DEF SweepSlots
<1>13. d.spaces = SweepSlots(Granted.spaces, nodes)
  BY <1>8
<1> QED
  BY <1>10, <1>12, <1>13, Zenon DEF Closed

-----------------------------------------------------------------------------
(* A call through the endpoint, and its reply. *)

\* A thread is overwritten.
LEMMA SetThread ==
  ASSUME NEW f \in IpcState, NEW t \in Threads, NEW v \in Thread
  PROVE  /\ [f EXCEPT !.threads[t] = v] \in IpcState
         /\ [f EXCEPT !.threads[t] = v].endpoints = f.endpoints
         /\ [f EXCEPT !.threads[t] = v].threads[t] = v
         /\ \A x \in Threads \ {t} : [f EXCEPT !.threads[t] = v].threads[x] = f.threads[x]
  BY DEF IpcState

\* The senders of an endpoint are overwritten.
LEMMA SetSenders ==
  ASSUME NEW f \in IpcState, NEW e \in Endpoints, NEW q \in Queue
  PROVE  /\ [f EXCEPT !.endpoints[e].senders = q] \in IpcState
         /\ [f EXCEPT !.endpoints[e].senders = q].threads = f.threads
         /\ [f EXCEPT !.endpoints[e].senders = q].endpoints[e].senders = q
         /\ [f EXCEPT !.endpoints[e].senders = q].endpoints[e].receivers
              = f.endpoints[e].receivers
  BY DEF IpcState, Endpoint

\* A ring buffer that is empty takes one entry, gives it back and is empty again.
LEMMA OneEntry ==
  ASSUME NEW q \in Queue, q.len = 0, NEW t \in Threads
  PROVE  /\ ~Full(q) /\ Push(q, t) \in Queue /\ Front(Push(q, t)) = t
         /\ Pop(Push(q, t)) \in Queue /\ Pop(Push(q, t)).len = 0
<1>1. THREADS \in Nat \ {0} /\ 0 \in 0 .. THREADS /\ 1 \in 0 .. THREADS
  BY IpcSizesAssumption
<1>2. /\ q.head \in 0 .. THREADS - 1 /\ Positions = 0 .. THREADS - 1
      /\ q.entries \in [Positions -> Threads \cup {None}]
  BY DEF Queue, Positions
<1>3. (q.head + 0) % THREADS = q.head /\ (q.head + 1) % THREADS \in 0 .. THREADS - 1
  <2>1. ASSUME NEW h \in 0 .. THREADS - 1
        PROVE  (h + 0) % THREADS = h /\ (h + 1) % THREADS \in 0 .. THREADS - 1
    BY <1>1
  <2> QED
    BY <1>2, <2>1
<1> DEFINE full == [q.entries EXCEPT ![q.head] = t]
           p == [entries |-> full, head |-> q.head, len |-> 1]
           empty == [full EXCEPT ![q.head] = None]
           r == [entries |-> empty, head |-> (q.head + 1) % THREADS, len |-> 0]
<1>4. Push(q, t) = p
  BY <1>3 DEF Push
<1>5. full \in [Positions -> Threads \cup {None}] /\ full[q.head] = t
  <2> DEFINE h == q.head
             entries == q.entries
  <2>1. h \in Positions /\ entries \in [Positions -> Threads \cup {None}]
    BY <1>2
  <2> HIDE DEF h, entries
  <2>2. /\ [entries EXCEPT ![h] = t] \in [Positions -> Threads \cup {None}]
        /\ [entries EXCEPT ![h] = t][h] = t
    BY <2>1
  <2> QED
    BY <2>2 DEF h, entries
<1> HIDE DEF full
<1>6. empty \in [Positions -> Threads \cup {None}]
  BY <1>2, <1>5
<1>7. p.entries = full /\ p.head = q.head /\ p.len = 1
  OBVIOUS
<1>8. p \in Queue
  BY <1>1, <1>2, <1>5 DEF Queue
<1> HIDE DEF p
<1>9. Front(p) = t
  BY <1>5, <1>7 DEF Front
<1>10. Pop(p) = r
  BY <1>7 DEF Pop
<1> HIDE DEF empty
<1>11. r \in Queue /\ r.len = 0
  BY <1>1, <1>2, <1>3, <1>6 DEF Queue
<1>12. ~Full(q)
  BY <1>1 DEF Full
<1> QED
  BY <1>4, <1>8, <1>9, <1>10, <1>11, <1>12, Zenon

\* call at an endpoint where nobody waits: the caller queues with its message.
LEMMA CallWaits ==
  ASSUME NEW f \in IpcState, NEW t \in Threads, NEW e \in Endpoints,
         NEW m \in Messages, f.threads[t].state = Runnable,
         f.endpoints[e].senders.len = 0, f.endpoints[e].receivers.len = 0,
         NEW r, r = Call(f, t, e, m), NEW g, g = r.ipc
  PROVE  /\ r.out = Blocked /\ g \in IpcState
         /\ g.threads[t].is_call /\ g.threads[t].outgoing = m
         /\ \A x \in Threads \ {t} : g.threads[x] = f.threads[x]
         /\ g.endpoints[e].senders = Push(f.endpoints[e].senders, t)
         /\ g.endpoints[e].receivers = f.endpoints[e].receivers
<1> DEFINE call == "call" = "call"
           T == [f.threads[t] EXCEPT !.is_call = call]
           flagged == [f EXCEPT !.threads[t] = T]
           B == [flagged.threads[t] EXCEPT !.outgoing = m, !.state = Sending(e)]
           b == [flagged EXCEPT !.threads[t] = B]
           q == f.endpoints[e].senders
           p == f.endpoints[e].receivers
           h == [b EXCEPT !.endpoints[e].senders = Push(q, t)]
<1>1. RunnableError(f, t) = "Ok" /\ f.threads[t] \in Thread
  BY DEF RunnableError, IpcState
<1>2. T \in Thread /\ T.is_call = call
  <2>1. call \in BOOLEAN
    OBVIOUS
  <2> HIDE DEF call
  <2> QED
    BY <1>1, <2>1 DEF Thread
<1>3. flagged = [f EXCEPT !.threads[t].is_call = call]
  <2> HIDE DEF call
  <2> QED
    OBVIOUS
<1> HIDE DEF T
<1>4. /\ flagged \in IpcState /\ flagged.endpoints = f.endpoints
      /\ flagged.threads[t] = T
      /\ \A x \in Threads \ {t} : flagged.threads[x] = f.threads[x]
  BY <1>2, SetThread
<1> HIDE DEF flagged
<1>5. q \in Queue /\ p \in Queue
  BY DEF IpcState, Endpoint
<1>6. ~Full(q) /\ Push(q, t) \in Queue
  BY <1>5, OneEntry, Zenon
<1>7. Front(p) = None /\ Pop(p) = p
  BY DEF Front, Pop
<1>8. [flagged EXCEPT !.endpoints[e].receivers = Pop(@)] = flagged
  <2>1. flagged.endpoints[e].receivers = p
    BY <1>4
  <2> QED
    BY <1>4, <1>7, <2>1 DEF IpcState, Endpoint
<1>9. r = Enqueue(flagged, t, e, m)
  <2> HIDE DEF p
  <2>1. r = SendOrCall(f, t, e, m, "call")
    BY Zenon DEF Call
  <2> QED
    BY <2>1, <1>1, <1>3, <1>7, <1>8, ZenonT(60) DEF SendOrCall, p
<1> HIDE DEF call
<1>10. r = Result(h, Blocked)
  <2>1. flagged.endpoints[e].senders = q
    BY <1>4
  <2>2. b = [flagged EXCEPT !.threads[t] = [@ EXCEPT !.outgoing = m,
                                                     !.state = Sending(e)]]
    OBVIOUS
  <2> HIDE DEF b, q
  <2> QED
    BY <1>6, <1>9, <2>1, <2>2, ZenonT(60) DEF Enqueue
<1>11. /\ B \in Thread /\ B.outgoing = m /\ B.is_call = call
  <2> DEFINE D == [T EXCEPT !.outgoing = m]
  <2>1. D \in Thread /\ D.outgoing = m /\ D.is_call = call
    BY <1>2 DEF Thread
  <2>2. B = [D EXCEPT !.state = Sending(e)]
    BY <1>4
  <2>3. Sending(e) \in ThreadStates
    BY DEF ThreadStates
  <2> HIDE DEF B, D
  <2> QED
    BY <2>1, <2>2, <2>3 DEF Thread
<1> HIDE DEF B
<1>12. /\ b \in IpcState /\ b.endpoints = f.endpoints /\ b.threads[t] = B
       /\ \A x \in Threads \ {t} : b.threads[x] = f.threads[x]
  BY <1>4, <1>11, SetThread
<1> HIDE DEF b, q
<1>13. /\ h \in IpcState /\ h.threads = b.threads
       /\ h.endpoints[e].senders = Push(q, t)
       /\ h.endpoints[e].receivers = b.endpoints[e].receivers
  BY <1>6, <1>12, SetSenders
<1>14. g = h /\ r.out = Blocked
  BY <1>10 DEF Result
<1> HIDE DEF h
<1>15. g.threads[t].is_call = call
  BY <1>11, <1>12, <1>13, <1>14
<1>16. g.threads[t].is_call
  BY <1>15, Zenon DEF call
<1> QED
  BY <1>11, <1>12, <1>13, <1>14, <1>16 DEF q

\* receive where one caller waits: the message comes over, and the caller waits
\* for the receiver's reply.
LEMMA ReceiveTakes ==
  ASSUME NEW f \in IpcState, NEW t \in Threads, NEW s \in Threads, s # t,
         NEW e \in Endpoints, f.threads[s].state = Runnable, f.threads[t].is_call,
         NEW q \in Queue, q.len = 0, f.endpoints[e].senders = Push(q, t),
         NEW r, r = Receive(f, s, e), NEW g, g = r.ipc
  PROVE  /\ r.out = Delivered(t) /\ g \in IpcState
         /\ g.threads[s].state = Runnable
         /\ g.threads[s].inbox = f.threads[t].outgoing
         /\ g.threads[s].reply_target = t
         /\ g.threads[t].state = ReplyBlocked(s)
         /\ g.endpoints[e].senders.len = 0
         /\ g.endpoints[e].receivers = f.endpoints[e].receivers
<1> DEFINE p == Pop(Push(q, t))
           popped == [f EXCEPT !.endpoints[e].senders = p]
           m == f.threads[t].outgoing
           R == [popped.threads[s] EXCEPT !.inbox = m]
           taken == [popped EXCEPT !.threads[s] = R]
           C == [taken.threads[t] EXCEPT !.state = ReplyBlocked(s)]
           bound == [taken EXCEPT !.threads[t] = C]
           V == [bound.threads[s] EXCEPT !.reply_target = t]
           h == [bound EXCEPT !.threads[s] = V]
<1>1. /\ RunnableError(f, s) = "Ok" /\ f.threads[s] \in Thread
      /\ f.threads[t] \in Thread /\ m \in Messages /\ t # None
  BY IpcNoneAssumption DEF RunnableError, IpcState, Thread
<1>2. p \in Queue /\ p.len = 0 /\ Front(Push(q, t)) = t
  BY OneEntry
<1> HIDE DEF p, m
<1>3. /\ popped \in IpcState /\ popped.threads = f.threads
      /\ popped.endpoints[e].senders = p
      /\ popped.endpoints[e].receivers = f.endpoints[e].receivers
  BY <1>2, SetSenders
<1>4. popped = [f EXCEPT !.endpoints[e].senders = Pop(@)]
  BY DEF p
<1> HIDE DEF popped
<1>5. taken = Transferred(popped, t, s)
  BY <1>3 DEF Transferred, m
<1>6. /\ R \in Thread /\ R.inbox = m /\ R.state = Runnable
  BY <1>1, <1>3 DEF Thread
<1> HIDE DEF R
<1>7. /\ taken \in IpcState /\ taken.endpoints = popped.endpoints
      /\ taken.threads[s] = R /\ taken.threads[t] = f.threads[t]
  BY <1>3, <1>6, SetThread
<1> HIDE DEF taken
<1>8. h = Bound(taken, t, s)
  BY DEF Bound
<1>9. C \in Thread /\ C.state = ReplyBlocked(s)
  <2>1. ReplyBlocked(s) \in ThreadStates
    BY DEF ThreadStates
  <2> QED
    BY <1>1, <1>7, <2>1 DEF Thread
<1> HIDE DEF C
<1>10. /\ bound \in IpcState /\ bound.endpoints = popped.endpoints
       /\ bound.threads[s] = R /\ bound.threads[t] = C
  BY <1>7, <1>9, SetThread
<1> HIDE DEF bound
<1>11. V \in Thread /\ V.inbox = m /\ V.state = Runnable /\ V.reply_target = t
  BY <1>6, <1>10 DEF Thread
<1> HIDE DEF V
<1>12. /\ h \in IpcState /\ h.endpoints = popped.endpoints
       /\ h.threads[s] = V /\ h.threads[t] = C
  BY <1>10, <1>11, SetThread
<1> HIDE DEF h
<1>13. r = Result(h, Delivered(t))
  BY <1>1, <1>2, <1>4, <1>5, <1>8, ZenonT(60) DEF Receive
<1>14. g = h /\ r.out = Delivered(t)
  BY <1>13 DEF Result
<1> QED
  BY <1>2, <1>3, <1>9, <1>11, <1>12, <1>14 DEF m

\* reply to a thread that waits for it: the right to reply is spent, and both run.
LEMMA ReplyWakes ==
  ASSUME NEW f \in IpcState, NEW s \in Threads, NEW c \in Threads, c # s,
         NEW m \in Messages, f.threads[s].state = Runnable,
         f.threads[s].reply_target = c, f.threads[c].state = ReplyBlocked(s),
         NEW r, r = Reply(f, s, m), NEW g, g = r.ipc
  PROVE  /\ r.out = Delivered(c) /\ g \in IpcState /\ g.endpoints = f.endpoints
         /\ g.threads[s].state = Runnable /\ g.threads[s].reply_target = None
         /\ g.threads[s].inbox = f.threads[s].inbox
         /\ g.threads[c].state = Runnable
<1> DEFINE V == [f.threads[s] EXCEPT !.reply_target = None]
           spent == [f EXCEPT !.threads[s] = V]
           D == [spent.threads[c] EXCEPT !.inbox = m]
           W == [spent.threads[c] EXCEPT !.inbox = m, !.state = Runnable]
           h == [spent EXCEPT !.threads[c] = W]
<1>1. /\ RunnableError(f, s) = "Ok" /\ f.threads[s] \in Thread
      /\ f.threads[c] \in Thread /\ c # None
  BY IpcNoneAssumption DEF RunnableError, IpcState
<1>2. /\ V \in Thread /\ V.reply_target = None /\ V.state = Runnable
      /\ V.inbox = f.threads[s].inbox
  BY <1>1 DEF Thread
<1>3. spent = [f EXCEPT !.threads[s].reply_target = None]
  OBVIOUS
<1> HIDE DEF V
<1>4. /\ spent \in IpcState /\ spent.endpoints = f.endpoints
      /\ spent.threads[s] = V /\ spent.threads[c] = f.threads[c]
  BY <1>2, SetThread
<1> HIDE DEF spent
<1>5. W \in Thread /\ W.state = Runnable
  <2>1. D \in Thread
    BY <1>1, <1>4 DEF Thread
  <2>2. W = [D EXCEPT !.state = Runnable]
    BY <1>1, <1>4
  <2>3. Runnable \in ThreadStates
    BY DEF ThreadStates
  <2> HIDE DEF D, W
  <2> QED
    BY <2>1, <2>2, <2>3 DEF Thread
<1>6. h = [spent EXCEPT !.threads[c] = [@ EXCEPT !.inbox = m, !.state = Runnable]]
  OBVIOUS
<1> HIDE DEF W
<1>7. /\ h \in IpcState /\ h.endpoints = f.endpoints
      /\ h.threads[s] = V /\ h.threads[c] = W
  BY <1>4, <1>5, SetThread
<1> HIDE DEF h
<1>8. r = Result(h, Delivered(c))
  BY <1>1, <1>3, <1>6, ZenonT(60) DEF Reply
<1>9. g = h /\ r.out = Delivered(c)
  BY <1>8 DEF Result
<1> QED
  BY <1>2, <1>5, <1>7, <1>9

\* take_message empties the inbox and changes nothing else.
LEMMA TakeEmpties ==
  ASSUME NEW f \in IpcState, NEW t \in Threads
  PROVE  /\ TakeMessage(f, t) \in IpcState /\ TakeMessage(f, t).endpoints = f.endpoints
         /\ TakeMessage(f, t).threads[t].inbox = None
         /\ TakeMessage(f, t).threads[t].state = f.threads[t].state
         /\ TakeMessage(f, t).threads[t].reply_target = f.threads[t].reply_target
         /\ \A x \in Threads \ {t} : TakeMessage(f, t).threads[x] = f.threads[x]
<1> DEFINE V == [f.threads[t] EXCEPT !.inbox = None]
<1>1. f.threads[t] \in Thread
  BY DEF IpcState
<1>2. /\ V \in Thread /\ V.inbox = None /\ V.state = f.threads[t].state
      /\ V.reply_target = f.threads[t].reply_target
  BY <1>1 DEF Thread
<1>3. TakeMessage(f, t) = [f EXCEPT !.threads[t] = V]
  BY DEF TakeMessage
<1> HIDE DEF V
<1> QED
  BY <1>2, <1>3, SetThread

-----------------------------------------------------------------------------
(* The services of the runtime. *)

\* The tasks of the runtime are threads of its IPC.
LEMMA Actors ==
  /\ APP_TASK \in Threads /\ CONSOLE_TASK \in Threads /\ APP_TASK # CONSOLE_TASK
  /\ APP_TASK \in Tasks /\ CONSOLE_TASK \in Tasks /\ 0 \in Endpoints
  /\ DefaultMessage \in Messages /\ None \notin Messages
  BY RuntimeSizes, SizesAssumption, IpcSizesAssumption, IpcNoneAssumption
     DEF APP_TASK, CONSOLE_TASK, Threads, Tasks, Endpoints

\* What app_call assigns to the runtime.
Assigned(r, i, b, t) == [r EXCEPT !.ipc = i, !.pending_byte = b, !.current_task = t]

\* The runtime keeps its type and its store, and has the rest as assigned.
LEMMA SetRuntime ==
  ASSUME NEW r \in RuntimeState, NEW i \in IpcState, NEW b \in Bytes, NEW t \in Tasks,
         NEW y, y = Assigned(r, i, b, t)
  PROVE  /\ y \in RuntimeState /\ y.capabilities = r.capabilities
         /\ y.current_task = t /\ y.pending_byte = b /\ y.ipc = i
<1> DEFINE u == [r EXCEPT !.ipc = i]
           v == [u EXCEPT !.pending_byte = b]
<1>1. u \in RuntimeState /\ u.capabilities = r.capabilities /\ u.ipc = i
  BY DEF RuntimeState
<1>2. y = [v EXCEPT !.current_task = t]
  BY DEF Assigned
<1> HIDE DEF u
<1>3. /\ v \in RuntimeState /\ v.capabilities = r.capabilities /\ v.ipc = i
      /\ v.pending_byte = b
  BY <1>1 DEF RuntimeState
<1> HIDE DEF v
<1> QED
  BY <1>2, <1>3 DEF RuntimeState

\* app_call and the receive it makes for the console hand the byte over.
LEMMA HandsOver ==
  ASSUME NEW r \in RuntimeState, IpcFree(r.ipc), NEW byte \in Bytes,
         NEW x, x = CallAndReceive(r, byte)
  PROVE  /\ x.out = "Ok" /\ x.rt \in RuntimeState
         /\ x.rt.capabilities = r.capabilities /\ x.rt.current_task = CONSOLE_TASK
         /\ x.rt.pending_byte = byte /\ IpcServing(x.rt.ipc)
<1> DEFINE f == r.ipc
           m == Request(byte)
           call == Call(f, APP_TASK, 0, m)
           g == call.ipc
           receive == Receive(g, CONSOLE_TASK, 0)
           h == receive.ipc
           taken == TakeMessage(h, CONSOLE_TASK)
<1>1. /\ f \in IpcState /\ f.endpoints[0].senders.len = 0
      /\ f.endpoints[0].receivers.len = 0
      /\ f.threads[CONSOLE_TASK].state = Runnable /\ f.threads[APP_TASK].state = Runnable
      /\ f.endpoints[0].senders \in Queue
  BY Actors DEF IpcFree, IpcQuiet, IpcState, Endpoint
<1>2. m \in Messages /\ m.word = byte /\ m # None
  BY RuntimeSizes, Actors DEF Request
<1> HIDE DEF f, m
<1>3. /\ call.out = Blocked /\ g \in IpcState
      /\ g.threads[APP_TASK].is_call /\ g.threads[APP_TASK].outgoing = m
      /\ \A y \in Threads \ {APP_TASK} : g.threads[y] = f.threads[y]
      /\ g.endpoints[0].senders = Push(f.endpoints[0].senders, APP_TASK)
      /\ g.endpoints[0].receivers = f.endpoints[0].receivers
  <2>1. call = Call(f, APP_TASK, 0, m)
    OBVIOUS
  <2> HIDE DEF call
  <2> QED
    BY <1>1, <1>2, <2>1, Actors, CallWaits
<1> HIDE DEF call
<1>4. /\ receive.out = Delivered(APP_TASK) /\ h \in IpcState
      /\ h.threads[CONSOLE_TASK].state = Runnable
      /\ h.threads[CONSOLE_TASK].inbox = m
      /\ h.threads[CONSOLE_TASK].reply_target = APP_TASK
      /\ h.threads[APP_TASK].state = ReplyBlocked(CONSOLE_TASK)
      /\ h.endpoints[0].senders.len = 0
      /\ h.endpoints[0].receivers = f.endpoints[0].receivers
  <2>1. receive = Receive(g, CONSOLE_TASK, 0)
    OBVIOUS
  <2> HIDE DEF receive, g
  <2> QED
    BY <1>1, <1>3, <2>1, Actors, ReceiveTakes
<1> HIDE DEF receive
<1>5. IpcServing(taken)
  <2> HIDE DEF h
  <2>1. /\ taken \in IpcState /\ taken.endpoints = h.endpoints
        /\ taken.threads[CONSOLE_TASK].inbox = None
        /\ taken.threads[CONSOLE_TASK].state = Runnable
        /\ taken.threads[CONSOLE_TASK].reply_target = APP_TASK
        /\ taken.threads[APP_TASK] = h.threads[APP_TASK]
    BY <1>4, Actors, TakeEmpties
  <2> HIDE DEF taken
  <2> QED
    BY <1>1, <1>4, <2>1, ZenonT(60) DEF IpcServing, IpcQuiet
<1>6. byte % BYTES = byte
  BY RuntimeSizes DEF Bytes
<1>7. x = Returned([r EXCEPT !.ipc = taken, !.pending_byte = byte,
                             !.current_task = CONSOLE_TASK], "Ok")
  <2>1. x = IF call.out # Blocked THEN Returned([r EXCEPT !.ipc = g], "Ipc")
            ELSE IF receive.out # Delivered(APP_TASK)
            THEN Returned([r EXCEPT !.ipc = h], "Ipc")
            ELSE IF h.threads[CONSOLE_TASK].inbox = None
            THEN Returned([r EXCEPT !.ipc = taken], "Ipc")
            ELSE Returned([r EXCEPT !.ipc = taken,
                     !.pending_byte = h.threads[CONSOLE_TASK].inbox.word % BYTES,
                     !.current_task = CONSOLE_TASK], "Ok")
    BY Zenon DEF CallAndReceive, call, receive, f, m
  <2> QED
    BY <1>2, <1>3, <1>4, <1>6, <2>1, Zenon
<1>8. taken \in IpcState
  BY <1>5, Zenon DEF IpcServing, IpcQuiet
<1> HIDE DEF taken
<1>9. /\ x.out = "Ok" /\ x.rt = [r EXCEPT !.ipc = taken, !.pending_byte = byte,
                                         !.current_task = CONSOLE_TASK]
  BY <1>7 DEF Returned
<1> DEFINE y == x.rt
<1>10. /\ y \in RuntimeState /\ y.capabilities = r.capabilities
       /\ y.current_task = CONSOLE_TASK /\ y.pending_byte = byte /\ y.ipc = taken
  <2>1. y = Assigned(r, taken, byte, CONSOLE_TASK)
    BY <1>9, Zenon DEF Assigned
  <2> HIDE DEF y
  <2> QED
    BY <1>8, <2>1, Actors, SetRuntime
<1> HIDE DEF y
<1>11. IpcServing(y.ipc)
  BY <1>5, <1>10, Zenon
<1> QED
  BY <1>9, <1>10, <1>11, Zenon DEF y

\* console_reply_and_revoke while the console serves the app: the app runs again,
\* without its capability.
LEMMA RepliesAndRevokes ==
  ASSUME NEW r, Serving(r), NEW x, x = ConsoleReplyAndRevoke(r)
  PROVE  x.out = "Ok" /\ Served(x.rt)
<1> DEFINE f == r.ipc
           reply == Reply(f, CONSOLE_TASK, DefaultMessage)
           g == reply.ipc
           answered == [r EXCEPT !.ipc = g]
           back == [answered EXCEPT !.current_task = APP_TASK]
           c == RevokeStore(Granted, ROOT_TASK, ENDPOINT_SLOT)
           y == [back EXCEPT !.capabilities = c]
<1>1. /\ r \in RuntimeState /\ r.capabilities = Granted
      /\ r.current_task = CONSOLE_TASK /\ IpcServing(f)
  BY Zenon DEF Serving
<1>2. /\ f \in IpcState /\ f.endpoints[0].senders.len = 0
      /\ f.endpoints[0].receivers.len = 0
      /\ f.threads[CONSOLE_TASK].state = Runnable
      /\ f.threads[CONSOLE_TASK].inbox = None
      /\ f.threads[APP_TASK].state = ReplyBlocked(CONSOLE_TASK)
      /\ f.threads[CONSOLE_TASK].reply_target = APP_TASK
  BY <1>1, Zenon DEF IpcServing, IpcQuiet
<1> HIDE DEF f
<1>3. /\ reply.out = Delivered(APP_TASK) /\ g \in IpcState /\ g.endpoints = f.endpoints
      /\ g.threads[CONSOLE_TASK].state = Runnable
      /\ g.threads[CONSOLE_TASK].reply_target = None
      /\ g.threads[CONSOLE_TASK].inbox = None
      /\ g.threads[APP_TASK].state = Runnable
  BY <1>2, Actors, ReplyWakes
<1>4. reply.out.kind = "Delivered"
  BY <1>3 DEF Delivered, Out
<1> HIDE DEF g
<1>5. IpcFree(g)
  BY <1>2, <1>3, ZenonT(60) DEF IpcFree, IpcQuiet
<1>6. answered \in RuntimeState /\ answered.capabilities = Granted /\ answered.ipc = g
  BY <1>1, <1>3 DEF RuntimeState
<1>7. x = RevokeEndpoint(back)
  BY <1>1, <1>4, GrantedAuthority, ZenonT(60) DEF ConsoleReplyAndRevoke, f, g
<1> HIDE DEF answered
<1>8. /\ back \in RuntimeState /\ back.capabilities = Granted /\ back.ipc = g
      /\ back.current_task = APP_TASK
  BY <1>6, Actors DEF RuntimeState
<1> HIDE DEF back
<1>9. x = Returned(y, "Ok")
  BY <1>7, <1>8, GrantedAuthority, ZenonT(60) DEF RevokeEndpoint
<1>10. Closed(c)
  BY RevokeCloses, Zenon
<1>11. c \in Store
  BY <1>10, Zenon DEF Closed
<1> HIDE DEF c
<1>12. /\ y \in RuntimeState /\ y.capabilities = c /\ y.ipc = g /\ y.current_task = APP_TASK
  BY <1>8, <1>11 DEF RuntimeState
<1> HIDE DEF y
<1>13. x.out = "Ok" /\ x.rt = y
  BY <1>9 DEF Returned
<1>14. Served(y)
  BY <1>5, <1>10, <1>12, Zenon DEF Served
<1> QED
  BY <1>13, <1>14, Zenon

\* app_call before the first call: the console gets the byte.
LEMMA CallServed ==
  ASSUME NEW r, Ready(r), NEW byte \in Bytes, NEW x, x = AppCall(r, byte)
  PROVE  x.out = "Ok" /\ Serving(x.rt) /\ x.rt.pending_byte = byte
<1>1. /\ r \in RuntimeState /\ r.capabilities = Granted
      /\ r.current_task = APP_TASK /\ IpcFree(r.ipc)
  BY Zenon DEF Ready
<1>2. x = CallAndReceive(r, byte)
  BY <1>1, GrantedAuthority, Zenon DEF AppCall
<1>3. /\ x.out = "Ok" /\ x.rt \in RuntimeState
      /\ x.rt.capabilities = Granted /\ x.rt.current_task = CONSOLE_TASK
      /\ x.rt.pending_byte = byte /\ IpcServing(x.rt.ipc)
  BY <1>1, <1>2, HandsOver
<1> QED
  BY <1>3, Zenon DEF Serving

\* app_call at any other time changes nothing.
LEMMA CallRefused ==
  ASSUME NEW r, Serving(r) \/ Served(r), NEW byte, NEW x, x = AppCall(r, byte)
  PROVE  x.out # "Ok" /\ x.rt = r
<1> DEFINE error == AuthorizeError(r.capabilities, APP_TASK, ENDPOINT_SLOT,
                                   {"WRITE"}, "Endpoint")
<1>1. CASE Serving(r)
  <2>1. r.current_task # APP_TASK
    BY <1>1, Actors, Zenon DEF Serving
  <2>2. x = Returned(r, "WrongTask")
    BY <2>1, Zenon DEF AppCall
  <2> QED
    BY <2>2 DEF Returned
<1>2. CASE Served(r)
  <2>1. r.current_task = APP_TASK /\ error # "Ok"
    BY <1>2, ClosedRefuses, Zenon DEF Served
  <2>2. x = Returned(r, error)
    BY <2>1, Zenon DEF AppCall
  <2> HIDE DEF error
  <2> QED
    BY <2>1, <2>2 DEF Returned
<1> QED
  BY <1>1, <1>2

\* console_reply_and_revoke when the console does not serve the app changes
\* nothing.
LEMMA ReplyRefused ==
  ASSUME NEW r, Ready(r) \/ Served(r), NEW x, x = ConsoleReplyAndRevoke(r)
  PROVE  x.out # "Ok" /\ x.rt = r
<1>1. r.current_task # CONSOLE_TASK
  BY Actors, Zenon DEF Ready, Served
<1>2. x = Returned(r, "WrongTask")
  BY <1>1, Zenon DEF ConsoleReplyAndRevoke
<1> QED
  BY <1>2 DEF Returned

\* The runtime kernel_main starts with, and the one it sets up.
LEMMA StartOfRuntime ==
  EmptyRuntime \in RuntimeState /\ Ready(Bootstrapped)
<1>1. EmptyThread \in Thread /\ EmptyQueue \in Queue
  BY IpcSizesAssumption DEF EmptyThread, Thread, ThreadStates, EmptyQueue, Queue,
     Positions
<1>2. EmptyIpc \in IpcState
  BY <1>1 DEF EmptyIpc, IpcState, Endpoint
<1>3. /\ EmptyIpc.endpoints[0] = [senders |-> EmptyQueue, receivers |-> EmptyQueue]
      /\ EmptyIpc.threads[CONSOLE_TASK] = EmptyThread
      /\ EmptyIpc.threads[APP_TASK] = EmptyThread
  BY Actors DEF EmptyIpc
<1>4. /\ EmptyQueue.len = 0 /\ EmptyThread.state = Runnable
      /\ EmptyThread.inbox = None /\ EmptyThread.reply_target = None
  BY DEF EmptyQueue, EmptyThread
<1>5. IpcFree(EmptyIpc)
  BY <1>2, <1>3, <1>4 DEF IpcFree, IpcQuiet
<1>6. EmptyStore \in Store
  <2>1. EmptyNode \in Node
    BY SizesAssumption DEF EmptyNode, Node, Generations
  <2> QED
    BY <2>1 DEF EmptyStore, Store
<1>7. 0 \in Bytes
  BY RuntimeSizes DEF Bytes
<1>8. EmptyRuntime \in RuntimeState
  BY <1>2, <1>6, <1>7, Actors DEF EmptyRuntime, RuntimeState
<1>9. EmptyRuntime.current_task = APP_TASK /\ EmptyRuntime.ipc = EmptyIpc
  BY DEF EmptyRuntime
<1>10. /\ Bootstrapped \in RuntimeState /\ Bootstrapped.capabilities = Granted
       /\ Bootstrapped.current_task = APP_TASK /\ Bootstrapped.ipc = EmptyIpc
  BY <1>8, <1>9, GrantedType DEF Bootstrapped, RuntimeState
<1> QED
  BY <1>5, <1>8, <1>10, Zenon DEF Ready

-----------------------------------------------------------------------------
(* The self-tests of kernel_main. *)

\* Of eight frames the first two are reserved, and the third is the one taken.
LEMMA FramesPass ==
  /\ TestFrames!NewError(REGION, 8 * PAGE) = "Ok"
  /\ TestFrames!ReserveError(FramesNew, REGION, 2) = "Ok"
  /\ TestFrames!FreeOffsets(FramesReserved) # {}
  /\ MemoryTest
<1> DEFINE n == FramesNew
           r == FramesReserved
           b == REGION
           F == TestFrames!FreeOffsets(r)
           o == CHOOSE o \in F : \A p \in F : o <= p
<1>1. /\ b = 1090519040 /\ PAGE = 4096
      /\ b % 4096 = 0 /\ 32768 % 4096 = 0 /\ 8 * 4096 = 32768 /\ 32768 \div 4096 = 8
      /\ (b - b) \div 4096 = 0 /\ (b + 2 * 4096) % 4096 = 0
      /\ (b + 2 * 4096) % (b + 64 * 4096) = b + 2 * 4096
  BY DEF REGION, PAGE
<1>2. TestFrames!NewError(b, 8 * PAGE) = "Ok"
  BY <1>1 DEF TestFrames!NewError
<1>3. n = [base |-> b, frame_count |-> 8, used |-> 8 .. 64 - 1, next_hint |-> 0]
  BY <1>1 DEF FramesNew, TestFrames!New
<1>4. n.base = b /\ n.frame_count = 8 /\ n.used = 8 .. 63 /\ n.next_hint = 0
  BY <1>3
<1> HIDE DEF n
<1>5. TestFrames!IndexOf(n, b) = 0 /\ TestFrames!HasIndex(n, b)
  BY <1>1, <1>4 DEF TestFrames!IndexOf, TestFrames!HasIndex
<1>6. TestFrames!ReserveError(n, b, 2) = "Ok"
  BY <1>1, <1>4, <1>5 DEF TestFrames!ReserveError
<1>7. TestFrames!Reserved(n, b, 2) = 0 .. 1
  BY <1>5 DEF TestFrames!Reserved
<1>8. r = [n EXCEPT !.used = n.used \cup (0 .. 1)]
  BY <1>7 DEF FramesReserved, TestFrames!Reserve, n
<1>9. r.base = b /\ r.frame_count = 8 /\ r.used = (8 .. 63) \cup (0 .. 1) /\ r.next_hint = 0
  BY <1>3, <1>4, <1>8 DEF n
<1> HIDE DEF r, b
<1>10. \A k \in 0 .. 7 : TestFrames!Probe(r, k) = k
  BY <1>9 DEF TestFrames!Probe
<1>11. TestFrames!Frames(r) = 0 .. 7
  BY <1>9 DEF TestFrames!Frames
<1>12. F \in SUBSET Nat /\ 2 \in F /\ \A j \in F : 2 <= j
  BY <1>9, <1>10, <1>11 DEF TestFrames!FreeOffsets
<1> HIDE DEF F
<1>13. o = 2
  BY <1>12, FirstOf
<1>14. TestFrames!Pick(r) = 2
  <2>1. TestFrames!Pick(r) = TestFrames!Probe(r, o)
    BY Zenon DEF TestFrames!Pick, F
  <2>2. TestFrames!Probe(r, 2) = 2
    BY <1>10
  <2> QED
    BY <1>13, <2>1, <2>2, Zenon
<1>15. TestFrames!AddressOf(r, 2) = b + 2 * PAGE
  BY <1>1, <1>9 DEF TestFrames!AddressOf, b
<1>16. HasDescriptor(PAGE, b + 2 * PAGE, USER_DATA)
  BY <1>1 DEF HasDescriptor, USER_DATA
<1>17. MemoryTest
  BY <1>14, <1>15, <1>16, Zenon DEF MemoryTest, r, b
<1>18. F # {}
  BY <1>12
<1> QED
  BY <1>2, <1>6, <1>17, <1>18, Zenon DEF n, r, b, F

\* The console may use the UART and the app the endpoint, but not the UART.
LEMMA AuthorityPasses ==
  /\ TestCaps!ResolveError(TestCaps!Granted, 1, 0, {"WRITE"}) = "Ok"
  /\ TestCaps!ResolveError(TestCaps!Granted, 2, 0, {"WRITE"}) # "Ok"
  /\ SyscallTest
<1> DEFINE g == TestCaps!Granted
           n == 16
<1>1. Stage(TestCaps!Tasks, TestCaps!Slots, n, TestCaps!EmptyNode, 4, g)
  BY TestGrantsDone, Zenon
<1> HIDE DEF g, n
<1>2. /\ GrantTask(1) = 1 /\ GrantSlot(1) = 0 /\ GrantTask(3) = 2 /\ GrantSlot(3) = 1
      /\ \A i \in 0 .. 4 - 1 : 2 # GrantTask(i) \/ 0 # GrantSlot(i)
  BY DEF GrantTask, GrantSlot, ROOT_TASK, CONSOLE_TASK, APP_TASK, UART_SLOT,
         ENDPOINT_SLOT
<1>3. /\ 1 \in TestCaps!Tasks /\ 2 \in TestCaps!Tasks
      /\ 0 \in TestCaps!Slots /\ 1 \in TestCaps!Slots
  BY DEF TestCaps!Tasks, TestCaps!Slots
<1>4. 1 \in 0 .. 4 - 1 /\ 3 \in 0 .. 4 - 1
  OBVIOUS
<1>5. /\ g.spaces[1][0] = Ref(1) /\ g.nodes[1] = GrantNode(1)
      /\ g.spaces[2][1] = Ref(3) /\ g.nodes[3] = GrantNode(3)
      /\ g.spaces[2][0] = None
  BY <1>1, <1>2, <1>3, <1>4, Zenon DEF Stage
<1>6. /\ Ref(1) # None /\ Ref(1).node = 1 /\ Ref(1).generation = 0
      /\ Ref(3) # None /\ Ref(3).node = 3 /\ Ref(3).generation = 0
  BY Four, RefIsSome DEF Ref
<1>7. /\ GrantNode(1).live /\ GrantNode(1).generation = 0
      /\ GrantNode(1).rights = {"WRITE"}
      /\ GrantNode(3).live /\ GrantNode(3).generation = 0
      /\ GrantNode(3).rights = {"WRITE"} /\ GrantNode(3).object.type = "Endpoint"
  BY DEF GrantNode, EndpointObject
<1>8. /\ TestCaps!SourceError(g, 1, 0) = "Ok" /\ TestCaps!NodeAt(g, 1, 0) = GrantNode(1)
  <2>1. TestCaps!Current(g.nodes, g.spaces[1][0])
    BY <1>5, <1>6, <1>7 DEF TestCaps!Current
  <2> QED
    BY <1>3, <1>5, <1>6, <2>1, Zenon DEF TestCaps!SourceError, TestCaps!NodeAt
<1>9. /\ TestCaps!SourceError(g, 2, 1) = "Ok" /\ TestCaps!NodeAt(g, 2, 1) = GrantNode(3)
  <2>1. TestCaps!Current(g.nodes, g.spaces[2][1])
    BY <1>5, <1>6, <1>7 DEF TestCaps!Current
  <2> QED
    BY <1>3, <1>5, <1>6, <2>1, Zenon DEF TestCaps!SourceError, TestCaps!NodeAt
<1>10. TestCaps!SourceError(g, 2, 0) = "EmptySlot"
  BY <1>3, <1>5, Zenon DEF TestCaps!SourceError
<1>11. /\ TestCaps!ResolveError(g, 1, 0, {"WRITE"}) = "Ok"
       /\ TestCaps!ResolveError(g, 2, 1, {"WRITE"}) = "Ok"
  BY <1>7, <1>8, <1>9, Zenon DEF TestCaps!ResolveError
<1>12. TestCaps!ResolveError(g, 2, 0, {"WRITE"}) = "EmptySlot"
  BY <1>10 DEF TestCaps!ResolveError
<1>13. /\ TestCaps!AuthorizeError(g, 2, 1, {"WRITE"}, "Endpoint") = "Ok"
       /\ TestCaps!AuthorizeError(g, 2, 0, {"WRITE"}, "Endpoint") = "EmptySlot"
  BY <1>7, <1>9, <1>11, <1>12 DEF TestCaps!AuthorizeError
<1>14. "EmptySlot" # "Ok"
  OBVIOUS
<1> QED
  BY <1>11, <1>12, <1>13, <1>14, Zenon DEF SyscallTest, g

\* A message sent before anybody receives it reaches the one who does.
LEMMA MessagePasses == IpcTest
<1> DEFINE e == TestIpc!EmptyIpc
           q == TestIpc!EmptyQueue
           call == "send" = "call"
           T == [e.threads[2] EXCEPT !.is_call = call]
           flagged == [e EXCEPT !.threads[2] = T]
           B == [flagged.threads[2] EXCEPT !.outgoing = "message",
                                           !.state = TestIpc!Sending(0)]
           b == [flagged EXCEPT !.threads[2] = B]
           p == TestIpc!Push(q, 2)
           g == [b EXCEPT !.endpoints[0].senders = p]
           popped == [g EXCEPT !.endpoints[0].senders = TestIpc!Pop(p)]
           V == [popped.threads[1] EXCEPT !.inbox = popped.threads[2].outgoing]
           taken == [popped EXCEPT !.threads[1] = V]
           W == [taken.threads[2] EXCEPT !.state = TestIpc!Runnable]
           h == [taken EXCEPT !.threads[2] = W]
           send == TestIpc!Send(e, 2, 0, "message")
           receive == TestIpc!Receive(g, 1, 0)
<1>1. ASSUME NEW f \in TestIpc!IpcState, NEW t \in TestIpc!Threads,
             NEW v \in TestIpc!Thread
      PROVE  /\ [f EXCEPT !.threads[t] = v] \in TestIpc!IpcState
             /\ [f EXCEPT !.threads[t] = v].endpoints = f.endpoints
             /\ [f EXCEPT !.threads[t] = v].threads[t] = v
             /\ \A x \in TestIpc!Threads \ {t} :
                  [f EXCEPT !.threads[t] = v].threads[x] = f.threads[x]
  BY DEF TestIpc!IpcState
<1>2. ASSUME NEW f \in TestIpc!IpcState, NEW x \in TestIpc!Endpoints,
             NEW v \in TestIpc!Queue
      PROVE  /\ [f EXCEPT !.endpoints[x].senders = v] \in TestIpc!IpcState
             /\ [f EXCEPT !.endpoints[x].senders = v].threads = f.threads
             /\ [f EXCEPT !.endpoints[x].senders = v].endpoints[x].senders = v
  BY DEF TestIpc!IpcState, TestIpc!Endpoint
<1>3. /\ 0 \in TestIpc!Endpoints /\ 1 \in TestIpc!Threads /\ 2 \in TestIpc!Threads
      /\ 2 # None /\ 1 # 2
  BY Actors, IpcNoneAssumption
     DEF TestIpc!Endpoints, TestIpc!Threads, APP_TASK
<1>4. /\ q \in TestIpc!Queue /\ q.len = 0 /\ TestIpc!Front(q) = None /\ TestIpc!Pop(q) = q
      /\ ~TestIpc!Full(q)
  BY DEF TestIpc!EmptyQueue, TestIpc!Queue, TestIpc!Positions, TestIpc!Front, TestIpc!Pop,
         TestIpc!Full
<1>5. /\ p \in TestIpc!Queue /\ TestIpc!Front(p) = 2 /\ TestIpc!Pop(p) \in TestIpc!Queue
  <2> DEFINE full == [k \in 0 .. 3 |-> IF k = 0 THEN 2 ELSE None]
  <2>1. p = [entries |-> full, head |-> 0, len |-> 1]
    BY DEF TestIpc!Push, TestIpc!EmptyQueue, TestIpc!Positions
  <2>2. full \in [TestIpc!Positions -> TestIpc!Threads \cup {None}] /\ full[0] = 2
    BY <1>3 DEF TestIpc!Positions
  <2> HIDE DEF full
  <2>3. p \in TestIpc!Queue /\ p.len = 1 /\ p.entries = full /\ p.head = 0
    BY <2>1, <2>2 DEF TestIpc!Queue, TestIpc!Positions
  <2> HIDE DEF p
  <2>4. TestIpc!Front(p) = 2
    BY <2>2, <2>3 DEF TestIpc!Front
  <2>5. TestIpc!Pop(p) = [entries |-> [full EXCEPT ![0] = None], head |-> 1, len |-> 0]
    BY <2>3 DEF TestIpc!Pop
  <2>6. TestIpc!Pop(p) \in TestIpc!Queue
    BY <2>2, <2>5 DEF TestIpc!Queue, TestIpc!Positions
  <2> QED
    BY <2>3, <2>4, <2>6
<1>6. /\ e \in TestIpc!IpcState /\ e.endpoints[0].senders = q
      /\ e.endpoints[0].receivers = q /\ e.threads[1] = TestIpc!EmptyThread
      /\ e.threads[2] = TestIpc!EmptyThread
  <2>1. TestIpc!EmptyThread \in TestIpc!Thread
    BY DEF TestIpc!EmptyThread, TestIpc!Thread, TestIpc!ThreadStates
  <2> HIDE DEF q
  <2> QED
    BY <1>3, <1>4, <2>1 DEF TestIpc!EmptyIpc, TestIpc!IpcState, TestIpc!Endpoint, q
<1> HIDE DEF e, q, p
<1>7. /\ e.threads[1] \in TestIpc!Thread /\ e.threads[2] \in TestIpc!Thread
      /\ e.threads[1].state = TestIpc!Runnable /\ e.threads[2].state = TestIpc!Runnable
  <2>1. TestIpc!EmptyThread.state = TestIpc!Runnable
    BY DEF TestIpc!EmptyThread
  <2> QED
    BY <1>3, <1>6, <2>1 DEF TestIpc!IpcState
<1>8. T \in TestIpc!Thread /\ T.is_call = call
  <2>1. call \in BOOLEAN
    OBVIOUS
  <2> HIDE DEF call
  <2> QED
    BY <1>7, <2>1 DEF TestIpc!Thread
<1>9. flagged = [e EXCEPT !.threads[2].is_call = call]
  <2> HIDE DEF call
  <2> QED
    OBVIOUS
<1> HIDE DEF T
<1>10. /\ flagged \in TestIpc!IpcState /\ flagged.endpoints = e.endpoints
       /\ flagged.threads[2] = T /\ flagged.threads[1] = e.threads[1]
  BY <1>1, <1>3, <1>6, <1>8
<1> HIDE DEF flagged
<1>11. [flagged EXCEPT !.endpoints[0].receivers = TestIpc!Pop(@)] = flagged
  <2>1. flagged.endpoints[0].receivers = q
    BY <1>6, <1>10
  <2> QED
    BY <1>3, <1>4, <1>10, <2>1 DEF TestIpc!IpcState, TestIpc!Endpoint
<1>12. send = TestIpc!Enqueue(flagged, 2, 0, "message")
  <2>1. send = TestIpc!SendOrCall(e, 2, 0, "message", "send")
    BY Zenon DEF TestIpc!Send
  <2>2. TestIpc!RunnableError(e, 2) = "Ok"
    BY <1>3, <1>7, Zenon DEF TestIpc!RunnableError
  <2>3. TestIpc!Front(e.endpoints[0].receivers) = None
    BY <1>4, <1>6, Zenon
  <2> QED
    BY <1>3, <1>9, <1>11, <2>1, <2>2, <2>3, ZenonT(60) DEF TestIpc!SendOrCall
<1>13. send = TestIpc!Result(g, TestIpc!Blocked)
  <2>1. flagged.endpoints[0].senders = q
    BY <1>6, <1>10
  <2>2. b = [flagged EXCEPT !.threads[2] = [@ EXCEPT !.outgoing = "message",
                                                     !.state = TestIpc!Sending(0)]]
    OBVIOUS
  <2> HIDE DEF b
  <2> QED
    BY <1>4, <1>12, <2>1, <2>2, ZenonT(60) DEF TestIpc!Enqueue, p
<1>14. B \in TestIpc!Thread /\ B.outgoing = "message" /\ B.is_call = call
  <2> DEFINE D == [T EXCEPT !.outgoing = "message"]
  <2> HIDE DEF call
  <2>1. D \in TestIpc!Thread /\ D.outgoing = "message" /\ D.is_call = call
    BY <1>8 DEF TestIpc!Thread
  <2>2. B = [D EXCEPT !.state = TestIpc!Sending(0)]
    BY <1>10
  <2>3. TestIpc!Sending(0) \in TestIpc!ThreadStates
    BY <1>3 DEF TestIpc!ThreadStates
  <2> HIDE DEF B, D
  <2> QED
    BY <2>1, <2>2, <2>3 DEF TestIpc!Thread
<1> HIDE DEF B
<1>15. /\ b \in TestIpc!IpcState /\ b.threads[2] = B /\ b.threads[1] = e.threads[1]
  BY <1>1, <1>3, <1>10, <1>14
<1> HIDE DEF b
<1>16. /\ g \in TestIpc!IpcState /\ g.threads = b.threads /\ g.endpoints[0].senders = p
  BY <1>2, <1>3, <1>5, <1>15
<1> HIDE DEF g
<1>17. /\ popped \in TestIpc!IpcState /\ popped.threads = g.threads
  BY <1>2, <1>3, <1>5, <1>16
<1>18. popped = [g EXCEPT !.endpoints[0].senders = TestIpc!Pop(@)]
  BY <1>16
<1> HIDE DEF popped
<1>19. V \in TestIpc!Thread /\ V.inbox = "message"
  <2>1. /\ popped.threads[1] \in TestIpc!Thread /\ popped.threads[2].outgoing = "message"
        /\ "message" \in {"default", "message"} \cup {None}
    BY <1>7, <1>14, <1>15, <1>16, <1>17
  <2> QED
    BY <2>1 DEF TestIpc!Thread
<1>20. taken = TestIpc!Transferred(popped, 2, 1)
  BY DEF TestIpc!Transferred
<1> HIDE DEF V
<1>21. /\ taken \in TestIpc!IpcState /\ taken.threads[1] = V /\ taken.threads[2] = B
  BY <1>1, <1>3, <1>15, <1>16, <1>17, <1>19
<1> HIDE DEF taken
<1>22. W \in TestIpc!Thread
  <2>1. TestIpc!Runnable \in TestIpc!ThreadStates
    BY DEF TestIpc!ThreadStates
  <2> QED
    BY <1>14, <1>21, <2>1 DEF TestIpc!Thread
<1>23. h = [taken EXCEPT !.threads[2].state = TestIpc!Runnable]
  OBVIOUS
<1> HIDE DEF W
<1>24. h.threads[1] = V
  BY <1>1, <1>3, <1>21, <1>22
<1> HIDE DEF h
<1>25. receive = TestIpc!Result(h, TestIpc!Delivered(2))
  <2>1. TestIpc!RunnableError(g, 1) = "Ok"
    BY <1>3, <1>7, <1>15, <1>16, Zenon DEF TestIpc!RunnableError
  <2>2. g.threads[2].is_call = call
    BY <1>14, <1>15, <1>16
  <2>3. ~g.threads[2].is_call
    <3>1. ~call
      OBVIOUS
    <3> HIDE DEF call
    <3> QED
      BY <2>2, <3>1, Zenon
  <2>4. TestIpc!Front(g.endpoints[0].senders) = 2
    BY <1>5, <1>16, Zenon
  <2> QED
    BY <1>3, <1>18, <1>20, <1>23, <2>1, <2>3, <2>4, ZenonT(60) DEF TestIpc!Receive
<1>26. receive.out = TestIpc!Delivered(2) /\ receive.ipc = h
  BY <1>25 DEF TestIpc!Result
<1>27. send.out = TestIpc!Blocked /\ send.ipc = g
  BY <1>13 DEF TestIpc!Result
<1> QED
  BY <1>19, <1>24, <1>26, <1>27, Zenon DEF IpcTest, e

\* Two tasks of a scheduler for four, and the others unused.
TestPair(v) ==
  /\ v.tasks \in [0 .. 3 -> TestTasks!Task]
  /\ v.tasks[0].state = "Runnable" /\ v.tasks[1].state = "Runnable"
  /\ v.tasks[2].state = "Unused" /\ v.tasks[3].state = "Unused"

\* schedule of such a scheduler keeps the states, and chooses the task that the
\* offset k, the first to find one, leads to.
LEMMA TestSchedule ==
  ASSUME NEW v, TestPair(v), v.current \in {None, 0, 1},
         NEW s \in 0 .. 3, TestTasks!Start(v) = s, NEW k \in 0 .. 3, NEW t \in {0, 1},
         (s + k) % 4 = t, \A j \in 0 .. 3 : j < k => (s + j) % 4 \in {2, 3},
         NEW z, z = TestTasks!Schedule(v)
  PROVE  TestPair(z) /\ z.current = t
<1> DEFINE F == TestTasks!Ready(v)
           o == CHOOSE o \in F : \A p \in F : o <= p
<1>1. \A j \in 0 .. 3 : TestTasks!Candidate(v, j) = (s + j) % 4
  BY Zenon DEF TestTasks!Candidate
<1>2. v.tasks[t].state = "Runnable"
  BY DEF TestPair
<1>3. \A j \in 0 .. 3 : j < k => v.tasks[(s + j) % 4].state = "Unused"
  BY DEF TestPair
<1>4. F \in SUBSET Nat
  BY DEF TestTasks!Ready
<1>5. k \in F
  BY <1>1, <1>2 DEF TestTasks!Ready, TestTasks!Is
<1>6. \A j \in F : k <= j
  <2> SUFFICES ASSUME NEW j \in 0 .. 3, j < k PROVE j \notin F
    BY DEF TestTasks!Ready
  <2>1. v.tasks[TestTasks!Candidate(v, j)].state = "Unused"
    BY <1>1, <1>3
  <2> QED
    BY <2>1 DEF TestTasks!Ready, TestTasks!Is
<1> HIDE DEF F
<1>7. o = k
  BY <1>4, <1>5, <1>6, FirstOf
<1>8. TestTasks!Chosen(v) = t
  <2>1. F # {}
    BY <1>5
  <2>2. TestTasks!Chosen(v) = TestTasks!Candidate(v, o)
    BY <2>1, Zenon DEF TestTasks!Chosen, F
  <2> QED
    BY <1>1, <1>7, <2>2, Zenon
<1>9. z.tasks = TestTasks!Charged(v) /\ z.current = t
  BY <1>8 DEF TestTasks!Schedule
<1>10. TestPair(z)
  <2> DEFINE c == v.current
             n == (v.tasks[c].runtime_ticks + 1) % 2
             W == [v.tasks[c] EXCEPT !.runtime_ticks = n]
  <2>1. CASE ~(c # None /\ TestTasks!Is(v, c, "Runnable"))
    <3>1. TestTasks!Charged(v) = v.tasks
      BY <2>1, Zenon DEF TestTasks!Charged
    <3> QED
      BY <1>9, <3>1, Zenon DEF TestPair
  <2>2. CASE c # None /\ TestTasks!Is(v, c, "Runnable")
    <3>1. c \in {0, 1} /\ c \in 0 .. 3
      BY <2>2
    <3>2. v.tasks[c] \in TestTasks!Task /\ v.tasks \in [0 .. 3 -> TestTasks!Task]
      BY <3>1 DEF TestPair
    <3>3. TestTasks!Charged(v) = [v.tasks EXCEPT ![c] = W]
      BY <2>2 DEF TestTasks!Charged
    <3> HIDE DEF c
    <3>4. n \in 0 .. 1
      BY <3>2 DEF TestTasks!Task
    <3> HIDE DEF n
    <3>5. W \in TestTasks!Task /\ W.state = v.tasks[c].state
      BY <3>2, <3>4 DEF TestTasks!Task
    <3> HIDE DEF W
    <3>6. /\ z.tasks \in [0 .. 3 -> TestTasks!Task]
          /\ \A x \in 0 .. 3 : z.tasks[x].state = v.tasks[x].state
      BY <1>9, <3>1, <3>2, <3>3, <3>5
    <3> QED
      BY <3>6 DEF TestPair
  <2> QED
    BY <2>1, <2>2
<1> QED
  BY <1>9, <1>10

\* Two tasks take turns.
LEMMA SchedulerPasses ==
  /\ TestTasks!Unused(TestTasks!EmptyScheduler) # {} /\ TestTasks!Unused(SpawnedOnce) # {}
  /\ SchedulerTest
<1> DEFINE e == TestTasks!EmptyScheduler
           P == [state |-> "Runnable", context |-> "empty", runtime_ticks |-> 0]
           first == TestTasks!Schedule(SpawnedTwice)
           second == TestTasks!Schedule(first)
           third == TestTasks!Schedule(second)
<1>1. TestTasks!Tasks = 0 .. 3 /\ None # 0 /\ None # 1
  BY RuntimeSizes, IpcSizesAssumption, IpcNoneAssumption DEF TestTasks!Tasks, Threads
<1>2. /\ TestTasks!EmptyTask \in TestTasks!Task /\ TestTasks!EmptyTask.state = "Unused"
      /\ P \in TestTasks!Task /\ P.state = "Runnable"
  BY DEF TestTasks!EmptyTask, TestTasks!Task, TestTasks!TaskState
<1> HIDE DEF P
<1>3. /\ e = [tasks |-> [t \in 0 .. 3 |-> TestTasks!EmptyTask], current |-> None]
      /\ e.tasks \in [0 .. 3 -> TestTasks!Task] /\ e.current = None
      /\ \A t \in 0 .. 3 : e.tasks[t] = TestTasks!EmptyTask
  BY <1>1, <1>2 DEF TestTasks!EmptyScheduler
<1>4. ASSUME NEW v, NEW k \in 0 .. 3, v.tasks[k].state = "Unused",
             \A j \in 0 .. 3 : j < k => v.tasks[j].state = "Runnable"
      PROVE  TestTasks!Unused(v) # {} /\ TestTasks!FirstUnused(v) = k
  <2> DEFINE F == TestTasks!Unused(v)
  <2>1. TestTasks!FirstUnused(v) = CHOOSE t \in F : \A u \in F : t <= u
    BY Zenon DEF TestTasks!FirstUnused
  <2>2. F \in SUBSET Nat /\ k \in F /\ \A j \in F : k <= j
    BY <1>1, <1>4 DEF TestTasks!Unused, TestTasks!Is
  <2> HIDE DEF F
  <2>3. (CHOOSE t \in F : \A u \in F : t <= u) = k
    BY <2>2, FirstOf
  <2>4. F # {}
    BY <2>2
  <2> QED
    BY <2>1, <2>3, <2>4, Zenon DEF F
<1> HIDE DEF e
<1>5. TestTasks!Unused(e) # {} /\ TestTasks!FirstUnused(e) = 0
  BY <1>2, <1>3, <1>4
<1>6. SpawnedOnce = [e EXCEPT !.tasks[0] = P]
  BY <1>5, Zenon DEF SpawnedOnce, TestTasks!Spawn, e, P
<1>7. /\ SpawnedOnce.tasks \in [0 .. 3 -> TestTasks!Task]
      /\ SpawnedOnce.current = None /\ SpawnedOnce.tasks[0] = P
      /\ \A t \in 1 .. 3 : SpawnedOnce.tasks[t] = TestTasks!EmptyTask
      /\ SpawnedOnce = [tasks |-> SpawnedOnce.tasks, current |-> None]
  BY <1>2, <1>3, <1>6
<1>8. TestTasks!Unused(SpawnedOnce) # {} /\ TestTasks!FirstUnused(SpawnedOnce) = 1
  BY <1>2, <1>4, <1>7
<1>9. SpawnedTwice = [SpawnedOnce EXCEPT !.tasks[1] = P]
  BY <1>8, Zenon DEF SpawnedTwice, TestTasks!Spawn, P
<1>10. TestPair(SpawnedTwice) /\ SpawnedTwice.current = None
  BY <1>2, <1>7, <1>9 DEF TestPair
<1>11. TestPair(first) /\ first.current = 0
  <2>1. TestTasks!Start(SpawnedTwice) = 0
    BY <1>10, Zenon DEF TestTasks!Start
  <2>2. (0 + 0) % 4 = 0 /\ \A j \in 0 .. 3 : j < 0 => (0 + j) % 4 \in {2, 3}
    OBVIOUS
  <2> QED
    BY <1>10, <2>1, <2>2, TestSchedule
<1> HIDE DEF first
<1>12. TestPair(second) /\ second.current = 1
  <2>1. TestTasks!Start(first) = 1
    BY <1>1, <1>11 DEF TestTasks!Start
  <2>2. (1 + 0) % 4 = 1 /\ \A j \in 0 .. 3 : j < 0 => (1 + j) % 4 \in {2, 3}
    OBVIOUS
  <2> QED
    BY <1>11, <2>1, <2>2, TestSchedule
<1> HIDE DEF second
<1>13. third.current = 0
  <2>1. TestTasks!Start(second) = 2
    BY <1>1, <1>12 DEF TestTasks!Start
  <2>2. (2 + 2) % 4 = 0 /\ \A j \in 0 .. 3 : j < 2 => (2 + j) % 4 \in {2, 3}
    OBVIOUS
  <2> QED
    BY <1>12, <2>1, <2>2, TestSchedule
<1>14. SchedulerTest
  BY <1>5, <1>8, <1>11, <1>12, <1>13, Zenon DEF SchedulerTest, first, second, e
<1> QED
  BY <1>5, <1>8, <1>14, Zenon DEF e

\* README.md, expected serial output: all self-tests pass.
LEMMA SelfTestsPass == UnwrapsSucceed /\ Transcript = Passed
<1>1. UnwrapsSucceed
  BY FramesPass, TestGrantsDone, SchedulerPasses, Zenon DEF UnwrapsSucceed
<1>2. /\ MemoryTest = TRUE /\ IpcTest = TRUE /\ SyscallTest = TRUE
      /\ SchedulerTest = TRUE
      /\ (TestCaps!ResolveError(TestCaps!Granted, 1, 0, {"WRITE"}) = "Ok") = TRUE
      /\ (TestCaps!ResolveError(TestCaps!Granted, 2, 0, {"WRITE"}) = "Ok") = FALSE
  BY FramesPass, MessagePasses, AuthorityPasses, SchedulerPasses, Zenon
<1> QED
  BY <1>1, <1>2, Zenon DEF Transcript, Passed

=============================================================================
