------------------------------ MODULE Authority ------------------------------
(***************************************************************************)
(* What the LeaseTree promises, without nodes, generations or reuse: every *)
(* slot holds at most one grant, a grant carries the identity of every     *)
(* grant it descends from, and withdrawing a grant takes away exactly the  *)
(* grants that carry its identity.                                         *)
(***************************************************************************)
EXTENDS Naturals

CONSTANTS Tasks, Slots, Objects, Right, Ids, None

VARIABLE held    \* held[t][s]: the grant in slot s of task t, or None

Grant == [object : Objects, rights : SUBSET Right, id : Ids,
          lineage : SUBSET Ids]

HeldType == held \in [Tasks -> [Slots -> Grant \cup {None}]]

Init == held = [t \in Tasks |-> [s \in Slots |-> None]]

Holders == {h \in Tasks \X Slots : held[h[1]][h[2]] # None}

\* Identities some present grant is, or descends from.
IdsInUse == UNION {held[h[1]][h[2]].lineage : h \in Holders}

\* A grant nobody has seen before appears in an empty slot.
Gain(t, s, g) ==
  /\ held[t][s] = None
  /\ held' = [held EXCEPT ![t][s] = g]
  /\ g \in Grant /\ g.id \notin IdsInUse

Create(t, s, g) == Gain(t, s, g) /\ g.lineage = {g.id}

\* A holder of GRANT passes on a subset of its rights.
Derive(t, s, u, v, g) ==
  /\ held[t][s] # None
  /\ Gain(u, v, g)
  /\ g.object = held[t][s].object
  /\ g.rights \cup {"GRANT"} \subseteq held[t][s].rights
  /\ g.lineage = held[t][s].lineage \cup {g.id}

Withdraw(t, s) ==
  /\ held[t][s] # None
  /\ held' = [u \in Tasks |-> [v \in Slots |->
                IF held[u][v] # None /\ held[t][s].id \in held[u][v].lineage
                THEN None ELSE held[u][v]]]

Next ==
  /\ held' # held
  /\ \/ \E t \in Tasks, s \in Slots : Create(t, s, held'[t][s])
     \/ \E t, u \in Tasks, s, v \in Slots : Derive(t, s, u, v, held'[u][v])
     \/ \E t \in Tasks, s \in Slots : Withdraw(t, s)

Spec == Init /\ [][Next]_held

=============================================================================
