-------------------------- MODULE CapabilityLineage --------------------------
(***************************************************************************)
(* The capability store implements Authority.  A history variable records, *)
(* when a node is allocated, the nodes of the capabilities it was minted   *)
(* through, from the arguments of the call and not from the parent links   *)
(* the store keeps; the operations never read it.                          *)
(***************************************************************************)
EXTENDS CapabilitySystem

VARIABLE lineage   \* lineage[i]: the nodes a live node i was derived through

lineageVars == <<caps, lineage>>

LineageInit == Init /\ lineage = [i \in Nodes |-> {}]

\* A node that has just come to life descends from itself and from whatever
\* the capability the caller named descends from.
Recorded(source) ==
  [i \in Nodes |->
     IF ~caps'.nodes[i].live THEN {}
     ELSE IF caps.nodes[i].live THEN lineage[i]
     ELSE {i} \cup source]

LineageNext ==
  \/ \E t \in TaskArgs, s \in SlotArgs, o \in Objects, r \in RightArgs :
       CreateRoot(t, s, o, r) /\ lineage' = Recorded({})
  \/ \E t, u \in TaskArgs, s, v \in SlotArgs, r \in RightArgs :
       /\ Mint(t, s, u, v, r)
       /\ lineage' = Recorded(lineage[caps.spaces[t][s].node])
  \/ \E t \in TaskArgs, s \in SlotArgs :
       Revoke(t, s) /\ lineage' = Recorded({})

LineageSpec == LineageInit /\ [][LineageNext]_lineageVars

\* Refinement mapping: the grant in a slot is its node, identified by its index.
Held ==
  [t \in Tasks |-> [s \in Slots |->
    IF caps.spaces[t][s] = None THEN None
    ELSE LET i == caps.spaces[t][s].node
         IN [object |-> caps.nodes[i].object, rights |-> caps.nodes[i].rights,
             id |-> i, lineage |-> lineage[i]]]]

A == INSTANCE Authority WITH held <- Held, Ids <- Nodes

ASSUME NoGrantAssumption == None \notin A!Grant

\* Every behaviour of the store is a behaviour of Authority: revoke takes away
\* exactly the capabilities ever derived from the revoked one, however nodes
\* were reused in between, and a capability only comes from create_root or from
\* a holder of GRANT with at least its rights.
ImplementsAuthority == A!Spec

=============================================================================
