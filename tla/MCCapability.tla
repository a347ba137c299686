----------------------------- MODULE MCCapability ----------------------------
(***************************************************************************)
(* Small capability stores with their lineage, for TLC.                    *)
(***************************************************************************)
EXTENDS CapabilityLineage

\* Full rights, rights that can be passed on once more, and a leaf's rights.
MCRights == {Right, {"READ", "GRANT"}, {"READ"}}

=============================================================================
