--------------------------- MODULE MCFrameClients ----------------------------
(***************************************************************************)
(* Small regions for TLC: pages of two bytes, a region that fills the      *)
(* bitmap, one that does not, one at the end of the address space, and     *)
(* regions new refuses.                                                    *)
(***************************************************************************)
EXTENDS FrameClients

MCRegions == {<<2, 10>>, <<8, 8>>, <<0, 2>>, <<1, 4>>, <<2, 3>>, <<2, 0>>, <<0, 12>>}

=============================================================================
