--------------------------- MODULE MCClientServer ----------------------------
(***************************************************************************)
(* One server and a few clients, for TLC.                                  *)
(***************************************************************************)
EXTENDS ClientServer

MCMessages == 0 .. THREADS - 1

=============================================================================
