------------------------------- MODULE Option --------------------------------
(***************************************************************************)
(* Option::None, shared by the modules that model Rust options.            *)
(***************************************************************************)

CONSTANT None

=============================================================================
