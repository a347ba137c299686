------------------------------ MODULE Authorize ------------------------------
(***************************************************************************)
(* The typed authorisation of src/syscall.rs over a capability store.      *)
(***************************************************************************)
EXTENDS LeaseTree

\* authorize_endpoint, authorize_frame and authorize_mmio: the error, or "Ok"
\* when the object of NodeAt(c, caller, slot) is the answer.
AuthorizeError(c, caller, slot, required, type) ==
  IF ResolveError(c, caller, slot, required) # "Ok"
  THEN ResolveError(c, caller, slot, required)
  ELSE IF NodeAt(c, caller, slot).object.type # type THEN "WrongObjectType"
  ELSE "Ok"

=============================================================================
