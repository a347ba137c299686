------------------------------- MODULE MCAnyUser ------------------------------
(***************************************************************************)
(* Arbitrary EL0 code for TLC, with the sizes of the live runtime's store  *)
(* cut down to what it uses; a register may be larger than a byte.         *)
(***************************************************************************)
EXTENDS AnyUser

MCObjects == {EndpointObject, UartObject}
MCDefault == [label |-> 0, word |-> 0]
MCMessages == {MCDefault} \cup {[label |-> 1, word |-> b] : b \in 0 .. BYTES - 1}

=============================================================================
