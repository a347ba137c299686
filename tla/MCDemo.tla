------------------------------- MODULE MCDemo --------------------------------
(***************************************************************************)
(* The demonstration for TLC, with the sizes of the live runtime's store   *)
(* cut down to what the demonstration uses.                                *)
(***************************************************************************)
EXTENDS Demo

MCObjects == {EndpointObject, UartObject}
MCDefault == [label |-> 0, word |-> 0]
MCMessages == {MCDefault} \cup {[label |-> 1, word |-> b] : b \in 0 .. BYTES - 1}

=============================================================================
