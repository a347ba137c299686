----------------------------- MODULE Descriptors -----------------------------
(***************************************************************************)
(* The attributes of a page in src/paging.rs: a descriptor's bits are the  *)
(* set of their names.                                                     *)
(***************************************************************************)
EXTENDS Integers

PagePermissions ==
  [writable : BOOLEAN, executable : BOOLEAN, user : BOOLEAN, device : BOOLEAN]

USER_DATA == [writable |-> TRUE, executable |-> FALSE, user |-> TRUE, device |-> FALSE]
USER_CODE == [writable |-> FALSE, executable |-> TRUE, user |-> TRUE, device |-> FALSE]

\* page_descriptor accepts these arguments.
HasDescriptor(page, pa, p) == pa % page = 0 /\ ~(p.writable /\ p.executable)

\* The bits page_descriptor sets below and above the output address.
Attributes(p) ==
  {"VALID", "PAGE", "AF"}
     \cup (IF p.device THEN {} ELSE {"NORMAL", "SH_INNER"})
     \cup (IF p.writable THEN {} ELSE {"AP_READ_ONLY"})
     \cup (IF p.user THEN {"AP_USER"} ELSE {})
     \cup (IF ~p.executable THEN {"PXN", "UXN"}
           ELSE IF p.user THEN {"PXN"} ELSE {"UXN"})

\* What the MMU makes of the bits, for the kernel (EL1) and for user code
\* (EL0).  AP_USER opens a page to both.
Writes(el, bits) == "AP_READ_ONLY" \notin bits /\ (el = 1 \/ "AP_USER" \in bits)
Executes(el, bits) == IF el = 0 THEN "UXN" \notin bits ELSE "PXN" \notin bits

=============================================================================
