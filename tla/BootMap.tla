------------------------------- MODULE BootMap -------------------------------
(***************************************************************************)
(* The translation tables src/boot.S builds before it turns the MMU on, by *)
(* the kinds of pages src/linker.ld lays out: what descriptor each holds   *)
(* when kernel_main starts.  The tables are never written again.           *)
(***************************************************************************)
EXTENDS Descriptors

Pages == {"device", "kernel", "text", "stackA", "stackB", "upper"}

\* L1[0], a block over the devices: 0x0060000000000401
DeviceBlock == {"VALID", "AF", "PXN", "UXN"}

\* L2[1 ..], blocks over the rest of RAM: 0x0060000040200705
UpperBlock == {"VALID", "NORMAL", "SH_INNER", "AF", "PXN", "UXN"}

\* The loop over L3, the first two megabytes of RAM: 0x40000707
KernelPage == {"VALID", "PAGE", "NORMAL", "SH_INNER", "AF"}

FirstPass ==
  [p \in Pages |-> CASE p = "device" -> DeviceBlock
                     [] p = "upper" -> UpperBlock
                     [] OTHER -> KernelPage]

\* The user's pages are overwritten: 0x00200000000007c7 and 0x0060000000000747
BootTable ==
  [FirstPass EXCEPT
     !["text"] = KernelPage \cup {"AP_USER", "AP_READ_ONLY", "PXN"},
     !["stackA"] = KernelPage \cup {"AP_USER", "PXN", "UXN"},
     !["stackB"] = KernelPage \cup {"AP_USER", "PXN", "UXN"}]

=============================================================================
