-------------------------------- MODULE Ring --------------------------------
(***************************************************************************)
(* Descriptor rings of the White Rabbit NIC (wr_nic/nic-core.c): NDesc     *)
(* descriptors, gone through round-robin.                                  *)
(***************************************************************************)
EXTENDS Integers

CONSTANT NDesc      \* WRN_NR_RXDESC or WRN_NR_TXDESC

ASSUME NDescAssumption == NDesc \in Nat \ {0}

Desc == 0..(NDesc - 1)

NextDesc(i) == (i + 1) % NDesc

\* Steps from descriptor a to descriptor b, going round the ring.
Dist(a, b) == IF a <= b THEN b - a ELSE b - a + NDesc
=============================================================================
