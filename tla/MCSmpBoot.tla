------------------------------ MODULE MCSmpBoot ------------------------------
(* Three CPUs, the BSP in the middle of the MADT. *)
EXTENDS SmpBoot

Madt3 == <<2, 0, 1>>
===============================================================================
