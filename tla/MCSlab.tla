-------------------------------- MODULE MCSlab --------------------------------
(* Slab for TLC; the CPUs are alike. *)
EXTENDS Slab, TLC

CpuSymmetry == Permutations(Cpus)
================================================================================
