------------------------------ MODULE MCConsole ------------------------------
(* The console with interchangeable CPUs. *)
EXTENDS Console, TLC

CpuSymmetry == Permutations(Processors)
===============================================================================
