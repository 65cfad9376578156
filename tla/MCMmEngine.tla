----------------------------- MODULE MCMmEngine -----------------------------
(* Finite instances of MmEngine: r2 is split into two parts. *)
EXTENDS MmEngine, TLC

CONSTANT r2

MCSplits == [r \in Requests |-> IF r = r2 THEN 2 ELSE 1]

CpuSymmetry == Permutations(Cpus)
=============================================================================
