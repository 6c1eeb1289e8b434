------------------------------ MODULE MCNmRpc -------------------------------
(* Model checking of NmRpc: the callers are interchangeable. *)
EXTENDS NmRpc, TLC

CallerSymmetry == Permutations(Callers)
=============================================================================
