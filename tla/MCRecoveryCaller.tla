-------------------------- MODULE MCRecoveryCaller -------------------------
(* Model-checking instance of RecoveryCaller. *)
EXTENDS RecoveryCaller, TLC

Symmetry == Permutations(Nodes \ CordonNodes)
============================================================================
