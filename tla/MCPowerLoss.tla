----------------------------- MODULE MCPowerLoss -----------------------------
(* PowerLoss for TLC. *)
EXTENDS PowerLoss, TLC

\* Instances and document ids are interchangeable.
Symmetry == Permutations(Instance) \cup Permutations(Document)
=============================================================================
