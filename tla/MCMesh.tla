------------------------------ MODULE MCMesh ------------------------------
(***************************************************************************)
(* Instances of Mesh for TLC.  Agents that are not told apart by a run may *)
(* be permuted; so may assignments, threads, hashes and keys.              *)
(***************************************************************************)
EXTENDS Mesh, TLC

\* Agents, assignments, threads, hashes and keys are only ever compared.
Symmetry == Permutations(Agents) \cup Permutations(Assignments)
              \cup Permutations(Callers) \cup Permutations(Hashes)
              \cup Permutations(Keys)
===========================================================================
