---------------------------- MODULE MCJsonlStore ----------------------------
(***************************************************************************)
(* Instances of JsonlStore for TLC.                                        *)
(***************************************************************************)
EXTENDS JsonlStore, TLC

\* Ids and processes are only ever compared.
Symmetry == Permutations(Ids) \cup Permutations(Procs)
=============================================================================
