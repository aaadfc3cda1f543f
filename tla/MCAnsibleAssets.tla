-------------------------- MODULE MCAnsibleAssets --------------------------
(* Instances of AnsibleAssets for TLC. *)
EXTENDS AnsibleAssets, TLC

\* Processes, trees and staging names are interchangeable.
Symm == Permutations(Procs) \cup Permutations(Trees) \cup Permutations(Stages)

============================================================================
