-------------------------- MODULE MCBackupPipeline --------------------------
(* Instances of BackupPipeline for TLC. *)
EXTENDS BackupPipeline, TLC
CONSTANTS h1, h2

\* An empty repository.
Fresh == {}

\* Two Hosts that shared a repository before push began to tag.
Old(i, h) == [id |-> i, host |-> h, tag |-> Untagged, day |-> 0,
              apps |-> [a \in Apps |-> "whole"], by |-> "push", ok |-> {}]
BeforeTags == {Old(1, h2), Old(2, h1), Old(3, h2)}

\* Hosts are interchangeable only where Legacy names none.
Symm == Permutations(Procs) \cup Permutations(Apps)
SymmHosts == Symm \cup Permutations(Hosts)

=============================================================================
