---------------------------- MODULE MCKnownHosts ----------------------------
(***************************************************************************)
(* Small instances of KnownHosts: one Host, which was hardened or still    *)
(* answers on port 22, and a name that is free.                            *)
(***************************************************************************)
EXTENDS KnownHosts, TLC

J(o, t, q) == [op |-> o, name |-> "a", to |-> t, port |-> q]

MCNames == {"a", "b"}
OneMachine == {"m1"}
OneHost == {"a" :> [machine |-> "m1", port |-> q] : q \in Ports}

Reads == {J("read", "a", "std")}
Connects == {J("strict", "a", "std"), J("ansible", "a", "std")}
Bootstraps == {J("bootstrap", "a", q) : q \in Ports}
Renames == {J("rename", "b", "std")}
EveryJob == Reads \cup Connects \cup Bootstraps \cup Renames
ReadAndBootstrap == Reads \cup {J("bootstrap", "a", "std")}
RenameAndConnect == {J("rename", "b", "std"),
                     [op |-> "strict", name |-> "b", to |-> "b", port |-> "std"]}
=============================================================================
