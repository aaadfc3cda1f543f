---------------------------- MODULE MCHostRoster ----------------------------
(***************************************************************************)
(* Small instances of HostRoster: two Hosts on two machines and one name   *)
(* that is free.                                                           *)
(***************************************************************************)
EXTENDS HostRoster

E(m, t, p, k) == [machine |-> m, ts |-> t, prefer |-> p, key |-> k]
J(o, n, t, e) == [op |-> o, name |-> n, to |-> t, entry |-> e]

MCNames == {"a", "b", "c"}
MCMachines == {"m1", "m2"}
OneTable == {"hosts"}
BothTables == {"hosts", "bichon.hosts"}

Plain == E("m1", FALSE, FALSE, "derived")

\* b is reached over the tailnet, or says so by hand without an address; its
\* key is in its own directory, or in a's.
OtherHosts == {E("m2", TRUE, TRUE, "derived"), E("m2", FALSE, TRUE, "b")}
SomeHosts == {Plain, E("m1", TRUE, TRUE, "a"), E("m1", TRUE, FALSE, "custom")}
Valids == {("a" :> h) @@ ("b" :> E("m2", TRUE, TRUE, k)) : h \in SomeHosts, k \in {"derived", "custom"}}
HandEdited == {("a" :> h) @@ ("b" :> o) : h \in SomeHosts, o \in OtherHosts}
TwoHosts == {("a" :> E("m1", TRUE, TRUE, "derived")) @@ ("b" :> E("m2", FALSE, FALSE, "derived"))}

RenameA == J("rename", "a", "c", Plain)
EditA(p) == J("edit", "a", "a", E("m1", FALSE, p, "derived"))
EveryJob == {RenameA, EditA(TRUE), J("edit", "b", "b", E("m2", FALSE, TRUE, "custom")),
             J("add", "c", "c", E("m1", FALSE, FALSE, "custom")),
             J("remove", "b", "b", Plain), J("detect", "a", "a", Plain),
             J("detect", "b", "b", Plain), J("list", "a", "a", Plain)}
RenameOnly == {RenameA}
RenameAmongOthers == {RenameA, J("detect", "a", "a", Plain), J("remove", "b", "b", Plain),
                      J("list", "a", "a", Plain)}
DetectAndEdit == {J("detect", "a", "a", Plain), EditA(FALSE)}
RenameAndRemove == {RenameA, J("remove", "b", "b", Plain)}
RenameAndList == {RenameA, J("list", "a", "a", Plain)}
=============================================================================
