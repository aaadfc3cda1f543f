-------------------------------- MODULE MCBichon --------------------------------
EXTENDS Bichon

CONSTANTS ann, bob, inbox, old, junk

RosterDef == <<ann, bob>>
Msg(n, a, f, i, d) == [n |-> n, acct |-> a, folder |-> f, id |-> i, date |-> d]
m1 == Msg(1, ann, inbox, "x", 1)
m2 == Msg(2, ann, inbox, "y", 3)
m3 == Msg(3, ann, inbox, "x", 2)
m4 == Msg(4, bob, inbox, "z", 1)
m5 == Msg(5, ann, inbox, Synthetic, 1)
m6 == Msg(6, ann, old, "w", 1)
MailDef == {m1, m2, m3, m4, m5, m6}
World(held, sync, dirs, arch, cur) ==
    [store |-> held, synced |-> [a \in Accounts |-> IF a = ann THEN sync ELSE {inbox}],
     boxes |-> [a \in Accounts |-> IF a = ann THEN dirs ELSE {inbox}], archive |-> arch,
     cursor |-> [a \in Accounts |-> cur]]
Side(m, k) == [Sidecar(m) EXCEPT !.keyed = k]
\* Mail behind the cursor; an archive from before sidecars carried an id; two
\* messages under one id, one of them archived; folders that drifted.
WorldsDef ==
    {World({m1, m2, m4, m6}, {inbox, old}, {inbox, old, junk}, {Side(m2, TRUE)}, 3),
     World({m1, m2}, {inbox, old}, {inbox, junk}, {Side(m1, TRUE), Side(m2, FALSE)}, 3),
     World({m1, m3, m5}, {inbox}, {inbox, old}, {Side(m1, TRUE)}, 2),
     World({m1, m2}, {inbox, junk}, {inbox}, {Side(m1, TRUE), Side(m2, TRUE)}, 3)}
=============================================================================
