----------------------------- MODULE MCNetwork -----------------------------
(* What a Host is named, addressed and opened by: the tailnet's coordinator, *)
(* the zone at Cloudflare, the operator's keys, and the route to it.  A      *)
(* behaviour explores one of them.                                           *)
EXTENDS Headscale, Dns, Identities, Routes, TLC

CONSTANTS
    h1, h2, phone,                              \* the tailnet's
    web, vault, shop, box, git, ip1, ip2, ts,   \* the zone's
    home, vps, own, cellar                      \* the keys' and the route's

VARIABLE part

\* The machine of h2 was set up as another h1.
HostnameDef == h1 :> h1 @@ h2 :> h1 @@ phone :> phone
\* The tailnet: a command of each kind, and two of them in another form.
MCOrder(op, m, u) == [op |-> op, about |-> m, user |-> u, tags |-> {"t"}, valid |-> TRUE, check |-> FALSE]
MCOrders == {MCOrder(op, h1, "u") : op \in {"host_remove", "deploy", "add_key", "add_user", "remove_user", "tag_node", "list"}}
            \cup {MCOrder("register", phone, "u")}
            \cup {[MCOrder("deploy", h1, "u") EXCEPT !.check = TRUE],
                  [MCOrder("add_key", h1, "v") EXCEPT !.valid = FALSE]}

\* The zone.
AppOrderDef == <<shop, vault, web>>
Nowhere == [s \in Scopes |-> Unset]
At(s, v) == [Nowhere EXCEPT ![s] = v]
Pair(v) == [z \in AllZones |-> At(Everywhere, v)]
\* web is public, maybe at a tailnet address; vault is tailnet-only; shop is
\* placed in a second zone by its Meta, by one Host's table, or not at all, or
\* would be by a blank answer.
Fleet(pin, place, tail) ==
    [config |-> [sub |-> [a \in Apps |-> Nowhere], place |-> [a \in Apps |-> IF a = shop THEN place ELSE Nowhere],
                 tail |-> [a \in Apps |-> IF a = web THEN tail ELSE Nowhere],
                 domain |-> Pair("d"), token |-> Pair("t")],
     metas |-> [a \in Apps |-> [pin |-> IF a = shop THEN pin ELSE "", tailnet |-> a = vault, named |-> TRUE]]]
WorldsDef ==
    {Fleet("", Nowhere, Nowhere),
     Fleet("", At(box, git), At(Everywhere, "ip")),
     Fleet(git, At(box, Blanked), Nowhere)}
SelectionsDef ==
    {[named |-> {}, skip |-> {}], [named |-> {}, skip |-> {vault, web}],
     [named |-> {shop, web}, skip |-> {}], [named |-> {vault, web}, skip |-> {vault}]}
Rec(i, n, a, ip) == [id |-> i, name |-> n, a |-> a, ip |-> ip]
FirstZonesDef ==
    {{}, {Rec(1, web, TRUE, ip1), Rec(2, vault, TRUE, ts)},
     {Rec(1, web, FALSE, ip1), Rec(2, shop, TRUE, ip2)}}
DoubledZones == {{Rec(1, web, TRUE, ip1), Rec(2, web, TRUE, ip1)}}

\* Two names for one machine and user; box's ssh_key is the operator's own.
BoxOfDef == home :> vps @@ box :> vps
KeyOfDef == home :> home @@ box :> own

\* The tailnet policy with and without its address, a Host that moved, and one
\* that caches an address it is not reached at.
R(pub, address, prefer) == [pub |-> pub, ts |-> address, prefer |-> prefer]
DeclaredDef ==
    {<< >>, home :> R("p1", "none", FALSE), home :> R("p1", "t1", TRUE) @@ box :> R("p2", "t2", FALSE),
     home :> R("p3", "t1", TRUE) @@ box :> R("p2", "none", TRUE)}
BundledDef == cellar :> "p4"

Parts == {"tailnet", "zone", "keys", "route"}
\* The user there already is u.
AtRest ==
    /\ users[1] = "u"
    /\ part # "tailnet" => nodes = << >> /\ serving = {} /\ fleet[h1].tier = {}
    /\ part # "zone" => zone = {} /\ world = Fleet("", Nowhere, Nowhere)
    /\ part # "route" => declared = << >>
Init == part \in Parts /\ HeadscaleInit /\ DnsInit /\ IdentitiesInit /\ RoutesInit /\ AtRest
Next ==
    \/ part = "tailnet" /\ HeadscaleNext /\ UNCHANGED <<part, DnsVars, IdentityVars, routeVars>>
    \/ part = "zone" /\ DnsNext /\ UNCHANGED <<part, headscaleVars, IdentityVars, routeVars>>
    \/ part = "keys" /\ IdentitiesNext /\ UNCHANGED <<part, headscaleVars, DnsVars, routeVars>>
    \/ part = "route" /\ RoutesNext /\ UNCHANGED <<part, headscaleVars, DnsVars, IdentityVars>>
Spec == Init /\ [][Next]_<<part, headscaleVars, DnsVars, IdentityVars, routeVars>>
=============================================================================
