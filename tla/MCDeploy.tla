------------------------------ MODULE MCDeploy ------------------------------
(* A deploy and what it is surrounded by: the config.toml it preflights, the  *)
(* program it runs, and what it reports when a play fails.  A behaviour explores one part of it;  *)
(* the others rest.  The deploy is of a fleet of two Hosts, five playbooks   *)
(* and the Apps they run.                                                    *)
EXTENDS Deploy, Config, UnitReport, FailureDigest, Subprocess, TLC

CONSTANTS web, bot, dash, blocky, box, away, agents

VARIABLE part       \* the part this behaviour explores

Role(n, tags, guarded) == [name |-> n, tags |-> tags \cup {n}, guarded |-> guarded]
\* blocky is guarded by its own gate, bot by a group; dash runs whole and is
\* composed in a Zone of its own.
TreeDef ==
    [p \in {"hardening", "infrastructure", "apps", "bootstrap", "ruche"} |->
        CASE p = "infrastructure" -> {Role(blocky, {"network"}, TRUE), Role("caddy", {"network"}, FALSE)}
          [] p = "apps" -> {Role(web, {"shared"}, FALSE), Role(bot, {"shared"}, TRUE)}
          [] p = "ruche" -> {Role(dash, {}, TRUE)}
          [] OTHER -> {}]
MetasDef ==
    [a \in {web, bot, dash, blocky} |->
        [pin |-> IF a = dash THEN agents ELSE "", tailnet |-> TRUE, named |-> a \in {web, blocky}]]
KeysDef == [a \in {web, bot, dash, blocky} |-> IF a = bot THEN {"bot_token"} ELSE IF a = web THEN {"admin"} ELSE {}]

Off == [s \in Scopes |-> Unset]
On(s, v) == [Off EXCEPT ![s] = v]
All(v) == On(Everywhere, v)
Base ==
    [sub |-> [a \in Apps |-> IF a = web THEN All("sub") ELSE Off],
     place |-> [a \in Apps |-> Off],
     tail |-> [a \in Apps |-> All("ip")],
     domain |-> [z \in AllZones |-> IF z = FleetZone THEN All("d") ELSE Off],
     token |-> [z \in AllZones |-> IF z = FleetZone THEN All("t") ELSE Off],
     keys |-> [k \in {"admin", "bot_token"} |-> All("v")],
     gate |-> On(box, "gate")]
\* The dashboard served on one Host, with its Zone's pair in that Host's table.
Agents == [Base EXCEPT !.sub[dash] = On(box, "sub"), !.domain[agents] = On(box, "d"),
                       !.token[agents] = On(box, "t")]
HalfPair == [Agents EXCEPT !.token[agents] = Off]
Placed == [Agents EXCEPT !.place[web] = On(box, agents)]
NoBotKey == [Agents EXCEPT !.keys["bot_token"] = On(box, Blanked)]
BrokenKey == [Agents EXCEPT !.keys["bot_token"] = On(away, Fails)]
Fleetwide == [Base EXCEPT !.place[web] = All(agents)]
NoAdminKey == [Base EXCEPT !.keys["admin"] = On(box, Blanked)]
ConfigsDef == {Base, NoAdminKey, Agents, HalfPair, Placed, NoBotKey, BrokenKey, Fleetwide}

Entry(ts, prefer) == [ts |-> ts, prefer |-> prefer]
RostersDef == {[b \in {box, away} |-> Entry(TRUE, b = away)], [b \in {box} |-> Entry(TRUE, FALSE)],
               [b \in {box, away} |-> Entry(FALSE, b = away)]}
GuardsDef == {{bot, blocky, dash}, {blocky}}

D(op, names, host) ==
    [op |-> op, names |-> names, playbook |-> "bootstrap", host |-> host,
     check |-> FALSE, force |-> FALSE, public |-> FALSE, via |-> ""]
DemandsDef ==
    {D("deploy", <<web>>, box), D("deploy", <<bot, web>>, box), D("deploy", <<"ruche", web>>, box),
     D("deploy", << >>, box), D("deploy", <<"bootstrap">>, box), D("deploy", <<web>>, away),
     [D("deploy", <<web>>, away) EXCEPT !.via = "public", !.force = TRUE, !.public = TRUE],
     [D("deploy", <<bot>>, box) EXCEPT !.check = TRUE],
     D("run", <<"shared">>, box), D("run", <<bot, "bootstrap">>, box), D("run", <<"network", "nothing">>, box),
     D("run", <<"nothing">>, box), D("single", << >>, box),
     [D("single", <<"shared">>, box) EXCEPT !.playbook = "apps"],
     [D("bootstrap", << >>, box) EXCEPT !.force = TRUE]}

----------------------------------------------------------------------------
(* config.toml.                                                             *)
File1 == [Empty EXCEPT !.top = [k \in Keys |-> "a"], !.other = TRUE]
File2 ==
    [File1 EXCEPT !.header = TRUE, !.top["admin"] = NoKey,
                  !.hosts = (box :> Table([NoAnswers EXCEPT !["admin"] = "!works"])
                             @@ away :> Table([k \in Keys |-> IF k = "admin" THEN "b" ELSE ""]))]
FirstFilesDef == {Absent, File1, File2, [File2 EXCEPT !.hosts[box] = Table([NoAnswers EXCEPT !["admin"] = "!fails"])]}
RequiredDef == {{}, {"admin"}, {"admin", "bot_token"}}

(* What a failed deploy reports of its units.                               *)
U(name, kind, scope) == [name |-> name, kind |-> kind, scope |-> scope]
DeclaredDef == [job |-> {U("job", "bare", "system"), U("job", "timer", "system")},
                bot |-> {U("bot", "service", "user")}, other |-> {U("other", "bare", "system")}]

(* What a program run by the CLI writes: lines of either stream, blank and    *)
(* illegible ones among them, and rsync's progress a byte at a time.         *)
O(u) == <<"out", u>>
X(u) == <<"err", u>>
BytesDef == [1..4 -> {O("x"), O("cr"), O("lf")}] \cup {<<O("x"), X("a"), O("x"), X("b"), O("cr"), O("y")>>}
ScriptsDef == [1..3 -> {O("a"), O("blank"), O("bad"), X("a"), X("b"), X("bad")}]
              \cup {<<X("a"), X("b"), X("a"), X("b")>>, <<X("a"), X("b"), X("a"), O("a")>>} \cup BytesDef

----------------------------------------------------------------------------
restingDeploy ==
    config = Base /\ fleet = [b \in {box} |-> Entry(TRUE, FALSE)] /\ guards = {blocky}
Parts == {"deploy", "config", "units", "digest", "pipe"}
Init ==
    /\ part \in Parts
    /\ DeployInit /\ ConfigInit /\ UnitInit /\ DigestInit /\ SubprocessInit
    /\ part # "deploy" => restingDeploy
    /\ part # "config" => file = Absent
    /\ part # "units" => \A u \in Owned : unit[u].active = "active"
Next ==
    \/ part = "deploy" /\ DeployNext /\ UNCHANGED <<part, configVars, unitVars, digestVars, subprocessVars>>
    \/ part = "config" /\ ConfigNext /\ UNCHANGED <<part, deployVars, unitVars, digestVars, subprocessVars>>
    \/ part = "units" /\ UnitNext /\ UNCHANGED <<part, deployVars, configVars, digestVars, subprocessVars>>
    \/ part = "digest" /\ DigestNext /\ UNCHANGED <<part, deployVars, configVars, unitVars, subprocessVars>>
    \/ part = "pipe" /\ SubprocessNext /\ UNCHANGED <<part, deployVars, configVars, unitVars, digestVars>>
Spec == Init /\ [][Next]_<<part, deployVars, configVars, unitVars, digestVars, subprocessVars>>
=============================================================================
