------------------------------- MODULE Deploy -------------------------------
(***************************************************************************)
(* `auberge deploy`, `ansible run` and `ansible bootstrap`                 *)
(* (commands/deploy.rs, commands/ansible.rs): the names an operator gives  *)
(* become a plan of playbook runs, every run is preflighted against        *)
(* config.toml, ansible-playbook plays it, and a deploy verifies the names *)
(* it published.  Between any two steps the operator may edit config.toml  *)
(* or the roster from another terminal.                                    *)
(***************************************************************************)
EXTENDS Zones, Sequences

CONSTANTS
    Tree,           \* playbook -> its roster of roles
    Metas,          \* the Playbook Metas, by App
    RequiredKeys,   \* the keys each Meta requires
    Configs,        \* what config.toml may hold
    Rosters,        \* what hosts.toml may hold: Host -> [ts, prefer]
    Guards,         \* the roles whose `when:` may hold on the Host
    Demands,        \* the commands an operator may give
    MaxEdits        \* bound: edits of config.toml or hosts.toml

Layered == {"hardening", "infrastructure", "apps"}
NotDeployable == {"bootstrap"}
Standalone == DOMAIN Tree \ Layered
Elements(seq) == {seq[i] : i \in DOMAIN seq}

ASSUME DeployAssumption ==
    /\ Layered \cup NotDeployable \subseteq DOMAIN Tree
    /\ \A p \in DOMAIN Tree : \A r \in Tree[p] :
         r.guarded \in BOOLEAN /\ r.name \in r.tags
    /\ MaxEdits \in Nat
ASSUME AnswersAssumption ==
    /\ Metas \in [Apps -> Meta] /\ Unset \notin ZoneNames
    /\ \A c \in Configs : \A app \in Apps : RequiredKeys[app] \subseteq DOMAIN c.keys

VARIABLES
    config,     \* config.toml
    fleet,      \* hosts.toml
    guards,     \* the roles whose guard holds on the targeted Host
    at,         \* where the command is
    demand,     \* the command: [op, names, playbook, host, check, force, public, via]
    plan,       \* the runs it has resolved: [playbook, tags]
    vars,       \* the config each preflighted run plays with
    lookup,     \* where a deploy asks for tailnet names
    target,     \* the address ansible connects to and the declared one
    agreed,     \* the prompts the operator said yes to
    played,     \* history: plays started, [run, vars, agreed, target]
    verified,   \* history: names found to resolve, [play, app, zone]
    edits

deployVars == <<config, fleet, guards, at, demand, plan, vars, lookup, target,
                agreed, played, verified, edits>>
outside == <<config, fleet, guards, edits>>
command == <<demand, plan, target>>

Nowhere2 == [connect |-> Unset, public |-> Unset]
DeployInit ==
    /\ config \in Configs /\ fleet \in Rosters /\ guards \in Guards
    /\ at = "idle" /\ demand = [op |-> "none"] /\ plan = << >> /\ vars = << >>
    /\ lookup = Unset /\ target = Nowhere2 /\ agreed = {}
    /\ played = << >> /\ verified = {} /\ edits = 0

----------------------------------------------------------------------------
(* From names to runs.                                                      *)

Run(playbook, tags) == [playbook |-> playbook, tags |-> tags]
Roster == {r.name : r \in Tree["apps"]}

\* The tags a layered playbook is run with: those one of its roles carries, and
\* none for infrastructure once an App is asked for.
TagsFor(playbook, asked) ==
    LET carried(p) == {t \in asked : \E r \in Tree[p] : t = r.name \/ t \in r.tags}
    IN IF playbook = "infrastructure" /\ carried("apps") # {} THEN {} ELSE carried(playbook)

\* resolve_tags_to_playbook_runs: the layered runs, in layer order.
LayerRuns(asked) ==
    LET carries(p) == \E t \in asked : \E r \in Tree[p] : t = r.name \/ t \in r.tags
        needed(p) == carries(p) \/ (p = "infrastructure" /\ carries("apps"))
        layer(p) == IF needed(p) THEN <<Run(p, TagsFor(p, asked))>> ELSE << >>
    IN layer("hardening") \o layer("infrastructure") \o layer("apps")
Unresolved(asked) == {t \in asked : LayerRuns({t}) = << >>}

\* standalone_runs: whole playbooks, in the order they were asked for.
WholeRuns(names) == [i \in DOMAIN names |-> Run(names[i], {})]

\* with_substrate: infrastructure ahead of a standalone playbook.
WithSubstrate(runs, whole) ==
    LET has == \E i \in DOMAIN runs : runs[i].playbook = "infrastructure"
    IN IF whole = << >> THEN runs
       ELSE (IF has THEN runs ELSE <<Run("infrastructure", {})>> \o runs) \o whole

\* split_routes, prepend_hardening: a name the roster holds goes through it.
OfRoster(names) == Kept(names, Roster)
Others(names) == Kept(names, Elements(names) \ Roster)
DeployPlan(names) ==
    <<Run("hardening", {})>>
    \o WithSubstrate(LayerRuns(Elements(OfRoster(names))), WholeRuns(Others(names)))

\* split_standalone_redirects: the tags no role carries that are playbooks.
Redirected(names) == Kept(names, Unresolved(Elements(names)) \cap Standalone)
\* run_auto_resolved: the layered runs, then the playbooks.
TaggedPlan(names) == LayerRuns(Elements(names)) \o WholeRuns(Redirected(names))

\* deployable_playbooks, validate_apps.
Deployable == (Standalone \ NotDeployable) \cup Roster

\* menu_targets, menu_items: the roster, then the playbooks it does not hold.
MenuTargets == Roster \cup ((Standalone \ NotDeployable) \ Roster)
WholeRoster == CHOOSE s \in [1..Cardinality(Roster) -> Roster] : Elements(s) = Roster
\* select_apps, resolve_menu_selection, --all: what a deploy is asked for; of the
\* menu's selections, one name or all apps.
Requests(d) ==
    IF d.names # << >> THEN {d.names} ELSE {<<t>> : t \in MenuTargets} \cup {WholeRoster}

\* A demand is of one of the four commands, its names are a list.
ASSUME DemandAssumption ==
    /\ IsFiniteSet(Roster)
    /\ \A d \in Demands :
         /\ "op" \in DOMAIN d /\ d.op \in {"deploy", "run", "single", "bootstrap"}
         /\ d.names \in Seq(Elements(d.names))

----------------------------------------------------------------------------
(* What a run is made of, and what config.toml has to answer for it.        *)

\* Mutant: a role is selected by its name alone.
SelectedByName(playbook, tags) == {r \in Tree[playbook] : tags = {} \/ r.name \in tags}

\* selected_roles: the whole roster, or the roles a tag names.
Selected(playbook, tags) ==
    {r \in Tree[playbook] : tags = {} \/ r.name \in tags \/ r.tags \cap tags # {}}
\* A tag that only one role of the roster carries, or a role's own name.
SinglesOut(playbook, tag, r) ==
    tag = r.name \/ (tag \in r.tags /\ \A q \in Tree[playbook] : tag \in q.tags => q = r)
BehindAGuard(playbook, tags, r) ==
    r.guarded /\ ~\E t \in tags : SinglesOut(playbook, t, r)

\* run_sources: the Metas a run reads, the playbook's own first.
Sources(run) ==
    {[name |-> run.playbook, guarded |-> FALSE]}
    \cup {[name |-> r.name, guarded |-> BehindAGuard(run.playbook, run.tags, r)] :
            r \in Selected(run.playbook, run.tags)}

\* required_keys_for.
KeysFor(run) ==
    UNION {RequiredKeys[s.name] : s \in {x \in Sources(run) : ~x.guarded /\ x.name \in Apps}}

\* validate_required_resolved; flatten_for_ansible resolves every value, the
\* ones a Host overrides too, and one that fails to resolve fails the run.
Fails == "fails"
KeyAnswered(c, key, host) == Says(c.keys[key], host)
Flattens(c, host) ==
    \A key \in DOMAIN c.keys : Fails \notin {c.keys[key][Everywhere], c.keys[key][host]}

\* assert_zones_resolve: who is asked for a Zone, and the answer.
ServesAName(c, s, host) ==
    IF s.guarded THEN ServingGate(c, s.name, host) ELSE PublishesAName(c, Metas, s.name, host)
ZonesResolve(c, run, host) ==
    \A s \in Sources(run) :
        s.name \in Apps /\ ServesAName(c, s, host) =>
            LET zone == EffectiveZone(c, Metas, s.name, host)
            IN zone # Refused /\ Resolves(c, zone, host)

\* assert_host_overrides_known: the Hosts config.toml has a table for.
Overridden(c) ==
    {b \in Boxes :
        \/ \E a \in Apps : {c.sub[a][b], c.place[a][b], c.tail[a][b]} # {Unset}
        \/ \E z \in AllZones : {c.domain[z][b], c.token[z][b]} # {Unset}
        \/ \E k \in DOMAIN c.keys : c.keys[k][b] # Unset
        \/ c.gate[b] # Unset}

\* preflight_for: whether a run may be played on a Host.
Preflighted(c, run, host) ==
    /\ Overridden(c) \subseteq DOMAIN fleet
    /\ NoFleetWideZone(c)
    /\ ZonesResolve(c, run, host)
    /\ ~WalkRefused(c, Metas, host)
    /\ \A key \in KeysFor(run) : KeyAnswered(c, key, host)
    /\ Flattens(c, host)

\* The route: --via where it is given, else prefer_tailnet, and no other address
\* when there is no tailnet address; the declared address stays the public one.
Via(entry) == IF demand'.via # "" THEN demand'.via
              ELSE IF entry.prefer THEN "tailnet" ELSE "public"
Routable(host) == host \in DOMAIN fleet /\ (Via(fleet[host]) = "tailnet" => fleet[host].ts)
Target(host) == [connect |-> <<host, Via(fleet[host])>>, public |-> <<host, "public">>]

----------------------------------------------------------------------------
(* A command.                                                               *)

Goto(place) == at' = place
Ended == {"ok", "refused", "aborted", "failed", "unverified"}

Arrive(d) == at = "idle" /\ UNCHANGED <<outside, vars, lookup, agreed, played, verified>>
Turned(d) == demand' = d /\ Goto("refused") /\ UNCHANGED <<plan, target>>

\* run_deploy, up to its plan: the names, the Host, and a built release of every
\* App whose version is pinned.
GiveDeploy(d) ==
    /\ Arrive(d) /\ d.op = "deploy"
    /\ \E names \in Requests(d) :
         \/ /\ Elements(names) \subseteq Deployable /\ d.host \in DOMAIN fleet
            /\ demand' = [d EXCEPT !.names = names] /\ Routable(d.host)
            /\ target' = Target(d.host) /\ plan' = DeployPlan(names) /\ Goto("preflight")
         \/ Turned([d EXCEPT !.names = names])

\* run_ansible_run, select_or_use_playbook, run_ansible_bootstrap: a tag that
\* resolves to nothing only warns, unless none does: then a playbook is picked.
GiveRun(d) ==
    /\ Arrive(d) /\ d.op # "deploy"
    /\ \/ /\ d.host \in DOMAIN fleet /\ demand' = d /\ Routable(d.host)
          /\ target' = Target(d.host) /\ Goto("load")
          /\ CASE d.op = "run" /\ TaggedPlan(d.names) # << >> -> plan' = TaggedPlan(d.names)
               [] d.op = "run" /\ TaggedPlan(d.names) = << >> ->
                    \E p \in DOMAIN Tree : plan' = <<Run(p, Elements(d.names))>>
               [] d.op = "single" -> plan' = <<Run(d.playbook, Elements(d.names))>>
               [] d.op = "bootstrap" -> plan' = <<Run("bootstrap", {})>>
       \/ (d.host \notin DOMAIN fleet \/ (demand' = d /\ ~Routable(d.host))) /\ Turned(d)

\* run_deploy: config.toml is loaded once and every run is preflighted with it.
PreflightAll ==
    /\ at = "preflight"
    /\ IF \A run \in Elements(plan) : Preflighted(config, run, demand.host)
       THEN vars' = [i \in DOMAIN plan |-> config] /\ Goto("confirm")
       ELSE Goto("refused") /\ UNCHANGED vars
    /\ UNCHANGED <<outside, command, lookup, agreed, played, verified>>

\* confirm_deploy; then the resolver is located in the roster as it is by now.
ConfirmDeploy ==
    /\ at = "confirm"
    /\ \/ Goto("play") /\ lookup' = Resolver(vars[1].gate, {b \in DOMAIN fleet : fleet[b].ts})
       \/ ~demand.force /\ Goto("aborted") /\ UNCHANGED lookup
    /\ UNCHANGED <<outside, command, vars, agreed, played, verified>>

Turn == Len(played) + 1

\* validate_config_for_playbook: `ansible run` loads config.toml for each run.
LoadAndPreflight ==
    /\ at = "load"
    /\ IF Preflighted(config, plan[Turn], demand.host)
       THEN vars' = Append(vars, config) /\ Goto("warn")
       ELSE Goto("refused") /\ UNCHANGED vars
    /\ UNCHANGED <<outside, command, lookup, agreed, played, verified>>

\* confirm_provider_firewall, show_playbook_warnings: what a run is asked about.
Asks(run) ==
    CASE run.playbook = "bootstrap" -> {"firewall"}
      [] run.playbook = "apps" -> {"token", "port 853"}
      [] OTHER -> {}

\* prompt_for_ip, validate_ip: the address a virgin Host is reached at.
Given == [connect |-> "given", public |-> "given"]

\* confirm_or_abort: everything a run asks about is agreed to, or nothing runs.
Confirmed(asked) ==
    \/ Goto("play") /\ agreed' = agreed \cup asked
    \/ asked # {} /\ ~demand.force /\ Goto("aborted") /\ UNCHANGED agreed

\* What comes before the play: the warnings; then `ansible bootstrap` connects to
\* the address it is given or asks for, and is refused without a valid one.
Warn ==
    /\ at = "warn"
    /\ \/ Confirmed(Asks(plan[Turn]))
       \/ demand.op = "bootstrap" /\ Goto("refused") /\ UNCHANGED agreed
    /\ target' = IF demand.op = "bootstrap" THEN Given ELSE target
    /\ UNCHANGED <<outside, demand, plan, vars, lookup, played, verified>>

\* Where a command goes after a run that went well.
NextRun ==
    IF Turn = Len(plan) THEN Goto("ok")
    ELSE Goto(IF demand.op = "deploy" THEN "play" ELSE "load")

Started == Append(played, [run |-> plan[Turn], vars |-> vars[Turn],
                           agreed |-> agreed, target |-> target])
\* run_deploy's loop: a node key that cannot be minted ends it before the play, a
\* failed play after it; a deploy that is no dry run then verifies.
PlayForDeploy ==
    /\ at = "play" /\ demand.op = "deploy"
    /\ \/ played' = Started /\ (IF demand.check THEN NextRun ELSE Goto("verify"))
       \/ played' \in {played, Started} /\ Goto("failed")
    /\ UNCHANGED <<outside, command, vars, lookup, agreed, verified>>
\* run_single_playbook, run_auto_resolved, run_ansible_bootstrap.
PlayForRun ==
    /\ at = "play" /\ demand.op # "deploy"
    /\ \/ played' = Started /\ NextRun
       \/ played' \in {played, Started} /\ Goto("failed")
    /\ UNCHANGED <<outside, command, vars, lookup, agreed, verified>>

\* published_apps: a run's tags, or a standalone playbook's roster.
Published(run) ==
    CASE run.playbook \in {"hardening", "infrastructure"} \/ run = Run("apps", {}) -> {}
      [] run.playbook \notin {"hardening", "infrastructure"} /\ run.tags # {} -> run.tags
      [] OTHER -> {r.name : r \in Tree[run.playbook]}

\* run_dns_checks_for_run: every App of the run is asked for, in its own Zone; a
\* tailnet name without a resolver to ask, or one that does not resolve, fails
\* the deploy after all were asked.
Kind(app) == Verified(vars[1], Metas, app, demand.host, demand.public)
Verify ==
    /\ at = "verify"
    /\ LET i == Len(played)
           asked == {app \in Published(plan[i]) \cap Apps : Kind(app) # "nothing"}
           unaskable == {app \in asked : Kind(app) = "tailnet" /\ lookup = Unset}
       IN \E found \in SUBSET (asked \ unaskable) :
            /\ verified' = verified \cup
                 {[play |-> i, app |-> app, zone |-> VerifiedZone(vars[1], Metas, app, demand.host)] :
                    app \in found}
            /\ CASE found # asked -> Goto("unverified")
                 [] found = asked /\ i = Len(plan) -> Goto("ok")
                 [] OTHER -> Goto("play")
    /\ UNCHANGED <<outside, command, vars, lookup, agreed, played>>

----------------------------------------------------------------------------
(* Meanwhile, in another terminal.                                          *)

EditConfig ==
    /\ at \notin Ended /\ edits < MaxEdits /\ edits' = edits + 1
    /\ config' \in Configs \ {config}
    /\ UNCHANGED <<fleet, guards, at, command, vars, lookup, agreed, played, verified>>
EditRoster ==
    /\ at \notin Ended /\ edits < MaxEdits /\ edits' = edits + 1
    /\ fleet' \in Rosters \ {fleet}
    /\ UNCHANGED <<config, guards, at, command, vars, lookup, agreed, played, verified>>

DeployNext ==
    \/ \E d \in Demands : GiveDeploy(d) \/ GiveRun(d)
    \/ PreflightAll \/ ConfirmDeploy \/ LoadAndPreflight \/ Warn \/ PlayForDeploy \/ PlayForRun \/ Verify
    \/ EditConfig \/ EditRoster
DeploySpec == DeployInit /\ [][DeployNext]_deployVars

----------------------------------------------------------------------------
(* What makes it right.                                                     *)

\* The roles ansible enters: those carrying one of the run's tags, every one
\* without tags, and a guarded one only where its guard holds.
Entered(run) ==
    {r \in Tree[run.playbook] : (run.tags = {} \/ r.tags \cap run.tags # {})
                                /\ (r.guarded => r.name \in guards)}
IsDeploy == demand.op = "deploy"

\* A deploy that is refused has played nothing: one run's missing answer stops
\* the runs before it too (deploy.rs:493, "fail fast").
RefusedIsUntouched == IsDeploy /\ at = "refused" => played = << >>

\* Whatever role a play enters, unless only a guard let it in, its required keys
\* are answered for the Host and the Zone its name is in has both halves, in
\* the config the play was given.
KeysReachTheRoles ==
    \A i \in DOMAIN played :
        LET c == played[i].vars  h == demand.host
        IN \A r \in Entered(played[i].run) :
             r.name \in Apps /\ (~r.guarded \/ r.name \in played[i].run.tags) =>
               /\ \A key \in RequiredKeys[r.name] :
                    Get(c.keys[key], h) \notin {Unset, Blanked, Fails}
               /\ PublishesAName(c, Metas, r.name, h) =>
                    ParentZone(c, Metas, r.name, h) # Unset

\* No App and no standalone playbook is deployed but on a Host that the same
\* deploy hardened and gave its whole infrastructure before.
SubstrateFirst ==
    IsDeploy => \A i \in DOMAIN played :
        played[i].run.playbook \notin {"hardening", "infrastructure"} =>
          \E j, k \in 1..(i - 1) : j < k /\ played[j].run = Run("hardening", {})
                                   /\ played[k].run = Run("infrastructure", {})

\* A deploy that reports success found every tailnet name of every App it
\* entered, in the Zone the App was composed in, whatever happened to
\* config.toml and hosts.toml meanwhile.
SuccessIsVerified ==
    IsDeploy /\ at = "ok" /\ ~demand.check =>
        \A i \in DOMAIN played : \A r \in Entered(played[i].run) :
            LET c == played[i].vars  h == demand.host
                zone == ParentZone(c, Metas, r.name, h)
            IN /\ played[i].run.playbook \notin {"hardening", "infrastructure"}
               /\ r.name \in Apps /\ Says(c.sub[r.name], h) /\ Says(c.tail[r.name], h)
               /\ zone # Unset
               => [play |-> i, app |-> r.name, zone |-> zone] \in verified

\* bootstrap.yml, which can lock the operator out, is never deployed and never
\* played but after the provider firewall was confirmed, by whatever command;
\* to give --force is to confirm it beforehand (confirm_provider_firewall).
BootstrapIsConfirmed ==
    \A i \in DOMAIN played : played[i].run.playbook = "bootstrap" =>
        ~IsDeploy /\ "firewall" \in played[i].agreed
=============================================================================
