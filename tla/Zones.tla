------------------------------- MODULE Zones --------------------------------
(***************************************************************************)
(* Which DNS zone an App's name lives in, which zones' tokens a Host holds *)
(* and which name a deploy verifies, computed from config.toml and the     *)
(* Playbook Metas (services/zone.rs, services/dns_verify.rs and the        *)
(* discovery of services/dns.rs).  A Zone is the prefix its two config     *)
(* keys share; the fleet's is the unnamed one.                             *)
(***************************************************************************)
EXTENDS Integers, FiniteSets, Sequences

CONSTANTS
    Apps, Boxes,        \* Apps with a Playbook Meta, and the Hosts
    ZoneNames            \* the named zones

Everywhere == "fleet-wide"          \* the top level of config.toml
Scopes == {Everywhere} \cup Boxes
FleetZone == "fleet's zone"
AllZones == {FleetZone} \cup ZoneNames
ASSUME ZonesAssumption == FleetZone \notin ZoneNames

\* An answer of config.toml to one key, per scope: not there, left blank, or a
\* value.
Unset == "unset"
Blanked == "blank"
AnswerTo(values) == [Scopes -> {Unset, Blanked} \cup values]
\* What config.toml answers: <app>_subdomain, <app>_zone and <app>_tailscale_ip,
\* and each zone's domain and token.
Answers == [sub : [Apps -> AnswerTo({"sub"})], place : [Apps -> AnswerTo(ZoneNames)],
            tail : [Apps -> AnswerTo({"ip"})],
            domain : [AllZones -> AnswerTo({"d"})], token : [AllZones -> AnswerTo({"t"})]]
\* A Playbook Meta: the zone it pins its App to ("" for none), tailnet_only, and
\* whether it has a default subdomain.
Meta == [pin : {""} \cup ZoneNames, tailnet : BOOLEAN, named : BOOLEAN]

\* What is chosen of a list, in its order.
Kept(s, chosen) ==
    LET kept[n \in 0 .. Len(s)] ==
            IF n = 0 THEN << >> ELSE IF s[n] \in chosen THEN Append(kept[n - 1], s[n]) ELSE kept[n - 1]
    IN  kept[Len(s)]

\* Config::get_for_host: a Host's own table decides, a blank answer too.
Get(answer, at) == IF answer[at] # Unset THEN answer[at] ELSE answer[Everywhere]
\* gate_answered: a blank value is no answer.
Says(answer, at) == Get(answer, at) \notin {Unset, Blanked}

\* effective_zone: the Meta's pin, else the operator's placement, else the
\* fleet's; a pin refuses a placement.
Refused == "refused"
EffectiveZone(c, metas, app, at) ==
    CASE metas[app].pin # "" /\ Says(c.place[app], at) -> Refused
      [] metas[app].pin # "" /\ ~Says(c.place[app], at) -> metas[app].pin
      [] metas[app].pin = "" /\ Says(c.place[app], at) -> Get(c.place[app], at)
      [] OTHER -> FleetZone

\* resolve: a zone answers with both halves of its pair, or not at all.
Resolves(c, zone, at) == Says(c.domain[zone], at) /\ Says(c.token[zone], at)

\* publishes_a_name and serving_gate_answered.
ServingGate(c, app, at) == Says(c.sub[app], at)
PublishesAName(c, metas, app, at) == metas[app].named \/ ServingGate(c, app, at)

\* placements: the Apps that publish a name on a Host, in a zone that answers
\* there.  One refusal refuses the whole walk.
WalkRefused(c, metas, at) ==
    \E app \in Apps : PublishesAName(c, metas, app, at)
                      /\ EffectiveZone(c, metas, app, at) = Refused
PlacedApps(c, metas, at) ==
    {app \in Apps : /\ PublishesAName(c, metas, app, at)
                    /\ EffectiveZone(c, metas, app, at) # Refused
                    /\ Resolves(c, EffectiveZone(c, metas, app, at), at)}

\* declared_on_host: the serving gate, or the placement, answers for the Host.
DeclaredOnHost(c, at, app) == ServingGate(c, app, at) \/ Says(c.place[app], at)

\* computed_vars: <app>_parent_domain and its token, as the zone they are of,
\* and host_zones.
ParentZone(c, metas, app, at) ==
    IF app \in PlacedApps(c, metas, at) THEN EffectiveZone(c, metas, app, at) ELSE Unset
HostZones(c, metas, at) ==
    {EffectiveZone(c, metas, app, at) :
        app \in {a \in PlacedApps(c, metas, at) :
                   EffectiveZone(c, metas, a, at) = FleetZone \/ DeclaredOnHost(c, at, a)}}

\* assert_no_fleet_wide_zone: <app>_zone is scoped to one Host, a blank one too.
NoFleetWideZone(c) == \A app \in Apps : c.place[app][Everywhere] = Unset

\* Mutant: a walk that reads only the Meta (#952).
PinnedOnly(c, metas, app) == metas[app].pin # ""

\* publication_zone, and the partition of discover_all_subdomains: an App is off
\* the zone a `dns` run holds when its Meta pins it, or any scope places it,
\* elsewhere; tailnet_only is the stronger claim.
PlacedSomewhere(c, metas, app) ==
    metas[app].pin # "" \/ \E at \in Scopes : Says(c.place[app], at)
Named(c, metas, app) == metas[app].named \/ c.sub[app][Everywhere] \notin {Unset, Blanked}
TailnetOnly(c, metas) == {app \in Apps : Named(c, metas, app) /\ metas[app].tailnet}
OffZone(c, metas) ==
    {app \in Apps : Named(c, metas, app) /\ ~metas[app].tailnet
                    /\ PlacedSomewhere(c, metas, app)}
Public(c, metas) ==
    {app \in Apps : Named(c, metas, app)} \ (TailnetOnly(c, metas) \cup OffZone(c, metas))

\* Mutant: only the Meta's pin is read (the bug app_parent_domain had).
PinAlone(c, metas, app, at) ==
    LET zone == IF metas[app].pin # "" THEN metas[app].pin ELSE FleetZone
    IN IF Resolves(c, zone, at) THEN zone ELSE Unset

\* app_parent_domain: the zone a deploy verifies an App's name in.
VerifiedZone(c, metas, app, at) ==
    LET zone == EffectiveZone(c, metas, app, at)
    IN IF zone # Refused /\ Resolves(c, zone, at) THEN zone ELSE Unset

\* app_verify_config: which names a deploy verifies, and where: a tailnet
\* address is asked of Blocky, a public one only on demand.
Verified(c, metas, app, at, public) ==
    LET named == Says(c.sub[app], at) /\ VerifiedZone(c, metas, app, at) # Unset
    IN CASE named /\ Says(c.tail[app], at) -> "tailnet"
         [] named /\ ~Says(c.tail[app], at) /\ public -> "public"
         [] OTHER -> "nothing"

\* TailnetResolver::locate: the one Host whose config answers the Blocky gate,
\* at the tailnet address the roster has cached for it.
Resolver(gate, cached) ==
    LET serving == {b \in Boxes : Says(gate, b)}
    IN IF Cardinality(serving) = 1 /\ serving \subseteq cached
       THEN CHOOSE b \in serving : TRUE ELSE Unset
=============================================================================
