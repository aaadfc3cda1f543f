---------------------------------- MODULE Dns ----------------------------------
(***************************************************************************)
(* The `auberge dns` commands against the one Cloudflare zone a run holds  *)
(* (commands/dns.rs, services/dns.rs, services/cloudflare_dns.rs).  A      *)
(* record is set in two calls, a listing and then an update by id or a     *)
(* create, and every call may fail, or land with its answer lost; several  *)
(* runs work on the zone at once.                                          *)
(***************************************************************************)
EXTENDS Zones, Sequences
Seqs == INSTANCE SequencesExt

CONSTANTS
    Runs,               \* the `dns` processes
    AppOrder,           \* the Apps, sorted by name
    Targets,            \* public addresses a run may be pointed at
    Tailnet,            \* an address of 100.64.0.0/10
    Worlds,             \* what config.toml and the Metas may say
    FirstZones,         \* what the zone may hold before the first run
    Selections,         \* the --subdomains and --skip a set-all is given
    Commands,           \* the commands the runs choose from
    MaxRecords,         \* records the zone's plan allows
    MaxLosses           \* calls that fail, or whose answer is lost

VARIABLES
    world,              \* the answers and Metas of this fleet
    zone,               \* the records at Cloudflare
    made,               \* records ever created, the source of their ids
    run,                \* each process's run
    losses

DnsVars == <<world, zone, made, run, losses>>

\* DnsRecord: `a` tells an A record from a TXT one at the same name.
Record == [id : 0..MaxRecords, name : Apps, a : BOOLEAN, ip : Targets \cup {Tailnet}]
\* PlannedRecord, and the row migrate keeps of a record it lists.
Planned == [name : Apps, ip : Targets \cup {Tailnet}, id : 0..MaxRecords]
Running == 3
Outcomes == {"", "applied", "cancelled", "nothing", "reported"}
Run == [cmd : Commands \cup {""}, phase : {"idle", "ask", "list", "find", "write", "done"},
        plan : Seq(Planned), todo : Seq(Planned), held : 0..MaxRecords, keepOn : BOOLEAN,
        good : SUBSET Planned, bad : SUBSET Planned, exit : 0..3, outcome : Outcomes,
        alone : BOOLEAN]
\* Ids are the zone's own, the newest the highest.
ASSUME DnsAssumption ==
    /\ MaxRecords \in Nat /\ Tailnet \notin Targets /\ AppOrder \in Seq(Apps)
    /\ \A c \in Selections : c.named \subseteq Apps
    /\ \A z \in FirstZones :
         /\ z \subseteq Record /\ IsFiniteSet(z)
         /\ \A r \in z : r.id \in 1..Cardinality(z)
         /\ \A x, y \in z : x.id = y.id => x = y
Idle == [cmd |-> "", phase |-> "idle", plan |-> <<>>, todo |-> <<>>, held |-> 0,
         keepOn |-> FALSE, good |-> {}, bad |-> {}, exit |-> Running, outcome |-> "",
         alone |-> TRUE]

DnsInit ==
    /\ world \in Worlds
    /\ zone \in FirstZones
    /\ made = Cardinality(zone)
    /\ run = [p \in Runs |-> Idle]
    /\ losses = 0

----------------------------------------------------------------------------
(* What a run decides.                                                     *)

\* effective address: <app>_tailscale_ip where the top level answers it.
AddressOf(app, target) ==
    IF world.config.tail[app][Everywhere] \notin {Unset, Blanked} THEN Tailnet ELSE target

\* plan_set_all: what is scheduled, in App order.
InOrder(chosen) == Kept(AppOrder, chosen)
PlanOf(chosen, target) ==
    LET apps == InOrder(chosen)
    IN [i \in DOMAIN apps |-> [name |-> apps[i], ip |-> AddressOf(apps[i], target), id |-> 0]]
\* Naming an App that cannot be written here is an error, before any call.
Offended(named) ==
    named \cap (TailnetOnly(world.config, world.metas) \cup OffZone(world.config, world.metas)) # {}
Selected(named, skip) ==
    (IF named = {} THEN Public(world.config, world.metas)
     ELSE named \cap Public(world.config, world.metas)) \ skip

\* Mutant: what was created is what the run is judged by.
CreatedDecides(r) == IF r.good # {} THEN 0 ELSE 1
\* set_all_exit_code
SetAllExit(r) == IF r.bad = {} THEN 0 ELSE 1

Finished(r) ==
    [r EXCEPT !.phase = "done", !.outcome = "applied", !.held = 0,
              !.exit = CASE r.cmd = "set-all" -> SetAllExit(r)
                         [] r.cmd = "migrate" -> 0
                         [] OTHER -> IF r.bad = {} THEN 0 ELSE 1]
Failed(r, code) == [r EXCEPT !.phase = "done", !.exit = code]

\* apply_set_all and migrate_all after one write: set-all stops at the first
\* failure unless told to go on, migrate always goes on.
After(r, ok) ==
    LET done == Head(r.todo)
        kept == [r EXCEPT !.todo = Tail(r.todo), !.held = 0, !.phase = "find",
                          !.good = IF ok THEN @ \cup {done} ELSE @,
                          !.bad = IF ok THEN @ ELSE @ \cup {done}]
    IN IF kept.todo = <<>> \/ (~ok /\ r.cmd # "migrate" /\ ~r.keepOn)
       THEN Finished(kept) ELSE kept

----------------------------------------------------------------------------
(* Starting a run: `connect` may fail, and then nothing was touched.       *)

Began(p, r) ==
    /\ run[p].phase = "idle"
    /\ run' = [run EXCEPT ![p] = [r EXCEPT !.alone = \A q \in Runs \ {p} : run[q].phase \in {"idle", "done"}]]
    /\ UNCHANGED <<world, zone, made, losses>>

Unconnected(p) ==
    /\ losses < MaxLosses
    /\ run[p].phase = "idle"
    /\ \E cmd \in Commands :
         run' = [run EXCEPT ![p] = Failed([Idle EXCEPT !.cmd = cmd],
                                          IF cmd = "set-all" THEN 2 ELSE 1)]
    /\ losses' = losses + 1
    /\ UNCHANGED <<world, zone, made>>

\* set_all: an error, nothing to create, or a plan and the question.
SetAll(p) ==
    /\ "set-all" \in Commands
    /\ \E target \in Targets, choice \in Selections, keepOn, dry \in BOOLEAN :
        LET start == [Idle EXCEPT !.cmd = "set-all", !.keepOn = keepOn]
            plan == PlanOf(Selected(choice.named, choice.skip), target)
        IN Began(p, IF Offended(choice.named \ choice.skip) THEN Failed(start, 2)
                    ELSE IF plan = <<>> \/ dry
                    THEN [start EXCEPT !.phase = "done", !.exit = 0, !.outcome = "nothing"]
                    ELSE [start EXCEPT !.phase = "ask", !.plan = plan])

\* run_dns_set and run_dns_delete name one subdomain.
SetOne(p) ==
    /\ "set" \in Commands
    /\ \E name \in Apps, ip \in Targets :
        LET plan == <<[name |-> name, ip |-> ip, id |-> 0]>>
        IN Began(p, [Idle EXCEPT !.cmd = "set", !.phase = "find", !.plan = plan, !.todo = plan])
\* A deletion asks first, unless it only says what it would delete.
Delete(p) ==
    /\ "delete" \in Commands
    /\ \E name \in Apps, dry \in BOOLEAN :
        LET start == [Idle EXCEPT !.cmd = "delete",
                                  !.plan = <<[name |-> name, ip |-> Tailnet, id |-> 0]>>]
        IN Began(p, IF dry THEN [start EXCEPT !.phase = "done", !.exit = 0, !.outcome = "nothing"]
                    ELSE [start EXCEPT !.phase = "ask"])

\* confirm, and confirm_typed for a production deletion.
Answer(p) ==
    /\ run[p].phase = "ask"
    /\ \E yes \in BOOLEAN :
        run' = [run EXCEPT ![p] =
                  IF yes THEN [@ EXCEPT !.phase = "find", !.todo = run[p].plan]
                  ELSE [@ EXCEPT !.phase = "done", !.exit = 0, !.outcome = "cancelled"]]
    /\ UNCHANGED <<world, zone, made, losses>>

\* run_dns_migrate: no question; the plan is what the listing shows.
Migrate(p) ==
    /\ "migrate" \in Commands
    /\ \E target \in Targets :
        Began(p, [Idle EXCEPT !.cmd = "migrate", !.phase = "list",
                              !.plan = <<[name |-> AppOrder[1], ip |-> target, id |-> 0]>>])

\* migrate_all: the A records that hold no tailnet address.
Movable(r) == r.a /\ r.ip # Tailnet

List(p) ==
    /\ run[p].phase = "list"
    /\ LET rows == Seqs!SetToSortSeq({r \in zone : Movable(r)}, LAMBDA x, y : x.id < y.id)
           plan == [i \in DOMAIN rows |->
                     [name |-> rows[i].name, ip |-> run[p].plan[1].ip, id |-> rows[i].id]]
       IN run' = [run EXCEPT ![p] =
                    IF plan = <<>> THEN Finished([@ EXCEPT !.plan = <<>>])
                    ELSE [@ EXCEPT !.plan = plan, !.todo = plan, !.phase = "find"]]
    /\ UNCHANGED <<world, zone, made, losses>>

\* status: one listing, compared with the configured names and the roster.  It
\* writes nothing, and no later step reads what it reports or that it failed.
Status(p) ==
    /\ "status" \in Commands
    /\ Began(p, [Idle EXCEPT !.cmd = "status", !.phase = "done", !.exit = 0, !.outcome = "reported"])

----------------------------------------------------------------------------
(* One record: find it, then write it.                                     *)

\* find_a_record: the A records at the name; the listing's order is the API's.
Candidates(name, ip) == {r \in zone : r.name = name /\ r.a}

Find(p) ==
    /\ run[p].phase = "find"
    /\ LET want == Head(run[p].todo)
           found == Candidates(want.name, want.ip)
       IN \/ /\ found # {}
             /\ \E r \in found :
                  run' = [run EXCEPT ![p].held = r.id, ![p].phase = "write"]
             /\ UNCHANGED losses
          \/ /\ found = {}
             /\ run' = [run EXCEPT ![p] =
                          IF @.cmd = "delete" THEN Finished([@ EXCEPT !.todo = <<>>])
                          ELSE [@ EXCEPT !.phase = "write"]]
             /\ UNCHANGED losses
          \/ /\ losses < MaxLosses
             /\ losses' = losses + 1
             /\ run' = [run EXCEPT ![p] = After(@, FALSE)]
    /\ UNCHANGED <<world, zone, made>>

\* The request as Cloudflare carries it out: an id that is gone, and a record
\* too many, are errors.
Carried(p) ==
    LET want == Head(run[p].todo)
        held == {r \in zone : r.id = run[p].held}
    IN CASE run[p].held # 0 /\ held = {} -> [ok |-> FALSE, zone |-> zone, made |-> made]
         [] run[p].held = 0 /\ made = MaxRecords -> [ok |-> FALSE, zone |-> zone, made |-> made]
         [] run[p].held = 0 /\ made # MaxRecords ->
              [ok |-> TRUE, made |-> made + 1,
               zone |-> zone \cup {[id |-> made + 1, name |-> want.name, a |-> TRUE, ip |-> want.ip]}]
         [] held # {} /\ run[p].held # 0 /\ run[p].cmd = "delete" -> [ok |-> TRUE, made |-> made, zone |-> zone \ held]
         [] OTHER ->
              [ok |-> TRUE, made |-> made,
               zone |-> (zone \ held) \cup {[r EXCEPT !.ip = want.ip] : r \in held}]

\* set_a_record and delete_a_record: the second call.
Write(p) ==
    /\ run[p].phase = "write"
    /\ \E sent, heard \in BOOLEAN :
        /\ heard => sent
        /\ (~heard => losses < MaxLosses)
        /\ losses' = IF heard THEN losses ELSE losses + 1
        /\ IF sent THEN zone' = Carried(p).zone /\ made' = Carried(p).made
           ELSE UNCHANGED <<zone, made>>
        /\ run' = [q \in Runs |->
                    IF q = p THEN After(run[p], heard /\ Carried(p).ok)
                    ELSE [run[q] EXCEPT !.alone = @ /\ (~sent \/ run[q].phase \in {"idle", "done"})]]
    /\ UNCHANGED world

DnsStep(p) ==
    \/ Unconnected(p) \/ SetAll(p) \/ SetOne(p) \/ Delete(p) \/ Answer(p) \/ Migrate(p)
    \/ List(p) \/ Status(p) \/ Find(p) \/ Write(p)
DnsNext == \E p \in Runs : DnsStep(p)
DnsSpec == DnsInit /\ [][DnsNext]_DnsVars

----------------------------------------------------------------------------
(* Properties.                                                             *)

\* The variables keep their types.
DnsTypeOK ==
    /\ world \in Worlds
    /\ zone \subseteq Record
    /\ made \in 0..MaxRecords
    /\ run \in [Runs -> Run]
    /\ losses \in 0..MaxLosses

\* No bulk run writes the fleet zone's record for an App some Host's deploy
\* publishes in another zone, nor for a tailnet-only App: the partition of
\* discover_all_subdomains, read without a Host, against effective_zone, which
\* a deploy reads with one (#952, ADR-0003, ADR-0081).
BulkStaysInItsZone ==
    \A p \in Runs : run[p].cmd = "set-all" =>
        \A i \in DOMAIN run[p].plan :
            LET app == run[p].plan[i].name
            IN /\ ~world.metas[app].tailnet
               /\ \A at \in Boxes :
                    EffectiveZone(world.config, world.metas, app, at) \notin ZoneNames

\* A set-all that exits 0 after writing leaves every name of its plan at its
\* address, unless another run wrote in the meantime (apply_set_all and
\* set_all_exit_code: a lost answer or an abandoned record is never a success).
SuccessIsPublished ==
    [][\A p \in Runs :
        (/\ run[p].phase # "done" /\ run'[p].phase = "done" /\ run'[p].alone
         /\ run'[p].cmd = "set-all" /\ run'[p].outcome = "applied" /\ run'[p].exit = 0)
        => \A i \in DOMAIN run[p].plan :
             \E r \in zone' : r.a /\ r.name = run[p].plan[i].name /\ r.ip = run[p].plan[i].ip]_DnsVars

\* A name gets a second A record only from two runs at once: a run repeated
\* after a failed or unheard write finds what the first one left.
OneRecordPerName ==
    [][\A p \in Runs, r \in zone' \ zone :
        (DnsStep(p) /\ r.id \notin {x.id : x \in zone} /\ run[p].alone)
        => ~\E x \in zone : x.a /\ x.name = r.name]_DnsVars

\* While no other run writes and no name is doubled, migrate adds no record and
\* moves none that holds a tailnet address (migrate.md: "Updates only existing
\* A records"; migrate_all).
MigrateOnlyRepoints ==
    [][\A p \in Runs :
        (/\ run[p].cmd = "migrate" /\ run[p].phase = "write" /\ run'[p].phase # "write" /\ run[p].alone
         /\ \A x, y \in zone : x.a /\ y.a /\ x.name = y.name => x = y)
        => \A r \in zone' \ zone :
             \E x \in zone : x.id = r.id /\ x.a /\ x.ip # Tailnet]_DnsVars

\* "Repoint every existing Cloudflare A record": a record migrate reports moved
\* holds the new address when it ends, unless another run wrote meanwhile.
MigratedMeansMoved ==
    \A p \in Runs :
        (run[p].cmd = "migrate" /\ run[p].phase = "done" /\ run[p].alone)
        => \A g \in run[p].good, r \in zone : r.id = g.id => r.ip = g.ip
=============================================================================
