---------------------------- MODULE RestoreSession ----------------------------
(***************************************************************************)
(* `auberge backup restore` beside `backup create`: the staged backups     *)
(* under {backup_root}/{host}/{timestamp}/{app}, the data on the Hosts and *)
(* the emergency backup a cross-host restore takes before it overwrites    *)
(* anything (commands/backup.rs, services/backup/restore.rs).  An App's    *)
(* data is its declared paths, "core", and the paths a Recipe parameter    *)
(* adds, "extra"; what one App's copy does on a Host is RecipeExecutor's.  *)
(***************************************************************************)
EXTENDS Integers, FiniteSets

CONSTANTS
    Sites,              \* the Hosts
    Services,           \* the Apps
    Operators,          \* processes
    MaxCommands,        \* commands begun, and timestamps
    Troubles            \* "copy", "remove", "preflight", "push": a backup, its removal, the
                        \* pre-flight, a push fails; "die": killed in an emergency or plain
                        \* backup; "cut": killed while it restores

ASSUME RestoreAssumption ==
    /\ MaxCommands \in Nat
    /\ Sites \cap {"torn", "absent"} = {} /\ "absent" \notin Services

VARIABLES
    data,               \* what each Host holds of each App
    staged,             \* the staged backups
    begun,              \* commands begun
    op,                 \* each process's command
    waived              \* Hosts restored to without an emergency backup

RestoreVars == <<data, staged, begun, op, waived>>

Parts == {"core", "extra"}
\* A Host's own data is named for it; a copy cut short is torn.
Torn == "torn"
Absent == "absent"
Copy == [Parts -> Sites \cup {Torn, Absent}]
Gone == [x \in Parts |-> Absent]
Dirs == Sites \X (1..MaxCommands)
NoDir == <<>>

Op == [cmd : {"create", "restore", ""},
       phase : {"idle", "validate", "confirm", "backup", "copy", "decide", "apply", "land", "redeploy", "done"},
       host : Sites \cup {Absent}, from : Dirs \cup {NoDir}, plan : SUBSET Services, todo : SUBSET Services,
       app : Services \cup {Absent}, left : SUBSET Parts, into : Dirs \cup {NoDir}, include : BOOLEAN,
       failed : SUBSET Services, emergency : {"not needed", "created", "without"},
       outcome : {"", "created", "restored", "failed", "cancelled", "error"}]
Resting == [cmd |-> "", phase |-> "idle", host |-> Absent, from |-> NoDir,
            plan |-> {}, todo |-> {}, app |-> Absent, left |-> {},
            into |-> NoDir, include |-> FALSE, failed |-> {}, emergency |-> "not needed", outcome |-> ""]

RestoreInit ==
    /\ data = [h \in Sites |-> [a \in Services |-> [x \in Parts |-> h]]]
    /\ staged = [d \in {} |-> [a \in Services |-> Gone]]
    /\ begun = 0
    /\ op = [p \in Operators |-> Resting]
    /\ waived = {}

----------------------------------------------------------------------------
Set(p, o) == op' = [op EXCEPT ![p] = o]
End(p, outcome) == Set(p, [op[p] EXCEPT !.phase = "done", !.outcome = outcome])
Ready(p) == op[p].phase \in {"idle", "done"} /\ begun < MaxCommands
Held(d, a) == IF d \in DOMAIN staged THEN staged[d][a] ELSE Gone
File(d, a, copy) ==
    staged' = [e \in DOMAIN staged \cup {d} |->
                 IF e = d THEN [b \in Services |-> IF b = a THEN copy ELSE Held(d, b)] ELSE staged[e]]

\* backup create: the Apps asked for, with or without the parameter's paths.
BackUp(p) ==
    /\ Ready(p) /\ begun' = begun + 1
    /\ \E h \in Sites, apps \in (SUBSET Services) \ {{}}, include \in BOOLEAN :
         Set(p, [Resting EXCEPT !.cmd = "create", !.phase = "backup", !.host = h, !.todo = apps,
                                !.into = <<h, begun + 1>>, !.include = include])
    /\ UNCHANGED <<data, staged, waived>>

\* resolve_timestamp_dir: "latest" or any other, of the Host itself or of
\* --from-host; an App with nothing staged is left out of the plan.
Restore(p) ==
    /\ Ready(p) /\ begun' = begun + 1
    /\ \E h \in Sites, d \in DOMAIN staged, asked \in (SUBSET Services) \ {{}} :
         LET plan == {a \in asked : staged[d][a] # Gone}
             o == [Resting EXCEPT !.cmd = "restore", !.host = h, !.from = d, !.plan = plan, !.todo = plan]
         IN Set(p, IF plan = {} THEN [o EXCEPT !.phase = "done", !.outcome = "error"]
                   ELSE [o EXCEPT !.phase = IF d[1] # h THEN "validate" ELSE "confirm"])
    /\ UNCHANGED <<data, staged, waived>>

\* validate_cross_host_restore: reachable, every unit there, space; a check of
\* the space that fails only warns.
Validate(p) ==
    /\ op[p].phase = "validate"
    /\ \/ Set(p, [op[p] EXCEPT !.phase = "confirm"])
       \/ "preflight" \in Troubles /\ End(p, "error")
    /\ UNCHANGED <<data, staged, begun, waived>>

\* Mutant: parameter defaults, not those of the backup that comes in.
DefaultParameters(o) == FALSE
\* staged_parameters, over the whole plan: on where any App's copy has it.
StagedParameters(o) == \E a \in o.plan : staged[o.from][a]["extra"] # Absent

\* The dry run ends here too; across Hosts the target's name is typed, and then
\* the emergency backup comes first.
Confirm(p) ==
    /\ op[p].phase = "confirm"
    /\ LET o == op[p]
       IN \/ End(p, "cancelled")
          \/ /\ o.from[1] # o.host
             /\ Set(p, [o EXCEPT !.phase = "backup", !.into = <<o.host, begun>>,
                                 !.include = StagedParameters(o)])
          \/ /\ o.from[1] = o.host
             /\ Set(p, [o EXCEPT !.phase = "apply"])
    /\ UNCHANGED <<data, staged, begun, waived>>

----------------------------------------------------------------------------
(* BackupSession.create, for itself or as the emergency backup.            *)

CopiedOf(o, a) ==
    [x \in Parts |-> IF x = "core" \/ o.include THEN data[o.host][a][x] ELSE Absent]
\* A copy under way: nothing yet, a torn path, or a whole one and a torn one.
Unfinished(o, a) ==
    {Gone, [Gone EXCEPT !["core"] = Torn]}
    \cup (IF o.include THEN {[CopiedOf(o, a) EXCEPT !["extra"] = Torn]} ELSE {})

OpenCopy(p) ==
    /\ op[p].phase = "backup" /\ op[p].todo # {}
    /\ \E a \in op[p].todo : \E copy \in Unfinished(op[p], a) :
         /\ File(op[p].into, a, copy)
         /\ Set(p, [op[p] EXCEPT !.phase = "copy", !.app = a, !.todo = @ \ {a}])
    /\ UNCHANGED <<data, begun, waived>>

CloseCopy(p) ==
    /\ op[p].phase = "copy"
    /\ LET o == op[p]
       IN \/ /\ File(o.into, o.app, CopiedOf(o, o.app))
             /\ Set(p, [o EXCEPT !.phase = "backup"])
          \/ /\ "copy" \in Troubles
             /\ File(o.into, o.app, Gone) \/ ("remove" \in Troubles /\ UNCHANGED staged)
             /\ Set(p, [o EXCEPT !.phase = "backup", !.failed = @ \cup {o.app}])
    /\ UNCHANGED <<data, begun, waived>>

\* emergency_backup: any failed App fails it.
AllBackedUp(o) == o.failed = {}

\* Every App was tried.
Backed(p) ==
    /\ op[p].phase = "backup" /\ op[p].todo = {}
    /\ LET o == op[p]
       IN CASE o.cmd = "create" -> End(p, "created")
            [] o.cmd = "restore" /\ AllBackedUp(o) ->
                 Set(p, [o EXCEPT !.phase = "apply", !.emergency = "created", !.todo = o.plan])
            [] OTHER -> Set(p, [o EXCEPT !.phase = "decide"])
    /\ UNCHANGED <<data, staged, begun, waived>>

\* continue_without_emergency: no, unless the operator says so.
Decide(p) ==
    /\ op[p].phase = "decide"
    /\ \/ End(p, "cancelled") /\ UNCHANGED waived
       \/ /\ Set(p, [op[p] EXCEPT !.phase = "apply", !.emergency = "without", !.todo = op[p].plan])
          /\ waived' = waived \cup {op[p].host}
    /\ UNCHANGED <<data, staged, begun>>

----------------------------------------------------------------------------
(* RecipeExecutor.restore per App: each staged path pushed with --delete.  *)

\* Mutant: the Recipe's parameter defaults choose the paths.
DeclaredPaths(copy) == {"core"}
\* staged_paths: the declared ones, and each optional one that is staged.
StagedPaths(copy) == {"core"} \cup {x \in Parts : copy[x] # Absent}

Write(o, x, value) == data' = [data EXCEPT ![o.host][o.app][x] = value]

\* The next App, or the redeploy once all are in.
Apply(p) ==
    /\ op[p].phase = "apply"
    /\ \/ \E a \in op[p].todo :
            Set(p, [op[p] EXCEPT !.phase = "land", !.app = a, !.todo = @ \ {a},
                                 !.left = StagedPaths(staged[op[p].from][a])])
       \/ op[p].todo = {} /\ Set(p, [op[p] EXCEPT !.phase = "redeploy"])
    /\ UNCHANGED <<data, staged, begun, waived>>

\* A failed App ends the run: no later App, no redeploy.
Stops(o) == [o EXCEPT !.phase = "done", !.outcome = "failed"]

\* A declared path that is not in the backup fails and leaves the Host's alone;
\* a push that fails midway leaves it torn.
Land(p) ==
    /\ op[p].phase = "land"
    /\ LET o == op[p]  copy == staged[o.from][o.app]
           x == IF "core" \in o.left THEN "core" ELSE "extra"
       IN \/ o.left = {} /\ Set(p, [o EXCEPT !.phase = "apply"]) /\ UNCHANGED data
          \/ /\ o.left # {} /\ copy[x] # Absent
             /\ Write(o, x, copy[x]) /\ Set(p, [o EXCEPT !.left = @ \ {x}])
          \/ /\ o.left # {} /\ (copy[x] = Absent \/ "push" \in Troubles)
             /\ \/ UNCHANGED data
                \/ copy[x] # Absent /\ Write(o, x, Torn)
             /\ Set(p, Stops(o))
    /\ UNCHANGED <<staged, begun, waived>>

\* ansible_redeploy: completed, failed or skipped, the restore stands.
Redeploy(p) ==
    /\ op[p].phase = "redeploy" /\ End(p, "restored")
    /\ UNCHANGED <<data, staged, begun, waived>>

\* The process dies; a push it was in leaves the path torn.
Die(p) ==
    /\ \/ "die" \in Troubles /\ op[p].phase \in {"backup", "copy", "decide"} /\ UNCHANGED data
       \/ /\ "cut" \in Troubles /\ op[p].phase \in {"apply", "land", "redeploy"}
          /\ \/ UNCHANGED data
             \/ \E x \in op[p].left : op[p].phase = "land" /\ Write(op[p], x, Torn)
    /\ Set(p, Resting)
    /\ UNCHANGED <<staged, begun, waived>>

RestoreNext ==
    \E p \in Operators :
        \/ BackUp(p) \/ Restore(p) \/ Validate(p) \/ Confirm(p) \/ OpenCopy(p) \/ CloseCopy(p)
        \/ Backed(p) \/ Decide(p) \/ Apply(p) \/ Land(p) \/ Redeploy(p) \/ Die(p)
RestoreSpec == RestoreInit /\ [][RestoreNext]_RestoreVars

----------------------------------------------------------------------------
(* Properties.                                                             *)

\* The variables keep their types.
RestoreTypeOK ==
    /\ data \in [Sites -> [Services -> [Parts -> Sites \cup {Torn}]]]
    /\ DOMAIN staged \subseteq Dirs /\ \A d \in DOMAIN staged : staged[d] \in [Services -> Copy]
    /\ begun \in 0..MaxCommands
    /\ op \in [Operators -> Op]
    /\ waived \subseteq Sites

\* What a Host held before any restore is still on it or whole in a staged
\* backup of that Host, through any sequence of creates, restores and failures
\* of them, unless the operator restored without the emergency backup ("a
\* rollback narrower than the blast radius is not a rollback", ADR-0026).
NothingIsLost ==
    \A h \in Sites \ waived, a \in Services, x \in Parts :
        \/ data[h][a][x] = h
        \/ \E d \in DOMAIN staged : d[1] = h /\ staged[d][a][x] = h

\* A restore reported as such has put every path the staged backup holds of
\* every App of its plan on the Host, as staged (restore.rs `restore`,
\* executor.rs `staged_paths`).
RestoredIsTheBackup ==
    \A p \in Operators : op[p].outcome = "restored" =>
        \A a \in op[p].plan, x \in Parts :
            LET copy == staged[op[p].from][a][x]
            IN copy # Absent => data[op[p].host][a][x] = copy
=============================================================================
