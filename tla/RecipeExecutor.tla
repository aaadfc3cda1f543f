--------------------------- MODULE RecipeExecutor ---------------------------
(***************************************************************************)
(* RecipeExecutor::backup and RecipeExecutor::restore for one App with at  *)
(* least one service (src/services/backup/executor.rs), run against the    *)
(* Host of module Deadman.  The driver issues one blocking ssh command at  *)
(* a time; pc names the command it is waiting for, or the arm it is about  *)
(* to spawn.  It may die at any point (src/signal.rs exits at once) and be *)
(* run again: only the Host's state survives.                              *)
(***************************************************************************)
EXTENDS Deadman

CONSTANTS
    Recipes,       \* the Recipes an App may have (see Recipe)
    StepMax,       \* ticks one blocking command of a live driver may take
    MaxRuns,       \* bound: executor runs, one after the other
    Allowed        \* the operations runs may be of

\* A Recipe is what of it decides which commands are issued: how many paths it
\* resolves to; whether it has a database (for a restore: and the staged backup
\* a dump); whether it names an owner; whether it has a post_restore_command.
Recipe == [paths : Nat, db : BOOLEAN, owner : BOOLEAN, post : BOOLEAN]

ASSUME ExecutorAssumption ==
    /\ Recipes \subseteq Recipe
    /\ StepMax \in Nat
    /\ MaxRuns \in Nat
    /\ Allowed \subseteq Operations

VARIABLES
    recipe,        \* the App's Recipe
    pc,            \* where the driver is; "idle" when there is no driver
    op,            \* the operation of the run
    i,             \* loop index of the stop, path, chown and start loops
    stopped,       \* `stopped` holds units 1..stopped
    failing,       \* an Err will be returned
    staging,       \* `staging` is Some: a private dir with the dump
    spent,         \* ticks spent on the current command
    outcome,       \* how the last run ended
    runs,          \* runs begun
    warned,        \* this run warned that an arm failed
    told,          \* operations whose fire marker an operator was shown
    died           \* operations whose driver died after arming

driverVars == <<recipe, pc, op, i, stopped, failing, staging, spent, outcome, runs>>
accountVars == <<warned, told, died>>
vars == <<hostVars, driverVars, accountVars>>

ArmPoints == {"arm_first", "arm_dump", "arm_path", "arm_owner", "arm_db",
              "arm_post", "arm_start"}

\* The commands of the closure whose `?` skips to the staging removal.
ClosureSteps == {"mktemp", "dump", "rsync", "fetch", "chown", "send", "replay", "post"}
Commands == ClosureSteps \cup {"fire_check", "stop", "cleanup", "start", "disarm"}

\* The driver's place in the program; the loops index the Recipe's units.
PointTypeOK ==
    /\ pc \in Commands \cup ArmPoints \cup {"idle"}
    /\ i \in Nat \ {0}
    /\ pc \in {"arm_first", "stop", "start"} => i \in Units

DriverTypeOK ==
    /\ recipe \in Recipes
    /\ op \in Operations
    /\ stopped \in 0..NumUnits
    /\ spent \in 0..StepMax
    /\ outcome \in {"none", "running", "ok", "err", "refused", "died"}
    /\ runs \in 0..MaxRuns

AccountTypeOK == told \subseteq Operations /\ died \subseteq Operations

FlagTypeOK == failing \in BOOLEAN /\ staging \in BOOLEAN /\ warned \in BOOLEAN

TypeOK == HostTypeOK /\ PointTypeOK /\ DriverTypeOK /\ AccountTypeOK /\ FlagTypeOK

Init ==
    /\ HostInit
    /\ recipe \in Recipes
    /\ pc = "idle"
    /\ op = "backup"
    /\ i = 1
    /\ stopped = 0
    /\ failing = FALSE
    /\ staging = FALSE
    /\ spent = 0
    /\ outcome = "none"
    /\ runs = 0
    /\ warned = FALSE
    /\ told = {}
    /\ died = {}

----------------------------------------------------------------------------
(* The order of the commands.  Each operator is the point the driver goes  *)
(* to next; a stage the Recipe does not ask for is passed over.            *)

ToStarts(k) == IF k >= 1 THEN "start" ELSE "disarm"
AfterCleanup == "arm_start"
ToCleanup(staged) == IF staged THEN "cleanup" ELSE AfterCleanup
ToPost == IF recipe.post THEN "arm_post" ELSE ToCleanup(staging)
ToDb == IF recipe.db THEN "arm_db" ELSE ToPost
ToOwner(k) == IF recipe.owner /\ k <= recipe.paths THEN "arm_owner" ELSE ToDb
AfterPaths ==
    IF op = "restore" THEN ToOwner(1)
    ELSE IF recipe.db THEN "fetch" ELSE ToCleanup(staging)
ToPaths(k) == IF k <= recipe.paths THEN "arm_path" ELSE AfterPaths
AfterStops == IF op = "backup" THEN "arm_dump" ELSE ToPaths(1)
AfterArm ==
    CASE pc = "arm_first" -> "stop"
      [] pc = "arm_dump"  -> IF recipe.db THEN "mktemp" ELSE ToPaths(1)
      [] pc = "arm_path"  -> "rsync"
      [] pc = "arm_owner" -> "chown"
      [] pc = "arm_db"    -> "mktemp"
      [] pc = "arm_post"  -> "post"
      [] pc = "arm_start" -> ToStarts(stopped)

\* The driver's command returned; it goes to point p with loop index k.
Goto(p, k) == pc' = p /\ i' = k /\ spent' = 0

----------------------------------------------------------------------------
(* The driver.                                                             *)

\* backup or restore is called, and its check before the window passes.
Begin(o) ==
    /\ pc = "idle"
    /\ runs < MaxRuns
    /\ Goto("fire_check", 1)
    /\ op' = o
    /\ runs' = runs + 1
    /\ stopped' = 0 /\ failing' = FALSE /\ staging' = FALSE
    /\ outcome' = "running"
    /\ warned' = FALSE
    /\ UNCHANGED <<hostVars, recipe, told, died>>

\* A backup whose declared paths are not attested, or a postgres restore
\* without a role, returns before anything on the Host changes.
Refuse(o) ==
    /\ "refused" \in Faults
    /\ o = "restore" => recipe.db
    /\ pc = "idle"
    /\ runs < MaxRuns
    /\ op' = o
    /\ runs' = runs + 1
    /\ outcome' = "refused"
    /\ UNCHANGED <<hostVars, recipe, pc, i, stopped, failing, staging, spent, accountVars>>

\* check_and_report: `cat && rm -f`, its own error ignored.
CheckMarker ==
    /\ pc = "fire_check"
    /\ Goto("arm_first", 1)
    /\ \/ /\ marker' = "none"
          /\ told' = told \cup ({marker} \cap Operations)
          /\ unreported' = (unreported /\ marker = "none")
       \/ /\ "check_answer_lost" \in Faults
          /\ marker' \in {marker, "none"}
          /\ UNCHANGED <<told, unreported>>
    /\ UNCHANGED <<active, erred, timerVars, sent, replacing, recipe, op,
                   stopped, failing, staging, outcome, runs, warned, died>>

\* arm_deadman at a step boundary.  Only a child that cannot be launched is
\* reported, and the operation goes on either way.
Arm ==
    /\ pc \in ArmPoints
    /\ Goto(AfterArm, IF pc = "arm_start" \/ pc = "arm_dump" THEN 1 ELSE i)
    /\ \/ /\ SpawnArm(op)
          /\ UNCHANGED warned
       \/ /\ "arm_spawn_fails" \in Faults
          /\ warned' = TRUE
          /\ UNCHANGED <<timerVars, sent, replacing>>
    /\ UNCHANGED <<active, erred, marker, unreported, recipe, op, stopped,
                   failing, staging, outcome, runs, told, died>>

\* systemctl stop returned success.
StopUnit ==
    /\ pc = "stop"
    /\ active' = [active EXCEPT ![i] = FALSE]
    /\ erred' = erred \ {i}
    /\ stopped' = i
    /\ IF i < NumUnits THEN Goto("stop", i + 1) ELSE Goto(AfterStops, 1)
    /\ UNCHANGED <<timerVars, marker, sent, replacing, unreported, recipe, op, failing,
                   staging, outcome, runs, accountVars>>

\* Mutant: a failed stop does not end the run.
StopFailsIgnored ==
    /\ pc = "stop" /\ "stop_fails" \in Faults
    /\ IF i < NumUnits THEN Goto("stop", i + 1) ELSE Goto(AfterStops, 1)
    /\ UNCHANGED <<hostVars, recipe, op, stopped, failing, staging, outcome, runs,
                   accountVars>>

\* systemctl stop returned an error: the units stopped before it are started
\* again, the deadman is disarmed, and the error is returned.  The command
\* may still have stopped the unit when only its answer was lost.
StopFails ==
    /\ pc = "stop"
    /\ \/ "stop_fails" \in Faults /\ UNCHANGED <<active, erred>>
       \/ /\ "stop_answer_lost" \in Faults
          /\ active' = [active EXCEPT ![i] = FALSE]
          /\ erred' = erred \cup {i}
    /\ failing' = TRUE
    /\ Goto(ToStarts(stopped), 1)
    /\ UNCHANGED <<timerVars, marker, sent, replacing, unreported, recipe, op, stopped,
                   staging, outcome, runs, accountVars>>

\* private_dir: mktemp -d on the Host.
MakeStaging ==
    /\ pc = "mktemp"
    /\ staging' = TRUE
    /\ Goto(IF op = "backup" THEN "dump" ELSE "send", 1)
    /\ UNCHANGED <<hostVars, recipe, op, stopped, failing, outcome, runs, accountVars>>

\* pg_dump or mariadb-dump into the staging directory.
Dump ==
    /\ pc = "dump"
    /\ Goto(ToPaths(1), 1)
    /\ UNCHANGED <<hostVars, recipe, op, stopped, failing, staging, outcome,
                   runs, accountVars>>

\* rsync of one path: from the Host for a backup, onto it for a restore.
Rsync ==
    /\ pc = "rsync"
    /\ IF i < recipe.paths THEN Goto("arm_path", i + 1) ELSE Goto(AfterPaths, 1)
    /\ UNCHANGED <<hostVars, recipe, op, stopped, failing, staging, outcome,
                   runs, accountVars>>

\* set_ownership of one restored path.
Chown ==
    /\ pc = "chown"
    /\ IF i < recipe.paths THEN Goto("arm_owner", i + 1) ELSE Goto(ToDb, 1)
    /\ UNCHANGED <<hostVars, recipe, op, stopped, failing, staging, outcome,
                   runs, accountVars>>

\* scp of the dump: off the Host for a backup, onto it for a restore.
CopyDump ==
    /\ pc \in {"fetch", "send"}
    /\ Goto(IF pc = "fetch" THEN ToCleanup(staging) ELSE "replay", 1)
    /\ UNCHANGED <<hostVars, recipe, op, stopped, failing, staging, outcome,
                   runs, accountVars>>

\* pg_restore or mariadb over the dump.
Replay ==
    /\ pc = "replay"
    /\ Goto(ToPost, 1)
    /\ UNCHANGED <<hostVars, recipe, op, stopped, failing, staging, outcome,
                   runs, accountVars>>

\* post_restore_command.
Post ==
    /\ pc = "post"
    /\ Goto(ToCleanup(staging), 1)
    /\ UNCHANGED <<hostVars, recipe, op, stopped, failing, staging, outcome,
                   runs, accountVars>>

\* A command of the closure fails, part of its work done: `?` leaves the
\* closure, and the run goes on to remove_staging and the restart.
StepFails ==
    /\ "step_fails" \in Faults
    /\ pc \in ClosureSteps
    /\ failing' = TRUE
    /\ Goto(ToCleanup(staging), 1)
    /\ UNCHANGED <<hostVars, recipe, op, stopped, staging, outcome, runs,
                   accountVars>>

\* remove_staging, its error ignored.
RemoveStaging ==
    /\ pc = "cleanup"
    /\ staging' = FALSE
    /\ Goto(AfterCleanup, 1)
    /\ UNCHANGED <<hostVars, recipe, op, stopped, failing, outcome, runs, accountVars>>

\* Mutants: the loop ends at a unit that will not start; its error is dropped.
StartUntilFailure ==
    /\ pc = "start"
    /\ \/ /\ active' = [active EXCEPT ![i] = TRUE]
          /\ erred' = erred \ {i}
          /\ IF i < stopped THEN Goto("start", i + 1) ELSE Goto("disarm", 1)
          /\ UNCHANGED failing
       \/ /\ "start_fails" \in Faults
          /\ erred' = erred \cup {i} /\ failing' = TRUE
          /\ Goto("disarm", 1)
          /\ UNCHANGED active
    /\ UNCHANGED <<timerVars, marker, sent, replacing, unreported, recipe, op, stopped,
                   staging, outcome, runs, accountVars>>
StartErrorsDropped ==
    /\ pc = "start"
    /\ \/ active' = [active EXCEPT ![i] = TRUE] /\ erred' = erred \ {i}
       \/ "start_fails" \in Faults /\ erred' = erred \cup {i} /\ UNCHANGED active
    /\ IF i < stopped THEN Goto("start", i + 1) ELSE Goto("disarm", 1)
    /\ UNCHANGED <<timerVars, marker, sent, replacing, unreported, recipe, op, stopped,
                   failing, staging, outcome, runs, accountVars>>

\* restart_all and restart_all_collecting: a unit that will not start fails
\* the run but not the loop.
StartUnit ==
    /\ pc = "start"
    /\ \/ /\ active' = [active EXCEPT ![i] = TRUE]
          /\ erred' = erred \ {i}
          /\ UNCHANGED failing
       \/ /\ "start_fails" \in Faults
          /\ erred' = erred \cup {i}
          /\ failing' = TRUE
          /\ UNCHANGED active
    /\ IF i < stopped THEN Goto("start", i + 1) ELSE Goto("disarm", 1)
    /\ UNCHANGED <<timerVars, marker, sent, replacing, unreported, recipe, op, stopped,
                   staging, outcome, runs, accountVars>>

\* Mutant: no disarm after a run that fails.
DisarmOnlyOnOk ==
    /\ pc = "disarm"
    /\ IF failing THEN UNCHANGED timerVars ELSE DisarmUnit
    /\ Goto("idle", 1)
    /\ outcome' = IF failing THEN "err" ELSE "ok"
    /\ UNCHANGED <<active, erred, marker, sent, replacing, unreported, recipe, op,
                   stopped, failing, staging, runs, accountVars>>

\* The run's disarm, its error ignored, and its return.
Disarm ==
    /\ pc = "disarm"
    /\ \/ DisarmUnit
       \/ "disarm_lost" \in Faults /\ UNCHANGED timerVars
    /\ Goto("idle", 1)
    /\ outcome' = IF failing THEN "err" ELSE "ok"
    /\ UNCHANGED <<active, erred, marker, sent, replacing, unreported, recipe, op,
                   stopped, failing, staging, runs, accountVars>>

\* Ctrl-C, suspend, power loss: the process is gone and restarts nothing.
Crash ==
    /\ "crash" \in Faults
    /\ pc # "idle"
    /\ Goto("idle", 1)
    /\ outcome' = "died"
    /\ died' = IF pc \in {"fire_check", "arm_first"} THEN died ELSE died \cup {op}
    /\ UNCHANGED <<hostVars, recipe, op, stopped, failing, staging, runs,
                   warned, told>>

DriverStep ==
    \/ CheckMarker \/ Arm
    \/ StopUnit \/ StopFails
    \/ MakeStaging \/ Dump \/ Rsync \/ Chown \/ CopyDump \/ Replay \/ Post
    \/ StepFails \/ RemoveStaging
    \/ StartUnit \/ Disarm

\* Time passes on the Host's timer and on the command the driver waits for;
\* StepMax is how long a live driver may have to wait for one command.
Tick ==
    /\ pc \in Commands => spent < StepMax
    /\ pc \notin ArmPoints
    /\ pc \in Commands \/ (unit = "armed" /\ left > 0)
    /\ left' = IF unit = "armed" /\ left > 0 THEN left - 1 ELSE left
    /\ spent' = IF pc \in Commands THEN spent + 1 ELSE spent
    /\ UNCHANGED <<active, erred, unit, guards, next, marker, sent, replacing,
                   unreported, recipe, pc, op, i, stopped, failing, staging, outcome,
                   runs, accountVars>>

Next ==
    \/ \E o \in Allowed : Begin(o) \/ Refuse(o)
    \/ DriverStep
    \/ Crash
    \/ HostNext /\ UNCHANGED <<driverVars, accountVars>>
    \/ Tick

Spec == Init /\ [][Next]_vars

----------------------------------------------------------------------------
(* Safety.                                                                 *)

\* What stands ready on the Host to start unit u although no driver will.
RecoveryPending(u) ==
    \/ unit = "armed"
    \/ unit = "firing" /\ next <= u
    \/ InFlight > 0

\* No unit stays down for good because a driver died: whenever no driver is
\* running, a unit that is down either has a recovery pending, or is one whose
\* own stop or start returned an error (the module comment of deadman.rs).
NeverStranded ==
    pc = "idle" => \A u \in Units : active[u] \/ u \in erred \/ RecoveryPending(u)

\* A run that returned Ok left every unit of the App running, whatever the
\* deadman did meanwhile (executor.rs, the match on the result).
OkMeansUp == pc = "idle" /\ outcome = "ok" => \A u \in Units : active[u]

\* A run that returned, Ok or Err, left running every unit whose own stop or
\* start did not return an error (restart_all on every path of executor.rs).
EveryReturnRestarts ==
    pc = "idle" /\ outcome \in {"ok", "err", "refused"}
        => \A u \in Units : active[u] \/ u \in erred

\* Data is dumped, copied off or overwritten only while every unit is down.
QuiescedCopy == pc \in {"dump", "rsync", "replay"} => \A u \in Units : ~active[u]

\* An operator is told that a backup's or restore's driver died only if one
\* did (fire_warning).
NoFalseAlarm == told \subseteq died

\* The armed timer names the window that is open (deadman::Operation).
GuardNamesWindow ==
    unit = "armed" /\ pc \in Commands \ {"fire_check"} => guards = op

\* Once a run has returned, no timer of its App is armed.
NothingStaysArmed == pc = "idle" /\ outcome \in {"ok", "err"} => unit # "armed"

\* Units are down without a Host-side recovery under a live driver only if
\* the driver warned so (arm_deadman).
UnguardedIsWarned ==
    pc \in ClosureSteps /\ unit = "absent" /\ InFlight = 0 => warned

\* A fire no operator has been told of is still under way or on record in
\* the marker for the next run (fire_warning).
FireIsOnRecord == unreported => unit = "firing" \/ marker # "none"

\* The deadman does not fire on a driver that armed it and is still alive
\* (deadman::TIMEOUT).
LiveDriverNotPresumedDead ==
    [][unit = "armed" /\ unit' = "firing"
            => pc \in {"idle", "fire_check", "arm_first"}]_vars

----------------------------------------------------------------------------
(* Liveness.  The Host's timer and shell run on their own; an ssh child    *)
(* either reaches the Host or is lost; a live driver's command returns.    *)

Fairness ==
    /\ WF_vars(Tick)
    /\ WF_vars(HostNext /\ UNCHANGED <<driverVars, accountVars>>)
    /\ WF_vars(DriverStep)

FairSpec == Spec /\ Fairness

\* A unit that was stopped runs again, or its own stop or start returned an
\* error, however the driver ends.
StoppedUnitsComeBack == \A u \in Units : ~active[u] ~> (active[u] \/ u \in erred)

----------------------------------------------------------------------------
(* The executor and its deadman keep custody of the App's units: while no  *)
(* driver runs, the Host answers for the units it has a recovery for.      *)

Down == {u \in Units : ~active[u]}

AppCustody == INSTANCE Custody WITH
    down <- Down,
    excused <- erred,
    custodian <- IF pc # "idle" THEN "driver"
                 ELSE IF \E u \in Down \ erred : RecoveryPending(u) THEN "host"
                 ELSE "nobody"

\* Every step is a step of Custody or invisible to it: in particular a driver
\* that returns or dies leaves no unit down for which nobody answers.
KeepsCustody == AppCustody!Spec

\* Units the Host answers for come back without a driver (deadman.rs).
HostRecovers == AppCustody!HostKeepsItsWord
============================================================================
