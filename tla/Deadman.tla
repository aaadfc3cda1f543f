------------------------------ MODULE Deadman ------------------------------
(***************************************************************************)
(* The Host side of a quiesce window: the App's systemd units, the         *)
(* transient unit "auberge-deadman-<app>" that guards them, the fire       *)
(* marker it leaves, and the arm commands still travelling to the Host     *)
(* (src/services/backup/deadman.rs, src/services/ssh/transport.rs).        *)
(*                                                                         *)
(* An arm is launched detached: the driver spawns an ssh child and never   *)
(* waits for it.  The Host then runs it as two commands, a disarm and a    *)
(* systemd-run, and other commands may run before, between and after.      *)
(*                                                                         *)
(* Time is a number of ticks left on the timer.  A timer that has run out  *)
(* may still fire late (AccuracySec), so Expire is a step of its own.      *)
(***************************************************************************)
EXTENDS Integers, FiniteSets

CONSTANTS
    NumUnits,      \* the Recipe's systemd_services, in quiesce order: 1..NumUnits
    Timeout,       \* deadman::TIMEOUT, in ticks
    MaxInFlight,   \* bound: arms spawned and not yet executed on the Host
    Detached,      \* FALSE: every arm lands before the driver's next command
    Faults         \* which faults the environment may inject

Units == 1..NumUnits
Operations == {"backup", "restore"}

\* Everything the environment can do to the driver; a configuration picks.
AllFaults == {"crash", "arm_spawn_fails", "arm_lost", "stop_fails",
              "stop_answer_lost", "start_fails", "step_fails",
              "check_answer_lost", "disarm_lost", "refused"}

ASSUME DeadmanAssumption ==
    /\ NumUnits \in Nat \ {0}
    /\ Timeout \in Nat \ {0}
    /\ MaxInFlight \in Nat \ {0}
    /\ Detached \in BOOLEAN
    /\ Faults \subseteq AllFaults

VARIABLES
    active,        \* active[u]: systemd unit u is running
    erred,         \* units whose last stop or start returned an error
    unit,          \* the transient unit: absent, armed (timer) or firing (service)
    left,          \* ticks left on the armed timer
    guards,        \* the operation the transient unit was armed for
    next,          \* the unit the firing service starts next
    marker,        \* the fire marker's operation, or "none"
    sent,          \* sent[o]: arms for o spawned, not yet running on the Host
    replacing,     \* replacing[o]: arms for o between disarm and systemd-run
    unreported     \* history: a fire began that no operator was told of since

hostVars == <<active, erred, unit, left, guards, next, marker, sent, replacing,
              unreported>>
timerVars == <<unit, left, guards, next>>

HostTypeOK ==
    /\ active \in [Units -> BOOLEAN]
    /\ erred \subseteq Units
    /\ unit \in {"absent", "armed", "firing"}
    /\ left \in 0..Timeout
    /\ guards \in Operations
    /\ next \in 1..(NumUnits + 1)
    /\ marker \in Operations \cup {"none"}
    /\ sent \in [Operations -> Nat]
    /\ replacing \in [Operations -> Nat]
    /\ unreported \in BOOLEAN

InFlight == sent["backup"] + sent["restore"]
                + replacing["backup"] + replacing["restore"]

HostInit ==
    /\ active = [u \in Units |-> TRUE]
    /\ erred = {}
    /\ unit = "absent"
    /\ left = 0
    /\ guards = "backup"
    /\ next = 1
    /\ marker = "none"
    /\ sent = [o \in Operations |-> 0]
    /\ replacing = [o \in Operations |-> 0]
    /\ unreported = FALSE

----------------------------------------------------------------------------
(* Commands against the transient unit.  These are conjuncts of the        *)
(* driver's and the Host's actions: each names what it leaves to them.     *)

\* disarm_command: stop both halves of the transient unit, whatever it is
\* doing.  A recovery in progress is cut short without writing its marker.
DisarmUnit ==
    /\ unit' = "absent" /\ left' = 0 /\ next' = 1
    /\ UNCHANGED guards

\* The systemd-run of arm_command; refused while the unit name is taken.
ScheduleUnit(o) ==
    IF unit = "absent"
    THEN unit' = "armed" /\ left' = Timeout /\ guards' = o /\ next' = 1
    ELSE UNCHANGED timerVars

\* Mutant: re-arming without disarming first, so systemd-run is refused.
ArmsWithoutReplacing(o) == ScheduleUnit(o) /\ UNCHANGED <<sent, replacing>>

\* An arm that lands before anything else does: disarm, then systemd-run.
ArmAtOnce(o) ==
    /\ unit' = "armed" /\ left' = Timeout /\ guards' = o /\ next' = 1
    /\ UNCHANGED <<sent, replacing>>

\* run_detached: hand the arm to an ssh child and return.
SpawnArm(o) ==
    IF Detached
    THEN /\ InFlight < MaxInFlight
         /\ sent' = [sent EXCEPT ![o] = @ + 1]
         /\ UNCHANGED <<unit, left, guards, next, replacing>>
    ELSE ArmAtOnce(o)

----------------------------------------------------------------------------
(* Steps of the Host and of the channel.                                   *)

\* An in-flight arm reaches the Host and runs its disarm half.
ArmDisarms(o) ==
    /\ sent[o] > 0
    /\ sent' = [sent EXCEPT ![o] = @ - 1]
    /\ replacing' = [replacing EXCEPT ![o] = @ + 1]
    /\ DisarmUnit
    /\ UNCHANGED <<active, erred, marker, unreported>>

\* ... and then its systemd-run half.
ArmSchedules(o) ==
    /\ replacing[o] > 0
    /\ replacing' = [replacing EXCEPT ![o] = @ - 1]
    /\ ScheduleUnit(o)
    /\ UNCHANGED <<active, erred, marker, sent, unreported>>

\* The ssh child dies before the Host runs anything: no connection, or the
\* terminal's Ctrl-C reached it too.  Nobody waits for it, so nobody knows.
ArmLost(o) ==
    /\ "arm_lost" \in Faults
    /\ sent[o] > 0
    /\ sent' = [sent EXCEPT ![o] = @ - 1]
    /\ UNCHANGED <<active, erred, timerVars, marker, replacing, unreported>>

\* Mutant: the recovery leaves out the first unit.
ExpireSkipsFirst ==
    /\ unit = "armed" /\ left = 0
    /\ unit' = "firing" /\ next' = 2
    /\ unreported' = TRUE
    /\ UNCHANGED <<active, erred, left, guards, marker, sent, replacing>>

\* The timer has run out: the transient service starts.
Expire ==
    /\ unit = "armed"
    /\ left = 0
    /\ unit' = "firing"
    /\ next' = 1
    /\ unreported' = TRUE
    /\ UNCHANGED <<active, erred, left, guards, marker, sent, replacing>>

\* Mutant: the recovery's commands are joined with && and stop at a failure.
RecoverUntilFailure ==
    /\ unit = "firing" /\ next \in Units
    /\ \/ /\ active' = [active EXCEPT ![next] = TRUE]
          /\ erred' = erred \ {next}
          /\ next' = next + 1
          /\ UNCHANGED <<unit, left, guards>>
       \/ /\ "start_fails" \in Faults /\ ~active[next]
          /\ erred' = erred \cup {next}
          /\ DisarmUnit
          /\ UNCHANGED active
    /\ UNCHANGED <<marker, sent, replacing, unreported>>

\* One "reset-failed u; systemctl start u" of the recovery.  The shell goes
\* on to the next unit whether or not this one started.
RecoverUnit ==
    /\ unit = "firing"
    /\ next \in Units
    /\ \/ /\ active' = [active EXCEPT ![next] = TRUE]
          /\ erred' = erred \ {next}
       \/ /\ "start_fails" \in Faults
          /\ ~active[next]
          /\ erred' = erred \cup {next}
          /\ UNCHANGED active
    /\ next' = next + 1
    /\ UNCHANGED <<unit, left, guards, marker, sent, replacing, unreported>>

\* The recovery's last command writes the marker; the service then exits and
\* systemd unloads both halves.
RecordFire ==
    /\ unit = "firing"
    /\ next = NumUnits + 1
    /\ marker' = guards
    /\ DisarmUnit
    /\ UNCHANGED <<active, erred, sent, replacing, unreported>>

HostNext ==
    \/ \E o \in Operations : ArmDisarms(o) \/ ArmSchedules(o) \/ ArmLost(o)
    \/ Expire
    \/ RecoverUnit
    \/ RecordFire
============================================================================
