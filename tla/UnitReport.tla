----------------------------- MODULE UnitReport -----------------------------
(***************************************************************************)
(* What a failed deploy tells of the units its Apps own                    *)
(* (services/unit_state.rs): after the failure the CLI connects, reads the *)
(* Host's uptime, then one `systemctl show` per manager, and derives a     *)
(* verdict for each unit from its state and from how long ago it started.  *)
(* Time passes between any two of these, and units go on changing.         *)
(***************************************************************************)
EXTENDS Naturals, FiniteSets

CONSTANTS
    Declared,       \* the units each Playbook Meta declares: [name, kind, scope]
    RunTags, RunRoster, \* of the failed run: its tags; its playbook's roles and name
    StartPre,       \* whether a unit has commands to run before its main process
    MaxTime, MaxChanges     \* bounds

Scopes2 == {"system", "user"}
\* qualified_unit_name, owned_units: a bare name is a service.
Qualified(decl) == IF decl.kind = "bare" THEN [decl EXCEPT !.kind = "service"] ELSE decl
\* units_for_run: of every App the run targeted, once each.
Targeted == (IF RunTags = {} THEN RunRoster ELSE RunTags) \cap DOMAIN Declared
Owned == UNION {{Qualified(decl) : decl \in Declared[app]} : app \in Targeted}

ASSUME UnitAssumption ==
    /\ \A u \in Owned : u.kind \in {"service", "timer"} /\ u.scope \in Scopes2
    /\ {MaxTime, MaxChanges} \subseteq Nat
    /\ StartPre \in BOOLEAN

VARIABLES
    now,        \* the time, on the Host's monotonic clock and on the operator's
    unit,       \* what systemd knows of each: [load, active, started], and when the
                \* play last started it, 0 if it did not (played, history)
    phase,      \* of the deploy: playing, probing (failed), then the scopes read
    window,     \* when the play started and how long it took, and the uptime read
    saw,        \* the answers of `systemctl show`: unit -> what it was
    notes,      \* the managers whose probe failed
    changes

unitVars == <<now, unit, phase, window, saw, notes, changes>>

Running == {"active", "auto-restart"}
States == Running \cup {"failed", "inactive"} \cup (IF StartPre THEN {"starting"} ELSE {})
Unit == [load : {"loaded", "not-found"}, active : States, started : 0..MaxTime,
         played : 0..MaxTime]

UnitInit ==
    /\ now = 1 /\ phase = "before" /\ changes = 0
    /\ \E dead \in SUBSET Owned :
         unit = [u \in Owned |-> [load |-> "loaded", started |-> 1, played |-> 0,
                                  active |-> IF u \in dead THEN "inactive" ELSE "active"]]
    /\ window = [start |-> 0, elapsed |-> 0, uptime |-> 0]
    /\ saw = << >> /\ notes = {}

Tick ==
    /\ now < MaxTime /\ phase # "reported" /\ now' = now + 1
    /\ UNCHANGED <<unit, phase, window, saw, notes, changes>>

\* A timer, systemd itself, or a task of the play.  The timestamp systemd shows
\* is of the main process, the last it had.
Change(byPlay) ==
    /\ changes < MaxChanges /\ changes' = changes + 1 /\ phase # "reported"
    /\ byPlay => phase = "playing"
    /\ \E u \in Owned, s \in States :
         unit' = [unit EXCEPT ![u].load = "loaded", ![u].active = s,
                              ![u].started = IF s \in Running THEN now ELSE @,
                              ![u].played = IF byPlay /\ s \in Running \cup {"starting"} THEN now ELSE @]
    /\ UNCHANGED <<now, phase, window, saw, notes>>
Vanish ==
    /\ changes < MaxChanges /\ changes' = changes + 1 /\ phase # "reported"
    /\ \E u \in Owned : unit' = [unit EXCEPT ![u].load = "not-found", ![u].active = "inactive"]
    /\ UNCHANGED <<now, phase, window, saw, notes>>

\* run_deploy: the clock of the play, started before ansible is.
StartPlay ==
    /\ phase = "before" /\ now > 1 /\ phase' = "playing" /\ window' = [window EXCEPT !.start = now]
    /\ UNCHANGED <<now, unit, saw, notes, changes>>
FailPlay ==
    /\ phase = "playing" /\ phase' = "probing"
    /\ window' = [window EXCEPT !.elapsed = now - window.start]
    /\ UNCHANGED <<now, unit, saw, notes, changes>>

\* deploy_failure_unit_report, try_report: a probe that cannot connect, or has no
\* unit to ask for, is one line or none.
Connect ==
    /\ phase = "probing"
    /\ \/ Owned # {} /\ phase' = "connected" /\ UNCHANGED notes
       \/ phase' = "reported" /\ notes' = Scopes2
    /\ UNCHANGED <<now, unit, window, saw, changes>>
\* host_uptime_usec: nothing is classified without it.
ReadUptime ==
    /\ phase = "connected"
    /\ \/ phase' = "system" /\ window' = [window EXCEPT !.uptime = now] /\ UNCHANGED notes
       \/ phase' = "reported" /\ notes' = Scopes2 /\ UNCHANGED window
    /\ UNCHANGED <<now, unit, saw, changes>>

\* What a failed probe of one manager leaves in the report.
Note(scope) == {scope}

\* probe_scope, for one manager after the other; no unit, no command.
OfScope(scope) == {u \in Owned : u.scope = scope}
After(scope) == IF scope = "system" THEN "user" ELSE "reported"
ProbeScope(scope) ==
    /\ phase = scope /\ phase' = After(scope)
    /\ \/ /\ saw' = [u \in DOMAIN saw \cup OfScope(scope) |->
                       IF u \in OfScope(scope) THEN unit[u] ELSE saw[u]]
          /\ UNCHANGED notes
       \/ OfScope(scope) # {} /\ notes' = notes \cup Note(scope) /\ UNCHANGED saw
    /\ UNCHANGED <<now, unit, window, changes>>

UnitNext ==
    \/ Tick \/ (\E byPlay \in BOOLEAN : Change(byPlay)) \/ Vanish \/ StartPlay \/ FailPlay \/ Connect \/ ReadUptime
    \/ \E scope \in Scopes2 : ProbeScope(scope)
UnitSpec == UnitInit /\ [][UnitNext]_unitVars

----------------------------------------------------------------------------
(* The verdicts.                                                            *)

\* has_timer_sibling: the same App's timer, among the units that were probed.
HasTimerSibling(u) ==
    u.kind = "service" /\ \E t \in DOMAIN saw : t.kind = "timer" /\ t.name = u.name

\* Mutant: a unit as old as the play is long has not started within it.
Strictly(started) == window.uptime - started < window.elapsed

\* verdict: whether a unit started within the play, by its age at the uptime read.
StartedMeanwhile(started) ==
    (IF window.uptime > started THEN window.uptime - started ELSE 0) <= window.elapsed

\* verdict.
Verdict(u) ==
    LET s == saw[u]
    IN CASE s.load # "loaded" -> "not found"
         [] s.load = "loaded" /\ s.active = "auto-restart" -> "looping"
         [] s.load = "loaded" /\ s.active = "failed" -> "failed"
         [] s.load = "loaded" /\ s.active = "inactive" /\ HasTimerSibling(u) -> "idle"
         [] s.load = "loaded" /\ s.active = "inactive" /\ ~HasTimerSibling(u) -> "stopped"
         [] OTHER -> IF StartedMeanwhile(s.started) THEN "restarted" ELSE "untouched"

\* render: the untouched and the idle are rolled up, every other unit has a line.
Named2 == {u \in DOMAIN saw : Verdict(u) \notin {"untouched", "idle"}}

----------------------------------------------------------------------------
(* What makes it right.                                                     *)

\* The window the ages are held against is the play's, moved by the time between
\* its end, where the clock of the play is read (deploy.rs:609), and the read of
\* the uptime: the assets are extracted and the connection is made in between.
Delay == window.uptime - (window.start + window.elapsed)
WindowOpens == window.start + Delay

\* The report errs by that delay and no more, whatever it is, and only to one
\* side: a unit the play started is rolled up as untouched only if that was in
\* the first Delay of the play, even when systemd or a timer started it again;
\* and none that last started before the play is said to have restarted in it.
VerdictsErrByTheDelay ==
    phase = "reported" =>
        \A u \in DOMAIN saw :
            /\ Verdict(u) = "untouched" => saw[u].played < WindowOpens
            /\ Verdict(u) = "restarted" => saw[u].started >= window.start

\* What the report prints of the units it rolls up, "active since before this
\* deploy" (unit_state.rs:277): the play has not started them.
UntouchedIsUntouched ==
    phase = "reported" => \A u \in DOMAIN saw : Verdict(u) = "untouched" => saw[u].played = 0

\* A unit is said to be "untouched, active since before this deploy" only when
\* it is active (unit_state.rs:283).  With StartPre it may be in its first
\* commands, and the timestamp is that of the process it had before.
UntouchedIsActive ==
    phase = "reported" => \A u \in DOMAIN saw : Verdict(u) = "untouched" => saw[u].active = "active"

\* Every owned unit that was down when it was asked for has a line of its own,
\* or its manager a note: nothing is missing from the report.  Only a service
\* that a timer fires may be down unmentioned.
NothingIsHidden ==
    phase = "reported" =>
        \A u \in Owned :
            \/ u.scope \in notes
            \/ u \in DOMAIN saw /\ (saw[u].load # "loaded" \/ saw[u].active # "active" =>
                 u \in Named2 \/ (saw[u].active = "inactive" /\ \E t \in Owned :
                                    t.kind = "timer" /\ t.name = u.name))
=============================================================================
