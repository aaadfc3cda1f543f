------------------------------- MODULE Config -------------------------------
(***************************************************************************)
(* config.toml (config.rs, commands/config_cmd.rs, key_registry.rs):       *)
(* fleet-wide answers, one override table for each Host under [hosts], and *)
(* other tables.  A command loads the file, may prompt, changes its copy   *)
(* and writes the whole copy back; a run's preflight reads the file once.  *)
(* The write truncates the file before it fills it.                        *)
(***************************************************************************)
EXTENDS Naturals

CONSTANTS
    Commands,       \* processes that read or change the file
    Keys,           \* the Key Registry
    Names,          \* Hosts that may have a table
    Required,       \* the keys a run may require
    FirstFiles,     \* config.toml to begin with
    Alone,          \* whether no other command or editor runs during a change
    MaxCommands     \* bound: commands and edits

NoKey == "no key"
NoTable == [table |-> "none"]
Texts == {"", "a", "b", "!works", "!fails"}
Answer == Texts \cup {NoKey}
NoAnswers == [k \in Keys |-> NoKey]
Table(answers) == [table |-> "there", of |-> answers]
Tables == {NoTable} \cup {Table(answers) : answers \in [Keys -> Answer]}
\* A parsed file: the top level, the [hosts] table, the tables of other names.
Empty == [top |-> NoAnswers, hosts |-> [n \in Names |-> NoTable], header |-> FALSE, other |-> FALSE]
File == [top : [Keys -> Answer], hosts : [Names -> Tables], header : BOOLEAN, other : BOOLEAN]
Absent == [top |-> "absent"]

ASSUME ConfigAssumption ==
    /\ FirstFiles \subseteq File \cup {Absent} /\ Required \subseteq SUBSET Keys
    /\ Alone \in BOOLEAN /\ MaxCommands \in Nat

VARIABLES
    file,       \* config.toml
    cmd,        \* what each process does: [op, key, on, value]
    step,       \* where it is
    copy,       \* the table it loaded
    before,     \* history: the file as it was when its save began
    preflights, \* history: what a preflight validated and what it flattened
    started

configVars == <<file, cmd, step, copy, before, preflights, started>>
Fleet == "fleet"            \* the top level
Places == {Fleet} \cup Names
NoCommand == [op |-> "none"]

ConfigInit ==
    /\ file \in FirstFiles
    /\ cmd = [p \in Commands |-> NoCommand] /\ step = [p \in Commands |-> "idle"]
    /\ copy = [p \in Commands |-> Empty] /\ before = [p \in Commands |-> Empty]
    /\ preflights = {} /\ started = 0

----------------------------------------------------------------------------
(* What the file says.                                                      *)

Overrides(f, n, key) == f.hosts[n] # NoTable /\ f.hosts[n].of[key] # NoKey
\* Config::get, for a key as `config get` names it.
GetKey(f, on, key) ==
    IF on = Fleet THEN f.top[key]
    ELSE IF f.hosts[on] = NoTable THEN NoKey ELSE f.hosts[on].of[key]
\* Config::effective, get_for_host.
Effective(f, n, key) == IF Overrides(f, n, key) THEN f.hosts[n].of[key] ELSE f.top[key]
\* resolve_value: a `!` value is what its command prints; a blank output fails.
Resolve(text) == IF text = "!works" THEN "a" ELSE text
Broken(text) == text = "!fails"

\* Mutant: what is in a Host's table is given only where the fleet has no answer.
FleetOverHost(f, n) ==
    [k \in Keys |-> Resolve(IF f.top[k] # NoKey THEN f.top[k] ELSE GetKey(f, n, k))]

\* flatten_for_ansible: the top level, with the Host's table laid over it.
Flattened(f, n) ==
    LET top == [k \in Keys |-> Resolve(f.top[k])]
    IN IF f.hosts[n] = NoTable THEN top
       ELSE [k \in Keys |-> IF f.hosts[n].of[k] # NoKey THEN Resolve(f.hosts[n].of[k]) ELSE top[k]]
FlattenFails(f, n) == \E k \in Keys : Broken(f.top[k]) \/ Broken(GetKey(f, n, k))
\* validate_required, validate_required_resolved.
Missing(f, n, keys) == {k \in keys : Effective(f, n, k) \in {NoKey, ""}}
ResolveFails(f, n, keys) == \E k \in keys : Broken(Effective(f, n, k))

----------------------------------------------------------------------------
(* What a change makes of it.                                               *)

SetKey(f, on, key, text) ==
    IF on = Fleet THEN [f EXCEPT !.top[key] = text]
    ELSE LET answers == IF f.hosts[on] = NoTable THEN NoAnswers ELSE f.hosts[on].of
         IN [f EXCEPT !.header = TRUE, !.hosts[on] = Table([answers EXCEPT ![key] = text])]

\* Mutant: [hosts] goes with the first table that is emptied.
DropHeader(f, on) ==
    IF f.hosts[on] = Table(NoAnswers)
    THEN [f EXCEPT !.hosts = [n \in Names |-> NoTable], !.header = FALSE] ELSE f

\* remove_host_key: the table it emptied goes, and [hosts] with the last table.
Swept(f, on) ==
    LET left == [f.hosts EXCEPT ![on] = IF @ = Table(NoAnswers) THEN NoTable ELSE @]
    IN [f EXCEPT !.hosts = left, !.header = \E n \in Names : left[n] # NoTable]
RemoveKey(f, on, key) ==
    IF on = Fleet THEN [f EXCEPT !.top[key] = NoKey]
    ELSE Swept([f EXCEPT !.hosts[on].of[key] = NoKey], on)
\* rename_host_overrides.
Renamed(f, old, new) == [f EXCEPT !.hosts[new] = f.hosts[old], !.hosts[old] = NoTable]

Changes ==
    [op : {"set"}, on : Places, key : Keys, value : Texts \ {"!fails"}]
    \cup [op : {"remove"}, on : Places, key : Keys]
    \cup {c \in [op : {"rename"}, on : Names, new : Names] : c.on # c.new}
    \cup [op : {"bare"}]        \* a reserved or a nested key: `hosts`, `a.b`
\* `remove` and `rename` may find nothing to do, and a rename both tables.
Applies(f, c) ==
    CASE c.op = "set" -> TRUE
      [] c.op = "remove" -> GetKey(f, c.on, c.key) # NoKey
      [] c.op = "rename" -> f.hosts[c.on] # NoTable /\ f.hosts[c.new] = NoTable
      [] OTHER -> FALSE
Changed(f, c) ==
    CASE c.op = "set" -> SetKey(f, c.on, c.key, c.value)
      [] c.op = "remove" -> RemoveKey(f, c.on, c.key)
      [] c.op = "rename" -> Renamed(f, c.on, c.new)

----------------------------------------------------------------------------
(* The commands.                                                            *)

Busy == \E p \in Commands : step[p] # "idle"
Free(p) == step[p] = "idle" /\ started < MaxCommands /\ (Alone => ~Busy) /\ started' = started + 1
Become(p, where) == step' = [step EXCEPT ![p] = where]
Quiet == UNCHANGED <<before, preflights>>

\* run_config_set, run_config_remove, host exit-node, host rename: load, and
\* then ask or go to the Host.  Without a file there is nothing to load.
LoadConfig(p, c) ==
    /\ Free(p) /\ cmd' = [cmd EXCEPT ![p] = c]
    /\ IF file = Absent THEN Become(p, "idle") /\ UNCHANGED copy
       ELSE Become(p, "loaded") /\ copy' = [copy EXCEPT ![p] = file]
    /\ UNCHANGED file /\ Quiet
\* Config::set, remove, rename_host_overrides up to their save, which opens the
\* file; or the command ends without one.
Truncate(p) ==
    /\ step[p] = "loaded"
    /\ IF Applies(copy[p], cmd[p])
       THEN /\ Become(p, "saving") /\ file' = Empty
            /\ before' = [before EXCEPT ![p] = file]
            /\ copy' = [copy EXCEPT ![p] = Changed(copy[p], cmd[p])]
       ELSE Become(p, "idle") /\ UNCHANGED <<file, before, copy>>
    /\ UNCHANGED <<cmd, preflights, started>>
Save(p) ==
    /\ step[p] = "saving" /\ file' = copy[p] /\ Become(p, "saved")
    /\ UNCHANGED <<cmd, copy, started>> /\ Quiet
End(p) == step[p] = "saved" /\ Become(p, "idle") /\ UNCHANGED <<file, cmd, copy, started>> /\ Quiet

\* run_config_init, build_scaffold, write_scaffold: a blank for every key, or for
\* those that playbooks require, over a file only when forced.
InitScaffold(p, keys, force) ==
    /\ Free(p) /\ (file = Absent \/ force)
    /\ file' = [Empty EXCEPT !.top = [k \in Keys |-> IF k \in keys THEN "" ELSE NoKey]]
    /\ UNCHANGED <<cmd, step, copy>> /\ Quiet
\* run_config_edit: an editor on a file that is there.
EditFile(f) ==
    /\ file # Absent /\ started < MaxCommands /\ (Alone => ~Busy) /\ started' = started + 1
    /\ file' = f /\ f # Absent /\ UNCHANGED <<cmd, step, copy>> /\ Quiet

\* preflight_with_keys: the keys a run requires are validated, then everything
\* is resolved and flattened.
Preflight(p, n, keys) ==
    /\ Free(p) /\ file # Absent
    /\ preflights' = IF Missing(file, n, keys) = {} /\ ~ResolveFails(file, n, keys)
                        /\ ~FlattenFails(file, n)
                     THEN {[of |-> file, host |-> n, keys |-> keys, vars |-> Flattened(file, n)]}
                     ELSE {}
    /\ UNCHANGED <<file, cmd, step, copy, before>>

ConfigNext ==
    \/ \E p \in Commands :
         \/ \E c \in Changes : LoadConfig(p, c)
         \/ Truncate(p) \/ Save(p) \/ End(p)
         \/ \E keys \in Required \cup {Keys}, force \in BOOLEAN : InitScaffold(p, keys, force)
         \/ \E n \in Names, keys \in Required : Preflight(p, n, keys)
    \/ \E f \in FirstFiles : EditFile(f)
ConfigSpec == ConfigInit /\ [][ConfigNext]_configVars

----------------------------------------------------------------------------
(* What makes it right.                                                     *)

\* The answers that two files give differently.
Differ(f, g) == {x \in Places \X Keys : GetKey(f, x[1], x[2]) # GetKey(g, x[1], x[2])}
Touched(c) == IF c.op = "rename" THEN {c.on, c.new} \X Keys ELSE {<<c.on, c.key>>}

\* A save changes the answer its command is about and leaves every other answer
\* and table as the file had it when the save began: no answer given meanwhile
\* is lost and none comes back.
SaveTouchesOnlyItsKey ==
    \A p \in Commands : step[p] = "saved" =>
        /\ Differ(before[p], file) \subseteq Touched(cmd[p])
        /\ before[p].other = file.other

\* No command leaves [hosts] or a Host's table without an answer, which would
\* name a Host that preflight then looks for in the roster.
Bare(f) == (f.header /\ \A n \in Names : f.hosts[n] = NoTable)
           \/ \E n \in Names : f.hosts[n] = Table(NoAnswers)
NoBareTable ==
    \A p \in Commands : step[p] = "saved" => (Bare(file) => Bare(before[p]))

\* What a play is given for a key is what the CLI's own gates, zones and
\* verification read of it for that Host, a blank override included; and no
\* required key is among the ones it is given blank.
PlayAgrees ==
    \A f \in preflights : \A k \in Keys :
        /\ f.vars[k] = Resolve(Effective(f.of, f.host, k))
        /\ k \in f.keys => f.vars[k] \notin {NoKey, "", "!fails"}
=============================================================================
