----------------------------- MODULE HostRoster -----------------------------
(***************************************************************************)
(* hosts.toml and what is keyed by its names: the generated ssh include,   *)
(* the key directories, the tables of config.toml and the Hosts' own       *)
(* hostnames (src/hosts.rs, src/commands/host.rs,                          *)
(* src/services/ssh_include.rs, src/config.rs).  Every `host` command is a *)
(* process of its own: it reads the roster, asks or connects, reads it     *)
(* again and writes the whole file.  There is no lock, and a command may   *)
(* fail or die between any two of its steps.                               *)
(***************************************************************************)
EXTENDS Naturals, FiniteSets, Functions, TLC

CONSTANTS
    Names,      \* Host names
    Machines,   \* the machines behind them
    Procs,      \* CLI processes
    Jobs,       \* the commands an operator may give (a subset of Job)
    Rosters,    \* the rosters to begin with, hand-edited ones included
    Tables,     \* the tables of config.toml that hold answers by Host name
    MaxJobs,    \* bound: commands given, reruns not counted
    MaxFaults,  \* bound: failures and deaths
    Faults      \* "fail": a step returns an error; "crash": a process dies;
                \* "tear": it dies inside a write, leaving the file truncated

\* A roster entry: the machine at its address, whether tailscale_ip is cached,
\* prefer_tailnet, and the key directory its ssh_key is in: the one derived
\* from its name, one it names itself, or none under ~/.ssh/identities.
Entry == [machine : Machines, ts : BOOLEAN, prefer : BOOLEAN,
          key : Names \cup {"derived", "custom"}]
Roster == UNION {[S -> Entry] : S \in SUBSET Names}

\* A command: the Host it names, a rename's new name, what add or edit asks for.
Job == [op : {"add", "remove", "edit", "detect", "list", "rename"},
        name : Names, to : Names, entry : Entry]

ASSUME HostRosterAssumption ==
    /\ Jobs \subseteq Job /\ Rosters \subseteq Roster
    /\ "hosts" \in Tables /\ Tables \subseteq {"hosts", "bichon.hosts"}
    /\ {MaxJobs, MaxFaults} \subseteq Nat
    /\ Faults \subseteq {"fail", "crash", "tear"}

VARIABLES
    roster,      \* what hosts.toml says, while it is whole
    torn,        \* hosts.toml is truncated
    include,     \* the entries the ssh include publishes
    identities,  \* the directories under ~/.ssh/identities
    answers,     \* <<table, name>>: config.toml has table.name
    tornConfig,  \* config.toml is truncated
    hostname,    \* the name each machine has for itself
    at,          \* where each process is
    job,         \* its command
    mem,         \* the roster and the config it holds
    begun,       \* commands given
    faults,      \* failures and deaths
    stale,       \* history: roster changed by hand, or by a write whose
                 \*   regeneration was cut short, and not written since
    started      \* history: renames that passed preflight, not yet committed

vars == <<roster, torn, include, identities, answers, tornConfig, hostname,
          at, job, mem, begun, faults, stale, started>>
named == <<identities, answers, tornConfig, hostname>>   \* what a rename moves
history == <<begun, faults, stale, started>>

Places == {"idle", "load", "reload", "remote", "keys", "config", "write",
           "fill", "publish", "override"}
Nothing == [roster |-> << >>, answers |-> {}]

TypeOK ==
    /\ roster \in Roster /\ include \in Roster
    /\ {torn, tornConfig, stale} \subseteq BOOLEAN
    /\ identities \subseteq Names /\ answers \subseteq Tables \X Names
    /\ hostname \in [Machines -> Names]
    /\ at \in [Procs -> Places] /\ job \in [Procs -> Jobs]
    /\ \A p \in Procs : /\ mem[p].roster \in Roster \cup {<< >>}
                        /\ mem[p].answers \subseteq Tables \X Names
    /\ begun \in 0..MaxJobs /\ faults \in 0..MaxFaults
    /\ started \subseteq Jobs

KeyDir(n, e) == IF e.key = "derived" THEN n ELSE e.key

\* The include was written before the roster was edited by hand, from entries
\* that then were valid.
Init ==
    /\ roster \in Rosters
    /\ include = [n \in DOMAIN roster |->
                    IF roster[n].ts THEN roster[n]
                    ELSE [roster[n] EXCEPT !.prefer = FALSE]]
    /\ stale = (include # roster)
    /\ identities = {KeyDir(n, roster[n]) : n \in DOMAIN roster} \ {"custom"}
    /\ answers \in SUBSET (Tables \X DOMAIN roster)
    /\ hostname = [m \in Machines |->
                     CHOOSE n \in Names : (\E o \in DOMAIN roster : roster[o].machine = m)
                        => n \in DOMAIN roster /\ roster[n].machine = m]
    /\ torn = FALSE /\ tornConfig = FALSE
    /\ at = [p \in Procs |-> "idle"]
    /\ job = [p \in Procs |-> CHOOSE j \in Jobs : TRUE]
    /\ mem = [p \in Procs |-> Nothing]
    /\ begun = 0 /\ faults = 0 /\ started = {}

Goto(p, place) == at' = [at EXCEPT ![p] = place]
Return(p) == Goto(p, "idle") /\ mem' = [mem EXCEPT ![p] = Nothing]
Hold(p, r, a) == mem' = [mem EXCEPT ![p] = [roster |-> r, answers |-> a]]

----------------------------------------------------------------------------
(* What the commands compute from the roster they read.                    *)

\* Mutant: the prompt alone keeps prefer_tailnet sound.
Unvalidated(r) == TRUE

\* Host::validate, of every entry of a roster.
Valid(r) == \A n \in DOMAIN r : r[n].prefer => r[n].ts

\* prompt_prefer_tailnet: the tailnet route is not offered, and cleared, where no
\* address is cached.
PreferAnswer(host, e) == host.ts /\ e.prefer

\* run_host_edit: the entry built from the one first read and the answers.
Edited(host, e) == [host EXCEPT !.key = e.key, !.prefer = PreferAnswer(host, e)]

\* with_detected_tailscale_ip: the entry first read, with the address.
Detected(host) == [host EXCEPT !.ts = TRUE]

\* rename_local: the entry under its new name, with its ssh_key moved along
\* when it is in the old name's directory.
Renamed(r, old, new) ==
    [n \in (DOMAIN r \ {old}) \cup {new} |->
        IF n # new THEN r[n]
        ELSE [r[old] EXCEPT !.key = IF @ = old THEN new ELSE @]]

\* The roster a command writes, from the one it reads last (now) and, for edit
\* and detect, the entry it read first (first).
Updated(j, first, now) ==
    CASE j.op = "add" -> [n \in DOMAIN now \cup {j.name} |->
                            IF n # j.name THEN now[n]
                            ELSE [j.entry EXCEPT !.ts = FALSE, !.prefer = FALSE]]
      [] j.op = "remove" -> Restrict(now, DOMAIN now \ {j.name})
      [] j.op = "edit" -> [now EXCEPT ![j.name] = Edited(first[j.name], j.entry)]
      [] j.op = "detect" -> [now EXCEPT ![j.name] = Detected(first[j.name])]

\* The override table of a Host in config.toml.
Table(n) == <<"hosts", n>>

\* resolve_ssh_key: the key of an entry is where the entry points.
KeyExists(n, h) == KeyDir(n, h) \in identities \cup {"custom"}

\* A key in one of the places rename looks for it: where the entry points, and
\* where it will point when the directory has been moved.
KeyFound(h, old, new) ==
    KeyExists(old, h) \/ (KeyDir(old, h) = old /\ new \in identities)

\* preflight_identities: only while the move would clobber it.
KeysMovable(old, new) == ~({old, new} \subseteq identities)

TablesMovable(old, new) == ~({Table(old), Table(new)} \subseteq answers)

\* What a rename checks before it touches anything; the route of the Host must
\* resolve and config.toml, if any, be readable.
Preflight(j) ==
    /\ j.name \in DOMAIN roster /\ j.to \notin DOMAIN roster
    /\ KeysMovable(j.name, j.to)
    /\ ~tornConfig
    /\ TablesMovable(j.name, j.to)
    /\ KeyFound(roster[j.name], j.name, j.to)
    /\ roster[j.name].prefer => roster[j.name].ts

----------------------------------------------------------------------------
(* The commands.                                                           *)

\* A rename that was cut short may be given again beyond the bound.
Start(p, j) ==
    /\ at[p] = "idle" /\ (begun < MaxJobs \/ j \in started)
    /\ job' = [job EXCEPT ![p] = j]
    /\ Goto(p, IF j.op = "add" THEN "reload" ELSE "load")
    /\ begun' = IF j \in started THEN begun ELSE begun + 1
    /\ UNCHANGED <<roster, torn, include, named, mem, faults, stale, started>>

\* The first read; list ends with it, and so does a command that finds the file
\* truncated, its Host missing, its key or config.toml unreadable, or a rename's
\* preflight failing.
Load(p) ==
    LET j == job[p]
    IN  /\ at[p] = "load"
        /\ \/ /\ torn \/ j.op = "list" \/ j.name \notin DOMAIN roster
              /\ Return(p) /\ UNCHANGED started
           \/ /\ ~torn /\ j.name \in DOMAIN roster
              /\ j.op \in {"remove", "edit", "detect"}
              /\ IF \/ j.op = "edit" /\ tornConfig
                    \/ j.op = "detect" /\ ~KeyExists(j.name, roster[j.name])
                 THEN Return(p)
                 ELSE Goto(p, "reload") /\ Hold(p, roster, answers)
              /\ UNCHANGED started
           \/ /\ ~torn /\ j.name \in DOMAIN roster /\ j.op = "rename"
              /\ IF Preflight(j)
                 THEN /\ Goto(p, "remote") /\ Hold(p, roster, answers)
                      /\ started' = started \cup {j}
                 ELSE Return(p) /\ UNCHANGED started
        /\ UNCHANGED <<roster, torn, include, named, job, begun, faults, stale>>

\* The second read and the change.
Reload(p) ==
    LET j == job[p]
        r == Updated(j, mem[p].roster, roster)
    IN  /\ at[p] = "reload"
        /\ IF torn \/ ((j.op = "add") = (j.name \in DOMAIN roster)) THEN Return(p)
           ELSE Goto(p, "write") /\ Hold(p, r, mem[p].answers)
        /\ UNCHANGED <<roster, torn, include, named, job, history>>

\* hostnamectl set-hostname and the /etc/hosts edit on the Host.
RenameRemote(p) ==
    /\ at[p] = "remote"
    /\ hostname' = [hostname EXCEPT ![mem[p].roster[job[p].name].machine] = job[p].to]
    /\ Goto(p, "keys")
    /\ UNCHANGED <<roster, torn, include, identities, answers, tornConfig, job, mem, history>>

\* The key directory moves if it is still under the old name; a move onto an
\* existing directory fails.
MoveKeys(p) ==
    LET old == job[p].name   new == job[p].to
    IN  /\ at[p] = "keys"
        /\ IF {old, new} \subseteq identities
           THEN Return(p) /\ UNCHANGED identities
           ELSE /\ identities' = IF old \in identities
                                 THEN (identities \ {old}) \cup {new} ELSE identities
                /\ Goto(p, "config")
                /\ Hold(p, Renamed(mem[p].roster, old, new), mem[p].answers)
        /\ UNCHANGED <<roster, torn, include, answers, tornConfig, hostname, job, history>>

\* rename_host_overrides: the whole file is written from the copy loaded first,
\* if that has a [hosts.old] table.
MoveTables(p) ==
    LET old == Table(job[p].name)   new == Table(job[p].to)
    IN  /\ at[p] = "config"
        /\ IF old \in mem[p].answers
           THEN /\ answers' = (mem[p].answers \ {old}) \cup {new}
                /\ tornConfig' = FALSE
           ELSE UNCHANGED <<answers, tornConfig>>
        /\ Goto(p, "write")
        /\ UNCHANGED <<roster, torn, include, identities, hostname, job, mem, history>>

\* write_roster: every entry is validated before a file is touched; then
\* fs::write truncates hosts.toml ...
Truncate(p) ==
    /\ at[p] = "write"
    /\ IF Valid(mem[p].roster)
       THEN Goto(p, "fill") /\ torn' = TRUE /\ UNCHANGED mem
       ELSE Return(p) /\ UNCHANGED torn
    /\ UNCHANGED <<roster, include, named, job, history>>

\* ... and fills it.  Over what another process wrote since, the result may be
\* this text with the rest of the other's behind it.
Fill(p) ==
    /\ at[p] = "fill"
    /\ roster' = mem[p].roster
    /\ torn' \in {FALSE, ~torn}
    /\ stale' = TRUE
    /\ started' = started \ {job[p]}
    /\ Goto(p, "publish")
    /\ UNCHANGED <<include, named, job, mem, begun, faults>>

\* Mutant: only some commands remember to regenerate.
PublishRemembered(p) ==
    /\ at[p] = "publish" /\ Return(p)
    /\ include' = IF job[p].op = "detect" THEN include ELSE mem[p].roster
    /\ stale' = FALSE
    /\ UNCHANGED <<roster, torn, named, job, begun, faults, started>>

\* ssh_include::sync, from the slice that was written.
Publish(p) ==
    /\ at[p] = "publish"
    /\ include' = mem[p].roster
    /\ stale' = FALSE
    /\ IF job[p].op = "edit" THEN Goto(p, "override") /\ UNCHANGED mem ELSE Return(p)
    /\ UNCHANGED <<roster, torn, named, job, begun, faults, started>>

\* apply_exit_node_edit: keep, or set or remove a key of the Host's table in
\* the copy loaded before the prompts, and write that.
Override(p) ==
    LET table == Table(job[p].name)
    IN  /\ at[p] = "override"
        /\ \/ UNCHANGED <<answers, tornConfig>>
           \/ /\ answers' \in {mem[p].answers \cup {table}, mem[p].answers \ {table}}
              /\ tornConfig' = FALSE
        /\ Return(p)
        /\ UNCHANGED <<roster, torn, include, identities, hostname, job, history>>

\* A step reports an error and has no effect, but for an include of which only
\* some entries were written.
Fail(p) ==
    /\ "fail" \in Faults /\ faults < MaxFaults
    /\ at[p] \in Places \ {"idle", "fill"}
    /\ include' \in {include} \cup
          (IF at[p] = "publish" THEN {Restrict(mem[p].roster, S) : S \in SUBSET DOMAIN mem[p].roster}
           ELSE {})
    /\ faults' = faults + 1
    /\ Return(p)
    /\ UNCHANGED <<roster, torn, named, job, begun, stale, started>>

\* The process dies between two steps, or in the write of a file.
Crash(p) ==
    /\ at[p] # "idle" /\ faults < MaxFaults
    /\ \/ "crash" \in Faults /\ at[p] # "fill" /\ UNCHANGED tornConfig
       \/ "tear" \in Faults /\ at[p] = "fill" /\ UNCHANGED tornConfig
       \/ /\ "tear" \in Faults /\ tornConfig' = TRUE
          /\ at[p] = "override" \/ (at[p] = "config" /\ Table(job[p].name) \in mem[p].answers)
    /\ faults' = faults + 1
    /\ Return(p)
    /\ UNCHANGED <<roster, torn, include, identities, answers, hostname, job,
                   begun, stale, started>>

Step(p) == \/ Load(p) \/ Reload(p) \/ RenameRemote(p) \/ MoveKeys(p) \/ MoveTables(p)
           \/ Truncate(p) \/ Fill(p) \/ Publish(p) \/ Override(p)

Next == \E p \in Procs : \/ \E j \in Jobs : Start(p, j)
                         \/ Step(p) \/ Fail(p) \/ Crash(p)

Spec == Init /\ [][Next]_vars

\* A process that lives takes its next step, and an operator gives a rename
\* that was cut short again.
Rerun(p, j) == j \in started /\ Start(p, j)
FairSpec ==
    /\ Spec
    /\ \A p \in Procs : WF_vars(Step(p))
    /\ \A p \in Procs, j \in Jobs : WF_vars(Rerun(p, j))

----------------------------------------------------------------------------
(* Properties.                                                             *)

Quiet == \A p \in Procs : at[p] = "idle"

\* What the include publishes always resolves to an address, although a file
\* edited by hand need not (Host::validate, at every write).
PublishedRoutesResolve == \A n \in DOMAIN include : include[n].prefer => include[n].ts

\* With commands given one at a time the include says what the roster says,
\* whatever failed before, from the next write that gets through on
\* (write_roster).
IncludeFollowsRoster == Quiet /\ ~stale => include = roster

\* detect-tailscale-ip never turns prefer_tailnet on for any Host
\* (with_detected_tailscale_ip).
DetectNeverRoutes ==
    [][\A p \in Procs : at[p] = "fill" /\ at'[p] = "publish" /\ job[p].op = "detect"
          => \A n \in DOMAIN roster' : roster'[n].prefer => roster[n].prefer]_vars

\* What else the name of a renamed Host is the key of, in the CLI's own tables
\* and on the machine (run_host_rename).
Moved(j, machine) ==
    /\ hostname[machine] = j.to
    /\ j.name \notin identities
    /\ <<"hosts", j.name>> \notin answers

\* The write of hosts.toml is the commit point of a rename: when the roster has
\* the new name everything else has moved already (run_host_rename).
CommitIsLast ==
    [][\A p \in Procs : at[p] = "fill" /\ at'[p] = "publish" /\ job[p].op = "rename"
          => Moved(job[p], roster'[job[p].to].machine)]_vars

\* A rename that passed preflight once and did not commit passes it again,
\* wherever it was cut short (ADR-0024).
RerunPasses == Quiet => \A j \in started : Preflight(j)

\* Run again until it gets through, a rename that was begun ends with the new
\* name in the roster and all that follows it moved (ADR-0024).
RenameConverges ==
    \A j \in Jobs : j \in started ~>
        /\ Quiet
        /\ j.to \in DOMAIN roster /\ j.name \notin DOMAIN roster
        /\ Moved(j, roster[j.to].machine)

----------------------------------------------------------------------------
(* Statements of the documentation and the comments that the code does not  *)
(* keep.                                                                    *)

\* An include that is behind the roster was reported: commands that all returned
\* without an error leave the two files alike.
BehindIsReported == Quiet /\ faults = 0 /\ ~stale /\ ~torn => include = roster

\* Any host subcommand run after a failed regeneration repairs the include; list
\* is one, and the only one here that never writes.
AnySubcommandRepairs ==
    [][\A p \in Procs : at[p] = "load" /\ at'[p] = "idle" /\ faults' = faults
                        /\ job[p].op = "list" /\ ~torn
          => include' = roster']_vars

\* The fix for any partial failure of a rename is the command itself.
RerunIsTheFix == Quiet /\ started # {} => ~torn

\* A rename moves everything the name is the key of.
RenamesEverywhere ==
    [][\A p \in Procs : at[p] = "publish" /\ at'[p] = "idle" /\ job[p].op = "rename"
                        /\ faults' = faults
          => \A t \in Tables : <<t, job[p].name>> \notin answers']_vars
=============================================================================
