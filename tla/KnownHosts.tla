----------------------------- MODULE KnownHosts -----------------------------
(***************************************************************************)
(* The operator's ~/.ssh/known_hosts as the CLI uses it                    *)
(* (src/services/known_hosts.rs, src/hosts.rs,                             *)
(* src/services/ansible_runner.rs).  Every connection presents the Host's  *)
(* name as its HostKeyAlias.  Keys verified before that are filed under    *)
(* the address, in one of two spellings, and every read of the roster      *)
(* copies them onto the aliases that have none.  ssh-keygen runs once per  *)
(* lookup and once per removal, so other commands run in between.          *)
(*                                                                         *)
(* A key stands for all the host keys of one installation of a machine,    *)
(* and a machine for the address the roster declares for it.               *)
(***************************************************************************)
EXTENDS Naturals

CONSTANTS
    Names,         \* Host names, which are also the aliases
    Machines,      \* the machines behind them
    Keys,          \* their installations
    Procs,         \* CLI processes
    Jobs,          \* the commands an operator may give (a subset of Job)
    Rosters,       \* the rosters to begin with
    MaxJobs,       \* bound: commands given
    MaxReinstalls, \* bound: machines installed anew
    MaxCrashes     \* bound: processes that die

Ports == {"std", "hardened"}        \* 22, and any other port
Spellings == {"bare", "port"}       \* "a" and "[a]:p"
Entry == [machine : Machines, port : Ports]
Roster == UNION {[S -> Entry] : S \in SUBSET Names}

\* A command: read is any that only reads the roster, strict any that connects
\* with the CLI's own ssh, ansible a deploy; a bootstrap reaches the Host on a
\* port of its own, and rename gives it the name in to.
Job == [op : {"read", "strict", "ansible", "bootstrap", "rename"},
        name : Names, to : Names, port : Ports]

ASSUME KnownHostsAssumption ==
    /\ Jobs \subseteq Job /\ Rosters \subseteq Roster
    /\ {MaxJobs, MaxReinstalls, MaxCrashes} \subseteq Nat

VARIABLES
    alias,       \* keys filed under each name
    legacy,      \* keys filed under each machine's address, in each spelling
    installed,   \* the key each machine offers
    roster,      \* hosts.toml
    at,          \* where each process is
    job,         \* its command
    mem,         \* the roster it read, what is left to do, the keys it copies
    verified,    \* history: the keys of each machine the operator trusts
    dropped,     \* history: keys a completed forget has dropped for each name
    begun, reinstalls, crashes

filed == <<alias, legacy>>
counts == <<begun, reinstalls, crashes>>
vars == <<filed, installed, roster, at, job, mem, verified, dropped, counts>>

Targets == Machines \X Spellings
NoWork == [roster |-> << >>, names |-> {}, copy |-> {}, keys |-> {}, targets |-> {}, again |-> FALSE]

TypeOK ==
    /\ alias \in [Names -> SUBSET Keys] /\ legacy \in [Targets -> SUBSET Keys]
    /\ installed \in [Machines -> Keys] /\ roster \in Roster
    /\ at \in [Procs -> {"idle", "migrate", "append", "inspect", "forget",
                         "connect", "commit"}]
    /\ job \in [Procs -> Jobs]
    /\ \A p \in Procs : /\ mem[p].names \cup mem[p].copy \subseteq Names
                        /\ mem[p].targets \subseteq Targets
                        /\ mem[p].keys \subseteq Keys
    /\ verified \in [Machines -> SUBSET Keys] /\ dropped \in [Names -> SUBSET Keys]
    /\ begun \in 0..MaxJobs /\ reinstalls \in 0..MaxReinstalls /\ crashes \in 0..MaxCrashes

\* Mutant: the one spelling ssh writes for the port.
LegacyTarget(m, port) == {m} \X (IF port = "std" THEN {"bare"} ELSE {"port"})

\* legacy_targets: every spelling ssh may have found a key under.
LegacyTargets(m, port) == {m} \X (IF port = "std" THEN {"bare"} ELSE Spellings)

\* The keys a connection would be checked against by address: those of the
\* first spelling that has any, most specific first.
Inherited(m, port) ==
    LET found == {t \in LegacyTargets(m, port) : legacy[t] # {}}
    IN  IF <<m, "port">> \in found THEN legacy[<<m, "port">>]
        ELSE UNION {legacy[t] : t \in found}

\* Mutant: only the spellings of the port the Host was reached on.
KeyTargetsReached(n, m, port, r) == LegacyTargets(m, port)

\* key_targets, but for the alias: the spellings of where the Host was reached
\* and of where roster r declares it.
KeyTargets(n, m, port, r) ==
    LegacyTargets(m, port)
        \cup (IF n \in DOMAIN r THEN LegacyTargets(r[n].machine, r[n].port) ELSE {})

\* Each Host of the roster has its key on file in one of these ways, or nowhere;
\* beside a key filed under the port, the bare address may have an older one.
Init ==
    /\ roster \in Rosters
    /\ installed \in [Machines -> Keys]
    /\ \A m, o \in Machines : installed[m] = installed[o] => m = o
    /\ alias \in [Names -> SUBSET Keys] /\ legacy \in [Targets -> SUBSET Keys]
    /\ \A n \in Names : alias[n] # {} =>
          n \in DOMAIN roster /\ alias[n] = {installed[roster[n].machine]}
    /\ \A m \in Machines :
          /\ legacy[<<m, "port">>] \subseteq {installed[m]}
          /\ \/ legacy[<<m, "bare">>] \subseteq {installed[m]}
             \/ /\ legacy[<<m, "port">>] # {}
                /\ \E k \in Keys \ {installed[o] : o \in Machines} : legacy[<<m, "bare">>] = {k}
          /\ \A n \in DOMAIN roster : roster[n] = [machine |-> m, port |-> "std"]
                => legacy[<<m, "port">>] = {}
    /\ verified = [m \in Machines |->
          {k \in {installed[m]} : \/ \E s \in Spellings : k \in legacy[<<m, s>>]
                                  \/ \E n \in Names : k \in alias[n]}]
    /\ at = [p \in Procs |-> "idle"]
    /\ job = [p \in Procs |-> CHOOSE j \in Jobs : TRUE]
    /\ mem = [p \in Procs |-> NoWork]
    /\ dropped = [n \in Names |-> {}]
    /\ begun = 0 /\ reinstalls = 0 /\ crashes = 0

Goto(p, place) == at' = [at EXCEPT ![p] = place]
Return(p) == Goto(p, "idle") /\ mem' = [mem EXCEPT ![p] = NoWork]
Read(p, again) ==
    /\ Goto(p, "migrate")
    /\ mem' = [mem EXCEPT ![p] = [NoWork EXCEPT !.roster = roster,
                                   !.names = DOMAIN roster, !.again = again]]

----------------------------------------------------------------------------
(* Reading the roster.                                                     *)

\* Every command begins by reading it.
Start(p, j) ==
    /\ at[p] = "idle" /\ begun < MaxJobs
    /\ job' = [job EXCEPT ![p] = j]
    /\ begun' = begun + 1
    /\ Read(p, FALSE)
    /\ UNCHANGED <<filed, installed, roster, verified, dropped, reinstalls, crashes>>

\* migrate_alias: look the alias up, then the spellings it may inherit from.
Look(p, n) ==
    LET e == mem[p].roster[n]
        keys == IF alias[n] = {} THEN Inherited(e.machine, e.port) ELSE {}
    IN  /\ at[p] = "migrate" /\ n \in mem[p].names
        /\ mem' = [mem EXCEPT ![p].names = @ \ {n}, ![p].copy = {n}, ![p].keys = keys]
        /\ IF keys = {} THEN UNCHANGED at ELSE Goto(p, "append")
        /\ UNCHANGED <<filed, installed, roster, job, verified, dropped, counts>>

\* append_known_hosts: what was found is filed under the alias.
Append(p) ==
    /\ at[p] = "append"
    /\ alias' = [n \in Names |-> IF n \in mem[p].copy THEN alias[n] \cup mem[p].keys
                                 ELSE alias[n]]
    /\ Goto(p, "migrate")
    /\ UNCHANGED <<legacy, installed, roster, job, mem, verified, dropped, counts>>

Declared(p) == mem[p].roster[job[p].name]

\* The read is over.  The Host must be in the roster; the second read of a
\* bootstrap names what to forget, and the operator may confirm (or run the
\* printed commands, the same) or decline.
HaveRead(p) ==
    LET j == job[p]
    IN  /\ at[p] = "migrate" /\ mem[p].names = {}
        /\ IF j.op = "read" \/ j.name \notin DOMAIN mem[p].roster THEN Return(p)
           ELSE IF ~mem[p].again
           THEN /\ Goto(p, CASE j.op = "bootstrap" -> "inspect"
                             [] j.op = "rename" -> "commit"
                             [] OTHER -> "connect")
                /\ UNCHANGED mem
           ELSE \/ Return(p)
                \/ /\ Goto(p, "forget")
                   /\ mem' = [mem EXCEPT ![p].copy = {j.name},
                        ![p].targets = KeyTargets(j.name, Declared(p).machine, j.port,
                                                  mem[p].roster)]
        /\ UNCHANGED <<filed, installed, roster, job, verified, dropped, counts>>

----------------------------------------------------------------------------
(* Connecting and forgetting.                                              *)

\* classify: a key on file that the one offered contradicts, and nothing else.
Contradicted(known, offered) == \E k \in known : k # offered

\* inspect: what is on file for the alias against what the machine offers.  A
\* contradiction makes bootstrap read the roster again; a machine that does not
\* answer offers nothing.
Inspect(p) ==
    LET m == Declared(p).machine
    IN  /\ at[p] = "inspect"
        /\ \/ Contradicted(alias[job[p].name], installed[m]) /\ Read(p, TRUE)
           \/ Goto(p, "connect") /\ UNCHANGED mem
        /\ UNCHANGED <<filed, installed, roster, job, verified, dropped, counts>>

\* forget: ssh-keygen -R on the alias first.
ForgetAlias(p) ==
    LET n == job[p].name   m == Declared(p).machine
    IN  /\ at[p] = "forget" /\ mem[p].copy # {}
        /\ alias' = [alias EXCEPT ![n] = {}]
        /\ verified' = [verified EXCEPT ![m] = {}]
        /\ mem' = [mem EXCEPT ![p].copy = {},
                     ![p].keys = alias[n] \cup UNION {legacy[t] : t \in mem[p].targets}]
        /\ UNCHANGED <<legacy, installed, roster, at, job, dropped, counts>>

\* ... and then on each of the other targets.
ForgetTarget(p, t) ==
    /\ at[p] = "forget" /\ mem[p].copy = {} /\ t \in mem[p].targets
    /\ legacy' = [legacy EXCEPT ![t] = {}]
    /\ mem' = [mem EXCEPT ![p].targets = @ \ {t}]
    /\ UNCHANGED <<alias, installed, roster, at, job, verified, dropped, counts>>

Forgotten(p) ==
    /\ at[p] = "forget" /\ mem[p].copy = {} /\ mem[p].targets = {}
    /\ dropped' = [dropped EXCEPT ![job[p].name] = @ \cup mem[p].keys]
    /\ Goto(p, "connect") /\ mem' = [mem EXCEPT ![p].keys = {}]
    /\ UNCHANGED <<filed, installed, roster, job, verified, counts>>

\* The CLI's own ssh takes only a key that is on file; ansible's, accept-new,
\* files the one offered under an alias that has none.
Connect(p) ==
    LET n == job[p].name   m == Declared(p).machine
        new == job[p].op # "strict" /\ alias[n] = {}
    IN  /\ at[p] = "connect"
        /\ alias' = [alias EXCEPT ![n] = IF new THEN {installed[m]} ELSE @]
        /\ verified' = [verified EXCEPT ![m] = IF new THEN {installed[m]} ELSE @]
        /\ Return(p)
        /\ UNCHANGED <<legacy, installed, roster, job, dropped, counts>>

\* host rename writes the entry under its new name (HostRoster has the rest).
Rename(p) ==
    LET n == job[p].name   to == job[p].to   r == mem[p].roster
    IN  /\ at[p] = "commit"
        /\ roster' = IF to \in DOMAIN r THEN roster
                     ELSE [x \in (DOMAIN r \ {n}) \cup {to} |-> IF x = to THEN r[n] ELSE r[x]]
        /\ Return(p)
        /\ UNCHANGED <<filed, installed, job, verified, dropped, counts>>

----------------------------------------------------------------------------
(* The environment.                                                        *)

\* A machine is installed anew: it offers a key that is nowhere on file, nor
\* just being forgotten.
Reinstall(m, k) ==
    /\ reinstalls < MaxReinstalls
    /\ \A o \in Machines : k # installed[o]
    /\ \A n \in Names : k \notin alias[n] \cup dropped[n]
    /\ \A t \in Targets : k \notin legacy[t]
    /\ \A p \in Procs : k \notin mem[p].keys
    /\ installed' = [installed EXCEPT ![m] = k]
    /\ reinstalls' = reinstalls + 1
    /\ UNCHANGED <<filed, roster, at, job, mem, verified, dropped, begun, crashes>>

Crash(p) ==
    /\ at[p] # "idle" /\ crashes < MaxCrashes
    /\ Return(p)
    /\ crashes' = crashes + 1
    /\ UNCHANGED <<filed, installed, roster, job, verified, dropped, begun, reinstalls>>

Step(p) == \/ \E n \in Names : Look(p, n)
           \/ Append(p) \/ HaveRead(p) \/ Inspect(p) \/ ForgetAlias(p)
           \/ \E t \in Targets : ForgetTarget(p, t)
           \/ Forgotten(p) \/ Connect(p) \/ Rename(p)

Next == \/ \E p \in Procs : \/ \E j \in Jobs : Start(p, j)
                            \/ Step(p) \/ Crash(p)
        \/ \E m \in Machines, k \in Keys : Reinstall(m, k)

Spec == Init /\ [][Next]_vars

----------------------------------------------------------------------------
(* Properties.                                                             *)

\* A machine whose key the operator trusts and that still offers it is never
\* refused and never trusted blindly: when a command connects the key is on file
\* for the alias (read_roster, ADR-0076).
TrustFollowsHost ==
    \A p \in Procs : at[p] = "connect" =>
        LET m == Declared(p).machine
        IN  installed[m] \in verified[m] => installed[m] \in alias[job[p].name]

\* ansible's accept-new never takes a key in place of another the operator
\* trusted and did not ask to forget (ADR-0076, "the migration running first").
NeverTrustedBlindly ==
    [][\A p \in Procs : at[p] = "connect" /\ at'[p] = "idle"
          /\ alias'[job[p].name] # alias[job[p].name]
          => verified[Declared(p).machine] = {}]_vars

\* A key that was forgotten does not come back under the name (key_targets).
ForgetSticks == \A n \in Names : alias[n] \cap dropped[n] = {}
=============================================================================
