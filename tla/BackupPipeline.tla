--------------------------- MODULE BackupPipeline ---------------------------
(***************************************************************************)
(* From a Host's Apps to the offsite repository and back to a verdict      *)
(* (src/services/backup/session.rs, verify.rs, restic.rs and the commands  *)
(* backup create, push, prune, sync and verify).  Each run stages Apps in  *)
(* a directory of its own, {host}/{timestamp}/{app}/, restic turns a       *)
(* staged backup into a snapshot, forget applies the retention policy, and *)
(* verify reads the snapshot list.  No lock orders the runs: several       *)
(* processes share the staging root and the repository, and each may be    *)
(* killed at any step.  What one App's copy does on the Host is            *)
(* RecipeExecutor's.                                                       *)
(***************************************************************************)
EXTENDS Integers, FiniteSets

CONSTANTS
    Procs,        \* CLI processes
    Hosts, Apps,
    Untagged,     \* in the place of a Host's tag: pushed before tagging landed
    None,         \* no directory, no question, no App asked for
    Legacy,       \* snapshots in the repository at the start
    Jobs,         \* the commands that may run
    MaxRuns,      \* bound: commands begun
    LastDay,      \* bound: days
    KeepDaily,    \* forget --keep-daily
    KeepWeekly,   \* forget --keep-weekly; --keep-monthly is the same rule, coarser
    WeekDays,     \* days of a week
    MaxAge,       \* verify --max-age, in days
    Faults        \* "app", "remove", "net", "kill": an App fails, its directory
                  \* cannot be removed, restic fails, a process dies

AllJobs == {"create", "sync", "push", "prune", "verify"}
Copies == {"none", "part", "whole"}   \* of one App in a staged backup
Snapshots ==
    [id : Nat, host : Hosts, tag : Hosts \cup {Untagged}, day : Nat,
     apps : [Apps -> Copies], by : {"push", "sync"}, ok : SUBSET Apps]

ASSUME PipelineAssumption ==
    /\ Untagged \notin Hosts /\ None \notin Apps
    /\ Jobs \subseteq AllJobs /\ Faults \subseteq {"app", "remove", "net", "kill"}
    /\ {MaxRuns, LastDay, KeepWeekly, MaxAge} \subseteq Nat
    /\ {KeepDaily, WeekDays} \subseteq Nat \ {0}
    /\ Legacy \subseteq Snapshots /\ IsFiniteSet(Legacy)
    /\ \A s \in Legacy : s.id \in 1 .. Cardinality(Legacy) /\ s.day = 0
    /\ \A s, t \in Legacy : s.id = t.id => s = t

ASSUME JobAssumption == None \notin AllJobs

VARIABLES
    staging,   \* what each staged backup {host}/{timestamp} holds of each App
    ready,     \* restic init has run
    snaps,     \* the snapshots in the repository
    pushed,    \* every snapshot there ever was (history)
    day,       \* the clock, in days
    runs,      \* commands begun; a command's number is its timestamp too
    at,        \* where each process is
    job,       \* which command it runs
    dir,       \* the staged backup it fills or pushes: <<host, timestamp>>
    todo,      \* Apps to back up still
    ok,        \* Apps backed up
    asked,     \* verify: the Host and App, and the day it asked on
    listed,    \* verify: the snapshot list it read
    walk,      \* verify: the candidates it has not looked into
    verdict    \* verify: what it reported, and about which snapshot

repository == <<ready, snaps, pushed>>
creating == <<dir, todo, ok>>
verifying == <<asked, listed, walk, verdict>>
vars == <<staging, repository, day, runs, at, job, creating, verifying>>

Places == {"idle", "connect", "create", "app", "probe", "init", "push",
           "prune", "cleanup", "remove", "list", "walk"}
Status == {"none", "verified", "stale", "missing", "nothing", "operational"}
Nothing == [a \in Apps |-> "none"]

TypeOK ==
    /\ DOMAIN staging \subseteq Hosts \X Nat
    /\ \A d \in DOMAIN staging : staging[d] \in [Apps -> Copies]
    /\ ready \in BOOLEAN
    /\ pushed \subseteq Snapshots /\ snaps \subseteq pushed
    /\ day \in Nat /\ runs \in Nat
    /\ at \in [Procs -> Places] /\ job \in [Procs -> Jobs \cup {None}]
    /\ dir \in [Procs -> (Hosts \X Nat) \cup {None}]
    /\ todo \in [Procs -> SUBSET Apps] /\ ok \in [Procs -> SUBSET Apps]
    /\ asked \in [Procs -> [host : Hosts, app : Apps \cup {None}, day : Nat] \cup {None}]
    /\ listed \in [Procs -> SUBSET pushed] /\ walk \in [Procs -> SUBSET pushed]
    /\ verdict \in [Procs -> [status : Status, snap : pushed \cup {None}]]
    /\ \A p \in Procs :
         /\ at[p] = "idle" <=> job[p] = None
         \* a run's own staged backup is there until it removes it
         /\ at[p] \in {"app", "cleanup", "remove"} => dir[p] \in DOMAIN staging
         /\ job[p] = "sync" /\ at[p] \in {"probe", "init", "push"} => dir[p] \in DOMAIN staging

NoVerdict == [status |-> "none", snap |-> None]

Init ==
    /\ staging = <<>>
    /\ ready = (Legacy # {}) /\ snaps = Legacy /\ pushed = Legacy
    /\ day = 0 /\ runs = 0
    /\ at = [p \in Procs |-> "idle"] /\ job = [p \in Procs |-> None]
    /\ dir = [p \in Procs |-> None] /\ asked = [p \in Procs |-> None]
    /\ todo = [p \in Procs |-> {}] /\ ok = [p \in Procs |-> {}]
    /\ listed = [p \in Procs |-> {}] /\ walk = [p \in Procs |-> {}]
    /\ verdict = [p \in Procs |-> NoVerdict]

----------------------------------------------------------------------------
(***************************************************************************)
(* Staged backups.                                                         *)
(***************************************************************************)
Goto(p, place) == at' = [at EXCEPT ![p] = place]

\* The command returns, whatever it returns.
Leave(p) ==
    /\ Goto(p, "idle") /\ job' = [job EXCEPT ![p] = None]
    /\ dir' = [dir EXCEPT ![p] = None]
    /\ todo' = [todo EXCEPT ![p] = {}] /\ ok' = [ok EXCEPT ![p] = {}]

Stage(p, a, copy) == staging' = [staging EXCEPT ![dir[p]][a] = copy]
Without(d) == [e \in DOMAIN staging \ {d} |-> staging[e]]

Begin(p, j) ==
    /\ at[p] = "idle" /\ j \in Jobs /\ runs < MaxRuns
    /\ runs' = runs + 1 /\ job' = [job EXCEPT ![p] = j]

\* backup create and sync: the Apps asked for, a timestamp nobody else has.
BeginCreate(p) ==
    /\ \E j \in {"create", "sync"} : Begin(p, j)
    /\ \E h \in Hosts, todos \in (SUBSET Apps) \ {{}} :
         /\ dir' = [dir EXCEPT ![p] = <<h, runs + 1>>]
         /\ todo' = [todo EXCEPT ![p] = todos]
    /\ Goto(p, "connect")
    /\ UNCHANGED <<staging, repository, day, ok, verifying>>

\* One probe before anything is staged; an unreachable Host fails the command.
Reach(p) ==
    /\ at[p] = "connect"
    /\ \/ Goto(p, "create") /\ UNCHANGED <<job, creating>>
       \/ "net" \in Faults /\ Leave(p)
    /\ UNCHANGED <<staging, repository, day, runs, verifying>>

Entry(d) == IF d \in DOMAIN staging THEN staging[d] ELSE Nothing

\* create_dir_all: the App's directory is there before anything is in it.
OpenApp(p) ==
    /\ at[p] = "create"
    /\ \E a \in todo[p] :
         /\ staging' = [d \in DOMAIN staging \cup {dir[p]} |->
                          IF d = dir[p] THEN [Entry(d) EXCEPT ![a] = "part"] ELSE staging[d]]
    /\ Goto(p, "app")
    /\ UNCHANGED <<repository, day, runs, job, creating, verifying>>

\* The App whose directory the run is filling.
Filling(p) == {a \in todo[p] : Entry(dir[p])[a] = "part"}

CopyApp(p) ==
    /\ at[p] = "app"
    /\ \E a \in Filling(p) :
         /\ Stage(p, a, "whole") /\ ok' = [ok EXCEPT ![p] = @ \cup {a}]
         /\ todo' = [todo EXCEPT ![p] = @ \ {a}]
    /\ Goto(p, "create")
    /\ UNCHANGED <<repository, day, runs, job, dir, verifying>>

\* Mutant: nothing of a failed App is removed.
FailedStays(p) ==
    /\ at[p] = "app" /\ "app" \in Faults
    /\ \E a \in Filling(p) : todo' = [todo EXCEPT ![p] = @ \ {a}]
    /\ Goto(p, "create")
    /\ UNCHANGED <<staging, repository, day, runs, job, dir, ok, verifying>>

\* A failed App's directory goes, unless that fails too, which nobody is told,
\* and the next App is tried.
AppFails(p) ==
    /\ at[p] = "app" /\ "app" \in Faults
    /\ \E a \in Filling(p) :
         /\ Stage(p, a, "none") \/ ("remove" \in Faults /\ UNCHANGED staging)
         /\ todo' = [todo EXCEPT ![p] = @ \ {a}]
    /\ Goto(p, "create")
    /\ UNCHANGED <<repository, day, runs, job, dir, ok, verifying>>

\* create returns; a sync goes on with whatever it has, and removes its
\* directory if it has nothing.
Created(p) ==
    /\ at[p] = "create" /\ todo[p] = {}
    /\ \/ /\ job[p] = "create" /\ Leave(p)
          /\ UNCHANGED staging
       \/ /\ job[p] = "sync" /\ ok[p] = {} /\ Leave(p)
          /\ staging' = Without(dir[p]) \/ ("remove" \in Faults /\ UNCHANGED staging)
       \/ /\ job[p] = "sync" /\ ok[p] # {} /\ Goto(p, "probe")
          /\ UNCHANGED <<staging, job, creating>>
    /\ UNCHANGED <<repository, day, runs, verifying>>

----------------------------------------------------------------------------
(***************************************************************************)
(* Push: a staged backup becomes a snapshot.                               *)
(***************************************************************************)
\* The newest staged backup of a Host, or the one named: any of them.
BeginPush(p) ==
    /\ Begin(p, "push")
    /\ \E d \in DOMAIN staging : dir' = [dir EXCEPT ![p] = d]
    /\ Goto(p, "probe")
    /\ UNCHANGED <<staging, repository, day, todo, ok, verifying>>

Probe(p) ==
    /\ at[p] = "probe"
    /\ \/ Goto(p, IF ready THEN "push" ELSE "init") /\ UNCHANGED <<job, creating>>
       \/ "net" \in Faults /\ Leave(p)
    /\ UNCHANGED <<staging, repository, day, runs, verifying>>

\* restic init, which refuses a repository that another run made meanwhile.
InitRepo(p) ==
    /\ at[p] = "init"
    /\ \/ /\ ~ready /\ ready' = TRUE
          /\ Goto(p, "push") /\ UNCHANGED <<job, creating>>
       \/ /\ ready \/ "net" \in Faults
          /\ Leave(p) /\ UNCHANGED ready
    /\ UNCHANGED <<staging, snaps, pushed, day, runs, verifying>>

\* restic backup --tag <host>, of what is in the directory by then.
Snapshot(p) ==
    [id |-> Cardinality(pushed) + 1, host |-> dir[p][1], tag |-> dir[p][1], day |-> day,
     apps |-> staging[dir[p]], by |-> job[p], ok |-> ok[p]]

Push(p) ==
    /\ at[p] = "push"
    /\ \/ /\ dir[p] \in DOMAIN staging
          /\ snaps' = snaps \cup {Snapshot(p)} /\ pushed' = pushed \cup {Snapshot(p)}
          /\ IF job[p] = "sync" THEN Goto(p, "prune") /\ UNCHANGED <<job, creating>>
                                ELSE Leave(p)
       \/ /\ dir[p] \notin DOMAIN staging \/ "net" \in Faults
          /\ Leave(p) /\ UNCHANGED <<snaps, pushed>>
    /\ UNCHANGED <<staging, ready, day, runs, verifying>>

----------------------------------------------------------------------------
(***************************************************************************)
(* Prune: restic forget --group-by tags keeps, of each group, the newest   *)
(* snapshot of each of the newest days and weeks, and the oldest of all    *)
(* while days or weeks are still left to keep.                             *)
(***************************************************************************)
Newest(S) == CHOOSE s \in S : \A t \in S : t.id <= s.id
\* Mutant: forget without --group-by tags, every snapshot in one group.
Ungrouped(s) == Untagged
Group(s) == s.tag
Of(host, S) == {s \in S : s.host = host}

\* The day, or the week, that a snapshot is of.
Span(s, days) == s.day \div days

KeptBy(days, count, S) ==
    LET Firsts == {Newest({t \in S : Span(t, days) = Span(s, days)}) : s \in S}
        Oldest == {s \in S : \A t \in S : s.id <= t.id}
    IN  {s \in Firsts : Cardinality({t \in Firsts : t.id > s.id}) < count}
        \cup (IF Cardinality(Firsts) < count THEN Oldest ELSE {})

\* A snapshot stays if any rule keeps it.
Kept(G) == KeptBy(1, KeepDaily, G) \cup KeptBy(WeekDays, KeepWeekly, G)
GroupOf(S, s) == {t \in S : Group(t) = Group(s)}
Retained(S) == UNION {Kept(GroupOf(S, s)) : s \in S}

BeginPrune(p) ==
    /\ Begin(p, "prune") /\ Goto(p, "prune")
    /\ UNCHANGED <<staging, repository, day, creating, verifying>>

\* A failure is only a warning to sync.
Prune(p) ==
    /\ at[p] = "prune"
    /\ snaps' = Retained(snaps) \/ (("net" \in Faults \/ ~ready) /\ UNCHANGED snaps)
    /\ IF job[p] = "sync" THEN Goto(p, "cleanup") /\ UNCHANGED <<job, creating>>
                          ELSE Leave(p)
    /\ UNCHANGED <<staging, ready, pushed, day, runs, verifying>>

\* remove_dir_all of the staged backup, one entry after another: it may end,
\* or the process die, with some of them gone.
Cleanup(p) ==
    /\ at[p] = "cleanup"
    /\ \E a \in Apps : staging[dir[p]][a] # "none" /\ Stage(p, a, "part")
    /\ Goto(p, "remove")
    /\ UNCHANGED <<repository, day, runs, job, creating, verifying>>

Remove(p) ==
    /\ at[p] = "remove"
    /\ staging' = Without(dir[p]) \/ ("remove" \in Faults /\ UNCHANGED staging)
    /\ Leave(p)
    /\ UNCHANGED <<repository, day, runs, verifying>>

----------------------------------------------------------------------------
(***************************************************************************)
(* Verify: one listing, then one look into each candidate, newest first,   *)
(* until one holds the App.                                                *)
(***************************************************************************)
BeginVerify(p) ==
    /\ Begin(p, "verify")
    /\ \E h \in Hosts, a \in Apps \cup {None} :
         asked' = [asked EXCEPT ![p] = [host |-> h, app |-> a, day |-> day]]
    /\ listed' = [listed EXCEPT ![p] = {}] /\ walk' = [walk EXCEPT ![p] = {}]
    /\ verdict' = [verdict EXCEPT ![p] = NoVerdict]
    /\ Goto(p, "list")
    /\ UNCHANGED <<staging, repository, day, creating>>

Report(p, status, snap) ==
    /\ verdict' = [verdict EXCEPT ![p] = [status |-> status, snap |-> snap]]
    /\ Leave(p)

\* Mutant: the age taken the wrong way round.
JudgeBackwards(p, s) ==
    Report(p, IF s.day - asked[p].day > MaxAge THEN "stale" ELSE "verified", s)

\* The last check: an age beyond --max-age, counted from when it was asked.
Judge(p, s) ==
    Report(p, IF asked[p].day - s.day > MaxAge THEN "stale" ELSE "verified", s)

List(p) ==
    /\ at[p] = "list"
    /\ \/ /\ ready
          /\ listed' = [listed EXCEPT ![p] = snaps]
          /\ LET candidates == Of(asked[p].host, snaps)
             IN  \/ /\ candidates = {}
                    /\ Report(p, "nothing", None) /\ UNCHANGED walk
                 \/ /\ candidates # {} /\ asked[p].app = None
                    /\ Judge(p, Newest(candidates)) /\ UNCHANGED walk
                 \/ /\ candidates # {} /\ asked[p].app # None
                    /\ walk' = [walk EXCEPT ![p] = candidates]
                    /\ Goto(p, "walk") /\ UNCHANGED <<job, creating, verdict>>
       \/ /\ ~ready \/ "net" \in Faults
          /\ Report(p, "operational", None) /\ UNCHANGED <<listed, walk>>
    /\ UNCHANGED <<staging, repository, day, runs, asked>>

\* restic ls: the App's directory is there or it is not.
Holds(s, a) == s.apps[a] # "none"

\* What cannot be read, a snapshot forgotten since the listing included.
Unreadable(s) == s \notin snaps \/ "net" \in Faults

\* Mutant: a snapshot that cannot be read is passed over.
LookPast(p) ==
    /\ at[p] = "walk"
    /\ LET s == Newest(walk[p])  rest == walk[p] \ {s}
       IN  \/ s \in snaps /\ Holds(s, asked[p].app) /\ Judge(p, s) /\ UNCHANGED walk
           \/ /\ Unreadable(s) \/ ~Holds(s, asked[p].app)
              /\ walk' = [walk EXCEPT ![p] = rest]
              /\ IF rest = {} THEN Report(p, "missing", s)
                              ELSE UNCHANGED <<at, job, creating, verdict>>
    /\ UNCHANGED <<staging, repository, day, runs, asked, listed>>

\* It ends the walk: it is not taken for a snapshot without the App.
LookInto(p) ==
    /\ at[p] = "walk"
    /\ LET s == Newest(walk[p])  rest == walk[p] \ {s}
           newest == Newest(Of(asked[p].host, listed[p]))
       IN  \/ /\ Unreadable(s) /\ Report(p, "operational", newest)
              /\ UNCHANGED walk
           \/ /\ s \in snaps /\ Holds(s, asked[p].app) /\ Judge(p, s)
              /\ UNCHANGED walk
           \/ /\ s \in snaps /\ ~Holds(s, asked[p].app)
              /\ walk' = [walk EXCEPT ![p] = rest]
              /\ IF rest = {} THEN Report(p, "missing", newest)
                              ELSE UNCHANGED <<at, job, creating, verdict>>
    /\ UNCHANGED <<staging, repository, day, runs, asked, listed>>

----------------------------------------------------------------------------
\* The process dies, and with it the restic or ssh that it waits for.
Kill(p) ==
    /\ "kill" \in Faults /\ at[p] # "idle"
    /\ Leave(p)
    /\ UNCHANGED <<staging, repository, day, runs, verifying>>

NextDay ==
    /\ day < LastDay /\ day' = day + 1
    /\ UNCHANGED <<staging, repository, runs, at, job, creating, verifying>>

Create(p) == BeginCreate(p) \/ Reach(p) \/ OpenApp(p) \/ CopyApp(p) \/ AppFails(p) \/ Created(p)
Offsite(p) == BeginPush(p) \/ Probe(p) \/ InitRepo(p) \/ Push(p)
Retire(p) == BeginPrune(p) \/ Prune(p) \/ Cleanup(p) \/ Remove(p)
Verify(p) == BeginVerify(p) \/ List(p) \/ LookInto(p)

Next ==
    \/ \E p \in Procs : Create(p) \/ Offsite(p) \/ Retire(p) \/ Verify(p) \/ Kill(p)
    \/ NextDay

Spec == Init /\ [][Next]_vars

----------------------------------------------------------------------------
(***************************************************************************)
(* Properties.                                                             *)
(***************************************************************************)
\* What a sync pushes is exactly the Apps whose backup succeeded, each of
\* them whole, whatever failed, died or ran beside it (session.rs `create`,
\* commands/backup.rs `run_backup_sync`).
SyncedIsWhole ==
    \A s \in pushed : s.by = "sync" =>
        \A a \in Apps : s.apps[a] = IF a \in s.ok THEN "whole" ELSE "none"

\* Retention never takes a Host's newest snapshot, whatever else the
\* repository is shared with (session.rs `forget_args`, prune.md).
HostsKeepNewest ==
    [][\A h \in Hosts : Of(h, snaps) # {} => Newest(Of(h, snaps)) \in snaps']_vars

\* A Host that was reported verified stays backed up that freshly: neither a
\* prune that ran during the verify nor any later one takes the last snapshot
\* the answer could be about (verify.rs `verdict`).
VerifiedStaysBacked ==
    \A p \in Procs : verdict[p].status = "verified" =>
        \E s \in snaps : s.host = asked[p].host /\ asked[p].day - s.day <= MaxAge

\* Whatever is pushed and forgotten during the walk, the answer is the one
\* the listing alone gives: the newest snapshot that holds the App, judged by
\* its age, or that none does; "missing" never means "could not be read"
\* (verify.rs `newest_holding_app`).
VerdictIsTheListings ==
    \A p \in Procs : verdict[p].status \in {"verified", "stale", "missing", "nothing"} =>
        LET hold == {s \in Of(asked[p].host, listed[p]) :
                       asked[p].app = None \/ Holds(s, asked[p].app)}
        IN  IF hold = {}
            THEN verdict[p].status = IF Of(asked[p].host, listed[p]) = {}
                                     THEN "nothing" ELSE "missing"
            ELSE /\ verdict[p].snap = Newest(hold)
                 /\ verdict[p].status = IF asked[p].day - Newest(hold).day > MaxAge
                                        THEN "stale" ELSE "verified"

\* With one run after the other, a staged backup is given up only once the
\* repository holds every App that is whole in it, also when runs fail or die
\* (commands/backup.rs `run_backup_sync`, cleanup only after the push).
StagingOutlivesItsPush ==
    [][\A d \in DOMAIN staging, a \in Apps :
         staging[d][a] = "whole" /\ (d \notin DOMAIN staging' \/ staging'[d][a] # "whole") =>
            \E s \in snaps' : s.host = d[1] /\ s.apps[a] = "whole"]_vars

\* What ADR-0026 leaves to the verdict: a backup that is verified for an App
\* is complete.  Its directory may be what a killed run left of it.
VerifiedIsComplete ==
    \A p \in Procs : verdict[p].status = "verified" /\ asked[p].app # None =>
        verdict[p].snap.apps[asked[p].app] = "whole"

\* What verify.md promises of partial syncs: the snapshot an App is verified
\* against outlives a sync of other Apps.
OthersStayVerified ==
    [][\A h \in Hosts, a \in Apps :
         LET hold == {s \in Of(h, snaps) : Holds(s, a)}
         IN  hold # {} => Newest(hold) \in snaps']_vars

=============================================================================
