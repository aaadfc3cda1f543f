--------------------------------- MODULE Bichon ---------------------------------
(***************************************************************************)
(* The `auberge bichon` commands (commands/bichon, services/bichon)        *)
(* against one Host: Bichon's Internal Store and the folders it syncs, the *)
(* append-only Email Archive, and the archive service a timer also starts. *)
(* The mail server, the timer and Bichon's own users move between any two  *)
(* calls of a command.                                                     *)
(***************************************************************************)
EXTENDS Naturals, Sequences, FiniteSets

CONSTANTS
    Roster,             \* the accounts, sorted by email
    Folders,
    Excluded,           \* junk, trash, and the operator's extra exclusions
    Mail,               \* messages that may exist, each its own body
    FirstWorlds,        \* what the Host may hold before the command
    Commands,           \* what the operator may ask for
    PageSize, Overlap,
    Days,               \* the range of message dates and cutoffs
    MaxMoves,           \* changes of the mailbox during a run
    MaxTicks,           \* timer runs
    MaxLosses           \* calls and downloads that fail

VARIABLES
    store,              \* the Internal Store's messages
    synced,             \* account -> its sync_folders
    boxes,              \* account -> the folders of its mailbox
    archive,            \* the sidecars, one per archived body
    cursor,             \* account -> its archive cursor, a message date
    job,                \* bichon-archive.service
    journal,            \* what its runs logged
    cmd,                \* the operator's command
    moves, ticks, losses

BichonVars == <<store, synced, boxes, archive, cursor, job, journal, cmd, moves, ticks, losses>>
MailVars == <<store, synced, boxes, moves>>
ArchiveVars == <<archive, cursor, job, journal, ticks>>

Accounts == {Roster[i] : i \in DOMAIN Roster}
Synthetic == "synthetic"
\* A path names a month, a search bounds a day.
Month(day) == (day + 1) \div 2
Sidecar(m) == [n |-> m.n, acct |-> m.acct, folder |-> m.folder, id |-> m.id, date |-> m.date,
               keyed |-> TRUE]

\* A sidecar, from before they carried an identity or not, tells of a message,
\* and a body has one.
ASSUME BichonAssumption ==
    /\ Roster \in Seq(Accounts) /\ Roster # << >> /\ Days \subseteq Nat
    /\ \A i, j \in DOMAIN Roster : Roster[i] = Roster[j] => i = j
    /\ PageSize \in Nat \ {0} /\ {Overlap, MaxMoves, MaxTicks, MaxLosses} \subseteq Nat
    /\ IsFiniteSet(Mail)
    /\ \A m \in Mail : /\ {"n", "acct", "folder", "id", "date"} \subseteq DOMAIN m
                       /\ m.n \in Nat /\ m.date \in Nat
    /\ \A m, o \in Mail : m.n = o.n => m = o
    /\ \A w \in FirstWorlds :
         /\ w.store \subseteq Mail /\ w.cursor \in [Accounts -> Nat]
         /\ w.archive \subseteq {[Sidecar(m) EXCEPT !.keyed = k] : m \in Mail, k \in BOOLEAN}
         /\ \A x, y \in w.archive : x.n = y.n => x = y
         /\ {w.synced, w.boxes} \subseteq [Accounts -> SUBSET Folders]

NoJob == [on |-> FALSE, todo |-> <<>>, walking |-> FALSE, more |-> FALSE, since |-> 0, page |-> 1, top |-> 0,
          failures |-> 0, total |-> 0, ok |-> TRUE]
Waiting == 3
NoCommand == [kind |-> "", phase |-> "idle", picked |-> {}, folder |-> "", before |-> 0,
              apply |-> FALSE, known |-> [a \in Accounts |-> {}], todo |-> <<>>, desired |-> {},
              listed |-> {}, page |-> 1, mark |-> 0, exit |-> Waiting,
              seen |-> {}, steady |-> TRUE, quiet |-> TRUE, alone |-> TRUE, done |-> {}]

BichonInit ==
    /\ \E w \in FirstWorlds :
         /\ store = w.store /\ synced = w.synced /\ boxes = w.boxes
         /\ archive = w.archive /\ cursor = w.cursor
    /\ job = NoJob /\ journal = <<>> /\ cmd = NoCommand
    /\ moves = 0 /\ ticks = 0 /\ losses = 0

----------------------------------------------------------------------------
(* Searches: pages by offset over the messages sorted by date.             *)

Before(x, y) == x.date < y.date \/ (x.date = y.date /\ x.n < y.n)
Offset(found, m) == Cardinality({x \in found : Before(x, m)})
Page(found, k) ==
    {m \in found : (k - 1) * PageSize <= Offset(found, m) /\ Offset(found, m) < k * PageSize}
\* page >= total_pages, as the answer has it; so is an empty page.
IsLast(found, k) == Cardinality(found) <= k * PageSize

----------------------------------------------------------------------------
(* The world around a command.                                             *)

\* Bichon ingests the folders it syncs, whatever a message's date.
Arrive ==
    /\ moves < MaxMoves
    /\ \E m \in Mail \ store :
         /\ m.folder \in synced[m.acct]
         /\ ~\E x \in archive : x.n = m.n
         /\ store' = store \cup {m}
    /\ moves' = moves + 1
    /\ UNCHANGED <<synced, boxes, cmd>> /\ UNCHANGED ArchiveVars /\ UNCHANGED losses

\* A message is deleted or expunged upstream.
Depart ==
    /\ moves < MaxMoves
    /\ \E m \in store : store' = store \ {m}
    /\ moves' = moves + 1
    /\ cmd' = [cmd EXCEPT !.steady = FALSE]
    /\ UNCHANGED <<synced, boxes>> /\ UNCHANGED ArchiveVars /\ UNCHANGED losses

\* A folder is made or removed in a mailbox, or edited in Bichon's own page.
Refolder ==
    /\ moves < MaxMoves
    /\ \E a \in Accounts, f \in Folders :
         \/ /\ boxes' = [boxes EXCEPT ![a] = IF f \in @ THEN @ \ {f} ELSE @ \cup {f}]
            /\ synced' = synced
         \/ /\ synced' = [synced EXCEPT ![a] = IF f \in @ THEN @ \ {f} ELSE @ \cup {f}]
            /\ boxes' = boxes
    /\ moves' = moves + 1
    /\ cmd' = [cmd EXCEPT !.alone = FALSE]
    /\ UNCHANGED store /\ UNCHANGED ArchiveVars /\ UNCHANGED losses

----------------------------------------------------------------------------
(* bichon-archive.service: one account after another.                      *)

\* list_accounts, and the first account's pass.
Started == [NoJob EXCEPT !.on = TRUE, !.todo = Roster]

\* The hourly timer.
Tick ==
    /\ ticks < MaxTicks
    /\ ~job.on
    /\ job' = Started
    /\ ticks' = ticks + 1
    /\ cmd' = [cmd EXCEPT !.quiet = @ /\ cmd.phase \notin {"reset", "mark", "start"}]
    /\ UNCHANGED <<archive, cursor, journal, losses>> /\ UNCHANGED MailVars

\* process_account: sidecars without an identity are repaired from their
\* bodies, or counted when they cannot be, and the walk starts a little before the
\* cursor; or the sidecars cannot be read back, and the pass fails before it begins.
Walk ==
    /\ job.on /\ ~job.walking /\ job.todo # <<>>
    /\ LET a == Head(job.todo)
           begun(broken) ==
               [job EXCEPT !.walking = TRUE, !.more = TRUE, !.page = 1, !.failures = 0, !.top = cursor[a],
                           !.since = IF cursor[a] < Overlap THEN 0 ELSE cursor[a] - Overlap,
                           !.total = @ + broken]
       IN \/ /\ archive' = {IF x.acct = a THEN [x EXCEPT !.keyed = TRUE] ELSE x : x \in archive}
             /\ job' = begun(0)
             /\ losses' = losses
          \/ /\ losses < MaxLosses /\ losses' = losses + 1
             /\ job' = begun(1)
             /\ archive' = archive
          \/ /\ losses < MaxLosses /\ losses' = losses + 1
             /\ job' = [job EXCEPT !.todo = Tail(@), !.total = @ + 1]
             /\ archive' = archive
    /\ UNCHANGED <<cursor, journal, ticks, cmd>> /\ UNCHANGED MailVars

\* One page: what the archive does not hold is downloaded, or fails; or the
\* search itself does, which ends the walk.
InPass(a) == {m \in store : m.acct = a /\ m.date >= job.since}
Fetch ==
    /\ job.on /\ job.walking /\ job.more
    /\ LET found == InPass(Head(job.todo))
           page == Page(found, job.page)
           fresh == {m \in page : ~\E x \in archive : x.n = m.n}
           top == IF page = {} THEN job.top
                  ELSE LET d == CHOOSE d \in {m.date : m \in page} : \A m \in page : m.date <= d
                       IN IF d > job.top THEN d ELSE job.top
           turned == [job EXCEPT !.page = @ + 1, !.top = top, !.more = ~IsLast(found, job.page)]
       IN \/ /\ archive' = archive \cup {Sidecar(m) : m \in fresh}
             /\ job' = turned
             /\ losses' = losses
          \/ /\ losses < MaxLosses /\ losses' = losses + 1
             /\ \/ /\ \E bad \in fresh : archive' = archive \cup {Sidecar(m) : m \in fresh \ {bad}}
                   /\ job' = [turned EXCEPT !.failures = @ + 1]
                \/ /\ archive' = archive
                   /\ job' = [job EXCEPT !.more = FALSE, !.failures = @ + 1]
    /\ UNCHANGED <<cursor, journal, ticks, cmd>> /\ UNCHANGED MailVars

\* The account's summary; its cursor moves only when nothing failed.  Then the
\* snapshot of its tags, which may fail too.
Settle ==
    /\ job.on /\ job.walking /\ ~job.more
    /\ LET a == Head(job.todo)
       IN /\ cursor' = IF job.failures = 0 THEN [cursor EXCEPT ![a] = job.top] ELSE cursor
          /\ journal' = Append(journal, [acct |-> a, failures |-> job.failures])
          /\ \E snapshot \in {0, 1} :
               /\ losses + snapshot <= MaxLosses /\ losses' = losses + snapshot
               /\ job' = [job EXCEPT !.walking = FALSE, !.todo = Tail(@),
                                     !.total = @ + job.failures + snapshot]
    /\ UNCHANGED <<archive, ticks, cmd>> /\ UNCHANGED MailVars

\* total_failures, and the unit's exit; a unit may also be killed.
Finish ==
    /\ job.on /\ ~job.walking
    /\ \/ /\ job.todo = <<>>
          /\ job' = [NoJob EXCEPT !.ok = job.total = 0]
          /\ journal' = Append(journal, [acct |-> "total", failures |-> job.total])
          /\ losses' = losses
       \/ /\ losses < MaxLosses
          /\ losses' = losses + 1
          /\ job' = [NoJob EXCEPT !.ok = FALSE]
          /\ journal' = journal
    /\ UNCHANGED <<archive, cursor, ticks, cmd>> /\ UNCHANGED MailVars

----------------------------------------------------------------------------
(* Choosing what a command is about.                                       *)

Ended(c, code) == [c EXCEPT !.phase = "done", !.exit = code]
Keep == UNCHANGED MailVars /\ UNCHANGED ArchiveVars

\* connect: the accounts with the folders they sync now; a token missing, an
\* unreachable Bichon or an empty roster ends any command.
Connected(kind) == [NoCommand EXCEPT !.kind = kind, !.known = synced, !.seen = store]
Refused(kind) ==
    /\ losses < MaxLosses
    /\ losses' = losses + 1
    /\ cmd' = Ended([NoCommand EXCEPT !.kind = kind], IF kind = "reconcile" THEN 1 ELSE 2)

\* resolve_account_filter: one account, or all of them.
Filters == {Roster} \cup {<<a>> : a \in Accounts}

\* The command's own calls that fail, or answer.
Fails(code) ==
    /\ losses < MaxLosses
    /\ losses' = losses + 1
    /\ cmd' = Ended(cmd, code)

----------------------------------------------------------------------------
(* verify-coverage.                                                        *)

\* select_account, and select_synced_folder over the set Bichon listed.
Verify ==
    /\ "verify" \in Commands /\ cmd.phase = "idle"
    /\ \/ Refused("verify")
       \/ \E a \in Accounts, f \in Folders, day \in Days :
            /\ cmd' = IF f \in synced[a]
                      THEN [Connected("verify") EXCEPT !.phase = "search", !.picked = {a},
                                                       !.folder = f, !.before = day]
                      ELSE Ended(Connected("verify"), 2)
            /\ losses' = losses
    /\ Keep

\* Mutant: the bound is taken to be exclusive already.
OffByOneWindow(a) == {m \in store : m.acct = a /\ m.date <= cmd.before - 2}
\* compute_coverage's query: strictly older than the cutoff, every folder.
InWindow(a) == {m \in store : m.acct = a /\ m.date <= cmd.before - 1}

\* search_messages: page after page, until one is empty or the last.  What was
\* listed on two pages is listed twice.
Search ==
    /\ cmd.phase = "search"
    /\ LET found == InWindow(CHOOSE a \in cmd.picked : TRUE)
           next == [cmd EXCEPT !.listed = @ \cup ({cmd.page} \X Page(found, cmd.page)), !.page = @ + 1]
       IN \/ /\ cmd' = IF IsLast(found, cmd.page) THEN [next EXCEPT !.phase = "rows"] ELSE next
             /\ losses' = losses
          \/ Fails(2)
    /\ Keep

\* The sidecars in scope: the folder they were first seen in, and the cutoff's
\* whole month.
Scope(a) ==
    {x \in archive : x.acct = a /\ x.folder = cmd.folder /\ Month(x.date) <= Month(cmd.before)}
Claims(id) == {e \in cmd.listed : e[2].folder = cmd.folder /\ e[2].id = id}
Bodies(rows, id) == {x \in rows : x.id = id}
\* compare_coverage and CoverageReport::status: no id without a body, and no
\* more claims than bodies for an id, or for the messages without one.
Covered(rows) ==
    \A e \in cmd.listed :
        e[2].folder = cmd.folder =>
            LET id == e[2].id
            IN /\ Cardinality(Claims(id)) <= Cardinality(Bodies(rows, id))
               /\ id # Synthetic => Bodies(rows, id) # {}

\* The walk over SSH, after the search; a row without identity fails by name.
Compare ==
    /\ cmd.phase = "rows"
    /\ LET rows == Scope(CHOOSE a \in cmd.picked : TRUE)
       IN \/ /\ cmd' = Ended(cmd, IF {x \in archive : x.acct \in cmd.picked} = {}
                                       \/ \E x \in rows : ~x.keyed THEN 2
                                  ELSE IF Covered(rows) THEN 0 ELSE 1)
             /\ losses' = losses
          \/ Fails(2)
    /\ Keep

----------------------------------------------------------------------------
(* reconcile-folders.                                                      *)

Reconcile ==
    /\ "reconcile" \in Commands /\ cmd.phase = "idle"
    /\ \/ Refused("reconcile")
       \/ \E chosen \in Filters, apply \in BOOLEAN :
            /\ cmd' = [Connected("reconcile") EXCEPT
                         !.phase = "list", !.picked = {chosen[i] : i \in DOMAIN chosen},
                         !.apply = apply, !.todo = chosen]
            /\ losses' = losses
    /\ Keep

\* The account is planned, and the next one's turn comes.
NextAccount(c) ==
    LET rest == [c EXCEPT !.todo = Tail(@), !.done = @ \cup {[acct |-> Head(c.todo), desired |-> c.desired]}]
    IN IF rest.todo = <<>> THEN Ended(rest, 0) ELSE [rest EXCEPT !.phase = "list"]

Differs(desired, current) == desired # current

\* list_mailboxes and is_excluded, against the folders connect listed.
ListFolders ==
    /\ cmd.phase = "list"
    /\ LET a == Head(cmd.todo)
           planned == [cmd EXCEPT !.desired = boxes[a] \ Excluded]
       IN \/ /\ cmd' = IF Differs(planned.desired, cmd.known[a]) /\ cmd.apply
                       THEN [planned EXCEPT !.phase = "update"] ELSE NextAccount(planned)
             /\ losses' = losses
          \/ Fails(1)
    /\ Keep

\* update_account_sync_folders writes the whole set; the answer may be lost.
Update ==
    /\ cmd.phase = "update"
    /\ LET a == Head(cmd.todo)
       IN \/ /\ synced' = [synced EXCEPT ![a] = cmd.desired]
             /\ cmd' = NextAccount(cmd)
             /\ losses' = losses
          \/ /\ synced' \in {synced, [synced EXCEPT ![a] = cmd.desired]}
             /\ Fails(1)
    /\ UNCHANGED <<store, boxes, moves>> /\ UNCHANGED ArchiveVars

----------------------------------------------------------------------------
(* rescan: execute_rescan over SSH.                                        *)

Rescan ==
    /\ "rescan" \in Commands /\ cmd.phase = "idle"
    /\ \/ Refused("rescan")
       \/ \E chosen \in Filters :
            /\ cmd' = [Connected("rescan") EXCEPT
                         !.phase = "stale", !.picked = {chosen[i] : i \in DOMAIN chosen},
                         !.todo = chosen]
            /\ losses' = losses
    /\ Keep

\* A sidecar without identity refuses the run before anything is reset.
Precondition ==
    /\ cmd.phase = "stale"
    /\ \/ /\ cmd' = IF \E x \in archive : ~x.keyed THEN Ended(cmd, 2)
                    ELSE [cmd EXCEPT !.phase = "busy"]
          /\ losses' = losses
       \/ Fails(2)
    /\ Keep

\* is-active: only its output answers, so a lost answer reads as inactive.
Busy == job.on
AskActive ==
    /\ cmd.phase = "busy"
    /\ \/ /\ cmd' = IF Busy THEN Ended(cmd, 2) ELSE [cmd EXCEPT !.phase = "reset"]
          /\ losses' = losses
       \/ /\ losses < MaxLosses
          /\ losses' = losses + 1
          /\ cmd' = [cmd EXCEPT !.phase = "reset", !.quiet = ~job.on]
    /\ Keep

\* cursor_reset_command, one account at a time; a failure leaves the rest.
Reset ==
    /\ cmd.phase = "reset"
    /\ \/ /\ cursor' = [cursor EXCEPT ![Head(cmd.todo)] = 0]
          /\ cmd' = [cmd EXCEPT !.todo = Tail(@),
                                !.phase = IF Len(cmd.todo) = 1 THEN "mark" ELSE "reset"]
          /\ losses' = losses
       \/ /\ cursor' = cursor
          /\ Fails(2)
    /\ UNCHANGED <<archive, job, journal, ticks>> /\ UNCHANGED MailVars

\* The journal's position, then the start, which joins a run under way.
Mark ==
    /\ cmd.phase = "mark"
    /\ \/ cmd' = [cmd EXCEPT !.phase = "start", !.mark = Len(journal)] /\ losses' = losses
       \/ Fails(2)
    /\ Keep
Start ==
    /\ cmd.phase = "start"
    /\ cmd' = [cmd EXCEPT !.phase = "wait"]
    /\ job' = IF job.on THEN job ELSE Started
    /\ UNCHANGED <<archive, cursor, journal, ticks, losses>> /\ UNCHANGED MailVars

\* RescanRun::status
RunStatus(failed, ok) == IF failed THEN 1 ELSE IF ok THEN 0 ELSE 2
\* parse_run_report: the last total after the mark.
CountedFailures ==
    LET lines == SubSeq(journal, cmd.mark + 1, Len(journal))
        totals == SelectSeq(lines, LAMBDA r : r.acct = "total")
    IN totals # <<>> /\ totals[Len(totals)].failures > 0
\* start returns when the run ends.
Report ==
    /\ cmd.phase = "wait" /\ ~job.on
    /\ \/ cmd' = Ended(cmd, RunStatus(CountedFailures, job.ok)) /\ losses' = losses
       \/ Fails(2)
    /\ Keep

HostNext == Arrive \/ Depart \/ Refolder \/ Tick \/ Walk \/ Fetch \/ Settle \/ Finish
CommandNext ==
    \/ Verify \/ Search \/ Compare \/ Reconcile \/ ListFolders \/ Update
    \/ Rescan \/ Precondition \/ AskActive \/ Reset \/ Mark \/ Start \/ Report
BichonNext == HostNext \/ CommandNext
BichonSpec == BichonInit /\ [][BichonNext]_BichonVars

----------------------------------------------------------------------------
(* Properties.                                                             *)

Held(m) == \E x \in archive : x.n = m.n

\* What verify-coverage's exit 0 promises of the messages there from the start.
Promised ==
    \A m \in cmd.seen \cap store :
        (/\ m.acct \in cmd.picked /\ m.folder = cmd.folder /\ m.date < cmd.before
         /\ m.id # Synthetic
         /\ ~\E o \in Mail : o.id = m.id /\ o.n # m.n)
        => Held(m)

\* A covered folder is covered: while no message leaves the store, and for ids
\* no two bodies claim, exit 0 of verify-coverage means every message of the
\* folder and the window that was there from the start is in the archive,
\* though mail arrives and the archive grows meanwhile (compute_coverage,
\* search_messages, compare_coverage).
CoveredMeansArchived == (cmd.kind = "verify" /\ cmd.exit = 0 /\ cmd.steady) => Promised

\* "covered - every store message in the window is archived"
\* (verify-coverage.md), whatever leaves the store between two pages.
CoveredDespiteRemovals == (cmd.kind = "verify" /\ cmd.exit = 0) => Promised

\* A Message-ID claimed twice is not covered by one body, whatever the order
\* in which the two messages were imported and archived (compare_coverage,
\* CoverageReport::status).
ContestedNeedsEveryBody ==
    (cmd.kind = "verify" /\ cmd.exit = 0) =>
        \A d, e \in cmd.listed :
            (d[2].n # e[2].n /\ d[2].id = e[2].id /\ d[2].folder = cmd.folder /\ e[2].folder = cmd.folder)
            => \E x, y \in archive : x.n # y.n /\ x.id = d[2].id /\ y.id = x.id

\* Once a rescan is clean, every message its accounts had in the store when it
\* began, and kept, is archived, however far behind the cursor it was dated,
\* unless an archive run was under way when the answer of is-active was lost, or
\* the timer began one between that question and the rescan's own start.
CleanMeansArchived ==
    (cmd.kind = "rescan" /\ cmd.exit = 0 /\ cmd.steady /\ cmd.quiet) =>
        \A m \in cmd.seen \cap store : m.acct \in cmd.picked => Held(m)

\* What the operator is told of the archive is true (the two above): a covered
\* folder and a clean rescan leave no message behind.
ArchiveReportsAreTrue == CoveredMeansArchived /\ CleanMeansArchived

\* "An archive run is in progress - a reset mid-run would be overwritten by
\* that run's own cursor write" (rescan.md): the refusal keeps a clean rescan
\* from ever being that run.
CleanRegardlessOfTimer ==
    (cmd.kind = "rescan" /\ cmd.exit = 0 /\ cmd.steady) =>
        \A m \in cmd.seen \cap store : m.acct \in cmd.picked => Held(m)

\* An applied reconcile that nobody edited against leaves each account it
\* walked with the folders it planned, and never touches another account
\* (compute_reconcile, update_account_sync_folders).
AppliedMeansSynced ==
    [][(cmd.kind = "reconcile" /\ cmd.phase # "done" /\ cmd'.phase = "done" /\ cmd.alone) =>
        /\ (cmd'.exit = 0 /\ cmd.apply) => \A r \in cmd'.done : synced'[r.acct] = r.desired
        /\ \A a \in Accounts \ cmd.picked : synced'[a] = cmd.known[a]]_BichonVars
=============================================================================
