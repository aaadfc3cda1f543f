# Auberge in TLA+

A TLA+ model of the parts of auberge whose correctness depends on order,
failure and concurrency, with TLC runs over small instances and TLAPS proofs for
instances of every size. Line references are to the repository; the map from each
definition to its lines is in `PROJECT.json`.

Auberge is a command line program. Each invocation is a process that reads a few
local files, drives one Host through ssh or a service through its API, and exits;
there is no daemon and hardly any lock. What is hard about it is therefore not
inside one process: it is what a process that fails or is killed leaves on the
Host, in a file or at a service, what two processes do to the same file, what a
detached command does after the process that sent it has gone on, and what
happens between reading a state and acting on it.

## Inventory

| Part | State it keeps | Operations | Interacts with | What is hard | Module |
|---|---|---|---|---|---|
| Deadman (`services/backup/deadman.rs`, `ssh/transport.rs`) | a transient systemd unit per App, a fire marker | arm, disarm, fire, fire check | executor (arms and disarms), systemd (runs the recovery) | arms are detached and arbitrarily late; the driver may be dead or alive when it fires | `Deadman` |
| Recipe executor (`backup/executor.rs`, `recipe.rs`, `ssh.rs`) | the App's units, its data, a private staging directory | backup, restore | the Host, the deadman | units must come back on every path, the driver's death included | `RecipeExecutor` |
| Backup session, offsite, verdict (`backup/session.rs`, `restic.rs`, `verify.rs`, `commands/backup.rs`) | the staging root `{host}/{timestamp}/{app}`, the restic repository | create, sync, push, prune, verify, list | executor (one copy per App), restic | partial failures, deaths mid-copy, retention, listings that go stale | `BackupPipeline` |
| Restore session (`backup/restore.rs`, `commands/backup.rs`) | the plan, the emergency backup | restore | session, executor, deploy | the rollback must cover the blast radius; nothing after a failed App | `RestoreSession` |
| Host roster, include, rename (`hosts.rs`, `ssh_include.rs`, `commands/host.rs`) | `hosts.toml`, the ssh include, key directories, config tables, the Host's hostname | add, remove, edit, detect, list, rename | ssh, known_hosts, config | six places renamed without a transaction; no lock; truncating writes | `HostRoster` |
| Route and selection (`route.rs`, `inventory.rs`, `prompt.rs`) | the `--via` override of a process | resolve, pick, inventory, allowlist | roster, ansible, fail2ban, DNS | one roster read several times, two addresses per Host | `Routes` |
| known_hosts trust (`services/known_hosts.rs`) | `~/.ssh/known_hosts` | migrate (each roster read), inspect, forget | ssh, ansible, roster | two spellings per key, one process per lookup and removal | `KnownHosts` |
| ssh keys and sessions (`commands/ssh.rs`, `services/ssh.rs`, `ssh/transport.rs`) | key pairs, `authorized_keys`, control sockets | keygen, add-key, resolve | ssh-keygen, ssh | a pair replaced in four steps; a socket that stands for another key | `Identities` |
| Ansible assets (`ansible_assets.rs`, `ansible_runner.rs`) | one extracted tree per fingerprint, lock files, the collection cache | prepare, extract, sweep, play | all commands of all installed versions | sweeps of one version against uses of another | `AnsibleAssets` |
| Config and its registry (`config.rs`, `config_cmd.rs`, `key_registry.rs`) | `config.toml` | set, remove, init, edit, rename of a table, preflight | nearly everything | whole-file writes from a copy; two ways of resolving an answer | `Config`, `Zones` |
| Deploy (`commands/deploy.rs`, `ansible.rs`, resolver, required keys) | none of its own | deploy, ansible run, bootstrap | ansible, unit state, DNS | which roles a run enters, what was asked before, what a failure stops | `Deploy` |
| Unit report, failure digest (`unit_state.rs`, `ansible_runner.rs`) | the digest of a play's output | probe and report, observe | systemd, ansible | ages measured on two clocks; failures taken back later | `UnitReport`, `FailureDigest` |
| Subprocess output (`output.rs`) | the tail of stderr | run_piped, stream_command | ansible, rsync, restic | two pipes, one process | `Subprocess` |
| DNS and zones (`commands/dns.rs`, `dns.rs`, `zone.rs`, `dns_verify.rs`, `cloudflare_dns.rs`) | records at the provider | set, set-all, delete, migrate, status | provider's API | found by one call, written by the next; lost answers | `Dns`, `Zones` |
| Headscale (`commands/headscale.rs`) | users, nodes, keys on the control Host | users, keys, register, tag, revoke, auto-mint | ssh, roster, deploy | decisions on listings the tailnet outruns | `Headscale` |
| Bichon (`services/bichon`, `commands/bichon`) | folder selections, download cursors, the archive | verify-coverage, reconcile-folders, rescan | its HTTP API, the mail server, the hourly archive run | offset pages, cursors reset one by one | `Bichon` |
| Version pins (`commands/versions.rs`, `tool_versions.rs`) | none | versions, the gate of a built release | npm, GitHub, the Go proxy, Forgejo | an order over uneven versions; pages shared with other releases | `Versions` |
| GitHub machine user (`commands/github.rs`) | grants at GitHub | invite, verify | `gh` | invitations and permissions read apart | `Github` |
| Syncthing (`syncthing.rs`) | the peer's configuration | pair | local Syncthing | a plan applied call by call; who reads the folder | `Syncthing` |
| Music and hermes sync (`commands/sync.rs`) | the library's mirror, hermes' config | sync music, sync hermes, pull | rsync, systemd | interrupted copies, several machines | `Sync` |
| OPML, ssh_config reader, progress, entry point, roles, docs | none between steps | | | format handling, drawing, dispatch, declarative configuration | |

The correctness properties wanted of each part are the properties of its module,
listed below with what was found. The hazards behind them, each at its line, are
in `PROJECT.json`. Further ones, rarer or of less weight, are: the fire marker read and removed
by `cat && rm` (deadman.rs:141), two creates of one Host in one second
(commands/backup.rs:279), a failed free-space check that only warns
(commands/backup.rs:1470), the shared collection cache (ansible_assets.rs:74),
the two files of a roster write (hosts.rs:376), a rename that stops half-way
(commands/host.rs:700), `detect-tailscale-ip` over an edit made meanwhile
(commands/host.rs:369), staging removed behind a push that failed
(commands/backup.rs:463), an unfinished last line of `authorized_keys`
(commands/ssh.rs:124), an unmounted library (commands/sync.rs:94), and an entry
picked from a roster that changed behind the prompt (hosts.rs:469). All but the
first four are stated as properties of their modules all the same.

## Modules

### Backup and restore

`Deadman` is the Host side of one App's quiesce window: its units, the transient
unit with its timer and its recovery loop, the marker, and the arms that travel to
the Host. An arm runs as two commands (a disarm, then systemd-run), so another
command of the driver may run before, between or after.

`RecipeExecutor` extends it with the driver: `backup` and `restore` of one App
with services, one blocking ssh command at a time. `pc` names the command the
driver waits for; the operators `To...` are the order of the stages and pass over
those the Recipe does not ask for. Each command has its failure (`StepFails`,
`StopFails`, ...) with the code's error path, `Crash` is the driver's death at any
point (`signal.rs` exits at once), and `Begin` starts another run over whatever
the last one left on the Host.

`Custody` is the abstract specification of the two: whoever takes a unit down
answers for it, and what a driver leaves down by returning or dying falls to the
Host. `RecipeExecutor` instantiates it (`AppCustody`) with a refinement mapping.

`BackupPipeline` is the way from a Host's Apps to the offsite repository and back
to a verdict. `staging` maps a staged backup to what it holds of each App
(nothing, part, whole), `snaps` is the repository; `create` and `sync` fill and
push staged backups App by App, `push` takes one that is there, `prune` applies
restic's retention (an external operator, `Kept`, from restic's documented
rules: newest per day, per week, and the oldest while a rule is not used up; the
monthly rule is the weekly one, coarser, and is left out), `verify` lists once
and then looks into one snapshot after another. Several processes interleave.

`RestoreSession` is the way back: which staged backup an operator picks, the
Recipe parameters recorded beside it, the pre-flight, the emergency backup of a
cross-host restore and the choice to go on without it, each App's landing path by
path, and the redeploy. An App is its declared paths and the paths a parameter
adds, so a backup can hold more or less than today's declaration.

### Names, addresses, trust

`HostRoster` is every `host` command over `hosts.toml` and all that is keyed by
its names. A command reads the roster, connects or asks, reads it again and writes
the whole file: truncate, fill, then the include. `KnownHosts` is the trust store
of the same Hosts; its roster is only who is where. The two share no state but
the roster and are checked apart: `KnownHosts` has the roster write of a rename
as one action, `Rename`, where `HostRoster` has a step for each thing renamed.

`Routes` is the other side of the roster, its readers: `--via`, the pick among
the entries listed before the prompt opened, the address a command connects to,
the two addresses and the fail2ban allowlist a play is given, what `dns set-all`
publishes. `Declare` edits the roster between any two reads.

`Identities` is the operator's keys: `keygen` removes and writes a pair half by
half and may fail or die, `add-key` connects with a key that was named and
appends another, every other command resolves its own, and an open control socket
lets in whoever comes next to the same address.

`Headscale` is the control server, as commands that list, decide and change one
thing by id or name, each call of which may fail or lose its answer. A machine
enrolls under its own `Hostname`, which the roster's name need not be. `Event` is
the tailnet meanwhile. `Probe`, `MintKey` and `Play` are the auto-mint of a run.

`Zones` has no state: it is the answers of config.toml for each Host and what
they make of an App's placement, its pair of domain and token, and its names.
`Dns` extends it with the zone a run holds and the `dns` commands, in which a
record is found by one call and written by the next.

### Plays and what surrounds them

`AnsibleAssets` is the container of extracted trees with its exclusive lock and
the shared lock on each tree.

`Deploy` extends `Zones` with the runs of `deploy`, `ansible run` and `bootstrap`:
the names resolved to runs, the substrate put before Apps, the preflight of every
run before the first, the plays and the name checks after each. The playbooks are a
constant `Tree` of roles with tags and guards; `Entered` is what ansible enters,
`Selected` what the preflight thinks it does. `EditConfig` and `EditRoster` change config.toml and
hosts.toml between any two steps.

`Config` is config.toml itself: loads, truncating saves, and the two ways an
answer is resolved. `UnitReport` is the probe of the owned units after a failed
play, over a connection that takes as long as it likes; `FailureDigest`
the lines of ansible's output and what is kept of them; `Subprocess` the program,
its two pipes and the two threads that read them.

### Services

`Bichon` is the archive, the store, the cursors and the folder selection of a
mail Host under its three commands, a call at a time, with mail that moves and the
hourly run. A page is the set of messages whose offset, the number sorted before
them, falls on it, and the run walks it while the store and the archive move. `Versions` resolves pins upstream page by page; `compare_versions` is
the operator `Older` over segments. `Github`, `Syncthing` and `Sync` are the
grants, the pairing and the two syncs of their commands.

### Instances

The `MC...` modules define small instances for TLC; each `.cfg` is one run.
`MCNetwork`, `MCDeploy` and `MCPeers` each put several modules that share no
variable into one run: a variable `part`, fixed by the initial state, names the
one that moves, and the others rest in one state. They have the parts of one
question in one place; they add no interleaving between parts, since the code has
none that a property is about.

## Runs

`PROJECT.json` lists twelve runs, eleven that pass and one that shows what the
program says of itself violated by what the code does; each takes seconds to two
minutes on two cores.

- `ordered_window`: two runs over every shape of Recipe, two units, arms that
  land before the driver's next command, death and errors anywhere, and a timeout
  a whole stretch between two arms fits in. Data is touched only with every unit
  down (`QuiescedCopy`), the timer does not fire on a live driver
  (`LiveDriverNotPresumedDead`), nothing stays armed (`NothingStaysArmed`).
  Timeout 7 with commands of one tick is just above the longest stretch (two
  stops, or three commands between two arms), so a missing arm shows.
- `late_arms`: arms detached and as late as they like, up to two in flight. No
  unit is stranded (`NeverStranded`), every step is a step of `Custody`
  (`KeepsCustody`), and a stopped unit runs again (`StoppedUnitsComeBack`). One
  Recipe, of files only: the proofs have the first two for every Recipe, and what
  stands between the stop and the start loop changes the Host's units in none.
  Timeout 3 is below the length of a run, so the timer also fires on live drivers.
- `live_driver`: every fault but the driver's death, lost arms included: Ok means
  every unit is up (`OkMeansUp`).
- `pipeline_shared`: two processes, two Hosts, two Apps, three commands of any
  kind, two days, with failing Apps, a failing network and deaths. A sync pushes
  exactly the Apps that succeeded, whole (`SyncedIsWhole`); no prune takes a
  Host's newest snapshot (`HostsKeepNewest`); a verdict is the one its listing
  gives (`VerdictIsTheListings`), and a verified Host stays backed up that freshly
  (`VerifiedStaysBacked`). The policy keeps one day: a repository of a few
  snapshots is then over its limit, and evictions happen.
- `restore`: four creates and restores of two Apps between two Hosts, in which
  copies, pre-flights and pushes fail and restores are cut short. What a Host held
  is on it or whole in one of its backups (`NothingIsLost`), and a restore that
  says so restored all the backup holds (`RestoredIsTheBackup`). Four commands are
  a backup, a restore cut short, another that makes good or worse, and one that
  would overwrite the last copy.
- `roster_sequential`: three commands in a row of eight kinds over hand-edited
  rosters, with a failure, a death or a torn file. The include is level with the
  roster from the next write that gets through (`IncludeFollowsRoster`) and never
  names a tailnet route without an address (`PublishedRoutesResolve`). Three
  commands are one that leaves something behind, one that meets it and one after.
- `trust_sequential`: every way a key can be on file, a reinstalled machine, a
  death, three commands: trust follows the Host through each read
  (`TrustFollowsHost`), nothing is trusted blindly (`NeverTrustedBlindly`), a
  forgotten key stays forgotten (`ForgetSticks`).
- `assets_shared`: two processes open, extract, use, keep, drop and sweep, of the
  same version or two, with two failures or deaths and four opens. A live guard
  keeps its tree (`GuardedTreeStays`), a fingerprint is never seen half there
  (`TreesAreWhole`), who waits for the container gets an answer (`OpenReturns`).
- `network`, four parts. *Tailnet*: two processes give two of ten commands,
  two machines of the roster and a phone change twice on their own and one call
  fails or loses its answer. A Host leaves the roster with its node, or the
  operator is told (`RemovedIsRevoked`); a revoke deletes another machine's node
  only under the Host's very name and cached address, though addresses are handed
  out again and the machine of h2 calls itself h1 (`RevokeSparesOthers`); a play that
  was given no key because its Host was enrolled finds it enrolled, unless it was
  logged out in between (`PlayHasItsKey`). *Zone*: two `dns` commands over three
  Apps, one of them in a Zone of its own, and one lost call. A set-all that exits
  0 published its plan (`SuccessIsPublished`), and no bulk run writes into the fleet's
  zone for an App published elsewhere or not at all (`BulkStaysInItsZone`). *Keys*: two names for
  one account, three pairs, a keygen that fails once. An add-key that succeeded was let
  in by the key named, and what it added opens the machine (`AddedKeyOpens`).
  *Route*: two commands, two edits of the roster. `--via` moves the route or is
  refused, only public addresses are published, fail2ban spares every peer on both
  its addresses (`RoutesAreKept`).
- `deploy`, five parts. *Deploy*: fifteen demands over five playbooks, eight configs
  and three rosters, edited twice while it runs. A role that is entered has its
  keys (`KeysReachTheRoles`); a deploy that succeeds found its names
  (`SuccessIsVerified`). *Config*: three commands one after the other over four
  files. A save changes its own answer only (`SaveTouchesOnlyItsKey`); a play and
  the CLI read the same answer (`PlayAgrees`). *Units*: four owned units of
  three Apps, probed over a connection that takes any time from none to more than the
  play. The report errs about a unit by that time at most (`VerdictsErrByTheDelay`).
  *Digest*: four tasks of up to three
  items over a digest of two lines. It holds the failures that count
  (`DigestIsTheFailures`). *Pipe*: every script of three lines or four bytes over pipes of
  two units. The call returns and tells what the program did (`CallTellsTheChild`,
  the conjunction of `NobodyWaits` and `TellsTheChild`).
- `peers`, six parts. *Mail*: the three bichon commands over six messages of two
  accounts, pages of two, a message or folder that moves and a run of the timer.
  Covered and clean mean archived (`ArchiveReportsAreTrue`, the conjunction of
  `CoveredMeansArchived` and `CleanMeansArchived`). *Pins*: four upstreams that
  release up to four times between pages of two; the exit code tells drift
  (`ExitTellsDrift`). *GitHub*: two repos, two changes of their grants
  (`VerifyTellsTheGrants`). *Pair*: two Hosts, one rebuilt or renamed, two
  pairings that may be cut short (`PairedIsSettled`). *Music* and *hermes*: three
  tracks or two machines, three runs (`SyncedIsThere`).
- `starting_untouched` (violation of `UntouchedIsActive`): a unit that is running
  its ExecStartPre commands has the timestamp of the process it had before and is
  rolled up as "untouched, active since before this deploy".

### Stated but not in the runs

These hold on the instances of the runs named and are left out of them, mostly
because another property there says as much about the same hazard; TLC checks one
when it is put in the `.cfg`; those marked * are theorems (*Proofs*): `NoFalseAlarm`*,
`GuardNamesWindow`* (`ordered_window`), `HostRecovers` (`late_arms`),
`EveryReturnRestarts`* (`live_driver`), `SweepLeavesNoDebris`* (`assets_shared`),
`DetectNeverRoutes`*, `CommitIsLast`* (`roster_sequential`), `MintedForTheChosen`,
`OneRecordPerName`*, `MigrateOnlyRepoints` (`network`),
`RefusedIsUntouched`*, `SubstrateFirst`*, `BootstrapIsConfirmed`*, `NoBareTable`*,
`NothingIsHidden`* (`deploy`), `ContestedNeedsEveryBody`*, `AppliedMeansSynced`*,
`DeployFindsItsAsset`*, `NewestWhateverTheOrder`* (`peers`), and
the type invariants. Two have instances of their own:

- `StagingOutlivesItsPush` of `BackupPipeline`: `pipeline_shared` with one process,
  one Host, `Jobs = {"create", "sync", "push", "prune"}`, `MaxRuns = 4`,
  `KeepWeekly = 1` and "remove" among the `Faults`. One process, because the
  prune of another may evict a snapshot between the push of a sync and its cleanup.
- `RerunPasses`* and `RenameConverges` of `HostRoster`: `FairSpec`,
  `Jobs <- RenameAmongOthers`, `Rosters <- Valids`, `Tables <- BothTables`,
  `MaxJobs = 3`, `MaxFaults = 3`, `Faults = {"fail", "crash"}`: a rename cut short
  passes its own preflight again and in the end completes.

### Counterexamples

Statements of the documentation, of comments or of tests that the code does not
keep, found on the way. Five have their configuration beside the runs
(`arm_lost_silently`, `inherited_guard`, `partial_sync_evicts`, `rename_torn`,
`rescan_overtaken`); the others are the run named with the constants given.

Executor and deadman (`MCRecipeExecutor`):

- `UnguardedIsWarned` (`arm_lost_silently.cfg`; ssh/transport.rs:219). run_detached
  spawns ssh and never waits, so an arm that fails to connect leaves the window
  unguarded with no warning; executor.rs:349-353 promises "a visible trace that this
  window had no Host-side backstop".
- `NeverStranded` with stops that fail (`inherited_guard.cfg`; executor.rs:42). A
  driver dies with units down, the next run cannot stop one of them, restarts what
  it stopped itself, and disarms the guard it had inherited; the dead driver's
  units stay down. backup-restore-issues.md:23: "stopped services restart
  automatically via a Host-side deadman timer".
- `NothingStaysArmed` with `Detached = TRUE` and no fault (executor.rs:110). The
  last arm is detached and may land after the disarm; executor.rs:106-108: "nothing
  stays armed once it is".
- `LiveDriverNotPresumedDead` with `Timeout = 3` (executor.rs:99). Fetching a dump and
  removing the staging directory run on the arm of the last rsync. deadman.rs:22:
  "How long any single guarded step may run before the driver is presumed dead".
- `QuiescedCopy` with `Timeout = 2`, `StepMax = 3` (deadman.rs:111). A transfer
  longer than the timeout: the deadman starts the units under the copy of a live
  driver, which reports Ok. ADR-0066:11: "Start-only makes a fire racing a
  still-alive driver a no-op rather than a collision".
- `FireIsOnRecord` with two units, `CrashOnly`, two runs (deadman.rs:97). A re-arm
  stops the recovery before it writes its marker; deadman.rs:189-190: "a fire nobody
  is told about is the one outcome this whole mechanism exists to prevent".
- `GuardNamesWindow` with `Detached = TRUE` (executor.rs:110). A late arm of the
  emergency backup replaces the restore's timer; ADR-0066:13: the two "can never
  overlap for one App".

Backups (`MCBackupPipeline`, `MCRestoreSession`):

- `OthersStayVerified` under the policy of 7 days and 4 weeks
  (`partial_sync_evicts.cfg`; session.rs:171). The prune of a partial sync takes the
  full snapshot of the same day, so the other Apps fall back a day; backup/verify.md:33:
  "every other app is still verified against the full sync that holds it".
- `SyncedIsWhole` with "remove" among the faults (session.rs:143). The removal of a
  failed App's directory is ignored when it fails, and sync pushes the half-copied
  App; commands/backup.rs:473 reports "push/prune ran on {} successful app(s)".
- `VerifiedIsComplete` with create, push and verify and one death (verify.rs:326).
  Holding an App means that its directory is there. ADR-0026:59: "Asserting a
  backup is _complete_ is the Backup Verdict's job".
- `HostsKeepNewest` with `Legacy <- BeforeTags` (session.rs:171). Snapshots from
  before tagging are one group; prune.md:23: "Hosts sharing one repository never
  evict each other's snapshots."
- `NothingIsLost` with "die" among `Troubles` (commands/backup.rs:279). A create
  that dies leaves a staged backup with part of an App, which a restore takes as
  the newest; its rollback is then no rollback.

Roster and trust (`MCHostRoster`, `MCKnownHosts`):

- `RerunIsTheFix` (`rename_torn.cfg`; hosts.rs:376). fs::write truncates before it
  fills; what dies in between leaves a roster the rename's rerun cannot read. ADR-0024:29:
  "the fix for any partial failure is the command itself".
- `BehindIsReported` with two processes, `RenameAndRemove` (hosts.rs:376). Two
  commands that succeed write roster and include in opposite orders; hosts.rs:344-346:
  "reported, not silent".
- `DetectNeverRoutes` with two processes, `DetectAndEdit` (commands/host.rs:369). The
  entry written is the one read before the connection; host.rs:379-383: "Caching an
  address must never be what turns routing on".
- `AnySubcommandRepairs` with `RenameAndList` (ssh_include.rs:84). `host list` repairs
  nothing and the rename is refused; the error says "rerun any host subcommand
  after fixing".
- `RenamesEverywhere` with `BothTables` (commands/host.rs:702). [bichon.hosts.old]
  keeps the old name; rename.md:16: "Renames a host everywhere its name is
  load-bearing".
- `ForgetSticks` with two processes (known_hosts.rs:92). A roster read between the
  removals copies the stale key back; ADR-0076:17: "Forgetting a Host's key drops
  every spelling of it".
- `TrustFollowsHost` with `RenameAndConnect` (commands/host.rs:911). A rename leaves
  known_hosts alone; hosts.rs:277-278: it "carries every Host's already-verified host
  key forward".

Plays and configuration (`MCAnsibleAssets`, `MCDeploy`):

- `PlayedTreeStays` with one fault (ansible_assets.rs:178). The shared lock belongs
  to the driver; when it is killed its ansible-playbook reads a tree that may be
  swept. ADR-0034:22: "A tree in use cannot be swept".
- `SaveTouchesOnlyItsKey` with `Alone = FALSE` and two `Commands` (config.rs:452).
  The later of two saves undoes the earlier, and a load meets a truncated file.
- `DigestIsTheFailures` with `MixedLoops = TRUE` (ansible_runner.rs:73). An item that
  passes between two failed ones resets the count, so `...ignoring` takes back only
  the last of them; ansible_runner.rs:49-50 has the lines "with no intervening output".
- `UntouchedIsUntouched` (deploy.rs:609). The duration of the play is taken when it
  fails, the uptime it is subtracted from after the assets are extracted and the
  connection is up, so the window opens late by that time and a unit restarted early
  in a play is rolled up as "untouched, active since before this deploy"
  (unit_state.rs:277). With `StartPre = TRUE` also for the reason
  `starting_untouched` shows.
- `NeverKilled` (output.rs:257). A line that is not UTF-8 ends run_piped's reading,
  and the program is killed by the pipe it goes on writing to; output.rs:238: "an
  unread pipe can never stall the child".

Services and access (`MCBichon`, `MCPeers`, `MCNetwork`):

- `CleanRegardlessOfTimer` (`rescan_overtaken.cfg`; rescan.rs:214). A timer run
  that begins between the busy check and the reset writes its own cursor last and
  the rescan reports clean; bichon/rescan.md:29 lists it among the cases refused.
- `CoveredDespiteRemovals` with `Commands = {"verify"}`, `PageSize = 1` (api.rs:184).
  A message removed between two pages shifts the next one out of the listing;
  verify-coverage.md: "every store message in the window is archived".
- `MigratedMeansMoved` with `FirstZones <- DoubledZones`, one run of "migrate"
  (services/dns.rs:608). A name with two A records is set twice through the first one.
- `NewestWhateverTheOrder` with `Feeds <- MixedFeedsDef` (versions.rs:229). Among
  "9", "1x" and "10" the order is not transitive, so which is newest depends on the
  listing; the comment calls it a total order. Among segments that do compare as an
  order it does not depend on it (`NewestOfAnOrder`).
- `RevokesItsOwn` (headscale.rs:785). The roster's name of a Host may be what another
  machine calls itself (headscale.rs:757-760); with no address cached the name alone
  decides, and that machine's node is deleted. headscale.rs:778: "Deletes the node
  `host` enrolled as".
- `LibraryIsNotLost` (sync.rs:94). A library whose disk is not mounted is an empty
  source, and `--delete` mirrors it.
- `VerifyTellsTheGrants` with a repo `Spelled` otherwise than GitHub does
  (github.rs:248): its invitation is not recognised.
- `AddedKeyOpens` with `MaxKeygenFailures = 2` (a public key without its private
  half is authorized) or with `Ragged = {vps}` (ssh.rs:124: `echo >>` joins the key
  to an unfinished line, which append_known_hosts guards its file against).
- `OpenedByItsKey` (transport.rs:29). A warm control socket lets in a command whose
  own key would not be; two names at one user, address and port share it, and the
  second skips its HostKeyAlias check.
- `PickedIsCurrent` (hosts.rs:469). select_or_arg returns the entry listed before
  the prompt opened; the inventory's pick reads the roster again.

## Fairness

- `RecipeExecutor`: the Host's timer and shell run on their own (`HostNext`,
  `Tick`), and a command of a live driver returns (`DriverStep`): ssh runs with
  keepalives and the driver blocks on nothing else. No fairness is assumed of
  `Begin` or `Crash`.
- `HostRoster`: a process that lives takes its next step, and the operator gives a
  rename that was cut short again (`Rerun`): that is what ADR-0024 asks. Faults
  are bounded, so a rename is not made to fail for ever.
- `AnsibleAssets`: a process that runs goes on with its open. Nothing is assumed
  about how long an `AnsibleAssets` value is kept: nobody waits for one, since the
  sweep only tries its lock. The lock itself is granted fairly enough because
  opens are bounded; the file lock promises no order.
- The other modules state no fairness. That a call of `Subprocess` returns is a
  safety property there: `NobodyWaits` says that no state is reached in which program
  and readers all wait.

## Proofs

TLAPS checks what follows for every value of the constants; the runs of the same
names show it on a small instance. A theorem assumes the `ASSUME`s of the modules
it extends, which TLC evaluates in every run, and what it says after its own
ASSUME. Each hypothesis of that kind is one the property needs: without it TLC or
a reading of the code has a counterexample (the ones below, or *Counterexamples*).

**`RecipeExecutorProofs`**: `TypeCorrect`. `OkRunsLeaveUnitsUp`, under every fault.
`NothingIsStranded`, assuming that arms are only late and stops succeed
(`ArmsAndStopsSucceed`; `arm_lost_silently` and `inherited_guard` show what
happens without) and that the stop loop fits the timeout (`StopsFitTimer`). The
property speaks of moments without a driver, but a driver may die at any moment,
so the inductive invariant `Recoverable` says it of all moments: each unit that is
down without an error has something coming for it; during the stop loop either an
arm is on its way or the time left and the time spent make up the timeout; behind
the restart loop nothing is down. `ImplementsCustody`, the refinement, follows
from `NeverStranded` step by step under the same assumptions.
`ReturnsLeaveNothingArmed` needs only that arms are not detached and the disarm
is not lost: every path to a return goes through the disarm and nothing of an
earlier run is in flight. `CopiesAreQuiesced` and `LiveDriversAreSpared` need
that arms land in order and that the longest stretch between two of them,
`2 * NumUnits + 2` commands, fits the timeout (`StretchFitsTimer`). Their
invariant `Windowed` counts: time left, commands since the last arm and time spent
in this one make up the timeout (`TimerKept`), so the timer cannot run out inside
the window, so units once stopped stay down (`StaysDown`). The same invariant has it
that the timer of a window is the window's own (`Named`): `GuardsNameTheirWindow`,
and, if no disarm is lost either, `AlarmsAreTrue`: a timer outside a window, a
recovery and a marker are of a run that died (`Mourned`). `ReturnsRestart` assumes
that no driver dies, or that no run ends before its stop loop does
(`DeathsOrFailedStops`; `inherited_guard` has both): what a run has not stopped
yet, or has started again, is running or has an error of its own (`Restarting`).

**`BackupProofs`**: `NewestIsKept` and `VerifiedIsBacked`, for every policy that
keeps at least a day, assuming `Tagged`: that no snapshot is from before push
wrote tags (`Legacy <- BeforeTags` has some). The invariant adds to the property
that ids and days are in the same order and tags are Hosts (`Chronicle`), and that
a walk only has snapshots of the Host it was asked about. A prune may take the
snapshot a verdict names, since it keeps the newest of that Host, which is at
least as fresh. `VerdictsAreTheListings`: what a walk has behind it was looked
into, or could not be read and is remembered as such (`ListingInv`).
`SyncsAreWhole`, if what was there before is whole and an App's partial directory
can be removed (`Removable`; `partial_sync_evicts` shows the other case): of the
directory a run fills it says which Apps are whole, which one is part and which
are absent (`Stands`), and that two runs never fill the same one (`Apart`). `RestoreTypeCorrect`,
`RestoredMeansRestored` and `NothingIsEverLost` are about `RestoreSession`, for one
operator at a time (`OneOperator`); the last also assumes that a copy is not
killed and its remains can be removed (`CopiesEnd`), since a torn copy left behind
is a staged backup like any other and may be restored over the only whole data.
It says of every Host, App and path: the Host's data is its own, or a directory of
that Host holds it whole and nobody is filling that directory (`AllKept`), and what
a restore is about to overwrite is put away first (`PutAwayFirst`).

**`HostRosterProofs`**: `RoutesResolve`. The invariant `Publishable`: the include is
valid, and so is the roster of every process from the check in `write_roster` to
its publication. `hosts.toml` need not be. `IncludeFollows`, while one command runs
at a time: two that interleave may publish their includes in the other order.
`TypeCorrect`, which says that what a command writes is a roster still holding the
Host it changes. Under `OneCommand` again, `DetectionsNeverRoute` and
`CommitsAreLast`, from an invariant that says of a command under way that what it
holds is what is on disk but for its own change (`InStep`). `RerunsPass`, if no
write is cut off in the middle (`NoTears`; `rename_torn` has one) and nothing else
is about the two names of a rename until it is through (`OneRename`): the roster is
whole, the preflight passes wherever the rename was cut short, and the next run is
the fix.

**`AnsibleAssetsProofs`**: `TypeCorrect`, `TreesWhole`, `TreesStay` and `SweptClean`
(`SweepLeavesNoDebris`, which no run lists). The invariant: who is past
the container's lock owns it (`Owned`), a process about to pin has its tree
(`Known`), trees are whole. A sweep can only take what nobody holds, and who does
not hold its tree yet holds the container.

**`KnownHostsProofs`**: `TrustFollows`, `ForgetsForGood` and `NeverBlindly`, from one
invariant and under three assumptions. `OneCommand`: of two at once, one copies
keys between spellings while the other forgets them. `OneNameEach`: a machine is
declared under one name, for a forget is of a name and the other would hand the
key back. `NewNamesUnused`: no command goes by a name that a rename gives, so a
name means one Host throughout. The invariant says of every Host what the operator
trusts is under its name or in a legacy spelling (`Backed`), that what was
forgotten is in none of those the name could inherit (`Gone`), that a command past a name
found its key if there was one (`Looked`), and that a forget under way is of a key
the machine no longer offers (`Forgetting`). A reinstalled machine draws a key no
machine had and no command holds: keys are 256 random bits. Two reinstallations in
`trust_sequential` are what it takes for a key to be replaced twice.

**`DeployProofs`**: `KeysReach`, for any edits between preflight and plays: what
is demanded of a play covers each role it can enter, whether by tag, by group or
untagged, and the config the play gets is the one that was asked (`DeployInv`).
`SuccessesAreVerified`, unless a role of apps.yml carries another role's name as a
tag, which enters a role nobody asked the names of. Of the plan and the prompts,
without a hypothesis on the tree: `SubstratesComeFirst`, `RefusalsPlayNothing` and
`BootstrapsAreConfirmed`, from `GroundInv`. A plan is `Based`: each run that needs
the infrastructure has the whole of it before it. Joining two lists keeps that
(`BasedJoined`), and where the plan omits a second infrastructure run, the one it
has is whole, because a name that put it there is an App's (`LayersAreBased`). `PlaysAgree`: the flattened
config a play is given and the key-by-key reading agree, blanks included.
`SavesTouchTheirKey`, while a command loads and saves without another one in
between (`Alone`; *Counterexamples* has the other case), and `TablesAreNotBare`
under the same assumption: no change leaves an empty `[hosts]` or an empty table
where there was none (`ChangeIsNotBare`). `ReportsHideNothing`, of the unit report,
if no unit has commands before its main process: once a manager was asked, each of
its units was seen or the manager has a note (`AskedInv`). `VerdictsErrAtMostByTheDelay`,
under the same hypothesis (`starting_untouched` has such a unit): what systemd shows
of a unit is no earlier than the play's last start of it, and the uptime is read
after the play has ended, however long after (`UnitInv`). `DigestTells`, if no item of a loop passes after
another has failed; the invariant says which lines of the digest the next
`...ignoring` may take back. `PipesNeverStall`: a pipe that is full has a reader
with something to read, for each pipe has one of its own. `CallsTellTheChild` adds
what a call returns, for every program and wherever the reads fell: what the
program has done and what it has still to do make up its script, and what a thread
holds and what its pipe holds are what was written to it (`Telling`). `ReportsTellDrift` is about `versions`: each
line of a report tells of its pin what the pages told, and the pages tell the newest release.
It has two hypotheses, both true of the instance of `peers`. `Comparable`: among
the segments that pins and releases are written in, the comparison has no cycle
(`NewestWhateverTheOrder` has one). `PublishedInOrder`, at every moment: no release
is newer than one on an earlier page, since the walk stops at the first page with a
candidate, and the registry lists versions. `NewestOfAnOrder` has the first of them
and `DeploysFindTheAsset` neither.

**`NetworkProofs`**: `RemovedHostsAreRevoked`, `PlaysHaveTheirKeys` and
`RevocationSparesOthers`, without a hypothesis, from `HeadInv`: ids are given once
and upwards, a node's given name is from what its machine calls itself, and the
answers a command holds were true of nodes that are still themselves or gone.
`RevocationsAreOwn` has the hypothesis `OneOfTheName`, that no machine calls itself
what the roster calls another; without it `RevokesItsOwn` is false. `AddedKeysOpen`, if at
most one keygen was interrupted and every `authorized_keys` ends its last line:
two interruptions leave a private key of one pair beside a public key of another,
and an unterminated line swallows the key appended to it. `RoutesKept`, in four
invariants for the four things it says. Of the zone, `BulkSuccessIsPublished`
and `NamesAreNotDoubled` from `DnsInv`: record ids are
given once; a run that was alone holds the record it found, or found none and
there is none; each record of a plan is still to do, counted as failed, or published.
`BulksStayHome` compares two partitions of the Apps that read config.toml by
different routes: an App the one calls public is placed in no Zone by the other
(`PublicIsUnplaced`).

**`PeersProofs`**: `ReportsAreTrue`, of the mail archive, if no account is
listed twice. Its invariant follows one message through each command. Of a search
while nothing leaves the store: a message in scope was on a page read, or its
offset is not before the next page's, since what arrives only moves it back
(`CoverInv`, `OffsetGrows`, `PageHolds`). Of a rescan, once an account's cursor is
reset: its mail is archived, or its turn in the run is to come, or it is being
walked from the first day and what is missing is on the pages ahead, or the run
has counted a failure and will not end well (`SeenTo`). That a failing account
must not excuse one that is walked (the first conjunct of `Comes`) is what makes it
inductive: a later run of the timer forgets the failure, and the cursor has moved.
Two more of the archive are theorems and in no run. `EveryBodyIsNeeded`: two messages
of one Message-ID are covered only by two bodies. The counts compared are of
listed entries and of sidecars; the entries lie in `(1 .. page) \X Mail`, so both
are finite, a sidecar is of one body (`OneEach`), and the archive only grows after
the report. `AppliedIsSynced`: a reconcile that nobody edited against leaves what it
planned and touches no other account. `FolderInv` says where each account stands
meanwhile: those not asked about, and those whose turn is to come, as connect listed
them, and those it has been through as planned. Without the second part it is not
inductive: an account that "does not differ" was compared with the listing, and is
in place only if it has not moved since.
`SyncsArrive`, without a hypothesis: a transfer's list holds
nothing rsync leaves out, and what of it did not change since the scan is still in
the library; a gateway that was restarted after a push runs that file or a later
one. `VerifiesTellTheGrants`, if config.toml
spells each repo as GitHub does, since pending invitations are matched by name.
`PairingsSettle`, unless this machine's own device carries a Host's name, which
puts it among the stale devices the plan deletes (syncthing.rs:144). Its invariant
says of a pairing that nobody disturbed that each part of the plan still to be applied is as planned
and each part applied is in place (`Underway`).

Two habits of the modules are there for the prover. A `CASE` of overlapping arms is
a `CHOOSE` among them, so arms are disjoint. `SelectSeq` and the folds are opaque to
it, so a selection that a proof opens is a recursive function (`Kept` of `Zones`,
`Picked` of `Subprocess`) or a set of positions. What such a function computes is
proved by induction all the same, though the library's induction takes an operator:
`LeastNatural` is the well-foundedness of the naturals said of a set, `UpToN` the
induction it gives over the subsets of `0 .. N`, and `Recursion` the function that a
table of moves unfolds to, which `CHOOSE` then finds. The assumptions that stay say
what the inputs are (`AnswersAssumption`, `DemandAssumption` of `Deploy`), and TLC
evaluates them.

Only model-checked are all liveness properties (`StoppedUnitsComeBack`, `OpenReturns`,
`RenameConverges`, `HostRecovers`), since fairness and ENABLED are out of the
prover's reach; `MigrateOnlyRepoints`, whose plan is sorted by a community operator
that takes an operator; and what *Stated but not in the runs* lists without a mark.
Every safety property of a passing run has a theorem.

## What the models leave out

- Apps without services are never guarded; the executor module has only others.
- A Host that reboots loses its transient units; two drivers on one App at a time;
  an operator who starts units by hand.
- Contents: a copy is part or whole. A file that changes while restic reads it, a
  staged backup of a Host that was renamed since, two creates in one second.
- What `dns status` prints of missing and stray records (`Status` only reads), and a
  `headscale nodes rename` by hand.
- An rsync that meets an I/O error other than a vanished file or a broken connection.
- The text of `/etc/hosts`, ports and users of roster entries.
- The galaxy collection cache, the development tree, binaries older than the
  container's lock.
- The YAML of playbooks and roles, which `Deploy` takes as its `Tree`; a DNS
  listing longer than the page Cloudflare answers with, which the code asks for
  once (cloudflare_dns.rs:121); headscale's policy file.
- Prompts as terminals, output formats, OPML, the ssh_config reader, progress
  bars, the entry point and ansible's roles: they keep nothing a later step reads.

## Plan

1. An abstract specification of the restore's promise that `RestoreSession`
   refines, over the staged backups `BackupPipeline` makes.
2. The galaxy collection cache shared by versions, and a roster read by `Routes`
   in the states `HostRoster` writes it in.

## Running it

Each `.cfg` belongs to the `MC...` module `PROJECT.json` names for it
(`arm_lost_silently` and `inherited_guard` to `MCRecipeExecutor`,
`partial_sync_evicts` to `MCBackupPipeline`, `rename_torn` to `MCHostRoster`,
`rescan_overtaken` to `MCBichon`): `tlc -config late_arms.cfg MCRecipeExecutor`.
`tlapm BackupProofs.tla` checks the proofs of a module and of nothing it extends.
The definitions that begin with "Mutant:" in a comment are what the code would be
with one plausible bug; TLC finds a property of some run violated when one takes
the place of the definition after it, which shows that the property can fail.
