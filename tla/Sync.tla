-------------------------------- MODULE Sync --------------------------------
(***************************************************************************)
(* `auberge sync` (commands/sync): a music library mirrored to a Host by   *)
(* one rsync, after a scan of the same flags, and a hermes configuration   *)
(* pushed to the Host (directory, copy, restart of the gateway) or pulled  *)
(* from it, by operators at more than one machine.                         *)
(***************************************************************************)
EXTENDS Naturals, Sequences, Functions

CONSTANTS
    Tracks,         \* of a music library
    Hidden,         \* those rsync is told to leave out: .* and *.tmp
    Machines,       \* the operators' machines
    MaxTouches, MaxRuns     \* bounds

ASSUME SyncAssumption ==
    Hidden \subseteq Tracks /\ {MaxTouches, MaxRuns} \subseteq Nat

VARIABLES
    library,    \* at the source: track -> its content
    disk,       \* what the library's disk holds while it is unmounted
    music,      \* on the Host: track -> its content, or Partial
    rsync,      \* the music sync: [phase, list, moved, gone] (moved: changed since listed;
                \* gone: not there any more when it was to be sent)
    hermes,     \* on the Host: file, the writing its configuration is at; running, the
                \* one the gateway loaded; base, the one each machine's copy is from
    push,       \* of each machine: its `sync hermes` [at, copied]
    touches, runs
musicVars == <<library, disk, music, rsync>>
hermesVars == <<hermes, push>>
syncVars == <<musicVars, hermesVars, touches, runs>>

Nothing == [t \in {} |-> 0]
Partial == 0
With(tracks, t, content) == [u \in DOMAIN tracks \cup {t} |-> IF u = t THEN content ELSE tracks[u]]
NoRsync == [phase |-> "idle", list |-> {}, moved |-> {}, gone |-> {}]
NoPush == [at |-> 0, copied |-> 0]
SyncInit ==
    /\ library = [t \in Tracks |-> 1] /\ disk = Nothing /\ rsync = NoRsync
    /\ \E had \in SUBSET Tracks : music = [t \in had |-> 1]
    /\ hermes = [file |-> 0, running |-> 0, base |-> [m \in Machines |-> 0]]
    /\ push = [m \in Machines |-> NoPush] /\ touches = 0 /\ runs = 0

----------------------------------------------------------------------------
(* The music library.                                                       *)
Touch == touches < MaxTouches /\ touches' = touches + 1 /\ UNCHANGED runs
Moved(t) == [rsync EXCEPT !.moved = @ \cup t]
ChangeTrack ==
    /\ Touch /\ UNCHANGED <<disk, music, hermesVars>>
    /\ \E t \in Tracks :
         /\ \/ t \in DOMAIN library /\ library' = Restrict(library, DOMAIN library \ {t})
            \/ disk = Nothing /\ library' = With(library, t, touches + 2)
         /\ rsync' = Moved({t})
Unmount ==      \* the library's disk goes away under its directory
    /\ Touch /\ disk = Nothing /\ library # Nothing
    /\ disk' = library /\ library' = Nothing /\ rsync' = Moved(DOMAIN library)
    /\ UNCHANGED <<music, hermesVars>>

Listed == DOMAIN library \ Hidden
\* run_sync_music, scan_transfer_size: the source exists, the key exists and the
\* scan answers; a dry run ends with it.
Scan ==
    /\ rsync.phase \in {"idle", "done", "failed"} /\ runs < MaxRuns /\ runs' = runs + 1
    /\ rsync' \in {[NoRsync EXCEPT !.phase = "failed"], [NoRsync EXCEPT !.phase = "scanned"]}
    /\ UNCHANGED <<library, disk, music, hermesVars, touches>>
\* The transfer makes its own list, whole before the first byte.
List ==
    /\ rsync.phase = "scanned" /\ rsync' = [NoRsync EXCEPT !.phase = "sending", !.list = Listed]
    /\ UNCHANGED <<library, disk, music, hermesVars, touches, runs>>
\* --delete and --delete-excluded: what is not in the list goes.
WithoutDeleteExcluded(t) == t \notin rsync.list \cup Hidden
Extra(t) == t \notin rsync.list
DeleteExtra ==
    /\ rsync.phase = "sending" /\ UNCHANGED <<library, disk, rsync, hermesVars, touches, runs>>
    /\ \E t \in DOMAIN music : Extra(t) /\ music' = Restrict(music, DOMAIN music \ {t})
SendTrack ==
    /\ rsync.phase = "sending" /\ UNCHANGED <<library, disk, hermesVars, touches, runs>>
    /\ \E t \in rsync.list \ rsync.gone :
         /\ t \in DOMAIN music \cap DOMAIN library => music[t] # library[t]
         /\ \/ /\ t \in DOMAIN library /\ UNCHANGED rsync
               /\ music' = With(music, t, library[t])
            \/ /\ t \in DOMAIN library /\ rsync' = [rsync EXCEPT !.phase = "failed"]    \* --partial
               /\ music' = With(music, t, Partial)
            \/ t \notin DOMAIN library /\ rsync' = [rsync EXCEPT !.gone = @ \cup {t}] /\ UNCHANGED music
\* rsync goes on past a file that vanished, and exits 24.
SyncedMusic ==
    /\ rsync.phase = "sending" /\ \A t \in DOMAIN music : ~Extra(t)
    /\ \A t \in rsync.list \ rsync.gone : t \in DOMAIN music /\ (t \notin rsync.moved => music[t] = library[t])
    /\ rsync' = [rsync EXCEPT !.phase = IF rsync.gone = {} THEN "done" ELSE "failed"]
    /\ UNCHANGED <<library, disk, music, hermesVars, touches, runs>>

----------------------------------------------------------------------------
(* The hermes configuration, each writing of it on the Host counted.        *)
EditHermes ==
    /\ Touch /\ UNCHANGED <<musicVars, push>> /\ hermes' = [hermes EXCEPT !.file = @ + 1]
StepsInOrder == <<"prepare", "copy", "restart">>
RestartFirst == <<"prepare", "restart", "copy">>
PushSteps == StepsInOrder
At(m, step) ==
    /\ push[m].at \in DOMAIN PushSteps /\ PushSteps[push[m].at] = step
    /\ UNCHANGED <<musicVars, touches, runs>>
PushTo(m, next) == push' = [push EXCEPT ![m] = next]
Failed(m) == PushTo(m, NoPush) /\ UNCHANGED hermes
Onward(m) == [push[m] EXCEPT !.at = @ + 1]
\* run_sync_hermes: the Host, the source file and the key; or a pull.
StartHermes(m) ==
    /\ push[m].at \in {0, Len(PushSteps) + 1} /\ runs < MaxRuns /\ runs' = runs + 1
    /\ UNCHANGED <<musicVars, touches>>
    /\ \/ PushTo(m, [NoPush EXCEPT !.at = 1]) /\ UNCHANGED hermes
       \/ hermes' = [hermes EXCEPT !.base[m] = hermes.file] /\ PushTo(m, NoPush)
\* prepare_hermes_dir, which a dry run does as well.
PrepareDir(m) ==
    /\ At(m, "prepare") /\ (PushTo(m, Onward(m)) \/ PushTo(m, NoPush)) /\ UNCHANGED hermes
CopyConfig(m) ==    \* run_hermes_rsync; a dry run ends here
    /\ At(m, "copy")
    /\ \/ /\ hermes' = [hermes EXCEPT !.file = @ + 1, !.base[m] = hermes.file + 1]
          /\ PushTo(m, [Onward(m) EXCEPT !.copied = hermes.file + 1])
       \/ Failed(m)
RestartGateway(m) ==
    /\ At(m, "restart")
    /\ \/ hermes' = [hermes EXCEPT !.running = hermes.file] /\ PushTo(m, Onward(m))
       \/ Failed(m)

MusicNext == ChangeTrack \/ Unmount \/ Scan \/ List \/ DeleteExtra \/ SendTrack \/ SyncedMusic
HermesNext ==
    \/ EditHermes
    \/ \E m \in Machines : StartHermes(m) \/ PrepareDir(m) \/ CopyConfig(m) \/ RestartGateway(m)
SyncNext == MusicNext \/ HermesNext
SyncSpec == SyncInit /\ [][SyncNext]_syncVars

----------------------------------------------------------------------------
MusicIsMirrored ==
    rsync.phase = "done" =>
      /\ DOMAIN music \subseteq rsync.list /\ DOMAIN music \cap Hidden = {}
      /\ \A t \in rsync.list \ rsync.moved : t \in DOMAIN music /\ music[t] = library[t]
PushedIsRunning ==
    \A m \in Machines : push[m].at > Len(PushSteps) => hermes.running >= push[m].copied
\* A sync that ended well left the Host with what was sent.  Music: every listed
\* track that did not change meanwhile, and no other, whatever an earlier sync cut
\* short left behind (music_rsync_command).  Hermes: the gateway runs the pushed
\* configuration, or one written to the Host after it (run_sync_hermes).
SyncedIsThere == MusicIsMirrored /\ PushedIsRunning

\* No sync deletes from the Host a track the library still has on its disk.  It
\* does when the disk is not mounted: an empty source is mirrored as any other
\* (sync.rs:94, `--delete`).
LibraryIsNotLost == \A t \in DOMAIN disk \ Hidden : rsync.phase = "done" => t \in DOMAIN music
=============================================================================
