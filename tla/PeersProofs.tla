----------------------------- MODULE PeersProofs -----------------------------
(***************************************************************************)
(* What holds of the services auberge keeps in step from outside: what     *)
(* `sync` copies, this machine's Syncthing, the machine user on GitHub and *)
(* the mail archive, for any library, any fleet, any number of repos and   *)
(* any mailbox.                                                            *)
(***************************************************************************)
EXTENDS Bichon, Github, Syncthing, Sync, FiniteSetTheorems, SequenceTheorems, TLAPS

----------------------------------------------------------------------------
(* What `sync` copies.                                                     *)

MusicFields == {"phase", "list", "moved", "gone"}

\* The transfer's list holds no track rsync leaves out, and those of it that did
\* not change since are still in the library.
ListInv ==
    /\ MusicFields \subseteq DOMAIN rsync
    /\ rsync.list \cap Hidden = {}
    /\ rsync.list \ rsync.moved \subseteq DOMAIN library
MusicInv == ListInv /\ MusicIsMirrored

\* What was copied is a writing of the Host's file, and a gateway restarted after
\* the copy runs that one or a later one.
PushInv ==
    /\ hermes.file \in Nat /\ hermes.running \in Nat /\ hermes.running <= hermes.file
    /\ {"file", "running", "base"} \subseteq DOMAIN hermes
    /\ push = [m \in Machines |-> push[m]]
    /\ \A m \in Machines :
         /\ {"at", "copied"} \subseteq DOMAIN push[m]
         /\ push[m].at \in 0..4 /\ push[m].copied \in Nat /\ push[m].copied <= hermes.file
         /\ push[m].at = 4 => push[m].copied <= hermes.running

LEMMA SyncInitially == SyncInit => MusicInv /\ PushInv
<1> SUFFICES ASSUME SyncInit PROVE MusicInv /\ PushInv
  OBVIOUS
<1>1. rsync = NoRsync /\ hermes.file = 0 /\ hermes.running = 0 /\ push = [m \in Machines |-> NoPush]
      /\ {"file", "running", "base"} \subseteq DOMAIN hermes
  BY DEF SyncInit
<1>2. MusicInv
  BY <1>1 DEF MusicInv, ListInv, MusicFields, MusicIsMirrored, NoRsync
<1>3. PushInv
  BY <1>1 DEF PushInv, NoPush
<1>4. QED
  BY <1>2, <1>3

\* The library changes under what was sent.
LEMMA LibraryMoves ==
    ASSUME MusicInv, NEW t, rsync' = Moved(t), UNCHANGED music,
           \A u \in DOMAIN library \ t : u \in DOMAIN library' /\ library'[u] = library[u]
    PROVE  MusicInv'
<1>1. /\ rsync'.phase = rsync.phase /\ rsync'.list = rsync.list /\ rsync'.moved = rsync.moved \cup t
      /\ MusicFields \subseteq DOMAIN rsync'
  BY DEF MusicInv, ListInv, MusicFields, Moved
<1>2. ListInv'
  BY <1>1 DEF MusicInv, ListInv
<1>3. \A u \in rsync'.list \ rsync'.moved : u \in DOMAIN library \ t /\ u \in rsync.list \ rsync.moved
  BY <1>1 DEF MusicInv, ListInv
<1>4. MusicIsMirrored'
  BY <1>1, <1>3 DEF MusicInv, MusicIsMirrored
<1>5. QED
  BY <1>2, <1>4 DEF MusicInv

LEMMA ChangeSteps == ASSUME MusicInv, ChangeTrack \/ Unmount PROVE MusicInv'
<1>1. ASSUME ChangeTrack PROVE MusicInv'
  <2>1. PICK t \in Tracks :
          /\ \/ t \in DOMAIN library /\ library' = Restrict(library, DOMAIN library \ {t})
             \/ library' = With(library, t, touches + 2)
          /\ rsync' = Moved({t}) /\ UNCHANGED music
    BY <1>1 DEF ChangeTrack
  <2>2. \A u \in DOMAIN library \ {t} : u \in DOMAIN library' /\ library'[u] = library[u]
    BY <2>1 DEF Restrict, With
  <2>3. QED
    BY <2>1, <2>2, LibraryMoves
<1>2. ASSUME Unmount PROVE MusicInv'
  BY <1>2, LibraryMoves DEF Unmount
<1>3. QED
  BY <1>1, <1>2

LEMMA MusicSteps == ASSUME MusicInv, [SyncNext]_syncVars PROVE MusicInv'
<1>1. CASE ChangeTrack \/ Unmount
  BY <1>1, ChangeSteps
<1>2. CASE Scan
  <2>1. rsync' \in {[NoRsync EXCEPT !.phase = "failed"], [NoRsync EXCEPT !.phase = "scanned"]}
    BY <1>2 DEF Scan
  <2>2. MusicFields \subseteq DOMAIN rsync' /\ rsync'.list = {} /\ rsync'.phase # "done"
    BY <2>1 DEF NoRsync, MusicFields
  <2>3. QED
    BY <2>2 DEF MusicInv, ListInv, MusicIsMirrored
<1>3. CASE List
  <2>1. rsync' = [NoRsync EXCEPT !.phase = "sending", !.list = Listed] /\ library' = library
    BY <1>3 DEF List
  <2>2. /\ MusicFields \subseteq DOMAIN rsync' /\ rsync'.phase = "sending"
        /\ rsync'.list = DOMAIN library \ Hidden
    BY <2>1 DEF NoRsync, MusicFields, Listed
  <2>3. QED
    BY <2>1, <2>2 DEF MusicInv, ListInv, MusicIsMirrored
<1>4. CASE DeleteExtra \/ SendTrack
  <2>1. library' = library
    BY <1>4 DEF DeleteExtra, SendTrack
  <2>2. \/ rsync' = rsync \/ rsync' = [rsync EXCEPT !.phase = "failed"]
        \/ \E t \in rsync.list : rsync' = [rsync EXCEPT !.gone = @ \cup {t}]
    BY <1>4 DEF DeleteExtra, SendTrack
  <2>3. /\ MusicFields \subseteq DOMAIN rsync' /\ rsync'.list = rsync.list /\ rsync'.moved = rsync.moved
        /\ rsync'.phase # "done"
    <3>1. MusicFields \subseteq DOMAIN rsync /\ rsync.phase = "sending"
      BY <1>4 DEF MusicInv, ListInv, DeleteExtra, SendTrack
    <3>2. CASE rsync' = rsync
      BY <3>1, <3>2
    <3>3. CASE rsync' = [rsync EXCEPT !.phase = "failed"]
      BY <3>1, <3>3 DEF MusicFields
    <3>4. ASSUME NEW t \in rsync.list, rsync' = [rsync EXCEPT !.gone = @ \cup {t}]
          PROVE  /\ MusicFields \subseteq DOMAIN rsync' /\ rsync'.list = rsync.list
                 /\ rsync'.moved = rsync.moved /\ rsync'.phase # "done"
      BY <3>1, <3>4 DEF MusicFields
    <3>5. QED
      BY <2>2, <3>2, <3>3, <3>4
  <2>4. QED
    BY <2>1, <2>3 DEF MusicInv, ListInv, MusicIsMirrored
<1>5. CASE SyncedMusic
  <2>1. /\ rsync' = [rsync EXCEPT !.phase = IF rsync.gone = {} THEN "done" ELSE "failed"]
        /\ library' = library /\ music' = music
        /\ \A t \in DOMAIN music : t \in rsync.list
        /\ \A t \in rsync.list \ rsync.gone :
              t \in DOMAIN music /\ (t \notin rsync.moved => music[t] = library[t])
    BY <1>5 DEF SyncedMusic, Extra
  <2>2. /\ MusicFields \subseteq DOMAIN rsync' /\ rsync'.list = rsync.list /\ rsync'.moved = rsync.moved
        /\ rsync'.phase = "done" => rsync.gone = {}
    BY <2>1 DEF MusicInv, ListInv, MusicFields
  <2>3. ListInv'
    BY <2>1, <2>2 DEF MusicInv, ListInv
  <2>4. MusicIsMirrored'
    BY <2>1, <2>2 DEF MusicInv, ListInv, MusicIsMirrored
  <2>5. QED
    BY <2>3, <2>4 DEF MusicInv
<1>6. CASE HermesNext \/ UNCHANGED syncVars
  <2>1. UNCHANGED musicVars
    BY <1>6 DEF HermesNext, EditHermes, StartHermes, PrepareDir, CopyConfig, RestartGateway, At, syncVars
  <2>2. QED
    BY <2>1 DEF musicVars, MusicInv, ListInv, MusicIsMirrored
<1>7. QED
  BY <1>1, <1>2, <1>3, <1>4, <1>5, <1>6 DEF SyncNext, MusicNext

LEMMA PushMoves ==
    ASSUME PushInv, NEW m \in Machines, NEW next, PushTo(m, next),
           hermes'.file \in Nat, hermes'.running \in Nat, hermes'.running <= hermes'.file,
           {"file", "running", "base"} \subseteq DOMAIN hermes',
           hermes.file <= hermes'.file, hermes.running <= hermes'.running,
           {"at", "copied"} \subseteq DOMAIN next,
           next.at \in 0..4, next.copied \in Nat, next.copied <= hermes'.file,
           next.at = 4 => next.copied <= hermes'.running
    PROVE  PushInv'
<1>1. \A o \in Machines : push'[o] = IF o = m THEN next ELSE push[o]
  BY DEF PushTo, PushInv
<1>2. push' = [o \in Machines |-> push'[o]]
  BY DEF PushTo, PushInv
<1>3. \A o \in Machines :
         /\ {"at", "copied"} \subseteq DOMAIN push'[o]
         /\ push'[o].at \in 0..4 /\ push'[o].copied \in Nat /\ push'[o].copied <= hermes'.file
         /\ push'[o].at = 4 => push'[o].copied <= hermes'.running
  BY <1>1 DEF PushInv
<1>4. QED
  BY <1>2, <1>3 DEF PushInv

LEMMA HermesSteps == ASSUME PushInv, [SyncNext]_syncVars PROVE PushInv'
<1> USE DEF PushInv
<1>1. CASE MusicNext \/ UNCHANGED syncVars
  <2>1. UNCHANGED hermesVars
    BY <1>1 DEF MusicNext, ChangeTrack, Unmount, Scan, List, DeleteExtra, SendTrack, SyncedMusic, syncVars
  <2>2. QED
    BY <2>1 DEF hermesVars
<1>2. CASE EditHermes
  <2>1. hermes'.file = hermes.file + 1 /\ hermes'.running = hermes.running /\ push' = push
        /\ DOMAIN hermes' = DOMAIN hermes
    BY <1>2 DEF EditHermes
  <2>2. QED
    BY <2>1
<1>3. ASSUME NEW m \in Machines,
             StartHermes(m) \/ PrepareDir(m) \/ CopyConfig(m) \/ RestartGateway(m)
      PROVE  PushInv'
  <2>1. NoPush.at = 0 /\ NoPush.copied = 0 /\ {"at", "copied"} \subseteq DOMAIN NoPush
    BY DEF NoPush
  <2>2. ASSUME PushTo(m, NoPush), UNCHANGED hermes PROVE PushInv'
    BY <2>1, <2>2, PushMoves
  <2> DEFINE on == Onward(m)
  <2>3. /\ on.at = push[m].at + 1 /\ on.copied = push[m].copied
        /\ {"at", "copied"} \subseteq DOMAIN on
    BY DEF Onward
  <2>4. DOMAIN PushSteps = 1..3 /\ PushSteps[1] = "prepare" /\ PushSteps[2] = "copy" /\ PushSteps[3] = "restart"
        /\ Len(PushSteps) = 3
    BY DEF PushSteps, StepsInOrder
  <2>5. CASE StartHermes(m)
    <3> DEFINE first == [NoPush EXCEPT !.at = 1]
    <3>1. first.at = 1 /\ first.copied = 0 /\ {"at", "copied"} \subseteq DOMAIN first
      BY DEF NoPush
    <3>2. \/ PushTo(m, first) /\ hermes' = hermes
          \/ hermes' = [hermes EXCEPT !.base[m] = hermes.file] /\ PushTo(m, NoPush)
      BY <2>5 DEF StartHermes
    <3> HIDE DEF first
    <3>3. hermes'.file = hermes.file /\ hermes'.running = hermes.running /\ DOMAIN hermes' = DOMAIN hermes
      BY <3>2
    <3>4. QED
      BY <2>1, <3>1, <3>2, <3>3, PushMoves
  <2>6. CASE PrepareDir(m)
    <3>1. push[m].at = 1 /\ hermes' = hermes /\ (PushTo(m, on) \/ PushTo(m, NoPush))
      BY <2>4, <2>6 DEF PrepareDir, At
    <3> HIDE DEF on
    <3>2. QED
      BY <2>2, <2>3, <3>1, PushMoves
  <2>7. CASE CopyConfig(m)
    <3> DEFINE sent == [on EXCEPT !.copied = hermes.file + 1]
    <3>1. push[m].at = 2
      BY <2>4, <2>7 DEF CopyConfig, At
    <3>2. \/ /\ hermes' = [hermes EXCEPT !.file = @ + 1, !.base[m] = hermes.file + 1]
             /\ PushTo(m, sent)
          \/ PushTo(m, NoPush) /\ UNCHANGED hermes
      BY <2>7 DEF CopyConfig, Failed
    <3> HIDE DEF on
    <3>3. sent.at = 3 /\ sent.copied = hermes.file + 1 /\ {"at", "copied"} \subseteq DOMAIN sent
      BY <2>3, <3>1
    <3> HIDE DEF sent
    <3>4. CASE hermes' = [hermes EXCEPT !.file = @ + 1, !.base[m] = hermes.file + 1] /\ PushTo(m, sent)
      <4>1. hermes'.file = hermes.file + 1 /\ hermes'.running = hermes.running
            /\ DOMAIN hermes' = DOMAIN hermes
        BY <3>4
      <4>2. QED
        BY <3>3, <3>4, <4>1, PushMoves
    <3>5. QED
      BY <2>2, <3>2, <3>4
  <2>8. CASE RestartGateway(m)
    <3>1. push[m].at = 3
      BY <2>4, <2>8 DEF RestartGateway, At
    <3>2. \/ hermes' = [hermes EXCEPT !.running = hermes.file] /\ PushTo(m, on)
          \/ PushTo(m, NoPush) /\ UNCHANGED hermes
      BY <2>8 DEF RestartGateway, Failed
    <3> HIDE DEF on
    <3>3. CASE hermes' = [hermes EXCEPT !.running = hermes.file] /\ PushTo(m, on)
      <4>1. hermes'.file = hermes.file /\ hermes'.running = hermes.file /\ DOMAIN hermes' = DOMAIN hermes
        BY <3>3
      <4>2. QED
        BY <2>3, <3>1, <3>3, <4>1, PushMoves
    <3>4. QED
      BY <2>2, <3>2, <3>3
  <2>9. QED
    BY <1>3, <2>5, <2>6, <2>7, <2>8
<1>4. QED
  BY <1>1, <1>2, <1>3 DEF SyncNext, HermesNext

\* A sync that ended well left the Host with what was sent, whatever earlier syncs
\* cut short, whoever edits the library, the Host's file or another machine's copy
\* in between, and however many machines push (music_rsync_command,
\* run_sync_hermes).
THEOREM SyncsArrive == SyncSpec => []SyncedIsThere
<1>1. PushInv => PushedIsRunning
  BY DEF PushInv, PushedIsRunning, PushSteps, StepsInOrder
<1>2. MusicInv /\ PushInv => SyncedIsThere
  BY <1>1 DEF MusicInv, SyncedIsThere
<1>3. QED
  BY SyncInitially, MusicSteps, HermesSteps, <1>2, PTL DEF SyncSpec

----------------------------------------------------------------------------
(* The machine user on GitHub.                                             *)

GithubFields == {"op", "phase", "at", "login", "pending", "states", "failed", "exit"}
Access == {"none", "invited", "push"}
States == {"reachable", "pending", "unreachable"}
Answered == gh.op = "verify" /\ (gh.phase = "repos" \/ (gh.phase = "done" /\ gh.exit \in {0, 1}))

\* An invite is not a verify, and a verify knows whose token it has.
CallInv ==
    /\ GithubFields \subseteq DOMAIN gh
    /\ access \in [RepoSet -> Access]
    /\ gh.phase \in {"login", "invite"} => gh.op = "invite"
    /\ gh.op = "verify" /\ gh.phase \in {"token", "pending"} => gh.states = << >> /\ gh.at = 1
    /\ gh.op = "verify" /\ gh.phase = "pending" => gh.login = ambient.token
    /\ Answered =>
         /\ gh.login = ambient.token
         /\ gh.states \in Seq(States) /\ gh.at = Len(gh.states) + 1 /\ Len(gh.states) <= Len(Repos)

\* What was pending when it was read and is no more was accepted, or taken back.
PendingInv ==
    gh.op = "verify" /\ gh.phase = "repos" /\ gh.login = Bot =>
      \A r \in RepoSet : access[r] = "invited" /\ r \notin spoiled => r \in gh.pending

\* A state read of a repo stays true of it, but for what was taken back.
StatesInv ==
    Answered /\ gh.login = Bot =>
      \A i \in DOMAIN gh.states : Repos[i] \notin spoiled =>
        /\ gh.states[i] = "reachable" => access[Repos[i]] = "push"
        /\ gh.states[i] = "unreachable" /\ ~gh.failed => access[Repos[i]] = "none"

ExitInv ==
    gh.op = "verify" /\ gh.phase = "done" /\ gh.exit \in {0, 1} =>
      /\ Len(gh.states) = Len(Repos)
      /\ gh.exit = 0 => IsVerified

GithubInv == CallInv /\ PendingInv /\ StatesInv /\ ExitInv

LEMMA GithubInitially == GithubInit => GithubInv
<1>1. Resting.op = "" /\ Resting.phase = "idle" /\ GithubFields \subseteq DOMAIN Resting
  BY DEF Resting, GithubFields
<1>2. GithubInit => gh = Resting /\ access \in [RepoSet -> Access]
  BY DEF GithubInit, Access
<1>3. QED
  BY <1>1, <1>2 DEF GithubInv, CallInv, PendingInv, StatesInv, ExitInv, Answered

LEMMA ReposAreRepos == \A i \in 1..Len(Repos) : Repos[i] \in RepoSet
<1>1. Repos \in Seq(RepoSet)
  BY GithubAssumption
<1>2. QED
  BY <1>1, ElementOfSeq

LEMMA PeopleSteps == ASSUME GithubInv, Accept \/ Decline PROVE GithubInv'
<1>1. gh' = gh /\ ambient' = ambient
  BY DEF Accept, Decline, Person
<1>2. PICK r \in RepoSet :
        \/ access[r] = "invited" /\ access' = [access EXCEPT ![r] = "push"] /\ spoiled' = spoiled
        \/ access' = [access EXCEPT ![r] = "none"] /\ spoiled' = spoiled \cup {r}
  BY DEF Accept, Decline
<1>3. access \in [RepoSet -> Access]
  BY DEF GithubInv, CallInv
<1>4. access' \in [RepoSet -> Access] /\ spoiled \subseteq spoiled'
  BY <1>2, <1>3 DEF Access
<1>5. \A q \in RepoSet : q \notin spoiled' =>
        /\ access[q] = "push" => access'[q] = "push"
        /\ access[q] = "none" => access'[q] = "none"
        /\ access'[q] = "invited" => access[q] = "invited"
  BY <1>2, <1>3
<1>6. CallInv'
  BY <1>1, <1>4 DEF GithubInv, CallInv, Answered
<1>7. PendingInv'
  BY <1>1, <1>4, <1>5 DEF GithubInv, PendingInv
<1>8. StatesInv'
  <2> SUFFICES ASSUME Answered, gh.login = Bot, NEW i \in DOMAIN gh.states, Repos[i] \notin spoiled'
               PROVE  /\ gh.states[i] = "reachable" => access'[Repos[i]] = "push"
                      /\ gh.states[i] = "unreachable" /\ ~gh.failed => access'[Repos[i]] = "none"
    BY <1>1 DEF StatesInv, Answered
  <2>1. i \in 1..Len(Repos)
    BY GithubAssumption DEF GithubInv, CallInv
  <2>2. Repos[i] \in RepoSet /\ Repos[i] \notin spoiled
    BY <1>4, <2>1, ReposAreRepos
  <2>3. QED
    BY <1>5, <2>2 DEF GithubInv, StatesInv
<1>9. ExitInv'
  BY <1>1 DEF GithubInv, ExitInv, IsVerified, AllReachable
<1>10. QED
  BY <1>6, <1>7, <1>8, <1>9 DEF GithubInv

\* A command that has read nothing yet, or ends without a verdict.
LEMMA NothingRead ==
    ASSUME GithubInv, NEW next, gh' = next, ambient' = ambient, access' \in [RepoSet -> Access],
           GithubFields \subseteq DOMAIN next,
           \/ next.op = "invite" /\ next.phase \in {"login", "invite", "done"}
           \/ next.op = "verify" /\ next.phase = "done" /\ next.exit = 2
           \/ next.op = "verify" /\ next.phase = "token" /\ next.states = << >> /\ next.at = 1
    PROVE  GithubInv'
<1>1. ~(next.op = "verify" /\ (next.phase = "repos" \/ (next.phase = "done" /\ next.exit \in {0, 1})))
      /\ ~(next.op = "verify" /\ next.phase = "pending")
  OBVIOUS
<1>2. ~Answered'
  BY <1>1 DEF Answered
<1>3. CallInv'
  BY <1>1, <1>2 DEF CallInv
<1>4. PendingInv' /\ StatesInv' /\ ExitInv'
  BY <1>1, <1>2 DEF PendingInv, StatesInv, ExitInv
<1>5. QED
  BY <1>3, <1>4 DEF GithubInv

LEMMA InviteSteps ==
    ASSUME GithubInv, Invite \/ VerifyBot \/ ActiveLogin \/ InviteCollaborator \/ InviteDone
    PROVE  GithubInv'
<1> USE DEF Step, GithubEnded
<1>1. access \in [RepoSet -> Access] /\ GithubFields \subseteq DOMAIN gh
      /\ (gh.phase \in {"login", "invite"} => gh.op = "invite")
  BY DEF GithubInv, CallInv
<1>2. CASE Invite \/ VerifyBot
  <2>1. /\ gh' \in {[Resting EXCEPT !.op = "invite", !.phase = "login"],
                    [Resting EXCEPT !.op = "invite", !.phase = "done", !.exit = 1],
                    [Resting EXCEPT !.op = "verify", !.phase = "token"],
                    [Resting EXCEPT !.op = "verify", !.phase = "done", !.exit = 2]}
        /\ ambient' = ambient /\ access' = access
    BY <1>2 DEF Invite, VerifyBot
  <2>2. /\ GithubFields \subseteq DOMAIN gh'
        /\ \/ gh'.op = "invite" /\ gh'.phase \in {"login", "invite", "done"}
           \/ gh'.op = "verify" /\ gh'.phase = "done" /\ gh'.exit = 2
           \/ gh'.op = "verify" /\ gh'.phase = "token" /\ gh'.states = << >> /\ gh'.at = 1
    BY <2>1 DEF Resting, GithubFields
  <2>3. QED
    BY <1>1, <2>1, <2>2, NothingRead
<1>3. CASE ActiveLogin \/ InviteCollaborator \/ InviteDone
  <2>1. /\ \E code, at : gh' \in {[gh EXCEPT !.phase = "done", !.exit = code], [gh EXCEPT !.phase = "invite"],
                                 [gh EXCEPT !.at = at]}
        /\ ambient' = ambient /\ gh.phase \in {"login", "invite"}
    BY <1>3 DEF ActiveLogin, InviteCollaborator, InviteDone
  <2>2. /\ GithubFields \subseteq DOMAIN gh'
        /\ gh'.op = "invite" /\ gh'.phase \in {"login", "invite", "done"}
    BY <1>1, <2>1 DEF GithubFields
  <2>3. access' \in [RepoSet -> Access]
    <3>1. \/ access' = access
          \/ \E r \in RepoSet : access' = [access EXCEPT ![r] = IF @ = "none" THEN "invited" ELSE @]
      <4>1. CASE InviteCollaborator
        <5>1. Repos[gh.at] \in RepoSet \/ gh.at \notin DOMAIN Repos
          BY DEF RepoSet
        <5>2. access' = access
              \/ access' = [access EXCEPT ![Repos[gh.at]] = IF @ = "none" THEN "invited" ELSE @]
          BY <4>1 DEF InviteCollaborator
        <5>3. Repos[gh.at] \notin RepoSet => [access EXCEPT ![Repos[gh.at]] = IF @ = "none" THEN "invited" ELSE @] = access
          BY <1>1
        <5>4. QED
          BY <5>2, <5>3
      <4>2. CASE ActiveLogin \/ InviteDone
        BY <4>2 DEF ActiveLogin, InviteDone
      <4>3. QED
        BY <1>3, <4>1, <4>2
    <3>2. QED
      BY <1>1, <3>1 DEF Access
  <2>4. QED
    BY <2>1, <2>2, <2>3, NothingRead
<1>4. QED
  BY <1>2, <1>3

LEMMA TokenSteps == ASSUME GithubInv, TokenLogin PROVE GithubInv'
<1>1. /\ gh.phase = "token" /\ UNCHANGED <<access, spoiled, ambient>>
      /\ gh' \in {[gh EXCEPT !.phase = "pending", !.login = ambient.token],
                  [gh EXCEPT !.phase = "done", !.exit = 2]}
  BY DEF TokenLogin, Step, GithubEnded
<1>2. GithubFields \subseteq DOMAIN gh' /\ gh'.op = gh.op /\ gh'.states = gh.states /\ gh'.at = gh.at
      /\ \/ gh'.phase = "pending" /\ gh'.login = ambient.token
         \/ gh'.phase = "done" /\ gh'.exit = 2
  BY <1>1 DEF GithubInv, CallInv, GithubFields
<1>3. ~Answered'
  BY <1>2 DEF Answered
<1>4. CallInv'
  BY <1>1, <1>2, <1>3 DEF GithubInv, CallInv
<1>5. PendingInv' /\ StatesInv' /\ ExitInv'
  BY <1>2, <1>3 DEF PendingInv, StatesInv, ExitInv
<1>6. QED
  BY <1>4, <1>5 DEF GithubInv

LEMMA PendingSteps ==
    ASSUME GithubInv, PendingInvitations, \A r \in RepoSet : Spelled[r]
    PROVE  GithubInv'
<1>1. /\ gh.phase = "pending" /\ UNCHANGED <<access, spoiled, ambient>>
      /\ gh' \in {[gh EXCEPT !.phase = "repos", !.pending = Invited],
                  [gh EXCEPT !.phase = "done", !.exit = 2]}
  BY DEF PendingInvitations, Step, GithubEnded
<1>2. GithubFields \subseteq DOMAIN gh' /\ gh'.op = gh.op /\ gh'.states = gh.states /\ gh'.at = gh.at
      /\ gh'.login = gh.login
      /\ \/ gh'.phase = "repos" /\ gh'.pending = Invited
         \/ gh'.phase = "done" /\ gh'.exit = 2
  BY <1>1 DEF GithubInv, CallInv, GithubFields
<1>3. gh.op = "verify" => gh.states = << >> /\ gh.at = 1 /\ gh.login = ambient.token
  BY <1>1 DEF GithubInv, CallInv
<1>4. << >> \in Seq(States) /\ Len(<< >>) = 0 /\ DOMAIN << >> = {} /\ Len(Repos) \in Nat
  BY GithubAssumption
<1>5. CallInv'
  <2>1. Answered' => gh.op = "verify"
    BY <1>2 DEF Answered
  <2>2. Answered' =>
         /\ gh'.login = ambient'.token
         /\ gh'.states \in Seq(States) /\ gh'.at = Len(gh'.states) + 1 /\ Len(gh'.states) <= Len(Repos)
    <3>1. gh.op = "verify" => gh'.states = << >> /\ gh'.at = 1 /\ gh'.login = ambient'.token
      BY <1>1, <1>2, <1>3
    <3>2. << >> \in Seq(States) /\ Len(<< >>) + 1 = 1 /\ Len(<< >>) <= Len(Repos)
      BY <1>4
    <3>3. QED
      BY <2>1, <3>1, <3>2
  <2>3. access' \in [RepoSet -> Access]
    BY <1>1 DEF GithubInv, CallInv
  <2>4. gh'.phase \notin {"login", "invite", "token", "pending"}
    BY <1>2
  <2>5. QED
    BY <1>2, <2>2, <2>3, <2>4 DEF CallInv
<1>6. PendingInv'
  BY <1>1, <1>2, <1>3 DEF PendingInv, Invited
<1>7. StatesInv'
  BY <1>2, <1>3, <1>4 DEF StatesInv, Answered
<1>8. ExitInv'
  BY <1>2 DEF ExitInv
<1>9. QED
  BY <1>5, <1>6, <1>7, <1>8 DEF GithubInv

LEMMA PermissionSteps == ASSUME GithubInv, HasPush PROVE GithubInv'
<1> DEFINE r == Repos[gh.at]
           State(may) == IF may THEN "reachable" ELSE IF r \in gh.pending THEN "pending" ELSE "unreachable"
<1>1. /\ gh.phase = "repos" /\ gh.at <= Len(Repos) /\ UNCHANGED <<access, spoiled, ambient>>
      /\ \/ gh' = [gh EXCEPT !.states = Append(@, State(Push(r))), !.at = @ + 1]
         \/ gh' = [gh EXCEPT !.states = Append(@, State(FALSE)), !.at = @ + 1, !.failed = TRUE]
  BY DEF HasPush, Step
<1>2. PICK state \in States :
        /\ GithubFields \subseteq DOMAIN gh' /\ gh'.op = gh.op /\ gh'.phase = gh.phase
        /\ gh'.login = gh.login /\ gh'.pending = gh.pending /\ gh'.exit = gh.exit
        /\ gh'.states = Append(gh.states, state) /\ gh'.at = gh.at + 1
        /\ state = "reachable" => Push(r)
        /\ state = "unreachable" /\ ~gh'.failed => ~Push(r) /\ r \notin gh.pending
        /\ ~gh'.failed => ~gh.failed
  <2>1. CASE gh' = [gh EXCEPT !.states = Append(@, State(Push(r))), !.at = @ + 1]
    <3>1. /\ GithubFields \subseteq DOMAIN gh' /\ gh'.op = gh.op /\ gh'.phase = gh.phase
          /\ gh'.login = gh.login /\ gh'.pending = gh.pending /\ gh'.exit = gh.exit
          /\ gh'.states = Append(gh.states, State(Push(r))) /\ gh'.at = gh.at + 1 /\ gh'.failed = gh.failed
      BY <2>1 DEF GithubInv, CallInv, GithubFields
    <3>2. /\ State(Push(r)) \in States
          /\ State(Push(r)) = "reachable" => Push(r)
          /\ State(Push(r)) = "unreachable" => ~Push(r) /\ r \notin gh.pending
      BY DEF States
    <3> HIDE DEF State
    <3>3. QED
      BY <3>1, <3>2
  <2>2. CASE gh' = [gh EXCEPT !.states = Append(@, State(FALSE)), !.at = @ + 1, !.failed = TRUE]
    <3>1. /\ GithubFields \subseteq DOMAIN gh' /\ gh'.op = gh.op /\ gh'.phase = gh.phase
          /\ gh'.login = gh.login /\ gh'.pending = gh.pending /\ gh'.exit = gh.exit
          /\ gh'.states = Append(gh.states, State(FALSE)) /\ gh'.at = gh.at + 1 /\ gh'.failed = TRUE
      BY <2>2 DEF GithubInv, CallInv, GithubFields
    <3>2. State(FALSE) \in States \ {"reachable"}
      BY DEF States
    <3> HIDE DEF State
    <3>3. QED
      BY <3>1, <3>2
  <2>3. QED
    BY <1>1, <2>1, <2>2
<1> HIDE DEF State
<1>3. CASE gh.op # "verify"
  BY <1>1, <1>2, <1>3 DEF GithubInv, CallInv, PendingInv, StatesInv, ExitInv, Answered
<1>4. CASE gh.op = "verify"
  <2>1. /\ gh.states \in Seq(States) /\ gh.at = Len(gh.states) + 1 /\ gh.login = ambient.token
        /\ access \in [RepoSet -> Access] /\ Len(Repos) \in Nat
    BY <1>1, <1>4, GithubAssumption DEF GithubInv, CallInv, Answered
  <2>2. /\ gh'.states \in Seq(States) /\ Len(gh'.states) = gh.at
        /\ \A i \in DOMAIN gh'.states : gh'.states[i] = IF i = gh.at THEN state ELSE gh.states[i]
        /\ \A i \in DOMAIN gh'.states : i # gh.at => i \in DOMAIN gh.states
    <3> DEFINE old == gh.states
    <3>1. old \in Seq(States) /\ gh.at = Len(old) + 1 /\ gh'.states = Append(old, state) /\ state \in States
      BY <1>2, <2>1
    <3> HIDE DEF old
    <3>2. /\ Append(old, state) \in Seq(States) /\ Len(Append(old, state)) = Len(old) + 1
          /\ \A i \in 1..Len(old) : Append(old, state)[i] = old[i]
          /\ Append(old, state)[Len(old) + 1] = state
      BY <3>1, AppendProperties
    <3>3. DOMAIN old = 1..Len(old) /\ DOMAIN Append(old, state) = 1..(Len(old) + 1) /\ Len(old) \in Nat
      BY <3>1, <3>2
    <3> DEFINE new == Append(old, state)
    <3>4. gh'.states = new
      BY <3>1
    <3> HIDE DEF new
    <3>5. new \in Seq(States) /\ Len(new) = Len(old) + 1 /\ DOMAIN new = 1..(Len(old) + 1)
          /\ (\A i \in 1..Len(old) : new[i] = old[i]) /\ new[Len(old) + 1] = state
      BY <3>2, <3>3 DEF new
    <3>6. \A i \in DOMAIN new : (i = gh.at /\ new[i] = state) \/ (i # gh.at /\ i \in 1..Len(old))
      BY <3>1, <3>3, <3>5
    <3>7. \A i \in DOMAIN new : /\ new[i] = IF i = gh.at THEN state ELSE old[i]
                                /\ i # gh.at => i \in DOMAIN old
      BY <3>3, <3>5, <3>6
    <3>8. QED
      BY <3>1, <3>4, <3>5, <3>7 DEF old
  <2>3. CallInv'
    BY <1>1, <1>2, <1>4, <2>1, <2>2 DEF GithubInv, CallInv, Answered
  <2>4. PendingInv'
    BY <1>1, <1>2 DEF GithubInv, PendingInv
  <2>5. r \in RepoSet
    BY <1>1, <2>1, ReposAreRepos
  <2>6. gh.login = Bot /\ r \notin spoiled =>
          /\ state = "reachable" => access[r] = "push"
          /\ state = "unreachable" /\ ~gh'.failed => access[r] = "none"
    <3> SUFFICES ASSUME gh.login = Bot, r \notin spoiled
                 PROVE  /\ state = "reachable" => access[r] = "push"
                        /\ state = "unreachable" /\ ~gh'.failed => access[r] = "none"
      OBVIOUS
    <3>1. Push(r) <=> access[r] = "push"
      BY <2>1, GithubAssumption DEF Push
    <3>2. access[r] = "invited" => r \in gh.pending
      BY <1>1, <1>4, <2>5 DEF GithubInv, PendingInv
    <3>3. access[r] \in Access
      BY <2>1, <2>5
    <3>4. QED
      BY <1>2, <3>1, <3>2, <3>3 DEF Access
  <2>7. StatesInv'
    <3> SUFFICES ASSUME gh.login = Bot, NEW i \in DOMAIN gh'.states, Repos[i] \notin spoiled
                 PROVE  /\ gh'.states[i] = "reachable" => access[Repos[i]] = "push"
                        /\ gh'.states[i] = "unreachable" /\ ~gh'.failed => access[Repos[i]] = "none"
      BY <1>1, <1>2 DEF StatesInv
    <3>1. CASE i = gh.at
      BY <2>2, <2>6, <3>1
    <3>2. CASE i # gh.at
      BY <1>1, <1>2, <1>4, <2>2, <3>2 DEF GithubInv, StatesInv, Answered
    <3>3. QED
      BY <3>1, <3>2
  <2>8. ExitInv'
    BY <1>1, <1>2 DEF ExitInv
  <2>9. QED
    BY <2>3, <2>4, <2>7, <2>8 DEF GithubInv
<1>5. QED
  BY <1>3, <1>4

LEMMA ReportSteps == ASSUME GithubInv, ReportVerify PROVE GithubInv'
<1>1. /\ gh.phase = "repos" /\ gh.at > Len(Repos) /\ UNCHANGED <<access, spoiled, ambient>>
      /\ gh' = [gh EXCEPT !.phase = "done", !.exit = IF IsVerified THEN 0 ELSE 1]
  BY DEF ReportVerify, Step, GithubEnded
<1>2. /\ GithubFields \subseteq DOMAIN gh' /\ gh'.op = gh.op /\ gh'.phase = "done"
      /\ gh'.login = gh.login /\ gh'.pending = gh.pending /\ gh'.states = gh.states /\ gh'.at = gh.at
      /\ gh'.failed = gh.failed /\ gh'.exit = IF IsVerified THEN 0 ELSE 1
  BY <1>1 DEF GithubInv, CallInv, GithubFields
<1>3. Answered' => Answered
  BY <1>1, <1>2 DEF Answered
<1>4. CallInv'
  BY <1>1, <1>2, <1>3 DEF GithubInv, CallInv
<1>5. PendingInv'
  BY <1>2 DEF PendingInv
<1>6. StatesInv'
  BY <1>1, <1>2, <1>3 DEF GithubInv, StatesInv
<1>7. ExitInv'
  <2>1. gh.op = "verify" => Len(gh.states) = Len(Repos)
    BY <1>1, GithubAssumption DEF GithubInv, CallInv, Answered
  <2>2. IsVerified' <=> IsVerified
    BY <1>2 DEF IsVerified, AllReachable
  <2>3. QED
    BY <1>2, <2>1, <2>2 DEF ExitInv
<1>8. QED
  BY <1>4, <1>5, <1>6, <1>7 DEF GithubInv

\* Whatever the machine user accepts and the owner takes back while a verify runs,
\* a repo is called unreachable only if nothing was granted, and exit 0 means push
\* to every repo not taken back; provided the config spells each repo as GitHub
\* does, since the invitations are matched by name (github.rs:248).
THEOREM VerifiesTellTheGrants ==
    ASSUME \A r \in RepoSet : Spelled[r]
    PROVE  GithubSpec => []VerifyTellsTheGrants
<1>1. GithubInv /\ [GithubNext]_githubVars => GithubInv'
  <2> SUFFICES ASSUME GithubInv, [GithubNext]_githubVars PROVE GithubInv'
    OBVIOUS
  <2>1. CASE UNCHANGED githubVars
    BY <2>1 DEF githubVars, GithubInv, CallInv, PendingInv, StatesInv, ExitInv, Answered, IsVerified,
                AllReachable
  <2>2. CASE GithubNext
    BY <2>2, PeopleSteps, InviteSteps, TokenSteps, PendingSteps, PermissionSteps, ReportSteps
    DEF GithubNext, VerifyAccess, ReadsRepos
  <2>3. QED
    BY <2>1, <2>2
<1>2. GithubInv => VerifyTellsTheGrants
  <2> SUFFICES ASSUME GithubInv, gh.op = "verify", gh.phase = "done", gh.exit \in {0, 1},
                      NEW i \in DOMAIN Repos
               PROVE  LET kept == access[Repos[i]] # "none" /\ Repos[i] \notin spoiled IN
                      /\ kept /\ gh.login = Bot /\ ~gh.failed => gh.states[i] # "unreachable"
                      /\ gh.exit = 0 /\ Repos[i] \notin spoiled => access[Repos[i]] = "push"
    BY DEF VerifyTellsTheGrants
  <2>1. Answered
    BY DEF Answered
  <2>2. i \in DOMAIN gh.states
    BY <2>1, GithubAssumption DEF GithubInv, CallInv, ExitInv
  <2>3. gh.login = Bot /\ Repos[i] \notin spoiled =>
          /\ gh.states[i] = "reachable" => access[Repos[i]] = "push"
          /\ gh.states[i] = "unreachable" /\ ~gh.failed => access[Repos[i]] = "none"
    BY <2>1, <2>2 DEF GithubInv, StatesInv
  <2>4. gh.exit = 0 => gh.login = Bot /\ gh.states[i] = "reachable"
    BY <2>2 DEF GithubInv, ExitInv, IsVerified, AllReachable
  <2>5. QED
    BY <2>3, <2>4
<1>3. QED
  BY GithubInitially, <1>1, <1>2, PTL DEF GithubSpec

----------------------------------------------------------------------------
(* This machine's Syncthing.                                               *)

PairFields == {"phase", "host", "path", "plan", "id", "address", "at", "ok"}
Working == pair.phase \in {"planned", "applying"}
LocalIsNoHost(config) == Local \in DOMAIN config.devices /\ config.devices[Local].name \notin Hosts

\* The configuration always holds this machine's own device, under no Host's name.
ConfigInv ==
    /\ {"devices", "memory", "others"} \subseteq DOMAIN peer
    /\ {"path", "with", "tuned"} \subseteq DOMAIN peer.memory
    /\ LocalIsNoHost(peer)
    /\ hostIs \in [Hosts -> Spare]
JobInv ==
    /\ PairFields \subseteq DOMAIN pair
    /\ Working =>
         /\ {"stale", "device", "folder"} \subseteq DOMAIN pair.plan
         /\ pair.host \in Hosts /\ pair.id \in Spare /\ pair.at \in 1..4
         /\ pair.plan.stale \cap {Local, pair.id} = {}
    /\ pair.phase = "planned" => pair.at = 1

DeviceSet(config, asked) ==
    asked.id \in DOMAIN config.devices /\ config.devices[asked.id] = DeviceFor(asked.host, asked.address)
FolderSet(config, asked) ==
    /\ config.memory # NoFolder /\ config.memory.path = asked.path
    /\ config.memory.tuned /\ config.memory.with = {Local, asked.id}

\* While nobody edits, what the plan leaves out is already so, and what it does is
\* so once it is done.
Underway(config, asked) ==
    /\ hostIs[asked.host] = asked.id /\ cached[asked.host] = asked.address
    /\ NoLeak(config, asked.path)
    /\ Stale(config, asked.host, asked.id) \subseteq asked.plan.stale
    /\ ~asked.plan.device \/ asked.at > 1 => DeviceSet(config, asked)
    /\ ~asked.plan.folder \/ asked.at > 2 => FolderSet(config, asked)
    /\ asked.at > 3 => Stale(config, asked.host, asked.id) = {}
Settled(config, asked) ==
    /\ hostIs[asked.host] = asked.id /\ cached[asked.host] = asked.address
    /\ NoLeak(config, asked.path)
    /\ Stale(config, asked.host, asked.id) = {}
    /\ DeviceSet(config, asked) /\ FolderSet(config, asked)
PairInv ==
    /\ ConfigInv /\ JobInv
    /\ Working /\ ~edited => Underway(peer, pair)
    /\ Done => Settled(peer, pair)

LEMMA SyncthingInitially ==
    ASSUME SyncthingInit, \A c \in FirstConfigs : c.devices[Local].name \notin Hosts
    PROVE  PairInv
<1>1. ConfigInv
  BY ConfigsAssumption DEF SyncthingInit, ConfigInv, LocalIsNoHost
<1>2. pair = Idle /\ Idle.phase = "idle" /\ PairFields \subseteq DOMAIN Idle
  BY DEF SyncthingInit, Idle, PairFields
<1>3. QED
  BY <1>1, <1>2 DEF PairInv, JobInv, Working, Done

\* An edit undoes no shape, and a pairing that it overtakes promises nothing more.
LEMMA EditSteps ==
    ASSUME PairInv, Rebuild \/ Refresh \/ ShareOther \/ ShareMemory
    PROVE  PairInv'
<1>1. edited' = TRUE /\ pair' = pair
  BY DEF Rebuild, Refresh, ShareOther, ShareMemory, Edit
<1>2. hostIs' \in [Hosts -> Spare]
  <2>1. CASE Rebuild
    BY <2>1 DEF Rebuild, PairInv, ConfigInv
  <2>2. CASE Refresh \/ ShareOther \/ ShareMemory
    BY <2>2 DEF Refresh, ShareOther, ShareMemory, PairInv, ConfigInv
  <2>3. QED
    BY <2>1, <2>2
<1>3. /\ {"devices", "memory", "others"} \subseteq DOMAIN peer'
      /\ {"path", "with", "tuned"} \subseteq DOMAIN peer'.memory
      /\ peer'.devices = peer.devices
  <2>1. CASE Rebuild \/ Refresh
    BY <2>1 DEF Rebuild, Refresh, PairInv, ConfigInv
  <2>2. CASE ShareOther
    <3>1. \E shared : peer' = [peer EXCEPT !.others = shared]
      BY <2>2 DEF ShareOther
    <3>2. QED
      BY <3>1 DEF PairInv, ConfigInv
  <2>3. CASE ShareMemory
    <3>1. peer' = [peer EXCEPT !.memory.with = @ \cup {Friend}]
      BY <2>3 DEF ShareMemory
    <3>2. QED
      BY <3>1 DEF PairInv, ConfigInv
  <2>4. QED
    BY <2>1, <2>2, <2>3
<1>4. ConfigInv'
  BY <1>2, <1>3 DEF PairInv, ConfigInv, LocalIsNoHost
<1>5. JobInv'
  BY <1>1 DEF PairInv, JobInv, Working
<1>6. QED
  BY <1>1, <1>4, <1>5 DEF PairInv, Done

LEMMA PlanTells ==
    ASSUME ConfigInv, NEW h \in Hosts, NEW id \in Spare, NEW address
    PROVE  LET plan == PlanPairing(peer, h, id, address) IN
           /\ {"stale", "device", "folder"} \subseteq DOMAIN plan
           /\ plan.stale = Stale(peer, h, id)
           /\ plan.stale \cap {Local, id} = {}
           /\ ~plan.device => id \in DOMAIN peer.devices /\ peer.devices[id] = DeviceFor(h, address)
           /\ ~plan.folder => peer.memory # NoFolder /\ FolderCurrent(peer, id)
<1> DEFINE device == ~(id \in DOMAIN peer.devices /\ peer.devices[id] = DeviceFor(h, address))
           folder == peer.memory = NoFolder \/ ~FolderCurrent(peer, id)
           plan == [stale |-> Stale(peer, h, id), device |-> device, folder |-> folder]
<1>1. PlanPairing(peer, h, id, address) = plan
  BY DEF PlanPairing
<1> HIDE DEF device, folder
<1>2. plan.stale = Stale(peer, h, id) /\ plan.device = device /\ plan.folder = folder
      /\ {"stale", "device", "folder"} \subseteq DOMAIN plan
  OBVIOUS
<1> HIDE DEF plan
<1>3. Local \notin Stale(peer, h, id) /\ id \notin Stale(peer, h, id)
  BY DEF ConfigInv, LocalIsNoHost, Stale
<1>4. ~device => id \in DOMAIN peer.devices /\ peer.devices[id] = DeviceFor(h, address)
  BY DEF device
<1>5. ~folder => peer.memory # NoFolder /\ FolderCurrent(peer, id)
  BY DEF folder
<1>6. QED
  BY <1>1, <1>2, <1>3, <1>4, <1>5

LEMMA PairSteps == ASSUME PairInv, Pair PROVE PairInv'
<1>1. PICK h \in Hosts, p \in Paths :
        LET id == ReadDeviceId(h)
            plan == PlanPairing(peer, h, id, cached[h])
            next == [Idle EXCEPT !.host = h, !.path = p, !.plan = plan,
                                !.id = id, !.address = cached[h]]
        IN \/ pair' = [next EXCEPT !.phase = "done"]
           \/ /\ NotRefused(peer, h, id, p)
              /\ pair' = IF IsConverged(plan) THEN [next EXCEPT !.phase = "done", !.ok = TRUE]
                         ELSE [next EXCEPT !.phase = "planned"]
  BY DEF Pair
<1> DEFINE id == hostIs[h]
           plan == PlanPairing(peer, h, id, cached[h])
           next == [Idle EXCEPT !.host = h, !.path = p, !.plan = plan, !.id = id, !.address = cached[h]]
<1>2. \/ pair' = [next EXCEPT !.phase = "done"]
      \/ NotRefused(peer, h, id, p) /\ plan = NoPlan /\ pair' = [next EXCEPT !.phase = "done", !.ok = TRUE]
      \/ NotRefused(peer, h, id, p) /\ pair' = [next EXCEPT !.phase = "planned"]
  BY <1>1 DEF ReadDeviceId, IsConverged
<1>3. id \in Spare /\ UNCHANGED <<peer, hostIs, cached>>
  BY DEF PairInv, ConfigInv, Pair, Elsewhere
<1>4. /\ {"stale", "device", "folder"} \subseteq DOMAIN plan
      /\ plan.stale = Stale(peer, h, id)
      /\ plan.stale \cap {Local, id} = {}
      /\ ~plan.device => id \in DOMAIN peer.devices /\ peer.devices[id] = DeviceFor(h, cached[h])
      /\ ~plan.folder => peer.memory # NoFolder /\ FolderCurrent(peer, id)
  BY <1>3, PlanTells DEF PairInv
<1>5. ConfigInv'
  BY <1>3 DEF PairInv, ConfigInv, LocalIsNoHost
<1> HIDE DEF plan, id
<1>6. /\ pair'.host = h /\ pair'.path = p /\ pair'.plan = plan /\ pair'.id = id /\ pair'.address = cached[h]
      /\ PairFields \subseteq DOMAIN pair' /\ pair'.at = 1
      /\ \/ pair'.phase = "done" /\ ~pair'.ok
         \/ NotRefused(peer, h, id, p) /\ plan = NoPlan /\ pair'.phase = "done"
         \/ NotRefused(peer, h, id, p) /\ pair'.phase = "planned"
  BY <1>2 DEF Idle, PairFields
<1>7. JobInv'
  BY <1>3, <1>4, <1>6 DEF JobInv, Working
<1>8. NotRefused(peer, h, id, p) /\ ~plan.folder => FolderSet(peer, pair')
  BY <1>4, <1>6 DEF NotRefused, OneTenant, FolderCurrent, FolderSet
<1>9. ~plan.device => DeviceSet(peer, pair')
  BY <1>4, <1>6 DEF DeviceSet
<1>10. NotRefused(peer, h, id, p) => NoLeak(peer, pair'.path)
  BY <1>6 DEF NotRefused
<1>11. hostIs'[pair'.host] = pair'.id /\ cached'[pair'.host] = pair'.address /\ peer' = peer
  BY <1>3, <1>6 DEF id
<1>12. (Working /\ ~edited => Underway(peer, pair))'
  <2>1. Working' => NotRefused(peer, h, id, p)
    BY <1>6 DEF Working
  <2>2. Stale(peer, pair'.host, pair'.id) = plan.stale
    BY <1>4, <1>6
  <2>3. QED
    BY <1>6, <1>8, <1>9, <1>10, <1>11, <2>1, <2>2 DEF Underway
<1>13. (Done => Settled(peer, pair))'
  <2>1. Done' => NotRefused(peer, h, id, p) /\ plan = NoPlan
    BY <1>6 DEF Done
  <2>2. plan = NoPlan => ~plan.device /\ ~plan.folder /\ plan.stale = {}
    BY DEF NoPlan
  <2>3. Stale(peer, pair'.host, pair'.id) = plan.stale
    BY <1>4, <1>6
  <2>4. QED
    BY <1>8, <1>9, <1>10, <1>11, <2>1, <2>2, <2>3 DEF Settled
<1>14. QED
  BY <1>5, <1>7, <1>12, <1>13 DEF PairInv

LEMMA EndSteps ==
    ASSUME PairInv, PairEnded(FALSE), UNCHANGED <<peer, hostIs>>
    PROVE  PairInv'
<1>1. pair'.phase = "done" /\ ~pair'.ok /\ PairFields \subseteq DOMAIN pair'
  BY DEF PairEnded, PairInv, JobInv, PairFields
<1>2. ConfigInv'
  BY DEF PairInv, ConfigInv, LocalIsNoHost
<1>3. QED
  BY <1>1, <1>2 DEF PairInv, JobInv, Working, Done

LEMMA ConfirmSteps == ASSUME PairInv, Confirm PROVE PairInv'
<1>1. /\ pair.phase = "planned" /\ UNCHANGED <<peer, edited, hostIs, cached>>
      /\ pair' = [pair EXCEPT !.phase = "applying"] \/ PairEnded(FALSE)
  BY DEF Confirm, Elsewhere
<1>2. CASE pair' = [pair EXCEPT !.phase = "applying"]
  <2>1. /\ PairFields \subseteq DOMAIN pair' /\ pair'.phase = "applying"
        /\ pair'.host = pair.host /\ pair'.path = pair.path /\ pair'.plan = pair.plan /\ pair'.id = pair.id
        /\ pair'.address = pair.address /\ pair'.at = pair.at
    BY <1>2 DEF PairInv, JobInv, PairFields
  <2>2. ConfigInv'
    BY <1>1 DEF PairInv, ConfigInv, LocalIsNoHost
  <2>3. JobInv'
    BY <1>1, <2>1 DEF PairInv, JobInv, Working
  <2>4. (Working /\ ~edited => Underway(peer, pair))'
    BY <1>1, <2>1 DEF PairInv, Working, Underway, DeviceSet, FolderSet
  <2>5. QED
    BY <2>1, <2>2, <2>3, <2>4 DEF PairInv, Done
<1>3. QED
  BY <1>1, <1>2, EndSteps

\* One step of the application: the peer changes, the plan does not.
LEMMA Applies ==
    ASSUME PairInv, pair.phase = "applying", UNCHANGED <<edited, hostIs, cached>>,
           NEW at \in 1..4, pair' = [pair EXCEPT !.at = at] \/ (pair' = pair /\ at = pair.at),
           {"devices", "memory", "others"} \subseteq DOMAIN peer',
           {"path", "with", "tuned"} \subseteq DOMAIN peer'.memory,
           LocalIsNoHost(peer'),
           ~edited => Underway(peer', pair')
    PROVE  PairInv'
<1>1. /\ PairFields \subseteq DOMAIN pair' /\ pair'.phase = "applying"
      /\ pair'.host = pair.host /\ pair'.plan = pair.plan /\ pair'.id = pair.id /\ pair'.at = at
  BY DEF PairInv, JobInv, PairFields
<1>2. ConfigInv'
  BY DEF PairInv, ConfigInv
<1>3. JobInv'
  BY <1>1 DEF PairInv, JobInv, Working
<1>4. (Working /\ ~edited => Underway(peer, pair))'
  <2>1. edited' = edited /\ hostIs' = hostIs /\ cached' = cached
    OBVIOUS
  <2>2. QED
    BY <2>1 DEF Underway
<1>5. QED
  BY <1>1, <1>2, <1>3, <1>4 DEF PairInv, Done

LEMMA StepsAre == Order = <<"device", "folder", "stale">> /\ Len(Order) = 3 /\ DOMAIN Order = 1..3
BY DEF Order, Steps

LEMMA PutDeviceSteps == ASSUME PairInv, PutDevice PROVE PairInv'
<1>1. /\ pair.phase = "applying" /\ pair.at = 1 /\ UNCHANGED <<edited, hostIs, cached>>
      /\ \/ PairEnded(FALSE) /\ UNCHANGED peer
         \/ /\ pair' = [pair EXCEPT !.at = 2]
            /\ peer' = IF ~pair.plan.device THEN peer
                       ELSE [peer EXCEPT !.devices = [d \in DOMAIN @ \cup {pair.id} |->
                              IF d = pair.id THEN DeviceFor(pair.host, pair.address) ELSE @[d]]]
  <2>1. Doing("device") /\ UNCHANGED <<edited, hostIs, cached>>
    BY DEF PutDevice, Call, Elsewhere
  <2>2. pair.phase = "applying" /\ pair.at = 1
    BY <2>1, StepsAre DEF Doing
  <2>3. [pair EXCEPT !.at = @ + 1] = [pair EXCEPT !.at = 2]
    BY <2>2
  <2>4. QED
    BY <2>1, <2>2, <2>3 DEF PutDevice, Call
<1>2. CASE PairEnded(FALSE) /\ UNCHANGED peer
  BY <1>1, <1>2, EndSteps
<1>3. CASE /\ pair' = [pair EXCEPT !.at = 2]
           /\ peer' = IF ~pair.plan.device THEN peer
                      ELSE [peer EXCEPT !.devices = [d \in DOMAIN @ \cup {pair.id} |->
                              IF d = pair.id THEN DeviceFor(pair.host, pair.address) ELSE @[d]]]
  <2>1. /\ PairFields \subseteq DOMAIN pair' /\ pair'.at = 2
        /\ pair'.host = pair.host /\ pair'.path = pair.path /\ pair'.plan = pair.plan /\ pair'.id = pair.id
        /\ pair'.address = pair.address
    BY <1>3 DEF PairInv, JobInv, PairFields
  <2>2. pair.host \in Hosts /\ pair.id \in Spare /\ pair.id # Local
    BY <1>1 DEF PairInv, JobInv, Working, Spare
  <2>3. /\ {"devices", "memory", "others"} \subseteq DOMAIN peer'
        /\ peer'.memory = peer.memory /\ peer'.others = peer.others
        /\ pair.plan.device =>
             /\ DOMAIN peer'.devices = DOMAIN peer.devices \cup {pair.id}
             /\ peer'.devices[pair.id] = DeviceFor(pair.host, pair.address)
             /\ \A d \in DOMAIN peer.devices : d # pair.id => peer'.devices[d] = peer.devices[d]
        /\ ~pair.plan.device => peer' = peer
    BY <1>3 DEF PairInv, ConfigInv
  <2>4. LocalIsNoHost(peer')
    BY <2>2, <2>3 DEF PairInv, ConfigInv, LocalIsNoHost
  <2>5. ASSUME ~edited PROVE Underway(peer', pair')
    <3>1. Underway(peer, pair)
      BY <1>1, <2>5 DEF PairInv, Working
    <3>2. DeviceSet(peer', pair')
      BY <2>1, <2>3, <3>1 DEF Underway, DeviceSet
    <3>3. Stale(peer', pair.host, pair.id) = Stale(peer, pair.host, pair.id)
      BY <2>3 DEF Stale
    <3>4. ~pair.plan.folder => FolderSet(peer', pair')
      BY <1>1, <2>1, <2>3, <3>1 DEF Underway, FolderSet
    <3>5. NoLeak(peer', pair'.path)
      BY <2>1, <2>3, <3>1 DEF Underway, NoLeak
    <3>6. QED
      BY <2>1, <3>1, <3>2, <3>3, <3>4, <3>5 DEF Underway
  <2>6. {"path", "with", "tuned"} \subseteq DOMAIN peer'.memory
    BY <2>3 DEF PairInv, ConfigInv
  <2>7. QED
    BY <1>1, <1>3, <2>3, <2>4, <2>5, <2>6, Applies
<1>4. QED
  BY <1>1, <1>2, <1>3

LEMMA PutFolderSteps == ASSUME PairInv, PutFolder PROVE PairInv'
<1> DEFINE put == [path |-> pair.path, tuned |-> TRUE, with |-> Known(peer, {Local, pair.id})]
<1>1. /\ pair.phase = "applying" /\ pair.at = 2 /\ UNCHANGED <<edited, hostIs, cached>>
      /\ \/ PairEnded(FALSE) /\ UNCHANGED peer
         \/ /\ pair' = [pair EXCEPT !.at = 3]
            /\ peer' = IF ~pair.plan.folder THEN peer ELSE [peer EXCEPT !.memory = put]
  <2>1. Doing("folder") /\ UNCHANGED <<edited, hostIs, cached>>
    BY DEF PutFolder, Call, Elsewhere
  <2>2. pair.phase = "applying" /\ pair.at = 2
    BY <2>1, StepsAre DEF Doing
  <2>3. [pair EXCEPT !.at = @ + 1] = [pair EXCEPT !.at = 3]
    BY <2>2
  <2>4. QED
    BY <2>1, <2>2, <2>3 DEF PutFolder, Call
<1>2. CASE PairEnded(FALSE) /\ UNCHANGED peer
  BY <1>1, <1>2, EndSteps
<1>3. CASE /\ pair' = [pair EXCEPT !.at = 3]
           /\ peer' = IF ~pair.plan.folder THEN peer ELSE [peer EXCEPT !.memory = put]
  <2>1. /\ PairFields \subseteq DOMAIN pair' /\ pair'.at = 3
        /\ pair'.host = pair.host /\ pair'.path = pair.path /\ pair'.plan = pair.plan /\ pair'.id = pair.id
        /\ pair'.address = pair.address
    BY <1>3 DEF PairInv, JobInv, PairFields
  <2>2. put.path = pair.path /\ put.tuned /\ put.with = Known(peer, {Local, pair.id}) /\ put # NoFolder
        /\ {"path", "with", "tuned"} \subseteq DOMAIN put
    <3>1. put.tuned = TRUE /\ NoFolder.tuned = FALSE
      BY DEF NoFolder
    <3>2. QED
      BY <3>1
  <2> HIDE DEF put
  <2>3. /\ {"devices", "memory", "others"} \subseteq DOMAIN peer'
        /\ peer'.devices = peer.devices /\ peer'.others = peer.others
        /\ peer'.memory = IF pair.plan.folder THEN put ELSE peer.memory
    BY <1>3 DEF PairInv, ConfigInv
  <2>4. LocalIsNoHost(peer') /\ {"path", "with", "tuned"} \subseteq DOMAIN peer'.memory
    BY <2>2, <2>3 DEF PairInv, ConfigInv, LocalIsNoHost
  <2>5. ASSUME ~edited PROVE Underway(peer', pair')
    <3>1. Underway(peer, pair)
      BY <1>1, <2>5 DEF PairInv, Working
    <3>2. DeviceSet(peer, pair)
      BY <1>1, <3>1 DEF Underway
    <3>3. Known(peer, {Local, pair.id}) = {Local, pair.id}
      BY <3>2 DEF Known, DeviceSet, PairInv, ConfigInv, LocalIsNoHost
    <3>4. FolderSet(peer', pair')
      <4>1. CASE pair.plan.folder
        BY <2>1, <2>2, <2>3, <3>3, <4>1 DEF FolderSet
      <4>2. CASE ~pair.plan.folder
        BY <2>1, <2>3, <3>1, <4>2 DEF FolderSet, Underway
      <4>3. QED
        BY <4>1, <4>2
    <3>5. Stale(peer', pair.host, pair.id) = Stale(peer, pair.host, pair.id)
      BY <2>3 DEF Stale
    <3>6. DeviceSet(peer', pair') /\ NoLeak(peer', pair'.path)
      BY <2>1, <2>3, <3>1, <3>2 DEF DeviceSet, NoLeak, Underway
    <3>7. QED
      BY <2>1, <3>1, <3>4, <3>5, <3>6 DEF Underway
  <2>6. QED
    BY <1>1, <1>3, <2>3, <2>4, <2>5, Applies
<1>4. QED
  BY <1>1, <1>2, <1>3

LEMMA DeleteSteps == ASSUME PairInv, DeleteStale PROVE PairInv'
<1>1. /\ pair.phase = "applying" /\ pair.at = 3 /\ UNCHANGED <<edited, hostIs, cached>>
      /\ \/ PairEnded(FALSE) /\ UNCHANGED peer
         \/ StaleLeft = {} /\ pair' = [pair EXCEPT !.at = 4] /\ UNCHANGED peer
         \/ pair' = pair /\ \E d \in StaleLeft :
              peer' = [peer EXCEPT !.devices = [e \in DOMAIN @ \ {d} |-> @[e]],
                                   !.memory.with = @ \ {d}, !.others = [q \in DOMAIN @ |-> @[q] \ {d}]]
  <2>1. Doing("stale") /\ UNCHANGED <<edited, hostIs, cached>>
    BY DEF DeleteStale, Call, Elsewhere
  <2>2. pair.phase = "applying" /\ pair.at = 3
    BY <2>1, StepsAre DEF Doing
  <2>3. [pair EXCEPT !.at = @ + 1] = [pair EXCEPT !.at = 4]
    BY <2>2
  <2>4. QED
    BY <2>1, <2>2, <2>3 DEF DeleteStale, Call
<1>6. pair.at = 3 /\ pair.phase = "applying"
  BY <1>1
<1>2. CASE PairEnded(FALSE) /\ UNCHANGED peer
  BY <1>1, <1>2, EndSteps
<1>3. CASE StaleLeft = {} /\ pair' = [pair EXCEPT !.at = 4] /\ UNCHANGED peer
  <2>1. /\ PairFields \subseteq DOMAIN pair' /\ pair'.at = 4
        /\ pair'.host = pair.host /\ pair'.path = pair.path /\ pair'.plan = pair.plan /\ pair'.id = pair.id
        /\ pair'.address = pair.address
    BY <1>3 DEF PairInv, JobInv, PairFields
  <2>2. ASSUME ~edited PROVE Underway(peer', pair')
    <3>1. Underway(peer, pair)
      BY <1>1, <2>2 DEF PairInv, Working
    <3>2. Stale(peer, pair.host, pair.id) = {}
      BY <1>3, <3>1 DEF StaleLeft, Underway, Stale
    <3>3. peer' = peer
      BY <1>3
    <3>4. DeviceSet(peer, pair) /\ FolderSet(peer, pair)
      BY <1>6, <3>1 DEF Underway
    <3>5. DeviceSet(peer, pair') /\ FolderSet(peer, pair')
      BY <2>1, <3>4 DEF DeviceSet, FolderSet
    <3>6. QED
      BY <2>1, <3>1, <3>2, <3>3, <3>5 DEF Underway
  <2>3. LocalIsNoHost(peer') /\ {"devices", "memory", "others"} \subseteq DOMAIN peer'
        /\ {"path", "with", "tuned"} \subseteq DOMAIN peer'.memory
    BY <1>3 DEF PairInv, ConfigInv
  <2>4. QED
    <3>1. UNCHANGED <<edited, hostIs, cached>> /\ pair' = [pair EXCEPT !.at = 4] /\ 4 \in 1..4
      BY <1>1, <1>3
    <3>2. QED
      BY <1>6, <2>2, <2>3, <3>1, Applies
<1>4. CASE pair' = pair /\ \E d \in StaleLeft :
              peer' = [peer EXCEPT !.devices = [e \in DOMAIN @ \ {d} |-> @[e]],
                                   !.memory.with = @ \ {d}, !.others = [q \in DOMAIN @ |-> @[q] \ {d}]]
  <2>1. PICK d \in StaleLeft :
              peer' = [peer EXCEPT !.devices = [e \in DOMAIN @ \ {d} |-> @[e]],
                                   !.memory.with = @ \ {d}, !.others = [q \in DOMAIN @ |-> @[q] \ {d}]]
    BY <1>4
  <2>2. /\ {"devices", "memory", "others"} \subseteq DOMAIN peer'
        /\ peer'.devices = [e \in DOMAIN peer.devices \ {d} |-> peer.devices[e]]
        /\ peer'.memory = [peer.memory EXCEPT !.with = @ \ {d}]
        /\ DOMAIN peer'.others = DOMAIN peer.others
    BY <2>1 DEF PairInv, ConfigInv
  <2>3. d # Local /\ d # pair.id
    BY <1>1 DEF StaleLeft, PairInv, JobInv, Working
  <2>4. /\ {"path", "with", "tuned"} \subseteq DOMAIN peer'.memory
        /\ peer'.memory.path = peer.memory.path /\ peer'.memory.tuned = peer.memory.tuned
        /\ peer'.memory.with = peer.memory.with \ {d}
    BY <2>2 DEF PairInv, ConfigInv
  <2>5. LocalIsNoHost(peer')
    BY <2>2, <2>3 DEF PairInv, ConfigInv, LocalIsNoHost
  <2>6. ASSUME ~edited PROVE Underway(peer', pair')
    <3>1. Underway(peer, pair) /\ pair' = pair
      BY <1>1, <1>4, <2>6 DEF PairInv, Working
    <3>2. DeviceSet(peer, pair) /\ FolderSet(peer, pair)
      BY <1>6, <3>1 DEF Underway
    <3>3. DeviceSet(peer', pair)
      BY <2>2, <2>3, <3>2 DEF DeviceSet
    <3>4. peer'.memory # NoFolder
      <4>1. peer'.memory.tuned /\ NoFolder.tuned = FALSE
        BY <2>4, <3>2 DEF FolderSet, NoFolder
      <4>2. QED
        BY <4>1
    <3>5. FolderSet(peer', pair)
      BY <2>3, <2>4, <3>2, <3>4 DEF FolderSet
    <3>6. Stale(peer', pair.host, pair.id) \subseteq Stale(peer, pair.host, pair.id)
      BY <2>2 DEF Stale
    <3>7. NoLeak(peer', pair.path)
      BY <2>2, <3>1 DEF NoLeak, Underway
    <3>8. QED
      BY <1>1, <3>1, <3>3, <3>5, <3>6, <3>7 DEF Underway
  <2>7. UNCHANGED <<edited, hostIs, cached>>
    BY DEF DeleteStale, Call, Elsewhere
  <2>8. QED
    <3>1. 3 \in 1..4 /\ pair' = pair /\ 3 = pair.at
      BY <1>4, <1>6
    <3>2. QED
      BY <1>6, <2>2, <2>4, <2>5, <2>6, <2>7, <3>1, Applies
<1>5. QED
  BY <1>1, <1>2, <1>3, <1>4

LEMMA PairedSteps == ASSUME PairInv, Paired PROVE PairInv'
<1>1. /\ pair.phase = "applying" /\ pair.at > 3 /\ UNCHANGED <<peer, edited, hostIs, cached>>
      /\ pair' = [pair EXCEPT !.phase = "done", !.ok = TRUE]
  BY StepsAre DEF Paired, PairEnded, Elsewhere
<1>2. /\ PairFields \subseteq DOMAIN pair' /\ pair'.phase = "done"
      /\ pair'.host = pair.host /\ pair'.path = pair.path /\ pair'.plan = pair.plan /\ pair'.id = pair.id
      /\ pair'.address = pair.address
  BY <1>1 DEF PairInv, JobInv, PairFields
<1>3. ~edited => Underway(peer, pair) /\ pair.at \in 1..4
  BY <1>1 DEF PairInv, JobInv, Working
<1>4. ~edited => Settled(peer, pair)
  BY <1>1, <1>3 DEF Underway, Settled
<1>5. (Done => Settled(peer, pair))'
  BY <1>1, <1>2, <1>4 DEF Done, Settled, DeviceSet, FolderSet
<1>6. ConfigInv' /\ JobInv'
  BY <1>1, <1>2 DEF PairInv, ConfigInv, LocalIsNoHost, JobInv, Working
<1>7. QED
  BY <1>2, <1>5, <1>6 DEF PairInv, Working

\* A pairing that ends well with nobody editing meanwhile leaves the memories to
\* this machine and that Host, and a rerun nothing to change, whatever attempt,
\* rebuild, rename or folder came before it: for any configuration in which this
\* machine's own device does not carry a Host's name.  Where it does, it is among
\* the stale devices that the plan deletes (plan_pairing, syncthing.rs:144).
THEOREM PairingsSettle ==
    ASSUME \A c \in FirstConfigs : c.devices[Local].name \notin Hosts
    PROVE  SyncthingSpec => []PairedIsSettled
<1>1. SyncthingInit => PairInv
  BY SyncthingInitially
<1>2. PairInv /\ [SyncthingNext]_syncthingVars => PairInv'
  <2> SUFFICES ASSUME PairInv, [SyncthingNext]_syncthingVars PROVE PairInv'
    OBVIOUS
  <2>1. CASE SyncthingNext
    BY <2>1, EditSteps, PairSteps, ConfirmSteps, PutDeviceSteps, PutFolderSteps, DeleteSteps, PairedSteps
    DEF SyncthingNext
  <2>2. CASE UNCHANGED syncthingVars
    BY <2>2 DEF syncthingVars, PairInv, ConfigInv, LocalIsNoHost, JobInv, Working, Done, Underway, Settled
  <2>3. QED
    BY <2>1, <2>2
<1>3. PairInv => PairedIsSettled
  <2> SUFFICES ASSUME PairInv, Done PROVE PairedIsSettled
    BY DEF PairedIsSettled, PairedIsPrivate, PairedIsConverged
  <2>1. Settled(peer, pair)
    BY DEF PairInv
  <2>2. PairedIsPrivate
    BY <2>1 DEF PairedIsPrivate, Settled, FolderSet, NoLeak, Readers
  <2>3. PairedIsConverged
    <3>1. hostIs[pair.host] = pair.id /\ cached[pair.host] = pair.address
      BY <2>1 DEF Settled
    <3>2. (pair.id \in DOMAIN peer.devices /\ peer.devices[pair.id] = DeviceFor(pair.host, pair.address)) = TRUE
      BY <2>1 DEF Settled, DeviceSet
    <3>3. (peer.memory = NoFolder \/ ~FolderCurrent(peer, pair.id)) = FALSE
      BY <2>1 DEF Settled, FolderSet, FolderCurrent
    <3>4. Stale(peer, pair.host, pair.id) = {}
      BY <2>1 DEF Settled
    <3>5. PlanPairing(peer, pair.host, pair.id, pair.address) = NoPlan
      BY <3>2, <3>3, <3>4 DEF PlanPairing, NoPlan
    <3>6. QED
      BY <3>1, <3>5 DEF PairedIsConverged, IsConverged
  <2>4. QED
    BY <2>2, <2>3 DEF PairedIsSettled
<1>4. QED
  BY <1>1, <1>2, <1>3, PTL DEF SyncthingSpec
----------------------------------------------------------------------------
(* The mail archive.                                                       *)

\* Where a message stands in a listing: it has a place there, and mail that
\* arrives only moves it back.
LEMMA OffsetWithin ==
    ASSUME NEW S \in SUBSET Mail, NEW m \in S
    PROVE  IsFiniteSet(S) /\ Offset(S, m) \in Nat /\ Cardinality(S) \in Nat /\ Offset(S, m) < Cardinality(S)
<1> DEFINE first == {x \in S : Before(x, m)}
<1>1. IsFiniteSet(S) /\ Cardinality(S) \in Nat
  BY BichonAssumption, FS_Subset, FS_CardinalityType
<1>2. ~Before(m, m)
  BY BichonAssumption DEF Before
<1>3. first \subseteq S \ {m}
  BY <1>2
<1>4. IsFiniteSet(S \ {m}) /\ Cardinality(S \ {m}) = Cardinality(S) - 1
  BY <1>1, FS_RemoveElement
<1>5. Cardinality(first) \in Nat /\ Cardinality(first) <= Cardinality(S \ {m})
  BY <1>3, <1>4, FS_Subset, FS_CardinalityType
<1>6. QED
  BY <1>1, <1>4, <1>5 DEF Offset

LEMMA OffsetGrows ==
    ASSUME NEW T \in SUBSET Mail, NEW S \in SUBSET T, NEW m
    PROVE  Offset(S, m) <= Offset(T, m) /\ Offset(S, m) \in Nat /\ Offset(T, m) \in Nat
<1>1. IsFiniteSet({x \in T : Before(x, m)})
  BY BichonAssumption, FS_Subset
<1>2. {x \in S : Before(x, m)} \subseteq {x \in T : Before(x, m)}
  OBVIOUS
<1>3. QED
  BY <1>1, <1>2, FS_Subset, FS_CardinalityType DEF Offset

LEMMA PageStart == ASSUME NEW k \in Nat \ {0} PROVE (k - 1) * PageSize \in Nat
<1>1. k - 1 \in Nat /\ PageSize \in Nat
  BY BichonAssumption
<1>2. \A i, j \in Nat : i * j \in Nat
  OBVIOUS
<1>3. QED
  BY <1>1, <1>2

\* A message that no earlier page held is on this one, or on one to come.
LEMMA PageHolds ==
    ASSUME NEW S \in SUBSET Mail, NEW m \in S, NEW k \in Nat \ {0}, (k - 1) * PageSize <= Offset(S, m)
    PROVE  m \in Page(S, k) \/ (((k + 1) - 1) * PageSize <= Offset(S, m) /\ ~IsLast(S, k))
<1>1. PageSize \in Nat /\ k * PageSize \in Nat /\ (k + 1) - 1 = k
  BY BichonAssumption
<1>2. Offset(S, m) \in Nat /\ Cardinality(S) \in Nat /\ Offset(S, m) < Cardinality(S)
  BY OffsetWithin
<1>3. CASE Offset(S, m) < k * PageSize
  BY <1>3 DEF Page
<1>4. CASE ~(Offset(S, m) < k * PageSize)
  BY <1>1, <1>2, <1>4 DEF IsLast
<1>5. QED
  BY <1>3, <1>4

CmdFields == {"kind", "phase", "picked", "folder", "before", "todo", "listed", "page", "exit",
              "seen", "steady", "quiet", "alone", "apply", "known", "desired", "done", "mark"}
JobFields == {"on", "todo", "walking", "more", "since", "page", "top", "failures", "total", "ok"}

\* Every sidecar is of a message, and every message searched for one that exists.
MailInv ==
    /\ store \subseteq Mail
    /\ cursor = [a \in Accounts |-> cursor[a]]
    /\ \A x \in archive : /\ {"n", "acct", "id", "keyed"} \subseteq DOMAIN x
                          /\ \E m \in Mail : x.n = m.n /\ x.id = m.id

Once(s) == \A i, j \in DOMAIN s : s[i] = s[j] => i = j
RunInv ==
    /\ JobFields \subseteq DOMAIN job
    /\ {job.on, job.walking, job.more, job.ok} \subseteq BOOLEAN
    /\ job.todo \in Seq(Accounts) /\ Once(job.todo) /\ job.page \in Nat \ {0}
    /\ job.failures \in Nat /\ job.total \in Nat
    /\ job.walking => job.on /\ job.todo # << >>

\* Who is in which phase, and what a command saw when it connected.
CmdInv ==
    /\ CmdFields \subseteq DOMAIN cmd /\ {cmd.steady, cmd.quiet} \subseteq BOOLEAN
    /\ cmd.page \in Nat \ {0}
    /\ cmd.exit = 0 => cmd.phase = "done"
    /\ cmd.phase \in {"search", "rows"} => cmd.kind = "verify" /\ \E a \in Accounts : cmd.picked = {a}
    /\ cmd.phase \in {"list", "update"} => cmd.kind = "reconcile"
    /\ cmd.phase \in {"stale", "busy", "reset", "mark", "start", "wait"} =>
         cmd.kind = "rescan" /\ cmd.picked \subseteq Accounts
    /\ cmd.phase \in {"stale", "busy", "reset"} => cmd.todo \in Seq(Accounts) /\ cmd.todo # << >>
    /\ cmd.phase \in {"stale", "busy"} => Range(cmd.todo) = cmd.picked
    /\ cmd.phase = "idle" => cmd.kind = ""
    /\ cmd.steady => cmd.seen \subseteq store

Shape == MailInv /\ RunInv /\ CmdInv

\* verify-coverage: what it has to list is listed, or stands behind the pages read.
InScope(m) == m.acct \in cmd.picked /\ m.date < cmd.before
WasListed(m) == \E e \in cmd.listed : e[2] = m
CoverInv ==
    cmd.kind = "verify" /\ cmd.steady =>
        /\ cmd.phase = "search" => cmd.before \in Nat
        /\ cmd.phase = "search" => \A m \in cmd.seen : InScope(m) =>
             WasListed(m) \/ (cmd.page - 1) * PageSize <= Offset(InWindow(m.acct), m)
        /\ cmd.phase = "rows" => \A m \in cmd.seen : InScope(m) => WasListed(m)
        /\ cmd.exit = 0 => Promised

\* rescan: once an account's cursor is reset, its mail is archived, or its turn is
\* to come, or comes at the moment, or the run it failed in does not end well.
Archived(a) == \A m \in cmd.seen : m.acct = a => Held(m)
Rests(a) == \E i \in DOMAIN job.todo : job.todo[i] = a /\ (job.walking => i # 1)
Passes(a) ==
    /\ job.since = 0
    /\ \/ job.failures > 0
       \/ \A m \in cmd.seen : m.acct = a =>
            Held(m) \/ (job.more /\ (job.page - 1) * PageSize <= Offset(InPass(a), m))
AtIt(a) == job.walking /\ Head(job.todo) = a
Comes(a) ==
    IF job.on THEN /\ AtIt(a) => Passes(a)
                   /\ AtIt(a) \/ Rests(a) \/ job.total > 0
    ELSE ~job.ok
SeenTo(a) == Archived(a) \/ (cursor[a] = 0 /\ Comes(a))
RescanInv ==
    cmd.kind = "rescan" /\ cmd.steady /\ cmd.quiet =>
        /\ cmd.phase \in {"reset", "mark", "start"} => ~job.on
        /\ cmd.phase = "reset" => \A a \in cmd.picked \ Range(cmd.todo) : cursor[a] = 0
        /\ cmd.phase \in {"mark", "start"} => \A a \in cmd.picked : cursor[a] = 0
        /\ cmd.phase = "wait" => \A a \in cmd.picked : SeenTo(a)
        /\ cmd.exit = 0 => \A a \in cmd.picked : Archived(a)

BichonInv == Shape /\ CoverInv /\ RescanInv

LEMMA BichonInitially == BichonInit => BichonInv
<1> SUFFICES ASSUME BichonInit PROVE BichonInv
  OBVIOUS
<1>1. PICK w \in FirstWorlds : store = w.store /\ archive = w.archive /\ cursor = w.cursor
  BY DEF BichonInit
<1>2. MailInv
  <2>1. store \subseteq Mail /\ cursor \in [Accounts -> Nat]
    BY <1>1, BichonAssumption
  <2>2. ASSUME NEW x \in archive
        PROVE  {"n", "acct", "id", "keyed"} \subseteq DOMAIN x /\ \E m \in Mail : x.n = m.n /\ x.id = m.id
    <3>1. PICK m \in Mail, k \in BOOLEAN : x = [Sidecar(m) EXCEPT !.keyed = k]
      BY <1>1, BichonAssumption
    <3>2. QED
      BY <3>1 DEF Sidecar
  <2>3. QED
    BY <2>1, <2>2 DEF MailInv
<1>3. RunInv
  BY DEF BichonInit, RunInv, NoJob, JobFields, Once
<1>4. cmd = NoCommand
  BY DEF BichonInit
<1>5. CmdInv
  <2>1. cmd.phase = "idle" /\ cmd.kind = "" /\ cmd.page = 1 /\ cmd.seen = {}
    BY <1>4 DEF NoCommand
  <2>2. CmdFields \subseteq DOMAIN cmd
    BY <1>4 DEF NoCommand, CmdFields
  <2>3. cmd.steady = TRUE /\ cmd.quiet = TRUE
    BY <1>4 DEF NoCommand
  <2>0. cmd.exit = 3
    BY <1>4 DEF NoCommand, Waiting
  <2>4. {cmd.steady, cmd.quiet} \subseteq BOOLEAN
    BY <2>3
  <2>5. cmd.exit # 0 /\ cmd.page \in Nat \ {0}
    <3>1. cmd.exit # 0
      BY <2>0
    <3>2. cmd.page = 1
      BY <2>1
    <3>3. QED
      BY <3>1, <3>2
  <2>6. /\ cmd.phase \notin {"search", "rows", "list", "update"} /\ cmd.phase # "done"
        /\ cmd.phase \notin {"stale", "busy", "reset", "mark", "start", "wait"}
    BY <2>1
  <2>7. cmd.phase \notin {"stale", "busy", "reset"} /\ cmd.phase \notin {"stale", "busy"}
        /\ cmd.phase \notin {"search", "rows"} /\ cmd.phase \notin {"list", "update"}
    BY <2>6
  <2>8. cmd.seen \subseteq store
    BY <2>1
  <2> HIDE <2>3
  <2>9. QED
    BY <2>1, <2>2, <2>4, <2>5, <2>6, <2>7, <2>8, Zenon DEF CmdInv
<1>6. cmd.kind = ""
  BY <1>4 DEF NoCommand
<1>7. QED
  BY <1>2, <1>3, <1>5, <1>6 DEF BichonInv, Shape, CoverInv, RescanInv

\* A step that leaves the command where it is keeps what verify-coverage has.
SameCommand ==
    /\ CmdFields \subseteq DOMAIN cmd'
    /\ \A f \in CmdFields \ {"steady", "quiet", "alone"} : cmd'[f] = cmd[f]
    /\ cmd'.steady \in BOOLEAN /\ cmd'.quiet \in BOOLEAN
    /\ cmd'.quiet => cmd.quiet
    /\ cmd'.steady => cmd.steady /\ store \subseteq store'
MailGrows ==
    /\ store' \subseteq Mail
    /\ \A m : Held(m) => Held(m)'

LEMMA SameFields ==
    ASSUME SameCommand
    PROVE  /\ cmd'.kind = cmd.kind /\ cmd'.phase = cmd.phase /\ cmd'.picked = cmd.picked
           /\ cmd'.folder = cmd.folder /\ cmd'.before = cmd.before /\ cmd'.todo = cmd.todo
           /\ cmd'.listed = cmd.listed /\ cmd'.page = cmd.page /\ cmd'.exit = cmd.exit /\ cmd'.seen = cmd.seen
  BY DEF SameCommand, CmdFields

LEMMA CmdKeeps == ASSUME CmdInv, SameCommand PROVE CmdInv'
<1>1. cmd'.steady => cmd'.seen \subseteq store'
  BY SameFields DEF CmdInv, SameCommand
<1>2. QED
  BY <1>1, SameFields DEF CmdInv, SameCommand

LEMMA CoverKeeps == ASSUME Shape, CoverInv, SameCommand, MailGrows PROVE CoverInv'
<1> SUFFICES ASSUME cmd'.kind = "verify", cmd'.steady PROVE CoverInv'
  BY DEF CoverInv
<1>1. cmd.kind = "verify" /\ cmd.steady /\ store \subseteq store' /\ cmd.seen \subseteq store
  BY SameFields DEF SameCommand, Shape, CmdInv
<1>2. \A m : (InScope(m) <=> InScope(m)') /\ (WasListed(m) <=> WasListed(m)')
  BY SameFields DEF InScope, WasListed
<1>3. ASSUME NEW m \in cmd.seen, (cmd.page - 1) * PageSize <= Offset(InWindow(m.acct), m)
      PROVE  (cmd.page - 1) * PageSize <= Offset(InWindow(m.acct)', m)
  <2>1. InWindow(m.acct) \in SUBSET InWindow(m.acct)' /\ InWindow(m.acct)' \in SUBSET Mail
    BY <1>1, SameFields DEF InWindow, MailGrows
  <2>2. Offset(InWindow(m.acct), m) <= Offset(InWindow(m.acct)', m)
        /\ Offset(InWindow(m.acct), m) \in Nat /\ Offset(InWindow(m.acct)', m) \in Nat
    BY <2>1, OffsetGrows
  <2>3. (cmd.page - 1) * PageSize \in Nat
    BY PageStart DEF Shape, CmdInv
  <2>4. QED
    BY <1>3, <2>2, <2>3
<1>4. Promised => Promised'
  BY <1>1, SameFields DEF Promised, MailGrows
<1>5. QED
  <2>1. /\ cmd.phase = "search" => \A m \in cmd.seen : InScope(m) =>
             WasListed(m) \/ (cmd.page - 1) * PageSize <= Offset(InWindow(m.acct), m)
        /\ cmd.phase = "rows" => \A m \in cmd.seen : InScope(m) => WasListed(m)
        /\ cmd.exit = 0 => Promised
        /\ cmd.phase = "search" => cmd.before \in Nat
    BY <1>1 DEF CoverInv
  <2>2. \A m \in cmd.seen : Offset(InWindow(m.acct)', m) = Offset(InWindow(m.acct), m)'
    BY DEF Offset, Before
  <2>3. /\ cmd.phase = "search" => \A m \in cmd.seen : InScope(m)' =>
             WasListed(m)' \/ (cmd.page - 1) * PageSize <= Offset(InWindow(m.acct), m)'
        /\ cmd.phase = "rows" => \A m \in cmd.seen : InScope(m)' => WasListed(m)'
        /\ cmd.exit = 0 => Promised'
    BY <1>2, <1>3, <1>4, <2>1, <2>2
  <2>4. QED
    BY <2>1, <2>3, SameFields DEF CoverInv

\* The rescan keeps what it has while the archive service and the mailbox move.
LEMMA RescanKeeps ==
    ASSUME Shape, RescanInv, SameCommand, MailGrows,
           (~job.on /\ cmd'.quiet /\ cmd.phase \in {"reset", "mark", "start"}) => cursor' = cursor /\ ~job'.on,
           \A a \in Accounts : cmd.seen \subseteq store /\ SeenTo(a) => SeenTo(a)'
    PROVE  RescanInv'
<1> SUFFICES ASSUME cmd'.kind = "rescan", cmd'.steady, cmd'.quiet PROVE RescanInv'
  BY DEF RescanInv
<1>1. cmd.kind = "rescan" /\ cmd.steady /\ cmd.quiet /\ cmd.seen \subseteq store
  BY SameFields DEF SameCommand, Shape, CmdInv
<1>2. /\ cmd.phase \in {"reset", "mark", "start"} => ~job.on
      /\ cmd.phase = "reset" => \A a \in cmd.picked \ Range(cmd.todo) : cursor[a] = 0
      /\ cmd.phase \in {"mark", "start"} => \A a \in cmd.picked : cursor[a] = 0
      /\ cmd.phase = "wait" => \A a \in cmd.picked : SeenTo(a)
      /\ cmd.exit = 0 => \A a \in cmd.picked : Archived(a)
  BY <1>1 DEF RescanInv
<1>3. cmd.phase = "wait" => \A a \in cmd.picked : SeenTo(a)'
  BY <1>1, <1>2 DEF Shape, CmdInv
<1>4. cmd.exit = 0 => \A a \in cmd.picked : Archived(a)'
  BY <1>2, SameFields DEF Archived, MailGrows
<1>5. cmd.phase \in {"reset", "mark", "start"} => cursor' = cursor /\ ~job'.on
  BY <1>2
<1>6. QED
  BY <1>2, <1>3, <1>4, <1>5, SameFields DEF RescanInv

\* What a step of the world does to none of it.
LEMMA ArchivedStays == ASSUME SameCommand, MailGrows, NEW a, Archived(a) PROVE Archived(a)'
  BY SameFields DEF Archived, MailGrows

LEMMA MailArrives ==
    ASSUME BichonInv, SameCommand, store \subseteq store', store' \subseteq Mail,
           UNCHANGED <<archive, cursor, job>>
    PROVE  BichonInv'
<1>1. MailGrows
  BY DEF MailGrows, Held
<1>2. MailInv' /\ RunInv'
  BY DEF BichonInv, Shape, MailInv, RunInv
<1>3. ASSUME NEW a \in Accounts, cmd.seen \subseteq store, SeenTo(a) PROVE SeenTo(a)'
  <2>1. InPass(a) \in SUBSET InPass(a)' /\ InPass(a)' \in SUBSET Mail
    BY DEF InPass
  <2>2. \A m \in cmd.seen : Offset(InPass(a)', m) = Offset(InPass(a), m)'
    BY DEF Offset, Before
  <2>3. ASSUME NEW m \in cmd.seen, (job.page - 1) * PageSize <= Offset(InPass(a), m)
        PROVE  (job.page - 1) * PageSize <= Offset(InPass(a), m)'
    <3>1. Offset(InPass(a), m) <= Offset(InPass(a)', m)
          /\ Offset(InPass(a), m) \in Nat /\ Offset(InPass(a)', m) \in Nat
      BY <2>1, OffsetGrows
    <3>2. (job.page - 1) * PageSize \in Nat
      BY PageStart DEF BichonInv, Shape, RunInv
    <3>3. QED
      BY <2>2, <2>3, <3>1, <3>2
  <2>4. Rests(a) => Rests(a)'
    BY DEF Rests
  <2>5. \A m : Held(m) => Held(m)'
    BY DEF Held
  <2>6. Passes(a) => Passes(a)'
    BY <2>3, <2>5, SameFields DEF Passes
  <2>7. Comes(a) => Comes(a)'
    BY <2>4, <2>6 DEF Comes, AtIt
  <2>8. QED
    BY <1>1, <1>3, <2>7, ArchivedStays DEF SeenTo
<1>4. RescanInv'
  BY <1>1, <1>3, RescanKeeps DEF BichonInv
<1>5. QED
  BY <1>1, <1>2, <1>4, CmdKeeps, CoverKeeps DEF BichonInv, Shape
\* Where a step neither touches the archive nor who runs, the mail and the job keep.
LEMMA ArriveKeeps == ASSUME BichonInv, Arrive PROVE BichonInv'
<1>1. store \subseteq store' /\ store' \subseteq Mail /\ cmd' = cmd /\ UNCHANGED <<archive, cursor, job>>
  BY DEF Arrive, ArchiveVars, BichonInv, Shape, MailInv
<1>2. SameCommand
  BY <1>1 DEF SameCommand, BichonInv, Shape, CmdInv
<1>3. QED
  BY <1>1, <1>2, MailArrives

LEMMA RefolderKeeps == ASSUME BichonInv, Refolder PROVE BichonInv'
<1>1. store' = store /\ store \subseteq Mail /\ UNCHANGED <<archive, cursor, job>>
      /\ cmd' = [cmd EXCEPT !.alone = FALSE]
  BY DEF Refolder, ArchiveVars, BichonInv, Shape, MailInv
<1>2. SameCommand
  BY <1>1 DEF SameCommand, BichonInv, Shape, CmdInv, CmdFields
<1>3. QED
  BY <1>1, <1>2, MailArrives

LEMMA DepartKeeps == ASSUME BichonInv, Depart PROVE BichonInv'
<1>1. store' \subseteq Mail /\ UNCHANGED <<archive, cursor, job>> /\ cmd' = [cmd EXCEPT !.steady = FALSE]
  BY DEF Depart, ArchiveVars, BichonInv, Shape, MailInv
<1>2. SameCommand /\ ~cmd'.steady
  BY <1>1 DEF SameCommand, BichonInv, Shape, CmdInv, CmdFields
<1>3. Shape'
  BY <1>1, <1>2, CmdKeeps DEF Shape, BichonInv, MailInv, RunInv
<1>4. QED
  BY <1>2, <1>3 DEF BichonInv, CoverInv, RescanInv

LEMMA StartedIs ==
    ASSUME job' = Started
    PROVE  RunInv' /\ job'.on /\ ~job'.walking /\ \A a \in Accounts : Rests(a)'
<1>a. job' = [on |-> TRUE, todo |-> Roster, walking |-> FALSE, more |-> FALSE, since |-> 0, page |-> 1,
              top |-> 0, failures |-> 0, total |-> 0, ok |-> TRUE]
  BY DEF Started, NoJob
<1>1. /\ job'.on = TRUE /\ job'.walking = FALSE /\ job'.more = FALSE /\ job'.ok = TRUE
  BY <1>a
<1>2. job'.todo = Roster /\ job'.page = 1 /\ job'.failures = 0 /\ job'.total = 0
  BY <1>a
<1>b. JobFields \subseteq DOMAIN job'
  BY <1>a DEF JobFields
<1>3. Roster \in Seq(Accounts) /\ Once(Roster)
  BY BichonAssumption DEF Once
<1>c. {job'.on, job'.walking, job'.more, job'.ok} \subseteq BOOLEAN /\ job'.on /\ ~job'.walking
  BY <1>1
<1>4. RunInv'
  BY <1>2, <1>3, <1>b, <1>c DEF RunInv
<1>5. ASSUME NEW a \in Accounts PROVE Rests(a)'
  <2>1. \E i \in DOMAIN Roster : Roster[i] = a
    BY DEF Accounts, Range
  <2>2. QED
    BY <2>1, <1>2, <1>c DEF Rests
<1>6. QED
  BY <1>c, <1>4, <1>5

LEMMA TickKeeps == ASSUME BichonInv, Tick PROVE BichonInv'
<1>1. /\ ~job.on /\ job' = Started /\ UNCHANGED <<store, archive, cursor>>
      /\ cmd' = [cmd EXCEPT !.quiet = @ /\ cmd.phase \notin {"reset", "mark", "start"}]
  BY DEF Tick, MailVars
<1>2. DEFINE q == cmd.quiet /\ cmd.phase \notin {"reset", "mark", "start"}
<1>3. q \in BOOLEAN /\ cmd' = [cmd EXCEPT !.quiet = q]
  BY <1>1
<1>4. SameCommand /\ cmd'.quiet = q
  <2> HIDE DEF q
  <2>1. CmdFields \subseteq DOMAIN cmd' /\ cmd'.quiet = q
        /\ \A f \in CmdFields \ {"steady", "quiet", "alone"} : cmd'[f] = cmd[f]
    BY <1>3 DEF BichonInv, Shape, CmdInv, CmdFields
  <2>2. cmd'.steady = cmd.steady /\ cmd.steady \in BOOLEAN
    BY <1>3 DEF BichonInv, Shape, CmdInv, CmdFields
  <2>3. q => cmd.quiet
    BY DEF q
  <2>4. QED
    BY <1>1, <1>3, <2>1, <2>2, <2>3 DEF SameCommand
<1>5. MailGrows
  BY <1>1 DEF MailGrows, Held, BichonInv, Shape, MailInv
<1>6. Shape'
  BY <1>1, <1>4, CmdKeeps, StartedIs DEF Shape, BichonInv, MailInv
<1>7. ASSUME NEW a \in Accounts, SeenTo(a) PROVE SeenTo(a)'
  BY <1>1, <1>4, <1>5, <1>7, StartedIs, ArchivedStays DEF SeenTo, Comes, AtIt
<1>8. RescanInv'
  BY <1>1, <1>4, <1>5, <1>7, RescanKeeps DEF BichonInv
<1>9. QED
  BY <1>4, <1>5, <1>6, <1>8, CoverKeeps DEF BichonInv

\* A step of the archive service alone.
ServiceStep == cmd' = cmd /\ store' = store /\ job.on
LEMMA ServiceKeeps ==
    ASSUME BichonInv, ServiceStep, MailInv', RunInv', \A m : Held(m) => Held(m)',
           \A a \in Accounts : cmd.seen \subseteq store /\ SeenTo(a) => SeenTo(a)'
    PROVE  BichonInv'
<1>1. SameCommand
  BY DEF ServiceStep, SameCommand, BichonInv, Shape, CmdInv
<1>2. MailGrows
  BY DEF MailGrows, MailInv
<1>3. RescanInv'
  BY <1>1, <1>2, RescanKeeps DEF BichonInv, ServiceStep
<1>4. QED
  BY <1>1, <1>2, <1>3, CmdKeeps, CoverKeeps DEF BichonInv, Shape

LEMMA TailIs ==
    ASSUME NEW s \in Seq(Accounts), s # << >>, Once(s)
    PROVE  /\ Tail(s) \in Seq(Accounts) /\ Once(Tail(s)) /\ Head(s) \in Accounts
           /\ \A i \in DOMAIN s : i # 1 => \E j \in DOMAIN Tail(s) : Tail(s)[j] = s[i]
           /\ \A i \in DOMAIN s : i # 1 => s[i] # Head(s)
<1>1. /\ Tail(s) \in Seq(Accounts) /\ Head(s) \in Accounts /\ Head(s) = s[1] /\ 1 \in DOMAIN s
      /\ Len(s) \in Nat /\ DOMAIN s = 1..Len(s)
  OBVIOUS
<1>2. DOMAIN Tail(s) = 1..(Len(s) - 1) /\ \A j \in 1..(Len(s) - 1) : Tail(s)[j] = s[j + 1]
  OBVIOUS
<1>3. Once(Tail(s))
  <2> SUFFICES ASSUME NEW i \in DOMAIN Tail(s), NEW j \in DOMAIN Tail(s), Tail(s)[i] = Tail(s)[j] PROVE i = j
    BY DEF Once
  <2>1. s[i + 1] = s[j + 1] /\ i + 1 \in DOMAIN s /\ j + 1 \in DOMAIN s
    BY <1>1, <1>2
  <2>2. i + 1 = j + 1
    BY <2>1 DEF Once
  <2>3. QED
    BY <1>1, <1>2, <2>2
<1>4. ASSUME NEW i \in DOMAIN s, i # 1 PROVE \E j \in DOMAIN Tail(s) : Tail(s)[j] = s[i]
  <2>1. i - 1 \in DOMAIN Tail(s) /\ Tail(s)[i - 1] = s[(i - 1) + 1] /\ (i - 1) + 1 = i
    BY <1>1, <1>2, <1>4
  <2>2. QED
    BY <2>1
<1>5. \A i \in DOMAIN s : i # 1 => s[i] # Head(s)
  BY <1>1 DEF Once
<1>6. QED
  BY <1>1, <1>3, <1>4, <1>5

LEMMA FinishKeeps == ASSUME BichonInv, Finish PROVE BichonInv'
<1>1. ServiceStep /\ ~job.walking /\ UNCHANGED <<archive, cursor>>
  BY DEF Finish, MailVars, ServiceStep
<1>2. PICK ok \in BOOLEAN : job' = [NoJob EXCEPT !.ok = ok] /\ (ok => job.todo = << >> /\ job.total = 0)
  BY DEF Finish
<1>a. job' = [on |-> FALSE, todo |-> << >>, walking |-> FALSE, more |-> FALSE, since |-> 0, page |-> 1,
              top |-> 0, failures |-> 0, total |-> 0, ok |-> ok]
  BY <1>2 DEF NoJob
<1>3. /\ job'.on = FALSE /\ job'.walking = FALSE /\ job'.more = FALSE /\ job'.ok = ok
  BY <1>a
<1>4. /\ job'.todo = << >> /\ job'.page = 1 /\ job'.failures = 0 /\ job'.total = 0
      /\ JobFields \subseteq DOMAIN job'
  BY <1>a DEF JobFields
<1>b. {job'.on, job'.walking, job'.more, job'.ok} \subseteq BOOLEAN /\ ~job'.on /\ ~job'.walking
  BY <1>3
<1>5. RunInv'
  BY <1>4, <1>b DEF RunInv, Once
<1>6. MailInv' /\ \A m : Held(m) => Held(m)'
  BY <1>1 DEF MailInv, Held, BichonInv, Shape, ServiceStep
<1>7. ASSUME NEW a \in Accounts, SeenTo(a) PROVE SeenTo(a)'
  <2>1. CASE Archived(a)
    BY <1>1, <1>6, <2>1 DEF SeenTo, Archived, ServiceStep
  <2>2. CASE cursor[a] = 0 /\ Comes(a)
    <3>1. ok => ~Rests(a) /\ ~AtIt(a) /\ ~(job.total > 0)
      BY <1>1, <1>2 DEF Rests, AtIt
    <3>2. ~ok
      BY <1>1, <2>2, <3>1 DEF Comes, ServiceStep
    <3>3. QED
      BY <1>1, <1>3, <2>2, <3>2 DEF SeenTo, Comes
  <2>3. QED
    BY <1>7, <2>1, <2>2 DEF SeenTo
<1>8. QED
  BY <1>1, <1>5, <1>6, <1>7, ServiceKeeps
LEMMA WalkKeeps == ASSUME BichonInv, Walk PROVE BichonInv'
<1> DEFINE h == Head(job.todo)
           since == IF cursor[h] < Overlap THEN 0 ELSE cursor[h] - Overlap
           keyed(x) == IF x.acct = h THEN [x EXCEPT !.keyed = TRUE] ELSE x
           begun(broken) ==
               [job EXCEPT !.walking = TRUE, !.more = TRUE, !.page = 1, !.failures = 0,
                           !.top = cursor[h], !.since = since, !.total = @ + broken]
           walks == \/ archive' = {keyed(x) : x \in archive} /\ job' = begun(0)
                    \/ archive' = archive /\ job' = begun(1)
           falls == job' = [job EXCEPT !.todo = Tail(@), !.total = @ + 1] /\ archive' = archive
<1>1. /\ job.on /\ ~job.walking /\ job.todo # << >> /\ cursor' = cursor /\ ServiceStep
      /\ walks \/ falls
  BY DEF Walk, MailVars, ServiceStep
<1>2. /\ JobFields \subseteq DOMAIN job /\ job.todo \in Seq(Accounts) /\ Once(job.todo)
      /\ job.total \in Nat /\ job.failures \in Nat /\ job.page \in Nat \ {0}
      /\ {job.on, job.walking, job.more, job.ok} \subseteq BOOLEAN
  BY DEF BichonInv, Shape, RunInv
<1>3. CASE walks
  <2>b. PICK broken \in {0, 1} : job' = begun(broken) /\ (archive' = {keyed(x) : x \in archive} \/ archive' = archive)
    <3> HIDE DEF keyed, begun
    <3> QED
      BY <1>3
  <2>1. /\ job'.walking /\ job'.more /\ job'.page = 1 /\ job'.failures = 0 /\ job'.since = since
        /\ job'.on = job.on /\ job'.ok = job.ok /\ job'.todo = job.todo
        /\ job'.total \in Nat /\ (job.total > 0 => job'.total > 0)
        /\ JobFields \subseteq DOMAIN job'
    <3> HIDE DEF since
    <3>1. job' = [job EXCEPT !.walking = TRUE, !.more = TRUE, !.page = 1, !.failures = 0,
                             !.top = cursor[h], !.since = since, !.total = job.total + broken]
      BY <1>2, <2>b DEF JobFields
    <3>2. job'.walking = TRUE /\ job'.more = TRUE /\ job'.on = job.on /\ job'.ok = job.ok
      BY <1>2, <3>1 DEF JobFields
    <3>3. /\ job'.page = 1 /\ job'.failures = 0 /\ job'.since = since
          /\ job'.todo = job.todo /\ JobFields \subseteq DOMAIN job'
      BY <1>2, <3>1 DEF JobFields
    <3>4. job'.total = job.total + broken
      BY <1>2, <3>1 DEF JobFields
    <3>5. job'.total \in Nat /\ (job.total > 0 => job'.total > 0)
      BY <1>2, <3>4
    <3>6. QED
      BY <3>2, <3>3, <3>5
  <2>2. RunInv'
    <3>1. {job'.on, job'.walking, job'.more, job'.ok} \subseteq BOOLEAN
      BY <1>2, <2>1
    <3>2. job'.on
      BY <1>1, <2>1
    <3>3. QED
      BY <1>1, <1>2, <2>1, <3>1, <3>2 DEF RunInv
  <2>3. ASSUME NEW x \in archive
        PROVE  {"n", "acct", "id", "keyed"} \subseteq DOMAIN keyed(x) /\ keyed(x).n = x.n /\ keyed(x).id = x.id
    BY DEF BichonInv, Shape, MailInv
  <2>4. MailInv' /\ \A m : Held(m) => Held(m)'
    <3>1. archive' = {keyed(x) : x \in archive} \/ archive' = archive
      BY <2>b
    <3>2. \A y \in archive' : /\ {"n", "acct", "id", "keyed"} \subseteq DOMAIN y
                              /\ \E m \in Mail : y.n = m.n /\ y.id = m.id
      <4> HIDE DEF keyed
      <4> QED
        BY <2>3, <3>1 DEF BichonInv, Shape, MailInv
    <3>3. \A m : Held(m) => Held(m)'
      <4> HIDE DEF keyed
      <4> QED
        BY <2>3, <3>1 DEF Held
    <3>4. QED
      BY <1>1, <3>2, <3>3 DEF BichonInv, Shape, MailInv, ServiceStep
  <2>5. ASSUME NEW a \in Accounts, SeenTo(a) PROVE SeenTo(a)'
    <3>1. CASE Archived(a)
      BY <1>1, <2>4, <3>1 DEF SeenTo, Archived, ServiceStep
    <3>2. CASE cursor[a] = 0 /\ Comes(a)
      <4>1. Rests(a) \/ job.total > 0
        BY <1>1, <3>2 DEF Comes, AtIt
      <4>2. CASE h # a
        <5>1. ~AtIt(a)'
          BY <2>1, <4>2 DEF AtIt
        <5>2. Rests(a) => Rests(a)'
          <6>1. \A i \in DOMAIN job.todo : job.todo[i] = a => i # 1
            BY <1>1, <1>2, <4>2
          <6>2. QED
            BY <2>1, <6>1 DEF Rests
        <5>3. QED
          BY <1>1, <2>1, <3>2, <4>1, <5>1, <5>2 DEF SeenTo, Comes
      <4>3. CASE h = a
        <5>1. Head(job'.todo) = a
          BY <2>1, <4>3
        <5>2. since = 0
          BY <3>2, <4>3, BichonAssumption
        <5>3. ASSUME NEW m PROVE (job'.page - 1) * PageSize <= Offset(InPass(a), m)'
          <6>1. InPass(a)' \in SUBSET Mail
            BY <2>4 DEF InPass, MailInv
          <6>2. Offset(InPass(a)', m) \in Nat /\ Offset(InPass(a), m)' = Offset(InPass(a)', m)
            BY <6>1, OffsetGrows DEF Offset, Before
          <6>3. (job'.page - 1) * PageSize = 0
            BY <2>1, BichonAssumption
          <6>4. QED
            BY <6>2, <6>3
        <5>4. Passes(a)' /\ AtIt(a)'
          BY <2>1, <5>1, <5>2, <5>3 DEF Passes, AtIt
        <5>5. QED
          BY <1>1, <2>1, <3>2, <5>4 DEF SeenTo, Comes
      <4>4. QED
        BY <4>2, <4>3
    <3>3. QED
      BY <2>5, <3>1, <3>2 DEF SeenTo
  <2>6. QED
    BY <1>1, <2>2, <2>4, <2>5, ServiceKeeps
<1>4. CASE falls
  <2>1. /\ job'.todo = Tail(job.todo) /\ job'.total = job.total + 1 /\ job'.page = job.page
        /\ job'.failures = job.failures /\ JobFields \subseteq DOMAIN job'
    BY <1>2, <1>4 DEF JobFields
  <2>2. job'.on = job.on /\ job'.walking = job.walking /\ job'.more = job.more /\ job'.ok = job.ok
    BY <1>2, <1>4 DEF JobFields
  <2>3. RunInv'
    <3>1. {job'.on, job'.walking, job'.more, job'.ok} \subseteq BOOLEAN
      BY <1>2, <2>2
    <3>2. ~job'.walking
      BY <1>1, <2>2
    <3>3. QED
      BY <1>1, <1>2, <2>1, <3>1, <3>2, TailIs DEF RunInv
  <2>4. MailInv' /\ \A m : Held(m) => Held(m)'
    BY <1>1, <1>4 DEF BichonInv, Shape, MailInv, ServiceStep, Held
  <2>5. job'.on /\ job'.total > 0
    BY <1>1, <1>2, <2>1, <2>2
  <2>6. ASSUME NEW a \in Accounts, SeenTo(a) PROVE SeenTo(a)'
    <3>1. CASE Archived(a)
      BY <1>1, <2>4, <3>1 DEF SeenTo, Archived, ServiceStep
    <3>2. CASE cursor[a] = 0
      BY <1>1, <2>2, <2>5, <3>2 DEF SeenTo, Comes, AtIt
    <3>3. QED
      BY <2>6, <3>1, <3>2 DEF SeenTo
  <2>7. QED
    BY <1>1, <2>3, <2>4, <2>6, ServiceKeeps
<1>5. QED
  BY <1>1, <1>3, <1>4

LEMMA SettleKeeps == ASSUME BichonInv, Settle PROVE BichonInv'
<1> DEFINE h == Head(job.todo)
<1>1. /\ job.on /\ job.walking /\ ~job.more /\ archive' = archive /\ ServiceStep
      /\ cursor' = IF job.failures = 0 THEN [cursor EXCEPT ![h] = job.top] ELSE cursor
  BY DEF Settle, MailVars, ServiceStep
<1>s. PICK snapshot \in {0, 1} :
         job' = [job EXCEPT !.walking = FALSE, !.todo = Tail(@), !.total = @ + job.failures + snapshot]
  BY DEF Settle
<1>2. /\ JobFields \subseteq DOMAIN job /\ job.todo \in Seq(Accounts) /\ Once(job.todo)
      /\ job.total \in Nat /\ job.failures \in Nat /\ job.page \in Nat \ {0} /\ job.todo # << >>
      /\ {job.on, job.walking, job.more, job.ok} \subseteq BOOLEAN
  BY <1>1 DEF BichonInv, Shape, RunInv
<1>3. /\ job'.todo = Tail(job.todo) /\ job'.total = job.total + job.failures + snapshot /\ job'.page = job.page
      /\ job'.failures = job.failures /\ JobFields \subseteq DOMAIN job'
  BY <1>s, <1>2 DEF JobFields
<1>4. job'.on = job.on /\ job'.walking = FALSE /\ job'.more = job.more /\ job'.ok = job.ok
  BY <1>s, <1>2 DEF JobFields
<1>5. {job'.on, job'.walking, job'.more, job'.ok} \subseteq BOOLEAN /\ job'.on /\ ~job'.walking
  BY <1>1, <1>2, <1>4
<1>6. RunInv'
  BY <1>2, <1>3, <1>5, TailIs DEF RunInv
<1>7. MailInv' /\ \A m : Held(m) => Held(m)'
  <2>1. cursor' = [a \in Accounts |-> cursor'[a]]
    BY <1>1 DEF BichonInv, Shape, MailInv
  <2>2. QED
    BY <1>1, <2>1 DEF BichonInv, Shape, MailInv, ServiceStep, Held
<1>8. ASSUME NEW a \in Accounts, SeenTo(a) PROVE SeenTo(a)'
  <2>1. CASE Archived(a)
    BY <1>1, <1>7, <2>1 DEF SeenTo, Archived, ServiceStep
  <2>2. CASE cursor[a] = 0 /\ Comes(a) /\ a # h
    <3>1. cursor'[a] = 0
      BY <1>1, <2>2 DEF BichonInv, Shape, MailInv
    <3>2. Rests(a) \/ job.total > 0
      BY <1>1, <2>2 DEF Comes, AtIt
    <3>3. Rests(a) => Rests(a)'
      <4>1. ASSUME NEW i \in DOMAIN job.todo, job.todo[i] = a, i # 1 PROVE Rests(a)'
        <5>1. \E j \in DOMAIN job'.todo : job'.todo[j] = a
          BY <1>2, <1>3, <4>1, TailIs
        <5>2. QED
          BY <1>5, <5>1 DEF Rests
      <4>2. QED
        BY <1>1, <4>1 DEF Rests
    <3>4. job.total > 0 => job'.total > 0
      BY <1>2, <1>3
    <3>5. QED
      BY <1>5, <3>1, <3>2, <3>3, <3>4 DEF SeenTo, Comes, AtIt
  <2>3. CASE cursor[a] = 0 /\ Comes(a) /\ a = h
    <3>1. Passes(a)
      BY <1>1, <2>3 DEF Comes, AtIt
    <3>2. CASE job.failures = 0
      <4>1. Archived(a)
        BY <1>1, <3>1, <3>2 DEF Passes, Archived
      <4>2. QED
        BY <2>1, <4>1
    <3>3. CASE job.failures # 0
      <4>1. job'.total > 0 /\ cursor' = cursor
        BY <1>1, <1>2, <1>3, <3>3
      <4>2. QED
        BY <1>5, <2>3, <4>1 DEF SeenTo, Comes, AtIt
    <3>4. QED
      BY <3>2, <3>3
  <2>4. QED
    BY <1>8, <2>1, <2>2, <2>3 DEF SeenTo
<1>9. QED
  BY <1>1, <1>6, <1>7, <1>8, ServiceKeeps
LEMMA FetchKeeps == ASSUME BichonInv, Fetch PROVE BichonInv'
<1> DEFINE h == Head(job.todo)
           page == Page(InPass(h), job.page)
           fresh == {m \in page : ~\E x \in archive : x.n = m.n}
           last == IsLast(InPass(h), job.page)
<1>1. /\ job.on /\ job.walking /\ job.more /\ cursor' = cursor /\ ServiceStep
  BY DEF Fetch, MailVars, ServiceStep
<1>2. /\ JobFields \subseteq DOMAIN job /\ job.todo \in Seq(Accounts) /\ Once(job.todo)
      /\ job.total \in Nat /\ job.failures \in Nat /\ job.page \in Nat \ {0} /\ job.todo # << >>
      /\ {job.on, job.walking, job.more, job.ok} \subseteq BOOLEAN
  BY <1>1 DEF BichonInv, Shape, RunInv
<1> DEFINE top == IF page = {} THEN job.top
                  ELSE LET d == CHOOSE d \in {m.date : m \in page} : \A m \in page : m.date <= d
                       IN IF d > job.top THEN d ELSE job.top
           turned == [job EXCEPT !.page = @ + 1, !.top = top, !.more = ~last]
           gets == archive' = archive \cup {Sidecar(m) : m \in fresh} /\ job' = turned
           misses == /\ \E bad \in fresh : archive' = archive \cup {Sidecar(m) : m \in fresh \ {bad}}
                     /\ job' = [turned EXCEPT !.failures = @ + 1]
           breaks == archive' = archive /\ job' = [job EXCEPT !.more = FALSE, !.failures = @ + 1]
<1>3. gets \/ misses \/ breaks
  BY DEF Fetch
<1>l. last \in BOOLEAN
  BY DEF IsLast
<1> HIDE DEF last, top
<1>4. /\ job'.since = job.since /\ job'.todo = job.todo /\ job'.total = job.total /\ JobFields \subseteq DOMAIN job'
  <2>1. CASE gets
    BY <1>2, <2>1 DEF JobFields
  <2>2. CASE misses
    BY <1>2, <2>2 DEF JobFields
  <2>3. CASE breaks
    BY <1>2, <2>3 DEF JobFields
  <2>4. QED
    BY <1>3, <2>1, <2>2, <2>3
<1>5. job'.on = job.on /\ job'.walking = job.walking /\ job'.ok = job.ok
  <2>1. CASE gets
    BY <1>2, <2>1 DEF JobFields
  <2>2. CASE misses
    BY <1>2, <2>2 DEF JobFields
  <2>3. CASE breaks
    BY <1>2, <2>3 DEF JobFields
  <2>4. QED
    BY <1>3, <2>1, <2>2, <2>3
\* Either the whole page was got, or something failed.
<1>g. gets => job'.page = job.page + 1 /\ job'.failures = job.failures
  BY <1>2 DEF JobFields
<1>h. gets => job'.more = ~last
  BY <1>2 DEF JobFields
<1>m. misses => job'.page = job.page + 1 /\ job'.failures = job.failures + 1
  BY <1>2 DEF JobFields
<1>n. misses => job'.more = ~last
  BY <1>2 DEF JobFields
<1>b. breaks => job'.page = job.page /\ job'.failures = job.failures + 1
  BY <1>2 DEF JobFields
<1>c. breaks => job'.more = FALSE
  BY <1>2 DEF JobFields
<1>d. job'.more \in BOOLEAN
  BY <1>3, <1>h, <1>n, <1>c
<1>e. job'.page \in Nat \ {0} /\ job'.failures \in Nat
  BY <1>2, <1>3, <1>g, <1>m, <1>b
<1>f. \E got \in SUBSET fresh : archive' = archive \cup {Sidecar(m) : m \in got}
  <2> HIDE DEF fresh, turned
  <2>1. CASE gets
    BY <2>1
  <2>2. CASE misses
    BY <2>2
  <2>3. CASE breaks
    <3>1. archive' = archive \cup {Sidecar(m) : m \in {}} /\ {} \in SUBSET fresh
      BY <2>3
    <3>2. QED
      BY <3>1
  <2>4. QED
    BY <1>3, <2>1, <2>2, <2>3
<1> HIDE DEF gets, misses, breaks
<1>6. {job'.on, job'.walking, job'.more, job'.ok} \subseteq BOOLEAN /\ job'.on /\ job'.walking
  BY <1>1, <1>2, <1>5, <1>d
<1>7. RunInv'
  BY <1>2, <1>4, <1>6, <1>e DEF RunInv
<1>8. fresh \subseteq Mail /\ \A m \in Mail : Sidecar(m).n = m.n /\ Sidecar(m).id = m.id
                           /\ {"n", "acct", "id", "keyed"} \subseteq DOMAIN Sidecar(m)
  BY DEF Page, InPass, Sidecar, BichonInv, Shape, MailInv
<1> HIDE DEF fresh
<1>9. MailInv' /\ \A m : Held(m) => Held(m)'
  <2>1. \A x \in archive' : /\ {"n", "acct", "id", "keyed"} \subseteq DOMAIN x
                            /\ \E m \in Mail : x.n = m.n /\ x.id = m.id
    BY <1>f, <1>8 DEF BichonInv, Shape, MailInv
  <2>2. \A m : Held(m) => Held(m)'
    BY <1>f DEF Held
  <2>3. QED
    BY <1>1, <2>1, <2>2 DEF BichonInv, Shape, MailInv, ServiceStep
<1>10. ASSUME NEW a \in Accounts, cmd.seen \subseteq store, SeenTo(a) PROVE SeenTo(a)'
  <2>1. CASE Archived(a)
    BY <1>1, <1>9, <2>1 DEF SeenTo, Archived, ServiceStep
  <2>2. CASE cursor[a] = 0 /\ Comes(a)
    <3>1. AtIt(a) => Passes(a)
      BY <1>1, <2>2 DEF Comes
    <3>2. AtIt(a) \/ Rests(a) \/ job.total > 0
      BY <1>1, <2>2 DEF Comes
    <3>3. (AtIt(a) <=> AtIt(a)') /\ (Rests(a) => Rests(a)') /\ (job.total > 0 => job'.total > 0)
      BY <1>1, <1>4, <1>6 DEF AtIt, Rests
    <3>4. ASSUME AtIt(a) PROVE Passes(a)'
      <4>1. h = a /\ job'.since = 0
        BY <1>4, <3>1, <3>4 DEF AtIt, Passes
      <4>2. CASE misses \/ breaks \/ job.failures > 0
        <5>1. job'.failures > 0
          BY <1>2, <1>3, <1>g, <1>m, <1>b, <4>2
        <5>2. QED
          BY <4>1, <5>1 DEF Passes
      <4>3. CASE gets /\ ~(job.failures > 0)
        <5>1. archive' = archive \cup {Sidecar(m) : m \in fresh} /\ job'.page = job.page + 1 /\ (~last => job'.more)
          BY <1>g, <1>h, <4>3 DEF gets
        <5>2. ASSUME NEW m \in cmd.seen, m.acct = a
              PROVE  Held(m)' \/ (job'.more /\ (job'.page - 1) * PageSize <= Offset(InPass(a), m)')
          <6>1. CASE Held(m)
            BY <1>9, <6>1
          <6>2. CASE (job.page - 1) * PageSize <= Offset(InPass(h), m)
            <7>1. m \in InPass(h) /\ InPass(h) \in SUBSET Mail
              BY <1>10, <3>1, <3>4, <4>1, <5>2, BichonAssumption DEF InPass, Passes, BichonInv, Shape, MailInv
            <7>2. m \in page \/ (((job.page + 1) - 1) * PageSize <= Offset(InPass(h), m) /\ ~last)
              BY <1>2, <6>2, <7>1, PageHolds DEF last
            <7>3. CASE m \in page
              <8>1. m \in fresh \/ Held(m)
                BY <7>3 DEF fresh, Held
              <8>2. m \in fresh => Held(m)'
                BY <1>8, <5>1 DEF Held
              <8>3. QED
                BY <1>9, <8>1, <8>2
            <7>4. CASE ((job.page + 1) - 1) * PageSize <= Offset(InPass(h), m) /\ ~last
              <8>1. InPass(a)' = InPass(h)
                BY <1>1, <1>4, <4>1 DEF InPass, ServiceStep
              <8>2. Offset(InPass(a), m)' = Offset(InPass(h), m)
                BY <8>1 DEF Offset, Before
              <8>3. QED
                BY <5>1, <7>4, <8>2
            <7>5. QED
              BY <7>2, <7>3, <7>4
          <6>3. QED
            BY <3>1, <3>4, <4>1, <4>3, <5>2, <6>1, <6>2 DEF Passes
        <5>3. cmd' = cmd
          BY <1>1 DEF ServiceStep
        <5>4. QED
          BY <4>1, <5>2, <5>3 DEF Passes
      <4>4. QED
        BY <1>3, <4>2, <4>3
    <3>5. QED
      BY <1>1, <1>6, <2>2, <3>1, <3>2, <3>3, <3>4 DEF SeenTo, Comes
  <2>3. QED
    BY <1>10, <2>1, <2>2 DEF SeenTo
<1>11. QED
  BY <1>1, <1>7, <1>9, <1>10, ServiceKeeps
\* The steps of a command.
WorldKept == UNCHANGED <<store, archive, cursor, job>>
LEMMA WorldKeeps == ASSUME BichonInv, WorldKept PROVE MailInv' /\ RunInv'
  BY DEF WorldKept, BichonInv, Shape, MailInv, RunInv

\* A command that may end, whatever it found.
Sound(c) ==
    /\ CmdFields \subseteq DOMAIN c /\ {c.steady, c.quiet} \subseteq BOOLEAN
    /\ c.page \in Nat \ {0} /\ (c.steady => c.seen \subseteq store)
LEMMA EndedIs ==
    ASSUME NEW c, CmdFields \subseteq DOMAIN c, NEW code
    PROVE  /\ CmdFields \subseteq DOMAIN Ended(c, code)
           /\ Ended(c, code).phase = "done" /\ Ended(c, code).exit = code
           /\ \A f \in CmdFields \ {"phase", "exit"} : Ended(c, code)[f] = c[f]
  BY DEF Ended, CmdFields

LEMMA EndedSound ==
    ASSUME NEW c, Sound(c), NEW code, cmd' = Ended(c, code), store' = store, MailInv', RunInv',
           code = 0 => (c.kind = "verify" /\ cmd'.steady => Promised'),
           code = 0 => (c.kind = "rescan" /\ cmd'.steady /\ cmd'.quiet => \A a \in c.picked : Archived(a)')
    PROVE  BichonInv'
<1>1. /\ CmdFields \subseteq DOMAIN cmd' /\ cmd'.phase = "done" /\ cmd'.exit = code
      /\ \A f \in CmdFields \ {"phase", "exit"} : cmd'[f] = c[f]
  BY EndedIs DEF Sound
<1>2. cmd'.page = c.page /\ cmd'.seen = c.seen /\ cmd'.kind = c.kind /\ cmd'.picked = c.picked
  BY <1>1 DEF CmdFields
<1>3. cmd'.steady = c.steady /\ cmd'.quiet = c.quiet
  BY <1>1 DEF CmdFields
<1>4. {cmd'.steady, cmd'.quiet} \subseteq BOOLEAN /\ (cmd'.steady => cmd'.seen \subseteq store')
  BY <1>2, <1>3 DEF Sound
<1> HIDE <1>3
<1>5. CmdInv'
  BY <1>1, <1>2, <1>4 DEF CmdInv, Sound
<1>6. CoverInv' /\ RescanInv'
  BY <1>1, <1>2 DEF CoverInv, RescanInv
<1>7. QED
  BY <1>5, <1>6 DEF BichonInv, Shape

LEMMA CmdSound == ASSUME BichonInv PROVE Sound(cmd)
  BY DEF BichonInv, Shape, CmdInv, Sound

LEMMA FailsKeeps ==
    ASSUME BichonInv, WorldKept, NEW code, code # 0, Fails(code)
    PROVE  BichonInv'
<1>1. cmd' = Ended(cmd, code) /\ store' = store
  BY DEF Fails, WorldKept
<1>2. QED
  BY <1>1, CmdSound, WorldKeeps, EndedSound

LEMMA ConnectedIs ==
    ASSUME NEW kind, NEW c, c = Connected(kind)
    PROVE  /\ c.kind = kind /\ c.phase = "idle" /\ c.page = 1 /\ c.seen = store /\ c.listed = {}
           /\ c.steady = TRUE /\ c.quiet = TRUE /\ c.exit = Waiting /\ CmdFields \subseteq DOMAIN c
           /\ Sound(c)
<1>1. c.kind = kind /\ c.phase = "idle" /\ c.page = 1 /\ c.seen = store /\ c.listed = {} /\ c.exit = Waiting
  BY DEF Connected, NoCommand
<1>2. c.steady = TRUE /\ c.quiet = TRUE
  BY DEF Connected, NoCommand
<1>3. CmdFields \subseteq DOMAIN c
  BY DEF Connected, NoCommand, CmdFields
<1>4. {c.steady, c.quiet} \subseteq BOOLEAN
  BY <1>2
<1>5. c.page \in Nat \ {0} /\ c.seen \subseteq store
  BY <1>1
<1>6. QED
  BY <1>1, <1>2, <1>3, <1>4, <1>5, Zenon DEF Sound

LEMMA RefusedKeeps ==
    ASSUME BichonInv, WorldKept, NEW kind, Refused(kind)
    PROVE  BichonInv'
<1> DEFINE c == [NoCommand EXCEPT !.kind = kind]
           code == IF kind = "reconcile" THEN 1 ELSE 2
<1>1. cmd' = Ended(c, code) /\ store' = store /\ code # 0
  BY DEF Refused, WorldKept
<1>2. c.page = 1 /\ c.seen = {}
  BY DEF NoCommand
<1>3. c.steady = TRUE /\ c.quiet = TRUE
  BY DEF NoCommand
<1>4. CmdFields \subseteq DOMAIN c
  BY DEF NoCommand, CmdFields
<1> HIDE DEF c, code
<1>5. {c.steady, c.quiet} \subseteq BOOLEAN
  BY <1>3
<1>6. c.page \in Nat \ {0} /\ c.seen \subseteq store
  BY <1>2
<1>7. Sound(c)
  BY <1>4, <1>5, <1>6 DEF Sound
<1>8. QED
  BY <1>1, <1>7, WorldKeeps, EndedSound

LEMMA VerifyKeeps == ASSUME BichonInv, Verify PROVE BichonInv'
<1>1. WorldKept
  BY DEF Verify, Keep, MailVars, ArchiveVars, WorldKept
<1>2. CASE Refused("verify")
  BY <1>1, <1>2, RefusedKeeps
<1>3. CASE ~Refused("verify")
  <2>1. PICK a \in Accounts, f \in Folders, day \in Days :
           cmd' = IF f \in synced[a]
                  THEN [Connected("verify") EXCEPT !.phase = "search", !.picked = {a},
                                                   !.folder = f, !.before = day]
                  ELSE Ended(Connected("verify"), 2)
    BY <1>3 DEF Verify
  <2> DEFINE c == Connected("verify")
  <2>2. /\ c.kind = "verify" /\ c.page = 1 /\ c.seen = store /\ c.listed = {}
        /\ c.exit = Waiting /\ CmdFields \subseteq DOMAIN c /\ Sound(c)
    BY ConnectedIs
  <2>s. c.steady = TRUE /\ c.quiet = TRUE
    BY ConnectedIs
  <2> HIDE DEF c
  <2>3. CASE f \in synced[a]
    <3>1. cmd' = [c EXCEPT !.phase = "search", !.picked = {a}, !.folder = f, !.before = day]
      BY <2>1, <2>3 DEF c
    <3>2. /\ cmd'.kind = "verify" /\ cmd'.phase = "search" /\ cmd'.picked = {a} /\ cmd'.listed = {}
          /\ cmd'.page = 1 /\ cmd'.seen = store /\ cmd'.exit = Waiting /\ cmd'.before = day
          /\ CmdFields \subseteq DOMAIN cmd'
      BY <2>2, <3>1 DEF CmdFields
    <3>3. cmd'.steady = c.steady /\ cmd'.quiet = c.quiet
      BY <2>2, <3>1 DEF CmdFields
    <3>4. {cmd'.steady, cmd'.quiet} \subseteq BOOLEAN
      BY <2>2, <3>3 DEF Sound
    <3>5. cmd'.exit # 0 /\ cmd'.page \in Nat \ {0} /\ day \in Nat /\ cmd'.seen \subseteq store'
      BY <1>1, <3>2, BichonAssumption DEF Waiting, WorldKept
    <3> HIDE <2>s, <3>3
    <3>6. CmdInv'
      BY <3>2, <3>4, <3>5 DEF CmdInv
    <3>7. \A m \in cmd'.seen : (cmd'.page - 1) * PageSize <= Offset(InWindow(m.acct), m)'
      <4> SUFFICES ASSUME NEW m \in cmd'.seen PROVE (cmd'.page - 1) * PageSize <= Offset(InWindow(m.acct), m)'
        OBVIOUS
      <4>1. InWindow(m.acct)' \in SUBSET Mail
        BY <1>1 DEF InWindow, WorldKept, BichonInv, Shape, MailInv
      <4>2. Offset(InWindow(m.acct)', m) \in Nat /\ Offset(InWindow(m.acct), m)' = Offset(InWindow(m.acct)', m)
        BY <4>1, OffsetGrows DEF Offset, Before
      <4>3. (cmd'.page - 1) * PageSize = 0
        BY <3>2, BichonAssumption
      <4>4. QED
        BY <4>2, <4>3
    <3>8. CoverInv'
      BY <3>2, <3>5, <3>7 DEF CoverInv
    <3>9. RescanInv'
      BY <3>2 DEF RescanInv
    <3>10. QED
      BY <1>1, <3>6, <3>8, <3>9, WorldKeeps DEF BichonInv, Shape
  <2>4. CASE f \notin synced[a]
    <3>1. cmd' = Ended(c, 2) /\ store' = store
      BY <1>1, <2>1, <2>4 DEF c, WorldKept
    <3>2. QED
      BY <1>1, <2>2, <3>1, WorldKeeps, EndedSound
  <2>5. QED
    BY <2>3, <2>4
<1>4. QED
  BY <1>2, <1>3

LEMMA SearchKeeps == ASSUME BichonInv, Search PROVE BichonInv'
<1>1. WorldKept /\ cmd.phase = "search"
  BY DEF Search, Keep, MailVars, ArchiveVars, WorldKept
<1>2. CASE Fails(2)
  BY <1>1, <1>2, FailsKeeps
<1>3. CASE ~Fails(2)
  <2>1. PICK a \in Accounts : cmd.picked = {a} /\ a = CHOOSE b \in cmd.picked : TRUE
    BY <1>1 DEF BichonInv, Shape, CmdInv
  <2> DEFINE found == InWindow(a)
             next == [cmd EXCEPT !.listed = @ \cup ({cmd.page} \X Page(found, cmd.page)), !.page = @ + 1]
             last == IsLast(found, cmd.page)
  <2>2. cmd' = IF last THEN [next EXCEPT !.phase = "rows"] ELSE next
    BY <1>3, <2>1 DEF Search
  <2>3. /\ CmdFields \subseteq DOMAIN cmd /\ cmd.page \in Nat \ {0} /\ cmd.kind = "verify" /\ cmd.exit # 0
        /\ {cmd.steady, cmd.quiet} \subseteq BOOLEAN
    BY <1>1 DEF BichonInv, Shape, CmdInv
  <2> HIDE DEF found, last
  <2>4. /\ cmd'.listed = cmd.listed \cup ({cmd.page} \X Page(found, cmd.page)) /\ cmd'.page = cmd.page + 1
        /\ cmd'.phase = (IF last THEN "rows" ELSE "search") /\ cmd'.kind = "verify" /\ cmd'.picked = {a}
        /\ cmd'.exit = cmd.exit /\ cmd'.seen = cmd.seen /\ cmd'.before = cmd.before
        /\ CmdFields \subseteq DOMAIN cmd'
    BY <1>1, <2>1, <2>2, <2>3 DEF CmdFields
  <2>5. cmd'.steady = cmd.steady /\ cmd'.quiet = cmd.quiet
    BY <2>2, <2>3 DEF CmdFields
  <2>6. {cmd'.steady, cmd'.quiet} \subseteq BOOLEAN /\ (cmd'.steady => cmd.steady)
        /\ (cmd'.steady => cmd'.seen \subseteq store')
    BY <1>1, <2>3, <2>4, <2>5 DEF BichonInv, Shape, CmdInv, WorldKept
  <2> HIDE <2>5
  <2>7. CmdInv'
    BY <2>3, <2>4, <2>6 DEF CmdInv
  <2>8. CoverInv'
    <3> SUFFICES ASSUME cmd'.steady PROVE CoverInv'
      BY DEF CoverInv
    <3>1. /\ cmd.steady /\ cmd.before \in Nat /\ cmd.seen \subseteq store /\ store \subseteq Mail
          /\ \A m \in cmd.seen : InScope(m) =>
                 WasListed(m) \/ (cmd.page - 1) * PageSize <= Offset(InWindow(m.acct), m)
      BY <1>1, <2>3, <2>6 DEF CoverInv, BichonInv, Shape, CmdInv, MailInv
    <3>2. ASSUME NEW m \in cmd.seen, InScope(m)'
          PROVE  WasListed(m)' \/ (~last /\ (cmd'.page - 1) * PageSize <= Offset(InWindow(m.acct), m)')
      <4>1. InScope(m) /\ m.acct = a /\ m.date < cmd.before
        BY <2>1, <2>4, <3>2 DEF InScope
      <4>2. CASE WasListed(m)
        BY <2>4, <4>2 DEF WasListed
      <4>3. CASE (cmd.page - 1) * PageSize <= Offset(found, m)
        <5>1. m \in found /\ found \in SUBSET Mail
          BY <3>1, <4>1, BichonAssumption DEF found, InWindow
        <5>2. m \in Page(found, cmd.page) \/ (((cmd.page + 1) - 1) * PageSize <= Offset(found, m) /\ ~last)
          BY <2>3, <4>3, <5>1, PageHolds DEF last
        <5>3. CASE m \in Page(found, cmd.page)
          <6>1. <<cmd.page, m>> \in cmd'.listed /\ <<cmd.page, m>>[2] = m
            BY <2>4, <5>3
          <6>2. QED
            BY <6>1 DEF WasListed
        <5>4. CASE ((cmd.page + 1) - 1) * PageSize <= Offset(found, m) /\ ~last
          <6>1. InWindow(m.acct)' = found
            BY <1>1, <2>4, <4>1 DEF found, InWindow, WorldKept
          <6>2. Offset(InWindow(m.acct), m)' = Offset(found, m)
            BY <6>1 DEF Offset, Before
          <6>3. QED
            BY <2>4, <5>4, <6>2
        <5>5. QED
          BY <5>2, <5>3, <5>4
      <4>4. QED
        BY <3>1, <4>1, <4>2, <4>3 DEF found
    <3>3. cmd'.phase = "rows" => \A m \in cmd'.seen : InScope(m)' => WasListed(m)'
      BY <2>4, <3>2
    <3>4. cmd'.phase = "search" => \A m \in cmd'.seen : InScope(m)' =>
             WasListed(m)' \/ (cmd'.page - 1) * PageSize <= Offset(InWindow(m.acct), m)'
      BY <2>4, <3>2
    <3>5. QED
      BY <2>3, <2>4, <3>1, <3>3, <3>4 DEF CoverInv
  <2>9. RescanInv'
    BY <2>4 DEF RescanInv
  <2>10. QED
    BY <1>1, <2>7, <2>8, <2>9, WorldKeeps DEF BichonInv, Shape
<1>4. QED
  BY <1>2, <1>3
LEMMA CompareKeeps == ASSUME BichonInv, Compare PROVE BichonInv'
<1>1. WorldKept /\ cmd.phase = "rows"
  BY DEF Compare, Keep, MailVars, ArchiveVars, WorldKept
<1>2. CASE Fails(2)
  BY <1>1, <1>2, FailsKeeps
<1>3. CASE ~Fails(2)
  <2>1. PICK a \in Accounts : cmd.picked = {a} /\ a = CHOOSE b \in cmd.picked : TRUE
    BY <1>1 DEF BichonInv, Shape, CmdInv
  <2> DEFINE rows == Scope(a)
             none == {x \in archive : x.acct \in cmd.picked} = {} \/ \E x \in rows : ~x.keyed
             code == IF none THEN 2 ELSE IF Covered(rows) THEN 0 ELSE 1
  <2>2. cmd' = Ended(cmd, code)
    BY <1>3, <2>1 DEF Compare
  <2>3. code = 0 => Covered(rows)
    OBVIOUS
  <2> HIDE DEF code
  <2>4. /\ CmdFields \subseteq DOMAIN cmd' /\ cmd'.kind = cmd.kind /\ cmd'.picked = cmd.picked
        /\ cmd'.folder = cmd.folder /\ cmd'.before = cmd.before /\ cmd'.seen = cmd.seen /\ cmd.kind = "verify"
    BY <1>1, <2>2, EndedIs DEF CmdFields, BichonInv, Shape, CmdInv
  <2>c. CmdFields \subseteq DOMAIN cmd
    BY DEF BichonInv, Shape, CmdInv
  <2>e. cmd'.steady = cmd.steady
    BY <2>2, <2>c, EndedIs DEF CmdFields
  <2>5. cmd'.steady => cmd.steady
    BY <2>e
  <2> HIDE <2>e
  <2>6. ASSUME code = 0, cmd'.steady PROVE Promised'
    <3>1. cmd.seen \subseteq store /\ store \subseteq Mail
          /\ \A m \in cmd.seen : InScope(m) => WasListed(m)
      BY <1>1, <2>4, <2>5, <2>6 DEF BichonInv, Shape, CmdInv, CoverInv, MailInv
    <3>2. ASSUME NEW m \in cmd.seen, m.acct \in cmd.picked, m.folder = cmd.folder, m.date < cmd.before,
                 m.id # Synthetic, ~\E o \in Mail : o.id = m.id /\ o.n # m.n
          PROVE  Held(m)
      <4>1. PICK e \in cmd.listed : e[2] = m
        BY <3>1, <3>2 DEF InScope, WasListed
      <4>2. Bodies(rows, m.id) # {}
        BY <2>3, <2>6, <3>2, <4>1 DEF Covered
      <4>3. PICK x \in archive : x.id = m.id
        BY <4>2 DEF Bodies, Scope
      <4>4. PICK o \in Mail : x.n = o.n /\ x.id = o.id
        BY DEF BichonInv, Shape, MailInv
      <4>5. QED
        BY <3>2, <4>3, <4>4 DEF Held
    <3>3. \A m : Held(m)' <=> Held(m)
      BY <1>1 DEF Held, WorldKept
    <3>4. QED
      BY <1>1, <2>4, <3>2, <3>3 DEF Promised, WorldKept
  <2>7. QED
    BY <1>1, <2>2, <2>4, <2>6, CmdSound, WorldKeeps, EndedSound DEF WorldKept
<1>4. QED
  BY <1>2, <1>3

\* reconcile-folders promises nothing of the archive.
LEMMA ReconcileStep ==
    ASSUME MailInv', RunInv', Sound(cmd)', cmd'.kind = "reconcile", cmd'.phase \in {"list", "update", "done"},
           cmd'.exit = 0 => cmd'.phase = "done"
    PROVE  BichonInv'
<1>1. CmdInv'
  BY DEF CmdInv, Sound
<1>2. CoverInv' /\ RescanInv'
  BY DEF CoverInv, RescanInv
<1>3. QED
  BY <1>1, <1>2 DEF BichonInv, Shape

LEMMA ReconcileKeeps == ASSUME BichonInv, Reconcile PROVE BichonInv'
<1>1. WorldKept
  BY DEF Reconcile, Keep, MailVars, ArchiveVars, WorldKept
<1>2. CASE Refused("reconcile")
  BY <1>1, <1>2, RefusedKeeps
<1>3. CASE ~Refused("reconcile")
  <2> DEFINE c == Connected("reconcile")
  <2>1. PICK chosen \in Filters, apply \in BOOLEAN :
          cmd' = [c EXCEPT !.phase = "list", !.picked = {chosen[i] : i \in DOMAIN chosen},
                           !.apply = apply, !.todo = chosen]
    BY <1>3 DEF Reconcile
  <2>2. c.kind = "reconcile" /\ c.page = 1 /\ c.seen = store /\ c.exit = Waiting /\ CmdFields \subseteq DOMAIN c
        /\ Sound(c)
    BY ConnectedIs
  <2> HIDE DEF c
  <2>3. /\ cmd'.kind = "reconcile" /\ cmd'.phase = "list" /\ cmd'.page = 1 /\ cmd'.seen = store
        /\ cmd'.exit = Waiting /\ CmdFields \subseteq DOMAIN cmd'
    BY <2>1, <2>2 DEF CmdFields
  <2>4. cmd'.steady = c.steady /\ cmd'.quiet = c.quiet
    BY <2>1, <2>2 DEF CmdFields
  <2>5. {cmd'.steady, cmd'.quiet} \subseteq BOOLEAN
    BY <2>2, <2>4 DEF Sound
  <2> HIDE <2>4
  <2>6. Sound(cmd)'
    BY <1>1, <2>3, <2>5 DEF Sound, WorldKept
  <2>7. QED
    BY <1>1, <2>3, <2>6, WorldKeeps, ReconcileStep DEF Waiting
<1>4. QED
  BY <1>2, <1>3

LEMMA NextKeeps ==
    ASSUME NEW c, Sound(c), c.kind = "reconcile", c.exit # 0, cmd' = NextAccount(c),
           store' = store, MailInv', RunInv'
    PROVE  BichonInv'
<1> DEFINE rest == [c EXCEPT !.todo = Tail(@), !.done = @ \cup {[acct |-> Head(c.todo), desired |-> c.desired]}]
<1>1. /\ CmdFields \subseteq DOMAIN rest /\ rest.page = c.page /\ rest.seen = c.seen /\ rest.kind = c.kind
      /\ rest.exit = c.exit
  BY DEF Sound, CmdFields
<1>2. rest.steady = c.steady /\ rest.quiet = c.quiet
  BY DEF Sound, CmdFields
<1>3. cmd' = IF rest.todo = << >> THEN Ended(rest, 0) ELSE [rest EXCEPT !.phase = "list"]
  BY DEF NextAccount
<1> HIDE DEF rest
<1>4. {rest.steady, rest.quiet} \subseteq BOOLEAN /\ (rest.steady => rest.seen \subseteq store)
  BY <1>1, <1>2 DEF Sound
<1>5. Sound(rest)
  BY <1>1, <1>4 DEF Sound
<1>6. CASE rest.todo = << >>
  BY <1>1, <1>3, <1>5, <1>6, EndedSound
<1>7. CASE rest.todo # << >>
  <2>1. cmd' = [rest EXCEPT !.phase = "list"]
    BY <1>3, <1>7
  <2>2. /\ cmd'.kind = "reconcile" /\ cmd'.phase = "list" /\ cmd'.page = rest.page /\ cmd'.seen = rest.seen
        /\ cmd'.exit = c.exit /\ CmdFields \subseteq DOMAIN cmd'
    BY <1>1, <2>1 DEF CmdFields
  <2>3. cmd'.steady = rest.steady /\ cmd'.quiet = rest.quiet
    BY <1>1, <2>1 DEF CmdFields
  <2>4. {cmd'.steady, cmd'.quiet} \subseteq BOOLEAN /\ (cmd'.steady => cmd'.seen \subseteq store')
    BY <1>4, <2>2, <2>3
  <2> HIDE <2>3
  <2>5. Sound(cmd)'
    BY <1>5, <2>2, <2>4 DEF Sound
  <2>6. QED
    BY <2>2, <2>5, ReconcileStep
<1>8. QED
  BY <1>6, <1>7

LEMMA ListFoldersKeeps == ASSUME BichonInv, ListFolders PROVE BichonInv'
<1>1. WorldKept /\ cmd.phase = "list"
  BY DEF ListFolders, Keep, MailVars, ArchiveVars, WorldKept
<1>2. CASE Fails(1)
  BY <1>1, <1>2, FailsKeeps
<1>3. CASE ~Fails(1)
  <2> DEFINE planned == [cmd EXCEPT !.desired = boxes[Head(cmd.todo)] \ Excluded]
  <2>1. cmd' = [planned EXCEPT !.phase = "update"] \/ cmd' = NextAccount(planned)
    BY <1>3 DEF ListFolders
  <2>2. /\ planned.page = cmd.page /\ planned.seen = cmd.seen /\ planned.kind = "reconcile"
        /\ planned.exit = cmd.exit /\ CmdFields \subseteq DOMAIN planned /\ planned.exit # 0
    BY <1>1 DEF BichonInv, Shape, CmdInv, CmdFields
  <2>3. planned.steady = cmd.steady /\ planned.quiet = cmd.quiet
    BY DEF BichonInv, Shape, CmdInv, CmdFields
  <2> HIDE DEF planned
  <2>4. {planned.steady, planned.quiet} \subseteq BOOLEAN /\ (planned.steady => planned.seen \subseteq store)
    BY <2>2, <2>3 DEF BichonInv, Shape, CmdInv
  <2>5. Sound(planned)
    BY <2>2, <2>4 DEF Sound, BichonInv, Shape, CmdInv
  <2>6. CASE cmd' = [planned EXCEPT !.phase = "update"]
    <3>1. /\ cmd'.kind = "reconcile" /\ cmd'.phase = "update" /\ cmd'.page = planned.page
          /\ cmd'.seen = planned.seen /\ cmd'.exit = planned.exit /\ CmdFields \subseteq DOMAIN cmd'
      BY <2>2, <2>6 DEF CmdFields
    <3>2. cmd'.steady = planned.steady /\ cmd'.quiet = planned.quiet
      BY <2>2, <2>6 DEF CmdFields
    <3>3. {cmd'.steady, cmd'.quiet} \subseteq BOOLEAN /\ (cmd'.steady => cmd'.seen \subseteq store')
      BY <1>1, <2>4, <3>1, <3>2 DEF WorldKept
    <3> HIDE <3>2
    <3>4. Sound(cmd)'
      BY <2>5, <3>1, <3>3 DEF Sound
    <3>5. QED
      BY <1>1, <2>2, <3>1, <3>4, WorldKeeps, ReconcileStep
  <2>7. CASE cmd' = NextAccount(planned)
    BY <1>1, <2>2, <2>5, <2>7, WorldKeeps, NextKeeps DEF WorldKept
  <2>8. QED
    BY <2>1, <2>6, <2>7
<1>4. QED
  BY <1>2, <1>3

LEMMA UpdateKeeps == ASSUME BichonInv, Update PROVE BichonInv'
<1>1. WorldKept /\ cmd.phase = "update" /\ (cmd' = NextAccount(cmd) \/ Fails(1))
  BY DEF Update, ArchiveVars, WorldKept
<1>2. CASE Fails(1)
  BY <1>1, <1>2, FailsKeeps
<1>3. CASE cmd' = NextAccount(cmd)
  <2>1. cmd.kind = "reconcile" /\ cmd.exit # 0
    BY <1>1 DEF BichonInv, Shape, CmdInv
  <2>2. QED
    BY <1>1, <1>3, <2>1, CmdSound, WorldKeeps, NextKeeps DEF WorldKept
<1>4. QED
  BY <1>1, <1>2, <1>3
LEMMA RescanStarts == ASSUME BichonInv, Rescan PROVE BichonInv'
<1>1. WorldKept
  BY DEF Rescan, Keep, MailVars, ArchiveVars, WorldKept
<1>2. CASE Refused("rescan")
  BY <1>1, <1>2, RefusedKeeps
<1>3. CASE ~Refused("rescan")
  <2> DEFINE c == Connected("rescan")
  <2>1. PICK chosen \in Filters :
          cmd' = [c EXCEPT !.phase = "stale", !.picked = Range(chosen), !.todo = chosen]
    BY <1>3 DEF Rescan, Range
  <2>2. c.kind = "rescan" /\ c.page = 1 /\ c.seen = store /\ c.exit = Waiting /\ CmdFields \subseteq DOMAIN c
        /\ Sound(c)
    BY ConnectedIs
  <2> HIDE DEF c
  <2>3. /\ cmd'.kind = "rescan" /\ cmd'.phase = "stale" /\ cmd'.page = 1 /\ cmd'.seen = store
        /\ cmd'.picked = Range(chosen) /\ cmd'.todo = chosen
        /\ cmd'.exit = Waiting /\ CmdFields \subseteq DOMAIN cmd'
    BY <2>1, <2>2 DEF CmdFields
  <2>4. cmd'.steady = c.steady /\ cmd'.quiet = c.quiet
    BY <2>1, <2>2 DEF CmdFields
  <2>5. {cmd'.steady, cmd'.quiet} \subseteq BOOLEAN
    BY <2>2, <2>4 DEF Sound
  <2> HIDE <2>4
  <2>6. Roster \in Seq(Accounts) /\ Roster # << >>
    BY BichonAssumption
  <2>7. chosen \in Seq(Accounts) /\ chosen # << >>
    <3>1. CASE chosen = Roster
      BY <2>6, <3>1
    <3>2. CASE chosen # Roster
      <4>1. PICK a \in Accounts : chosen = <<a>>
        BY <3>2 DEF Filters
      <4>2. QED
        BY <4>1
    <3>3. QED
      BY <3>1, <3>2
  <2>8. Range(chosen) \subseteq Accounts
    BY <2>7 DEF Range
  <2>9. CmdInv'
    BY <1>1, <2>3, <2>5, <2>6, <2>7, <2>8 DEF CmdInv, WorldKept, Waiting
  <2>10. CoverInv' /\ RescanInv'
    BY <2>3 DEF CoverInv, RescanInv, Waiting
  <2>11. QED
    BY <1>1, <2>9, <2>10, WorldKeeps DEF BichonInv, Shape
<1>4. QED
  BY <1>2, <1>3

\* A rescan's next phase, the rest of its command kept.
Turned(phase) ==
    /\ CmdFields \subseteq DOMAIN cmd' /\ cmd'.phase = phase
    /\ \A f \in CmdFields \ {"phase", "todo", "mark", "quiet"} : cmd'[f] = cmd[f]
    /\ cmd'.quiet \in BOOLEAN

LEMMA TurnedIs ==
    ASSUME BichonInv, store' = store, NEW phase, Turned(phase),
           cmd.phase \in {"stale", "busy", "reset", "mark", "start"},
           phase \in {"busy", "reset", "mark", "start", "wait"},
           phase \in {"busy", "reset"} => cmd'.todo \in Seq(Accounts) /\ cmd'.todo # << >>,
           phase = "busy" => Range(cmd'.todo) = cmd.picked
    PROVE  /\ CmdInv' /\ CoverInv' /\ cmd'.phase = phase /\ cmd'.kind = "rescan" /\ cmd'.exit # 0
           /\ cmd'.picked = cmd.picked /\ cmd.picked \subseteq Accounts
           /\ cmd'.seen = cmd.seen /\ (cmd'.steady => cmd.steady)
<1>1. /\ cmd'.phase = phase /\ cmd'.kind = cmd.kind /\ cmd'.picked = cmd.picked /\ cmd'.exit = cmd.exit
      /\ cmd'.seen = cmd.seen /\ cmd'.page = cmd.page /\ CmdFields \subseteq DOMAIN cmd'
  BY DEF Turned, CmdFields
<1>2. cmd'.steady = cmd.steady
  BY DEF Turned, CmdFields
<1>3. cmd.kind = "rescan" /\ cmd.exit # 0 /\ cmd.picked \subseteq Accounts /\ {cmd.steady, cmd.quiet} \subseteq BOOLEAN
      /\ cmd.page \in Nat \ {0} /\ (cmd.steady => cmd.seen \subseteq store)
  BY DEF BichonInv, Shape, CmdInv
<1>4. {cmd'.steady, cmd'.quiet} \subseteq BOOLEAN /\ (cmd'.steady => cmd.steady)
      /\ (cmd'.steady => cmd'.seen \subseteq store')
  BY <1>1, <1>2, <1>3 DEF Turned
<1> HIDE <1>2
<1>5. CmdInv'
  BY <1>1, <1>3, <1>4 DEF CmdInv
<1>6. CoverInv'
  BY <1>1, <1>3 DEF CoverInv
<1>7. QED
  BY <1>1, <1>3, <1>4, <1>5, <1>6

LEMMA PreconditionKeeps == ASSUME BichonInv, Precondition PROVE BichonInv'
<1>1. WorldKept /\ cmd.phase = "stale"
  BY DEF Precondition, Keep, MailVars, ArchiveVars, WorldKept
<1>2. cmd' = Ended(cmd, 2) \/ cmd' = [cmd EXCEPT !.phase = "busy"]
  BY DEF Precondition, Fails
<1>3. CASE cmd' = Ended(cmd, 2)
  BY <1>1, <1>3, CmdSound, WorldKeeps, EndedSound DEF WorldKept
<1>4. CASE cmd' = [cmd EXCEPT !.phase = "busy"]
  <2>1. /\ CmdFields \subseteq DOMAIN cmd /\ cmd.quiet \in BOOLEAN
        /\ cmd.todo \in Seq(Accounts) /\ cmd.todo # << >> /\ Range(cmd.todo) = cmd.picked
    BY <1>1 DEF BichonInv, Shape, CmdInv
  <2>2. Turned("busy") /\ cmd'.todo = cmd.todo
    BY <1>4, <2>1 DEF Turned, CmdFields
  <2>3. CmdInv' /\ CoverInv' /\ cmd'.phase = "busy" /\ cmd'.exit # 0
    BY <1>1, <2>1, <2>2, TurnedIs DEF WorldKept
  <2>4. RescanInv'
    BY <2>3 DEF RescanInv
  <2>5. QED
    BY <1>1, <2>3, <2>4, WorldKeeps DEF BichonInv, Shape
<1>5. QED
  BY <1>2, <1>3, <1>4

LEMMA AskActiveKeeps == ASSUME BichonInv, AskActive PROVE BichonInv'
<1>1. WorldKept /\ cmd.phase = "busy"
  BY DEF AskActive, Keep, MailVars, ArchiveVars, WorldKept
<1>2. \/ cmd' = Ended(cmd, 2)
      \/ cmd' = [cmd EXCEPT !.phase = "reset"] /\ ~job.on
      \/ cmd' = [cmd EXCEPT !.phase = "reset", !.quiet = ~job.on]
  BY DEF AskActive, Busy
<1>3. CASE cmd' = Ended(cmd, 2)
  BY <1>1, <1>3, CmdSound, WorldKeeps, EndedSound DEF WorldKept
<1>4. CASE ~(cmd' = Ended(cmd, 2))
  <2>1. /\ CmdFields \subseteq DOMAIN cmd /\ cmd.quiet \in BOOLEAN /\ job.on \in BOOLEAN
        /\ cmd.todo \in Seq(Accounts) /\ cmd.todo # << >> /\ Range(cmd.todo) = cmd.picked
    BY <1>1 DEF BichonInv, Shape, CmdInv, RunInv
  <2>2. Turned("reset") /\ cmd'.todo = cmd.todo /\ (cmd'.quiet => ~job.on)
    <3>1. CASE cmd' = [cmd EXCEPT !.phase = "reset"] /\ ~job.on
      BY <2>1, <3>1 DEF Turned, CmdFields
    <3>2. CASE cmd' = [cmd EXCEPT !.phase = "reset", !.quiet = ~job.on]
      <4> DEFINE idle == ~job.on
      <4>1. idle \in BOOLEAN /\ (idle => ~job.on) /\ cmd' = [cmd EXCEPT !.phase = "reset", !.quiet = idle]
        BY <3>2
      <4> HIDE DEF idle
      <4>2. /\ CmdFields \subseteq DOMAIN cmd' /\ cmd'.phase = "reset" /\ cmd'.todo = cmd.todo
            /\ \A f \in CmdFields \ {"phase", "todo", "mark", "quiet"} : cmd'[f] = cmd[f]
        BY <2>1, <4>1 DEF CmdFields
      <4>3. cmd'.quiet = idle
        BY <2>1, <4>1 DEF CmdFields
      <4>4. QED
        BY <4>1, <4>2, <4>3 DEF Turned
    <3>3. QED
      BY <1>2, <1>4, <3>1, <3>2
  <2>3. CmdInv' /\ CoverInv' /\ cmd'.phase = "reset" /\ cmd'.exit # 0 /\ cmd'.picked = cmd.picked
    BY <1>1, <2>1, <2>2, TurnedIs DEF WorldKept
  <2>4. RescanInv'
    BY <1>1, <2>1, <2>2, <2>3 DEF RescanInv, WorldKept
  <2>5. QED
    BY <1>1, <2>3, <2>4, WorldKeeps DEF BichonInv, Shape
<1>5. QED
  BY <1>3, <1>4

LEMMA ResetKeeps == ASSUME BichonInv, Reset PROVE BichonInv'
<1>1. cmd.phase = "reset" /\ UNCHANGED <<store, archive, job>>
  BY DEF Reset, MailVars
<1>2. /\ CmdFields \subseteq DOMAIN cmd /\ cmd.quiet \in BOOLEAN /\ cmd.todo \in Seq(Accounts)
      /\ cmd.todo # << >> /\ cmd.kind = "rescan"
  BY <1>1 DEF BichonInv, Shape, CmdInv
<1>3. CASE cursor' = cursor /\ Fails(2)
  BY <1>1, <1>3, FailsKeeps DEF WorldKept
<1>4. CASE ~(cursor' = cursor /\ Fails(2))
  <2> DEFINE h == Head(cmd.todo)
             phase == IF Len(cmd.todo) = 1 THEN "mark" ELSE "reset"
  <2>1. /\ cursor' = [cursor EXCEPT ![h] = 0]
        /\ cmd' = [cmd EXCEPT !.todo = Tail(@), !.phase = phase]
    BY <1>4 DEF Reset
  <2>2. MailInv' /\ RunInv'
    <3>1. cursor' = [a \in Accounts |-> cursor'[a]]
      BY <2>1 DEF BichonInv, Shape, MailInv
    <3>2. QED
      BY <1>1, <3>1 DEF BichonInv, Shape, MailInv, RunInv
  <2>3. Turned(phase) /\ cmd'.todo = Tail(cmd.todo)
    <3> HIDE DEF phase
    <3> QED
      BY <1>2, <2>1 DEF Turned, CmdFields
  <2>q. cmd'.quiet = cmd.quiet
    BY <1>2, <2>1 DEF CmdFields
  <2>t. cmd'.quiet => cmd.quiet
    BY <2>q
  <2> HIDE <2>q
  <2>4. /\ Tail(cmd.todo) \in Seq(Accounts) /\ (phase = "reset" => Tail(cmd.todo) # << >>)
        /\ phase \in {"mark", "reset"} /\ (phase = "mark" => Tail(cmd.todo) = << >>)
    <3>1. Tail(cmd.todo) \in Seq(Accounts) /\ Len(cmd.todo) \in Nat /\ Len(cmd.todo) > 0
          /\ Len(Tail(cmd.todo)) = Len(cmd.todo) - 1
      BY <1>2
    <3>2. Len(Tail(cmd.todo)) = 0 <=> Tail(cmd.todo) = << >>
      <4>1. \A s \in Seq(Accounts) : Len(s) = 0 <=> s = << >>
        OBVIOUS
      <4>2. QED
        BY <3>1, <4>1
    <3>3. Len(cmd.todo) = 1 <=> Tail(cmd.todo) = << >>
      BY <3>1, <3>2
    <3>4. (phase = "mark" <=> Len(cmd.todo) = 1) /\ (phase = "reset" <=> Len(cmd.todo) # 1)
          /\ phase \in {"mark", "reset"}
      OBVIOUS
    <3>5. QED
      BY <3>1, <3>3, <3>4
  <2>5. CmdInv' /\ CoverInv' /\ cmd'.phase = phase /\ cmd'.exit # 0 /\ cmd'.picked = cmd.picked
        /\ cmd.picked \subseteq Accounts /\ (cmd'.steady => cmd.steady)
    BY <1>1, <2>3, <2>4, TurnedIs
  <2>6. Range(cmd.todo) \subseteq Range(Tail(cmd.todo)) \cup {h}
    <3> SUFFICES ASSUME NEW i \in DOMAIN cmd.todo PROVE cmd.todo[i] \in Range(Tail(cmd.todo)) \cup {h}
      BY DEF Range
    <3>1. CASE i = 1
      BY <1>2, <3>1
    <3>2. CASE i # 1
      <4>1. i - 1 \in DOMAIN Tail(cmd.todo) /\ Tail(cmd.todo)[i - 1] = cmd.todo[(i - 1) + 1] /\ (i - 1) + 1 = i
        BY <1>2, <3>2
      <4>2. QED
        BY <4>1 DEF Range
    <3>3. QED
      BY <3>1, <3>2
  <2>7. RescanInv'
    <3> SUFFICES ASSUME cmd'.steady, cmd'.quiet PROVE RescanInv'
      BY DEF RescanInv
    <3>1. ~job.on /\ \A a \in cmd.picked \ Range(cmd.todo) : cursor[a] = 0
      BY <1>1, <1>2, <2>5, <2>t DEF BichonInv, RescanInv
    <3>2. \A a \in cmd.picked \ Range(Tail(cmd.todo)) : cursor'[a] = 0
      BY <2>1, <2>5, <2>6, <3>1 DEF BichonInv, Shape, MailInv
    <3>3. phase = "mark" => Range(Tail(cmd.todo)) = {}
      BY <2>4 DEF Range
    <3>4. QED
      BY <1>1, <2>3, <2>4, <2>5, <3>1, <3>2, <3>3 DEF RescanInv
  <2>8. QED
    BY <2>2, <2>5, <2>7 DEF BichonInv, Shape
<1>5. QED
  BY <1>3, <1>4

LEMMA MarkKeeps == ASSUME BichonInv, Mark PROVE BichonInv'
<1>1. WorldKept /\ cmd.phase = "mark"
  BY DEF Mark, Keep, MailVars, ArchiveVars, WorldKept
<1>2. CASE Fails(2)
  BY <1>1, <1>2, FailsKeeps
<1>3. CASE ~Fails(2)
  <2>1. cmd' = [cmd EXCEPT !.phase = "start", !.mark = Len(journal)]
    BY <1>3 DEF Mark
  <2>2. CmdFields \subseteq DOMAIN cmd /\ cmd.quiet \in BOOLEAN /\ cmd.kind = "rescan"
    BY <1>1 DEF BichonInv, Shape, CmdInv
  <2>3. Turned("start") /\ cmd'.todo = cmd.todo
    BY <2>1, <2>2 DEF Turned, CmdFields
  <2>q. cmd'.quiet = cmd.quiet
    BY <2>1, <2>2 DEF CmdFields
  <2>4. cmd'.quiet => cmd.quiet
    BY <2>q
  <2> HIDE <2>q
  <2>5. CmdInv' /\ CoverInv' /\ cmd'.phase = "start" /\ cmd'.exit # 0 /\ cmd'.picked = cmd.picked
        /\ (cmd'.steady => cmd.steady)
    BY <1>1, <2>3, TurnedIs DEF WorldKept
  <2>6. RescanInv'
    BY <1>1, <2>2, <2>4, <2>5 DEF BichonInv, RescanInv, WorldKept
  <2>7. QED
    BY <1>1, <2>5, <2>6, WorldKeeps DEF BichonInv, Shape
<1>4. QED
  BY <1>2, <1>3

LEMMA StartKeeps == ASSUME BichonInv, Start PROVE BichonInv'
<1>1. cmd.phase = "start" /\ cmd' = [cmd EXCEPT !.phase = "wait"] /\ UNCHANGED <<store, archive, cursor>>
      /\ job' = IF job.on THEN job ELSE Started
  BY DEF Start, MailVars
<1>2. CmdFields \subseteq DOMAIN cmd /\ cmd.quiet \in BOOLEAN /\ cmd.kind = "rescan"
  BY <1>1 DEF BichonInv, Shape, CmdInv
<1>3. Turned("wait")
  BY <1>1, <1>2 DEF Turned, CmdFields
<1>q. cmd'.quiet = cmd.quiet
  BY <1>1, <1>2 DEF CmdFields
<1>4. cmd'.quiet => cmd.quiet
  BY <1>q
<1> HIDE <1>q
<1>5. CmdInv' /\ CoverInv' /\ cmd'.phase = "wait" /\ cmd'.exit # 0 /\ cmd'.picked = cmd.picked
      /\ cmd.picked \subseteq Accounts /\ (cmd'.steady => cmd.steady)
  BY <1>1, <1>3, TurnedIs
<1>6. MailInv' /\ RunInv'
  <2>1. RunInv'
    <3>1. CASE job.on
      BY <1>1, <3>1 DEF BichonInv, Shape, RunInv
    <3>2. CASE ~job.on
      BY <1>1, <3>2, StartedIs
    <3>3. QED
      BY <3>1, <3>2
  <2>2. QED
    BY <1>1, <2>1 DEF BichonInv, Shape, MailInv
<1>7. RescanInv'
  <2> SUFFICES ASSUME cmd'.steady, cmd'.quiet PROVE RescanInv'
    BY DEF RescanInv
  <2>1. ~job.on /\ \A a \in cmd.picked : cursor[a] = 0
    BY <1>1, <1>2, <1>4, <1>5 DEF BichonInv, RescanInv
  <2>2. job'.on /\ ~job'.walking /\ \A a \in Accounts : Rests(a)'
    BY <1>1, <2>1, StartedIs
  <2>3. \A a \in cmd.picked : SeenTo(a)'
    BY <1>1, <1>5, <2>1, <2>2 DEF SeenTo, Comes, AtIt
  <2>4. QED
    BY <1>5, <2>3 DEF RescanInv
<1>8. QED
  BY <1>5, <1>6, <1>7 DEF BichonInv, Shape

LEMMA ReportKeeps == ASSUME BichonInv, Report PROVE BichonInv'
<1>1. WorldKept /\ cmd.phase = "wait" /\ ~job.on
  BY DEF Report, Keep, MailVars, ArchiveVars, WorldKept
<1>2. CASE Fails(2)
  BY <1>1, <1>2, FailsKeeps
<1>3. CASE ~Fails(2)
  <2> DEFINE code == RunStatus(CountedFailures, job.ok)
  <2>1. cmd' = Ended(cmd, code)
    BY <1>3 DEF Report
  <2>2. code = 0 => job.ok
    BY DEF RunStatus
  <2> HIDE DEF code
  <2>3. cmd'.seen = cmd.seen /\ cmd.kind = "rescan" /\ CmdFields \subseteq DOMAIN cmd
    BY <1>1, <2>1, EndedIs DEF CmdFields, BichonInv, Shape, CmdInv
  <2>4. cmd'.steady = cmd.steady /\ cmd'.quiet = cmd.quiet
    BY <2>1, <2>3, EndedIs DEF CmdFields
  <2>5. (cmd'.steady => cmd.steady) /\ (cmd'.quiet => cmd.quiet)
    BY <2>4
  <2> HIDE <2>4
  <2>6. ASSUME code = 0, cmd'.steady, cmd'.quiet, NEW a \in cmd.picked PROVE Archived(a)'
    <3>1. SeenTo(a) /\ job.ok
      BY <1>1, <2>2, <2>3, <2>5, <2>6 DEF BichonInv, RescanInv
    <3>2. Archived(a)
      BY <1>1, <3>1 DEF SeenTo, Comes
    <3>3. QED
      BY <1>1, <2>3, <3>2 DEF Archived, Held, WorldKept
  <2>7. QED
    BY <1>1, <2>1, <2>3, <2>6, CmdSound, WorldKeeps, EndedSound DEF WorldKept
<1>4. QED
  BY <1>2, <1>3

LEMMA BichonStays == ASSUME BichonInv, UNCHANGED BichonVars PROVE BichonInv'
<1>1. store' = store /\ store \subseteq Mail /\ cmd' = cmd /\ UNCHANGED <<archive, cursor, job>>
  BY DEF BichonVars, BichonInv, Shape, MailInv
<1>2. SameCommand
  BY <1>1 DEF SameCommand, BichonInv, Shape, CmdInv
<1>3. QED
  BY <1>1, <1>2, MailArrives

LEMMA BichonSteps == BichonInv /\ [BichonNext]_BichonVars => BichonInv'
<1> SUFFICES ASSUME BichonInv, [BichonNext]_BichonVars PROVE BichonInv'
  OBVIOUS
<1>1. CASE HostNext
  BY <1>1, ArriveKeeps, DepartKeeps, RefolderKeeps, TickKeeps, WalkKeeps, FetchKeeps, SettleKeeps,
     FinishKeeps DEF HostNext
<1>2. CASE CommandNext
  BY <1>2, VerifyKeeps, SearchKeeps, CompareKeeps, ReconcileKeeps, ListFoldersKeeps, UpdateKeeps,
     RescanStarts, PreconditionKeeps, AskActiveKeeps, ResetKeeps, MarkKeeps, StartKeeps, ReportKeeps
     DEF CommandNext
<1>3. CASE UNCHANGED BichonVars
  BY <1>3, BichonStays
<1>4. QED
  BY <1>1, <1>2, <1>3 DEF BichonNext

\* What the operator is told of the archive is true: a covered folder and a clean
\* rescan leave no message behind (compute_coverage, compare_coverage,
\* execute_rescan, RescanRun::status), whatever the archive held before, however
\* many the accounts and pages, and whatever fails or arrives meanwhile.
THEOREM ReportsAreTrue == BichonSpec => []ArchiveReportsAreTrue
<1>1. BichonInv => ArchiveReportsAreTrue
  <2> SUFFICES ASSUME BichonInv PROVE ArchiveReportsAreTrue
    OBVIOUS
  <2>1. CoveredMeansArchived
    BY DEF CoveredMeansArchived, BichonInv, CoverInv
  <2>2. CleanMeansArchived
    BY DEF CleanMeansArchived, BichonInv, RescanInv, Archived
  <2>3. QED
    BY <2>1, <2>2 DEF ArchiveReportsAreTrue
<1>2. QED
  BY BichonInitially, BichonSteps, <1>1, PTL DEF BichonSpec

----------------------------------------------------------------------------
(* What a command is about while the world moves, and after its own calls. *)

\* The Host's own steps move no command along.
HostLeaves ==
    /\ CmdFields \subseteq DOMAIN cmd'
    /\ \A f \in CmdFields \ {"steady", "quiet", "alone"} : cmd'[f] = cmd[f]

LEMMA HostLeavesIt == ASSUME BichonInv, HostNext PROVE HostLeaves
<1>0. CmdFields \subseteq DOMAIN cmd
  BY DEF BichonInv, Shape, CmdInv
<1>1. CASE Depart
  BY <1>0, <1>1 DEF Depart, HostLeaves
<1>2. CASE Refolder
  BY <1>0, <1>2 DEF Refolder, HostLeaves
<1>3. CASE Tick
  BY <1>0, <1>3 DEF Tick, HostLeaves
<1>4. CASE Arrive \/ Walk \/ Fetch \/ Settle \/ Finish
  <2>1. cmd' = cmd
    BY <1>4 DEF Arrive, Walk, Fetch, Settle, Finish
  <2>2. QED
    BY <1>0, <2>1 DEF HostLeaves
<1>5. QED
  BY <1>1, <1>2, <1>3, <1>4 DEF HostNext

LEMMA SameSubject ==
    ASSUME HostLeaves
    PROVE  /\ cmd'.kind = cmd.kind /\ cmd'.phase = cmd.phase /\ cmd'.picked = cmd.picked
           /\ cmd'.folder = cmd.folder /\ cmd'.todo = cmd.todo /\ cmd'.listed = cmd.listed
           /\ cmd'.page = cmd.page /\ cmd'.exit = cmd.exit /\ cmd'.apply = cmd.apply
           /\ cmd'.known = cmd.known /\ cmd'.desired = cmd.desired /\ cmd'.done = cmd.done
  BY DEF HostLeaves, CmdFields

LEMMA RefusedIs ==
    ASSUME NEW kind, Refused(kind)
    PROVE  cmd'.kind = kind /\ cmd'.phase = "done" /\ cmd'.exit # 0 /\ cmd'.listed = {}
  BY DEF Refused, Ended, NoCommand

LEMMA FailsIs ==
    ASSUME BichonInv, NEW code, Fails(code)
    PROVE  /\ CmdFields \subseteq DOMAIN cmd' /\ cmd'.phase = "done" /\ cmd'.exit = code
           /\ \A f \in CmdFields \ {"phase", "exit"} : cmd'[f] = cmd[f]
  BY CmdSound, EndedIs DEF Fails, Sound

LEMMA NextIs ==
    ASSUME NEW c, CmdFields \subseteq DOMAIN c, cmd' = NextAccount(c)
    PROVE  /\ CmdFields \subseteq DOMAIN cmd'
           /\ cmd'.todo = Tail(c.todo)
           /\ cmd'.done = c.done \cup {[acct |-> Head(c.todo), desired |-> c.desired]}
           /\ \A f \in CmdFields \ {"phase", "exit", "todo", "done"} : cmd'[f] = c[f]
           /\ IF Tail(c.todo) = << >> THEN cmd'.phase = "done" /\ cmd'.exit = 0
              ELSE cmd'.phase = "list" /\ cmd'.exit = c.exit
<1> DEFINE rest == [c EXCEPT !.todo = Tail(@), !.done = @ \cup {[acct |-> Head(c.todo), desired |-> c.desired]}]
<1>1. /\ CmdFields \subseteq DOMAIN rest /\ rest.todo = Tail(c.todo)
      /\ rest.done = c.done \cup {[acct |-> Head(c.todo), desired |-> c.desired]}
      /\ \A f \in CmdFields \ {"todo", "done"} : rest[f] = c[f]
  BY DEF CmdFields
<1>2. cmd' = IF rest.todo = << >> THEN Ended(rest, 0) ELSE [rest EXCEPT !.phase = "list"]
  BY DEF NextAccount
<1> HIDE DEF rest
<1>3. CASE rest.todo = << >>
  BY <1>1, <1>2, <1>3, EndedIs DEF CmdFields
<1>4. CASE rest.todo # << >>
  BY <1>1, <1>2, <1>4 DEF CmdFields
<1>5. QED
  BY <1>3, <1>4

\* A command stays the one that was asked for.
LEMMA KindsStay ==
    ASSUME BichonInv
    PROVE  /\ Reconcile \/ ListFolders \/ Update => cmd'.kind = "reconcile"
           /\ Rescan \/ Precondition \/ AskActive \/ Reset \/ Mark \/ Start \/ Report => cmd'.kind = "rescan"
           /\ Verify \/ Search \/ Compare => cmd'.kind = "verify"
<1>0. /\ CmdFields \subseteq DOMAIN cmd /\ "kind" \in CmdFields \ {"phase", "exit"}
      /\ cmd.phase \in {"search", "rows"} => cmd.kind = "verify"
      /\ cmd.phase \in {"list", "update"} => cmd.kind = "reconcile"
      /\ cmd.phase \in {"stale", "busy", "reset", "mark", "start", "wait"} => cmd.kind = "rescan"
  BY DEF BichonInv, Shape, CmdInv, CmdFields
<1>1. \A code : Ended(cmd, code).kind = cmd.kind /\ (Fails(code) => cmd'.kind = cmd.kind)
  BY <1>0, EndedIs DEF Fails
<1>2. /\ Verify => cmd'.kind = "verify"
      /\ Reconcile => cmd'.kind = "reconcile"
      /\ Rescan => cmd'.kind = "rescan"
  BY RefusedIs DEF Verify, Reconcile, Rescan, Connected, NoCommand, Ended
<1>3. ASSUME ListFolders PROVE cmd'.kind = "reconcile"
  <2> DEFINE planned == [cmd EXCEPT !.desired = boxes[Head(cmd.todo)] \ Excluded]
  <2>1. cmd.phase = "list"
        /\ (cmd' = [planned EXCEPT !.phase = "update"] \/ cmd' = NextAccount(planned) \/ Fails(1))
    BY <1>3 DEF ListFolders
  <2>2. CmdFields \subseteq DOMAIN planned /\ planned.kind = cmd.kind
    BY <1>0 DEF CmdFields
  <2> HIDE DEF planned
  <2>3. cmd' = NextAccount(planned) => cmd'.kind = planned.kind
    BY <2>2, NextIs DEF CmdFields
  <2>4. QED
    BY <1>0, <1>1, <2>1, <2>2, <2>3 DEF CmdFields
<1>4. ASSUME Update PROVE cmd'.kind = "reconcile"
  BY <1>0, <1>1, <1>4, NextIs DEF Update, CmdFields
<1>5. ASSUME Precondition \/ AskActive \/ Reset PROVE cmd'.kind = "rescan"
  BY <1>0, <1>1, <1>5 DEF Precondition, AskActive, Reset, CmdFields
<1>6. ASSUME Mark \/ Start \/ Report PROVE cmd'.kind = "rescan"
  BY <1>0, <1>1, <1>6 DEF Mark, Start, Report, CmdFields
<1>7. ASSUME Search \/ Compare PROVE cmd'.kind = "verify"
  BY <1>0, <1>1, <1>7 DEF Search, Compare, CmdFields
<1>8. QED
  BY <1>2, <1>3, <1>4, <1>5, <1>6, <1>7

----------------------------------------------------------------------------
(* Message-IDs that are claimed twice.                                     *)

\* A body has one sidecar.
OneEach == \A x, y \in archive : x.n = y.n => x = y
\* What is in the archive may be told again, but is not another body's.
BodiesStay == \A x \in archive : \E y \in archive' : y.n = x.n /\ y.id = x.id

LEMMA BodiesKept ==
    ASSUME BichonInv, OneEach, [BichonNext]_BichonVars
    PROVE  OneEach' /\ BodiesStay
<1>0. \A x \in archive : {"n", "acct", "id", "keyed"} \subseteq DOMAIN x
  BY DEF BichonInv, Shape, MailInv
<1>1. CASE archive' = archive
  BY <1>1 DEF OneEach, BodiesStay
<1>2. CASE Walk /\ archive' # archive
  <2> DEFINE h == Head(job.todo)
             rekeyed(x) == IF x.acct = h THEN [x EXCEPT !.keyed = TRUE] ELSE x
  <2>1. archive' = {rekeyed(x) : x \in archive}
    BY <1>2 DEF Walk
  <2>2. \A x \in archive : rekeyed(x).n = x.n /\ rekeyed(x).id = x.id
    BY <1>0
  <2> HIDE DEF rekeyed
  <2>3. QED
    BY <2>1, <2>2 DEF OneEach, BodiesStay
<1>3. CASE Fetch /\ archive' # archive
  <2> DEFINE fresh == {m \in Page(InPass(Head(job.todo)), job.page) : ~\E x \in archive : x.n = m.n}
  <2>1. PICK got \in SUBSET fresh : archive' = archive \cup {Sidecar(m) : m \in got}
    <3>1. \/ archive' = archive \cup {Sidecar(m) : m \in fresh}
          \/ \E bad \in fresh : archive' = archive \cup {Sidecar(m) : m \in fresh \ {bad}}
      BY <1>3 DEF Fetch
    <3> HIDE DEF fresh
    <3>2. QED
      BY <3>1
  <2>2. got \subseteq Mail /\ \A m \in got : ~\E x \in archive : x.n = m.n
    BY DEF Page, InPass, BichonInv, Shape, MailInv
  <2>3. \A m : Sidecar(m).n = m.n
    BY DEF Sidecar
  <2> HIDE DEF fresh
  <2>4. ASSUME NEW x \in archive', NEW y \in archive', x.n = y.n PROVE x = y
    <3>1. CASE x \in archive /\ y \in archive
      BY <2>4, <3>1 DEF OneEach
    <3>2. CASE x \in archive /\ y \notin archive
      BY <2>1, <2>2, <2>3, <2>4, <3>2
    <3>3. CASE x \notin archive /\ y \in archive
      BY <2>1, <2>2, <2>3, <2>4, <3>3
    <3>4. CASE x \notin archive /\ y \notin archive
      BY <2>1, <2>2, <2>3, <2>4, <3>4, BichonAssumption
    <3>5. QED
      BY <3>1, <3>2, <3>3, <3>4
  <2>5. QED
    BY <2>1, <2>4 DEF OneEach, BodiesStay
<1>4. archive' = archive \/ Walk \/ Fetch
  <2>1. HostNext => archive' = archive \/ Walk \/ Fetch
    BY DEF HostNext, Arrive, Depart, Refolder, Tick, Settle, Finish, ArchiveVars
  <2>2. CommandNext => archive' = archive
    BY DEF CommandNext, Verify, Search, Compare, Reconcile, ListFolders, Update, Rescan,
           Precondition, AskActive, Reset, Mark, Start, Report, Keep, ArchiveVars
  <2>3. QED
    BY <2>1, <2>2 DEF BichonNext, BichonVars
<1>5. QED
  BY <1>1, <1>2, <1>3, <1>4

\* Two at least of a finite set are two of it.
LEMMA TwoOf ==
    ASSUME NEW S, IsFiniteSet(S), NEW T, IsFiniteSet(T), Cardinality(S) <= Cardinality(T),
           NEW d \in S, NEW e \in S, d # e
    PROVE  \E x, y \in T : x # y
<1>1. IsFiniteSet({d}) /\ Cardinality({d}) = 1
  BY FS_Singleton
<1>2. {d} \cup {e} \in SUBSET S /\ e \notin {d}
  OBVIOUS
<1>3. Cardinality({d} \cup {e}) = 2
  <2>1. Cardinality({d} \cup {e}) = Cardinality({d}) + 1
    BY <1>1, <1>2, FS_AddElement
  <2>2. QED
    BY <1>1, <2>1
<1>4. Cardinality({d} \cup {e}) <= Cardinality(S)
  BY <1>2, FS_Subset
<1>5. Cardinality(S) \in Nat /\ Cardinality(T) \in Nat
  BY FS_CardinalityType
<1>6. Cardinality(T) # 0 /\ Cardinality(T) # 1
  BY <1>3, <1>4, <1>5
<1>7. T # {} /\ ~\E x : T = {x}
  BY <1>6, FS_EmptySet, FS_Singleton
<1>8. QED
  BY <1>7

LEMMA ArchiveIsFinite == ASSUME BichonInv, OneEach PROVE IsFiniteSet(archive)
<1> DEFINE of == [x \in archive |-> CHOOSE m \in Mail : x.n = m.n]
<1>1. \A x \in archive : of[x] \in Mail /\ of[x].n = x.n
  BY DEF BichonInv, Shape, MailInv
<1>2. of \in [archive -> Mail] /\ \A x, y \in archive : of[x] = of[y] => x = y
  BY <1>1 DEF OneEach
<1> HIDE DEF of
<1>3. of \in Injection(archive, Mail)
  BY <1>2 DEF Injection, IsInjective
<1>4. IsFiniteSet(Mail)
  BY BichonAssumption
<1>5. QED
  BY <1>3, <1>4, FS_Injection

\* What was listed is of the pages read, and each page of the store.
ClaimInv ==
    /\ OneEach
    /\ cmd.kind = "verify" => cmd.listed \subseteq (1 .. cmd.page) \X Mail
    /\ ContestedNeedsEveryBody

LEMMA ContestWon ==
    ASSUME BichonInv, ClaimInv, Compare
    PROVE  cmd'.listed = cmd.listed /\ cmd'.page = cmd.page /\ ContestedNeedsEveryBody'
<1>1. cmd.phase = "rows" /\ archive' = archive
  BY DEF Compare, Keep, ArchiveVars
<1>2. PICK a \in Accounts : cmd.picked = {a} /\ a = CHOOSE b \in cmd.picked : TRUE
  BY <1>1 DEF BichonInv, Shape, CmdInv
<1> DEFINE rows == Scope(a)
           code == IF {x \in archive : x.acct \in cmd.picked} = {} \/ \E x \in rows : ~x.keyed THEN 2
                   ELSE IF Covered(rows) THEN 0 ELSE 1
<1>3. cmd' = Ended(cmd, code) \/ cmd' = Ended(cmd, 2)
  BY <1>2 DEF Compare, Fails
<1>4. code = 0 => Covered(rows)
  OBVIOUS
<1> HIDE DEF code
<1>5. /\ cmd'.listed = cmd.listed /\ cmd'.page = cmd.page /\ cmd'.folder = cmd.folder
      /\ cmd'.exit = 0 => Covered(rows)
  BY <1>3, <1>4, CmdSound, EndedIs DEF CmdFields, Sound
<1>6. ASSUME Covered(rows), NEW d \in cmd.listed, NEW e \in cmd.listed, d[2].n # e[2].n,
             d[2].id = e[2].id, d[2].folder = cmd.folder, e[2].folder = cmd.folder
      PROVE  \E x, y \in archive : x.n # y.n /\ x.id = d[2].id /\ y.id = x.id
  <2> DEFINE claims == Claims(d[2].id)  bodies == Bodies(rows, d[2].id)
  <2>1. Cardinality(claims) <= Cardinality(bodies)
    BY <1>6 DEF Covered
  <2>2. d \in claims /\ e \in claims /\ d # e
    BY <1>6 DEF Claims
  <2>3. claims \in SUBSET ((1 .. cmd.page) \X Mail)
    BY <1>1 DEF Claims, ClaimInv, BichonInv, Shape, CmdInv
  <2>4. IsFiniteSet((1 .. cmd.page) \X Mail)
    <3>1. cmd.page \in Int /\ 1 \in Int /\ IsFiniteSet(Mail)
      <4>1. cmd.page \in Nat
        BY CmdSound DEF Sound
      <4>2. QED
        BY <4>1, BichonAssumption
    <3>2. IsFiniteSet(1 .. cmd.page)
      BY <3>1, FS_Interval
    <3>3. QED
      BY <3>1, <3>2, FS_Product
  <2>5. bodies \in SUBSET archive /\ IsFiniteSet(archive)
    BY ArchiveIsFinite DEF Bodies, Scope, ClaimInv
  <2>6. IsFiniteSet(claims) /\ IsFiniteSet(bodies)
    BY <2>3, <2>4, <2>5, FS_Subset
  <2>7. PICK x, y \in bodies : x # y
    <3> HIDE DEF claims, bodies
    <3>1. QED
      BY <2>1, <2>2, <2>6, TwoOf
  <2>8. x.id = d[2].id /\ y.id = d[2].id
    BY DEF Bodies
  <2>9. x.n # y.n
    BY <2>5, <2>7 DEF ClaimInv, OneEach
  <2>10. QED
    BY <2>5, <2>8, <2>9
<1>7. QED
  BY <1>1, <1>5, <1>6 DEF ContestedNeedsEveryBody

LEMMA ClaimSteps == BichonInv /\ ClaimInv /\ [BichonNext]_BichonVars => ClaimInv'
<1> SUFFICES ASSUME BichonInv, ClaimInv, [BichonNext]_BichonVars PROVE ClaimInv'
  OBVIOUS
<1>0. OneEach' /\ BodiesStay
  BY BodiesKept DEF ClaimInv
<1>1. CASE HostNext
  <2>1. HostLeaves
    BY <1>1, HostLeavesIt
  <2>2. ContestedNeedsEveryBody'
    BY <1>0, <2>1, SameSubject DEF ContestedNeedsEveryBody, ClaimInv, BodiesStay
  <2>3. QED
    BY <1>0, <2>1, <2>2, SameSubject DEF ClaimInv
<1>2. CASE Verify
  <2>1. cmd'.listed = {} /\ cmd'.exit # 0
    <3>1. CASE Refused("verify")
      BY <3>1, RefusedIs
    <3>2. CASE ~Refused("verify")
      <4> DEFINE c == Connected("verify")
      <4>1. PICK a, f, day : cmd' = IF f \in synced[a]
                      THEN [c EXCEPT !.phase = "search", !.picked = {a}, !.folder = f, !.before = day]
                      ELSE Ended(c, 2)
        BY <1>2, <3>2 DEF Verify
      <4>2. c.listed = {} /\ c.exit = Waiting /\ CmdFields \subseteq DOMAIN c
        BY ConnectedIs
      <4> HIDE DEF c
      <4>3. cmd' = Ended(c, 2) => cmd'.listed = {} /\ cmd'.exit = 2
        BY <4>2, EndedIs DEF CmdFields
      <4>4. QED
        BY <4>1, <4>2, <4>3 DEF CmdFields, Waiting
    <3>3. QED
      BY <3>1, <3>2
  <2>2. QED
    BY <1>0, <2>1 DEF ClaimInv, ContestedNeedsEveryBody
<1>3. CASE Search
  <2>0. CmdFields \subseteq DOMAIN cmd /\ cmd.page \in Nat \ {0} /\ cmd.exit # 0 /\ cmd.kind = "verify"
        /\ store \subseteq Mail
    BY <1>3 DEF Search, BichonInv, Shape, CmdInv, MailInv
  <2>1. PICK found \in SUBSET store, last \in BOOLEAN :
          LET next == [cmd EXCEPT !.listed = @ \cup ({cmd.page} \X Page(found, cmd.page)), !.page = @ + 1]
          IN  cmd' = (IF last THEN [next EXCEPT !.phase = "rows"] ELSE next) \/ Fails(2)
    BY <1>3 DEF Search, InWindow
  <2>2. cmd.listed \subseteq (1 .. cmd.page) \X Mail
    BY <2>0 DEF ClaimInv
  <2>3. CASE Fails(2)
    BY <1>0, <2>2, <2>3, FailsIs DEF ClaimInv, ContestedNeedsEveryBody, CmdFields
  <2>4. CASE ~Fails(2)
    <3>1. /\ cmd'.listed = cmd.listed \cup ({cmd.page} \X Page(found, cmd.page))
          /\ cmd'.page = cmd.page + 1 /\ cmd'.exit = cmd.exit
      BY <2>0, <2>1, <2>4 DEF CmdFields
    <3>2. {cmd.page} \X Page(found, cmd.page) \subseteq (1 .. cmd.page) \X Mail
      BY <2>0 DEF Page
    <3>3. (1 .. cmd.page) \X Mail \subseteq (1 .. (cmd.page + 1)) \X Mail
      BY <2>0
    <3>4. cmd'.listed \subseteq (1 .. cmd'.page) \X Mail
      BY <2>2, <3>1, <3>2, <3>3
    <3>5. QED
      BY <1>0, <2>0, <3>1, <3>4 DEF ClaimInv, ContestedNeedsEveryBody
  <2>5. QED
    BY <2>3, <2>4
<1>4. CASE Compare
  <2>1. cmd.kind = "verify"
    BY <1>4 DEF Compare, BichonInv, Shape, CmdInv
  <2>2. QED
    BY <1>0, <1>4, <2>1, ContestWon DEF ClaimInv
<1>5. CASE CommandNext /\ ~Verify /\ ~Search /\ ~Compare
  <2>1. cmd'.kind # "verify"
    BY <1>5, KindsStay DEF CommandNext
  <2>2. QED
    BY <1>0, <2>1 DEF ClaimInv, ContestedNeedsEveryBody
<1>6. CASE UNCHANGED BichonVars
  BY <1>6 DEF BichonVars, ClaimInv, OneEach, ContestedNeedsEveryBody
<1>7. QED
  BY <1>1, <1>2, <1>3, <1>4, <1>5, <1>6 DEF BichonNext

\* A Message-ID that two messages claim is covered by two bodies, in whatever
\* order they were imported and archived and however far apart the search listed
\* them (compare_coverage, CoverageReport::status).
THEOREM EveryBodyIsNeeded == BichonSpec => []ContestedNeedsEveryBody
<1>1. BichonInit => ClaimInv
  <2>1. BichonInit => OneEach
    BY BichonAssumption DEF BichonInit, OneEach
  <2>2. BichonInit => cmd.kind = ""
    <3>1. NoCommand.kind = ""
      BY DEF NoCommand
    <3>2. QED
      BY <3>1 DEF BichonInit
  <2>3. QED
    BY <2>1, <2>2 DEF ClaimInv, ContestedNeedsEveryBody
<1>2. ClaimInv => ContestedNeedsEveryBody
  BY DEF ClaimInv
<1>3. QED
  BY BichonInitially, BichonSteps, ClaimSteps, <1>1, <1>2, PTL DEF BichonSpec

----------------------------------------------------------------------------
(* What reconcile-folders leaves behind.                                   *)

ToDo ==
    /\ cmd.todo \in Seq(Accounts) /\ Once(cmd.todo)
    /\ \A i \in DOMAIN cmd.todo : cmd.todo[i] \in cmd.picked
    /\ \A r \in cmd.done : r.acct \in Accounts /\ \A i \in DOMAIN cmd.todo : cmd.todo[i] # r.acct
\* The accounts it was not asked about are as connect listed them, and so are
\* those whose turn is to come; those it has been through are as planned.
Untouched == \A a \in Accounts \ cmd.picked : synced[a] = cmd.known[a]
Ahead == \A i \in DOMAIN cmd.todo : synced[cmd.todo[i]] = cmd.known[cmd.todo[i]]
Applied == cmd.apply => \A r \in cmd.done : synced[r.acct] = r.desired
Followed == Untouched /\ Ahead /\ Applied

FolderInv ==
    /\ synced = [a \in Accounts |-> synced[a]]
    /\ cmd.kind = "reconcile" /\ cmd.phase # "done" =>
         /\ cmd.phase \in {"list", "update"} /\ cmd.todo # << >> /\ ToDo
         /\ cmd.alone => Followed

\* The account whose turn it is is behind the command.
LEMMA TurnPasses ==
    ASSUME FolderInv, cmd.kind = "reconcile", cmd.phase # "done", NEW desired,
           cmd'.todo = Tail(cmd.todo),
           cmd'.done = cmd.done \cup {[acct |-> Head(cmd.todo), desired |-> desired]},
           UNCHANGED <<cmd.picked, cmd.known, cmd.apply>>,
           synced' = synced \/ synced' = [synced EXCEPT ![Head(cmd.todo)] = desired],
           cmd.alone /\ cmd.apply => synced'[Head(cmd.todo)] = desired
    PROVE  ToDo' /\ (cmd.alone => Followed')
<1> DEFINE h == Head(cmd.todo)
<1>1. /\ cmd.todo \in Seq(Accounts) /\ cmd.todo # << >> /\ Once(cmd.todo)
      /\ \A i \in DOMAIN cmd.todo : cmd.todo[i] \in cmd.picked
      /\ \A r \in cmd.done : r.acct \in Accounts /\ \A i \in DOMAIN cmd.todo : cmd.todo[i] # r.acct
      /\ cmd.alone => Followed
  BY DEF FolderInv, ToDo
<1>2. /\ Tail(cmd.todo) \in Seq(Accounts) /\ Once(Tail(cmd.todo))
      /\ h \in Accounts /\ 1 \in DOMAIN cmd.todo /\ h = cmd.todo[1]
  BY <1>1, TailIs
<1>3. \A j \in DOMAIN Tail(cmd.todo) :
          \E i \in DOMAIN cmd.todo : i # 1 /\ cmd.todo[i] = Tail(cmd.todo)[j]
  <2>1. DOMAIN Tail(cmd.todo) = 1 .. (Len(cmd.todo) - 1) /\ DOMAIN cmd.todo = 1 .. Len(cmd.todo)
        /\ Len(cmd.todo) \in Nat /\ \A j \in 1 .. (Len(cmd.todo) - 1) : Tail(cmd.todo)[j] = cmd.todo[j + 1]
    BY <1>1
  <2>2. \A j \in 1 .. (Len(cmd.todo) - 1) : j + 1 \in 1 .. Len(cmd.todo) /\ j + 1 # 1
    BY <2>1
  <2>3. QED
    BY <2>1, <2>2
<1>4. \A i \in DOMAIN cmd.todo : i # 1 => cmd.todo[i] # h
  BY <1>1, TailIs
<1>5. \A b \in Accounts : b # h => synced'[b] = synced[b]
  BY DEF FolderInv
<1> HIDE DEF h
<1>6. \A j \in DOMAIN cmd'.todo : /\ cmd'.todo[j] \in cmd.picked /\ cmd'.todo[j] # h
                                  /\ \E i \in DOMAIN cmd.todo : cmd.todo[i] = cmd'.todo[j]
  BY <1>1, <1>3, <1>4
<1>7. cmd'.done = cmd.done \cup {[acct |-> h, desired |-> desired]}
  BY DEF h
<1>8. ToDo'
  BY <1>1, <1>2, <1>6, <1>7 DEF ToDo
<1>9. ASSUME cmd.alone PROVE Followed'
  <2>1. h \in cmd.picked
    BY <1>1, <1>2
  <2>2. Untouched'
    BY <1>1, <1>5, <1>9, <2>1 DEF Followed, Untouched
  <2>3. Ahead'
    BY <1>1, <1>2, <1>5, <1>6, <1>9 DEF Followed, Ahead
  <2>4. ASSUME cmd.apply, NEW r \in cmd'.done PROVE synced'[r.acct] = r.desired
    <3>1. CASE r = [acct |-> h, desired |-> desired]
      BY <1>9, <2>4, <3>1 DEF h
    <3>2. CASE r \in cmd.done
      <4>1. r.acct \in Accounts /\ r.acct # h
        BY <1>1, <1>2, <3>2
      <4>2. synced[r.acct] = r.desired
        BY <1>1, <1>9, <2>4, <3>2 DEF Followed, Applied
      <4>3. QED
        BY <1>5, <4>1, <4>2
    <3>3. QED
      BY <1>7, <2>4, <3>1, <3>2
  <2>5. Applied'
    BY <2>4 DEF Applied
  <2>6. QED
    BY <2>2, <2>3, <2>5 DEF Followed
<1>10. QED
  BY <1>8, <1>9

\* A step of the command on its list: it fails, or plans an account that differs,
\* or goes on to the next.
LEMMA WalksOn ==
    ASSUME BichonInv, FolderInv, ListFolders \/ Update
    PROVE  /\ CmdFields \subseteq DOMAIN cmd' /\ UNCHANGED <<cmd.picked, cmd.known, cmd.apply>>
           /\ cmd'.alone = cmd.alone /\ cmd.kind = "reconcile" /\ cmd.phase \in {"list", "update"}
           /\ \/ cmd'.phase = "done" /\ cmd'.exit # 0
              \/ UNCHANGED <<cmd.todo, cmd.done, synced>> /\ cmd'.phase = "update"
              \/ /\ cmd'.phase = IF cmd'.todo = << >> THEN "done" ELSE "list"
                 /\ ToDo' /\ (cmd.alone => Followed')
           /\ synced' = synced \/ (cmd.phase = "update" /\ \E new : synced' = [synced EXCEPT ![Head(cmd.todo)] = new])
<1>0. /\ CmdFields \subseteq DOMAIN cmd /\ cmd.kind = "reconcile" /\ cmd.phase \in {"list", "update"}
      /\ cmd.phase # "done"
  BY CmdSound DEF Sound, ListFolders, Update, BichonInv, Shape, CmdInv
<1>1. CASE Fails(1)
  <2>1. synced' = synced \/ (cmd.phase = "update" /\ \E new : synced' = [synced EXCEPT ![Head(cmd.todo)] = new])
    BY DEF ListFolders, Update, Keep, MailVars
  <2>2. /\ CmdFields \subseteq DOMAIN cmd' /\ cmd'.phase = "done" /\ cmd'.exit = 1
        /\ UNCHANGED <<cmd.picked, cmd.known, cmd.apply>>
    BY <1>1, FailsIs DEF CmdFields
  <2>3. cmd'.alone = cmd.alone
    BY <1>1, FailsIs DEF CmdFields
  <2>4. QED
    BY <1>0, <2>1, <2>2, <2>3
<1>2. CASE ListFolders /\ ~Fails(1)
  <2> DEFINE a == Head(cmd.todo)
             plan == boxes[a] \ Excluded
             planned == [cmd EXCEPT !.desired = plan]
  <2>1. /\ synced' = synced
        /\ cmd' = IF Differs(plan, cmd.known[a]) /\ cmd.apply
                  THEN [planned EXCEPT !.phase = "update"] ELSE NextAccount(planned)
    <3>1. planned.desired = plan
      BY <1>0 DEF CmdFields
    <3>2. QED
      BY <1>2, <3>1 DEF ListFolders, Keep, MailVars
  <2>2. /\ CmdFields \subseteq DOMAIN planned /\ planned.desired = plan
        /\ \A f \in CmdFields \ {"desired"} : planned[f] = cmd[f]
    BY <1>0 DEF CmdFields
  <2> HIDE DEF planned, plan
  <2>3. CASE Differs(plan, cmd.known[a]) /\ cmd.apply
    <3>1. cmd' = [planned EXCEPT !.phase = "update"]
      BY <2>1, <2>3
    <3>2. /\ CmdFields \subseteq DOMAIN cmd' /\ cmd'.phase = "update"
          /\ UNCHANGED <<cmd.picked, cmd.known, cmd.apply, cmd.todo, cmd.done>>
      BY <2>2, <3>1 DEF CmdFields
    <3>3. cmd'.alone = cmd.alone
      BY <2>2, <3>1 DEF CmdFields
    <3>4. QED
      BY <1>0, <2>1, <3>2, <3>3
  <2>4. CASE ~(Differs(plan, cmd.known[a]) /\ cmd.apply)
    <3>1. cmd' = NextAccount(planned)
      BY <2>1, <2>4
    <3>7. /\ planned.todo = cmd.todo /\ planned.done = cmd.done
          /\ planned.picked = cmd.picked /\ planned.known = cmd.known
          /\ planned.apply = cmd.apply /\ planned.alone = cmd.alone
      BY <2>2 DEF CmdFields
    <3>2. /\ CmdFields \subseteq DOMAIN cmd' /\ cmd'.todo = Tail(cmd.todo)
          /\ cmd'.done = cmd.done \cup {[acct |-> a, desired |-> plan]}
          /\ cmd'.phase = IF cmd'.todo = << >> THEN "done" ELSE "list"
          /\ UNCHANGED <<cmd.picked, cmd.known, cmd.apply>>
      <4>1. /\ CmdFields \subseteq DOMAIN cmd' /\ cmd'.todo = Tail(planned.todo)
            /\ cmd'.done = planned.done \cup {[acct |-> Head(planned.todo), desired |-> planned.desired]}
            /\ \A f \in CmdFields \ {"phase", "exit", "todo", "done"} : cmd'[f] = planned[f]
            /\ cmd'.phase = IF Tail(planned.todo) = << >> THEN "done" ELSE "list"
        BY <2>2, <3>1, NextIs
      <4>2. /\ cmd'.picked = planned.picked /\ cmd'.known = planned.known
            /\ cmd'.apply = planned.apply
        BY <4>1 DEF CmdFields
      <4>3. QED
        BY <2>2, <3>7, <4>1, <4>2
    <3>3. cmd'.alone = cmd.alone
      <4>1. \A f \in CmdFields \ {"phase", "exit", "todo", "done"} : cmd'[f] = planned[f]
        BY <2>2, <3>1, NextIs
      <4>2. cmd'.alone = planned.alone
        BY <4>1 DEF CmdFields
      <4>3. QED
        BY <3>7, <4>2
    <3>4. ASSUME cmd.alone, cmd.apply PROVE synced'[a] = plan
      <4>1. plan = cmd.known[a]
        BY <2>4, <3>4 DEF Differs
      <4>2. Ahead /\ cmd.todo \in Seq(Accounts) /\ cmd.todo # << >>
        BY <1>0, <3>4 DEF FolderInv, ToDo, Followed
      <4>3. synced[a] = cmd.known[a]
        BY <4>2 DEF Ahead
      <4>4. QED
        BY <2>1, <4>1, <4>3
    <3> HIDE DEF a
    <3>5. ToDo' /\ (cmd.alone => Followed')
      BY <1>0, <2>1, <3>2, <3>4, TurnPasses DEF a
    <3>6. QED
      BY <1>0, <2>1, <3>2, <3>3, <3>5
  <2>5. QED
    BY <2>3, <2>4
<1>3. CASE Update /\ ~Fails(1)
  <2>1. cmd' = NextAccount(cmd) /\ synced' = [synced EXCEPT ![Head(cmd.todo)] = cmd.desired]
        /\ cmd.phase = "update"
    BY <1>3 DEF Update
  <2>2. /\ CmdFields \subseteq DOMAIN cmd' /\ cmd'.todo = Tail(cmd.todo)
        /\ cmd'.done = cmd.done \cup {[acct |-> Head(cmd.todo), desired |-> cmd.desired]}
        /\ cmd'.phase = IF cmd'.todo = << >> THEN "done" ELSE "list"
        /\ UNCHANGED <<cmd.picked, cmd.known, cmd.apply>>
    <3>1. /\ CmdFields \subseteq DOMAIN cmd' /\ cmd'.todo = Tail(cmd.todo)
          /\ cmd'.done = cmd.done \cup {[acct |-> Head(cmd.todo), desired |-> cmd.desired]}
          /\ \A f \in CmdFields \ {"phase", "exit", "todo", "done"} : cmd'[f] = cmd[f]
          /\ cmd'.phase = IF Tail(cmd.todo) = << >> THEN "done" ELSE "list"
      BY <1>0, <2>1, NextIs
    <3>2. cmd'.picked = cmd.picked /\ cmd'.known = cmd.known /\ cmd'.apply = cmd.apply
      BY <3>1 DEF CmdFields
    <3>3. QED
      BY <3>1, <3>2
  <2>3. cmd'.alone = cmd.alone
    <3>1. \A f \in CmdFields \ {"phase", "exit", "todo", "done"} : cmd'[f] = cmd[f]
      BY <1>0, <2>1, NextIs
    <3>2. QED
      BY <3>1 DEF CmdFields
  <2>4. synced'[Head(cmd.todo)] = cmd.desired
    <3>1. Head(cmd.todo) \in Accounts
      BY <1>0, TailIs DEF FolderInv, ToDo
    <3>2. DOMAIN synced = Accounts
      BY DEF FolderInv
    <3>3. QED
      BY <2>1, <3>1, <3>2
  <2>5. ToDo' /\ (cmd.alone => Followed')
    BY <1>0, <2>1, <2>2, <2>4, TurnPasses
  <2>6. QED
    BY <1>0, <2>1, <2>2, <2>3, <2>5
<1>4. QED
  BY <1>1, <1>2, <1>3

LEMMA ReconcileBegins ==
    ASSUME BichonInv, FolderInv, Reconcile
    PROVE  FolderInv'
<1>0. synced' = synced
  BY DEF Reconcile, Keep, MailVars
<1>1. CASE Refused("reconcile")
  <2>1. cmd'.phase = "done" /\ cmd'.alone = TRUE
    BY <1>1 DEF Refused, Ended, NoCommand
  <2>2. QED
    BY <1>0, <2>1 DEF FolderInv
<1>2. CASE ~Refused("reconcile")
  <2> DEFINE c == Connected("reconcile")
  <2>1. PICK chosen \in Filters, apply \in BOOLEAN :
          cmd' = [c EXCEPT !.phase = "list", !.picked = {chosen[i] : i \in DOMAIN chosen},
                           !.apply = apply, !.todo = chosen]
    BY <1>2 DEF Reconcile
  <2>2. CmdFields \subseteq DOMAIN c /\ c.kind = "reconcile" /\ c.known = synced /\ c.done = {}
    BY DEF Connected, NoCommand, CmdFields
  <2>3. c.alone = TRUE
    BY DEF Connected, NoCommand
  <2> HIDE DEF c
  <2>4. /\ cmd'.phase = "list" /\ cmd'.picked = {chosen[i] : i \in DOMAIN chosen}
        /\ cmd'.todo = chosen /\ cmd'.known = synced /\ cmd'.done = {}
    BY <2>1, <2>2 DEF CmdFields
  <2>5. cmd'.alone = TRUE
    BY <2>1, <2>2, <2>3 DEF CmdFields
  <2>6. chosen \in Seq(Accounts) /\ chosen # << >> /\ Once(chosen)
    <3>1. CASE chosen = Roster
      BY <3>1, BichonAssumption DEF Once
    <3>2. CASE chosen # Roster
      <4>1. PICK a \in Accounts : chosen = <<a>>
        BY <3>2 DEF Filters
      <4>2. QED
        BY <4>1 DEF Once
    <3>3. QED
      BY <3>1, <3>2
  <2>7. ToDo'
    BY <2>4, <2>6 DEF ToDo
  <2>8. Followed'
    BY <1>0, <2>4 DEF Followed, Untouched, Ahead, Applied
  <2>9. QED
    BY <1>0, <2>4, <2>5, <2>6, <2>7, <2>8 DEF FolderInv
<1>3. QED
  BY <1>1, <1>2

LEMMA FolderSteps == BichonInv /\ FolderInv /\ [BichonNext]_BichonVars => FolderInv'
<1> SUFFICES ASSUME BichonInv, FolderInv, [BichonNext]_BichonVars PROVE FolderInv'
  OBVIOUS
<1>1. CASE HostNext
  <2>1. HostLeaves
    BY <1>1, HostLeavesIt
  <2>2. CASE Refolder
    <3>1. cmd'.alone = FALSE /\ DOMAIN synced' = DOMAIN synced
          /\ synced' = [a \in Accounts |-> synced'[a]]
      BY <2>2, CmdSound DEF Refolder, Sound, CmdFields, FolderInv
    <3>2. ToDo => ToDo'
      BY <2>1, SameSubject DEF ToDo
    <3>3. QED
      BY <2>1, <3>1, <3>2, SameSubject DEF FolderInv
  <2>3. CASE ~Refolder
    <3>1. synced' = synced
      BY <1>1, <2>3 DEF HostNext, Arrive, Depart, Tick, Walk, Fetch, Settle, Finish, MailVars
    <3>2. cmd'.alone = cmd.alone
      BY <1>1, <2>3, CmdSound DEF HostNext, Arrive, Depart, Tick, Walk, Fetch, Settle, Finish,
                                  Sound, CmdFields
    <3>3. (ToDo => ToDo') /\ (Followed => Followed')
      BY <2>1, <3>1, SameSubject DEF ToDo, Followed, Untouched, Ahead, Applied
    <3>4. QED
      BY <2>1, <3>1, <3>2, <3>3, SameSubject DEF FolderInv
  <2>4. QED
    BY <2>2, <2>3
<1>2. CASE Reconcile
  BY <1>2, ReconcileBegins
<1>3. CASE ListFolders \/ Update
  <2>1. synced' = [a \in Accounts |-> synced'[a]]
    BY <1>3, WalksOn DEF FolderInv
  <2>3. CASE cmd'.phase = "done"
    BY <2>1, <2>3 DEF FolderInv
  <2>4. CASE UNCHANGED <<cmd.todo, cmd.done, synced>> /\ cmd'.phase = "update"
    <3>1. (ToDo => ToDo') /\ (Followed => Followed')
      BY <1>3, <2>4, WalksOn DEF ToDo, Followed, Untouched, Ahead, Applied
    <3>2. cmd.phase # "done" /\ cmd.kind = "reconcile"
      BY <1>3, WalksOn
    <3>3. ToDo' /\ cmd'.todo # << >> /\ (cmd.alone => Followed')
      BY <2>4, <3>1, <3>2 DEF FolderInv
    <3>4. cmd'.alone => cmd.alone
      BY <1>3, WalksOn
    <3>5. QED
      BY <2>1, <2>4, <3>3, <3>4 DEF FolderInv
  <2>5. CASE /\ cmd'.phase = IF cmd'.todo = << >> THEN "done" ELSE "list"
             /\ ToDo' /\ (cmd.alone => Followed')
    <3>1. cmd'.alone => cmd.alone
      BY <1>3, WalksOn
    <3>2. QED
      BY <2>1, <2>5, <3>1 DEF FolderInv
  <2>6. QED
    BY <1>3, <2>3, <2>4, <2>5, WalksOn
<1>4. CASE CommandNext /\ ~Reconcile /\ ~ListFolders /\ ~Update
  <2>1. cmd'.kind # "reconcile" /\ synced' = synced
    BY <1>4, KindsStay DEF CommandNext, Verify, Search, Compare, Rescan, Precondition, AskActive,
                           Reset, Mark, Start, Report, Keep, MailVars
  <2>2. QED
    BY <2>1 DEF FolderInv
<1>5. CASE UNCHANGED BichonVars
  BY <1>5 DEF BichonVars, FolderInv, ToDo, Followed, Untouched, Ahead, Applied
<1>6. QED
  BY <1>1, <1>2, <1>3, <1>4, <1>5 DEF BichonNext

\* A reconcile nobody edited against leaves each account it was through with the
\* folders it planned, and whatever becomes of it no other account is touched: a
\* lost answer, a failed call half way and the dry run included (compute_reconcile,
\* update_account_sync_folders).
THEOREM AppliedIsSynced == BichonSpec => AppliedMeansSynced
<1> DEFINE Kept == (cmd.kind = "reconcile" /\ cmd.phase # "done" /\ cmd'.phase = "done" /\ cmd.alone) =>
               /\ (cmd'.exit = 0 /\ cmd.apply) => \A r \in cmd'.done : synced'[r.acct] = r.desired
               /\ \A a \in Accounts \ cmd.picked : synced'[a] = cmd.known[a]
<1>1. BichonInit => FolderInv
  <2> SUFFICES ASSUME BichonInit PROVE FolderInv
    OBVIOUS
  <2>1. synced = [a \in Accounts |-> synced[a]]
    BY BichonAssumption DEF BichonInit
  <2>2. NoCommand.kind = "" /\ NoCommand.alone = TRUE
    BY DEF NoCommand
  <2>3. QED
    BY <2>1, <2>2 DEF FolderInv, BichonInit
<1>2. ASSUME BichonInv, FolderInv, [BichonNext]_BichonVars PROVE [Kept]_BichonVars
  <2> SUFFICES ASSUME cmd.kind = "reconcile", cmd.phase # "done", cmd'.phase = "done", cmd.alone, BichonNext
               PROVE  /\ (cmd'.exit = 0 /\ cmd.apply) => \A r \in cmd'.done : synced'[r.acct] = r.desired
                      /\ \A a \in Accounts \ cmd.picked : synced'[a] = cmd.known[a]
    BY <1>2
  <2>1. ListFolders \/ Update
    <3>1. cmd.phase \in {"list", "update"}
      BY <1>2 DEF FolderInv
    <3>2. CASE HostNext
      BY <1>2, <3>2, HostLeavesIt, SameSubject
    <3>3. CASE CommandNext
      BY <3>1, <3>3 DEF CommandNext, Verify, Search, Compare, Reconcile, Rescan, Precondition, AskActive,
                        Reset, Mark, Start, Report
    <3>4. QED
      BY <3>2, <3>3 DEF BichonNext
  <2>2. Untouched /\ Head(cmd.todo) \in cmd.picked
    <3>1. cmd.todo \in Seq(Accounts) /\ cmd.todo # << >> /\ Untouched
          /\ \A i \in DOMAIN cmd.todo : cmd.todo[i] \in cmd.picked
      BY <1>2 DEF FolderInv, ToDo, Followed
    <3>2. 1 \in DOMAIN cmd.todo /\ Head(cmd.todo) = cmd.todo[1]
      BY <3>1
    <3>3. QED
      BY <3>1, <3>2
  <2>3. \A a \in Accounts \ cmd.picked : synced'[a] = synced[a]
    <3>1. synced' = synced \/ \E new : synced' = [synced EXCEPT ![Head(cmd.todo)] = new]
      BY <1>2, <2>1, WalksOn
    <3>2. DOMAIN synced = Accounts
      BY <1>2 DEF FolderInv
    <3>3. QED
      BY <2>2, <3>1, <3>2
  <2>4. ASSUME cmd'.exit = 0, cmd.apply PROVE \A r \in cmd'.done : synced'[r.acct] = r.desired
    BY <1>2, <2>1, <2>4, WalksOn DEF Followed, Applied
  <2>5. QED
    BY <2>2, <2>3, <2>4 DEF Untouched
<1>3. QED
  BY BichonInitially, BichonSteps, FolderSteps, <1>1, <1>2, PTL DEF BichonSpec, AppliedMeansSynced
=============================================================================
