------------------------------- MODULE Github -------------------------------
(***************************************************************************)
(* The fleet's machine user on GitHub (commands/github): `invite`, run as  *)
(* the owner, grants push repo by repo; `verify`, run with the machine     *)
(* user's token, reads who the token is, then the pending invitations, and *)
(* then each repo's permission, while the machine user accepts and the     *)
(* owner revokes in between.                                               *)
(***************************************************************************)
EXTENDS Naturals, Sequences

CONSTANTS
    Repos,          \* github_bot_repos, in order
    Owner, Bot,     \* accounts
    Spelled,        \* of an owner/repo in the config: whether it is GitHub's own spelling
    MaxChanges      \* bound on what people do meanwhile

RepoSet == {Repos[i] : i \in DOMAIN Repos}
Logins == {Owner, Bot}
ASSUME GithubAssumption ==
    /\ Repos \in Seq(RepoSet) /\ Repos # << >> /\ \A i, j \in DOMAIN Repos : Repos[i] = Repos[j] => i = j
    /\ Owner # Bot /\ Spelled \in [RepoSet -> BOOLEAN] /\ MaxChanges \in Nat

VARIABLES
    access,     \* of the machine user to each repo: none, invited or push
    ambient,    \* the account `gh` is logged in as, and the one the token is of
    gh,         \* the command: [op, phase, at, login, pending, states, failed, exit]
    spoiled,    \* the repos the machine user lost or declined since it began
    changes
githubVars == <<access, ambient, gh, spoiled, changes>>

Resting == [op |-> "", phase |-> "idle", at |-> 1, login |-> "", pending |-> {},
            states |-> << >>, failed |-> FALSE, exit |-> 9]
GithubInit ==
    /\ access \in [RepoSet -> {"none", "invited", "push"}]
    /\ ambient \in [gh : Logins, token : Logins]
    /\ gh = Resting /\ spoiled = {} /\ changes = 0

----------------------------------------------------------------------------
(* People, on GitHub's own pages.                                           *)
Person ==
    /\ changes < MaxChanges /\ changes' = changes + 1
    /\ UNCHANGED <<ambient, gh>>
Accept ==
    /\ Person /\ UNCHANGED spoiled
    /\ \E r \in RepoSet : access[r] = "invited" /\ access' = [access EXCEPT ![r] = "push"]
Decline ==      \* by the machine user, or revoked by the owner
    /\ Person
    /\ \E r \in RepoSet :
         /\ access[r] # "none" /\ access' = [access EXCEPT ![r] = "none"]
         /\ spoiled' = spoiled \cup {r}

----------------------------------------------------------------------------
GithubEnded(exit) == [gh EXCEPT !.phase = "done", !.exit = exit]
Step(next) == gh' = next /\ UNCHANGED <<ambient, changes>>

\* run_github_invite, run_github_verify: the handle, the allowlist and for a
\* verify the token have to be set.
Invite ==
    /\ gh.phase \in {"idle", "done"} /\ UNCHANGED <<access, spoiled>>
    /\ \/ Step([Resting EXCEPT !.op = "invite", !.phase = "login"])
       \/ Step([Resting EXCEPT !.op = "invite", !.phase = "done", !.exit = 1])
VerifyBot ==
    /\ gh.phase \in {"idle", "done"} /\ UNCHANGED access
    /\ \/ Step([Resting EXCEPT !.op = "verify", !.phase = "token"]) /\ spoiled' = {}
       \/ Step([Resting EXCEPT !.op = "verify", !.phase = "done", !.exit = 2]) /\ UNCHANGED spoiled

\* active_login, and the refusal to act as the machine user.
ActiveLogin ==
    /\ gh.phase = "login" /\ UNCHANGED <<access, spoiled>>
    /\ \/ Step(IF ambient.gh = Bot THEN GithubEnded(1) ELSE [gh EXCEPT !.phase = "invite"])
       \/ Step(GithubEnded(1))
\* invite_collaborator: a PUT; it leaves a collaborator's access as it is.
InviteCollaborator ==
    /\ gh.phase = "invite" /\ gh.at <= Len(Repos)
    /\ LET r == Repos[gh.at] IN
       \/ /\ access' = [access EXCEPT ![r] = IF @ = "none" THEN "invited" ELSE @]
          /\ spoiled' = spoiled \ {r}
          /\ Step([gh EXCEPT !.at = @ + 1])
       \/ Step(GithubEnded(1)) /\ UNCHANGED <<access, spoiled>>
InviteDone ==
    /\ gh.phase = "invite" /\ gh.at > Len(Repos) /\ Step(GithubEnded(0)) /\ UNCHANGED <<access, spoiled>>

----------------------------------------------------------------------------
\* What the token's account may do, and the invitations it sees, by full name.
Push(r) == ambient.token = Owner \/ access[r] = "push"
Invited == IF ambient.token = Bot THEN {r \in RepoSet : access[r] = "invited" /\ Spelled[r]} ELSE {}

\* token_login: the command ends when the token does not authenticate.
TokenLogin ==
    /\ gh.phase = "token" /\ UNCHANGED <<access, spoiled>>
    /\ \/ Step([gh EXCEPT !.phase = "pending", !.login = ambient.token])
       \/ Step(GithubEnded(2))
\* pending_invitations, read once and before the repos.
PendingInvitations ==
    /\ gh.phase = "pending" /\ UNCHANGED <<access, spoiled>>
    /\ \/ Step([gh EXCEPT !.phase = "repos", !.pending = Invited])
       \/ Step(GithubEnded(2))
\* has_push, RepoState: a call that fails says no push.
HasPush ==
    /\ gh.phase = "repos" /\ gh.at <= Len(Repos) /\ UNCHANGED <<access, spoiled>>
    /\ LET r == Repos[gh.at]
           State(push) == IF push THEN "reachable" ELSE IF r \in gh.pending THEN "pending" ELSE "unreachable"
       IN \/ Step([gh EXCEPT !.states = Append(@, State(Push(r))), !.at = @ + 1])
          \/ Step([gh EXCEPT !.states = Append(@, State(FALSE)), !.at = @ + 1, !.failed = TRUE])
ReadsRepos == TokenLogin \/ PendingInvitations \/ HasPush
\* Not the code: the repos' permissions first, the pending invitations after.
PushFirst ==
    \/ /\ gh.phase = "pending" /\ gh.at <= Len(Repos) /\ UNCHANGED <<access, spoiled>>
       /\ Step([gh EXCEPT !.states = Append(@, IF Push(Repos[gh.at]) THEN "reachable" ELSE "unreachable"),
                          !.at = @ + 1])
    \/ /\ gh.phase = "pending" /\ gh.at > Len(Repos) /\ UNCHANGED <<access, spoiled>>
       /\ Step([gh EXCEPT !.phase = "repos", !.pending = Invited,
                          !.states = [i \in DOMAIN @ |-> IF @[i] # "reachable" /\ Repos[i] \in Invited
                                                         THEN "pending" ELSE @[i]]])
    \/ TokenLogin
\* verify_access, VerifyReport::is_verified.
VerifyAccess == ReadsRepos
AllReachable == \A i \in DOMAIN gh.states : gh.states[i] = "reachable"
IsVerified == gh.login = Bot /\ AllReachable
ReportVerify ==
    /\ gh.phase = "repos" /\ gh.at > Len(Repos) /\ UNCHANGED <<access, spoiled>>
    /\ Step(GithubEnded(IF IsVerified THEN 0 ELSE 1))

GithubNext ==
    \/ Accept \/ Decline \/ Invite \/ VerifyBot \/ ActiveLogin \/ InviteCollaborator \/ InviteDone
    \/ VerifyAccess \/ ReportVerify
GithubSpec == GithubInit /\ [][GithubNext]_githubVars

----------------------------------------------------------------------------
\* A verify whose calls were answered never calls a repo unreachable that the
\* machine user was invited to, or had accepted, for as long as it ran; and it
\* ends verified only when the machine user itself can push to every repo not
\* taken from it meanwhile (github.rs:248).
VerifyTellsTheGrants ==
    gh.op = "verify" /\ gh.phase = "done" /\ gh.exit \in {0, 1} =>
      \A i \in DOMAIN Repos :
        LET kept == access[Repos[i]] # "none" /\ Repos[i] \notin spoiled IN
        /\ kept /\ gh.login = Bot /\ ~gh.failed => gh.states[i] # "unreachable"
        /\ gh.exit = 0 /\ Repos[i] \notin spoiled => access[Repos[i]] = "push"
=============================================================================
