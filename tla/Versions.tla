------------------------------ MODULE Versions ------------------------------
(***************************************************************************)
(* `auberge versions` and the gate of a built release (commands/versions,  *)
(* tool_versions): each declared pin is resolved upstream in turn, page by *)
(* page, while upstream goes on releasing; the exit code tells a cron      *)
(* whether anything is behind.                                             *)
(***************************************************************************)
EXTENDS Integers, Sequences, Functions

CONSTANTS
    NumOf,          \* of a segment of a version: its value as a u64, or NoNum
    Rank,           \* of a segment: its place in lexical order
    AppPins,        \* what the Playbook Metas declare: [name, source, dep, value, extract]
    RoleFiles,      \* the possible lines of the roles' defaults: [kind, pin]
    Feeds,          \* the deps' possible first listings, newest published first
    Publishable,    \* the releases upstream may publish, per dep
    PerPage,        \* releases on a page of the listing
    MaxReleases     \* bound on what is published meanwhile

NoNum == -1
Segments == DOMAIN NumOf
Zero == "0"
Deps == DOMAIN Publishable
Datasources == {"npm", "github-releases", "go", "forgejo-releases"}
\* scan_defaults: every annotation is followed by its role's `<role>_<tool>_version`
\* line, whose coordinates parse; one that is not fails the whole report.
Annotated(lines) == {i \in DOMAIN lines : lines[i].kind = "annotation"}
WellFormed(lines) ==
    \A i \in Annotated(lines) : i + 1 \in DOMAIN lines /\ lines[i + 1].kind = "version"
ToolPins(lines) == {lines[i + 1].pin : i \in Annotated(lines)}
\* pin: datasource and depName have to be there, and no other key.
Coordinates(p) == p.source \in Datasources /\ p.dep \in Deps /\ p.value \in Seq(Segments)

AllReleases ==
    (UNION {Range(feed[dep]) : feed \in Feeds, dep \in Deps}) \cup (UNION {Publishable[dep] : dep \in Deps})

ASSUME VersionsAssumption ==
    /\ NumOf \in [Segments -> Nat \cup {NoNum}] /\ Zero \in Segments /\ NumOf[Zero] = 0
    /\ Rank \in [Segments -> Nat] /\ \A s, t \in Segments : Rank[s] = Rank[t] => s = t
    /\ PerPage \in Nat \ {0} /\ MaxReleases \in Nat
    /\ \A p \in AppPins : Coordinates(p)
    /\ Feeds \subseteq [Deps -> Seq(AllReleases)] /\ \A r \in AllReleases : r.version \in Seq(Segments)
    /\ \A lines \in RoleFiles : WellFormed(lines) => \A p \in ToolPins(lines) : Coordinates(p)

VARIABLES
    upstream,   \* of each dep: its releases, the last published first
    asset,      \* of the built release: absent, uploading (empty) or whole
    check       \* the command: [phase, todo, page, seen, report, exit], and what upstream
                \* offered when it began (start)
versionVars == <<upstream, asset, check>>

Release(app, version, stable, flagged) ==   \* flagged: as a draft or a prerelease
    [app |-> app, version |-> version, stable |-> stable, flagged |-> flagged]
NoCheck == [phase |-> "idle", todo |-> {}, page |-> 1, seen |-> << >>, report |-> {}, exit |-> NoNum,
            start |-> << >>]

VersionsInit ==
    /\ upstream \in Feeds /\ asset \in {"absent", "whole"} /\ check = NoCheck

----------------------------------------------------------------------------
(* What a version is, and which of two is the newer.                        *)
IsVersionLike(v) == v # << >> /\ NumOf[v[1]] # NoNum
SegmentOf(v, i) == IF i \in DOMAIN v THEN v[i] ELSE Zero
Numeric(s, t) == NumOf[s] # NoNum /\ NumOf[t] # NoNum
SegmentLess(s, t) == IF Numeric(s, t) THEN NumOf[s] < NumOf[t] ELSE Rank[s] < Rank[t]
Ties(s, t) == ~SegmentLess(s, t) /\ ~SegmentLess(t, s)
Older(v, w) ==
    \E i \in DOMAIN v \cup DOMAIN w :
      /\ SegmentLess(SegmentOf(v, i), SegmentOf(w, i))
      /\ \A k \in 1 .. i - 1 : Ties(SegmentOf(v, k), SegmentOf(w, k))
\* Iterator::max_by keeps the last of equals: the index of the newest release of
\* those at I.
NewestAt(releases, I) ==
    LET best[n \in 0 .. Len(releases)] ==
            IF n = 0 THEN 0
            ELSE IF n \in I /\ (best[n - 1] # 0 => ~Older(releases[n].version, releases[best[n - 1]].version))
                 THEN n ELSE best[n - 1]
    IN  best[Len(releases)]
Newest(releases, I) == releases[NewestAt(releases, I)].version
Drift(declared, latest) ==
    IF ~IsVersionLike(declared) \/ ~IsVersionLike(latest) THEN "unknown"
    ELSE IF Older(declared, latest) THEN "behind" ELSE "current"

\* tag_version: a tag verbatim, or what the pin's extractVersion takes from it.
\* A monorepo's tag taken verbatim is not a version; the registries list the
\* versions of one package.
Yields(r, pin) == pin.source \in {"npm", "go"} \/ r.app = pin.extract
AnyRelease(r, pin) == Yields(r, pin) /\ IsVersionLike(r.version)
Eligible(r, pin) ==
    /\ pin.source \in {"github-releases", "forgejo-releases"} => ~r.flagged
    /\ Yields(r, pin) /\ IsVersionLike(r.version) /\ r.stable
Through(releases, pin) == {i \in DOMAIN releases : Eligible(releases[i], pin)}
LatestOf(releases, pin) == Newest(releases, Through(releases, pin))

----------------------------------------------------------------------------
(* Upstream, and the workflow that builds a release.                        *)
Publish ==
    /\ \E dep \in Deps, r \in UNION {Publishable[d] : d \in Deps} :
         /\ r \in Publishable[dep] \ Range(upstream[dep]) /\ Len(upstream[dep]) < MaxReleases
         /\ upstream' = [upstream EXCEPT ![dep] = <<r>> \o @]
    /\ UNCHANGED <<asset, check>>
Build ==
    /\ asset' = CASE asset = "absent" -> "empty" [] asset = "empty" -> "whole" [] OTHER -> asset
    /\ asset # "whole" /\ UNCHANGED <<upstream, check>>

----------------------------------------------------------------------------
CheckEnded(c, exit) == [c EXCEPT !.phase = "done", !.exit = exit, !.todo = {}, !.seen = << >>, !.page = 1]

\* versions_and_report: the pins of the Apps, then of the tools; without
\* --check-upstream they are the whole report.  What does not parse ends it.
Ask ==
    /\ check.phase = "idle"
    /\ \E lines \in RoleFiles, online \in BOOLEAN :
         check' = IF ~WellFormed(lines) THEN CheckEnded(NoCheck, 2)
                  ELSE IF ~online THEN CheckEnded(NoCheck, 0)
                  ELSE [NoCheck EXCEPT !.phase = "asking", !.start = upstream,
                                       !.todo = AppPins \cup ToolPins(lines)]
    /\ UNCHANGED <<upstream, asset>>

Pin == CHOOSE p \in check.todo : check.todo \cap AppPins # {} => p \in AppPins
Listing == upstream[Pin.dep]
PageOf(k) == SubSeq(Listing, (k - 1) * PerPage + 1,
                    IF k * PerPage < Len(Listing) THEN k * PerPage ELSE Len(Listing))
Resolved(latest) ==
    [check EXCEPT !.report = @ \cup {[pin |-> Pin, latest |-> latest, status |-> Drift(Pin.value, latest)]},
                  !.todo = @ \ {Pin}, !.seen = << >>, !.page = 1]
Some(releases, pin) == Through(releases, pin) # {}

\* github_latest: pages until what was seen yields a version.
GithubLatest ==
    LET seen == check.seen \o PageOf(check.page)
    IN  IF Some(seen, Pin) THEN Resolved(LatestOf(seen, Pin))
        ELSE IF check.page * PerPage < Len(Listing) THEN [check EXCEPT !.seen = seen, !.page = @ + 1]
        ELSE CheckEnded(check, 2)
\* go_latest: the proxy lists every version.  forgejo_latest: the first page only.
ListedLatest(releases) ==
    IF Some(releases, Pin) THEN Resolved(LatestOf(releases, Pin)) ELSE CheckEnded(check, 2)
\* npm_latest: what the registry's dist-tag says, here the newest stable version.
NpmLatest ==
    LET stable == {i \in DOMAIN Listing : Listing[i].stable}
    IN  IF stable = {} THEN CheckEnded(check, 2) ELSE Resolved(Newest(Listing, stable))
\* app_drift_reports, tool_drift_reports: one pin after another; a failure is of all.
Query ==
    /\ check.phase = "asking" /\ check.todo # {}
    /\ \/ check' = CASE Pin.source = "github-releases" -> GithubLatest
                     [] Pin.source = "npm" -> NpmLatest
                     [] Pin.source = "go" -> ListedLatest(Listing)
                     [] OTHER -> ListedLatest(PageOf(1))
       \/ check' = CheckEnded(check, 2)
    /\ UNCHANGED <<upstream, asset>>
\* versions_exit_code.
ExitCode ==
    /\ check.phase = "asking" /\ check.todo = {}
    /\ check' = CheckEnded(check, IF \E line \in check.report : line.status = "behind" THEN 1 ELSE 0)
    /\ UNCHANGED <<upstream, asset>>

\* require_built_release_at: a deploy of the App asks for the asset first.
AssetThere == asset # "absent"
BuiltReleaseExists == asset = "whole"
RequireBuiltRelease ==
    /\ check.phase = "idle"
    /\ \/ check' = [NoCheck EXCEPT !.phase = IF BuiltReleaseExists THEN "deployed" ELSE "refused"]
       \/ check' = [NoCheck EXCEPT !.phase = "refused"]
    /\ UNCHANGED <<upstream, asset>>

VersionsNext == Publish \/ Build \/ Ask \/ Query \/ ExitCode \/ RequireBuiltRelease
VersionsSpec == VersionsInit /\ [][VersionsNext]_versionVars

----------------------------------------------------------------------------
ReallyStable(pin, now) ==
    \E r \in Range(now[pin.dep]) :
        /\ Yields(r, pin) /\ r.stable /\ IsVersionLike(r.version) /\ Older(pin.value, r.version)
        /\ pin.source \in {"github-releases", "forgejo-releases"} => ~r.flagged
\* The exit code of a check tells drift: 1 when some pin was already behind a
\* stable release when the check began (and its listing answered), 0 only when
\* none was; and a line that says "behind" names a stable release that is newer
\* (versions_exit_code, latest_release_version, compare_versions).
ExitTellsDrift ==
    /\ check.phase = "done" /\ check.start # << >> /\ check.exit = 0 =>
         \A pin \in AppPins \cup {line.pin : line \in check.report} :
           IsVersionLike(pin.value) => ~ReallyStable(pin, check.start)
    /\ \A line \in check.report : line.status = "behind" => ReallyStable(line.pin, upstream)

\* compare_versions is the total order its comment says (versions.rs:229), so that
\* the newest of a listing does not depend on the order it was listed in.
NewestWhateverTheOrder ==
    \A dep \in Deps : \A i \in DOMAIN upstream[dep] :
        ~Older(Newest(upstream[dep], DOMAIN upstream[dep]), upstream[dep][i].version)

\* A deploy of an App this repository builds starts only when the asset its role
\* downloads is whole (versions.rs:471, before ansible's get_url).
DeployFindsItsAsset == check.phase = "deployed" => asset = "whole"
=============================================================================
