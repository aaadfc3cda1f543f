------------------------------ MODULE MCPeers ------------------------------
(* The services auberge reconciles over an API or a copy of its own: the     *)
(* mail archive, version pins upstream, the machine user on GitHub, this     *)
(* machine's Syncthing and what `sync` copies.  A behaviour explores one of  *)
(* them; the others rest.                                                    *)
EXTENDS MCBichon, Versions, Github, Syncthing, Sync, TLC

CONSTANTS hut, hive, me, friend, d1, d2, d3, memories, hutPath, docs, mine, yours

VARIABLE part       \* the one this behaviour explores

(* Versions: segments by their value and by their place in lexical order.    *)
NumOfDef == [s \in {"0", "1", "2", "9", "10", "1x", "x"} |->
    CASE s = "0" -> 0 [] s = "1" -> 1 [] s = "2" -> 2 [] s = "9" -> 9 [] s = "10" -> 10 [] OTHER -> -1]
RankDef == [s \in {"0", "1", "2", "9", "10", "1x", "x"} |->
    CASE s = "0" -> 0 [] s = "1" -> 1 [] s = "10" -> 2 [] s = "1x" -> 3 [] s = "2" -> 4 [] s = "9" -> 5 [] OTHER -> 6]
P(name, source, dep, value, extract) ==
    [name |-> name, source |-> source, dep |-> dep, value |-> value, extract |-> extract]
AppPinsDef == {P("dash", "npm", "dash", <<"1", "2">>, ""), P("grim", "github-releases", "mono", <<"2", "9">>, "grim")}
Line(kind, p) == [kind |-> kind, pin |-> p]
Lego == P("lego", "go", "lego", <<"1", "9">>, "")
Forge == P("forge", "forgejo-releases", "forge", <<"9">>, "")
Comment == Line("annotation", Lego)
RoleFilesDef == {<<Comment, Line("version", Lego), Line("other", Lego), Comment, Line("version", Forge)>>,
                 <<Comment, Line("other", Lego)>>, <<Line("other", Lego), Comment>>}
R(app, version) == [app |-> app, version |-> version, stable |-> TRUE, flagged |-> FALSE]
Alpha(app, version) == [R(app, version) EXCEPT !.stable = FALSE]
Draft(app, version) == [R(app, version) EXCEPT !.flagged = TRUE]
\* The monorepo's own releases push grim's off the first page; a backport was
\* published after the newest.
Feed(dash, lego, mono, forge) == [d \in {"dash", "lego", "mono", "forge"} |->
    CASE d = "dash" -> dash [] d = "lego" -> lego [] d = "mono" -> mono [] OTHER -> forge]
FeedsDef ==
    {Feed(<<R("", <<"1", "2">>)>>, <<R("", <<"1", "2">>), R("", <<"1", "10">>)>>,
          <<R("", <<"9">>), R("own", <<"10">>), R("grim", <<"2", "9">>)>>, <<R("", <<"9">>)>>),
     Feed(<<R("", <<"1", "2", "0">>)>>, <<Alpha("", <<"1", "10">>), R("", <<"1", "9">>)>>,
          <<R("grim", <<"2", "9">>), Draft("grim", <<"2", "10">>)>>, <<Draft("", <<"10">>), R("", <<"9">>)>>),
     Feed(<<>>, <<R("", <<"1", "x">>)>>, <<R("own", <<"1">>)>>, <<R("", <<"x">>)>>)}
PublishableDef == Feed({R("", <<"1", "10">>)}, {R("", <<"2">>), Alpha("", <<"2", "1">>)},
                       {R("own", <<"1">>), R("grim", <<"2", "10">>)}, {Draft("", <<"10">>), R("", <<"10">>)})
MixedFeedsDef == {Feed(<<>>, <<R("", <<"9">>), R("", <<"1x">>), R("", <<"10">>)>>, <<>>, <<>>)}

(* GitHub: two repos of the allowlist.                                       *)
ReposDef == <<"one", "two">>
SpelledDef == [r \in {"one", "two"} |-> TRUE]

(* Syncthing: two agent Hosts, a friend the documents are shared with.       *)
PathOfDef == (hut :> hutPath @@ hive :> memories)
WithinDef == {<<p, p>> : p \in {memories, hutPath, docs}} \cup {<<hutPath, memories>>}
Devs == (me :> DeviceFor("laptop", me)) @@ (friend :> DeviceFor("friend", friend))
Peer(devices, memory, others) == [devices |-> devices, memory |-> memory, others |-> others]
FirstConfigsDef ==
    {Peer(Devs, NoFolder, docs :> {friend}), Peer(Devs, NoFolder, memories :> {friend}),
     Peer(Devs @@ (d2 :> DeviceFor(hut, d2)),
          [path |-> hutPath, with |-> {me, d2}, tuned |-> TRUE], << >>),
     Peer(Devs, [path |-> hutPath, with |-> {me, friend}, tuned |-> FALSE], << >>)}

AtRest ==
    /\ part # "mail" => store = {m1, m2, m4, m6}
    /\ part # "pins" => upstream["dash"] = << >> /\ asset = "whole"
    /\ part # "github" => access = [r \in RepoSet |-> "push"] /\ ambient = [gh |-> Owner, token |-> Bot]
    /\ part # "pair" => peer.others = docs :> {friend} /\ hostIs[hut] = d1 /\ hostIs[hive] = d2
    /\ part # "music" => music = << >>
Parts == {"mail", "pins", "github", "pair", "music", "hermes"}
Init ==
    /\ part \in Parts
    /\ BichonInit /\ VersionsInit /\ GithubInit /\ SyncthingInit /\ SyncInit /\ AtRest
Next ==
    \/ part = "mail" /\ BichonNext /\ UNCHANGED <<part, versionVars, githubVars, syncthingVars, syncVars>>
    \/ part = "pins" /\ VersionsNext /\ UNCHANGED <<part, BichonVars, githubVars, syncthingVars, syncVars>>
    \/ part = "github" /\ GithubNext /\ UNCHANGED <<part, BichonVars, versionVars, syncthingVars, syncVars>>
    \/ part = "pair" /\ SyncthingNext /\ UNCHANGED <<part, BichonVars, versionVars, githubVars, syncVars>>
    \/ part = "music" /\ MusicNext /\ UNCHANGED <<part, BichonVars, versionVars, githubVars, syncthingVars>>
    \/ part = "hermes" /\ HermesNext /\ UNCHANGED <<part, BichonVars, versionVars, githubVars, syncthingVars>>
Spec == Init /\ [][Next]_<<part, BichonVars, versionVars, githubVars, syncthingVars, syncVars>>
=============================================================================
