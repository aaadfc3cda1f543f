---------------------------- MODULE BackupProofs ----------------------------
(***************************************************************************)
(* That retention never takes a Host's newest snapshot, and that a Host    *)
(* reported verified stays backed up, for any number of processes, Hosts,  *)
(* Apps and commands and every retention policy that keeps a day.          *)
(***************************************************************************)
EXTENDS BackupPipeline, RestoreSession, FiniteSetTheorems, WellFoundedInduction, TLAPS

\* No snapshot from before push tagged; untagged_evicted shows why.
Tagged == \A s \in Legacy : s.tag = s.host

USE PipelineAssumption DEF PipelineAssumption

----------------------------------------------------------------------------
(* The inductive invariant.                                                *)

\* The snapshots in the order of their ids are in the order of their days, and
\* each carries its Host's tag, if those before the first push do.
Chronicle ==
    /\ IsFiniteSet(pushed) /\ snaps \subseteq pushed
    /\ day \in Nat
    /\ \A s \in pushed : /\ s.id \in 1 .. Cardinality(pushed)
                         /\ s.day \in Nat /\ s.day <= day
                         /\ (Tagged => s.tag = s.host)
    /\ \A s, t \in pushed : /\ s.id = t.id => s = t
                            /\ s.id <= t.id => s.day <= t.day

\* What a verify asked, and that it walks snapshots of the Host it asked about.
WalkOK(p) ==
    /\ at[p] \in {"list", "walk"} => asked[p].day \in Nat
    /\ at[p] = "walk" => walk[p] # {} /\ walk[p] \subseteq Of(asked[p].host, pushed)

BackedUp(p) ==
    Tagged /\ verdict[p].status = "verified" =>
        /\ asked[p].day \in Nat
        /\ \E s \in snaps : s.host = asked[p].host /\ asked[p].day - s.day <= MaxAge

Functional ==
    /\ at = [p \in Procs |-> at[p]] /\ asked = [p \in Procs |-> asked[p]]
    /\ walk = [p \in Procs |-> walk[p]] /\ verdict = [p \in Procs |-> verdict[p]]

Inv == Functional /\ Chronicle /\ \A p \in Procs : WalkOK(p) /\ BackedUp(p)

----------------------------------------------------------------------------
(* The newest of some snapshots, and what retention keeps.                 *)

\* The newest snapshot of a set is one of them and none is newer.
LEMMA NewestIsNewest ==
    ASSUME Chronicle, NEW S \in SUBSET pushed, S # {}
    PROVE  Newest(S) \in S /\ \A t \in S : t.id <= Newest(S).id
<1> DEFINE n == Cardinality(pushed)
           T == {n - s.id : s \in S}
<1>1. n \in Nat
  BY FS_CardinalityType DEF Chronicle
<1>2. T \subseteq Nat /\ T # {}
  BY <1>1 DEF Chronicle
<1>3. \E x \in T : \A y \in T : ~ (<<y, x>> \in OpToRel(<, Nat))
  <2> HIDE DEF T
  <2> QED
    BY <1>2, NatLessThanWellFounded, WFMin
<1>4. PICK x \in T : \A y \in T : ~(y < x)
  BY <1>2, <1>3 DEF OpToRel
<1>5. PICK s \in S : x = n - s.id
  BY <1>4
<1>6. ASSUME NEW t \in S PROVE t.id <= s.id
  <2>1. s.id \in Nat /\ t.id \in Nat
    BY DEF Chronicle
  <2>2. n - t.id \in T
    OBVIOUS
  <2>3. ~(n - t.id < n - s.id)
    BY <1>4, <1>5, <2>2
  <2>4. QED
    BY <1>1, <2>1, <2>3
<1>7. QED
  BY <1>5, <1>6 DEF Newest

\* It is the only such one.
LEMMA NewestIsUnique ==
    ASSUME Chronicle, NEW S \in SUBSET pushed, NEW s \in S, \A t \in S : t.id <= s.id
    PROVE  Newest(S) = s
<1>1. Newest(S) \in S /\ s.id <= Newest(S).id
  BY NewestIsNewest
<1>2. Newest(S).id <= s.id
  BY <1>1
<1>3. Newest(S).id = s.id
  BY <1>1, <1>2, FS_CardinalityType DEF Chronicle
<1>4. QED
  BY <1>1, <1>3 DEF Chronicle

\* Retention keeps the newest snapshot of each group: it is the first of its day.
LEMMA RetentionKeepsNewest ==
    ASSUME Chronicle, NEW s \in snaps,
           \A t \in snaps : t.tag = s.tag => t.id <= s.id
    PROVE  s \in Retained(snaps)
<1> DEFINE G == GroupOf(snaps, s)
           Firsts == {Newest({t \in G : Span(t, 1) = Span(u, 1)}) : u \in G}
<1>1. G \subseteq pushed /\ s \in G /\ \A t \in G : t.id <= s.id
  BY DEF Chronicle, Group, GroupOf
<1>2. Newest({t \in G : Span(t, 1) = Span(s, 1)}) = s
  <2> DEFINE D == {t \in G : Span(t, 1) = Span(s, 1)}
  <2>1. D \in SUBSET pushed /\ s \in D /\ \A t \in D : t.id <= s.id
    BY <1>1
  <2> HIDE DEF D
  <2>2. QED
    BY <2>1, NewestIsUnique DEF D
<1>3. s \in Firsts
  BY <1>1, <1>2
<1>4. \A f \in Firsts : f \in G
  <2> SUFFICES ASSUME NEW u \in G PROVE Newest({t \in G : Span(t, 1) = Span(u, 1)}) \in G
    OBVIOUS
  <2> DEFINE D == {t \in G : Span(t, 1) = Span(u, 1)}
  <2>1. D \in SUBSET pushed /\ D # {} /\ D \subseteq G
    BY <1>1
  <2>2. Newest(D) \in D
    <3> HIDE DEF D
    <3> QED BY <2>1, NewestIsNewest
  <2>3. QED
    BY <2>1, <2>2
<1>5. {t \in Firsts : t.id > s.id} = {}
  <2> SUFFICES ASSUME NEW t \in Firsts, t.id > s.id PROVE FALSE
    OBVIOUS
  <2>1. t \in pushed /\ s \in pushed /\ t.id <= s.id
    BY <1>1, <1>4
  <2>2. QED
    BY <2>1, FS_CardinalityType DEF Chronicle
<1>6. Cardinality({t \in Firsts : t.id > s.id}) < KeepDaily
  <2> HIDE DEF Firsts
  <2> QED BY <1>5, FS_EmptySet
<1>7. s \in Kept(G)
  BY <1>3, <1>6 DEF Kept, KeptBy
<1>8. QED
  BY <1>7 DEF Retained

\* It keeps nothing that was not there.
LEMMA RetentionOnlyRemoves ==
    ASSUME Chronicle
    PROVE  Retained(snaps) \subseteq snaps
<1>1. ASSUME NEW G, G \in SUBSET snaps, NEW s \in Kept(G)
      PROVE  s \in G
  <2> DEFINE Days == {Newest({t \in G : Span(t, 1) = Span(u, 1)}) : u \in G}
             Weeks == {Newest({t \in G : Span(t, WeekDays) = Span(u, WeekDays)}) : u \in G}
  <2>1. ASSUME NEW D, D \in SUBSET G, D # {}
        PROVE  Newest(D) \in G
    BY <1>1, <2>1, NewestIsNewest DEF Chronicle
  <2>2. Days \subseteq G /\ Weeks \subseteq G
    <3> SUFFICES ASSUME NEW u \in G
                 PROVE  /\ Newest({t \in G : Span(t, 1) = Span(u, 1)}) \in G
                        /\ Newest({t \in G : Span(t, WeekDays) = Span(u, WeekDays)}) \in G
      OBVIOUS
    <3>1. {t \in G : Span(t, 1) = Span(u, 1)} \in SUBSET G /\ {t \in G : Span(t, 1) = Span(u, 1)} # {}
      OBVIOUS
    <3>2. {t \in G : Span(t, WeekDays) = Span(u, WeekDays)} \in SUBSET G /\ {t \in G : Span(t, WeekDays) = Span(u, WeekDays)} # {}
      OBVIOUS
    <3>3. QED
      BY <2>1, <3>1, <3>2
  <2>3. s \in Days \cup Weeks \cup G
    BY <1>1 DEF Kept, KeptBy
  <2>4. QED
    BY <2>2, <2>3
<1>2. QED
  BY <1>1 DEF Retained, GroupOf

----------------------------------------------------------------------------
(* The invariant, step by step.                                            *)

LEMMA InvInit == Init => Inv
<1> SUFFICES ASSUME Init PROVE Inv
  OBVIOUS
<1>1. Chronicle
  BY DEF Init, Tagged, Chronicle, Snapshots
<1>2. ASSUME NEW p \in Procs PROVE WalkOK(p) /\ BackedUp(p)
  BY DEF Init, WalkOK, BackedUp, NoVerdict
<1>3. Functional
  BY DEF Init, Functional
<1>4. QED
  BY <1>1, <1>2, <1>3 DEF Inv

\* A step that touches neither the repository nor a verify.
LEMMA AsideKeeps ==
    ASSUME Inv, UNCHANGED <<snaps, pushed, day, verifying>>,
           NEW p \in Procs, NEW place, place \notin {"list", "walk"},
           at' = [at EXCEPT ![p] = place]
    PROVE  Inv'
<1>1. Chronicle'
  BY DEF Inv, Chronicle
<1>2. Functional'
  BY DEF Inv, Functional, verifying
<1>3. ASSUME NEW q \in Procs PROVE WalkOK(q)' /\ BackedUp(q)'
  <2>1. at'[q] \in {"list", "walk"} => at'[q] = at[q]
    BY DEF Inv, Functional
  <2>2. QED
    BY <2>1 DEF Inv, WalkOK, BackedUp, Of, verifying
<1>4. QED
  BY <1>1, <1>2, <1>3 DEF Inv

\* A push adds the newest snapshot of all, with its Host's tag.
LEMMA PushKeeps ==
    ASSUME Inv, NEW p \in Procs, Push(p)
    PROVE  Inv'
<1>1. UNCHANGED <<day, verifying>> /\ \E place \in {"idle", "prune"} : at' = [at EXCEPT ![p] = place]
  BY DEF Push, Goto, Leave
<1>2. CASE UNCHANGED <<snaps, pushed>>
  BY <1>1, <1>2, AsideKeeps
<1>3. CASE snaps' = snaps \cup {Snapshot(p)} /\ pushed' = pushed \cup {Snapshot(p)}
  <2> DEFINE new == Snapshot(p)
  <2>1. /\ new.id = Cardinality(pushed) + 1 /\ new.day = day /\ new.tag = new.host
    BY DEF Snapshot
  <2>2. Cardinality(pushed) \in Nat
    BY FS_CardinalityType DEF Inv, Chronicle
  <2>3. new \notin pushed
    BY <2>1, <2>2 DEF Inv, Chronicle
  <2> HIDE DEF new
  <2>4. IsFiniteSet(pushed') /\ Cardinality(pushed') = Cardinality(pushed) + 1
    BY <1>3, <2>3, FS_AddElement DEF Inv, Chronicle, new
  <2>5. Chronicle'
    <3>1. \A s \in pushed : s.id \in 1 .. Cardinality(pushed) /\ s.id < new.id /\ s.day <= new.day
      BY <2>1, <2>2 DEF Inv, Chronicle
    <3>2. new.id \in 1 .. Cardinality(pushed') /\ new.day = day' /\ day' \in Nat
      BY <1>1, <2>1, <2>2, <2>4 DEF Inv, Chronicle
    <3>3. pushed' = pushed \cup {new} /\ snaps' = snaps \cup {new}
      BY <1>3 DEF new
    <3>4. \A s \in pushed' : /\ s.id \in 1 .. Cardinality(pushed')
                             /\ s.day \in Nat /\ s.day <= day' /\ (Tagged => s.tag = s.host)
      BY <1>1, <2>1, <2>2, <2>4, <3>1, <3>2, <3>3 DEF Inv, Chronicle
    <3>5. \A s, t \in pushed' : (s.id = t.id => s = t) /\ (s.id <= t.id => s.day <= t.day)
      BY <2>1, <2>2, <3>1, <3>2, <3>3 DEF Inv, Chronicle
    <3>6. QED
      BY <2>4, <3>2, <3>3, <3>4, <3>5 DEF Inv, Chronicle
  <2>6. ASSUME NEW q \in Procs PROVE WalkOK(q)' /\ BackedUp(q)'
    <3>1. at'[q] \in {"list", "walk"} => at'[q] = at[q]
      BY <1>1 DEF Inv, Functional
    <3>2. QED
      BY <1>1, <1>3, <3>1 DEF Inv, WalkOK, BackedUp, Of, verifying
  <2>7. Functional'
    BY <1>1 DEF Inv, Functional, verifying
  <2>8. QED
    BY <2>5, <2>6, <2>7 DEF Inv
<1>4. QED
  BY <1>2, <1>3 DEF Push

\* A prune keeps each Host's newest snapshot: a Host's snapshots are one group.
LEMMA RetentionKeepsHosts ==
    ASSUME Inv, Tagged, NEW h, Of(h, snaps) # {}
    PROVE  /\ Newest(Of(h, snaps)) \in Retained(snaps)
           /\ Newest(Of(h, snaps)).host = h
           /\ \A s \in Of(h, snaps) : s.day <= Newest(Of(h, snaps)).day
<1> DEFINE n == Newest(Of(h, snaps))
<1>1. Of(h, snaps) \in SUBSET pushed
  BY DEF Inv, Chronicle, Of
<1>2. n \in Of(h, snaps) /\ \A t \in Of(h, snaps) : t.id <= n.id
  BY <1>1, NewestIsNewest DEF Inv
<1> HIDE DEF n
<1>3. n \in snaps /\ n.host = h
  BY <1>2 DEF Of
<1>4. \A t \in snaps : t.tag = n.tag => t.id <= n.id
  BY <1>2, <1>3 DEF Of, Inv, Chronicle
<1>5. n \in Retained(snaps)
  BY <1>3, <1>4, RetentionKeepsNewest DEF Inv
<1>6. \A s \in Of(h, snaps) : s.day <= n.day
  BY <1>1, <1>2 DEF Inv, Chronicle
<1>7. QED
  BY <1>3, <1>5, <1>6 DEF n

LEMMA PruneKeeps ==
    ASSUME Inv, NEW p \in Procs, Prune(p)
    PROVE  Inv'
<1>1. /\ UNCHANGED <<pushed, day, verifying>>
      /\ \E place \in {"idle", "cleanup"} : at' = [at EXCEPT ![p] = place]
  BY DEF Prune, Goto, Leave
<1>2. CASE UNCHANGED snaps
  BY <1>1, <1>2, AsideKeeps
<1>3. CASE snaps' = Retained(snaps)
  <2>1. Chronicle'
    BY <1>1, <1>3, RetentionOnlyRemoves DEF Inv, Chronicle
  <2>2. ASSUME NEW q \in Procs PROVE WalkOK(q)'
    <3>1. at'[q] \in {"list", "walk"} => at'[q] = at[q]
      BY <1>1 DEF Inv, Functional
    <3>2. QED
      BY <1>1, <3>1 DEF Inv, WalkOK, Of, verifying
  <2>3. ASSUME Tagged, NEW q \in Procs, verdict[q].status = "verified"
        PROVE  \E s \in snaps' : s.host = asked[q].host /\ asked[q].day - s.day <= MaxAge
    <3> DEFINE h == asked[q].host
               n == Newest(Of(h, snaps))
    <3>1. PICK w \in snaps : w.host = h /\ asked[q].day - w.day <= MaxAge
      BY <2>3 DEF Inv, BackedUp
    <3>2. n \in snaps' /\ n.host = h /\ w.day <= n.day
      BY <1>3, <2>3, <3>1, RetentionKeepsHosts DEF Of
    <3> HIDE DEF n
    <3>3. asked[q].day \in Nat /\ w.day \in Nat /\ n.day \in Nat
      BY <1>3, <2>3, <3>1, <3>2, RetentionOnlyRemoves DEF Inv, BackedUp, Chronicle
    <3>4. QED
      BY <3>1, <3>2, <3>3
  <2>4. \A q \in Procs : BackedUp(q)'
    BY <1>1, <2>3 DEF Inv, BackedUp, verifying
  <2>5. Functional'
    BY <1>1 DEF Inv, Functional, verifying
  <2>6. QED
    BY <2>1, <2>2, <2>4, <2>5 DEF Inv
<1>4. QED
  BY <1>2, <1>3 DEF Prune

\* The steps of a verify leave the repository alone, and the other verifies.
VerifyStep(p) ==
    /\ UNCHANGED <<snaps, pushed, day>> /\ Functional'
    /\ \A q \in Procs \ {p} :
         /\ at'[q] = at[q] /\ asked'[q] = asked[q]
         /\ walk'[q] = walk[q] /\ verdict'[q] = verdict[q]

LEMMA VerifyStepKeeps ==
    ASSUME Inv, NEW p \in Procs, VerifyStep(p), WalkOK(p)', BackedUp(p)'
    PROVE  Inv'
<1>1. ASSUME NEW q \in Procs, q # p PROVE WalkOK(q)' /\ BackedUp(q)'
  BY <1>1 DEF Inv, VerifyStep, WalkOK, BackedUp, Of
<1>2. Chronicle'
  BY DEF Inv, Chronicle, VerifyStep
<1>3. QED
  BY <1>1, <1>2 DEF Inv, VerifyStep

LEMMA BeginVerifyKeeps ==
    ASSUME Inv, NEW p \in Procs, BeginVerify(p)
    PROVE  Inv'
<1>1. VerifyStep(p)
  BY DEF BeginVerify, Begin, Goto, VerifyStep, Inv, Functional, repository
<1>2. at'[p] = "list" /\ verdict'[p] = NoVerdict /\ asked'[p].day = day /\ day \in Nat
  BY DEF BeginVerify, Begin, Goto, Inv, Functional, Chronicle
<1>3. WalkOK(p)' /\ BackedUp(p)'
  BY <1>2 DEF WalkOK, BackedUp, NoVerdict
<1>4. QED
  BY <1>1, <1>3, VerifyStepKeeps

\* The verdict is about a snapshot the repository has.
LEMMA JudgeIsBacked ==
    ASSUME Inv, NEW p \in Procs, NEW s \in snaps, s.host = asked[p].host,
           asked[p].day \in Nat, UNCHANGED <<snaps, asked>>, Judge(p, s)
    PROVE  BackedUp(p)'
<1>1. verdict'[p].status = "verified" => ~(asked[p].day - s.day > MaxAge)
  BY DEF Judge, Report, Inv, Functional
<1>2. s.day \in Nat /\ MaxAge \in Nat
  BY DEF Inv, Chronicle
<1>3. QED
  BY <1>1, <1>2 DEF BackedUp

LEMMA ListKeeps ==
    ASSUME Inv, NEW p \in Procs, List(p)
    PROVE  Inv'
<1> DEFINE candidates == Of(asked[p].host, snaps)
<1>1. VerifyStep(p)
  BY DEF List, Report, Judge, Leave, Goto, VerifyStep, Inv, Functional, repository
<1>2. asked[p].day \in Nat /\ UNCHANGED <<snaps, pushed, asked>>
  BY DEF List, Inv, WalkOK, repository
<1>3. CASE candidates # {} /\ Judge(p, Newest(candidates))
  <2>1. candidates \in SUBSET pushed
    BY DEF Of, Inv, Chronicle
  <2>2. Newest(candidates) \in candidates
    BY <1>3, <2>1, NewestIsNewest DEF Inv
  <2>3. BackedUp(p)'
    BY <1>2, <1>3, <2>2, JudgeIsBacked DEF Of
  <2>4. at'[p] = "idle"
    BY <1>3 DEF Judge, Report, Leave, Goto, Inv, Functional
  <2>5. QED
    BY <1>1, <2>3, <2>4, VerifyStepKeeps DEF WalkOK
<1>4. CASE candidates # {} /\ walk' = [walk EXCEPT ![p] = candidates]
           /\ Goto(p, "walk") /\ UNCHANGED verdict
  <2>1. WalkOK(p)'
    BY <1>2, <1>4 DEF WalkOK, Goto, Of, Inv, Functional, Chronicle
  <2>2. BackedUp(p)'
    BY <1>2, <1>4 DEF BackedUp, Inv
  <2>3. QED
    BY <1>1, <2>1, <2>2, VerifyStepKeeps
<1>5. CASE \E status \in {"nothing", "operational"} : Report(p, status, None)
  <2>1. at'[p] = "idle" /\ verdict'[p].status # "verified"
    BY <1>5 DEF Report, Leave, Goto, Inv, Functional
  <2>2. QED
    BY <1>1, <2>1, VerifyStepKeeps DEF WalkOK, BackedUp
<1>6. QED
  BY <1>3, <1>4, <1>5 DEF List

LEMMA LookIntoKeeps ==
    ASSUME Inv, NEW p \in Procs, LookInto(p)
    PROVE  Inv'
<1> DEFINE s == Newest(walk[p])
           newest == Newest(Of(asked[p].host, listed[p]))
<1>1. VerifyStep(p)
  BY DEF LookInto, Report, Judge, Leave, Goto, VerifyStep, Inv, Functional, repository
<1>2. /\ asked[p].day \in Nat /\ UNCHANGED <<snaps, pushed, asked>>
      /\ walk[p] # {} /\ walk[p] \subseteq Of(asked[p].host, pushed)
  BY DEF LookInto, Inv, WalkOK, repository
<1>3. s \in walk[p]
  <2>1. walk[p] \in SUBSET pushed
    BY <1>2 DEF Of
  <2>2. QED
    BY <1>2, <2>1, NewestIsNewest DEF Inv
<1>4. CASE s \in snaps /\ Judge(p, s)
  <2>1. BackedUp(p)'
    BY <1>2, <1>3, <1>4, JudgeIsBacked DEF Of
  <2>2. at'[p] = "idle"
    BY <1>4 DEF Judge, Report, Leave, Goto, Inv, Functional
  <2>3. QED
    BY <1>1, <2>1, <2>2, VerifyStepKeeps DEF WalkOK
<1>5. CASE \E status \in {"missing", "operational"} : Report(p, status, newest)
  <2>1. at'[p] = "idle" /\ verdict'[p].status # "verified"
    BY <1>5 DEF Report, Leave, Goto, Inv, Functional
  <2>2. QED
    BY <1>1, <2>1, VerifyStepKeeps DEF WalkOK, BackedUp
<1>6. CASE walk' = [walk EXCEPT ![p] = walk[p] \ {s}] /\ walk[p] \ {s} # {}
           /\ UNCHANGED <<at, verdict>>
  <2>1. WalkOK(p)'
    BY <1>2, <1>6 DEF WalkOK, Of, Inv, Functional
  <2>2. BackedUp(p)'
    BY <1>2, <1>6 DEF BackedUp, Inv
  <2>3. QED
    BY <1>1, <2>1, <2>2, VerifyStepKeeps
<1>7. QED
  BY <1>4, <1>5, <1>6 DEF LookInto

LEMMA NextDayKeeps ==
    ASSUME Inv, NextDay
    PROVE  Inv'
<1>1. Chronicle'
  BY DEF NextDay, repository, Inv, Chronicle
<1>2. QED
  BY <1>1 DEF NextDay, repository, verifying, Inv, Functional, WalkOK, BackedUp, Of

\* The steps that only stage, push or clean up.
AsideStep(p) ==
    \/ Create(p) \/ BeginPush(p) \/ Probe(p) \/ InitRepo(p)
    \/ BeginPrune(p) \/ Cleanup(p) \/ Remove(p) \/ Kill(p)

LEMMA AsideStepKeeps ==
    ASSUME Inv, NEW p \in Procs, AsideStep(p)
    PROVE  Inv'
<1>1. UNCHANGED <<snaps, pushed, day, verifying>>
  BY DEF AsideStep, Create, BeginCreate, Reach, OpenApp, CopyApp, AppFails, Created,
         BeginPush, Probe, InitRepo, BeginPrune, Cleanup, Remove, Kill, repository
<1>2. \E place \in Places \ {"list", "walk"} : at' = [at EXCEPT ![p] = place]
  <2> USE DEF Goto, Leave, Places
  <2>1. CASE BeginCreate(p) \/ Reach(p) \/ OpenApp(p)
    BY <2>1 DEF BeginCreate, Reach, OpenApp
  <2>2. CASE CopyApp(p) \/ AppFails(p) \/ Created(p)
    BY <2>2 DEF CopyApp, AppFails, Created
  <2>3. CASE BeginPush(p) \/ Probe(p) \/ InitRepo(p)
    BY <2>3 DEF BeginPush, Probe, InitRepo
  <2>4. CASE BeginPrune(p) \/ Cleanup(p) \/ Remove(p) \/ Kill(p)
    BY <2>4 DEF BeginPrune, Cleanup, Remove, Kill
  <2>5. QED
    BY <2>1, <2>2, <2>3, <2>4 DEF AsideStep, Create
<1>3. QED
  BY <1>1, <1>2, AsideKeeps

LEMMA InvNext == Inv /\ [Next]_vars => Inv'
<1> SUFFICES ASSUME Inv, [Next]_vars PROVE Inv'
  OBVIOUS
<1>1. CASE UNCHANGED vars
  BY <1>1 DEF vars, repository, verifying, Inv, Functional, Chronicle, WalkOK, BackedUp, Of
<1>2. CASE NextDay
  BY <1>2, NextDayKeeps
<1>3. ASSUME NEW p \in Procs, Create(p) \/ Offsite(p) \/ Retire(p) \/ Verify(p) \/ Kill(p)
      PROVE  Inv'
  <2>1. CASE AsideStep(p)
    BY <2>1, AsideStepKeeps
  <2>2. CASE Push(p)
    BY <2>2, PushKeeps
  <2>3. CASE Prune(p)
    BY <2>3, PruneKeeps
  <2>4. CASE Verify(p)
    BY <2>4, BeginVerifyKeeps, ListKeeps, LookIntoKeeps DEF Verify
  <2>5. QED
    BY <1>3, <2>1, <2>2, <2>3, <2>4 DEF AsideStep, Offsite, Retire
<1>4. QED
  BY <1>1, <1>2, <1>3 DEF Next

LEMMA Invariant == Spec => []Inv
  BY InvInit, InvNext, PTL DEF Spec

----------------------------------------------------------------------------
(* The theorems.                                                           *)

\* However many commands share a repository of tagged snapshots, none of them
\* ever takes a Host's newest one (forget_args, run_backup_prune).
THEOREM NewestIsKept ==
    ASSUME Tagged
    PROVE  Spec => HostsKeepNewest
<1>1. ASSUME Inv, [Next]_vars, NEW h \in Hosts, Of(h, snaps) # {}
      PROVE  Newest(Of(h, snaps)) \in snaps'
  <2>1. Newest(Of(h, snaps)) \in Retained(snaps) /\ Newest(Of(h, snaps)) \in snaps
    <3>1. Of(h, snaps) \in SUBSET pushed
      BY <1>1 DEF Of, Inv, Chronicle
    <3>2. Newest(Of(h, snaps)) \in Of(h, snaps)
      BY <1>1, <3>1, NewestIsNewest DEF Inv
    <3>3. QED
      BY <1>1, <3>2, RetentionKeepsHosts DEF Of
  <2>2. snaps \subseteq snaps' \/ snaps' = Retained(snaps)
    <3>1. CASE UNCHANGED vars \/ NextDay
      BY <3>1 DEF vars, repository, NextDay
    <3>2. ASSUME NEW p \in Procs, Create(p) \/ Offsite(p) \/ Retire(p) \/ Verify(p) \/ Kill(p)
          PROVE  snaps \subseteq snaps' \/ snaps' = Retained(snaps)
      <4>1. CASE Create(p) \/ Kill(p)
        BY <4>1 DEF Create, BeginCreate, Reach, OpenApp, CopyApp, AppFails, Created, Kill, repository
      <4>2. CASE Offsite(p)
        BY <4>2 DEF Offsite, BeginPush, Probe, InitRepo, Push, repository
      <4>3. CASE Retire(p)
        BY <4>3 DEF Retire, BeginPrune, Prune, Cleanup, Remove, repository
      <4>4. CASE Verify(p)
        BY <4>4 DEF Verify, BeginVerify, List, LookInto, repository
      <4>5. QED
        BY <3>2, <4>1, <4>2, <4>3, <4>4
    <3>3. QED
      BY <1>1, <3>1, <3>2 DEF Next
  <2>3. QED
    BY <2>1, <2>2
<1>2. Inv /\ [Next]_vars =>
        [\A h \in Hosts : Of(h, snaps) # {} => Newest(Of(h, snaps)) \in snaps']_vars
  BY <1>1
<1>3. QED
  BY Invariant, <1>2, PTL DEF Spec, HostsKeepNewest

\* A verified Host stays backed up that freshly, whatever is pruned meanwhile
\* and afterwards (verify.rs `verdict`).
THEOREM VerifiedIsBacked ==
    ASSUME Tagged
    PROVE  Spec => []VerifiedStaysBacked
<1>1. Inv => VerifiedStaysBacked
  BY DEF Inv, BackedUp, VerifiedStaysBacked
<1>2. QED
  BY Invariant, <1>1, PTL

----------------------------------------------------------------------------
(* A verdict is the one its listing gives, whatever is pushed and forgotten *)
(* while the walk goes on.                                                 *)

Candidates(p) == Of(asked[p].host, listed[p])
Holding(p) == {s \in Candidates(p) : asked[p].app = None \/ Holds(s, asked[p].app)}

\* What the property says of one verdict.
Answers(p) ==
    verdict[p].status \in {"verified", "stale", "missing", "nothing"} =>
        IF Holding(p) = {}
        THEN verdict[p].status = IF Candidates(p) = {} THEN "nothing" ELSE "missing"
        ELSE /\ verdict[p].snap = Newest(Holding(p))
             /\ verdict[p].status = IF asked[p].day - Newest(Holding(p)).day > MaxAge
                                    THEN "stale" ELSE "verified"

\* A walk has passed over none that holds the App, and has said nothing yet.
Walks(p) ==
    /\ at[p] = "walk" =>
           /\ verdict[p].status = "none" /\ asked[p].app # None
           /\ walk[p] \subseteq Candidates(p) /\ Holding(p) \subseteq walk[p]
    /\ at[p] = "list" => verdict[p].status = "none"
    /\ listed[p] \subseteq pushed

ListingInv ==
    /\ listed = [p \in Procs |-> listed[p]]
    /\ \A p \in Procs : Answers(p) /\ Walks(p)

\* A step of p's verify leaves the others alone.
LEMMA ListingStep ==
    ASSUME ListingInv, NEW p \in Procs, UNCHANGED pushed, listed' = [q \in Procs |-> listed'[q]],
           \A q \in Procs \ {p} : /\ at'[q] = at[q] /\ asked'[q] = asked[q] /\ listed'[q] = listed[q]
                                  /\ walk'[q] = walk[q] /\ verdict'[q] = verdict[q],
           Answers(p)', Walks(p)'
    PROVE  ListingInv'
<1>1. ASSUME NEW q \in Procs \ {p} PROVE Answers(q)' /\ Walks(q)'
  <2>1. Answers(q) /\ Walks(q)
    BY DEF ListingInv
  <2>2. /\ at'[q] = at[q] /\ asked'[q] = asked[q] /\ listed'[q] = listed[q]
        /\ walk'[q] = walk[q] /\ verdict'[q] = verdict[q]
    OBVIOUS
  <2>3. Candidates(q)' = Candidates(q)
    BY <2>2 DEF Candidates, Of
  <2>4. Holding(q)' = Holding(q)
    BY <2>2, <2>3 DEF Holding, Holds
  <2>5. QED
    BY <2>1, <2>2, <2>3, <2>4 DEF Answers, Walks
<1>2. QED
  BY <1>1 DEF ListingInv

LEMMA ListAnswers ==
    ASSUME Inv, ListingInv, NEW p \in Procs, List(p)
    PROVE  ListingInv'
<1> DEFINE candidates == Of(asked[p].host, snaps)
<1>1. UNCHANGED <<snaps, pushed, day, asked>>
  BY DEF List, repository
<1>2. \A q \in Procs \ {p} : /\ at'[q] = at[q] /\ asked'[q] = asked[q] /\ listed'[q] = listed[q]
                             /\ walk'[q] = walk[q] /\ verdict'[q] = verdict[q]
  BY DEF List, Report, Judge, Leave, Goto, Inv, Functional, ListingInv
<1>3. listed' = [q \in Procs |-> listed'[q]]
  BY DEF List, ListingInv
<1>4. CASE listed' = [listed EXCEPT ![p] = snaps] /\ candidates = {} /\ Report(p, "nothing", None)
  <2>1. listed'[p] = snaps /\ at'[p] = "idle" /\ verdict'[p].status = "nothing"
    BY <1>4 DEF Report, Leave, Goto, Inv, Functional, ListingInv
  <2>2. Candidates(p)' = {} /\ Holding(p)' = {}
    BY <1>1, <1>4, <2>1 DEF Candidates, Holding, Of
  <2>3. Answers(p)' /\ Walks(p)'
    BY <1>1, <2>1, <2>2 DEF Answers, Walks, Inv, Chronicle
  <2>4. QED
    BY <1>1, <1>2, <1>3, <2>3, ListingStep
<1>5. CASE /\ listed' = [listed EXCEPT ![p] = snaps] /\ candidates # {} /\ asked[p].app = None
           /\ Judge(p, Newest(candidates))
  <2>1. /\ listed'[p] = snaps /\ at'[p] = "idle" /\ verdict'[p].snap = Newest(candidates)
        /\ verdict'[p].status = IF asked[p].day - Newest(candidates).day > MaxAge THEN "stale" ELSE "verified"
    BY <1>5 DEF Judge, Report, Leave, Goto, Inv, Functional, ListingInv
  <2>2. Holding(p)' = candidates
    BY <1>1, <1>5, <2>1 DEF Candidates, Holding, Of
  <2>3. Answers(p)' /\ Walks(p)'
    <3> HIDE DEF candidates
    <3> QED BY <1>1, <1>5, <2>1, <2>2 DEF Answers, Walks, Inv, Chronicle
  <2>4. QED
    BY <1>1, <1>2, <1>3, <2>3, ListingStep
<1>6. CASE /\ at[p] = "list" /\ listed' = [listed EXCEPT ![p] = snaps] /\ candidates # {} /\ asked[p].app # None
           /\ walk' = [walk EXCEPT ![p] = candidates] /\ Goto(p, "walk") /\ UNCHANGED verdict
  <2>1. listed'[p] = snaps /\ walk'[p] = candidates
    BY <1>6 DEF Inv, Functional, ListingInv
  <2>2. Candidates(p)' = candidates /\ Holding(p)' \subseteq candidates
    BY <1>1, <2>1 DEF Candidates, Holding, Of
  <2>3. verdict'[p].status = "none"
    BY <1>6 DEF ListingInv, Walks
  <2>4. Answers(p)' /\ Walks(p)'
    <3> HIDE DEF candidates
    <3> QED BY <1>1, <1>6, <2>1, <2>2, <2>3 DEF Answers, Walks, Inv, Chronicle
  <2>5. QED
    BY <1>1, <1>2, <1>3, <2>4, ListingStep
<1>7. CASE Report(p, "operational", None) /\ UNCHANGED <<listed, walk>>
  <2>1. at'[p] = "idle" /\ verdict'[p].status = "operational" /\ listed'[p] \subseteq pushed
    BY <1>7 DEF Report, Leave, Goto, Inv, Functional, ListingInv, Walks
  <2>2. Answers(p)' /\ Walks(p)'
    BY <1>1, <2>1 DEF Answers, Walks
  <2>3. QED
    BY <1>1, <1>2, <1>3, <2>2, ListingStep
<1>8. QED
  BY <1>4, <1>5, <1>6, <1>7 DEF List

LEMMA LookIntoAnswers ==
    ASSUME Inv, ListingInv, NEW p \in Procs, LookInto(p)
    PROVE  ListingInv'
<1> DEFINE s == Newest(walk[p])
           newest == Newest(Of(asked[p].host, listed[p]))
<1>1. UNCHANGED <<snaps, pushed, day, asked, listed>> /\ at[p] = "walk"
  BY DEF LookInto, repository
<1>2. \A q \in Procs \ {p} : /\ at'[q] = at[q] /\ asked'[q] = asked[q] /\ listed'[q] = listed[q]
                             /\ walk'[q] = walk[q] /\ verdict'[q] = verdict[q]
  BY DEF LookInto, Report, Judge, Leave, Goto, Inv, Functional
<1>3. listed' = [q \in Procs |-> listed'[q]]
  BY <1>1 DEF ListingInv
<1>4. /\ verdict[p].status = "none" /\ asked[p].app # None /\ listed[p] \subseteq pushed
      /\ walk[p] \subseteq Candidates(p) /\ Holding(p) \subseteq walk[p] /\ walk[p] # {}
  BY <1>1 DEF ListingInv, Walks, Inv, WalkOK
<1>5. /\ Candidates(p)' = Candidates(p) /\ Holding(p)' = Holding(p)
  BY <1>1 DEF Candidates, Holding, Of
<1>6. walk[p] \in SUBSET pushed /\ s \in walk[p] /\ \A t \in walk[p] : t.id <= s.id
  <2>1. walk[p] \in SUBSET pushed
    BY <1>4 DEF Candidates, Of
  <2>2. QED
    BY <1>4, <2>1, NewestIsNewest DEF Inv
<1> HIDE DEF s, newest
<1>7. CASE Judge(p, s) /\ Holds(s, asked[p].app) /\ UNCHANGED walk
  <2>1. /\ at'[p] = "idle" /\ verdict'[p].snap = s
        /\ verdict'[p].status = IF asked[p].day - s.day > MaxAge THEN "stale" ELSE "verified"
    BY <1>7 DEF Judge, Report, Leave, Goto, Inv, Functional
  <2>2. s \in Holding(p) /\ Holding(p) \in SUBSET pushed /\ \A t \in Holding(p) : t.id <= s.id
    BY <1>4, <1>6, <1>7 DEF Holding
  <2>3. Newest(Holding(p)) = s
    BY <2>2, NewestIsUnique DEF Inv
  <2>4. Answers(p)' /\ Walks(p)'
    BY <1>1, <1>4, <1>5, <2>1, <2>2, <2>3 DEF Answers, Walks
  <2>5. QED
    BY <1>1, <1>2, <1>3, <2>4, ListingStep
<1>8. CASE Report(p, "operational", newest) /\ UNCHANGED walk
  <2>1. at'[p] = "idle" /\ verdict'[p].status = "operational"
    BY <1>8 DEF Report, Leave, Goto, Inv, Functional
  <2>2. Answers(p)' /\ Walks(p)'
    BY <1>1, <1>4, <2>1 DEF Answers, Walks
  <2>3. QED
    BY <1>1, <1>2, <1>3, <2>2, ListingStep
<1>9. CASE ~Holds(s, asked[p].app) /\ walk[p] \ {s} = {} /\ Report(p, "missing", newest)
  <2>1. at'[p] = "idle" /\ verdict'[p].status = "missing"
    BY <1>9 DEF Report, Leave, Goto, Inv, Functional
  <2>2. Holding(p) = {} /\ Candidates(p) # {}
    BY <1>4, <1>6, <1>9 DEF Holding
  <2>3. Answers(p)' /\ Walks(p)'
    BY <1>1, <1>4, <1>5, <2>1, <2>2 DEF Answers, Walks
  <2>4. QED
    BY <1>1, <1>2, <1>3, <2>3, ListingStep
<1>10. CASE ~Holds(s, asked[p].app) /\ walk' = [walk EXCEPT ![p] = walk[p] \ {s}] /\ UNCHANGED verdict
  <2>1. walk'[p] = walk[p] \ {s}
    BY <1>10 DEF Inv, Functional
  <2>2. Holding(p) \subseteq walk'[p]
    BY <1>4, <1>10, <2>1 DEF Holding
  <2>3. Answers(p)' /\ Walks(p)'
    BY <1>1, <1>4, <1>5, <1>10, <2>1, <2>2 DEF Answers, Walks
  <2>4. QED
    BY <1>1, <1>2, <1>3, <2>3, ListingStep
<1>11. QED
  BY <1>7, <1>8, <1>9, <1>10 DEF LookInto, s, newest

LEMMA BeginVerifyAnswers ==
    ASSUME Inv, ListingInv, NEW p \in Procs, BeginVerify(p)
    PROVE  ListingInv'
<1>1. UNCHANGED pushed
  BY DEF BeginVerify, repository
<1>2. \A q \in Procs \ {p} : /\ at'[q] = at[q] /\ asked'[q] = asked[q] /\ listed'[q] = listed[q]
                             /\ walk'[q] = walk[q] /\ verdict'[q] = verdict[q]
  BY DEF BeginVerify, Begin, Goto, Inv, Functional, ListingInv
<1>3. listed' = [q \in Procs |-> listed'[q]] /\ listed'[p] = {}
  BY DEF BeginVerify, ListingInv
<1>4. at'[p] = "list" /\ verdict'[p].status = "none"
  BY DEF BeginVerify, Begin, Goto, Inv, Functional, NoVerdict
<1>5. Answers(p)' /\ Walks(p)'
  BY <1>3, <1>4 DEF Answers, Walks
<1>6. QED
  BY <1>1, <1>2, <1>3, <1>5, ListingStep

\* Every other step leaves all verifies alone.
LEMMA AsideAnswers ==
    ASSUME Inv, ListingInv, UNCHANGED verifying, pushed \subseteq pushed',
           \A q \in Procs : at'[q] \in {"list", "walk"} => at'[q] = at[q]
    PROVE  ListingInv'
<1>1. ASSUME NEW q \in Procs PROVE Answers(q)' /\ Walks(q)'
  <2>1. Answers(q) /\ Walks(q) /\ (at'[q] = "walk" => at[q] = "walk") /\ (at'[q] = "list" => at[q] = "list")
    BY DEF ListingInv
  <2>2. QED
    BY <2>1 DEF Answers, Walks, Candidates, Holding, Of, Holds, Newest, verifying
<1>2. QED
  BY <1>1 DEF ListingInv, verifying

LEMMA ListingNext ==
    ASSUME Inv, ListingInv, [Next]_vars
    PROVE  ListingInv'
<1>1. CASE UNCHANGED vars \/ NextDay
  BY <1>1, AsideAnswers DEF vars, NextDay, repository
<1>2. ASSUME NEW p \in Procs, Create(p) \/ Offsite(p) \/ Retire(p) \/ Verify(p) \/ Kill(p)
      PROVE  ListingInv'
  <2>1. CASE Verify(p)
    BY <2>1, BeginVerifyAnswers, ListAnswers, LookIntoAnswers DEF Verify
  <2>2. CASE Create(p) \/ Kill(p)
    <3>1. UNCHANGED <<pushed, verifying>> /\ \E place \in Places \ {"list", "walk"} : at' = [at EXCEPT ![p] = place]
      BY <2>2 DEF Create, BeginCreate, Reach, OpenApp, CopyApp, AppFails, Created, Kill, Goto, Leave, Places, repository
    <3>2. \A q \in Procs : at'[q] \in {"list", "walk"} => at'[q] = at[q]
      BY <3>1 DEF Inv, Functional
    <3>3. QED
      BY <3>1, <3>2, AsideAnswers
  <2>3. CASE Offsite(p)
    <3>1. UNCHANGED verifying /\ \E place \in Places \ {"list", "walk"} : at' = [at EXCEPT ![p] = place]
      BY <2>3 DEF Offsite, BeginPush, Probe, InitRepo, Push, Goto, Leave, Places
    <3>2. pushed \subseteq pushed'
      BY <2>3 DEF Offsite, BeginPush, Probe, InitRepo, Push, repository
    <3>3. \A q \in Procs : at'[q] \in {"list", "walk"} => at'[q] = at[q]
      BY <3>1 DEF Inv, Functional
    <3>4. QED
      BY <3>1, <3>2, <3>3, AsideAnswers
  <2>4. CASE Retire(p)
    <3>1. UNCHANGED <<pushed, verifying>> /\ \E place \in Places \ {"list", "walk"} : at' = [at EXCEPT ![p] = place]
      BY <2>4 DEF Retire, BeginPrune, Prune, Cleanup, Remove, Goto, Leave, Places, repository
    <3>2. \A q \in Procs : at'[q] \in {"list", "walk"} => at'[q] = at[q]
      BY <3>1 DEF Inv, Functional
    <3>3. QED
      BY <3>1, <3>2, AsideAnswers
  <2>5. QED
    BY <1>2, <2>1, <2>2, <2>3, <2>4
<1>3. QED
  BY <1>1, <1>2 DEF Next

\* However many commands push and prune while a verify walks its candidates,
\* its verdict is the one the listing it read gives (verify.rs
\* `newest_holding_app`).
THEOREM VerdictsAreTheListings == Spec => []VerdictIsTheListings
<1>1. Init => Inv /\ ListingInv
  <2>1. Init => ListingInv
    BY DEF Init, ListingInv, Answers, Walks, NoVerdict
  <2>2. QED
    BY <2>1, InvInit
<1>2. Inv /\ ListingInv /\ [Next]_vars => Inv' /\ ListingInv'
  BY InvNext, ListingNext
<1>3. ListingInv => VerdictIsTheListings
  BY DEF ListingInv, Answers, VerdictIsTheListings, Holding, Candidates
<1>4. QED
  BY <1>1, <1>2, <1>3, PTL DEF Spec

----------------------------------------------------------------------------
(* What a sync pushes is what it has copied: a staged backup is filled by  *)
(* one run alone, because its timestamp is the run's own number.           *)

\* No snapshot from before the first command claims what it does not hold, and
\* what is left of a failed App can be removed; half_removed is the other case.
LegacyWhole ==
    \A s \in Legacy : s.by = "sync" =>
        \A a \in Apps : s.apps[a] = IF a \in s.ok THEN "whole" ELSE "none"
Removable == "remove" \notin Faults

Makes(p) == job[p] \in {"create", "sync"}

\* What the directory of a run holds once the Apps in `done` are copied.
Copied(d, done) == \A b \in Apps : Entry(d)[b] = IF b \in done THEN "whole" ELSE "none"

Stands(p) ==
    /\ at[p] = "idle" => ok[p] = {}
    /\ at[p] \in {"connect", "create", "app"} => Makes(p)
    /\ at[p] \in {"cleanup", "remove"} => job[p] = "sync"
    /\ todo[p] \subseteq Apps
    /\ Makes(p) =>
           /\ dir[p] \in Hosts \X (1 .. runs)
           /\ at[p] = "connect" => dir[p] \notin DOMAIN staging /\ ok[p] = {}
           /\ at[p] \in {"create", "app"} => ok[p] \cap todo[p] = {}
           /\ at[p] \in {"create", "probe", "init", "push"} => Copied(dir[p], ok[p])
           /\ at[p] = "app" =>
                  /\ dir[p] \in DOMAIN staging
                  /\ \E a \in todo[p] : \A b \in Apps :
                         staging[dir[p]][b] = IF b = a THEN "part" ELSE IF b \in ok[p] THEN "whole" ELSE "none"

Tables ==
    /\ at = [p \in Procs |-> at[p]] /\ job = [p \in Procs |-> job[p]] /\ dir = [p \in Procs |-> dir[p]]
    /\ todo = [p \in Procs |-> todo[p]] /\ ok = [p \in Procs |-> ok[p]]
    /\ staging = [d \in DOMAIN staging |-> staging[d]] /\ DOMAIN staging \subseteq Hosts \X (1 .. runs)
    /\ \A d \in DOMAIN staging : staging[d] \in [Apps -> Copies]
    /\ runs \in Nat

Apart == \A p, q \in Procs : p # q /\ Makes(p) /\ Makes(q) => dir[p] # dir[q]

SyncInv == Tables /\ Apart /\ SyncedIsWhole /\ \A p \in Procs : Stands(p)

\* A step of p changes p's place, job and lists, and no staged backup but the
\* one p makes.
StepOf(p) ==
    /\ Tables' /\ runs' \in {runs, runs + 1}
    /\ \A q \in Procs \ {p} : /\ at'[q] = at[q] /\ job'[q] = job[q] /\ dir'[q] = dir[q]
                              /\ todo'[q] = todo[q] /\ ok'[q] = ok[q]
    /\ \A d \in Hosts \X Nat : ~(d = dir[p] /\ Makes(p)) =>
           /\ d \in DOMAIN staging' <=> d \in DOMAIN staging
           /\ d \in DOMAIN staging => staging'[d] = staging[d]

LEMMA StepOfKeeps ==
    ASSUME SyncInv, NEW p \in Procs, StepOf(p), Stands(p)', SyncedIsWhole',
           Makes(p)' => (Makes(p) /\ dir'[p] = dir[p]) \/ dir'[p] \notin Hosts \X (1 .. runs)
    PROVE  SyncInv'
<1>1. ASSUME NEW q \in Procs \ {p}
      PROVE  Stands(q)'
  <2>1. /\ Stands(q) /\ at'[q] = at[q] /\ job'[q] = job[q] /\ dir'[q] = dir[q]
        /\ todo'[q] = todo[q] /\ ok'[q] = ok[q]
    BY DEF SyncInv, StepOf
  <2>2. runs \in Nat /\ 1 .. runs \subseteq 1 .. runs'
    BY DEF SyncInv, Tables, StepOf
  <2>3. CASE ~Makes(q)
    BY <2>1, <2>3 DEF Stands, Makes
  <2>4. CASE Makes(q)
    <3>1. dir[q] \in Hosts \X (1 .. runs) /\ dir[q] \in Hosts \X Nat
      BY <2>1, <2>2, <2>4 DEF Stands
    <3>2. ~(dir[q] = dir[p] /\ Makes(p))
      BY <2>4 DEF SyncInv, Apart
    <3>3. /\ dir[q] \in DOMAIN staging' <=> dir[q] \in DOMAIN staging
          /\ dir[q] \in DOMAIN staging => staging'[dir[q]] = staging[dir[q]]
      BY <3>1, <3>2 DEF StepOf
    <3>4. Copied(dir[q], ok[q]) => Copied(dir[q], ok[q])'
      BY <2>1, <3>3 DEF Copied, Entry
    <3>5. QED
      BY <2>1, <2>2, <3>1, <3>3, <3>4 DEF Stands, Makes, Copied
  <2>5. QED
    BY <2>3, <2>4
<1>2. Apart'
  <2>1. \A q \in Procs \ {p} : Makes(q)' => Makes(q) /\ dir'[q] = dir[q] /\ dir[q] \in Hosts \X (1 .. runs)
    BY DEF SyncInv, Stands, StepOf, Makes
  <2>2. QED
    BY <2>1 DEF Apart, SyncInv
<1>3. QED
  BY <1>1, <1>2 DEF SyncInv, StepOf

\* The tables change in p's entry only.
Moves(p) ==
    /\ \E x : at' = [at EXCEPT ![p] = x]
    /\ UNCHANGED job \/ \E x : job' = [job EXCEPT ![p] = x]
    /\ UNCHANGED dir \/ \E x : dir' = [dir EXCEPT ![p] = x]
    /\ UNCHANGED todo \/ \E x : todo' = [todo EXCEPT ![p] = x]
    /\ UNCHANGED ok \/ \E x : ok' = [ok EXCEPT ![p] = x]

LEMMA MovesApart ==
    ASSUME Tables, NEW p \in Procs, Moves(p)
    PROVE  /\ at' = [q \in Procs |-> at'[q]] /\ job' = [q \in Procs |-> job'[q]]
           /\ dir' = [q \in Procs |-> dir'[q]]
           /\ todo' = [q \in Procs |-> todo'[q]] /\ ok' = [q \in Procs |-> ok'[q]]
           /\ \A q \in Procs \ {p} : /\ at'[q] = at[q] /\ job'[q] = job[q] /\ dir'[q] = dir[q]
                                     /\ todo'[q] = todo[q] /\ ok'[q] = ok[q]
<1>1. at' = [q \in Procs |-> at'[q]] /\ \A q \in Procs \ {p} : at'[q] = at[q]
  BY DEF Tables, Moves
<1>2. job' = [q \in Procs |-> job'[q]] /\ \A q \in Procs \ {p} : job'[q] = job[q]
  BY DEF Tables, Moves
<1>3. dir' = [q \in Procs |-> dir'[q]] /\ \A q \in Procs \ {p} : dir'[q] = dir[q]
  BY DEF Tables, Moves
<1>4. todo' = [q \in Procs |-> todo'[q]] /\ \A q \in Procs \ {p} : todo'[q] = todo[q]
  BY DEF Tables, Moves
<1>5. ok' = [q \in Procs |-> ok'[q]] /\ \A q \in Procs \ {p} : ok'[q] = ok[q]
  BY DEF Tables, Moves
<1>6. QED
  BY <1>1, <1>2, <1>3, <1>4, <1>5

LEMMA StillStaged ==
    ASSUME SyncInv, NEW p \in Procs, Moves(p), UNCHANGED staging, runs' \in {runs, runs + 1}
    PROVE  StepOf(p)
<1>1. Tables
  BY DEF SyncInv
<1>2. runs \in Nat /\ runs' \in Nat /\ Hosts \X (1 .. runs) \subseteq Hosts \X (1 .. runs')
  BY <1>1 DEF Tables
<1>3. Tables'
  <2>1. DOMAIN staging' \subseteq Hosts \X (1 .. runs')
    BY <1>1, <1>2 DEF Tables
  <2>2. QED
    BY <1>1, <1>2, <2>1, MovesApart DEF Tables
<1>4. QED
  BY <1>1, <1>3, MovesApart DEF StepOf

\* A step that fills or empties the directory p makes.
LEMMA Staged ==
    ASSUME SyncInv, NEW p \in Procs, Moves(p), UNCHANGED runs, Makes(p),
           staging' = [d \in DOMAIN staging' |-> staging'[d]],
           DOMAIN staging' \subseteq DOMAIN staging \cup {dir[p]},
           \A d \in DOMAIN staging' : staging'[d] \in [Apps -> Copies],
           \A d \in DOMAIN staging : d # dir[p] => d \in DOMAIN staging' /\ staging'[d] = staging[d]
    PROVE  StepOf(p)
<1>1. Tables /\ dir[p] \in Hosts \X (1 .. runs)
  BY DEF SyncInv, Stands
<1>2. Tables'
  BY <1>1, MovesApart DEF Tables
<1>3. \A d \in Hosts \X Nat : d # dir[p] =>
          (d \in DOMAIN staging' <=> d \in DOMAIN staging) /\ (d \in DOMAIN staging => staging'[d] = staging[d])
  OBVIOUS
<1>4. QED
  BY <1>1, <1>2, <1>3, MovesApart DEF StepOf

\* The command that returns leaves nothing to stand.
LEMMA LeaveKeeps ==
    ASSUME SyncInv, NEW p \in Procs, Leave(p), StepOf(p), SyncedIsWhole'
    PROVE  SyncInv'
<1>1. at'[p] = "idle" /\ job'[p] = None /\ todo'[p] = {} /\ ok'[p] = {}
  BY DEF Leave, Goto, SyncInv, Tables
<1>2. ~Makes(p)'
  BY <1>1, JobAssumption DEF Makes, AllJobs
<1>3. Stands(p)'
  BY <1>1, <1>2 DEF Stands
<1>4. QED
  BY <1>2, <1>3, StepOfKeeps

LEMMA LeaveMoves ==
    ASSUME NEW p, Leave(p)
    PROVE  Moves(p)
  BY DEF Leave, Goto, Moves

LEMMA PushedKept ==
    ASSUME SyncInv, UNCHANGED pushed
    PROVE  SyncedIsWhole'
  BY DEF SyncInv, SyncedIsWhole

\* A step that returns with every staged backup where it was.
LEMMA ReturnKeeps ==
    ASSUME SyncInv, NEW p \in Procs, Leave(p), UNCHANGED <<staging, pushed>>, runs' \in {runs, runs + 1}
    PROVE  SyncInv'
  BY LeaveKeeps, LeaveMoves, StillStaged, PushedKept

\* A step on to the next place, in the same directory.
LEMMA GoesOn ==
    ASSUME SyncInv, NEW p \in Procs, StepOf(p), UNCHANGED pushed, Stands(p)', job'[p] = job[p], dir'[p] = dir[p]
    PROVE  SyncInv'
<1>1. Makes(p)' => Makes(p) /\ dir'[p] = dir[p]
  BY DEF Makes
<1>2. QED
  BY <1>1, PushedKept, StepOfKeeps

LEMMA BeginCreateKeeps ==
    ASSUME SyncInv, NEW p \in Procs, BeginCreate(p)
    PROVE  SyncInv'
<1>1. PICK j \in {"create", "sync"}, h \in Hosts, todos \in SUBSET Apps :
          /\ at[p] = "idle" /\ runs' = runs + 1 /\ job' = [job EXCEPT ![p] = j]
          /\ dir' = [dir EXCEPT ![p] = <<h, runs + 1>>] /\ todo' = [todo EXCEPT ![p] = todos]
          /\ at' = [at EXCEPT ![p] = "connect"]
          /\ UNCHANGED <<staging, ok, pushed>>
  BY DEF BeginCreate, Begin, Goto, repository
<1>2. /\ at'[p] = "connect" /\ job'[p] = j /\ dir'[p] = <<h, runs + 1>> /\ todo'[p] = todos /\ ok'[p] = {}
      /\ runs \in Nat /\ DOMAIN staging \subseteq Hosts \X (1 .. runs)
  BY <1>1 DEF SyncInv, Tables, Stands
<1>3. StepOf(p)
  BY <1>1, StillStaged DEF Moves
<1>4. dir'[p] \notin Hosts \X (1 .. runs) /\ dir'[p] \in Hosts \X (1 .. runs')
  BY <1>1, <1>2
<1>5. Stands(p)'
  BY <1>1, <1>2, <1>4 DEF Stands, Makes
<1>6. QED
  BY <1>1, <1>3, <1>4, <1>5, PushedKept, StepOfKeeps

LEMMA ReachKeeps ==
    ASSUME SyncInv, NEW p \in Procs, Reach(p)
    PROVE  SyncInv'
<1>1. at[p] = "connect" /\ UNCHANGED <<staging, pushed, runs>>
  BY DEF Reach, repository
<1>2. CASE Leave(p)
  BY <1>1, <1>2, ReturnKeeps
<1>3. CASE Goto(p, "create") /\ UNCHANGED <<job, creating>>
  <2>1. StepOf(p)
    BY <1>1, <1>3, StillStaged DEF Moves, Goto, creating
  <2>2. at'[p] = "create" /\ UNCHANGED <<job, dir, todo, ok>>
    BY <1>3 DEF SyncInv, Tables, Goto, creating
  <2>3. Stands(p) /\ Makes(p) /\ dir[p] \notin DOMAIN staging /\ ok[p] = {}
    BY <1>1 DEF SyncInv, Stands
  <2>4. Copied(dir[p], ok[p])'
    BY <1>1, <2>2, <2>3 DEF Copied, Entry, Nothing
  <2>5. Stands(p)'
    BY <1>1, <2>2, <2>3, <2>4 DEF Stands, Makes
  <2>6. QED
    BY <1>1, <2>1, <2>2, <2>5, GoesOn
<1>4. QED
  BY <1>2, <1>3 DEF Reach

LEMMA StageDoes ==
    ASSUME Tables, NEW p \in Procs, NEW a \in Apps, NEW copy \in Copies, Stage(p, a, copy)
    PROVE  /\ staging' = [d \in DOMAIN staging' |-> staging'[d]] /\ DOMAIN staging' = DOMAIN staging
           /\ dir[p] \in DOMAIN staging => staging'[dir[p]] = [staging[dir[p]] EXCEPT ![a] = copy]
           /\ \A d \in DOMAIN staging : d # dir[p] => staging'[d] = staging[d]
           /\ \A d \in DOMAIN staging' : staging'[d] \in [Apps -> Copies]
<1>1. staging = [d \in DOMAIN staging |-> staging[d]]
  BY DEF Tables
<1>2. staging' = [d \in DOMAIN staging |->
                    IF d = dir[p] THEN [staging[dir[p]] EXCEPT ![a] = copy] ELSE staging[d]]
  BY <1>1 DEF Stage
<1>3. dir[p] \in DOMAIN staging => [staging[dir[p]] EXCEPT ![a] = copy] \in [Apps -> Copies]
  BY DEF Tables
<1>4. \A d \in DOMAIN staging : staging[d] \in [Apps -> Copies]
  BY DEF Tables
<1>5. QED
  BY <1>2, <1>3, <1>4

LEMMA OpenAppKeeps ==
    ASSUME SyncInv, NEW p \in Procs, OpenApp(p)
    PROVE  SyncInv'
<1>1. PICK a \in todo[p] :
          /\ at[p] = "create" /\ Goto(p, "app") /\ UNCHANGED <<pushed, runs, job, dir, todo, ok>>
          /\ staging' = [d \in DOMAIN staging \cup {dir[p]} |->
                           IF d = dir[p] THEN [Entry(d) EXCEPT ![a] = "part"] ELSE staging[d]]
  BY DEF OpenApp, repository, creating
<1>2. /\ Stands(p) /\ Makes(p) /\ a \in Apps /\ a \notin ok[p] /\ ok[p] \cap todo[p] = {}
      /\ dir[p] \in Hosts \X (1 .. runs) /\ Copied(dir[p], ok[p])
  BY <1>1 DEF SyncInv, Stands
<1>3. Entry(dir[p]) \in [Apps -> Copies]
  BY DEF SyncInv, Tables, Entry, Nothing, Copies
<1>4. /\ staging' = [d \in DOMAIN staging' |-> staging'[d]] /\ DOMAIN staging' = DOMAIN staging \cup {dir[p]}
      /\ staging'[dir[p]] = [Entry(dir[p]) EXCEPT ![a] = "part"]
      /\ \A d \in DOMAIN staging : d # dir[p] => staging'[d] = staging[d]
  BY <1>1
<1>5. \A d \in DOMAIN staging' : staging'[d] \in [Apps -> Copies]
  BY <1>2, <1>3, <1>4 DEF SyncInv, Tables, Copies
<1>6. StepOf(p)
  BY <1>1, <1>2, <1>4, <1>5, Staged DEF Moves, Goto
<1>7. at'[p] = "app"
  BY <1>1 DEF Goto, SyncInv, Tables
<1>8. \A b \in Apps : staging'[dir[p]][b] = IF b = a THEN "part" ELSE IF b \in ok[p] THEN "whole" ELSE "none"
  BY <1>2, <1>3, <1>4 DEF Copied
<1>9. Stands(p)'
  BY <1>1, <1>2, <1>4, <1>7, <1>8 DEF Stands, Makes
<1>10. QED
  BY <1>1, <1>6, <1>9, GoesOn

\* The one App a run is filling is the one whose copy is under way.
LEMMA FillingIs ==
    ASSUME SyncInv, NEW p \in Procs, at[p] = "app", NEW a \in Filling(p)
    PROVE  /\ Makes(p) /\ a \in todo[p] /\ a \in Apps /\ dir[p] \in DOMAIN staging
           /\ ok[p] \cap todo[p] = {} /\ staging[dir[p]] \in [Apps -> Copies]
           /\ \A b \in Apps : b # a => staging[dir[p]][b] = IF b \in ok[p] THEN "whole" ELSE "none"
<1>1. /\ Stands(p) /\ Makes(p) /\ dir[p] \in DOMAIN staging /\ ok[p] \cap todo[p] = {}
      /\ staging[dir[p]] \in [Apps -> Copies] /\ todo[p] \subseteq Apps
  BY DEF SyncInv, Stands, Tables
<1>2. PICK c \in todo[p] : \A b \in Apps :
          staging[dir[p]][b] = IF b = c THEN "part" ELSE IF b \in ok[p] THEN "whole" ELSE "none"
  BY <1>1 DEF Stands
<1>3. a \in todo[p] /\ staging[dir[p]][a] = "part"
  BY <1>1 DEF Filling, Entry
<1>4. a = c
  BY <1>1, <1>2, <1>3
<1>5. QED
  BY <1>1, <1>2, <1>3, <1>4

LEMMA CopyAppKeeps ==
    ASSUME SyncInv, NEW p \in Procs, CopyApp(p)
    PROVE  SyncInv'
<1>1. PICK a \in Filling(p) :
          /\ at[p] = "app" /\ Stage(p, a, "whole") /\ ok' = [ok EXCEPT ![p] = @ \cup {a}]
          /\ todo' = [todo EXCEPT ![p] = @ \ {a}] /\ Goto(p, "create") /\ UNCHANGED <<pushed, runs, job, dir>>
  BY DEF CopyApp, repository
<1>2. /\ Makes(p) /\ a \in todo[p] /\ a \in Apps /\ dir[p] \in DOMAIN staging
      /\ ok[p] \cap todo[p] = {} /\ staging[dir[p]] \in [Apps -> Copies]
      /\ \A b \in Apps : b # a => staging[dir[p]][b] = IF b \in ok[p] THEN "whole" ELSE "none"
  BY <1>1, FillingIs
<1>3. /\ staging' = [d \in DOMAIN staging' |-> staging'[d]] /\ DOMAIN staging' = DOMAIN staging
      /\ staging'[dir[p]] = [staging[dir[p]] EXCEPT ![a] = "whole"]
      /\ \A d \in DOMAIN staging : d # dir[p] => staging'[d] = staging[d]
      /\ \A d \in DOMAIN staging' : staging'[d] \in [Apps -> Copies]
  BY <1>1, <1>2, StageDoes DEF SyncInv, Copies
<1>4. StepOf(p)
  BY <1>1, <1>2, <1>3, Staged DEF Moves, Goto
<1>5. at'[p] = "create" /\ ok'[p] = ok[p] \cup {a} /\ todo'[p] = todo[p] \ {a}
  BY <1>1 DEF Goto, SyncInv, Tables
<1>6. Copied(dir[p], ok[p])'
  BY <1>1, <1>2, <1>3, <1>5 DEF Copied, Entry
<1>7. Stands(p)'
  BY <1>1, <1>2, <1>5, <1>6 DEF Stands, Makes, SyncInv
<1>8. QED
  BY <1>1, <1>4, <1>7, GoesOn

LEMMA AppFailsKeeps ==
    ASSUME Removable, SyncInv, NEW p \in Procs, AppFails(p)
    PROVE  SyncInv'
<1>1. PICK a \in Filling(p) :
          /\ at[p] = "app" /\ Stage(p, a, "none")
          /\ todo' = [todo EXCEPT ![p] = @ \ {a}] /\ Goto(p, "create") /\ UNCHANGED <<pushed, runs, job, dir, ok>>
  BY DEF AppFails, repository, Removable
<1>2. /\ Makes(p) /\ a \in todo[p] /\ a \in Apps /\ dir[p] \in DOMAIN staging
      /\ ok[p] \cap todo[p] = {} /\ staging[dir[p]] \in [Apps -> Copies]
      /\ \A b \in Apps : b # a => staging[dir[p]][b] = IF b \in ok[p] THEN "whole" ELSE "none"
  BY <1>1, FillingIs
<1>3. /\ staging' = [d \in DOMAIN staging' |-> staging'[d]] /\ DOMAIN staging' = DOMAIN staging
      /\ staging'[dir[p]] = [staging[dir[p]] EXCEPT ![a] = "none"]
      /\ \A d \in DOMAIN staging : d # dir[p] => staging'[d] = staging[d]
      /\ \A d \in DOMAIN staging' : staging'[d] \in [Apps -> Copies]
  BY <1>1, <1>2, StageDoes DEF SyncInv, Copies
<1>4. StepOf(p)
  BY <1>1, <1>2, <1>3, Staged DEF Moves, Goto
<1>5. at'[p] = "create" /\ ok'[p] = ok[p] /\ todo'[p] = todo[p] \ {a} /\ a \notin ok[p]
  BY <1>1, <1>2 DEF Goto, SyncInv, Tables
<1>6. Copied(dir[p], ok[p])'
  BY <1>1, <1>2, <1>3, <1>5 DEF Copied, Entry
<1>7. Stands(p)'
  BY <1>1, <1>2, <1>5, <1>6 DEF Stands, Makes, SyncInv
<1>8. QED
  BY <1>1, <1>4, <1>7, GoesOn

\* Taking a directory away, by the run that makes it.
LEMMA WithoutKeeps ==
    ASSUME SyncInv, NEW p \in Procs, Leave(p), Makes(p), staging' = Without(dir[p]), UNCHANGED <<pushed, runs>>
    PROVE  SyncInv'
<1>1. /\ staging' = [d \in DOMAIN staging' |-> staging'[d]] /\ DOMAIN staging' = DOMAIN staging \ {dir[p]}
      /\ \A d \in DOMAIN staging' : staging'[d] = staging[d]
  BY DEF Without
<1>2. StepOf(p)
  BY <1>1, LeaveMoves, Staged DEF SyncInv, Tables
<1>3. QED
  BY <1>2, LeaveKeeps, PushedKept

LEMMA CreatedKeeps ==
    ASSUME Removable, SyncInv, NEW p \in Procs, Created(p)
    PROVE  SyncInv'
<1>1. at[p] = "create" /\ UNCHANGED <<pushed, runs>>
  BY DEF Created, repository
<1>2. Stands(p) /\ Makes(p)
  BY <1>1 DEF SyncInv, Stands
<1>3. CASE Leave(p) /\ UNCHANGED staging
  BY <1>1, <1>3, ReturnKeeps
<1>4. CASE Leave(p) /\ staging' = Without(dir[p])
  BY <1>1, <1>2, <1>4, WithoutKeeps
<1>5. CASE Goto(p, "probe") /\ UNCHANGED <<staging, job, creating>>
  <2>1. StepOf(p)
    BY <1>1, <1>5, StillStaged DEF Moves, Goto, creating
  <2>2. at'[p] = "probe" /\ UNCHANGED <<staging, job, dir, todo, ok>>
    BY <1>5 DEF SyncInv, Tables, Goto, creating
  <2>3. Copied(dir[p], ok[p])'
    BY <1>1, <1>2, <2>2 DEF Stands, Copied, Entry
  <2>4. Stands(p)'
    BY <1>1, <1>2, <2>2, <2>3 DEF Stands, Makes
  <2>5. QED
    BY <1>1, <2>1, <2>2, <2>4, GoesOn
<1>6. QED
  BY <1>3, <1>4, <1>5 DEF Created, Removable

\* Probing and initialising the repository leave the staged backup to push.
LEMMA ProbeKeeps ==
    ASSUME SyncInv, NEW p \in Procs, Probe(p) \/ InitRepo(p)
    PROVE  SyncInv'
<1>1. at[p] \in {"probe", "init"} /\ UNCHANGED <<staging, pushed, runs>>
  BY DEF Probe, InitRepo, repository
<1>2. CASE Leave(p)
  BY <1>1, <1>2, ReturnKeeps
<1>3. ASSUME NEW place \in {"init", "push"}, Goto(p, place), UNCHANGED <<job, creating>>
      PROVE  SyncInv'
  <2>1. StepOf(p)
    BY <1>1, <1>3, StillStaged DEF Moves, Goto, creating
  <2>2. at'[p] = place /\ UNCHANGED <<staging, job, dir, todo, ok>>
    BY <1>1, <1>3 DEF SyncInv, Tables, Goto, creating
  <2>3. Stands(p) /\ (Copied(dir[p], ok[p]) => Copied(dir[p], ok[p])')
    BY <2>2 DEF SyncInv, Copied, Entry
  <2>4. Stands(p)'
    BY <1>1, <2>2, <2>3 DEF Stands, Makes
  <2>5. QED
    BY <1>1, <2>1, <2>2, <2>4, GoesOn
<1>4. QED
  BY <1>2, <1>3 DEF Probe, InitRepo

LEMMA PushIsWhole ==
    ASSUME SyncInv, NEW p \in Procs, Push(p)
    PROVE  SyncInv'
<1>1. at[p] = "push" /\ UNCHANGED <<staging, runs>>
  BY DEF Push
<1>2. CASE Leave(p) /\ UNCHANGED pushed
  BY <1>1, <1>2, ReturnKeeps
<1>3. CASE /\ dir[p] \in DOMAIN staging /\ pushed' = pushed \cup {Snapshot(p)}
           /\ IF job[p] = "sync" THEN Goto(p, "prune") /\ UNCHANGED <<job, creating>> ELSE Leave(p)
  <2> DEFINE new == Snapshot(p)
  <2>1. new.by = job[p] /\ new.ok = ok[p] /\ new.apps = staging[dir[p]]
    BY DEF Snapshot
  <2> HIDE DEF new
  <2>2. new.by = "sync" => \A a \in Apps : new.apps[a] = IF a \in new.ok THEN "whole" ELSE "none"
    <3>1. CASE job[p] = "sync"
      <4>1. Copied(dir[p], ok[p])
        BY <1>1, <3>1 DEF SyncInv, Stands, Makes
      <4>2. QED
        BY <1>3, <2>1, <4>1 DEF Copied, Entry
    <3>2. QED
      BY <2>1, <3>1
  <2>3. SyncedIsWhole'
    BY <1>3, <2>2 DEF SyncInv, SyncedIsWhole, new
  <2>4. CASE Leave(p)
    BY <1>1, <2>3, <2>4, LeaveMoves, StillStaged, LeaveKeeps
  <2>5. CASE job[p] = "sync" /\ Goto(p, "prune") /\ UNCHANGED <<job, creating>>
    <3>1. StepOf(p)
      BY <1>1, <2>5, StillStaged DEF Moves, Goto, creating
    <3>2. at'[p] = "prune" /\ UNCHANGED <<job, dir, todo, ok>>
      BY <2>5 DEF SyncInv, Tables, Goto, creating
    <3>3. Stands(p) /\ Makes(p)
      BY <2>5 DEF SyncInv, Makes
    <3>4. Stands(p)'
      BY <1>1, <3>2, <3>3 DEF Stands, Makes
    <3>5. QED
      BY <2>3, <3>1, <3>2, <3>3, <3>4, StepOfKeeps
  <2>6. QED
    BY <1>3, <2>4, <2>5
<1>4. QED
  BY <1>2, <1>3 DEF Push

LEMMA PruneStands ==
    ASSUME SyncInv, NEW p \in Procs, Prune(p)
    PROVE  SyncInv'
<1>1. at[p] = "prune" /\ UNCHANGED <<staging, pushed, runs>>
  BY DEF Prune
<1>2. CASE Leave(p)
  BY <1>1, <1>2, ReturnKeeps
<1>3. CASE job[p] = "sync" /\ Goto(p, "cleanup") /\ UNCHANGED <<job, creating>>
  <2>1. StepOf(p)
    BY <1>1, <1>3, StillStaged DEF Moves, Goto, creating
  <2>2. at'[p] = "cleanup" /\ UNCHANGED <<job, dir, todo, ok>>
    BY <1>3 DEF SyncInv, Tables, Goto, creating
  <2>3. Stands(p)'
    BY <1>1, <1>3, <2>2 DEF SyncInv, Stands, Makes
  <2>4. QED
    BY <1>1, <2>1, <2>2, <2>3, GoesOn
<1>4. QED
  BY <1>2, <1>3 DEF Prune

LEMMA CleanupKeeps ==
    ASSUME SyncInv, NEW p \in Procs, Cleanup(p)
    PROVE  SyncInv'
<1>1. PICK a \in Apps : at[p] = "cleanup" /\ Stage(p, a, "part") /\ Goto(p, "remove")
                        /\ UNCHANGED <<pushed, runs, job, dir, todo, ok>>
  BY DEF Cleanup, repository, creating
<1>2. Stands(p) /\ Makes(p) /\ job[p] = "sync"
  BY <1>1 DEF SyncInv, Stands, Makes
<1>3. /\ staging' = [d \in DOMAIN staging' |-> staging'[d]] /\ DOMAIN staging' = DOMAIN staging
      /\ dir[p] \in DOMAIN staging => staging'[dir[p]] = [staging[dir[p]] EXCEPT ![a] = "part"]
      /\ \A d \in DOMAIN staging : d # dir[p] => staging'[d] = staging[d]
      /\ \A d \in DOMAIN staging' : staging'[d] \in [Apps -> Copies]
  BY <1>1, StageDoes DEF SyncInv, Copies
<1>4. StepOf(p)
  BY <1>1, <1>2, <1>3, Staged DEF Moves, Goto
<1>5. at'[p] = "remove"
  BY <1>1 DEF Goto, SyncInv, Tables
<1>6. Stands(p)'
  BY <1>1, <1>2, <1>5 DEF Stands, Makes
<1>7. QED
  BY <1>1, <1>4, <1>6, GoesOn

LEMMA RemoveKeeps ==
    ASSUME SyncInv, NEW p \in Procs, Remove(p)
    PROVE  SyncInv'
<1>1. at[p] = "remove" /\ Leave(p) /\ UNCHANGED <<pushed, runs>>
  BY DEF Remove, repository
<1>2. Makes(p)
  BY <1>1 DEF SyncInv, Stands, Makes
<1>3. QED
  BY <1>1, <1>2, WithoutKeeps, ReturnKeeps DEF Remove

\* push, prune and verify begin, and a verify goes on, with no directory of
\* their own.
LEMMA OthersStand ==
    ASSUME SyncInv, NEW p \in Procs, BeginPush(p) \/ BeginPrune(p) \/ Verify(p)
    PROVE  SyncInv'
<1>1. UNCHANGED <<staging, pushed>> /\ runs' \in {runs, runs + 1}
  BY DEF BeginPush, BeginPrune, Verify, BeginVerify, List, LookInto, Begin, repository
<1>2. CASE Leave(p)
  BY <1>1, <1>2, ReturnKeeps
<1>3. CASE BeginPush(p) \/ BeginPrune(p) \/ BeginVerify(p)
  <2>1. Moves(p)
    BY <1>3 DEF BeginPush, BeginPrune, BeginVerify, Begin, Goto, Moves, creating
  <2>2. StepOf(p)
    BY <1>1, <2>1, StillStaged
  <2>3. /\ at'[p] \in {"probe", "prune", "list"} /\ job'[p] \in {"push", "prune", "verify"}
        /\ UNCHANGED <<todo, ok>>
    BY <1>3 DEF BeginPush, BeginPrune, BeginVerify, Begin, Goto, SyncInv, Tables, creating
  <2>4. ~Makes(p)'
    BY <2>3 DEF Makes
  <2>5. Stands(p)'
    BY <2>3, <2>4 DEF SyncInv, Stands
  <2>6. QED
    BY <1>1, <2>2, <2>4, <2>5, PushedKept, StepOfKeeps
<1>4. CASE UNCHANGED <<at, job, creating, runs>>
  <2>1. \A q \in Procs : Stands(q)'
    BY <1>1, <1>4 DEF SyncInv, Stands, Makes, Copied, Entry, creating
  <2>2. QED
    BY <1>1, <1>4, <2>1, PushedKept DEF SyncInv, Tables, Apart, Makes, creating
<1>5. CASE at[p] = "list" /\ Goto(p, "walk") /\ UNCHANGED <<job, creating, runs>>
  <2>1. StepOf(p)
    BY <1>1, <1>5, StillStaged DEF Moves, Goto, creating
  <2>2. at'[p] = "walk" /\ UNCHANGED <<job, dir, todo, ok>>
    BY <1>5 DEF SyncInv, Tables, Goto, creating
  <2>3. Stands(p)'
    BY <1>1, <1>5, <2>2 DEF SyncInv, Stands, Makes
  <2>4. QED
    BY <1>1, <2>1, <2>2, <2>3, GoesOn
<1>6. QED
  BY <1>2, <1>3, <1>4, <1>5 DEF Verify, List, LookInto, Judge, Report

LEMMA SyncNext ==
    ASSUME Removable, SyncInv, [Next]_vars
    PROVE  SyncInv'
<1>1. CASE UNCHANGED vars \/ NextDay
  <2>1. UNCHANGED <<staging, pushed, runs, at, job, dir, todo, ok>>
    BY <1>1 DEF vars, NextDay, repository, creating
  <2>2. \A q \in Procs : Stands(q)'
    BY <2>1 DEF SyncInv, Stands, Makes, Copied, Entry
  <2>3. QED
    BY <2>1, <2>2, PushedKept DEF SyncInv, Tables, Apart, Makes
<1>2. ASSUME NEW p \in Procs, Create(p) \/ Offsite(p) \/ Retire(p) \/ Verify(p) \/ Kill(p)
      PROVE  SyncInv'
  <2>1. CASE Create(p)
    BY <2>1, BeginCreateKeeps, ReachKeeps, OpenAppKeeps, CopyAppKeeps, AppFailsKeeps, CreatedKeeps DEF Create
  <2>2. CASE Offsite(p)
    BY <2>2, OthersStand, ProbeKeeps, PushIsWhole DEF Offsite
  <2>3. CASE Retire(p)
    BY <2>3, OthersStand, PruneStands, CleanupKeeps, RemoveKeeps DEF Retire
  <2>4. CASE Verify(p)
    BY <2>4, OthersStand
  <2>5. CASE Kill(p)
    BY <2>5, ReturnKeeps DEF Kill, repository
  <2>6. QED
    BY <1>2, <2>1, <2>2, <2>3, <2>4, <2>5
<1>3. QED
  BY <1>1, <1>2 DEF Next

\* Whatever fails, dies or runs beside it, a sync pushes exactly the Apps it
\* has copied, each of them whole (session.rs `create`, `run_backup_sync`).
THEOREM SyncsAreWhole ==
    ASSUME LegacyWhole, Removable
    PROVE  Spec => []SyncedIsWhole
<1>1. Init => SyncInv
  <2> SUFFICES ASSUME Init PROVE SyncInv
    OBVIOUS
  <2>1. Tables
    BY DEF Init, Tables
  <2>2. \A p \in Procs : ~Makes(p)
    BY JobAssumption DEF Init, Makes, AllJobs
  <2>3. \A p \in Procs : Stands(p)
    BY <2>2 DEF Init, Stands
  <2>4. SyncedIsWhole
    BY DEF Init, LegacyWhole, SyncedIsWhole
  <2>5. QED
    BY <2>1, <2>2, <2>3, <2>4 DEF SyncInv, Apart
<1>2. SyncInv /\ [Next]_vars => SyncInv'
  BY SyncNext
<1>3. SyncInv => SyncedIsWhole
  BY DEF SyncInv
<1>4. QED
  BY <1>1, <1>2, <1>3, PTL DEF Spec

----------------------------------------------------------------------------
(* Restore: what a Host held before any restore is on it or in a staged    *)
(* backup of that Host.  The argument follows one copy: it is whole in a   *)
(* directory nobody is filling before anything on the Host is overwritten. *)

HIDE PipelineAssumption DEF PipelineAssumption
USE RestoreAssumption DEF RestoreAssumption

LEMMA Filed ==
    ASSUME RestoreTypeOK, NEW d \in Dirs, NEW s \in Services, NEW copy \in Copy,
           File(d, s, copy)
    PROVE  /\ DOMAIN staged' = DOMAIN staged \cup {d} /\ DOMAIN staged' \subseteq Dirs
           /\ \A e \in DOMAIN staged' : staged'[e] \in [Services -> Copy]
           /\ staged'[d][s] = copy
           /\ \A e \in DOMAIN staged, b \in Services :
                  e # d \/ b # s => staged'[e][b] = staged[e][b]
           /\ d \notin DOMAIN staged =>
                  \A b \in Services : b # s => staged'[d][b] = Gone
<1>1. Gone \in Copy
  BY DEF Gone, Copy
<1>2. \A b \in Services : Held(d, b) \in Copy
  BY <1>1 DEF Held, RestoreTypeOK
<1>3. QED
  BY <1>1, <1>2 DEF File, Held, RestoreTypeOK

LEMMA CopiesTyped ==
    ASSUME RestoreTypeOK, NEW o \in Op, o.host \in Sites, NEW s \in Services
    PROVE  CopiedOf(o, s) \in Copy /\ Unfinished(o, s) \subseteq Copy
<1>1. CopiedOf(o, s) \in Copy
  BY DEF CopiedOf, Copy, RestoreTypeOK, Parts
<1>2. Gone \in Copy /\ [Gone EXCEPT !["core"] = Torn] \in Copy
  BY DEF Gone, Copy, Parts
<1>3. [CopiedOf(o, s) EXCEPT !["extra"] = Torn] \in Copy
  BY <1>1 DEF Copy, Parts
<1>4. QED
  BY <1>1, <1>2, <1>3 DEF Unfinished

Phases == {"idle", "validate", "confirm", "backup", "copy", "decide", "apply", "land", "redeploy", "done"}
Outcomes == {"", "created", "restored", "failed", "cancelled", "error"}
Errand(n, o) == n.cmd = o.cmd /\ n.host = o.host /\ n.from = o.from /\ n.plan = o.plan

LEMMA PhaseSet ==
    ASSUME NEW o \in Op, NEW ph \in Phases, NEW n, n = [o EXCEPT !.phase = ph]
    PROVE  /\ n \in Op /\ Errand(n, o) /\ n.phase = ph /\ n.todo = o.todo /\ n.app = o.app /\ n.left = o.left
           /\ n.into = o.into /\ n.include = o.include /\ n.failed = o.failed /\ n.outcome = o.outcome
  BY DEF Op, Phases, Errand

\* A command that works on a directory or a Host has one.
WorksOn(o) ==
    /\ o.phase \in {"backup", "copy"} =>
           o.cmd \in {"create", "restore"} /\ o.host \in Sites /\ o.into \in Dirs
    /\ o.phase \in {"copy", "land"} => o.app \in Services
    /\ o.phase \in {"validate", "confirm", "decide", "apply", "land", "redeploy"} => o.cmd = "restore"
    /\ o.cmd = "restore" => o.host \in Sites /\ o.from \in DOMAIN staged /\ begun > 0

RestoreTyped == RestoreTypeOK /\ \A p \in Operators : WorksOn(op[p])

LEMMA Typed ==
    ASSUME RestoreTyped, NEW p \in Operators
    PROVE  /\ op[p] \in Op /\ WorksOn(op[p]) /\ begun \in 0..MaxCommands /\ waived \subseteq Sites
           /\ data \in [Sites -> [Services -> [Parts -> Sites \cup {Torn}]]]
           /\ DOMAIN staged \subseteq Dirs
           /\ \A d \in DOMAIN staged : d \in Dirs /\ staged[d] \in [Services -> Copy]
           /\ op[p].plan \subseteq Services /\ op[p].todo \subseteq Services
           /\ op[p].left \subseteq Parts
  BY DEF RestoreTyped, RestoreTypeOK, Op

----------------------------------------------------------------------------
(* What each step does to the command it is a step of.                     *)

Steps(p, n) == op' \in [Operators -> Op] /\ op'[p] = n /\ \A q \in Operators \ {p} : op'[q] = op[q]

LEMMA SetOne ==
    ASSUME RestoreTyped, NEW p \in Operators, NEW n \in Op, Set(p, n)
    PROVE  Steps(p, n)
  BY DEF RestoreTyped, RestoreTypeOK, Set, Steps

LEMMA EndDoes ==
    ASSUME RestoreTyped, NEW p \in Operators, NEW out \in Outcomes, End(p, out)
    PROVE  \E n \in Op :
               /\ Steps(p, n) /\ Errand(n, op[p]) /\ n.phase = "done"
               /\ n.todo = op[p].todo /\ n.outcome = out
<1> DEFINE n == [op[p] EXCEPT !.phase = "done", !.outcome = out]
<1>1. op[p] \in Op
  BY Typed
<1>2. n \in Op /\ Errand(n, op[p]) /\ n.phase = "done" /\ n.todo = op[p].todo /\ n.outcome = out
  <2>1. /\ op[p].phase \in Phases
        /\ n.cmd = op[p].cmd /\ n.host = op[p].host /\ n.from = op[p].from /\ n.plan = op[p].plan
        /\ n.phase = "done" /\ n.todo = op[p].todo /\ n.outcome = out
    BY <1>1 DEF Op, Phases
  <2>2. n \in Op
    BY <1>1 DEF Op, Outcomes
  <2>3. QED
    BY <2>1, <2>2 DEF Errand
<1>3. Set(p, n)
  BY DEF End
<1> HIDE DEF n
<1>4. Steps(p, n)
  BY <1>2, <1>3, SetOne
<1>5. QED
  BY <1>2, <1>4

LEMMA BackUpDoes ==
    ASSUME RestoreTyped, NEW p \in Operators, BackUp(p)
    PROVE  \E n \in Op :
               /\ Steps(p, n) /\ n.cmd = "create" /\ n.phase = "backup" /\ n.host \in Sites
               /\ n.into = <<n.host, begun + 1>> /\ n.into \in Dirs
               /\ n.todo \subseteq Services /\ n.outcome = ""
               /\ op[p].phase \in {"idle", "done"}
               /\ begun' = begun + 1 /\ begun' \in 0..MaxCommands
               /\ UNCHANGED <<data, staged, waived>>
<1>1. begun' = begun + 1 /\ begun < MaxCommands /\ op[p].phase \in {"idle", "done"}
  BY DEF BackUp, Ready
<1>2. PICK h \in Sites, apps \in (SUBSET Services) \ {{}}, include \in BOOLEAN :
          Set(p, [Resting EXCEPT !.cmd = "create", !.phase = "backup", !.host = h, !.todo = apps,
                                 !.into = <<h, begun + 1>>, !.include = include])
  BY DEF BackUp
<1> DEFINE n == [Resting EXCEPT !.cmd = "create", !.phase = "backup", !.host = h, !.todo = apps,
                                !.into = <<h, begun + 1>>, !.include = include]
<1>3. begun \in 0..MaxCommands
  BY Typed
<1>4. <<h, begun + 1>> \in Dirs
  BY <1>1, <1>3 DEF Dirs
<1>5. /\ n \in Op /\ n.cmd = "create" /\ n.phase = "backup" /\ n.host = h /\ n.todo = apps
      /\ n.into = <<h, begun + 1>> /\ n.outcome = ""
  BY <1>4 DEF Resting, Op
<1>6. Set(p, n)
  BY <1>2
<1>7. UNCHANGED <<data, staged, waived>>
  BY DEF BackUp
<1> HIDE DEF n
<1>8. Steps(p, n)
  BY <1>5, <1>6, SetOne
<1>9. begun' \in 0..MaxCommands
  BY <1>1, <1>3
<1>10. apps \subseteq Services
  OBVIOUS
<1>11. QED
  BY <1>1, <1>4, <1>5, <1>7, <1>8, <1>9, <1>10

\* The directory restored from, and the Apps of it asked for.
LEMMA RestoreDoes ==
    ASSUME RestoreTyped, NEW p \in Operators, Restore(p)
    PROVE  \E n \in Op :
               /\ Steps(p, n) /\ n.cmd = "restore" /\ n.host \in Sites /\ n.from \in DOMAIN staged
               /\ n.phase = "validate" => n.from[1] # n.host
               /\ n.phase = "confirm" => n.from[1] = n.host
               /\ n.phase \in {"done", "validate", "confirm"} /\ n.outcome # "restored"
               /\ n.todo = n.plan /\ \A s \in n.plan : staged[n.from][s] # Gone
               /\ op[p].phase \in {"idle", "done"}
               /\ begun' = begun + 1 /\ begun' \in 0..MaxCommands
               /\ UNCHANGED <<data, staged, waived>>
<1>1. begun' = begun + 1 /\ begun < MaxCommands /\ op[p].phase \in {"idle", "done"}
  BY DEF Restore, Ready
<1>2. PICK h \in Sites, d \in DOMAIN staged, sought \in (SUBSET Services) \ {{}} :
          LET plan == {a \in sought : staged[d][a] # Gone}
              o == [Resting EXCEPT !.cmd = "restore", !.host = h, !.from = d, !.plan = plan, !.todo = plan]
          IN Set(p, IF plan = {} THEN [o EXCEPT !.phase = "done", !.outcome = "error"]
                    ELSE [o EXCEPT !.phase = IF d[1] # h THEN "validate" ELSE "confirm"])
  BY DEF Restore
<1> DEFINE plan == {a \in sought : staged[d][a] # Gone}
           o == [Resting EXCEPT !.cmd = "restore", !.host = h, !.from = d, !.plan = plan, !.todo = plan]
           n == IF plan = {} THEN [o EXCEPT !.phase = "done", !.outcome = "error"]
                ELSE [o EXCEPT !.phase = IF d[1] # h THEN "validate" ELSE "confirm"]
<1>3. begun \in 0..MaxCommands /\ d \in Dirs
  BY Typed
<1>4. plan \in SUBSET Services
  OBVIOUS
<1>5. Set(p, n)
  BY <1>2
<1>6. \A s \in plan : staged[d][s] # Gone
  OBVIOUS
<1> HIDE DEF plan
<1>7. /\ n \in Op /\ n.cmd = "restore" /\ n.host = h /\ n.from = d /\ n.plan = plan /\ n.todo = plan
      /\ n.phase \in {"done", "validate", "confirm"} /\ n.outcome # "restored"
      /\ n.phase = "validate" => d[1] # h
      /\ n.phase = "confirm" => d[1] = h
  BY <1>3, <1>4 DEF Resting, Op
<1>8. UNCHANGED <<data, staged, waived>>
  BY DEF Restore
<1> HIDE DEF n
<1>9. Steps(p, n)
  BY <1>5, <1>7, SetOne
<1>10. begun' \in 0..MaxCommands
  BY <1>1, <1>3
<1>11. QED
  BY <1>1, <1>6, <1>7, <1>8, <1>9, <1>10

LEMMA ValidateDoes ==
    ASSUME RestoreTyped, NEW p \in Operators, Validate(p)
    PROVE  \E n \in Op :
               /\ Steps(p, n) /\ Errand(n, op[p]) /\ n.todo = op[p].todo
               /\ \/ n.phase = "confirm" /\ n.outcome = op[p].outcome
                  \/ n.phase = "done" /\ n.outcome # "restored"
               /\ op[p].phase = "validate"
               /\ UNCHANGED <<data, staged, begun, waived>>
<1>1. op[p] \in Op /\ op[p].phase = "validate" /\ UNCHANGED <<data, staged, begun, waived>>
  BY Typed DEF Validate
<1>2. CASE Set(p, [op[p] EXCEPT !.phase = "confirm"])
  BY <1>1, <1>2, PhaseSet, SetOne DEF Phases
<1>3. CASE End(p, "error")
  BY <1>1, <1>3, EndDoes DEF Outcomes
<1>4. QED
  BY <1>1, <1>2, <1>3 DEF Validate

\* A restore across Hosts goes to the emergency backup, into a directory of
\* the Host it restores to.
LEMMA ConfirmDoes ==
    ASSUME RestoreTyped, NEW p \in Operators, Confirm(p)
    PROVE  \E n \in Op :
               /\ Steps(p, n) /\ Errand(n, op[p]) /\ n.todo = op[p].todo
               /\ \/ n.phase = "done" /\ n.outcome # "restored"
                  \/ /\ n.phase = "backup" /\ n.from[1] # n.host /\ n.into = <<n.host, begun>>
                     /\ n.into \in Dirs /\ n.include = StagedParameters(op[p])
                     /\ n.outcome = op[p].outcome
                  \/ n.phase = "apply" /\ n.from[1] = n.host /\ n.outcome = op[p].outcome
               /\ op[p].phase = "confirm"
               /\ UNCHANGED <<data, staged, begun, waived>>
<1>1. /\ op[p] \in Op /\ UNCHANGED <<data, staged, begun, waived>>
      /\ op[p].host \in Sites /\ begun \in 1..MaxCommands /\ op[p].phase = "confirm"
  BY Typed DEF Confirm, WorksOn
<1>2. CASE End(p, "cancelled")
  BY <1>1, <1>2, EndDoes DEF Outcomes
<1>3. CASE op[p].from[1] = op[p].host /\ Set(p, [op[p] EXCEPT !.phase = "apply"])
  BY <1>1, <1>3, PhaseSet, SetOne DEF Phases, Errand
<1>4. ASSUME op[p].from[1] # op[p].host,
             Set(p, [op[p] EXCEPT !.phase = "backup", !.into = <<op[p].host, begun>>,
                                  !.include = StagedParameters(op[p])])
      PROVE  \E n \in Op :
                 /\ Steps(p, n) /\ Errand(n, op[p]) /\ n.todo = op[p].todo
                 /\ n.phase = "backup" /\ n.from[1] # n.host /\ n.into = <<n.host, begun>>
                 /\ n.into \in Dirs /\ n.include = StagedParameters(op[p])
                 /\ n.outcome = op[p].outcome
  <2>1. <<op[p].host, begun>> \in Dirs
    BY <1>1 DEF Dirs
  <2>2. StagedParameters(op[p]) \in BOOLEAN
    BY Zenon DEF StagedParameters
  <2> DEFINE n == [op[p] EXCEPT !.phase = "backup", !.into = <<op[p].host, begun>>,
                                !.include = StagedParameters(op[p])]
  <2>3. /\ n \in Op /\ Errand(n, op[p]) /\ n.phase = "backup" /\ n.todo = op[p].todo
        /\ n.into = <<op[p].host, begun>> /\ n.include = StagedParameters(op[p])
        /\ n.outcome = op[p].outcome
    BY <1>1, <2>1, <2>2 DEF Op, Errand
  <2>4. Set(p, n)
    BY <1>4
  <2> HIDE DEF n
  <2>5. Steps(p, n)
    BY <2>3, <2>4, SetOne
  <2>6. QED
    BY <1>4, <2>1, <2>3, <2>5 DEF Errand
<1>5. QED
  BY <1>1, <1>2, <1>3, <1>4 DEF Confirm

LEMMA OpenCopyDoes ==
    ASSUME RestoreTyped, NEW p \in Operators, OpenCopy(p)
    PROVE  \E n \in Op :
               /\ Steps(p, n) /\ Errand(n, op[p]) /\ n.phase = "copy"
               /\ n.app \in op[p].todo /\ n.todo = op[p].todo \ {n.app}
               /\ n.into = op[p].into /\ n.include = op[p].include /\ n.failed = op[p].failed
               /\ n.outcome = op[p].outcome
               /\ \E copy \in Unfinished(op[p], n.app) : File(n.into, n.app, copy)
               /\ op[p].phase = "backup"
               /\ UNCHANGED <<data, begun, waived>>
<1>1. op[p] \in Op /\ op[p].phase = "backup" /\ UNCHANGED <<data, begun, waived>>
  BY Typed DEF OpenCopy
<1>2. PICK s \in op[p].todo : \E copy \in Unfinished(op[p], s) :
          /\ File(op[p].into, s, copy)
          /\ Set(p, [op[p] EXCEPT !.phase = "copy", !.app = s, !.todo = @ \ {s}])
  BY DEF OpenCopy
<1> DEFINE n == [op[p] EXCEPT !.phase = "copy", !.app = s, !.todo = @ \ {s}]
<1>3. /\ n \in Op /\ Errand(n, op[p]) /\ n.phase = "copy" /\ n.todo = op[p].todo \ {s} /\ n.app = s
      /\ n.into = op[p].into /\ n.include = op[p].include /\ n.failed = op[p].failed
      /\ n.outcome = op[p].outcome
  BY <1>1 DEF Op, Errand
<1>4. /\ Set(p, n)
      /\ \E copy \in Unfinished(op[p], s) : File(op[p].into, s, copy)
  BY <1>2
<1> HIDE DEF n
<1>5. Steps(p, n)
  BY <1>3, <1>4, SetOne
<1>6. QED
  BY <1>1, <1>3, <1>4, <1>5

LEMMA CloseCopyDoes ==
    ASSUME RestoreTyped, NEW p \in Operators, CloseCopy(p)
    PROVE  \E n \in Op :
               /\ Steps(p, n) /\ Errand(n, op[p]) /\ n.phase = "backup"
               /\ n.todo = op[p].todo /\ n.into = op[p].into /\ n.include = op[p].include
               /\ n.outcome = op[p].outcome
               /\ \/ /\ File(n.into, op[p].app, CopiedOf(op[p], op[p].app))
                     /\ n.failed = op[p].failed
                  \/ /\ File(n.into, op[p].app, Gone) \/ ("remove" \in Troubles /\ UNCHANGED staged)
                     /\ n.failed = op[p].failed \cup {op[p].app}
               /\ op[p].phase = "copy"
               /\ UNCHANGED <<data, begun, waived>>
<1>1. op[p] \in Op /\ op[p].phase = "copy" /\ op[p].app \in Services /\ UNCHANGED <<data, begun, waived>>
  BY Typed DEF CloseCopy, WorksOn
<1>2. CASE /\ File(op[p].into, op[p].app, CopiedOf(op[p], op[p].app))
           /\ Set(p, [op[p] EXCEPT !.phase = "backup"])
  BY <1>1, <1>2, PhaseSet, SetOne DEF Phases
<1>3. CASE /\ \/ File(op[p].into, op[p].app, Gone)
              \/ "remove" \in Troubles /\ UNCHANGED staged
           /\ Set(p, [op[p] EXCEPT !.phase = "backup", !.failed = @ \cup {op[p].app}])
  <2> DEFINE n == [op[p] EXCEPT !.phase = "backup", !.failed = @ \cup {op[p].app}]
  <2>1. /\ n \in Op /\ Errand(n, op[p]) /\ n.phase = "backup" /\ n.todo = op[p].todo
        /\ n.into = op[p].into /\ n.include = op[p].include
        /\ n.failed = op[p].failed \cup {op[p].app} /\ n.outcome = op[p].outcome
    BY <1>1 DEF Op, Errand
  <2>2. Set(p, n)
    BY <1>3
  <2> HIDE DEF n
  <2>3. Steps(p, n)
    BY <2>1, <2>2, SetOne
  <2>4. QED
    BY <1>1, <1>3, <2>1, <2>3
<1>4. QED
  BY <1>1, <1>2, <1>3 DEF CloseCopy

LEMMA BackedDoes ==
    ASSUME RestoreTyped, NEW p \in Operators, Backed(p)
    PROVE  \E n \in Op :
               /\ Steps(p, n) /\ Errand(n, op[p])
               /\ \/ n.phase = "done" /\ n.outcome # "restored"
                  \/ /\ n.phase = "apply" /\ op[p].failed = {} /\ n.todo = n.plan
                     /\ n.cmd = "restore" /\ n.outcome = op[p].outcome
                  \/ /\ n.phase = "decide" /\ n.todo = op[p].todo
                     /\ n.cmd = "restore" /\ n.outcome = op[p].outcome
               /\ op[p].phase = "backup" /\ op[p].todo = {}
               /\ UNCHANGED <<data, staged, begun, waived>>
<1>1. /\ op[p] \in Op /\ op[p].cmd \in {"create", "restore"}
      /\ UNCHANGED <<data, staged, begun, waived>> /\ op[p].phase = "backup" /\ op[p].todo = {}
  BY Typed DEF Backed, WorksOn
<1>2. CASE op[p].cmd = "create"
  <2>1. End(p, "created")
    BY <1>2 DEF Backed
  <2>2. QED
    BY <1>1, <2>1, EndDoes DEF Outcomes
<1>3. CASE op[p].cmd = "restore" /\ op[p].failed = {}
  <2>1. Set(p, [op[p] EXCEPT !.phase = "apply", !.emergency = "created", !.todo = op[p].plan])
    BY <1>3 DEF Backed, AllBackedUp
  <2> DEFINE n == [op[p] EXCEPT !.phase = "apply", !.emergency = "created", !.todo = op[p].plan]
  <2>2. /\ n \in Op /\ Errand(n, op[p]) /\ n.phase = "apply" /\ n.todo = op[p].plan
        /\ n.outcome = op[p].outcome
    BY <1>1 DEF Op, Errand
  <2>3. Set(p, n)
    BY <2>1
  <2> HIDE DEF n
  <2>4. Steps(p, n)
    BY <2>2, <2>3, SetOne
  <2>5. QED
    BY <1>1, <1>3, <2>2, <2>4 DEF Errand
<1>4. CASE op[p].cmd = "restore" /\ op[p].failed # {}
  <2>1. Set(p, [op[p] EXCEPT !.phase = "decide"])
    BY <1>4 DEF Backed, AllBackedUp
  <2> DEFINE n == [op[p] EXCEPT !.phase = "decide"]
  <2>2. n \in Op /\ Errand(n, op[p]) /\ n.phase = "decide" /\ n.todo = op[p].todo /\ n.outcome = op[p].outcome
    BY <1>1 DEF Op, Errand
  <2>3. Set(p, n)
    BY <2>1
  <2> HIDE DEF n
  <2>4. Steps(p, n)
    BY <2>2, <2>3, SetOne
  <2>5. QED
    BY <1>1, <1>4, <2>2, <2>4 DEF Errand
<1>5. QED
  BY <1>1, <1>2, <1>3, <1>4

LEMMA DecideDoes ==
    ASSUME RestoreTyped, NEW p \in Operators, Decide(p)
    PROVE  \E n \in Op :
               /\ Steps(p, n) /\ Errand(n, op[p])
               /\ \/ n.phase = "done" /\ n.outcome # "restored" /\ UNCHANGED waived
                  \/ /\ n.phase = "apply" /\ n.todo = n.plan /\ n.outcome = op[p].outcome
                     /\ waived' = waived \cup {n.host}
               /\ op[p].phase = "decide"
               /\ UNCHANGED <<data, staged, begun>>
<1>1. op[p] \in Op /\ op[p].phase = "decide" /\ UNCHANGED <<data, staged, begun>>
  BY Typed DEF Decide
<1>2. CASE End(p, "cancelled") /\ UNCHANGED waived
  BY <1>1, <1>2, EndDoes DEF Outcomes
<1>3. CASE /\ Set(p, [op[p] EXCEPT !.phase = "apply", !.emergency = "without", !.todo = op[p].plan])
           /\ waived' = waived \cup {op[p].host}
  <2> DEFINE n == [op[p] EXCEPT !.phase = "apply", !.emergency = "without", !.todo = op[p].plan]
  <2>1. /\ n \in Op /\ Errand(n, op[p]) /\ n.phase = "apply" /\ n.todo = op[p].plan
        /\ n.outcome = op[p].outcome
    BY <1>1 DEF Op, Errand
  <2>2. Set(p, n)
    BY <1>3
  <2> HIDE DEF n
  <2>3. Steps(p, n)
    BY <2>1, <2>2, SetOne
  <2>4. QED
    BY <1>1, <1>3, <2>1, <2>3 DEF Errand
<1>4. QED
  BY <1>1, <1>2, <1>3 DEF Decide

LEMMA ApplyDoes ==
    ASSUME RestoreTyped, NEW p \in Operators, Apply(p)
    PROVE  \E n \in Op :
               /\ Steps(p, n) /\ Errand(n, op[p]) /\ n.outcome = op[p].outcome
               /\ \/ /\ n.phase = "land" /\ n.app \in op[p].todo /\ n.todo = op[p].todo \ {n.app}
                     /\ n.left = StagedPaths(staged[op[p].from][n.app])
                  \/ n.phase = "redeploy" /\ n.todo = op[p].todo /\ op[p].todo = {}
               /\ op[p].phase = "apply"
               /\ UNCHANGED <<data, staged, begun, waived>>
<1>1. op[p] \in Op /\ op[p].phase = "apply" /\ UNCHANGED <<data, staged, begun, waived>>
  BY Typed DEF Apply
<1>2. ASSUME NEW s \in op[p].todo,
             Set(p, [op[p] EXCEPT !.phase = "land", !.app = s, !.todo = @ \ {s},
                                  !.left = StagedPaths(staged[op[p].from][s])])
      PROVE  \E n \in Op :
                 /\ Steps(p, n) /\ Errand(n, op[p]) /\ n.outcome = op[p].outcome
                 /\ n.phase = "land" /\ n.app \in op[p].todo /\ n.todo = op[p].todo \ {n.app}
                 /\ n.left = StagedPaths(staged[op[p].from][n.app])
  <2> DEFINE paths == StagedPaths(staged[op[p].from][s])
             n == [op[p] EXCEPT !.phase = "land", !.app = s, !.todo = @ \ {s}, !.left = paths]
  <2>1. paths \in SUBSET Parts
    BY DEF StagedPaths, Parts
  <2>2. Set(p, n)
    BY <1>2
  <2> HIDE DEF paths
  <2>3. /\ n \in Op /\ Errand(n, op[p]) /\ n.outcome = op[p].outcome
        /\ n.phase = "land" /\ n.app = s /\ n.todo = op[p].todo \ {s} /\ n.left = paths
    BY <1>1, <2>1 DEF Op, Errand
  <2> HIDE DEF n
  <2>4. Steps(p, n)
    BY <2>2, <2>3, SetOne
  <2>5. QED
    BY <2>3, <2>4 DEF paths
<1>3. CASE op[p].todo = {} /\ Set(p, [op[p] EXCEPT !.phase = "redeploy"])
  BY <1>1, <1>3, PhaseSet, SetOne DEF Phases
<1>4. QED
  BY <1>1, <1>2, <1>3 DEF Apply

LEMMA LandDoes ==
    ASSUME RestoreTyped, NEW p \in Operators, Land(p)
    PROVE  \E n \in Op :
               /\ Steps(p, n) /\ Errand(n, op[p])
               /\ \/ /\ op[p].left = {} /\ n.phase = "apply" /\ n.todo = op[p].todo
                     /\ n.outcome = op[p].outcome /\ UNCHANGED data
                  \/ /\ n.phase = "land" /\ n.todo = op[p].todo /\ n.app = op[p].app
                     /\ n.outcome = op[p].outcome
                     /\ \E x \in op[p].left :
                            /\ staged[op[p].from][op[p].app][x] # Absent
                            /\ Write(op[p], x, staged[op[p].from][op[p].app][x])
                            /\ n.left = op[p].left \ {x}
                  \/ /\ n.phase = "done" /\ n.outcome = "failed"
                     /\ \/ UNCHANGED data
                        \/ \E x \in op[p].left : Write(op[p], x, Torn)
               /\ op[p].phase = "land"
               /\ UNCHANGED <<staged, begun, waived>>
<1> DEFINE o == op[p]
           copy == staged[o.from][o.app]
           x == IF "core" \in o.left THEN "core" ELSE "extra"
<1>1. o \in Op /\ o.phase = "land" /\ o.left \subseteq Parts /\ UNCHANGED <<staged, begun, waived>>
  BY Typed DEF Land
<1>2. CASE o.left = {} /\ Set(p, [o EXCEPT !.phase = "apply"]) /\ UNCHANGED data
  BY <1>1, <1>2, PhaseSet, SetOne DEF Phases
<1>3. o.left # {} => x \in o.left
  BY <1>1 DEF Parts
<1> HIDE DEF x
<1>4. CASE o.left # {} /\ copy[x] # Absent /\ Write(o, x, copy[x]) /\ Set(p, [o EXCEPT !.left = @ \ {x}])
  <2> DEFINE n == [o EXCEPT !.left = @ \ {x}]
  <2>1. /\ n \in Op /\ Errand(n, o) /\ n.phase = "land" /\ n.todo = o.todo /\ n.app = o.app
        /\ n.left = o.left \ {x} /\ n.outcome = o.outcome
    BY <1>1 DEF Op, Errand
  <2>2. Set(p, n)
    BY <1>4
  <2> HIDE DEF n
  <2>3. Steps(p, n)
    BY <2>1, <2>2, SetOne
  <2>4. QED
    BY <1>1, <1>3, <1>4, <2>1, <2>3
<1>5. CASE o.left # {} /\ (UNCHANGED data \/ Write(o, x, Torn)) /\ Set(p, Stops(o))
  <2>1. End(p, "failed")
    BY <1>5 DEF End, Stops
  <2>2. QED
    BY <1>1, <1>3, <1>5, <2>1, EndDoes DEF Outcomes
<1>6. QED
  BY <1>2, <1>4, <1>5 DEF Land, x

LEMMA RedeployDoes ==
    ASSUME RestoreTyped, NEW p \in Operators, Redeploy(p)
    PROVE  \E n \in Op :
               /\ Steps(p, n) /\ Errand(n, op[p]) /\ n.phase = "done" /\ n.todo = op[p].todo
               /\ n.outcome = "restored" /\ op[p].phase = "redeploy"
               /\ UNCHANGED <<data, staged, begun, waived>>
  BY EndDoes DEF Redeploy, Outcomes

LEMMA DieDoes ==
    ASSUME RestoreTyped, NEW p \in Operators, Die(p)
    PROVE  /\ Steps(p, Resting) /\ Resting \in Op
           /\ \/ op[p].phase \in {"backup", "copy", "decide"} /\ "die" \in Troubles /\ UNCHANGED data
              \/ /\ op[p].phase \in {"apply", "land", "redeploy"}
                 /\ \/ UNCHANGED data
                    \/ op[p].phase = "land" /\ \E x \in op[p].left : Write(op[p], x, Torn)
           /\ UNCHANGED <<staged, begun, waived>>
<1>1. Resting \in Op
  BY DEF Resting, Op
<1>2. Steps(p, Resting)
  BY <1>1, SetOne DEF Die
<1>3. QED
  BY <1>1, <1>2 DEF Die

----------------------------------------------------------------------------
(* Type correctness of a restore, and what a command works on.             *)

LEMMA Wrote ==
    ASSUME RestoreTyped, NEW o \in Op, o.host \in Sites, o.app \in Services,
           NEW x \in Parts, NEW value \in Sites \cup {Torn}, Write(o, x, value)
    PROVE  /\ data' \in [Sites -> [Services -> [Parts -> Sites \cup {Torn}]]]
           /\ data'[o.host][o.app][x] = value
           /\ \A h \in Sites, s \in Services, y \in Parts :
                  h # o.host \/ s # o.app \/ y # x => data'[h][s][y] = data[h][s][y]
  BY Typed DEF Write, RestoreTyped, RestoreTypeOK

LEMMA TypedStep ==
    ASSUME RestoreTyped, NEW p \in Operators, NEW n \in Op, Steps(p, n), WorksOn(n)',
           data' \in [Sites -> [Services -> [Parts -> Sites \cup {Torn}]]],
           DOMAIN staged \subseteq DOMAIN staged', DOMAIN staged' \subseteq Dirs,
           \A d \in DOMAIN staged' : staged'[d] \in [Services -> Copy],
           begun' \in 0..MaxCommands, begun <= begun', waived' \subseteq Sites
    PROVE  RestoreTyped'
<1>1. RestoreTypeOK'
  BY DEF RestoreTypeOK, Steps
<1>2. ASSUME NEW q \in Operators \ {p}
      PROVE  WorksOn(op[q])'
  <2>1. op'[q] = op[q] /\ WorksOn(op[q]) /\ begun \in Nat /\ begun' \in Nat
    BY <1>2, Typed DEF Steps
  <2>2. QED
    BY <2>1 DEF WorksOn
<1>3. WorksOn(op[p])'
  BY DEF Steps
<1>4. QED
  BY <1>1, <1>2, <1>3 DEF RestoreTyped

\* The same for a step that stages nothing.
LEMMA TypedAside ==
    ASSUME RestoreTyped, NEW p \in Operators, NEW n \in Op, Steps(p, n), WorksOn(n)',
           data' \in [Sites -> [Services -> [Parts -> Sites \cup {Torn}]]],
           UNCHANGED staged, begun' \in 0..MaxCommands, begun <= begun', waived' \subseteq Sites
    PROVE  RestoreTyped'
  BY TypedStep DEF RestoreTyped, RestoreTypeOK

LEMMA TypedNext ==
    ASSUME RestoreTyped, [RestoreNext]_RestoreVars
    PROVE  RestoreTyped'
<1>1. CASE UNCHANGED RestoreVars
  BY <1>1 DEF RestoreVars, RestoreTyped, RestoreTypeOK, WorksOn
<1>2. ASSUME NEW p \in Operators,
             \/ BackUp(p) \/ Restore(p) \/ Validate(p) \/ Confirm(p) \/ OpenCopy(p) \/ CloseCopy(p)
             \/ Backed(p) \/ Decide(p) \/ Apply(p) \/ Land(p) \/ Redeploy(p) \/ Die(p)
      PROVE  RestoreTyped'
  <2> DEFINE DataType == [Sites -> [Services -> [Parts -> Sites \cup {Torn}]]]
  <2>1. /\ op[p] \in Op /\ WorksOn(op[p]) /\ begun \in 0..MaxCommands /\ waived \subseteq Sites
        /\ data \in DataType
    BY Typed
  <2> HIDE DEF DataType
  <2>2. CASE BackUp(p)
    <3>1. PICK n \in Op : /\ Steps(p, n) /\ n.cmd = "create" /\ n.phase = "backup" /\ n.host \in Sites
                         /\ n.into \in Dirs
                         /\ begun' = begun + 1 /\ begun' \in 0..MaxCommands
                         /\ UNCHANGED <<data, staged, waived>>
      BY <2>2, BackUpDoes
    <3>2. WorksOn(n)'
      BY <3>1 DEF WorksOn
    <3>3. QED
      BY <2>1, <3>1, <3>2, TypedAside DEF DataType
  <2>3. CASE Restore(p)
    <3>1. PICK n \in Op : /\ Steps(p, n) /\ n.cmd = "restore" /\ n.host \in Sites /\ n.from \in DOMAIN staged
                         /\ n.phase \in {"done", "validate", "confirm"}
                         /\ begun' = begun + 1 /\ begun' \in 0..MaxCommands
                         /\ UNCHANGED <<data, staged, waived>>
      BY <2>3, RestoreDoes
    <3>2. WorksOn(n)'
      BY <2>1, <3>1 DEF WorksOn
    <3>3. QED
      BY <2>1, <3>1, <3>2, TypedAside DEF DataType
  <2>4. CASE Validate(p)
    <3>1. PICK n \in Op : /\ Steps(p, n) /\ Errand(n, op[p]) /\ n.phase \in {"confirm", "done"}
                         /\ op[p].phase = "validate"
                         /\ UNCHANGED <<data, staged, begun, waived>>
      BY <2>4, ValidateDoes
    <3>2. WorksOn(n)'
      BY <2>1, <3>1 DEF WorksOn, Errand
    <3>3. QED
      BY <2>1, <3>1, <3>2, TypedAside DEF DataType
  <2>5. CASE Confirm(p)
    <3>1. PICK n \in Op : /\ Steps(p, n) /\ Errand(n, op[p])
                         /\ (n.phase \in {"done", "apply"} \/ (n.phase = "backup" /\ n.into \in Dirs))
                         /\ op[p].phase = "confirm"
                         /\ UNCHANGED <<data, staged, begun, waived>>
      BY <2>5, ConfirmDoes
    <3>2. WorksOn(n)'
      BY <2>1, <3>1 DEF WorksOn, Errand
    <3>3. QED
      BY <2>1, <3>1, <3>2, TypedAside DEF DataType
  <2>6. CASE OpenCopy(p)
    <3>1. PICK n \in Op : /\ Steps(p, n) /\ Errand(n, op[p]) /\ n.phase = "copy"
                         /\ n.app \in op[p].todo /\ n.into = op[p].into
                         /\ \E copy \in Unfinished(op[p], n.app) : File(n.into, n.app, copy)
                         /\ op[p].phase = "backup"
                         /\ UNCHANGED <<data, begun, waived>>
      BY <2>6, OpenCopyDoes
    <3>2. n.app \in Services /\ op[p].host \in Sites /\ n.into \in Dirs
      BY <2>1, <3>1, Typed DEF WorksOn
    <3>3. PICK copy \in Copy : File(n.into, n.app, copy)
      BY <2>1, <3>1, <3>2, CopiesTyped DEF RestoreTyped
    <3>4. /\ DOMAIN staged \subseteq DOMAIN staged' /\ DOMAIN staged' \subseteq Dirs
          /\ \A d \in DOMAIN staged' : staged'[d] \in [Services -> Copy]
      BY <3>2, <3>3, Filed DEF RestoreTyped
    <3>5. WorksOn(n)'
      BY <2>1, <3>1, <3>2, <3>4 DEF WorksOn, Errand
    <3>6. QED
      BY <2>1, <3>1, <3>4, <3>5, TypedStep DEF DataType
  <2>7. CASE CloseCopy(p)
    <3>1. PICK n \in Op : /\ Steps(p, n) /\ Errand(n, op[p]) /\ n.phase = "backup" /\ n.into = op[p].into
                         /\ \/ File(n.into, op[p].app, CopiedOf(op[p], op[p].app))
                            \/ File(n.into, op[p].app, Gone)
                            \/ UNCHANGED staged
                         /\ op[p].phase = "copy"
                         /\ UNCHANGED <<data, begun, waived>>
      BY <2>7, CloseCopyDoes
    <3>2. op[p].app \in Services /\ op[p].host \in Sites /\ n.into \in Dirs
      BY <2>1, <3>1 DEF WorksOn
    <3>3. Gone \in Copy /\ CopiedOf(op[p], op[p].app) \in Copy
      BY <2>1, <3>2, CopiesTyped DEF RestoreTyped, Gone, Copy
    <3>4. /\ DOMAIN staged \subseteq DOMAIN staged' /\ DOMAIN staged' \subseteq Dirs
          /\ \A d \in DOMAIN staged' : staged'[d] \in [Services -> Copy]
      <4>1. CASE UNCHANGED staged
        BY <4>1 DEF RestoreTyped, RestoreTypeOK
      <4>2. CASE \E copy \in Copy : File(n.into, op[p].app, copy)
        BY <4>2, <3>2, Filed DEF RestoreTyped
      <4>3. QED
        BY <3>1, <3>3, <4>1, <4>2
    <3>5. WorksOn(n)'
      BY <2>1, <3>1, <3>2, <3>4 DEF WorksOn, Errand
    <3>6. QED
      BY <2>1, <3>1, <3>4, <3>5, TypedStep DEF DataType
  <2>8. CASE Backed(p)
    <3>1. PICK n \in Op : /\ Steps(p, n) /\ Errand(n, op[p])
                         /\ (n.phase = "done" \/ (n.phase \in {"apply", "decide"} /\ n.cmd = "restore"))
                         /\ UNCHANGED <<data, staged, begun, waived>>
      BY <2>8, BackedDoes
    <3>2. WorksOn(n)'
      BY <2>1, <3>1 DEF WorksOn, Errand
    <3>3. QED
      BY <2>1, <3>1, <3>2, TypedAside DEF DataType
  <2>9. CASE Decide(p)
    <3>1. PICK n \in Op : /\ Steps(p, n) /\ Errand(n, op[p]) /\ n.phase \in {"done", "apply"}
                         /\ waived' \subseteq waived \cup {n.host}
                         /\ op[p].phase = "decide"
                         /\ UNCHANGED <<data, staged, begun>>
      BY <2>9, DecideDoes
    <3>2. WorksOn(n)' /\ n.host \in Sites
      BY <2>1, <3>1 DEF WorksOn, Errand
    <3>3. QED
      BY <2>1, <3>1, <3>2, TypedAside DEF DataType
  <2>10. CASE Apply(p)
    <3>1. PICK n \in Op : /\ Steps(p, n) /\ Errand(n, op[p])
                         /\ (n.phase = "redeploy" \/ (n.phase = "land" /\ n.app \in op[p].todo))
                         /\ op[p].phase = "apply"
                         /\ UNCHANGED <<data, staged, begun, waived>>
      BY <2>10, ApplyDoes
    <3>2. WorksOn(n)'
      BY <2>1, <3>1, Typed DEF WorksOn, Errand
    <3>3. QED
      BY <2>1, <3>1, <3>2, TypedAside DEF DataType
  <2>11. CASE Land(p)
    <3>1. PICK n \in Op : /\ Steps(p, n) /\ Errand(n, op[p])
                         /\ (n.phase \in {"apply", "done"} \/ (n.phase = "land" /\ n.app = op[p].app))
                         /\ op[p].phase = "land"
                         /\ UNCHANGED <<staged, begun, waived>>
      BY <2>11, LandDoes
    <3>2. /\ op[p].app \in Services /\ op[p].host \in Sites /\ op[p].left \subseteq Parts
          /\ op[p].from \in DOMAIN staged
      BY <2>1, <3>1, Typed DEF WorksOn
    <3>3. \/ UNCHANGED data
          \/ \E x \in op[p].left : /\ staged[op[p].from][op[p].app][x] # Absent
                                   /\ Write(op[p], x, staged[op[p].from][op[p].app][x])
          \/ \E x \in op[p].left : Write(op[p], x, Torn)
      BY <2>11, LandDoes
    <3>4. data' \in DataType
      <4>1. \A x \in op[p].left : staged[op[p].from][op[p].app][x] \in Sites \cup {Torn, Absent}
        BY <3>2, Typed DEF Copy
      <4>2. QED
        BY <2>1, <3>2, <3>3, <4>1, Wrote DEF DataType
    <3>5. WorksOn(n)'
      BY <2>1, <3>1 DEF WorksOn, Errand
    <3>6. QED
      BY <2>1, <3>1, <3>4, <3>5, TypedAside DEF DataType
  <2>12. CASE Redeploy(p)
    <3>1. PICK n \in Op : /\ Steps(p, n) /\ Errand(n, op[p]) /\ n.phase = "done"
                         /\ UNCHANGED <<data, staged, begun, waived>>
      BY <2>12, RedeployDoes
    <3>2. WorksOn(n)'
      BY <2>1, <3>1 DEF WorksOn, Errand
    <3>3. QED
      BY <2>1, <3>1, <3>2, TypedAside DEF DataType
  <2>13. CASE Die(p)
    <3>1. /\ Steps(p, Resting) /\ Resting \in Op /\ UNCHANGED <<staged, begun, waived>>
          /\ \/ UNCHANGED data
             \/ op[p].phase = "land" /\ \E x \in op[p].left : Write(op[p], x, Torn)
      BY <2>13, DieDoes
    <3>2. data' \in DataType
      BY <2>1, <3>1, Typed, Wrote DEF DataType, WorksOn
    <3>3. WorksOn(Resting)'
      BY DEF WorksOn, Resting
    <3>4. QED
      BY <2>1, <3>1, <3>2, <3>3, TypedAside DEF DataType
  <2>14. QED
    BY <1>2, <2>2, <2>3, <2>4, <2>5, <2>6, <2>7, <2>8, <2>9, <2>10, <2>11, <2>12, <2>13
<1>3. QED
  BY <1>1, <1>2 DEF RestoreNext

LEMMA TypedInit ==
    ASSUME RestoreInit
    PROVE  RestoreTyped
<1>1. Resting \in Op
  BY DEF Resting, Op
<1>2. RestoreTypeOK
  BY <1>1 DEF RestoreInit, RestoreTypeOK
<1>3. \A p \in Operators : WorksOn(op[p])
  BY DEF RestoreInit, WorksOn, Resting
<1>4. QED
  BY <1>2, <1>3 DEF RestoreTyped

\* Type correctness of every create and restore, for any number of operators,
\* Hosts and Apps (commands/backup.rs `run_backup_restore`).
THEOREM RestoreTypeCorrect == RestoreSpec => []RestoreTypeOK
<1>1. RestoreInit => RestoreTyped
  BY TypedInit
<1>2. RestoreTyped /\ [RestoreNext]_RestoreVars => RestoreTyped'
  BY TypedNext
<1>3. RestoreTyped => RestoreTypeOK
  BY DEF RestoreTyped
<1>4. QED
  BY <1>1, <1>2, <1>3, PTL DEF RestoreSpec

----------------------------------------------------------------------------
(* Nothing is lost.                                                        *)

\* One command at a time; a process killed while it copies leaves a torn copy
\* that a later restore may push over the only whole data (README).
OneOperator == \A p, q \in Operators : p = q
CopiesEnd == Troubles \cap {"die", "remove"} = {}

UnderWay(d, s) ==
    \E p \in Operators : op[p].phase = "copy" /\ op[p].into = d /\ op[p].app = s

\* What Host h held of path x of App s is whole in a directory of its own.
Safe(h, s, x) == \E d \in DOMAIN staged : d[1] = h /\ staged[d][s][x] = h /\ ~UnderWay(d, s)
Spared(h, s, x) == h \in waived \/ Safe(h, s, x)

AllKept == \A h \in Sites, s \in Services, x \in Parts : data[h][s][x] = h \/ Spared(h, s, x)

\* A finished copy that is not what the Host held before any restore was taken
\* of a Host already restored to, and that Host is safe.
OthersAreSpared ==
    \A d \in DOMAIN staged, s \in Services, x \in Parts :
        staged[d][s][x] \notin {d[1], Absent} => UnderWay(d, s) \/ Spared(d[1], s, x)

\* A declared path is copied first.
CoreComesFirst ==
    \A d \in DOMAIN staged, s \in Services, x \in Parts :
        staged[d][s][x] # Absent => staged[d][s]["core"] # Absent

RestorePhases == {"validate", "confirm", "backup", "copy", "decide", "apply", "land", "redeploy"}
Restoring(o) == o.cmd = "restore" /\ o.phase \in RestorePhases

\* A command fills a directory of its own.
FillsItsOwn(o) ==
    /\ o.phase \in {"validate", "confirm"} => \A d \in DOMAIN staged : d[2] < begun
    /\ o.phase \in {"backup", "copy"} =>
           /\ o.host \in Sites /\ o.into \in Dirs /\ o.into[1] = o.host /\ o.into[2] <= begun
           /\ \A s \in o.todo : o.into \in DOMAIN staged => staged[o.into][s] = Gone
    /\ o.phase = "copy" => o.into \in DOMAIN staged /\ o.app \in Services \ o.todo

PlanStands(o) ==
    /\ o.phase \in RestorePhases \ {"backup", "copy"} => o.cmd = "restore"
    /\ o.phase \in {"validate", "confirm"} => o.todo = o.plan
    /\ Restoring(o) =>
           /\ o.host \in Sites /\ o.from \in DOMAIN staged /\ o.todo \subseteq o.plan
           /\ \A s \in o.plan : staged[o.from][s]["core"] # Absent
    /\ Restoring(o) /\ o.phase \in {"validate", "backup", "copy", "decide"} => o.from[1] # o.host
    /\ o.phase = "land" =>
           o.app \in o.plan /\ \A x \in o.left : staged[o.from][o.app][x] # Absent

\* What of the plan's Apps the emergency backup has yet to put away.
Pending(o) == o.todo \cup o.failed \cup (IF o.phase = "copy" THEN {o.app} ELSE {})

\* Nothing is overwritten that is not put away.
PutAwayFirst(o) ==
    /\ Restoring(o) /\ o.phase \in {"backup", "copy"} =>
           /\ StagedParameters(o) => o.include
           /\ \A s \in o.plan \ Pending(o), x \in Parts :
                  x = "core" \/ o.include => Spared(o.host, s, x)
    /\ o.phase \in {"apply", "land", "redeploy"} =>
           \A s \in o.plan, x \in Parts :
               staged[o.from][s][x] # Absent => Spared(o.host, s, x)

Numbered == \A d \in DOMAIN staged : d[2] <= begun

RestoreInv ==
    /\ AllKept /\ OthersAreSpared /\ CoreComesFirst /\ Numbered
    /\ \A p \in Operators : FillsItsOwn(op[p]) /\ PlanStands(op[p]) /\ PutAwayFirst(op[p])

LEMMA UnderWayIs ==
    ASSUME OneOperator, NEW p \in Operators
    PROVE  \A d, s : UnderWay(d, s) <=> op[p].phase = "copy" /\ op[p].into = d /\ op[p].app = s
  BY DEF OneOperator, UnderWay

LEMMA UnderWayNext ==
    ASSUME OneOperator, NEW p \in Operators, NEW n \in Op, Steps(p, n)
    PROVE  \A d, s : UnderWay(d, s)' <=> n.phase = "copy" /\ n.into = d /\ n.app = s
  BY DEF OneOperator, UnderWay, Steps

\* A step that copies nothing leaves every Host as safe as it was.
LEMMA AsideSpares ==
    ASSUME OneOperator, NEW p \in Operators, NEW n \in Op, Steps(p, n),
           op[p].phase # "copy", n.phase # "copy", UNCHANGED staged, waived \subseteq waived'
    PROVE  /\ \A d, s : ~UnderWay(d, s) /\ ~UnderWay(d, s)'
           /\ \A h, s, x : Spared(h, s, x) => Spared(h, s, x)'
<1>1. \A d, s : ~UnderWay(d, s) /\ ~UnderWay(d, s)'
  BY UnderWayIs, UnderWayNext
<1>2. QED
  BY <1>1 DEF Spared, Safe

\* What such a step has to show: what it overwrites is put away, and the
\* command it leaves stands.
LEMMA AsideIsKept ==
    ASSUME OneOperator, RestoreInv, NEW p \in Operators, NEW n \in Op, Steps(p, n),
           op[p].phase # "copy", n.phase # "copy", UNCHANGED staged, waived \subseteq waived',
           begun \in Nat, begun' \in Nat, begun <= begun', DOMAIN staged \subseteq Dirs,
           \A h \in Sites, s \in Services, x \in Parts :
               data'[h][s][x] = data[h][s][x] \/ Spared(h, s, x),
           FillsItsOwn(n)', PlanStands(n)', PutAwayFirst(n)'
    PROVE  RestoreInv'
<1>1. /\ \A d, s : ~UnderWay(d, s) /\ ~UnderWay(d, s)'
      /\ \A h, s, x : Spared(h, s, x) => Spared(h, s, x)'
  BY AsideSpares
<1>2. AllKept'
  BY <1>1 DEF RestoreInv, AllKept
<1>3. OthersAreSpared'
  BY <1>1 DEF RestoreInv, OthersAreSpared
<1>4. CoreComesFirst'
  BY DEF RestoreInv, CoreComesFirst
<1>5. Numbered'
  BY DEF RestoreInv, Numbered, Dirs
<1>6. \A q \in Operators : op'[q] = n
  BY DEF OneOperator, Steps
<1>7. QED
  BY <1>2, <1>3, <1>4, <1>5, <1>6 DEF RestoreInv

LEMMA BackUpKeeps ==
    ASSUME OneOperator, RestoreTyped, RestoreInv, NEW p \in Operators, BackUp(p)
    PROVE  RestoreInv'
<1>1. PICK n \in Op :
          /\ Steps(p, n) /\ n.cmd = "create" /\ n.phase = "backup" /\ n.host \in Sites
          /\ n.into = <<n.host, begun + 1>> /\ n.into \in Dirs /\ n.todo \subseteq Services
          /\ op[p].phase \in {"idle", "done"}
          /\ begun' = begun + 1 /\ UNCHANGED <<data, staged, waived>>
  BY BackUpDoes
<1>2. begun \in Nat /\ begun' \in Nat /\ DOMAIN staged \subseteq Dirs
  BY <1>1, Typed
<1>3. n.into \notin DOMAIN staged
  BY <1>1, <1>2 DEF RestoreInv, Numbered
<1>4. FillsItsOwn(n)'
  BY <1>1, <1>2, <1>3 DEF FillsItsOwn
<1>5. PlanStands(n)' /\ PutAwayFirst(n)'
  BY <1>1 DEF PlanStands, PutAwayFirst, Restoring, RestorePhases
<1>6. QED
  BY <1>1, <1>2, <1>4, <1>5, AsideIsKept

LEMMA RestoreKeeps ==
    ASSUME OneOperator, RestoreTyped, RestoreInv, NEW p \in Operators, Restore(p)
    PROVE  RestoreInv'
<1>1. PICK n \in Op :
          /\ Steps(p, n) /\ n.cmd = "restore" /\ n.host \in Sites /\ n.from \in DOMAIN staged
          /\ n.phase = "validate" => n.from[1] # n.host
          /\ n.phase \in {"done", "validate", "confirm"}
          /\ n.todo = n.plan /\ \A s \in n.plan : staged[n.from][s] # Gone
          /\ op[p].phase \in {"idle", "done"}
          /\ begun' = begun + 1 /\ UNCHANGED <<data, staged, waived>>
  BY RestoreDoes
<1>2. begun \in Nat /\ begun' \in Nat /\ DOMAIN staged \subseteq Dirs
  BY <1>1, Typed
<1>3. FillsItsOwn(n)'
  BY <1>1, <1>2 DEF FillsItsOwn, RestoreInv, Numbered, Dirs
<1>4. ASSUME NEW s \in n.plan
      PROVE  staged[n.from][s]["core"] # Absent
  <2>1. s \in Services /\ staged[n.from] \in [Services -> Copy] /\ n.from \in DOMAIN staged
    BY <1>1, Typed DEF Op
  <2>2. PICK x \in Parts : staged[n.from][s][x] # Absent
    BY <1>1, <2>1 DEF Gone, Copy
  <2>3. QED
    BY <2>1, <2>2 DEF RestoreInv, CoreComesFirst
<1>5. PlanStands(n)'
  BY <1>1, <1>4 DEF PlanStands, Restoring, RestorePhases
<1>6. PutAwayFirst(n)'
  BY <1>1 DEF PutAwayFirst
<1>7. QED
  BY <1>1, <1>2, <1>3, <1>5, <1>6, AsideIsKept

LEMMA ValidateKeeps ==
    ASSUME OneOperator, RestoreTyped, RestoreInv, NEW p \in Operators, Validate(p)
    PROVE  RestoreInv'
<1>1. PICK n \in Op :
          /\ Steps(p, n) /\ Errand(n, op[p]) /\ n.todo = op[p].todo /\ n.phase \in {"confirm", "done"}
          /\ op[p].phase = "validate" /\ UNCHANGED <<data, staged, begun, waived>>
  BY ValidateDoes
<1>2. begun \in Nat /\ DOMAIN staged \subseteq Dirs
  BY Typed
<1>3. FillsItsOwn(op[p]) /\ PlanStands(op[p])
  BY DEF RestoreInv
<1>4. FillsItsOwn(n)' /\ PutAwayFirst(n)'
  BY <1>1, <1>3 DEF FillsItsOwn, PutAwayFirst
<1>5. PlanStands(n)'
  BY <1>1, <1>3 DEF PlanStands, Errand, Restoring, RestorePhases
<1>6. QED
  BY <1>1, <1>2, <1>4, <1>5, AsideIsKept

LEMMA ConfirmKeeps ==
    ASSUME OneOperator, RestoreTyped, RestoreInv, NEW p \in Operators, Confirm(p)
    PROVE  RestoreInv'
<1>1. PICK n \in Op :
          /\ Steps(p, n) /\ Errand(n, op[p]) /\ n.todo = op[p].todo
          /\ \/ n.phase = "done"
             \/ /\ n.phase = "backup" /\ n.from[1] # n.host /\ n.into = <<n.host, begun>>
                /\ n.into \in Dirs /\ n.include = StagedParameters(op[p])
             \/ n.phase = "apply" /\ n.from[1] = n.host
          /\ op[p].phase = "confirm" /\ UNCHANGED <<data, staged, begun, waived>>
  BY ConfirmDoes
<1>2. begun \in Nat /\ DOMAIN staged \subseteq Dirs
  BY Typed
<1>3. FillsItsOwn(op[p]) /\ PlanStands(op[p])
  BY DEF RestoreInv
<1>4. /\ op[p].cmd = "restore" /\ op[p].todo = op[p].plan /\ n.host \in Sites /\ n.plan \subseteq Services
      /\ n.from \in DOMAIN staged /\ \A d \in DOMAIN staged : d[2] < begun
  BY <1>1, <1>3 DEF FillsItsOwn, PlanStands, Errand, Restoring, RestorePhases, Op
<1>5. FillsItsOwn(n)'
  BY <1>1, <1>2, <1>4 DEF FillsItsOwn
<1>6. PlanStands(n)'
  BY <1>1, <1>3, <1>4 DEF PlanStands, Errand, Restoring, RestorePhases
<1>7. PutAwayFirst(n)'
  <2>1. CASE n.phase = "done"
    BY <2>1 DEF PutAwayFirst
  <2>2. CASE n.phase = "backup"
    BY <1>1, <1>4, <2>2 DEF PutAwayFirst, Pending, StagedParameters, Errand
  <2>3. CASE n.phase = "apply"
    <3>1. ASSUME NEW s \in n.plan, NEW x \in Parts, staged[n.from][s][x] # Absent
          PROVE  Spared(n.host, s, x)
      <4>1. ~UnderWay(n.from, s)
        BY <1>1, UnderWayIs
      <4>2. CASE staged[n.from][s][x] = n.host
        BY <1>1, <1>4, <2>3, <4>1, <4>2 DEF Spared, Safe
      <4>3. CASE staged[n.from][s][x] # n.host
        BY <1>1, <1>4, <2>3, <3>1, <4>1, <4>3 DEF RestoreInv, OthersAreSpared
      <4>4. QED
        BY <4>2, <4>3
    <3>2. \A h, s, x : Spared(h, s, x) => Spared(h, s, x)'
      BY <1>1, <2>3, AsideSpares
    <3>3. QED
      BY <1>1, <2>3, <3>1, <3>2 DEF PutAwayFirst
  <2>4. QED
    BY <1>1, <2>1, <2>2, <2>3
<1>8. QED
  BY <1>1, <1>2, <1>5, <1>6, <1>7, AsideIsKept

LEMMA BackedKeeps ==
    ASSUME OneOperator, RestoreTyped, RestoreInv, NEW p \in Operators, Backed(p)
    PROVE  RestoreInv'
<1>1. PICK n \in Op :
          /\ Steps(p, n) /\ Errand(n, op[p])
          /\ \/ n.phase = "done"
             \/ n.phase = "apply" /\ op[p].failed = {} /\ n.todo = n.plan /\ n.cmd = "restore"
             \/ n.phase = "decide" /\ n.todo = op[p].todo /\ n.cmd = "restore"
          /\ op[p].phase = "backup" /\ op[p].todo = {}
          /\ UNCHANGED <<data, staged, begun, waived>>
  BY BackedDoes
<1>2. begun \in Nat /\ DOMAIN staged \subseteq Dirs
  BY Typed
<1>3. PlanStands(op[p]) /\ PutAwayFirst(op[p])
  BY DEF RestoreInv
<1>4. FillsItsOwn(n)'
  BY <1>1 DEF FillsItsOwn
<1>5. PlanStands(n)'
  BY <1>1, <1>3 DEF PlanStands, Errand, Restoring, RestorePhases
<1>6. PutAwayFirst(n)'
  <2>1. CASE n.phase # "apply"
    BY <1>1, <2>1 DEF PutAwayFirst, Restoring
  <2>2. CASE n.phase = "apply"
    <3>1. Restoring(op[p]) /\ Pending(op[p]) = {}
      BY <1>1, <2>2 DEF Restoring, RestorePhases, Pending, Errand
    <3>2. ASSUME NEW s \in n.plan, NEW x \in Parts, staged[n.from][s][x] # Absent
          PROVE  Spared(n.host, s, x)
      BY <1>1, <1>3, <3>1, <3>2 DEF PutAwayFirst, StagedParameters, Errand, Parts
    <3>3. \A h, s, x : Spared(h, s, x) => Spared(h, s, x)'
      BY <1>1, <2>2, AsideSpares
    <3>4. QED
      BY <1>1, <2>2, <3>2, <3>3 DEF PutAwayFirst
  <2>3. QED
    BY <2>1, <2>2
<1>7. QED
  BY <1>1, <1>2, <1>4, <1>5, <1>6, AsideIsKept

LEMMA DecideKeeps ==
    ASSUME OneOperator, RestoreTyped, RestoreInv, NEW p \in Operators, Decide(p)
    PROVE  RestoreInv'
<1>1. PICK n \in Op :
          /\ Steps(p, n) /\ Errand(n, op[p])
          /\ \/ n.phase = "done" /\ UNCHANGED waived
             \/ n.phase = "apply" /\ n.todo = n.plan /\ waived' = waived \cup {n.host}
          /\ op[p].phase = "decide" /\ UNCHANGED <<data, staged, begun>>
  BY DecideDoes
<1>2. begun \in Nat /\ DOMAIN staged \subseteq Dirs
  BY Typed
<1>3. PlanStands(op[p])
  BY DEF RestoreInv
<1>4. FillsItsOwn(n)'
  BY <1>1 DEF FillsItsOwn
<1>5. PlanStands(n)'
  BY <1>1, <1>3 DEF PlanStands, Errand, Restoring, RestorePhases
<1>6. PutAwayFirst(n)'
  BY <1>1 DEF PutAwayFirst, Spared
<1>7. QED
  BY <1>1, <1>2, <1>4, <1>5, <1>6, AsideIsKept

LEMMA ApplyKeeps ==
    ASSUME OneOperator, RestoreTyped, RestoreInv, NEW p \in Operators, Apply(p)
    PROVE  RestoreInv'
<1>1. PICK n \in Op :
          /\ Steps(p, n) /\ Errand(n, op[p])
          /\ \/ /\ n.phase = "land" /\ n.app \in op[p].todo /\ n.todo = op[p].todo \ {n.app}
                /\ n.left = StagedPaths(staged[op[p].from][n.app])
             \/ n.phase = "redeploy" /\ n.todo = op[p].todo
          /\ op[p].phase = "apply" /\ UNCHANGED <<data, staged, begun, waived>>
  BY ApplyDoes
<1>2. begun \in Nat /\ DOMAIN staged \subseteq Dirs
  BY Typed
<1>3. PlanStands(op[p]) /\ PutAwayFirst(op[p])
  BY DEF RestoreInv
<1>4. FillsItsOwn(n)'
  BY <1>1 DEF FillsItsOwn
<1>5. PlanStands(n)'
  BY <1>1, <1>3 DEF PlanStands, Errand, Restoring, RestorePhases, StagedPaths
<1>6. PutAwayFirst(n)'
  <2>1. \A h, s, x : Spared(h, s, x) => Spared(h, s, x)'
    BY <1>1, AsideSpares
  <2>2. QED
    BY <1>1, <1>3, <2>1 DEF PutAwayFirst, Errand
<1>7. QED
  BY <1>1, <1>2, <1>4, <1>5, <1>6, AsideIsKept

\* What a push overwrites is spared: it is of a path that is staged.
LEMMA OverwritesSpared ==
    ASSUME RestoreTyped, RestoreInv, NEW p \in Operators, op[p].phase = "land",
           NEW y \in op[p].left, NEW value \in Sites \cup {Torn}, Write(op[p], y, value),
           NEW h \in Sites, NEW s \in Services, NEW x \in Parts
    PROVE  data'[h][s][x] = data[h][s][x] \/ Spared(h, s, x)
<1>1. /\ op[p] \in Op /\ op[p].host \in Sites /\ op[p].app \in Services /\ y \in Parts
  BY Typed DEF WorksOn
<1>2. op[p].app \in op[p].plan /\ staged[op[p].from][op[p].app][y] # Absent
  BY DEF RestoreInv, PlanStands
<1>3. Spared(op[p].host, op[p].app, y)
  BY <1>1, <1>2 DEF RestoreInv, PutAwayFirst
<1>4. QED
  BY <1>1, <1>3, Wrote

LEMMA LandKeeps ==
    ASSUME OneOperator, RestoreTyped, RestoreInv, NEW p \in Operators, Land(p)
    PROVE  RestoreInv'
<1>1. PICK n \in Op :
          /\ Steps(p, n) /\ Errand(n, op[p])
          /\ \/ n.phase = "apply" /\ n.todo = op[p].todo /\ UNCHANGED data
             \/ /\ n.phase = "land" /\ n.todo = op[p].todo /\ n.app = op[p].app
                /\ \E x \in op[p].left :
                       /\ staged[op[p].from][op[p].app][x] # Absent
                       /\ Write(op[p], x, staged[op[p].from][op[p].app][x])
                       /\ n.left = op[p].left \ {x}
             \/ /\ n.phase = "done"
                /\ \/ UNCHANGED data
                   \/ \E x \in op[p].left : Write(op[p], x, Torn)
          /\ op[p].phase = "land" /\ UNCHANGED <<staged, begun, waived>>
  BY LandDoes
<1>2. begun \in Nat /\ DOMAIN staged \subseteq Dirs
  BY Typed
<1>3. PlanStands(op[p]) /\ PutAwayFirst(op[p])
  BY DEF RestoreInv
<1>4. FillsItsOwn(n)'
  BY <1>1 DEF FillsItsOwn
<1>5. PlanStands(n)'
  BY <1>1, <1>3 DEF PlanStands, Errand, Restoring, RestorePhases
<1>6. PutAwayFirst(n)'
  <2>1. \A h, s, x : Spared(h, s, x) => Spared(h, s, x)'
    BY <1>1, AsideSpares
  <2>2. QED
    BY <1>1, <1>3, <2>1 DEF PutAwayFirst, Errand, Restoring
<1>7. ASSUME NEW h \in Sites, NEW s \in Services, NEW x \in Parts
      PROVE  data'[h][s][x] = data[h][s][x] \/ Spared(h, s, x)
  <2>1. UNCHANGED data \/ (\E y \in op[p].left, value \in Sites \cup {Torn} : Write(op[p], y, value))
    <3>1. \A y \in op[p].left : staged[op[p].from][op[p].app][y] \in Sites \cup {Torn, Absent}
      BY <1>1, Typed DEF WorksOn, Copy
    <3>2. QED
      BY <1>1, <3>1
  <2>2. CASE UNCHANGED data
    BY <2>2
  <2>3. CASE \E y \in op[p].left, value \in Sites \cup {Torn} : Write(op[p], y, value)
    BY <1>1, <1>3, <2>3, OverwritesSpared
  <2>4. QED
    BY <2>1, <2>2, <2>3
<1>8. QED
  BY <1>1, <1>2, <1>4, <1>5, <1>6, <1>7, AsideIsKept

LEMMA CoreIsHeld ==
    ASSUME RestoreTyped, NEW h \in Sites, NEW s \in Services
    PROVE  data[h][s]["core"] # Absent
<1>1. "core" \in Parts /\ data[h][s] \in [Parts -> Sites \cup {Torn}]
  BY DEF RestoreTyped, RestoreTypeOK, Parts
<1>2. QED
  BY <1>1 DEF Torn, Absent

\* A step that fills the directory of its own leaves alone what spares a Host.
LEMMA FilingSpares ==
    ASSUME OneOperator, RestoreTyped, RestoreInv, NEW p \in Operators, NEW n \in Op, Steps(p, n),
           op[p].phase \in {"backup", "copy"}, NEW s \in Services, NEW copy \in Copy,
           n.into = op[p].into, File(n.into, s, copy), UNCHANGED waived,
           op[p].phase = "copy" => s = op[p].app,
           op[p].phase = "backup" => s \in op[p].todo,
           n.phase = "copy" => n.app = s
    PROVE  \A h \in Sites, b \in Services, x \in Parts : Spared(h, b, x) => Spared(h, b, x)'
<1>1. /\ op[p].into \in Dirs
      /\ op[p].phase = "backup" /\ op[p].into \in DOMAIN staged => staged[op[p].into][s] = Gone
  BY DEF RestoreInv, FillsItsOwn
<1>2. /\ DOMAIN staged' = DOMAIN staged \cup {n.into}
      /\ \A e \in DOMAIN staged, b \in Services : e # n.into \/ b # s => staged'[e][b] = staged[e][b]
  <2>1. n.into \in Dirs /\ RestoreTypeOK
    BY <1>1 DEF RestoreTyped
  <2>2. QED
    BY <2>1, Filed
<1>3. ASSUME NEW h \in Sites, NEW b \in Services, NEW x \in Parts, Safe(h, b, x)
      PROVE  Safe(h, b, x)'
  <2>1. PICK d \in DOMAIN staged : d[1] = h /\ staged[d][b][x] = h /\ ~UnderWay(d, b)
    BY <1>3 DEF Safe
  <2>2. ~(d = n.into /\ b = s)
    <3>1. CASE op[p].phase = "copy"
      BY <2>1, <3>1, UnderWayIs
    <3>2. CASE op[p].phase = "backup"
      BY <1>1, <2>1, <3>2 DEF Gone, Absent
    <3>3. QED
      BY <3>1, <3>2
  <2>3. ~UnderWay(d, b)'
    BY <2>2, UnderWayNext
  <2>4. QED
    BY <1>2, <2>1, <2>2, <2>3 DEF Safe
<1>4. QED
  BY <1>3 DEF Spared

LEMMA OpenCopyKeeps ==
    ASSUME OneOperator, RestoreTyped, RestoreInv, NEW p \in Operators, OpenCopy(p)
    PROVE  RestoreInv'
<1>1. PICK n \in Op :
          /\ Steps(p, n) /\ Errand(n, op[p]) /\ n.phase = "copy"
          /\ n.app \in op[p].todo /\ n.todo = op[p].todo \ {n.app}
          /\ n.into = op[p].into /\ n.include = op[p].include /\ n.failed = op[p].failed
          /\ \E copy \in Unfinished(op[p], n.app) : File(n.into, n.app, copy)
          /\ op[p].phase = "backup" /\ UNCHANGED <<data, begun, waived>>
  BY OpenCopyDoes
<1>2. FillsItsOwn(op[p]) /\ PlanStands(op[p]) /\ PutAwayFirst(op[p])
  BY DEF RestoreInv
<1>3. /\ op[p] \in Op /\ n.app \in Services /\ n.host = op[p].host /\ n.host \in Sites /\ n.into \in Dirs
      /\ n.into[1] = n.host /\ n.into[2] <= begun
      /\ \A b \in op[p].todo : n.into \in DOMAIN staged => staged[n.into][b] = Gone
      /\ n.plan \subseteq Services /\ n.todo \subseteq Services
  <2>1. op[p] \in Op /\ n.plan \subseteq Services /\ op[p].todo \subseteq Services
    BY Typed DEF Op
  <2>2. QED
    BY <1>1, <1>2, <2>1 DEF FillsItsOwn, Errand
<1>4. PICK copy \in Unfinished(op[p], n.app) : File(n.into, n.app, copy)
  BY <1>1
<1>5. copy \in Copy
  BY <1>3, CopiesTyped DEF RestoreTyped
<1>6. /\ DOMAIN staged' = DOMAIN staged \cup {n.into} /\ staged'[n.into][n.app] = copy
      /\ \A e \in DOMAIN staged, b \in Services :
             e # n.into \/ b # n.app => staged'[e][b] = staged[e][b]
      /\ n.into \notin DOMAIN staged =>
             \A b \in Services : b # n.app => staged'[n.into][b] = Gone
  BY <1>3, <1>4, <1>5, Filed DEF RestoreTyped
<1>7. \A h \in Sites, b \in Services, x \in Parts : Spared(h, b, x) => Spared(h, b, x)'
  BY <1>1, <1>3, <1>4, <1>5, FilingSpares
<1>8. AllKept'
  BY <1>1, <1>7 DEF RestoreInv, AllKept
<1>9. OthersAreSpared'
  <2>1. ASSUME NEW d \in DOMAIN staged', NEW b \in Services, NEW x \in Parts,
               staged'[d][b][x] \notin {d[1], Absent}, ~UnderWay(d, b)'
        PROVE  Spared(d[1], b, x)'
    <3>1. ~(d = n.into /\ b = n.app)
      BY <1>1, <2>1, UnderWayNext
    <3>2. d \in DOMAIN staged
      BY <1>6, <2>1, <3>1 DEF Gone
    <3>3. staged'[d][b] = staged[d][b] /\ ~UnderWay(d, b) /\ d[1] \in Sites
      BY <1>1, <1>6, <3>1, <3>2, UnderWayIs, Typed DEF Dirs
    <3>4. QED
      BY <1>7, <2>1, <3>2, <3>3 DEF RestoreInv, OthersAreSpared
  <2>2. QED
    BY <2>1 DEF OthersAreSpared
<1>10. CoreComesFirst'
  <2>1. \A x \in Parts : copy[x] # Absent => copy["core"] # Absent
    <3>1. CASE copy \in {Gone, [Gone EXCEPT !["core"] = Torn]}
      BY <3>1 DEF Gone, Parts, Torn, Absent
    <3>2. CASE copy = [CopiedOf(op[p], n.app) EXCEPT !["extra"] = Torn]
      <4>1. data[n.host][n.app]["core"] # Absent
        BY <1>3, CoreIsHeld
      <4>2. copy["core"] = data[n.host][n.app]["core"]
        BY <1>3, <3>2 DEF CopiedOf, Parts
      <4>3. QED
        BY <4>1, <4>2
    <3>3. QED
      BY <3>1, <3>2 DEF Unfinished
  <2>2. QED
    BY <1>6, <2>1 DEF RestoreInv, CoreComesFirst, Gone
<1>11. Numbered'
  BY <1>1, <1>3, <1>6 DEF RestoreInv, Numbered
<1>12. FillsItsOwn(n)'
  BY <1>1, <1>3, <1>6 DEF FillsItsOwn
<1>13. Restoring(n) => n.from \in DOMAIN staged' /\ \A b \in n.plan : staged'[n.from][b] = staged[n.from][b]
  BY <1>1, <1>2, <1>3, <1>6 DEF PlanStands, Restoring, RestorePhases, Errand
<1>14. PlanStands(n)'
  BY <1>1, <1>2, <1>13 DEF PlanStands, Errand, Restoring, RestorePhases
<1>15. PutAwayFirst(n)'
  <2>1. Restoring(n) => Restoring(op[p]) /\ (StagedParameters(n)' => StagedParameters(op[p]))
    BY <1>1, <1>13 DEF Restoring, RestorePhases, StagedParameters, Errand
  <2>2. Pending(op[p]) = Pending(n)
    BY <1>1 DEF Pending
  <2>3. QED
    BY <1>1, <1>2, <1>3, <1>7, <2>1, <2>2 DEF PutAwayFirst, Errand, Restoring
<1>16. \A q \in Operators : op'[q] = n
  BY <1>1 DEF OneOperator, Steps
<1>17. QED
  BY <1>8, <1>9, <1>10, <1>11, <1>12, <1>14, <1>15, <1>16 DEF RestoreInv

\* A finished copy is what the Host holds; where that is not its own any more,
\* it is spared already.
LEMMA CloseCopyKeeps ==
    ASSUME OneOperator, CopiesEnd, RestoreTyped, RestoreInv, NEW p \in Operators, CloseCopy(p)
    PROVE  RestoreInv'
<1>1. PICK n \in Op :
          /\ Steps(p, n) /\ Errand(n, op[p]) /\ n.phase = "backup"
          /\ n.todo = op[p].todo /\ n.into = op[p].into /\ n.include = op[p].include
          /\ \/ /\ File(n.into, op[p].app, CopiedOf(op[p], op[p].app))
                /\ n.failed = op[p].failed
             \/ /\ File(n.into, op[p].app, Gone)
                /\ n.failed = op[p].failed \cup {op[p].app}
          /\ op[p].phase = "copy" /\ UNCHANGED <<data, begun, waived>>
  BY CloseCopyDoes DEF CopiesEnd
<1>2. FillsItsOwn(op[p]) /\ PlanStands(op[p]) /\ PutAwayFirst(op[p])
  BY DEF RestoreInv
<1> PICK s \in Services : s = op[p].app
  BY <1>1, <1>2 DEF FillsItsOwn
<1>3. /\ op[p] \in Op /\ s \notin n.todo /\ n.host = op[p].host /\ n.host \in Sites /\ n.into \in Dirs
      /\ n.into[1] = n.host /\ n.into[2] <= begun /\ n.into \in DOMAIN staged
      /\ \A b \in n.todo : staged[n.into][b] = Gone
      /\ n.plan \subseteq Services /\ n.todo \subseteq Services
  <2>1. op[p] \in Op /\ n.plan \subseteq Services /\ op[p].todo \subseteq Services
    BY Typed DEF Op
  <2>2. QED
    BY <1>1, <1>2, <2>1 DEF FillsItsOwn, Errand
<1>4. PICK copy \in {CopiedOf(op[p], s), Gone} :
          /\ File(n.into, s, copy)
          /\ copy = Gone => n.failed = op[p].failed \cup {s}
          /\ copy # Gone => n.failed = op[p].failed
  <2>1. CopiedOf(op[p], s) # Gone
    <3>1. data[n.host][s]["core"] # Absent
      BY <1>3, CoreIsHeld
    <3>2. CopiedOf(op[p], s)["core"] = data[n.host][s]["core"]
      BY <1>3 DEF CopiedOf, Parts
    <3>3. QED
      BY <3>1, <3>2 DEF Gone, Parts
  <2>2. QED
    BY <1>1, <2>1
<1>5. copy \in Copy
  BY <1>3, CopiesTyped DEF RestoreTyped, Gone, Copy
<1>6. /\ DOMAIN staged' = DOMAIN staged /\ staged'[n.into][s] = copy
      /\ \A e \in DOMAIN staged, b \in Services :
             e # n.into \/ b # s => staged'[e][b] = staged[e][b]
  <2>1. DOMAIN staged' = DOMAIN staged \cup {n.into}
    BY <1>3, <1>4, <1>5, Filed DEF RestoreTyped
  <2>2. DOMAIN staged \cup {n.into} = DOMAIN staged
    BY <1>3
  <2>3. n.into \in Dirs /\ RestoreTypeOK /\ File(n.into, s, copy)
    BY <1>3, <1>4 DEF RestoreTyped
  <2>4. staged'[n.into][s] = copy
    BY <2>3 DEF File
  <2>5. \A e \in DOMAIN staged, b \in Services :
            e # n.into \/ b # s => staged'[e][b] = staged[e][b]
    BY <1>5, <2>3, Filed
  <2>6. QED
    BY <2>1, <2>2, <2>4, <2>5
<1>7. \A h \in Sites, b \in Services, x \in Parts : Spared(h, b, x) => Spared(h, b, x)'
  BY <1>1, <1>3, <1>4, <1>5, FilingSpares
<1>8. AllKept'
  BY <1>1, <1>7 DEF RestoreInv, AllKept
<1>9. ASSUME NEW x \in Parts, copy # Gone, x = "core" \/ op[p].include
      PROVE  copy[x] = data[n.host][s][x]
  BY <1>3, <1>4, <1>9 DEF CopiedOf
<1>10. \A x \in Parts : copy[x] \in {Absent, data[n.host][s][x]}
  BY <1>3, <1>4 DEF CopiedOf, Gone
<1>11. \A d, b : ~UnderWay(d, b)'
  BY <1>1, UnderWayNext
<1>12. OthersAreSpared'
  <2>1. ASSUME NEW d \in DOMAIN staged', NEW b \in Services, NEW x \in Parts,
               staged'[d][b][x] \notin {d[1], Absent}
        PROVE  Spared(d[1], b, x)'
    <3>1. d \in DOMAIN staged /\ d[1] \in Sites
      BY <1>6, Typed DEF Dirs
    <3>2. CASE d = n.into /\ b = s
      BY <1>3, <1>6, <1>7, <1>10, <2>1, <3>2 DEF RestoreInv, AllKept
    <3>3. CASE ~(d = n.into /\ b = s)
      <4>1. staged'[d][b] = staged[d][b] /\ ~UnderWay(d, b)
        BY <1>1, <1>6, <3>1, <3>3, UnderWayIs
      <4>2. QED
        BY <1>7, <2>1, <3>1, <4>1 DEF RestoreInv, OthersAreSpared
    <3>4. QED
      BY <3>2, <3>3
  <2>2. QED
    BY <2>1 DEF OthersAreSpared
<1>13. CoreComesFirst'
  <2>1. \A x \in Parts : copy[x] # Absent => copy["core"] # Absent
    <3>1. data[n.host][s]["core"] # Absent
      BY <1>3, CoreIsHeld
    <3>2. QED
      BY <1>9, <3>1 DEF Gone, Parts
  <2>2. QED
    BY <1>6, <2>1 DEF RestoreInv, CoreComesFirst
<1>14. Numbered'
  BY <1>1, <1>6 DEF RestoreInv, Numbered
<1>15. FillsItsOwn(n)'
  BY <1>1, <1>3, <1>6 DEF FillsItsOwn
<1>16. Restoring(n) => n.from \in DOMAIN staged' /\ \A b \in n.plan : staged'[n.from][b] = staged[n.from][b]
  BY <1>1, <1>2, <1>3, <1>6 DEF PlanStands, Restoring, RestorePhases, Errand
<1>17. PlanStands(n)'
  BY <1>1, <1>2, <1>16 DEF PlanStands, Errand, Restoring, RestorePhases
<1>18. PutAwayFirst(n)'
  <2>1. Restoring(n) => Restoring(op[p]) /\ (StagedParameters(n)' => StagedParameters(op[p]))
    BY <1>1, <1>16 DEF Restoring, RestorePhases, StagedParameters, Errand
  <2>2. ASSUME NEW b \in n.plan \ Pending(n), NEW x \in Parts, x = "core" \/ n.include, Restoring(n)
        PROVE  Spared(n.host, b, x)'
    <3>1. CASE b # s \/ copy = Gone
      <4>1. b \notin Pending(op[p])
        BY <1>1, <1>4, <2>2, <3>1 DEF Pending
      <4>2. QED
        BY <1>1, <1>2, <1>3, <1>7, <2>1, <2>2, <4>1 DEF PutAwayFirst, Errand
    <3>2. CASE b = s /\ copy # Gone
      <4>1. copy[x] = data[n.host][s][x]
        BY <1>1, <1>9, <2>2, <3>2
      <4>2. CASE data[n.host][s][x] = n.host
        BY <1>3, <1>6, <1>11, <3>2, <4>1, <4>2 DEF Spared, Safe
      <4>3. CASE data[n.host][s][x] # n.host
        BY <1>3, <1>7, <3>2, <4>3 DEF RestoreInv, AllKept
      <4>4. QED
        BY <4>2, <4>3
    <3>3. QED
      BY <3>1, <3>2
  <2>3. QED
    BY <1>1, <1>2, <2>1, <2>2 DEF PutAwayFirst
<1>19. \A q \in Operators : op'[q] = n
  BY <1>1 DEF OneOperator, Steps
<1>20. QED
  BY <1>8, <1>12, <1>13, <1>14, <1>15, <1>17, <1>18, <1>19 DEF RestoreInv

LEMMA RedeployKeeps ==
    ASSUME OneOperator, RestoreTyped, RestoreInv, NEW p \in Operators, Redeploy(p)
    PROVE  RestoreInv'
<1>1. PICK n \in Op :
          /\ Steps(p, n) /\ n.phase = "done" /\ op[p].phase = "redeploy"
          /\ UNCHANGED <<data, staged, begun, waived>>
  BY RedeployDoes
<1>2. begun \in Nat /\ DOMAIN staged \subseteq Dirs
  BY Typed
<1>3. FillsItsOwn(n)' /\ PlanStands(n)' /\ PutAwayFirst(n)'
  BY <1>1 DEF FillsItsOwn, PlanStands, PutAwayFirst, Restoring, RestorePhases
<1>4. QED
  BY <1>1, <1>2, <1>3, AsideIsKept

LEMMA DieKeeps ==
    ASSUME OneOperator, CopiesEnd, RestoreTyped, RestoreInv, NEW p \in Operators, Die(p)
    PROVE  RestoreInv'
<1>1. /\ Steps(p, Resting) /\ Resting \in Op /\ op[p].phase \in {"apply", "land", "redeploy"}
      /\ \/ UNCHANGED data
         \/ op[p].phase = "land" /\ \E x \in op[p].left : Write(op[p], x, Torn)
      /\ UNCHANGED <<staged, begun, waived>>
  BY DieDoes DEF CopiesEnd
<1>2. begun \in Nat /\ DOMAIN staged \subseteq Dirs
  BY Typed
<1>3. Resting.phase = "idle"
  BY DEF Resting
<1>4. FillsItsOwn(Resting)' /\ PlanStands(Resting)' /\ PutAwayFirst(Resting)'
  BY <1>3 DEF FillsItsOwn, PlanStands, PutAwayFirst, Restoring, RestorePhases
<1>5. \A h \in Sites, s \in Services, x \in Parts : data'[h][s][x] = data[h][s][x] \/ Spared(h, s, x)
  BY <1>1, OverwritesSpared
<1>6. QED
  BY <1>1, <1>2, <1>3, <1>4, <1>5, AsideIsKept

LEMMA RestoreInvNext ==
    ASSUME OneOperator, CopiesEnd, RestoreTyped, RestoreInv, [RestoreNext]_RestoreVars
    PROVE  RestoreInv'
<1>1. CASE UNCHANGED RestoreVars
  BY <1>1 DEF RestoreVars, RestoreInv, AllKept, OthersAreSpared, CoreComesFirst, Numbered, FillsItsOwn,
              PlanStands, PutAwayFirst, Spared, Safe, UnderWay, Restoring, Pending, StagedParameters
<1>2. CASE RestoreNext
  BY <1>2, BackUpKeeps, RestoreKeeps, ValidateKeeps, ConfirmKeeps, OpenCopyKeeps, CloseCopyKeeps,
     BackedKeeps, DecideKeeps, ApplyKeeps, LandKeeps, RedeployKeeps, DieKeeps DEF RestoreNext
<1>3. QED
  BY <1>1, <1>2

LEMMA RestoreInvInit ==
    ASSUME RestoreInit
    PROVE  RestoreInv
  BY DEF RestoreInit, RestoreInv, AllKept, OthersAreSpared, CoreComesFirst, Numbered, FillsItsOwn,
         PlanStands, PutAwayFirst, Restoring, RestorePhases, Resting

\* Whatever one operator creates, restores, cancels or is cut off from in
\* however many commands, what a Host held before any restore is on it or in a
\* staged backup of it, unless a restore was waved through without one
\* (backup.rs `emergency_backup`, restore.rs `staged_parameters`).
THEOREM NothingIsEverLost ==
    ASSUME OneOperator, CopiesEnd
    PROVE  RestoreSpec => []NothingIsLost
<1>1. RestoreInit => RestoreTyped /\ RestoreInv
  BY TypedInit, RestoreInvInit
<1>2. RestoreTyped /\ RestoreInv /\ [RestoreNext]_RestoreVars => RestoreTyped' /\ RestoreInv'
  BY TypedNext, RestoreInvNext
<1>3. RestoreInv => NothingIsLost
  BY DEF RestoreInv, AllKept, Spared, Safe, NothingIsLost
<1>4. QED
  BY <1>1, <1>2, <1>3, PTL DEF RestoreSpec

----------------------------------------------------------------------------
(* A restore that says so has restored: the Apps behind the one under way  *)
(* hold what is staged, and so do the paths behind the one being pushed.   *)

Settled(o, s, x) == staged[o.from][s][x] # Absent => data[o.host][s][x] = staged[o.from][s][x]

Landed(o) ==
    /\ o.phase \in {"validate", "confirm"} => o.todo = o.plan
    /\ o.phase \in {"apply", "land", "redeploy"} =>
           \A s \in o.plan \ o.todo, x \in Parts :
               (o.phase = "land" /\ s = o.app /\ x \in o.left) \/ Settled(o, s, x)
    /\ o.phase = "land" => o.app \in o.plan \ o.todo
    /\ o.phase \in {"apply", "land"} => o.todo \subseteq o.plan
    /\ o.phase = "redeploy" => o.todo = {}
    /\ o.outcome = "restored" => o.phase = "done" /\ \A s \in o.plan, x \in Parts : Settled(o, s, x)

LandedInv == \A p \in Operators : Landed(op[p])

LEMMA RestingIs == Resting.phase = "idle" /\ Resting.outcome = ""
  BY DEF Resting

LEMMA LandKeepsLanded ==
    ASSUME RestoreTyped, NEW p \in Operators, Landed(op[p]), Land(p)
    PROVE  Landed(op[p])'
<1> DEFINE o == op[p]
<1>1. PICK n \in Op :
          /\ Steps(p, n) /\ Errand(n, o)
          /\ \/ /\ o.left = {} /\ n.phase = "apply" /\ n.todo = o.todo
                /\ n.outcome = o.outcome /\ UNCHANGED data
             \/ /\ n.phase = "land" /\ n.todo = o.todo /\ n.app = o.app /\ n.outcome = o.outcome
                /\ \E x \in o.left : /\ staged[o.from][o.app][x] # Absent
                                     /\ Write(o, x, staged[o.from][o.app][x])
                                     /\ n.left = o.left \ {x}
             \/ n.phase = "done" /\ n.outcome = "failed"
          /\ o.phase = "land" /\ UNCHANGED <<staged, begun, waived>>
  BY LandDoes
<1>2. /\ o \in Op /\ o.host \in Sites /\ o.app \in Services /\ o.left \subseteq Parts
      /\ o.plan \subseteq Services /\ o.from \in DOMAIN staged
      /\ n.host = o.host /\ n.from = o.from /\ n.plan = o.plan /\ op'[p] = n
  BY <1>1, Typed DEF WorksOn, Errand, Steps
<1>3. /\ o.app \in o.plan \ o.todo /\ o.todo \subseteq o.plan /\ o.outcome # "restored"
      /\ \A s \in o.plan \ o.todo, x \in Parts : (s = o.app /\ x \in o.left) \/ Settled(o, s, x)
  BY <1>1 DEF Landed
<1>4. ASSUME o.left = {}, n.phase = "apply", n.todo = o.todo, n.outcome = o.outcome, UNCHANGED data
      PROVE  Landed(n)'
  BY <1>1, <1>2, <1>3, <1>4 DEF Landed, Settled
<1>5. ASSUME n.phase = "land", n.todo = o.todo, n.app = o.app, n.outcome = o.outcome, NEW x \in o.left,
             staged[o.from][o.app][x] # Absent, Write(o, x, staged[o.from][o.app][x]), n.left = o.left \ {x}
      PROVE  Landed(n)'
  <2> DEFINE value == staged[o.from][o.app][x]
  <2>1. value \in Sites \cup {Torn}
    BY <1>2, <1>5, Typed DEF Copy
  <2> HIDE DEF value
  <2>2. Write(o, x, value)
    BY <1>5 DEF value
  <2>3. /\ data'[o.host][o.app][x] = value
        /\ \A s \in Services, y \in Parts :
               s # o.app \/ y # x => data'[o.host][s][y] = data[o.host][s][y]
    BY <1>2, <1>5, <2>1, <2>2, Wrote
  <2>4. ASSUME NEW s \in n.plan \ n.todo, NEW y \in Parts, ~(s = n.app /\ y \in n.left)
        PROVE  Settled(n, s, y)'
    <3>1. CASE s = o.app /\ y = x
      BY <1>1, <1>2, <2>3, <3>1 DEF Settled, value
    <3>2. CASE ~(s = o.app /\ y = x)
      BY <1>1, <1>2, <1>3, <1>5, <2>3, <2>4, <3>2 DEF Settled
    <3>3. QED
      BY <3>1, <3>2
  <2>5. QED
    BY <1>2, <1>3, <1>5, <2>4 DEF Landed
<1>6. ASSUME n.phase = "done", n.outcome = "failed"
      PROVE  Landed(n)'
  BY <1>6 DEF Landed
<1>7. Landed(n)'
  BY <1>1, <1>4, <1>5, <1>6
<1>8. QED
  BY <1>2, <1>7 DEF Landed, Settled

LEMMA LandedNext ==
    ASSUME OneOperator, RestoreTyped, LandedInv, [RestoreNext]_RestoreVars
    PROVE  LandedInv'
<1>1. CASE UNCHANGED RestoreVars
  BY <1>1 DEF RestoreVars, LandedInv, Landed, Settled
<1>2. ASSUME NEW p \in Operators,
             \/ BackUp(p) \/ Restore(p) \/ Validate(p) \/ Confirm(p) \/ OpenCopy(p) \/ CloseCopy(p)
             \/ Backed(p) \/ Decide(p) \/ Apply(p) \/ Land(p) \/ Redeploy(p) \/ Die(p)
      PROVE  Landed(op[p])'
  <2> USE DEF Steps
  <2>1. Landed(op[p])
    BY DEF LandedInv
  <2>2. CASE BackUp(p)
    <3>1. op'[p].phase = "backup" /\ op'[p].outcome = ""
      BY <2>2, BackUpDoes
    <3>2. QED
      BY <3>1 DEF Landed
  <2>3. CASE Restore(p)
    <3>1. /\ op'[p].phase \in {"done", "validate", "confirm"} /\ op'[p].outcome # "restored"
          /\ op'[p].todo = op'[p].plan
      BY <2>3, RestoreDoes
    <3>2. QED
      BY <3>1 DEF Landed
  <2>4. CASE Validate(p)
    <3>1. /\ Errand(op'[p], op[p]) /\ op'[p].todo = op[p].todo /\ op[p].phase = "validate"
          /\ \/ op'[p].phase = "confirm" /\ op'[p].outcome = op[p].outcome
             \/ op'[p].phase = "done" /\ op'[p].outcome # "restored"
      BY <2>4, ValidateDoes
    <3>2. QED
      BY <2>1, <3>1 DEF Landed, Errand
  <2>5. CASE Confirm(p)
    <3>1. /\ Errand(op'[p], op[p]) /\ op'[p].todo = op[p].todo /\ op[p].phase = "confirm"
          /\ \/ op'[p].phase = "done" /\ op'[p].outcome # "restored"
             \/ op'[p].phase \in {"backup", "apply"} /\ op'[p].outcome = op[p].outcome
      BY <2>5, ConfirmDoes
    <3>2. QED
      BY <2>1, <3>1 DEF Landed, Errand
  <2>6. CASE OpenCopy(p) \/ CloseCopy(p)
    <3>1. /\ op[p].phase \in {"backup", "copy"} /\ op'[p].phase \in {"backup", "copy"}
          /\ op'[p].outcome = op[p].outcome
      BY <2>6, OpenCopyDoes, CloseCopyDoes
    <3>2. QED
      BY <2>1, <3>1 DEF Landed
  <2>7. CASE Backed(p)
    <3>1. /\ op[p].phase = "backup"
          /\ \/ op'[p].phase = "done" /\ op'[p].outcome # "restored"
             \/ op'[p].phase = "apply" /\ op'[p].todo = op'[p].plan /\ op'[p].outcome = op[p].outcome
             \/ op'[p].phase = "decide" /\ op'[p].outcome = op[p].outcome
      BY <2>7, BackedDoes
    <3>2. QED
      BY <2>1, <3>1 DEF Landed
  <2>8. CASE Decide(p)
    <3>1. /\ op[p].phase = "decide"
          /\ \/ op'[p].phase = "done" /\ op'[p].outcome # "restored"
             \/ op'[p].phase = "apply" /\ op'[p].todo = op'[p].plan /\ op'[p].outcome = op[p].outcome
      BY <2>8, DecideDoes
    <3>2. QED
      BY <2>1, <3>1 DEF Landed
  <2>9. CASE Apply(p)
    <3>1. PICK n \in Op :
              /\ Steps(p, n) /\ Errand(n, op[p]) /\ n.outcome = op[p].outcome
              /\ \/ /\ n.phase = "land" /\ n.app \in op[p].todo /\ n.todo = op[p].todo \ {n.app}
                    /\ n.left = StagedPaths(staged[op[p].from][n.app])
                 \/ n.phase = "redeploy" /\ n.todo = op[p].todo /\ op[p].todo = {}
              /\ op[p].phase = "apply"
              /\ UNCHANGED <<data, staged, begun, waived>>
      BY <2>9, ApplyDoes
    <3>2. op'[p] = n
      BY <3>1
    <3>3. QED
      BY <2>1, <3>1, <3>2 DEF Landed, Settled, Errand, StagedPaths
  <2>10. CASE Land(p)
    BY <2>1, <2>10, LandKeepsLanded
  <2>11. CASE Redeploy(p)
    <3>1. PICK n \in Op :
              /\ Steps(p, n) /\ Errand(n, op[p]) /\ n.phase = "done" /\ op[p].phase = "redeploy"
              /\ UNCHANGED <<data, staged, begun, waived>>
      BY <2>11, RedeployDoes
    <3>2. op'[p] = n
      BY <3>1
    <3>3. QED
      BY <2>1, <3>1, <3>2 DEF Landed, Settled, Errand
  <2>12. CASE Die(p)
    <3>1. op'[p] = Resting
      BY <2>12, DieDoes
    <3>2. op'[p].phase = "idle" /\ op'[p].outcome = ""
      BY <3>1, RestingIs
    <3>3. QED
      BY <3>2 DEF Landed
  <2>13. QED
    BY <1>2, <2>2, <2>3, <2>4, <2>5, <2>6, <2>7, <2>8, <2>9, <2>10, <2>11, <2>12
<1>3. QED
  BY <1>1, <1>2 DEF RestoreNext, LandedInv, OneOperator

\* A restore one operator is told has completed has put every path the staged
\* backup holds of every App of its plan on the Host (restore.rs `restore`).
THEOREM RestoredMeansRestored ==
    ASSUME OneOperator
    PROVE  RestoreSpec => []RestoredIsTheBackup
<1>1. RestoreInit => RestoreTyped /\ LandedInv
  <2>1. RestoreInit => LandedInv
    <3>1. RestoreInit => \A p \in Operators : op[p].phase = "idle" /\ op[p].outcome = ""
      BY RestingIs DEF RestoreInit
    <3>2. QED
      BY <3>1 DEF LandedInv, Landed
  <2>2. QED
    BY <2>1, TypedInit
<1>2. RestoreTyped /\ LandedInv /\ [RestoreNext]_RestoreVars => RestoreTyped' /\ LandedInv'
  BY TypedNext, LandedNext
<1>3. LandedInv => RestoredIsTheBackup
  BY DEF LandedInv, Landed, Settled, RestoredIsTheBackup
<1>4. QED
  BY <1>1, <1>2, <1>3, PTL DEF RestoreSpec

============================================================================
