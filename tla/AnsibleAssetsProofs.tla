------------------------ MODULE AnsibleAssetsProofs ------------------------
(***************************************************************************)
(* That no sweep takes a tree from under a live AnsibleAssets value, for   *)
(* any number of processes, versions, failures and deaths.                 *)
(***************************************************************************)
EXTENDS AnsibleAssets, TLAPS

\* Who writes into a staging directory has one.  Publish renames it into the
\* place of a tree, so the types hold only together with this.
Staged == \A p \in Procs :
    at[p] \in {"extract", "publish", "retire", "purge"} => stage[p] \in Stages

Typed == TypeOK /\ Staged

LEMMA TypedInit == Init => Typed
  BY DEF Init, Typed, TypeOK, Staged, Places, Entries

\* Each step keeps the types.
LEMMA TypedStep ==
    ASSUME Typed, [Next]_vars
    PROVE  Typed'
<1> USE AssetsAssumption DEF Typed, Staged, TypeOK, Goto, Return, Places, Entries
<1>1. CASE UNCHANGED vars
  BY <1>1 DEF vars
<1>2. CASE Next
  <2> PICK p \in Procs :
        \/ \E t \in Trees : Begin(p, t)
        \/ Prepare(p) \/ Step(p) \/ OpenFails(p) \/ SweepFails(p)
        \/ Play(p) \/ PlayEnds(p) \/ Drop(p) \/ Exit(p) \/ Kill(p)
    BY <1>2 DEF Next
  <2>1. ASSUME NEW t \in Trees, Begin(p, t) PROVE Typed'
    BY <2>1 DEF Begin
  <2>2. CASE Prepare(p)
    BY <2>2 DEF Prepare
  <2>3. CASE LockRoot(p)
    BY <2>3 DEF LockRoot
  <2>4. CASE Reuse(p)
    BY <2>4 DEF Reuse
  <2>5. CASE Extract(p)
    BY <2>5 DEF Extract, Free
  <2>6. CASE Extracted(p)
    BY <2>6 DEF Extracted
  <2>7. CASE Publish(p)
    BY <2>7 DEF Publish
  <2>8. CASE Pin(p)
    BY <2>8 DEF Pin, Present
  <2>9. ASSUME NEW e \in Entries, Spare(p, e) \/ Bury(p, e) PROVE Typed'
    BY <2>9 DEF Spare, Bury, Free
  <2>10. CASE Retire(p)
    BY <2>10 DEF Retire
  <2>11. CASE Purge(p)
    BY <2>11 DEF Purge
  <2>12. CASE Swept(p)
    BY <2>12 DEF Swept
  <2>13. CASE OpenFails(p)
    BY <2>13 DEF OpenFails, Dropped
  <2>14. CASE SweepFails(p)
    BY <2>14 DEF SweepFails, Dropped
  <2>15. CASE Play(p)
    BY <2>15 DEF Play
  <2>16. CASE PlayEnds(p)
    BY <2>16 DEF PlayEnds
  <2>17. CASE Drop(p)
    BY <2>17 DEF Drop
  <2>18. CASE Exit(p)
    BY <2>18 DEF Exit
  <2>19. CASE Kill(p)
    BY <2>19 DEF Kill
  <2>20. QED
    BY <2>1, <2>2, <2>3, <2>4, <2>5, <2>6, <2>7, <2>8, <2>9, <2>10, <2>11, <2>12,
       <2>13, <2>14, <2>15, <2>16, <2>17, <2>18, <2>19 DEF Step
<1>3. QED
  BY <1>1, <1>2

\* The type invariant holds of every behaviour.
THEOREM TypeCorrect == Spec => []TypeOK
<1>1. Typed /\ [Next]_vars => Typed'
  BY TypedStep
<1>2. Typed => TypeOK
  BY DEF Typed
<1>3. QED
  BY TypedInit, <1>1, <1>2, PTL DEF Spec

----------------------------------------------------------------------------
\* The container's lock: held exactly between LockRoot and Return.
Owned == \A p \in Procs : at[p] \in Locked <=> root = p

\* What the holder of the container's lock knows of the trees: the one it
\* staged is complete, the one it is about to pin is there, the one it retires
\* nobody uses, and its own is not on the list.  A process that ended has none.
Known == \A p \in Procs :
    /\ at[p] = "off" => held[p] = 0
    /\ at[p] = "publish" => dir[stage[p]] = "whole"
    /\ at[p] = "pin" => dir[fp[p]] = "whole"
    /\ at[p] \in Sweeping => fp[p] \notin left[p]
    /\ at[p] = "retire" => victim[p] \in left[p] /\ Unused(victim[p])

\* The inductive invariant.
Inv == Typed /\ Owned /\ Known /\ TreesAreWhole /\ GuardedTreeStays

LEMMA OwnedStep ==
    ASSUME Typed, Owned, [Next]_vars
    PROVE  Owned'
<1> USE AssetsAssumption DEF Owned, Goto, Return, Locked
<1> at \in [Procs -> Places] /\ root \in Procs \cup {Nobody}
  BY DEF Typed, TypeOK
<1> Nobody \notin Procs
  OBVIOUS
<1>1. CASE UNCHANGED vars
  BY <1>1 DEF vars
<1>2. CASE Next
  <2> PICK p \in Procs :
        \/ \E t \in Trees : Begin(p, t)
        \/ Prepare(p) \/ Step(p) \/ OpenFails(p) \/ SweepFails(p)
        \/ Play(p) \/ PlayEnds(p) \/ Drop(p) \/ Exit(p) \/ Kill(p)
    BY <1>2 DEF Next
  <2>1. ASSUME NEW t \in Trees, Begin(p, t) PROVE Owned'
    BY <2>1 DEF Begin
  <2>2. CASE LockRoot(p)
    BY <2>2 DEF LockRoot
  <2>3. CASE Reuse(p) \/ Extract(p) \/ Extracted(p) \/ Publish(p) \/ Pin(p)
    BY <2>3 DEF Reuse, Extract, Extracted, Publish, Pin
  <2>4. ASSUME NEW e \in Entries, Spare(p, e) \/ Bury(p, e) PROVE Owned'
    BY <2>4 DEF Spare, Bury
  <2>5. CASE Retire(p) \/ Purge(p)
    BY <2>5 DEF Retire, Purge
  <2>6. CASE Swept(p) \/ OpenFails(p) \/ SweepFails(p)
    BY <2>6 DEF Swept, OpenFails, SweepFails
  <2>7. CASE Kill(p)
    BY <2>7 DEF Kill
  <2>8. CASE Prepare(p) \/ Play(p) \/ PlayEnds(p) \/ Drop(p) \/ Exit(p)
    BY <2>8 DEF Prepare, Play, PlayEnds, Drop, Exit
  <2>9. QED
    BY <2>1, <2>2, <2>3, <2>4, <2>5, <2>6, <2>7, <2>8 DEF Step
<1>3. QED
  BY <1>1, <1>2

\* What only the holder of the container's lock may do leaves a guarded tree in
\* place: a process pins a tree it found or published under the lock, and
\* retires one nobody had pinned when it looked.
LEMMA TreesStep ==
    ASSUME Inv, [Next]_vars
    PROVE  (Known /\ TreesAreWhole /\ GuardedTreeStays)'
<1> USE AssetsAssumption DEF Known, TreesAreWhole, GuardedTreeStays, InUse, Unused,
                             Goto, Return, Sweeping
<1>1. TypeOK /\ Staged /\ Owned /\ Known /\ TreesAreWhole /\ GuardedTreeStays
  BY DEF Inv, Typed
<1>2. CASE UNCHANGED vars
  BY <1>1, <1>2 DEF vars
<1>3. CASE Next
  <2> USE <1>1 DEF TypeOK, Entries
  <2>1. PICK p \in Procs :
        \/ \E t \in Trees : Begin(p, t)
        \/ Prepare(p) \/ Step(p) \/ OpenFails(p) \/ SweepFails(p)
        \/ Play(p) \/ PlayEnds(p) \/ Drop(p) \/ Exit(p) \/ Kill(p)
    BY <1>3 DEF Next
  \* Nobody else is where the container's lock is needed.
  <2>2. ASSUME at[p] \in Locked PROVE \A q \in Procs \ {p} : at[q] \notin Locked
    BY <2>2 DEF Owned
  <2>3. ASSUME NEW t \in Trees, Begin(p, t)
        PROVE  (Known /\ TreesAreWhole /\ GuardedTreeStays)'
    BY <2>3 DEF Begin
  <2>4. CASE Prepare(p) \/ LockRoot(p) \/ Play(p) \/ PlayEnds(p) \/ Drop(p) \/ Exit(p)
    <3>1. CASE Prepare(p) \/ LockRoot(p) \/ Play(p) \/ PlayEnds(p)
      BY <3>1 DEF Prepare, LockRoot, Play, PlayEnds
    <3>2. CASE Drop(p)
      BY <3>2 DEF Drop
    <3>3. CASE Exit(p)
      BY <3>3 DEF Exit
    <3>4. QED
      BY <2>4, <3>1, <3>2, <3>3
  <2>5. CASE Reuse(p)
    BY <2>2, <2>5 DEF Reuse, Locked
  <2>6. CASE Extract(p)
    BY <2>2, <2>6 DEF Extract, Free, Locked
  <2>7. CASE Extracted(p)
    BY <2>2, <2>7 DEF Extracted, Staged, Locked
  <2>8. CASE Publish(p)
    BY <2>2, <2>8 DEF Publish, Staged, Locked
  <2>9. CASE Pin(p)
    BY <2>2, <2>9 DEF Pin, Present, Locked
  <2>10. ASSUME NEW e \in Entries, Spare(p, e)
         PROVE  (Known /\ TreesAreWhole /\ GuardedTreeStays)'
    BY <2>2, <2>10 DEF Spare, Locked
  <2>11. ASSUME NEW e \in Entries, Bury(p, e)
         PROVE  (Known /\ TreesAreWhole /\ GuardedTreeStays)'
    BY <2>2, <2>11 DEF Bury, Free, Locked
  <2>12. CASE Retire(p)
    BY <2>2, <2>12 DEF Retire, Locked
  <2>13. CASE Purge(p)
    BY <2>2, <2>13 DEF Purge, Staged, Locked
  <2>14. CASE Swept(p)
    BY <2>2, <2>14 DEF Swept, Locked
  <2>15. CASE OpenFails(p)
    BY <2>2, <2>15 DEF OpenFails, Dropped, Staged, Locked
  <2>16. CASE SweepFails(p)
    BY <2>2, <2>16 DEF SweepFails, Dropped, Staged, Locked
  <2>17. CASE Kill(p)
    BY <2>17 DEF Kill
  <2>18. QED
    BY <2>1, <2>3, <2>4, <2>5, <2>6, <2>7, <2>8, <2>9, <2>10, <2>11, <2>12, <2>13,
       <2>14, <2>15, <2>16, <2>17 DEF Step
<1>4. QED
  BY <1>2, <1>3

LEMMA InvInit == Init => Inv
<1> SUFFICES ASSUME Init PROVE Inv
  OBVIOUS
<1>1. TreesAreWhole /\ GuardedTreeStays
  BY DEF Init, TreesAreWhole, GuardedTreeStays
<1>2. Owned /\ Known
  BY AssetsAssumption DEF Init, Owned, Known, Locked, Sweeping
<1>3. QED
  BY <1>1, <1>2, TypedInit DEF Inv

LEMMA InvStep == Inv /\ [Next]_vars => Inv'
  BY TypedStep, OwnedStep, TreesStep DEF Inv

\* A fingerprint directory is never seen half written or half deleted, whoever
\* fails or is killed while it extracts, publishes or retires one (extract_tree,
\* collect_unused).
THEOREM TreesWhole == Spec => []TreesAreWhole
<1>1. Inv => TreesAreWhole
  BY DEF Inv
<1>2. QED
  BY InvInit, InvStep, <1>1, PTL DEF Spec

\* No sweep takes a tree from under a live AnsibleAssets value (open_tree,
\* sweep_unused).
THEOREM TreesStay == Spec => []GuardedTreeStays
<1>1. Inv => GuardedTreeStays
  BY DEF Inv
<1>2. QED
  BY InvInit, InvStep, <1>1, PTL DEF Spec

----------------------------------------------------------------------------
(* What a sweep leaves behind.                                             *)

\* Whatever a sweep has still to delete is on its list, but for the staging
\* directory it made itself; an entry it retired is gone already.
Listed == \A p \in Procs :
    /\ at[p] \notin {"extract", "publish", "retire", "purge"} => stage[p] = Nobody
    /\ at[p] \in Sweeping =>
         \A e \in Stages \cup Legacy : dir[e] # "none" => e \in left[p] \cup {stage[p]}
    /\ at[p] \in {"retire", "purge"} => victim[p] \in left[p]
    /\ at[p] = "purge" => dir[victim[p]] = "none"

LEMMA ListedStep ==
    ASSUME Inv, Listed, [Next]_vars
    PROVE  Listed'
<1> USE AssetsAssumption DEF Listed, Goto, Return, Sweeping
<1>1. TypeOK /\ Staged /\ Owned /\ Known
  BY DEF Inv, Typed
<1>2. CASE UNCHANGED vars
  BY <1>1, <1>2 DEF vars
<1>3. CASE Next
  <2> USE <1>1 DEF TypeOK, Entries
  <2>1. PICK p \in Procs :
        \/ \E t \in Trees : Begin(p, t)
        \/ Prepare(p) \/ Step(p) \/ OpenFails(p) \/ SweepFails(p)
        \/ Play(p) \/ PlayEnds(p) \/ Drop(p) \/ Exit(p) \/ Kill(p)
    BY <1>3 DEF Next
  <2>2. ASSUME at[p] \in Locked PROVE \A q \in Procs \ {p} : at[q] \notin Locked
    BY <2>2 DEF Owned
  <2>3. ASSUME NEW t \in Trees, Begin(p, t) PROVE Listed'
    BY <2>3 DEF Begin
  <2>4. CASE Prepare(p) \/ LockRoot(p) \/ Play(p) \/ PlayEnds(p) \/ Drop(p) \/ Exit(p)
    <3>1. CASE Prepare(p) \/ LockRoot(p)
      BY <3>1 DEF Prepare, LockRoot
    <3>2. CASE Play(p) \/ PlayEnds(p)
      BY <3>2 DEF Play, PlayEnds
    <3>3. CASE Drop(p) \/ Exit(p)
      BY <3>3 DEF Drop, Exit
    <3>4. QED
      BY <2>4, <3>1, <3>2, <3>3
  <2>5. CASE Reuse(p)
    BY <2>2, <2>5 DEF Reuse, Locked
  <2>6. CASE Extract(p)
    BY <2>2, <2>6 DEF Extract, Free, Locked
  <2>7. CASE Extracted(p)
    BY <2>2, <2>7 DEF Extracted, Staged, Locked
  <2>8. CASE Publish(p)
    BY <2>2, <2>8 DEF Publish, Staged, Locked
  <2>9. CASE Pin(p)
    BY <2>2, <2>9 DEF Pin, Present, Locked
  <2>10. ASSUME NEW e \in Entries, Spare(p, e) PROVE Listed'
    <3>1. e \in Trees
      BY <2>10 DEF Spare, Unused
    <3>2. QED
      BY <2>2, <2>10, <3>1 DEF Spare, Locked
  <2>11. ASSUME NEW e \in Entries, Bury(p, e) PROVE Listed'
    BY <2>2, <2>11 DEF Bury, Free, Locked
  <2>12. CASE Retire(p)
    BY <2>2, <2>12 DEF Retire, Locked
  <2>13. CASE Purge(p)
    BY <2>2, <2>13 DEF Purge, Staged, Locked
  <2>14. CASE Swept(p)
    BY <2>2, <2>14 DEF Swept, Locked
  <2>15. CASE OpenFails(p)
    BY <2>2, <2>15 DEF OpenFails, Dropped, Staged, Locked
  <2>16. CASE SweepFails(p)
    BY <2>2, <2>16 DEF SweepFails, Dropped, Staged, Locked
  <2>17. CASE Kill(p)
    BY <2>17 DEF Kill, Locked
  <2>18. QED
    BY <2>1, <2>3, <2>4, <2>5, <2>6, <2>7, <2>8, <2>9, <2>10, <2>11, <2>12, <2>13,
       <2>14, <2>15, <2>16, <2>17 DEF Step
<1>4. QED
  BY <1>2, <1>3

\* The step in which a sweep returns moves nothing.
LEMMA SweepReturns ==
    ASSUME Inv, [Next]_vars, NEW p \in Procs, at[p] = "sweep", at'[p] = "ready"
    PROVE  dir' = dir
<1> USE DEF Goto, Return
<1>1. at \in [Procs -> Places]
  BY DEF Inv, Typed, TypeOK
<1>2. PICK q \in Procs :
        \/ \E t \in Trees : Begin(q, t)
        \/ Prepare(q) \/ Step(q) \/ OpenFails(q) \/ SweepFails(q)
        \/ Play(q) \/ PlayEnds(q) \/ Drop(q) \/ Exit(q) \/ Kill(q)
  BY DEF Next, vars
<1>3. CASE (\E t \in Trees : Begin(q, t)) \/ Prepare(q) \/ Play(q) \/ PlayEnds(q)
           \/ Drop(q) \/ Exit(q) \/ Kill(q)
  BY <1>3 DEF Begin, Prepare, Play, PlayEnds, Drop, Exit, Kill
<1>4. CASE LockRoot(q) \/ Reuse(q) \/ Pin(q) \/ Swept(q)
  BY <1>4 DEF LockRoot, Reuse, Pin, Swept
<1>5. CASE Extract(q) \/ Extracted(q) \/ Publish(q)
  BY <1>1, <1>5 DEF Extract, Extracted, Publish
<1>6. ASSUME NEW e \in Entries, Spare(q, e) \/ Bury(q, e) PROVE dir' = dir
  BY <1>1, <1>6 DEF Spare, Bury
<1>7. CASE Retire(q) \/ Purge(q)
  BY <1>1, <1>7 DEF Retire, Purge
<1>8. ASSUME OpenFails(q) \/ SweepFails(q) PROVE dir' = dir
  <2>1. q = p
    BY <1>1, <1>8 DEF OpenFails, SweepFails
  <2>2. QED
    BY <1>8, <2>1 DEF OpenFails, SweepFails
<1>9. QED
  BY <1>2, <1>3, <1>4, <1>5, <1>6, <1>7, <1>8 DEF Step

\* A sweep that gets through leaves no staging directory and nothing of the flat
\* layout, whoever failed or was killed before it (sweep_unused).
THEOREM SweptClean == Spec => SweepLeavesNoDebris
<1>1. Init => Listed
  BY DEF Init, Listed, Sweeping
<1>2. Inv /\ Listed /\ [Next]_vars => Listed'
  BY ListedStep
<1>3. ASSUME Inv, Listed, [Next]_vars
      PROVE  \A p \in Procs : (at[p] = "sweep" /\ left[p] = {} /\ at'[p] = "ready")
                => \A e \in Stages \cup Legacy : dir'[e] = "none"
  <2> SUFFICES ASSUME NEW p \in Procs,
                      at[p] = "sweep", left[p] = {}, at'[p] = "ready"
               PROVE  \A e \in Stages \cup Legacy : dir'[e] = "none"
    OBVIOUS
  <2>1. \A e \in Stages \cup Legacy : dir[e] = "none"
    BY <1>3, AssetsAssumption DEF Listed, Sweeping, Entries
  <2>2. dir' = dir
    BY <1>3, SweepReturns
  <2>3. QED
    BY <2>1, <2>2
<1>4. QED
  BY InvInit, InvStep, <1>1, <1>2, <1>3, PTL DEF Spec, SweepLeavesNoDebris
============================================================================
