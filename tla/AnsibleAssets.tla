--------------------------- MODULE AnsibleAssets ---------------------------
(***************************************************************************)
(* The extracted ansible trees (src/ansible_assets.rs, ADR-0034): one      *)
(* directory for each fingerprint, published by rename, guarded by a       *)
(* shared flock for as long as an AnsibleAssets value lives, and swept by  *)
(* whichever process opens a tree next.  Opening, extracting and sweeping  *)
(* happen under an exclusive flock on the container.  A process may fail   *)
(* or be killed at any step; the kernel then drops its locks.              *)
(***************************************************************************)
EXTENDS Naturals, FiniteSets

CONSTANTS
    Procs,      \* CLI processes
    Trees,      \* fingerprints: the names trees are published under
    Stages,     \* names under the .staging prefix
    Legacy,     \* names of the flat layout that came before
    Nobody,     \* holds no lock, reads no tree
    MaxOpens,   \* bound: calls of open_tree
    MaxFaults,  \* bound: failures and deaths
    Faults      \* "io": a file operation returns an error; "kill": a process dies

Entries == Trees \cup Stages \cup Legacy

ASSUME AssetsAssumption ==
    /\ Trees \cap Stages = {} /\ Trees \cap Legacy = {} /\ Stages \cap Legacy = {}
    /\ Nobody \notin Procs \cup Entries
    /\ {MaxOpens, MaxFaults} \subseteq Nat
    /\ Faults \subseteq {"io", "kill"}

VARIABLES
    dir,     \* the container: what each name in it is
    root,    \* who holds the container's lock
    at,      \* where each process is
    fp,      \* the fingerprint of its binary
    held,    \* the AnsibleAssets values it keeps, each a shared lock on its tree
    stage,   \* the staging directory it writes or retires into
    victim,  \* the entry it is retiring
    left,    \* the entries its sweep has still to look at
    child,   \* the tree an ansible-playbook it spawned reads from
    opens,   \* calls of open_tree so far
    faults   \* failures and deaths so far

vars == <<dir, root, at, fp, held, stage, victim, left, child, opens, faults>>

Places == {"off", "ready", "playing", "waiting", "opened", "extract",
           "publish", "pin", "sweep", "retire", "purge"}
\* Between taking the container's lock and the return that drops it.
Locked == {"opened", "extract", "publish", "pin", "sweep", "retire", "purge"}
Sweeping == {"sweep", "retire", "purge"}

TypeOK ==
    /\ dir \in [Entries -> {"none", "part", "whole"}]
    /\ root \in Procs \cup {Nobody}
    /\ at \in [Procs -> Places]
    /\ fp \in [Procs -> Trees]
    /\ held \in [Procs -> Nat]
    /\ stage \in [Procs -> Stages \cup {Nobody}]
    /\ victim \in [Procs -> Entries \cup {Nobody}]
    /\ left \in [Procs -> SUBSET Entries]
    /\ child \in [Procs -> Trees \cup {Nobody}]
    /\ opens \in Nat /\ faults \in Nat

\* A machine that ran auberge before, or did not: trees of any versions, the
\* flat layout.  What failed and killed runs leave comes of the actions.
Init ==
    /\ dir \in {d \in [Entries -> {"none", "part", "whole"}] :
                  /\ \A e \in Trees \cup Legacy : d[e] # "part"
                  /\ \A s \in Stages : d[s] = "none"}
    /\ root = Nobody
    /\ at = [p \in Procs |-> "off"]
    /\ fp \in [Procs -> Trees]
    /\ held = [p \in Procs |-> 0]
    /\ stage = [p \in Procs |-> Nobody]
    /\ victim = [p \in Procs |-> Nobody]
    /\ left = [p \in Procs |-> {}]
    /\ child = [p \in Procs |-> Nobody]
    /\ opens = 0 /\ faults = 0

----------------------------------------------------------------------------
Goto(p, place) == at' = [at EXCEPT ![p] = place]

\* Mutant: the container's lock is kept with the value it was taken for.
ReturnLocked(p) ==
    /\ root' = root
    /\ Goto(p, "ready")
    /\ stage' = [stage EXCEPT ![p] = Nobody]
    /\ victim' = [victim EXCEPT ![p] = Nobody]
    /\ left' = [left EXCEPT ![p] = {}]

\* open_tree returns: its root_lock goes out of scope.
Return(p) ==
    /\ root' = IF root = p THEN Nobody ELSE root
    /\ Goto(p, "ready")
    /\ stage' = [stage EXCEPT ![p] = Nobody]
    /\ victim' = [victim EXCEPT ![p] = Nobody]
    /\ left' = [left EXCEPT ![p] = {}]

Free == {s \in Stages : dir[s] = "none"}
Present == {e \in Entries : dir[e] # "none"}

\* Some AnsibleAssets value holds the tree's lock: try_lock says WouldBlock.
InUse(t) == \E p \in Procs : fp[p] = t /\ held[p] > 0

\* What the sweep recognises as unused.  A tree's exclusive lock is dropped as
\* soon as it was had: nobody can pin the tree without the container's lock.
Unused(e) == e \in Trees => ~InUse(e)

\* A command starts, with the binary that is installed by then.
Begin(p, t) ==
    /\ at[p] = "off"
    /\ Goto(p, "ready")
    /\ fp' = [fp EXCEPT ![p] = t]
    /\ UNCHANGED <<dir, root, held, stage, victim, left, child, opens, faults>>

\* AnsibleAssets::prepare, while the process may keep a value it had before.
Prepare(p) ==
    /\ at[p] = "ready"
    /\ opens < MaxOpens
    /\ opens' = opens + 1
    /\ Goto(p, "waiting")
    /\ UNCHANGED <<dir, root, fp, held, stage, victim, left, child, faults>>

LockRoot(p) ==
    /\ at[p] = "waiting"
    /\ root = Nobody
    /\ root' = p
    /\ Goto(p, "opened")
    /\ UNCHANGED <<dir, fp, held, stage, victim, left, child, opens, faults>>

\* The tree is there already ...
Reuse(p) ==
    /\ at[p] = "opened"
    /\ dir[fp[p]] # "none"
    /\ Goto(p, "pin")
    /\ UNCHANGED <<dir, root, fp, held, stage, victim, left, child, opens, faults>>

\* ... or extract_tree writes it beside the trees, its .lock inside, ...
Extract(p) ==
    /\ at[p] = "opened"
    /\ dir[fp[p]] = "none"
    /\ \E s \in Free : /\ dir' = [dir EXCEPT ![s] = "part"]
                       /\ stage' = [stage EXCEPT ![p] = s]
    /\ Goto(p, "extract")
    /\ UNCHANGED <<root, fp, held, victim, left, child, opens, faults>>

Extracted(p) ==
    /\ at[p] = "extract"
    /\ dir' = [dir EXCEPT ![stage[p]] = "whole"]
    /\ Goto(p, "publish")
    /\ UNCHANGED <<root, fp, held, stage, victim, left, child, opens, faults>>

\* Mutant: the container's lock covers the extraction alone.
PublishUnlocked(p) ==
    /\ at[p] = "publish"
    /\ dir' = [dir EXCEPT ![fp[p]] = dir[stage[p]], ![stage[p]] = "none"]
    /\ stage' = [stage EXCEPT ![p] = Nobody]
    /\ Goto(p, "pin")
    /\ root' = Nobody
    /\ UNCHANGED <<fp, held, victim, left, child, opens, faults>>

\* ... and renames it into place.
Publish(p) ==
    /\ at[p] = "publish"
    /\ dir' = [dir EXCEPT ![fp[p]] = dir[stage[p]], ![stage[p]] = "none"]
    /\ stage' = [stage EXCEPT ![p] = Nobody]
    /\ Goto(p, "pin")
    /\ UNCHANGED <<root, fp, held, victim, left, child, opens, faults>>

\* lock_shared, then the listing the sweep goes by.
Pin(p) ==
    /\ at[p] = "pin"
    /\ held' = [held EXCEPT ![p] = @ + 1]
    /\ left' = [left EXCEPT ![p] = Present \ {fp[p]}]
    /\ Goto(p, "sweep")
    /\ UNCHANGED <<dir, root, fp, stage, victim, child, opens, faults>>

\* collect_unused passes over what is in use, ...
Spare(p, e) ==
    /\ at[p] = "sweep"
    /\ e \in left[p] /\ ~Unused(e)
    /\ left' = [left EXCEPT ![p] = @ \ {e}]
    /\ UNCHANGED <<dir, root, at, fp, held, stage, victim, child, opens, faults>>

\* ... makes a staging directory for what is not, ...
Bury(p, e) ==
    /\ at[p] = "sweep"
    /\ e \in left[p] /\ Unused(e)
    /\ \E s \in Free : /\ dir' = [dir EXCEPT ![s] = "part"]
                       /\ stage' = [stage EXCEPT ![p] = s]
    /\ victim' = [victim EXCEPT ![p] = e]
    /\ Goto(p, "retire")
    /\ UNCHANGED <<root, fp, held, left, child, opens, faults>>

\* Mutant: it is deleted where it stands.
RetireInPlace(p) ==
    /\ at[p] = "retire"
    /\ dir' = [dir EXCEPT ![victim[p]] = IF @ = "part" THEN "none" ELSE "part"]
    /\ IF dir[victim[p]] = "part" THEN Goto(p, "purge") ELSE at' = at
    /\ UNCHANGED <<root, fp, held, stage, victim, left, child, opens, faults>>

\* ... renames the entry into it (a file of the flat layout is just removed) ...
Retire(p) ==
    /\ at[p] = "retire"
    /\ dir' = [dir EXCEPT ![victim[p]] = "none"]
    /\ Goto(p, "purge")
    /\ UNCHANGED <<root, fp, held, stage, victim, left, child, opens, faults>>

\* ... and deletes both.
Purge(p) ==
    /\ at[p] = "purge"
    /\ dir' = [dir EXCEPT ![stage[p]] = "none"]
    /\ left' = [left EXCEPT ![p] = @ \ {victim[p]}]
    /\ stage' = [stage EXCEPT ![p] = Nobody]
    /\ victim' = [victim EXCEPT ![p] = Nobody]
    /\ Goto(p, "sweep")
    /\ UNCHANGED <<root, fp, held, child, opens, faults>>

Swept(p) ==
    /\ at[p] = "sweep"
    /\ left[p] = {}
    /\ Return(p)
    /\ UNCHANGED <<dir, fp, held, child, opens, faults>>

\* What the drop of a staging TempDir leaves of it: nothing, if it gets through.
Dropped(p) == \E d \in {"none", "part"} : dir' = [dir EXCEPT ![stage[p]] = d]

\* open_tree returns an error.  A tree that could not be renamed into place
\* stays under its staging name (keep), one that was not finished is dropped.
OpenFails(p) ==
    /\ "io" \in Faults /\ faults < MaxFaults
    /\ at[p] \in {"waiting", "opened", "extract", "publish", "pin"}
    /\ IF at[p] = "extract" THEN Dropped(p) ELSE dir' = dir
    /\ Return(p)
    /\ faults' = faults + 1
    /\ UNCHANGED <<fp, held, child, opens>>

\* sweep_unused warns of an error in collect_unused, and the open succeeds.
SweepFails(p) ==
    /\ "io" \in Faults /\ faults < MaxFaults
    /\ at[p] \in Sweeping
    /\ IF at[p] = "sweep" THEN dir' = dir ELSE Dropped(p)
    /\ Return(p)
    /\ faults' = faults + 1
    /\ UNCHANGED <<fp, held, child, opens>>

\* run_playbook and run_bootstrap: the child reads its tree while it runs.
Play(p) ==
    /\ at[p] = "ready"
    /\ held[p] > 0 /\ child[p] = Nobody
    /\ child' = [child EXCEPT ![p] = fp[p]]
    /\ Goto(p, "playing")
    /\ UNCHANGED <<dir, root, fp, held, stage, victim, left, opens, faults>>

\* The child ends, its driver waiting for it or dead.
PlayEnds(p) ==
    /\ child[p] # Nobody
    /\ child' = [child EXCEPT ![p] = Nobody]
    /\ at' = IF at[p] = "playing" THEN [at EXCEPT ![p] = "ready"] ELSE at
    /\ UNCHANGED <<dir, root, fp, held, stage, victim, left, opens, faults>>

\* A value goes out of scope: the path-only call sites drop it at once.
Drop(p) ==
    /\ at[p] = "ready"
    /\ held[p] > 0
    /\ held' = [held EXCEPT ![p] = @ - 1]
    /\ UNCHANGED <<dir, root, at, fp, stage, victim, left, child, opens, faults>>

Exit(p) ==
    /\ at[p] = "ready"
    /\ held' = [held EXCEPT ![p] = 0]
    /\ Goto(p, "off")
    /\ UNCHANGED <<dir, root, fp, stage, victim, left, child, opens, faults>>

\* A death drops every lock (the descriptors are close-on-exec: the child has
\* none of them) and leaves the directories as they are.  The child may live on.
Kill(p) ==
    /\ "kill" \in Faults /\ faults < MaxFaults
    /\ at[p] # "off"
    /\ root' = IF root = p THEN Nobody ELSE root
    /\ held' = [held EXCEPT ![p] = 0]
    /\ \E c \in {child[p], Nobody} : child' = [child EXCEPT ![p] = c]
    /\ Goto(p, "off")
    /\ stage' = [stage EXCEPT ![p] = Nobody]
    /\ victim' = [victim EXCEPT ![p] = Nobody]
    /\ left' = [left EXCEPT ![p] = {}]
    /\ faults' = faults + 1
    /\ UNCHANGED <<dir, fp, opens>>

\* What open_tree does of itself once it was called.
Step(p) ==
    \/ LockRoot(p) \/ Reuse(p) \/ Extract(p) \/ Extracted(p) \/ Publish(p)
    \/ Pin(p)
    \/ \E e \in Entries : Spare(p, e) \/ Bury(p, e)
    \/ Retire(p) \/ Purge(p) \/ Swept(p)

Next == \E p \in Procs :
    \/ \E t \in Trees : Begin(p, t)
    \/ Prepare(p) \/ Step(p) \/ OpenFails(p) \/ SweepFails(p)
    \/ Play(p) \/ PlayEnds(p) \/ Drop(p) \/ Exit(p) \/ Kill(p)

Spec == Init /\ [][Next]_vars

\* A process that runs goes on.
FairSpec == Spec /\ \A p \in Procs : WF_vars(Step(p))

----------------------------------------------------------------------------
\* A fingerprint directory is complete whenever it is there at all, which is
\* what the call sites that keep only a path rely on: rename in, rename out.
TreesAreWhole == \A t \in Trees : dir[t] # "part"

\* While an AnsibleAssets value lives, its tree is there: from the return of
\* open_tree until the last value is dropped no other process's sweep, nor one
\* that races the extraction, takes it away.
GuardedTreeStays == \A p \in Procs : held[p] > 0 => dir[fp[p]] = "whole"

\* A sweep that gets through leaves no staging directory and nothing of the
\* flat layout, whoever failed or was killed before it.
SweepLeavesNoDebris ==
    [][\A p \in Procs : (at[p] = "sweep" /\ left[p] = {} /\ at'[p] = "ready")
          => \A e \in Stages \cup Legacy : dir'[e] = "none"]_vars

\* Whoever waits for the container's lock gets its answer: no holder keeps it
\* past its return, on any error path, and nobody waits while holding it.
OpenReturns ==
    \A p \in Procs : at[p] = "waiting" ~> at[p] \in {"ready", "off"}

\* The tree a running ansible-playbook reads from is there (ADR-0034: "a tree
\* in use cannot be swept").
PlayedTreeStays ==
    \A p \in Procs : child[p] # Nobody => dir[child[p]] = "whole"

============================================================================
