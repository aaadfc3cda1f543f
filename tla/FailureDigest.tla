--------------------------- MODULE FailureDigest ----------------------------
(***************************************************************************)
(* The failure lines of a play, harvested from ansible's stdout one line   *)
(* at a time (FailureDigest of services/ansible_runner.rs), beside the     *)
(* failures that the play had.                                             *)
(***************************************************************************)
EXTENDS Naturals, Sequences

CONSTANTS
    MaxFailureLines,    \* lines the digest keeps
    MixedLoops,         \* whether an item may pass after another has failed
    MaxTasks, MaxItems  \* bounds

ASSUME DigestAssumption ==
    {MaxFailureLines, MaxTasks, MaxItems} \subseteq Nat /\ MixedLoops \in BOOLEAN

VARIABLES
    failures, trailing, inRecap,    \* FailureDigest
    task,       \* ansible: the task it is at
    lines,      \* the failure lines that task has printed
    passed,     \* whether an item passed after one had failed
    real        \* history: the lines of the failures nothing cancelled

digestVars == <<failures, trailing, inRecap, task, lines, passed, real>>
DigestInit ==
    /\ failures = << >> /\ trailing = 0 /\ inRecap = FALSE
    /\ task = 1 /\ lines = << >> /\ passed = FALSE /\ real = << >>

\* Mutant: a line that is not kept counts as trailing.
CountAll(line) ==
    /\ failures' = IF Len(failures) < MaxFailureLines THEN Append(failures, line) ELSE failures
    /\ trailing' = trailing + 1

\* observe: a `fatal:` or `failed:` line.
ObserveFailure(line) ==
    IF Len(failures) < MaxFailureLines
    THEN failures' = Append(failures, line) /\ trailing' = trailing + 1
    ELSE UNCHANGED <<failures, trailing>>
\* observe: `...ignoring` cancels the failures just before it.
ObserveIgnoring ==
    /\ failures' = SubSeq(failures, 1, Len(failures) - trailing)
    /\ trailing' = 0
\* observe: any other line, and every line once the recap has begun.
ObserveOther == trailing' = 0 /\ UNCHANGED failures

\* ansible's default callback: a task that fails, or one item of its loop.
FailItem ==
    /\ ~inRecap /\ Len(lines) < MaxItems /\ (~MixedLoops => ~passed)
    /\ lines' = Append(lines, <<task, Len(lines) + 1>>)
    /\ ObserveFailure(<<task, Len(lines) + 1>>)
    /\ UNCHANGED <<inRecap, task, passed, real>>
\* An item that passes, or any line of a task that goes well.
PassItem ==
    /\ ~inRecap /\ (lines # << >> => MixedLoops) /\ ObserveOther /\ passed' = (lines # << >>)
    /\ UNCHANGED <<inRecap, task, lines, real>>
\* The task is over: its failures were ignored, or they count (a rescue that
\* handled them prints no line of its own).
Ignored ==
    /\ ~inRecap /\ lines # << >> /\ ObserveIgnoring /\ lines' = << >> /\ passed' = FALSE
    /\ task' = task + 1 /\ UNCHANGED <<inRecap, real>>
NextTask ==
    /\ ~inRecap /\ task < MaxTasks /\ ObserveOther /\ real' = real \o lines
    /\ task' = task + 1 /\ lines' = << >> /\ passed' = FALSE /\ UNCHANGED inRecap
PlayRecap ==
    /\ ~inRecap /\ inRecap' = TRUE /\ real' = real \o lines /\ lines' = << >>
    /\ UNCHANGED <<failures, trailing, task, passed>>

DigestNext ==
    \/ FailItem \/ PassItem \/ NextTask \/ PlayRecap
    \/ task < MaxTasks /\ Ignored
DigestSpec == DigestInit /\ [][DigestNext]_digestVars

\* What a failed play shows of its output: the first failure lines that nothing
\* cancelled, all of them and no other, however many tasks failed and were
\* ignored before and however full the digest was.
DigestIsTheFailures ==
    inRecap => failures = SubSeq(real, 1, IF Len(real) < MaxFailureLines
                                          THEN Len(real) ELSE MaxFailureLines)
=============================================================================
