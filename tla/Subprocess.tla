----------------------------- MODULE Subprocess -----------------------------
(***************************************************************************)
(* How the CLI runs a program and reads what it writes (src/output.rs:     *)
(* run_piped, stream_command and what its callers do with the result).     *)
(* The program blocks on a full pipe and is killed when it writes to one   *)
(* nobody reads; each pipe has a thread of the CLI at its other end, and   *)
(* the call returns when both threads and the program have ended.          *)
(***************************************************************************)
EXTENDS Naturals, Sequences

CONSTANTS
    Scripts,    \* what a program may write: sequences of <<stream, unit>>
    Pieced,     \* those written a byte at a time; the others write lines
    PipeSize,   \* what a pipe holds, in units
    TailLines   \* STDERR_TAIL_LINES

\* A unit is a line, "blank", or "bad": a line that is not UTF-8; or a byte,
\* "cr" and "lf" among them.
ASSUME SubprocessAssumption ==
    /\ Pieced \subseteq Scripts /\ {PipeSize, TailLines} \subseteq Nat \ {0}
    /\ \A s \in Scripts : /\ s \in Seq({s[i] : i \in DOMAIN s})
                          /\ \A i \in DOMAIN s : s[i][1] \in {"out", "err"}

VARIABLES
    child,   \* the program: [todo, state, ok]
    pipe,    \* of "out" and "err": what it holds, and whether it is read
    call     \* the call: [kind, verbose, phase, script, tail, segment, heard, shown, lines, ok]
subprocessVars == <<child, pipe, call>>

NoCall == [kind |-> "", verbose |-> FALSE, phase |-> "idle", script |-> << >>, tail |-> << >>,
           segment |-> << >>, heard |-> << >>, shown |-> 0, lines |-> 0, ok |-> FALSE]
NewPipe == [held |-> << >>, open |-> TRUE]

SubprocessInit ==
    /\ child = [todo |-> << >>, state |-> "none", ok |-> FALSE]
    /\ pipe = [s \in {"out", "err"} |-> NewPipe] /\ call = NoCall

\* run_piped nulls stdout unless it is verbose.
Wanted(s) == s = "err" \/ call.kind # "piped" \/ call.verbose

Spawn ==
    /\ call.phase = "idle"
    /\ \E script \in Scripts, kind \in {"piped", "stdout", "segments"}, verbose, ok \in BOOLEAN :
         /\ script \in Pieced => kind = "segments"
         /\ call' = [NoCall EXCEPT !.kind = kind, !.verbose = verbose,
                                   !.phase = "running", !.script = script]
         /\ child' = [todo |-> script, state |-> "running", ok |-> ok]
    /\ UNCHANGED pipe

----------------------------------------------------------------------------
(* The program.                                                             *)
Dead == child.state \in {"ended", "killed"}
Into == Head(child.todo)[1]
Full(s) == Len(pipe[s].held) >= PipeSize
CanWrite == child.todo # << >> /\ (Wanted(Into) /\ pipe[Into].open => ~Full(Into))
Write ==
    /\ child.state = "running" /\ CanWrite
    /\ LET wrote == [child EXCEPT !.todo = Tail(@)]
       IN  \/ ~Wanted(Into) /\ child' = wrote /\ UNCHANGED pipe
           \/ /\ Wanted(Into) /\ pipe[Into].open /\ child' = wrote
              /\ pipe' = [pipe EXCEPT ![Into].held = Append(@, Head(child.todo)[2])]
           \/ /\ Wanted(Into) /\ ~pipe[Into].open    \* SIGPIPE
              /\ child' = [child EXCEPT !.state = "killed", !.ok = FALSE] /\ UNCHANGED pipe
    /\ UNCHANGED call
Exit ==
    /\ child.state = "running" /\ child.todo = << >>
    /\ child' = [child EXCEPT !.state = "ended"] /\ UNCHANGED <<pipe, call>>

----------------------------------------------------------------------------
(* The threads.                                                             *)
\* push_stderr_tail.
Pushed(tail, line) ==
    LET longer == Append(tail, line) IN IF Len(longer) > TailLines THEN Tail(longer) ELSE longer

\* emit_subprocess_line: what a stream showed stays, run_piped counts its lines.
Shows(c, line) == c.verbose /\ line # "blank"
CountsAll(c, line) == c.verbose
Counts(c, line) == Shows(c, line)
Emitted(c, line) ==
    IF c.kind # "piped" THEN c
    ELSE [c EXCEPT !.shown = IF Shows(c, line) THEN @ + 1 ELSE @,
                   !.lines = IF Counts(c, line) THEN @ + 1 ELSE @]

Terminators == {"cr", "lf"}
\* flush_segment, and read_segments of one byte and of a read.
Flushed(c) ==
    IF c.segment = << >> THEN c
    ELSE [c EXCEPT !.heard = Append(@, c.segment), !.segment = << >>]
Eat(c, byte) ==
    IF byte \in Terminators THEN Flushed(c) ELSE [c EXCEPT !.segment = Append(@, byte)]
Eaten(c, bytes) ==
    LET after[n \in 0 .. Len(bytes)] == IF n = 0 THEN c ELSE Eat(after[n - 1], bytes[n])
    IN  after[Len(bytes)]

\* Mutant: stdout is read once stderr has ended.
AfterErr == ~pipe["err"].open
OutTurn == TRUE
MayRead(s) == pipe[s].open /\ Wanted(s) /\ (s = "out" => OutTurn)
CanRead(s) == MayRead(s) /\ (pipe[s].held # << >> \/ Dead)
Took(s, n) == pipe' = [pipe EXCEPT ![s].held = SubSeq(@, n + 1, Len(@))]
Closed(s) == pipe' = [pipe EXCEPT ![s] = [held |-> << >>, open |-> FALSE]]

ReadErr ==
    /\ MayRead("err") /\ pipe["err"].held # << >>
    /\ LET line == Head(pipe["err"].held)
       IN  \/ /\ line = "bad" /\ UNCHANGED call  \* run_piped's iterator ends here
              /\ IF call.kind = "piped" THEN Closed("err") ELSE Took("err", 1)
           \/ /\ line # "bad" /\ Took("err", 1)
              /\ call' = [Emitted(call, line) EXCEPT !.tail = Pushed(@, line)]
    /\ UNCHANGED child
ReadOut ==
    /\ MayRead("out") /\ pipe["out"].held # << >>
    /\ LET held == pipe["out"].held  line == Head(held)
       IN  \/ /\ call.kind = "segments"
              /\ \E n \in DOMAIN held :
                   Took("out", n) /\ call' = Eaten(call, SubSeq(held, 1, n))
           \/ /\ call.kind # "segments" /\ line = "bad" /\ UNCHANGED call
              /\ IF call.kind = "piped" THEN Closed("out") ELSE Took("out", 1)
           \/ /\ call.kind # "segments" /\ line # "bad" /\ Took("out", 1)
              /\ call' = IF call.kind = "piped" THEN Emitted(call, line) ELSE [call EXCEPT !.heard = Append(@, line)]
    /\ UNCHANGED child
EndOfFile(s) ==
    /\ MayRead(s) /\ pipe[s].held = << >> /\ Dead
    /\ Closed(s) /\ call' = (IF s = "out" THEN Flushed(call) ELSE call) /\ UNCHANGED child

Joined == \A s \in {"out", "err"} : Wanted(s) => ~pipe[s].open
\* The scope is over and the program waited for; its callers clear what
\* run_piped showed when it succeeded.
Return ==
    /\ call.phase = "running" /\ Joined /\ Dead
    /\ call' = [call EXCEPT !.phase = "returned", !.ok = child.ok,
                            !.shown = IF child.ok THEN @ - call.lines ELSE @]
    /\ UNCHANGED <<child, pipe>>

SubprocessNext ==
    Spawn \/ Write \/ Exit \/ ReadErr \/ ReadOut \/ (\E s \in {"out", "err"} : EndOfFile(s)) \/ Return
SubprocessSpec == SubprocessInit /\ [][SubprocessNext]_subprocessVars

----------------------------------------------------------------------------
\* The members of seq at the indices in I.
Picked(seq, I) ==
    LET upTo[n \in 0 .. Len(seq)] ==
            IF n = 0 THEN << >>
            ELSE IF n \in I THEN Append(upTo[n - 1], seq[n]) ELSE upTo[n - 1]
    IN  upTo[Len(seq)]
Of(s, script) == LET mine == Picked(script, {i \in DOMAIN script : script[i][1] = s})
                 IN  [i \in DOMAIN mine |-> mine[i][2]]
Written(s) == Of(s, call.script)
Good(lines) == Picked(lines, {i \in DOMAIN lines : lines[i] # "bad"})
Latest(n, seq) == SubSeq(seq, IF Len(seq) > n THEN Len(seq) - n + 1 ELSE 1, Len(seq))
\* The parts are, in order, the runs of a byte sequence between its terminators,
\* the k-th from from[k] on.
Inside(b, i) == i \in DOMAIN b /\ b[i] \notin Terminators
IsRun(part, b, first) ==
    LET next == first + Len(part)
    IN  /\ part # << >> /\ ~Inside(b, first - 1) /\ ~Inside(b, next)
        /\ \A i \in first .. next - 1 : Inside(b, i) /\ part[i - first + 1] = b[i]
CutAt(parts, b, from) ==
    /\ \A k, l \in DOMAIN parts : k < l => from[k] < from[l]
    /\ \A k \in DOMAIN parts : IsRun(parts[k], b, from[k])
    /\ \A i \in DOMAIN b : Inside(b, i) /\ ~Inside(b, i - 1) => \E k \in DOMAIN parts : from[k] = i
CutInto(parts, b) == \E from \in [DOMAIN parts -> DOMAIN b] : CutAt(parts, b, from)
\* run_piped gives up on a line that is not UTF-8.
Legible == call.kind = "piped" =>
    \A i \in DOMAIN call.script : Wanted(call.script[i][1]) => call.script[i][2] # "bad"

\* However much a program writes and in whatever order, program and threads never
\* all wait for one another: a step of one of them is possible until the call can
\* return (run_piped, stream_command: a thread for each pipe).
NobodyWaits ==
    call.phase = "running" =>
        \/ child.state = "running" /\ (child.todo = << >> \/ CanWrite)
        \/ \E s \in {"out", "err"} : CanRead(s)
        \/ Joined /\ Dead

\* The result is the program's own: its exit, the last of its stderr, its stdout
\* cut at each CR and LF wherever the reads fell, and no line of the operator's
\* cleared with it (run_piped, read_segments, push_stderr_tail).  A line that is
\* not UTF-8 ends run_piped's reading.
TellsTheChild ==
    call.phase = "returned" /\ Legible =>
        /\ child.state = "ended" /\ child.todo = << >>
        /\ call.tail = Latest(TailLines, Good(Written("err")))
        /\ call.kind = "stdout" => call.heard = Good(Written("out"))
        /\ call.kind = "segments" => CutInto(call.heard, Written("out"))
        /\ call.kind = "piped" /\ call.ok => call.shown = 0

\* However much a program writes and however its lines fall, a call returns, and
\* what it returns is the program's (the two above).
CallTellsTheChild == NobodyWaits /\ TellsTheChild

\* What output.rs:238 says of run_piped: "an unread pipe can never stall the
\* child".  It does not stall it: it kills it.
NeverKilled == child.state # "killed"
=============================================================================
