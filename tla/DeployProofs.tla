---------------------------- MODULE DeployProofs ----------------------------
(***************************************************************************)
(* What holds of a deploy, of config.toml, of the unit report, of the      *)
(* failure digest, of a program's pipes and of version pins, for every     *)
(* playbook tree, config file, unit, script, listing and bound.            *)
(***************************************************************************)
EXTENDS Deploy, Config, UnitReport, FailureDigest, Subprocess, Versions, SequenceTheorems,
        FiniteSetTheorems, NaturalsInduction, WellFoundedInduction, TLAPS

----------------------------------------------------------------------------
(* Induction and recursion up to a number.                                 *)

LEMMA LeastNatural ==
    ASSUME NEW T, T \subseteq Nat, T # {}
    PROVE  \E m \in T : \A k \in T : m <= k
<1>1. IsWellFoundedOn(OpToRel(<, Nat), Nat)
  BY NatLessThanWellFounded
<1>2. PICK m \in T : \A k \in T : <<k, m>> \notin OpToRel(<, Nat)
  BY <1>1, WFMin
<1>3. \A k \in T : ~(k < m)
  BY <1>2 DEF OpToRel
<1>4. \A k \in T : m <= k
  BY <1>3
<1>5. QED
  BY <1>4

\* Induction up to N, with the property as the set of those that have it.
LEMMA UpToN ==
    ASSUME NEW N \in Nat, NEW T, 0 \in T, \A n \in 1 .. N : n - 1 \in T => n \in T
    PROVE  0 .. N \subseteq T
<1> DEFINE Out == (0 .. N) \ T
<1>1. SUFFICES ASSUME Out # {} PROVE FALSE
  OBVIOUS
<1>2. PICK m \in Out : \A k \in Out : m <= k
  <2>1. Out \subseteq Nat
    OBVIOUS
  <2> HIDE DEF Out
  <2>2. QED
    BY <1>1, <2>1, LeastNatural
<1>3. m \in 1 .. N /\ m - 1 \in 0 .. N /\ ~(m <= m - 1)
  BY <1>2
<1>4. QED
  BY <1>2, <1>3

\* What a recursion on 0 .. N defines: its move is a function of the index and
\* of the value before.
Unfolds(f, v, move, N) == f[0] = v /\ \A n \in 1 .. N : f[n] = move[n][f[n - 1]]
Moves(N, V) == [1 .. N -> [V -> V]]
Values(N, V) == [0 .. N -> V]
LEMMA Recursion ==
    ASSUME NEW N \in Nat, NEW V, NEW v \in V, NEW move \in Moves(N, V)
    PROVE  \E f \in Values(N, V) : Unfolds(f, v, move, N)
<1> USE DEF Unfolds, Moves, Values
<1> DEFINE Def(f, n) == f[0] = v /\ \A i \in 1 .. n : f[i] = move[i][f[i - 1]]
           T == {n \in 0 .. N : \E f \in [0 .. n -> V] : Def(f, n)}
<1>1. 0 \in T
  <2>1. [i \in 0 .. 0 |-> v] \in [0 .. 0 -> V] /\ Def([i \in 0 .. 0 |-> v], 0)
    OBVIOUS
  <2> HIDE DEF Def
  <2>2. \E f \in [0 .. 0 -> V] : Def(f, 0)
    BY <2>1
  <2>3. QED
    BY <2>2
<1>2. ASSUME NEW n \in 1 .. N, n - 1 \in T PROVE n \in T
  <2>1. PICK f \in [0 .. n - 1 -> V] : Def(f, n - 1)
    BY <1>2
  <2> DEFINE g == [i \in 0 .. n |-> IF i = n THEN move[n][f[n - 1]] ELSE f[i]]
  <2>2. g \in [0 .. n -> V]
    BY <2>1
  <2>3. ASSUME NEW i \in 1 .. n PROVE g[i] = move[i][g[i - 1]]
    <3>1. g[i - 1] = f[i - 1]
      OBVIOUS
    <3>2. CASE i = n
      BY <3>1, <3>2
    <3>3. CASE i # n
      <4>1. i \in 1 .. n - 1 /\ g[i] = f[i]
        BY <3>3
      <4>2. QED
        BY <2>1, <3>1, <4>1
    <3>4. QED
      BY <3>2, <3>3
  <2>4. g[0] = v
    BY <2>1
  <2>5. Def(g, n)
    BY <2>3, <2>4
  <2> HIDE DEF Def, g
  <2>6. \E h \in [0 .. n -> V] : Def(h, n)
    BY <2>2, <2>5
  <2>7. QED
    BY <2>6
<1>3. N \in T
  <2> HIDE DEF T
  <2>1. 0 .. N \subseteq T
    BY <1>1, <1>2, UpToN
  <2>2. QED
    BY <2>1
<1>4. QED
  BY <1>3

\* What is kept of a sequence is of it, and chosen.
LEMMA KeptIs ==
    ASSUME NEW R, NEW s \in Seq(R), NEW these
    PROVE  Kept(s, these) \in Seq(R \cap these)
<1> DEFINE N == Len(s)
           V == Seq(R \cap these)
           Next(n, t) == IF s[n] \in these THEN Append(t, s[n]) ELSE t
           turn == [n \in 1 .. N |-> [t \in V |-> Next(n, t)]]
           IsIt(f) == f = [n \in 0 .. N |-> IF n = 0 THEN << >> ELSE Next(n, f[n - 1])]
           it == CHOOSE h : IsIt(h)
<1>1. N \in Nat /\ << >> \in V /\ \A n \in 1 .. N : s[n] \in R
  OBVIOUS
<1>2. turn \in Moves(N, V)
  <2>1. ASSUME NEW n \in 1 .. N, NEW t \in V PROVE Next(n, t) \in V
    <3>1. CASE s[n] \in these
      <4>1. s[n] \in R \cap these
        BY <1>1, <3>1
      <4>2. QED
        BY <3>1, <4>1
    <3>2. CASE s[n] \notin these
      BY <3>2
    <3>3. QED
      BY <3>1, <3>2
  <2> HIDE DEF Next, V, N
  <2>2. QED
    BY <2>1 DEF Moves
<1>3. PICK f \in [0 .. N -> V] : f[0] = << >> /\ \A n \in 1 .. N : f[n] = turn[n][f[n - 1]]
  <2> DEFINE v == << >>
  <2> HIDE DEF V, turn, N, it, IsIt, v
  <2>1. v \in V
    BY <1>1 DEF v
  <2>2. \E f \in Values(N, V) : Unfolds(f, v, turn, N)
    BY <1>1, <1>2, <2>1, Recursion
  <2>3. QED
    BY <2>2 DEF Unfolds, Values, v
<1> HIDE DEF Next
<1>4. ASSUME NEW n \in 1 .. N PROVE f[n] = Next(n, f[n - 1])
  <2> HIDE DEF V, N
  <2>1. n - 1 \in 0 .. N
    BY <1>1
  <2>2. f[n - 1] \in V /\ f[n] = turn[n][f[n - 1]]
    BY <1>3, <2>1
  <2>3. QED
    BY <2>2
<1>5. IsIt(f)
  <2> HIDE DEF V
  <2>1. \A n \in 0 .. N : n # 0 => n \in 1 .. N
    BY <1>1
  <2>2. \A n \in 0 .. N : f[n] = IF n = 0 THEN << >> ELSE Next(n, f[n - 1])
    BY <1>3, <1>4, <2>1
  <2>3. QED
    BY <1>3, <2>2
<1>6. IsIt(it)
  BY <1>5
<1>7. Kept(s, these) = it[N]
  BY DEF Kept, Next
<1> HIDE DEF it
<1> DEFINE T == {n \in 0 .. N : it[n] \in V}
<1>8. it[0] = << >> /\ \A n \in 1 .. N : it[n] = Next(n, it[n - 1])
  <2> HIDE DEF V, N
  <2>1. 0 \in 0 .. N /\ \A n \in 1 .. N : n \in 0 .. N /\ n # 0
    BY <1>1
  <2>2. QED
    BY <1>6, <2>1
<1> HIDE DEF V, N
<1>9. 0 \in T
  BY <1>1, <1>8
<1>10. ASSUME NEW n \in 1 .. N, n - 1 \in T PROVE n \in T
  <2>1. it[n - 1] \in V
    BY <1>10
  <2>2. Next(n, it[n - 1]) = turn[n][it[n - 1]] /\ turn[n][it[n - 1]] \in V
    BY <1>2, <2>1 DEF Moves
  <2>3. n \in 0 .. N
    BY <1>1
  <2>4. QED
    BY <1>8, <2>2, <2>3
<1>11. N \in T
  <2> HIDE DEF T
  <2>1. 0 .. N \subseteq T
    BY <1>1, <1>9, <1>10, UpToN
  <2>2. QED
    BY <1>1, <2>1
<1>12. QED
  BY <1>7, <1>11 DEF V

----------------------------------------------------------------------------
(* The unit report.                                                        *)

\* The last start of a unit is no earlier than the last the play gave it.
Dated(s) == s.started \in Nat /\ s.played \in Nat /\ s.played <= s.started

UnitInv ==
    /\ now \in Nat /\ unit = [u \in Owned |-> unit[u]]
    /\ window \in [start : Nat, elapsed : Nat, uptime : Nat]
    /\ window.start <= now
    /\ \A u \in Owned : Dated(unit[u]) /\ unit[u].started <= now
    /\ \A u \in DOMAIN saw : Dated(saw[u])
    /\ phase \in {"probing", "connected"} => window.start + window.elapsed <= now
    /\ phase \in {"system", "user"} \/ DOMAIN saw # {} =>
         /\ phase \in {"system", "user", "reported"}
         /\ window.start + window.elapsed <= window.uptime

LEMMA UnitInvInit == UnitInit => UnitInv
<1> SUFFICES ASSUME UnitInit PROVE UnitInv
  OBVIOUS
<1>1. saw = << >> /\ DOMAIN saw = {}
  BY DEF UnitInit
<1>2. \A u \in Owned : unit[u].started = 1 /\ unit[u].played = 0
  BY DEF UnitInit
<1>3. unit = [u \in Owned |-> unit[u]]
  BY DEF UnitInit
<1>4. QED
  BY <1>1, <1>2, <1>3 DEF UnitInit, UnitInv, Dated

LEMMA UnitInvStep ==
    ASSUME ~StartPre, UnitInv, [UnitNext]_unitVars
    PROVE  UnitInv'
<1> USE UnitAssumption DEF UnitInv, Dated
<1>1. CASE UNCHANGED unitVars
  BY <1>1 DEF unitVars
<1>2. CASE Tick
  BY <1>2 DEF Tick
<1>3. ASSUME NEW b \in BOOLEAN, Change(b) PROVE UnitInv'
  <2>1. PICK u \in Owned, s \in States :
           unit' = [unit EXCEPT ![u].load = "loaded", ![u].active = s,
                              ![u].started = IF s \in Running THEN now ELSE @,
                              ![u].played = IF b /\ s \in Running \cup {"starting"} THEN now ELSE @]
    BY <1>3 DEF Change
  <2>2. s # "starting"
    BY <2>1 DEF States, Running
  <2>3. \A v \in Owned : v # u => unit'[v] = unit[v]
    BY <2>1
  <2>4. /\ unit'[u].started = (IF s \in Running THEN now ELSE unit[u].started)
        /\ unit'[u].played = (IF b /\ s \in Running THEN now ELSE unit[u].played)
    BY <2>1, <2>2
  <2>5. ASSUME NEW v \in Owned PROVE (Dated(unit[v]) /\ unit[v].started <= now)'
    <3>1. CASE v = u
      <4>1. s \in Running => unit'[u].started = now /\ unit'[u].played \in {now, unit[u].played}
        BY <2>4
      <4>2. s \notin Running => unit'[u].started = unit[u].started /\ unit'[u].played = unit[u].played
        BY <2>4
      <4>3. unit[u].started \in Nat /\ unit[u].started <= now
        OBVIOUS
      <4>4. QED
        BY <1>3, <3>1, <4>1, <4>2, <4>3 DEF Change
    <3>2. CASE v # u
      BY <1>3, <2>3, <3>2 DEF Change
    <3>3. QED
      BY <3>1, <3>2
  <2>6. unit' = [v \in Owned |-> unit'[v]]
    BY <2>1
  <2>7. QED
    BY <1>3, <2>5, <2>6 DEF Change
<1>4. CASE Vanish
  <2>1. PICK u \in Owned : unit' = [unit EXCEPT ![u].load = "not-found", ![u].active = "inactive"]
    BY <1>4 DEF Vanish
  <2>2. \A v \in Owned : unit'[v].started = unit[v].started /\ unit'[v].played = unit[v].played
    BY <2>1
  <2>3. unit' = [v \in Owned |-> unit'[v]]
    BY <2>1
  <2>4. QED
    BY <1>4, <2>2, <2>3 DEF Vanish
<1>5. CASE StartPlay
  BY <1>5 DEF StartPlay
<1>6. CASE FailPlay
  BY <1>6 DEF FailPlay
<1>7. CASE Connect
  BY <1>7 DEF Connect
<1>8. CASE ReadUptime
  BY <1>8 DEF ReadUptime
<1>9. ASSUME NEW scope \in Scopes2, ProbeScope(scope) PROVE UnitInv'
  BY <1>9 DEF ProbeScope, Scopes2, After, OfScope
<1>10. QED
  BY <1>1, <1>2, <1>3, <1>4, <1>5, <1>6, <1>7, <1>8, <1>9 DEF UnitNext

\* What the report says of a unit is true of the play's window moved by the time
\* from the end of the play to the read of the uptime, for every play, every unit
\* and however long that takes, unless a unit runs commands before its main
\* process (verdict, host_uptime_usec, run_started.elapsed).
THEOREM VerdictsErrAtMostByTheDelay ==
    ASSUME ~StartPre
    PROVE  UnitSpec => []VerdictsErrByTheDelay
<1>1. UnitInv => VerdictsErrByTheDelay
  <2> SUFFICES ASSUME UnitInv, phase = "reported", NEW u \in DOMAIN saw
               PROVE  /\ Verdict(u) = "untouched" => saw[u].played < WindowOpens
                      /\ Verdict(u) = "restarted" => saw[u].started >= window.start
    BY DEF VerdictsErrByTheDelay
  <2>1. /\ window.start \in Nat /\ window.elapsed \in Nat /\ window.uptime \in Nat
        /\ window.start + window.elapsed <= window.uptime
        /\ saw[u].started \in Nat /\ saw[u].played \in Nat /\ saw[u].played <= saw[u].started
    BY DEF UnitInv, Dated
  <2>2. WindowOpens = window.uptime - window.elapsed
    BY <2>1 DEF WindowOpens, Delay
  <2>3. ASSUME Verdict(u) = "untouched" PROVE saw[u].played < WindowOpens
    <3>1. ~StartedMeanwhile(saw[u].started)
      BY <2>3 DEF Verdict
    <3>2. QED
      BY <2>1, <2>2, <3>1 DEF StartedMeanwhile
  <2>4. ASSUME Verdict(u) = "restarted" PROVE saw[u].started >= window.start
    <3>1. StartedMeanwhile(saw[u].started)
      BY <2>4 DEF Verdict
    <3>2. QED
      BY <2>1, <3>1 DEF StartedMeanwhile
  <2>5. QED
    BY <2>3, <2>4
<1>2. UnitInv /\ [UnitNext]_unitVars => UnitInv'
  BY UnitInvStep
<1>3. QED
  BY UnitInvInit, <1>1, <1>2, PTL DEF UnitSpec

\* Each unit was seen, or its manager has a note, once its manager was asked; and
\* what was seen is a state systemd can be in between two commands.
Mentioned(u) == u.scope \in notes \/ u \in DOMAIN saw
InStates(s) == s.active \in States
AskedInv ==
    /\ unit = [u \in Owned |-> unit[u]] /\ \A u \in Owned : InStates(unit[u])
    /\ DOMAIN saw \subseteq Owned /\ \A u \in DOMAIN saw : InStates(saw[u])
    /\ phase = "user" => \A u \in Owned : u.scope = "system" => Mentioned(u)
    /\ phase = "reported" => \A u \in Owned : Mentioned(u)

LEMMA AskedInvStep == AskedInv /\ [UnitNext]_unitVars => AskedInv'
<1> SUFFICES ASSUME AskedInv, [UnitNext]_unitVars PROVE AskedInv'
  OBVIOUS
<1>1. CASE UNCHANGED unitVars
  BY <1>1 DEF unitVars, AskedInv, Mentioned, InStates
<1>2. CASE Tick \/ StartPlay \/ FailPlay
  BY <1>2 DEF Tick, StartPlay, FailPlay, AskedInv, Mentioned, InStates
<1>3. ASSUME NEW b \in BOOLEAN, Change(b) PROVE AskedInv'
  <2>1. PICK u \in Owned, s \in States :
           unit' = [unit EXCEPT ![u].load = "loaded", ![u].active = s,
                              ![u].started = IF s \in Running THEN now ELSE @,
                              ![u].played = IF b /\ s \in Running \cup {"starting"} THEN now ELSE @]
    BY <1>3 DEF Change
  <2>2. unit' = [v \in Owned |-> unit'[v]]
    BY <2>1 DEF AskedInv
  <2>3. unit'[u].active \in {s, unit[u].active} /\ \A v \in Owned : v # u => unit'[v] = unit[v]
    BY <2>1 DEF AskedInv
  <2>4. \A v \in Owned : InStates(unit'[v])
    BY <2>1, <2>3 DEF AskedInv, InStates
  <2>5. QED
    BY <1>3, <2>2, <2>4 DEF Change, AskedInv, Mentioned, InStates
<1>4. CASE Vanish
  <2>1. PICK u \in Owned : unit' = [unit EXCEPT ![u].load = "not-found", ![u].active = "inactive"]
    BY <1>4 DEF Vanish
  <2>2. unit' = [v \in Owned |-> unit'[v]]
    BY <2>1 DEF AskedInv
  <2>3. \A v \in Owned : unit'[v].active \in {"inactive", unit[v].active}
    BY <2>1 DEF AskedInv
  <2>4. \A v \in Owned : InStates(unit'[v])
    BY <2>3 DEF AskedInv, InStates, States
  <2>5. QED
    BY <1>4, <2>2, <2>4 DEF Vanish, AskedInv, Mentioned, InStates
<1>5. CASE Connect \/ ReadUptime
  BY <1>5, UnitAssumption DEF Connect, ReadUptime, AskedInv, Mentioned, InStates
<1>6. ASSUME NEW scope \in Scopes2, ProbeScope(scope) PROVE AskedInv'
  <2>1. UNCHANGED unit /\ phase = scope /\ phase' = After(scope)
    BY <1>6 DEF ProbeScope
  <2>2. DOMAIN saw' \subseteq Owned /\ (\A u \in DOMAIN saw' : InStates(saw'[u]))
        /\ DOMAIN saw \subseteq DOMAIN saw' /\ notes \subseteq notes'
        /\ \A u \in OfScope(scope) : Mentioned(u)'
    <3>1. CASE saw' = [u \in DOMAIN saw \cup OfScope(scope) |->
                         IF u \in OfScope(scope) THEN unit[u] ELSE saw[u]] /\ UNCHANGED notes
      BY <3>1 DEF AskedInv, InStates, Mentioned, OfScope
    <3>2. CASE notes' = notes \cup Note(scope) /\ UNCHANGED saw
      BY <3>2 DEF AskedInv, InStates, Mentioned, OfScope, Note
    <3>3. QED
      BY <1>6, <3>1, <3>2 DEF ProbeScope
  <2>3. \A u \in Owned : u.scope = scope => Mentioned(u)'
    BY <2>2 DEF OfScope
  <2>4. \A u \in Owned : Mentioned(u) => Mentioned(u)'
    BY <2>2 DEF Mentioned
  <2>5. phase' = "user" => \A u \in Owned : u.scope = "system" => Mentioned(u)'
    BY <2>1, <2>3 DEF After, Scopes2
  <2>6. phase' = "reported" => \A u \in Owned : Mentioned(u)'
    BY <1>6, <2>1, <2>3, <2>4, UnitAssumption DEF After, Scopes2, AskedInv
  <2>7. QED
    BY <2>1, <2>2, <2>5, <2>6 DEF AskedInv, InStates
<1>7. QED
  BY <1>1, <1>2, <1>3, <1>4, <1>5, <1>6 DEF UnitNext

\* Every owned unit that was down when it was asked for is named in the report, or
\* its manager is, or a timer of its App fires it: for every set of units, probes
\* that fail one by one or all, and changes at any time, as long as no unit runs
\* commands before its main process (probe_scope, verdict, render).
THEOREM ReportsHideNothing ==
    ASSUME ~StartPre
    PROVE  UnitSpec => []NothingIsHidden
<1>1. UnitInit => AskedInv
  <2> SUFFICES ASSUME UnitInit PROVE AskedInv
    OBVIOUS
  <2>1. DOMAIN saw = {}
    BY DEF UnitInit
  <2>2. \A u \in Owned : unit[u].active \in {"active", "inactive"}
    BY DEF UnitInit
  <2>3. unit = [u \in Owned |-> unit[u]]
    BY DEF UnitInit
  <2>4. phase = "before"
    BY DEF UnitInit
  <2>5. QED
    BY <2>1, <2>2, <2>3, <2>4 DEF AskedInv, InStates, States, Running
<1>2. AskedInv => NothingIsHidden
  <2> SUFFICES ASSUME AskedInv, phase = "reported", NEW u \in Owned, u.scope \notin notes
               PROVE  /\ u \in DOMAIN saw
                      /\ saw[u].load # "loaded" \/ saw[u].active # "active" =>
                           \/ u \in Named2
                           \/ saw[u].active = "inactive"
                              /\ \E t \in Owned : t.kind = "timer" /\ t.name = u.name
    BY DEF NothingIsHidden
  <2>1. u \in DOMAIN saw
    BY DEF AskedInv, Mentioned
  <2>2. saw[u].active \in {"active", "auto-restart", "failed", "inactive"}
    BY <2>1 DEF AskedInv, InStates, States, Running
  <2>3. CASE saw[u].load # "loaded"
    <3>1. Verdict(u) = "not found"
      BY <2>3 DEF Verdict
    <3>2. QED
      BY <2>1, <3>1 DEF Named2
  <2>4. CASE saw[u].load = "loaded" /\ saw[u].active \in {"auto-restart", "failed"}
    <3>1. Verdict(u) \in {"looping", "failed"}
      BY <2>4 DEF Verdict
    <3>2. QED
      BY <2>1, <3>1 DEF Named2
  <2>5. CASE saw[u].load = "loaded" /\ saw[u].active = "inactive" /\ ~HasTimerSibling(u)
    <3>1. Verdict(u) = "stopped"
      BY <2>5 DEF Verdict
    <3>2. QED
      BY <2>1, <3>1 DEF Named2
  <2>6. CASE saw[u].active = "inactive" /\ HasTimerSibling(u)
    BY <2>1, <2>6 DEF HasTimerSibling, AskedInv
  <2>7. QED
    BY <2>1, <2>2, <2>3, <2>4, <2>5, <2>6
<1>3. QED
  BY <1>1, <1>2, AskedInvStep, PTL DEF UnitSpec

----------------------------------------------------------------------------
(* The failure digest.                                                     *)

Line == Nat \X Nat
Fitting(n) == IF n < MaxFailureLines THEN n ELSE MaxFailureLines

\* The digest is the first lines of the failures that count so far and of those
\* the task at hand has had; the latter are the trailing ones.
DigestInv ==
    /\ failures \in Seq(Line) /\ real \in Seq(Line) /\ lines \in Seq(Line)
    /\ task \in Nat /\ ~passed
    /\ Len(failures) = Fitting(Len(real) + Len(lines))
    /\ \A i \in 1..Len(failures) :
         failures[i] = IF i <= Len(real) THEN real[i] ELSE lines[i - Len(real)]
    /\ IF inRecap THEN lines = << >> ELSE trailing = Len(failures) - Fitting(Len(real))

LEMMA DigestInvInit == DigestInit => DigestInv
<1>1. << >> \in Seq(Line) /\ Len(<< >>) = 0
  BY EmptySeq
<1>2. QED
  BY <1>1, DigestAssumption DEF DigestInit, DigestInv, Fitting

LEMMA DigestInvStep ==
    ASSUME ~MixedLoops, DigestInv, [DigestNext]_digestVars
    PROVE  DigestInv'
<1> USE DigestAssumption
<1>0. /\ failures \in Seq(Line) /\ real \in Seq(Line) /\ lines \in Seq(Line)
      /\ Len(failures) \in Nat /\ Len(real) \in Nat /\ Len(lines) \in Nat /\ task \in Nat
      /\ << >> \in Seq(Line) /\ Len(<< >>) = 0 /\ \A s \in Seq(Line) : Len(s) = 0 => s = << >>
      /\ MaxFailureLines \in Nat
  BY LenProperties, EmptySeq DEF DigestInv
<1>e. /\ Len(failures) <= Len(real) + Len(lines)
      /\ \A i \in 1..Len(failures) :
           failures[i] = IF i <= Len(real) THEN real[i] ELSE lines[i - Len(real)]
  BY <1>0 DEF DigestInv, Fitting
<1>1. CASE UNCHANGED digestVars
  BY <1>1 DEF DigestInv, digestVars
<1>2. CASE FailItem
  <2> DEFINE line == <<task, Len(lines) + 1>>
  <2>1. line \in Line
    BY <1>0 DEF Line
  <2> HIDE DEF line
  <2>2. lines' = Append(lines, line) /\ real' = real /\ task' = task /\ inRecap' = inRecap
        /\ passed' = passed /\ ~inRecap
    BY <1>2 DEF FailItem, line
  <2>3. /\ lines' \in Seq(Line) /\ Len(lines') = Len(lines) + 1
        /\ \A i \in 1..Len(lines) : lines'[i] = lines[i]
        /\ lines'[Len(lines) + 1] = line
    BY <1>0, <2>1, <2>2
  <2>4. CASE Len(failures) < MaxFailureLines
    <3>1. failures' = Append(failures, line) /\ trailing' = trailing + 1
      BY <1>2, <2>4 DEF FailItem, ObserveFailure, line
    <3>2. /\ failures' \in Seq(Line) /\ Len(failures') = Len(failures) + 1
          /\ \A i \in 1..Len(failures) : failures'[i] = failures[i]
          /\ failures'[Len(failures) + 1] = line
      BY <1>0, <2>1, <3>1
    <3>3. Len(failures) = Len(real) + Len(lines)
      BY <1>0, <2>4 DEF DigestInv, Fitting
    <3>4. \A i \in 1..Len(failures') :
            failures'[i] = IF i <= Len(real) THEN real[i] ELSE lines'[i - Len(real)]
      <4> SUFFICES ASSUME NEW i \in 1..Len(failures')
                   PROVE  failures'[i] = IF i <= Len(real) THEN real[i] ELSE lines'[i - Len(real)]
        OBVIOUS
      <4>1. CASE i \in 1..Len(failures)
        <5>1. failures'[i] = failures[i]
          BY <3>2, <4>1
        <5>2. i <= Len(real) \/ i - Len(real) \in 1..Len(lines)
          BY <1>0, <1>e, <4>1
        <5>3. QED
          BY <1>e, <2>3, <4>1, <5>1, <5>2
      <4>2. CASE i = Len(failures) + 1
        <5>1. ~(i <= Len(real)) /\ i - Len(real) = Len(lines) + 1
          BY <1>0, <3>3, <4>2
        <5>2. QED
          BY <2>3, <3>2, <4>2, <5>1
      <4>3. QED
        BY <1>0, <3>2, <4>1, <4>2
    <3>5. QED
      BY <1>0, <2>2, <2>3, <2>4, <3>1, <3>2, <3>3, <3>4 DEF DigestInv, Fitting
  <2>5. CASE Len(failures) >= MaxFailureLines
    <3>1. failures' = failures /\ trailing' = trailing
      BY <1>0, <1>2, <2>5 DEF FailItem, ObserveFailure
    <3>2. Len(failures) = MaxFailureLines /\ MaxFailureLines <= Len(real) + Len(lines)
      BY <1>0, <2>5 DEF DigestInv, Fitting
    <3>3. \A i \in 1..Len(failures) :
            failures[i] = IF i <= Len(real) THEN real[i] ELSE lines'[i - Len(real)]
      <4> SUFFICES ASSUME NEW i \in 1..Len(failures)
                   PROVE  failures[i] = IF i <= Len(real) THEN real[i] ELSE lines'[i - Len(real)]
        OBVIOUS
      <4>1. i <= Len(real) \/ i - Len(real) \in 1..Len(lines)
        BY <1>0, <1>e
      <4>2. QED
        BY <1>e, <2>3, <4>1
    <3>4. Len(failures) = Fitting(Len(real) + Len(lines'))
      BY <1>0, <2>3, <3>2 DEF Fitting
    <3>5. \A i \in 1..Len(failures') :
            failures'[i] = IF i <= Len(real') THEN real'[i] ELSE lines'[i - Len(real')]
      BY <2>2, <3>1, <3>3
    <3>6. trailing' = Len(failures') - Fitting(Len(real'))
      BY <2>2, <3>1 DEF DigestInv
    <3>7. QED
      BY <1>0, <2>2, <2>3, <3>1, <3>4, <3>5, <3>6 DEF DigestInv
  <2>6. QED
    BY <1>0, <2>4, <2>5
<1>3. CASE PassItem
  <2>1. lines = << >>
    BY <1>3 DEF PassItem
  <2>2. QED
    BY <1>0, <1>3, <2>1 DEF PassItem, ObserveOther, DigestInv, Fitting
<1>4. CASE NextTask
  <2>1. /\ real' = real \o lines /\ lines' = << >> /\ failures' = failures /\ trailing' = 0
        /\ ~inRecap /\ ~inRecap' /\ passed' = FALSE /\ task' = task + 1
    BY <1>4 DEF NextTask, ObserveOther
  <2>2. /\ real' \in Seq(Line) /\ Len(real') = Len(real) + Len(lines)
        /\ \A i \in 1..Len(real) + Len(lines) :
             real'[i] = IF i <= Len(real) THEN real[i] ELSE lines[i - Len(real)]
    BY <1>0, <2>1, ConcatProperties
  <2>3. \A i \in 1..Len(failures) : failures[i] = real'[i] /\ i <= Len(real')
    <3> SUFFICES ASSUME NEW i \in 1..Len(failures)
                 PROVE  failures[i] = real'[i] /\ i <= Len(real')
      OBVIOUS
    <3>1. i \in 1..Len(real) + Len(lines)
      BY <1>0, <1>e
    <3>2. QED
      BY <1>0, <1>e, <2>2, <3>1
  <2>4. Len(failures) = Fitting(Len(real'))
    BY <2>2 DEF DigestInv
  <2>5. QED
    BY <1>0, <2>1, <2>2, <2>3, <2>4 DEF DigestInv, Fitting
<1>5. CASE PlayRecap
  <2>1. /\ real' = real \o lines /\ lines' = << >> /\ failures' = failures
        /\ inRecap' /\ passed' = passed /\ task' = task
    BY <1>5 DEF PlayRecap
  <2>2. /\ real' \in Seq(Line) /\ Len(real') = Len(real) + Len(lines)
        /\ \A i \in 1..Len(real) + Len(lines) :
             real'[i] = IF i <= Len(real) THEN real[i] ELSE lines[i - Len(real)]
    BY <1>0, <2>1, ConcatProperties
  <2>3. \A i \in 1..Len(failures) : failures[i] = real'[i] /\ i <= Len(real')
    <3> SUFFICES ASSUME NEW i \in 1..Len(failures)
                 PROVE  failures[i] = real'[i] /\ i <= Len(real')
      OBVIOUS
    <3>1. i \in 1..Len(real) + Len(lines)
      BY <1>0, <1>e
    <3>2. QED
      BY <1>0, <1>e, <2>2, <3>1
  <2>4. Len(failures) = Fitting(Len(real'))
    BY <2>2 DEF DigestInv
  <2>5. QED
    BY <1>0, <2>1, <2>2, <2>3, <2>4 DEF DigestInv, Fitting
<1>6. CASE Ignored
  <2>1. /\ failures' = SubSeq(failures, 1, Len(failures) - trailing) /\ trailing' = 0
        /\ lines' = << >> /\ real' = real /\ ~inRecap /\ ~inRecap' /\ passed' = FALSE
        /\ task' = task + 1
    BY <1>6 DEF Ignored, ObserveIgnoring
  <2> DEFINE n == Fitting(Len(real))
  <2>2. n \in Nat /\ n <= Len(failures) /\ n <= Len(real) /\ Len(failures) - trailing = n
    BY <1>0, <2>1 DEF DigestInv, Fitting
  <2> HIDE DEF n
  <2>3. \A i \in 1..n : failures[i] \in Line
    BY <1>0, <2>2, ElementOfSeq
  <2>4. /\ failures' \in Seq(Line) /\ Len(failures') = n
        /\ \A i \in 1..n : failures'[i] = failures[i]
    <3>1. /\ SubSeq(failures, 1, n) \in Seq(Line)
          /\ Len(SubSeq(failures, 1, n)) = IF 1 <= n THEN n - 1 + 1 ELSE 0
          /\ \A i \in 1..n - 1 + 1 : SubSeq(failures, 1, n)[i] = failures[1 + i - 1]
      BY <2>2, <2>3, SubSeqProperties
    <3>2. QED
      BY <2>1, <2>2, <3>1
  <2>5. \A i \in 1..n : failures'[i] = real[i]
    BY <1>0, <2>2, <2>4 DEF DigestInv
  <2>6. QED
    BY <1>0, <2>1, <2>2, <2>4, <2>5 DEF DigestInv, n
<1>7. QED
  BY <1>1, <1>2, <1>3, <1>4, <1>5, <1>6 DEF DigestNext

\* What a failed play shows is the first failure lines that nothing cancelled,
\* for every number of tasks, items and lines kept, as long as no item of a loop
\* passes after another has failed (FailureDigest::observe).
THEOREM DigestTells ==
    ASSUME ~MixedLoops
    PROVE  DigestSpec => []DigestIsTheFailures
<1>1. DigestInv => DigestIsTheFailures
  <2> SUFFICES ASSUME DigestInv, inRecap
               PROVE  failures = SubSeq(real, 1, Fitting(Len(real)))
    BY DEF DigestIsTheFailures, Fitting
  <2> DEFINE n == Fitting(Len(real))
  <2>1. real \in Seq(Line) /\ Len(real) \in Nat /\ failures \in Seq(Line) /\ lines = << >>
        /\ Len(lines) = 0
    BY LenProperties, EmptySeq DEF DigestInv
  <2>2. n \in Nat /\ n <= Len(real) /\ Len(failures) = n
    BY <2>1, DigestAssumption DEF DigestInv, Fitting
  <2> HIDE DEF n
  <2>3. \A i \in 1..n : real[i] \in Line
    BY <2>1, <2>2, ElementOfSeq
  <2>4. /\ SubSeq(real, 1, n) \in Seq(Line)
        /\ Len(SubSeq(real, 1, n)) = IF 1 <= n THEN n - 1 + 1 ELSE 0
        /\ \A i \in 1..n - 1 + 1 : SubSeq(real, 1, n)[i] = real[1 + i - 1]
    BY <2>2, <2>3, SubSeqProperties
  <2>5. \A i \in 1..n : SubSeq(real, 1, n)[i] = failures[i]
    BY <2>1, <2>2, <2>4 DEF DigestInv
  <2>6. failures = SubSeq(real, 1, n)
    BY <2>1, <2>2, <2>4, <2>5, SeqEqual
  <2>7. QED
    BY <2>6 DEF n
<1>2. DigestInv /\ [DigestNext]_digestVars => DigestInv'
  BY DigestInvStep
<1>3. QED
  BY DigestInvInit, <1>1, <1>2, PTL DEF DigestSpec

----------------------------------------------------------------------------
(* config.toml.                                                            *)

\* Every preflight that passed read one file: what it flattened is that file's,
\* and none of the keys it required is missing or fails to resolve.
Flat ==
    \A f \in preflights :
        /\ f.vars = Flattened(f.of, f.host)
        /\ Missing(f.of, f.host, f.keys) = {} /\ ~ResolveFails(f.of, f.host, f.keys)

\* The key a play is given, as the flattening resolves it.
LEMMA FlattenedIsEffective ==
    ASSUME NEW f, NEW n, NEW k \in Keys
    PROVE  Flattened(f, n)[k] = Resolve(Effective(f, n, k))
<1>1. CASE f.hosts[n] = NoTable
  BY <1>1 DEF Flattened, Effective, Overrides
<1>2. CASE f.hosts[n] # NoTable
  BY <1>2 DEF Flattened, Effective, Overrides
<1>3. QED
  BY <1>1, <1>2

LEMMA FlatStep ==
    ASSUME Flat, [ConfigNext]_configVars
    PROVE  Flat'
<1>1. ASSUME NEW p \in Commands, NEW n \in Names, NEW keys \in Required, Preflight(p, n, keys)
      PROVE  Flat'
  BY <1>1 DEF Preflight, Flat
<1>2. preflights' = preflights \/ \E p \in Commands, n \in Names, keys \in Required : Preflight(p, n, keys)
  BY DEF ConfigNext, configVars, LoadConfig, Truncate, Save, End, InitScaffold, EditFile, Quiet
<1>3. QED
  BY <1>1, <1>2 DEF Flat

\* What a play is given for a key is what the CLI's own gates read of it, a blank
\* override included, and no required key among them is blank: for every file,
\* every Host and every set of required keys, whoever edits the file meanwhile
\* (flatten_for_ansible, validate_required_resolved).
THEOREM PlaysAgree == ConfigSpec => []PlayAgrees
<1>1. ConfigInit => Flat
  BY DEF ConfigInit, Flat
<1>2. Flat => PlayAgrees
  <2> SUFFICES ASSUME Flat, NEW f \in preflights, NEW k \in Keys
               PROVE  /\ f.vars[k] = Resolve(Effective(f.of, f.host, k))
                      /\ k \in f.keys => f.vars[k] \notin {NoKey, "", "!fails"}
    BY DEF PlayAgrees
  <2>1. f.vars[k] = Resolve(Effective(f.of, f.host, k))
    BY FlattenedIsEffective DEF Flat
  <2>2. k \in f.keys => Effective(f.of, f.host, k) \notin {NoKey, "", "!fails"}
    BY DEF Flat, Missing, ResolveFails, Broken
  <2>3. QED
    BY <2>1, <2>2 DEF Resolve, NoKey
<1>3. QED
  BY <1>1, <1>2, FlatStep, PTL DEF ConfigSpec

\* What each change does to a file: it stays a file, and only the answers the
\* change is about differ.
Tidy(f, c) ==
    /\ Changed(f, c) \in File /\ Changed(f, c).other = f.other
    /\ Differ(f, Changed(f, c)) \subseteq Touched(c)

LEMMA ChangeIsTidy ==
    ASSUME NEW f \in File, NEW c \in Changes, Applies(f, c)
    PROVE  Tidy(f, c)
<1>0. f.hosts \in [Names -> Tables] /\ f.top \in [Keys -> Answer]
  BY DEF File
<1>a. \A n \in Names : f.hosts[n] # NoTable =>
        /\ f.hosts[n].of \in [Keys -> Answer] /\ f.hosts[n] = Table(f.hosts[n].of)
  BY <1>0 DEF Tables, Table, NoTable
<1>t. \A a : Table(a) # NoTable /\ Table(a).of = a
  BY DEF Table, NoTable
<1>1. CASE c.op = "set"
  <2>1. c.on \in Places /\ c.key \in Keys /\ c.value \in Answer
    BY <1>1 DEF Changes, Answer
  <2> DEFINE g == SetKey(f, c.on, c.key, c.value)
  <2>2. Changed(f, c) = g /\ Touched(c) = {<<c.on, c.key>>}
    BY <1>1 DEF Changed, Touched
  <2>3. CASE c.on = Fleet
    <3>1. g = [f EXCEPT !.top = [f.top EXCEPT ![c.key] = c.value]]
      BY <2>3 DEF SetKey
    <3>2. g \in File /\ g.other = f.other /\ g.hosts = f.hosts
          /\ \A k \in Keys : k # c.key => g.top[k] = f.top[k]
      BY <1>0, <2>1, <3>1 DEF File
    <3>3. QED
      BY <2>2, <2>3, <3>2 DEF Tidy, Differ, GetKey, Places
  <2>4. CASE c.on # Fleet
    <3>0. c.on \in Names
      BY <2>1, <2>4 DEF Places
    <3> DEFINE answers == IF f.hosts[c.on] = NoTable THEN NoAnswers ELSE f.hosts[c.on].of
               t == Table([answers EXCEPT ![c.key] = c.value])
    <3>1. answers \in [Keys -> Answer]
      BY <1>a, <3>0 DEF NoAnswers, Answer
    <3>2. t \in Tables
      BY <2>1, <3>1 DEF Tables
    <3>3. g = [f EXCEPT !.header = TRUE, !.hosts = [f.hosts EXCEPT ![c.on] = t]]
      BY <2>4 DEF SetKey
    <3>4. \A k \in Keys : k # c.key => GetKey(f, c.on, k) = t.of[k]
      BY <2>4, <3>1, <1>t DEF GetKey, NoAnswers
    <3>5. t # NoTable
      BY <1>t
    <3> HIDE DEF t
    <3>6. g \in File /\ g.other = f.other /\ g.top = f.top /\ g.hosts[c.on] = t
          /\ \A n \in Names : n # c.on => g.hosts[n] = f.hosts[n]
      BY <1>0, <3>0, <3>2, <3>3 DEF File
    <3> HIDE DEF g
    <3>7. \A n \in Places, k \in Keys : GetKey(f, n, k) # GetKey(g, n, k) => n = c.on /\ k = c.key
      BY <2>4, <3>4, <3>5, <3>6 DEF GetKey, Places
    <3>8. QED
      BY <2>2, <3>6, <3>7 DEF Tidy, Differ
  <2>5. QED
    BY <2>3, <2>4
<1>2. CASE c.op = "remove"
  <2>1. c.on \in Places /\ c.key \in Keys /\ GetKey(f, c.on, c.key) # NoKey
    BY <1>2 DEF Changes, Applies
  <2> DEFINE g == RemoveKey(f, c.on, c.key)
  <2>2. Changed(f, c) = g /\ Touched(c) = {<<c.on, c.key>>}
    BY <1>2 DEF Changed, Touched
  <2>3. CASE c.on = Fleet
    <3>1. g = [f EXCEPT !.top = [f.top EXCEPT ![c.key] = NoKey]]
      BY <2>3 DEF RemoveKey
    <3>2. g \in File /\ g.other = f.other /\ g.hosts = f.hosts
          /\ \A k \in Keys : k # c.key => g.top[k] = f.top[k]
      BY <1>0, <2>1, <3>1 DEF File, Answer
    <3>3. QED
      BY <2>2, <2>3, <3>2 DEF Tidy, Differ, GetKey, Places
  <2>4. CASE c.on # Fleet
    <3>0. c.on \in Names /\ f.hosts[c.on] # NoTable
      BY <2>1, <2>4 DEF Places, GetKey
    <3> DEFINE answers == f.hosts[c.on].of
               less == [answers EXCEPT ![c.key] = NoKey]
               t == Table(less)
               swept == IF t = Table(NoAnswers) THEN NoTable ELSE t
               hosts == [f.hosts EXCEPT ![c.on] = swept]
    <3>1. answers \in [Keys -> Answer] /\ f.hosts[c.on] = Table(answers)
      BY <1>a, <3>0
    <3>2. less \in [Keys -> Answer]
      BY <3>1 DEF Answer
    <3>3. swept \in Tables
      BY <3>2 DEF Tables
    <3>4. [f.hosts[c.on] EXCEPT !.of[c.key] = NoKey] = t
      BY <3>1 DEF Table
    <3>5. [f EXCEPT !.hosts[c.on].of[c.key] = NoKey] = [f EXCEPT !.hosts = [f.hosts EXCEPT ![c.on] = t]]
      BY <1>0, <3>0, <3>4 DEF File
    <3>6. [[f.hosts EXCEPT ![c.on] = t] EXCEPT ![c.on] = IF @ = Table(NoAnswers) THEN NoTable ELSE @] = hosts
      BY <1>0, <3>0
    <3>7. g = [f EXCEPT !.hosts = hosts, !.header = \E n \in Names : hosts[n] # NoTable]
      BY <2>4, <3>5, <3>6 DEF RemoveKey, Swept, File
    <3>8. \A k \in Keys : k # c.key => GetKey(f, c.on, k) = IF swept = NoTable THEN NoKey ELSE swept.of[k]
      <4> SUFFICES ASSUME NEW k \in Keys, k # c.key
                   PROVE  GetKey(f, c.on, k) = IF swept = NoTable THEN NoKey ELSE swept.of[k]
        OBVIOUS
      <4>1. GetKey(f, c.on, k) = less[k]
        BY <2>4, <3>0, <3>1 DEF GetKey
      <4>2. CASE less = NoAnswers
        BY <4>1, <4>2 DEF NoAnswers
      <4>3. CASE less # NoAnswers
        <5>1. swept = t
          BY <1>t, <4>3
        <5>2. QED
          BY <1>t, <4>1, <5>1
      <4>4. QED
        BY <4>2, <4>3
    <3> HIDE DEF swept
    <3>9. hosts \in [Names -> Tables] /\ hosts[c.on] = swept
          /\ \A n \in Names : n # c.on => hosts[n] = f.hosts[n]
      BY <1>0, <3>0, <3>3
    <3> HIDE DEF hosts
    <3>10. g \in File /\ g.other = f.other /\ g.top = f.top /\ g.hosts = hosts
      BY <1>0, <3>7, <3>9 DEF File
    <3> HIDE DEF g
    <3>11. \A n \in Places, k \in Keys : GetKey(f, n, k) # GetKey(g, n, k) => n = c.on /\ k = c.key
      BY <2>4, <3>8, <3>9, <3>10 DEF GetKey, Places
    <3>12. QED
      BY <2>2, <3>10, <3>11 DEF Tidy, Differ
  <2>5. QED
    BY <2>3, <2>4
<1>3. CASE c.op = "rename"
  <2>1. c.on \in Names /\ c.new \in Names /\ c.on # c.new
    BY <1>3 DEF Changes
  <2> DEFINE hosts == [f.hosts EXCEPT ![c.new] = f.hosts[c.on], ![c.on] = NoTable]
             g == Renamed(f, c.on, c.new)
  <2>2. hosts \in [Names -> Tables] /\ \A n \in Names \ {c.on, c.new} : hosts[n] = f.hosts[n]
    BY <1>0, <2>1 DEF Tables
  <2>3. g = [f EXCEPT !.hosts = hosts]
    BY <1>0, <2>1 DEF Renamed, File
  <2> HIDE DEF hosts
  <2>4. g \in File /\ g.other = f.other /\ g.top = f.top /\ g.hosts = hosts
    BY <1>0, <2>2, <2>3 DEF File
  <2>5. Changed(f, c) = g /\ Touched(c) = {c.on, c.new} \X Keys
    BY <1>3 DEF Changed, Touched
  <2> HIDE DEF g
  <2>6. \A n \in Places, k \in Keys : GetKey(f, n, k) # GetKey(g, n, k) => n \in {c.on, c.new}
    BY <2>2, <2>4 DEF GetKey, Places
  <2>7. QED
    BY <2>4, <2>5, <2>6 DEF Tidy, Differ
<1>4. QED
  BY <1>1, <1>2, <1>3 DEF Applies

\* A change to a file whose tables all answer something leaves them so.
LEMMA ChangeIsNotBare ==
    ASSUME NEW f \in File, NEW c \in Changes, Applies(f, c), ~Bare(f)
    PROVE  ~Bare(Changed(f, c))
<1>0. f.hosts \in [Names -> Tables] /\ f.top \in [Keys -> Answer]
  BY DEF File
<1>a. \A n \in Names : f.hosts[n] # Table(NoAnswers)
  BY DEF Bare
<1>b. f.header => \E n \in Names : f.hosts[n] # NoTable
  BY DEF Bare
<1>t. \A a : Table(a) # NoTable /\ Table(a).of = a
  BY DEF Table, NoTable
<1>c. ASSUME NEW top PROVE ~Bare([f EXCEPT !.top = top])
  <2>1. /\ [f EXCEPT !.top = top].header = f.header
        /\ [f EXCEPT !.top = top].hosts = f.hosts
    BY DEF File
  <2>2. QED
    BY <1>a, <1>b, <2>1 DEF Bare
<1>1. CASE c.op = "set"
  <2>1. c.on \in Places /\ c.key \in Keys /\ c.value \in Texts
    BY <1>1 DEF Changes
  <2>2. Changed(f, c) = SetKey(f, c.on, c.key, c.value)
    BY <1>1 DEF Changed
  <2>3. CASE c.on = Fleet
    <3>1. SetKey(f, c.on, c.key, c.value) = [f EXCEPT !.top = [f.top EXCEPT ![c.key] = c.value]]
      BY <2>3 DEF SetKey
    <3>2. QED
      BY <1>c, <2>2, <3>1
  <2>4. CASE c.on # Fleet
    <3>0. c.on \in Names
      BY <2>1, <2>4 DEF Places
    <3> DEFINE answers == IF f.hosts[c.on] = NoTable THEN NoAnswers ELSE f.hosts[c.on].of
               more == [answers EXCEPT ![c.key] = c.value]
               hosts == [f.hosts EXCEPT ![c.on] = Table(more)]
               g == SetKey(f, c.on, c.key, c.value)
    <3>1. answers \in [Keys -> Answer]
      BY <1>0, <3>0, <1>t DEF NoAnswers, Answer, Tables
    <3>2. more[c.key] = c.value /\ c.value # NoKey /\ NoAnswers[c.key] = NoKey
      BY <2>1, <3>1 DEF Texts, NoKey, NoAnswers
    <3>3. more # NoAnswers
      BY <3>2
    <3>4. g = [f EXCEPT !.header = TRUE, !.hosts = hosts]
      BY <2>4 DEF SetKey
    <3> HIDE DEF answers, more
    <3>5. hosts[c.on] = Table(more) /\ \A n \in Names : n # c.on => hosts[n] = f.hosts[n]
      BY <1>0, <3>0
    <3>6. Table(more) # Table(NoAnswers) /\ Table(more) # NoTable
      BY <1>t, <3>3
    <3> HIDE DEF hosts
    <3>7. g.hosts = hosts
      BY <3>4 DEF File
    <3> HIDE DEF g
    <3>8. ~Bare(g)
      BY <1>a, <3>0, <3>5, <3>6, <3>7 DEF Bare
    <3>9. QED
      BY <2>2, <3>8 DEF g
  <2>5. QED
    BY <2>3, <2>4
<1>2. CASE c.op = "remove"
  <2>1. Changed(f, c) = RemoveKey(f, c.on, c.key) /\ c.on \in Places
    BY <1>2 DEF Changed, Changes
  <2>2. CASE c.on = Fleet
    <3>1. RemoveKey(f, c.on, c.key) = [f EXCEPT !.top = [f.top EXCEPT ![c.key] = NoKey]]
      BY <2>2 DEF RemoveKey
    <3>2. QED
      BY <1>c, <2>1, <3>1
  <2>3. CASE c.on # Fleet
    <3>0. c.on \in Names
      BY <2>1, <2>3 DEF Places
    <3> DEFINE t == [f.hosts[c.on] EXCEPT !.of[c.key] = NoKey]
               emptied == [f EXCEPT !.hosts[c.on].of[c.key] = NoKey]
               left == [emptied.hosts EXCEPT ![c.on] = IF @ = Table(NoAnswers) THEN NoTable ELSE @]
               g == RemoveKey(f, c.on, c.key)
    <3>1. emptied = [f EXCEPT !.hosts = [f.hosts EXCEPT ![c.on] = t]]
      BY <1>0, <3>0 DEF File
    <3>2. emptied.hosts = [f.hosts EXCEPT ![c.on] = t]
      BY <3>1 DEF File
    <3>3. g = [emptied EXCEPT !.hosts = left, !.header = \E n \in Names : left[n] # NoTable]
      BY <2>3 DEF RemoveKey, Swept
    <3>4. left[c.on] # Table(NoAnswers) /\ \A n \in Names : n # c.on => left[n] = f.hosts[n]
      BY <1>0, <1>t, <3>0, <3>2
    <3>5. DOMAIN emptied = {"top", "hosts", "header", "other"}
      BY <3>1 DEF File
    <3> HIDE DEF emptied, left
    <3>6. g.hosts = left /\ g.header = (\E n \in Names : left[n] # NoTable)
      BY <3>3, <3>5
    <3> HIDE DEF g
    <3>7. ~Bare(g)
      BY <1>a, <3>4, <3>6 DEF Bare
    <3>8. QED
      BY <2>1, <3>7 DEF g
  <2>4. QED
    BY <2>2, <2>3
<1>3. CASE c.op = "rename"
  <2>1. c.on \in Names /\ c.new \in Names /\ c.on # c.new /\ f.hosts[c.on] # NoTable
    BY <1>3 DEF Changes, Applies
  <2> DEFINE hosts == [f.hosts EXCEPT ![c.new] = f.hosts[c.on], ![c.on] = NoTable]
             g == Renamed(f, c.on, c.new)
  <2>2. /\ hosts[c.on] = NoTable /\ hosts[c.new] = f.hosts[c.on]
        /\ \A n \in Names \ {c.on, c.new} : hosts[n] = f.hosts[n]
    BY <1>0, <2>1
  <2>3. g = [f EXCEPT !.hosts = hosts]
    BY <1>0, <2>1 DEF Renamed, File
  <2> HIDE DEF hosts
  <2>4. g.hosts = hosts
    BY <2>3 DEF File
  <2>5. Changed(f, c) = g
    BY <1>3 DEF Changed
  <2> HIDE DEF g
  <2>6. \A n \in Names : hosts[n] # Table(NoAnswers)
    BY <1>a, <1>t, <2>1, <2>2
  <2>7. QED
    BY <2>1, <2>2, <2>4, <2>5, <2>6 DEF Bare
<1>4. QED
  BY <1>1, <1>2, <1>3 DEF Applies

\* One command at a time: what it loaded is the file, what it saves is its change
\* of the file, and the file is whole while nothing saves.
ConfigInv ==
    /\ file \in File \cup {Absent}
    /\ cmd \in [Commands -> Changes \cup {NoCommand}]
    /\ step \in [Commands -> {"idle", "loaded", "saving", "saved"}]
    /\ copy = [p \in Commands |-> copy[p]] /\ before = [p \in Commands |-> before[p]]
    /\ \A p, q \in Commands : step[p] # "idle" /\ step[q] # "idle" => p = q
    /\ \A p \in Commands :
         /\ step[p] # "idle" => cmd[p] \in Changes
         /\ step[p] = "loaded" => copy[p] = file /\ file \in File
         /\ step[p] \in {"saving", "saved"} =>
              before[p] \in File /\ Applies(before[p], cmd[p]) /\ copy[p] = Changed(before[p], cmd[p])
         /\ step[p] = "saved" => file = copy[p]

LEMMA EmptyIsAFile == Empty \in File
<1>1. NoAnswers \in [Keys -> Answer]
  BY DEF NoAnswers, Answer
<1>2. [n \in Names |-> NoTable] \in [Names -> Tables]
  BY DEF Tables
<1>3. QED
  BY <1>1, <1>2 DEF Empty, File

LEMMA ConfigInvInit == ConfigInit => ConfigInv
  BY ConfigAssumption DEF ConfigInit, ConfigInv

LEMMA ConfigInvStep ==
    ASSUME Alone, ConfigInv, [ConfigNext]_configVars
    PROVE  ConfigInv'
<1>1. CASE UNCHANGED configVars
  BY <1>1 DEF ConfigInv, configVars
<1>2. ASSUME NEW p \in Commands, NEW c \in Changes, LoadConfig(p, c)
      PROVE  ConfigInv'
  <2>1. \A q \in Commands : step[q] = "idle"
    BY <1>2 DEF LoadConfig, Free, Busy
  <2>2. file' = file /\ before' = before /\ cmd' = [cmd EXCEPT ![p] = c]
    BY <1>2 DEF LoadConfig, Quiet
  <2>3. CASE file = Absent
    <3>1. step' = [step EXCEPT ![p] = "idle"] /\ copy' = copy
      BY <1>2, <2>3 DEF LoadConfig, Become
    <3>2. QED
      BY <2>1, <2>2, <3>1 DEF ConfigInv
  <2>4. CASE file # Absent
    <3>1. step' = [step EXCEPT ![p] = "loaded"] /\ copy' = [copy EXCEPT ![p] = file]
      BY <1>2, <2>4 DEF LoadConfig, Become
    <3>2. QED
      BY <2>1, <2>2, <2>4, <3>1 DEF ConfigInv
  <2>5. QED
    BY <2>3, <2>4
<1>3. ASSUME NEW p \in Commands, Truncate(p)
      PROVE  ConfigInv'
  <2>1. step[p] = "loaded" /\ cmd' = cmd /\ copy[p] = file /\ file \in File
        /\ \A q \in Commands \ {p} : step[q] = "idle"
    BY <1>3 DEF Truncate, ConfigInv
  <2>2. CASE Applies(copy[p], cmd[p])
    <3>1. /\ step' = [step EXCEPT ![p] = "saving"] /\ file' = Empty
          /\ before' = [before EXCEPT ![p] = file]
          /\ copy' = [copy EXCEPT ![p] = Changed(copy[p], cmd[p])]
      BY <1>3, <2>2 DEF Truncate, Become
    <3>2. /\ step'[p] = "saving" /\ before'[p] = file /\ copy'[p] = Changed(file, cmd[p])
          /\ \A q \in Commands \ {p} : step'[q] = "idle"
          /\ step' \in [Commands -> {"idle", "loaded", "saving", "saved"}]
      BY <2>1, <3>1 DEF ConfigInv
    <3>3. QED
      BY <2>1, <2>2, <3>1, <3>2, EmptyIsAFile DEF ConfigInv
  <2>3. CASE ~Applies(copy[p], cmd[p])
    <3>1. step' = [step EXCEPT ![p] = "idle"] /\ UNCHANGED <<file, before, copy>>
      BY <1>3, <2>3 DEF Truncate, Become
    <3>2. QED
      BY <2>1, <3>1 DEF ConfigInv
  <2>4. QED
    BY <2>2, <2>3
<1>4. ASSUME NEW p \in Commands, Save(p)
      PROVE  ConfigInv'
  <2>1. /\ step[p] = "saving" /\ file' = copy[p] /\ step' = [step EXCEPT ![p] = "saved"]
        /\ UNCHANGED <<cmd, copy, before>>
    BY <1>4 DEF Save, Become, Quiet
  <2>2. copy[p] \in File
    BY <2>1, ChangeIsTidy DEF ConfigInv, Tidy
  <2>3. QED
    BY <2>1, <2>2 DEF ConfigInv
<1>5. ASSUME NEW p \in Commands, End(p)
      PROVE  ConfigInv'
  BY <1>5 DEF End, Become, Quiet, ConfigInv
<1>6. ASSUME NEW p \in Commands, NEW keys, NEW force, InitScaffold(p, keys, force)
      PROVE  ConfigInv'
  <2>1. \A q \in Commands : step[q] = "idle"
    BY <1>6 DEF InitScaffold, Free, Busy
  <2>2. [k \in Keys |-> IF k \in keys THEN "" ELSE NoKey] \in [Keys -> Answer]
    BY DEF Answer, Texts
  <2>3. file' \in File /\ UNCHANGED <<cmd, step, copy, before>>
    BY <1>6, <2>2, EmptyIsAFile DEF InitScaffold, File, Quiet
  <2>4. QED
    BY <2>1, <2>3 DEF ConfigInv
<1>7. ASSUME NEW f \in FirstFiles, EditFile(f)
      PROVE  ConfigInv'
  <2>1. \A q \in Commands : step[q] = "idle"
    BY <1>7 DEF EditFile, Busy
  <2>2. file' \in File /\ UNCHANGED <<cmd, step, copy, before>>
    BY <1>7, ConfigAssumption DEF EditFile, Quiet
  <2>3. QED
    BY <2>1, <2>2 DEF ConfigInv
<1>8. ASSUME NEW p \in Commands, NEW n, NEW keys, Preflight(p, n, keys)
      PROVE  ConfigInv'
  BY <1>8 DEF Preflight, ConfigInv
<1>9. QED
  BY <1>1, <1>2, <1>3, <1>4, <1>5, <1>6, <1>7, <1>8 DEF ConfigNext

\* A save changes the answers its command is about and no other, nor any other
\* table, for every file and every set, remove and rename, as long as no other
\* command or editor runs between its load and its save (Config::load, save).
THEOREM SavesTouchTheirKey ==
    ASSUME Alone
    PROVE  ConfigSpec => []SaveTouchesOnlyItsKey
<1>1. ConfigInv => SaveTouchesOnlyItsKey
  <2> SUFFICES ASSUME ConfigInv, NEW p \in Commands, step[p] = "saved"
               PROVE  /\ Differ(before[p], file) \subseteq Touched(cmd[p])
                      /\ before[p].other = file.other
    BY DEF SaveTouchesOnlyItsKey
  <2>1. /\ before[p] \in File /\ cmd[p] \in Changes /\ Applies(before[p], cmd[p])
        /\ file = Changed(before[p], cmd[p])
    BY DEF ConfigInv
  <2>2. Tidy(before[p], cmd[p])
    BY <2>1, ChangeIsTidy
  <2>3. QED
    BY <2>1, <2>2 DEF Tidy
<1>2. QED
  BY <1>1, ConfigInvInit, ConfigInvStep, PTL DEF ConfigSpec

\* A command that saves leaves [hosts] and every Host's table with an answer in it,
\* where the file had them so: for every file and every set, remove and rename, as
\* long as nothing else writes meanwhile (remove_host_key, rename_host_overrides).
THEOREM TablesAreNotBare ==
    ASSUME Alone
    PROVE  ConfigSpec => []NoBareTable
<1>1. ConfigInv => NoBareTable
  <2> SUFFICES ASSUME ConfigInv, NEW p \in Commands, step[p] = "saved", ~Bare(before[p])
               PROVE  ~Bare(file)
    BY DEF NoBareTable
  <2>1. /\ before[p] \in File /\ cmd[p] \in Changes /\ Applies(before[p], cmd[p])
        /\ file = Changed(before[p], cmd[p])
    BY DEF ConfigInv
  <2>2. QED
    BY <2>1, ChangeIsNotBare
<1>2. QED
  BY <1>1, ConfigInvInit, ConfigInvStep, PTL DEF ConfigSpec

----------------------------------------------------------------------------
(* Sequences of anything.                                                  *)

IsSeq(s) == Len(s) \in Nat /\ s = [i \in 1..Len(s) |-> s[i]]

LEMMA SeqForm ==
    ASSUME NEW S, NEW s \in Seq(S)
    PROVE  IsSeq(s)
<1>1. Len(s) \in Nat /\ s \in [1..Len(s) -> S]
  BY LenProperties
<1>2. QED
  BY <1>1 DEF IsSeq

LEMMA FormSeq ==
    ASSUME NEW s, IsSeq(s), NEW S, \A i \in 1..Len(s) : s[i] \in S
    PROVE  s \in Seq(S)
<1>1. s \in [1..Len(s) -> S] /\ Len(s) \in Nat
  BY DEF IsSeq
<1>2. QED
  BY <1>1, SeqDef

LEMMA Added ==
    ASSUME NEW s, IsSeq(s), NEW x
    PROVE  /\ IsSeq(Append(s, x)) /\ Len(Append(s, x)) = Len(s) + 1
           /\ \A i \in 1..Len(s) : Append(s, x)[i] = s[i]
           /\ Append(s, x)[Len(s) + 1] = x
<1> DEFINE S == {s[i] : i \in 1..Len(s)} \cup {x}
<1>1. s \in Seq(S) /\ x \in S
  BY FormSeq
<1> HIDE DEF S
<1>2. /\ Append(s, x) \in Seq(S) /\ Len(Append(s, x)) = Len(s) + 1
      /\ \A i \in 1..Len(s) : Append(s, x)[i] = s[i]
      /\ Append(s, x)[Len(s) + 1] = x
  BY <1>1, AppendProperties
<1>3. QED
  BY <1>2, SeqForm

LEMMA ConcatIs ==
    ASSUME NEW s, NEW t, IsSeq(s), IsSeq(t)
    PROVE  /\ IsSeq(s \o t) /\ Len(s \o t) = Len(s) + Len(t)
           /\ \A i \in 1..Len(s \o t) :
                \/ i \in 1..Len(s) /\ (s \o t)[i] = s[i]
                \/ i - Len(s) \in 1..Len(t) /\ (s \o t)[i] = t[i - Len(s)]
<1> DEFINE S == {s[i] : i \in 1..Len(s)} \cup {t[i] : i \in 1..Len(t)}
<1>1. s \in Seq(S) /\ t \in Seq(S)
  BY FormSeq
<1> HIDE DEF S
<1>2. /\ s \o t \in Seq(S) /\ Len(s \o t) = Len(s) + Len(t)
      /\ \A i \in 1..Len(s) + Len(t) :
           (s \o t)[i] = IF i <= Len(s) THEN s[i] ELSE t[i - Len(s)]
  BY <1>1, ConcatProperties
<1>3. IsSeq(s \o t)
  BY <1>2, SeqForm
<1>4. QED
  BY <1>2, <1>3 DEF IsSeq

\* A list of runs all of which are of some kind.
AllIn(s, K) == IsSeq(s) /\ \A i \in 1..Len(s) : s[i] \in K

LEMMA AllInJoined ==
    ASSUME NEW K, NEW s, NEW t, AllIn(s, K), AllIn(t, K)
    PROVE  AllIn(s \o t, K) /\ Len(s \o t) = Len(s) + Len(t)
  BY ConcatIs DEF AllIn, IsSeq

LEMMA AllInOne ==
    ASSUME NEW K, NEW x \in K
    PROVE  AllIn(<<x>>, K) /\ Len(<<x>>) = 1
<1>1. <<x>> \in Seq(K) /\ Len(<<x>>) = 1 /\ <<x>>[1] = x
  OBVIOUS
<1>2. IsSeq(<<x>>)
  BY <1>1, SeqForm
<1>3. \A i \in 1..1 : i = 1
  OBVIOUS
<1>4. QED
  BY <1>1, <1>2, <1>3 DEF AllIn

LEMMA AllInNone == ASSUME NEW K PROVE AllIn(<< >>, K)
<1>1. << >> \in Seq({}) /\ Len(<< >>) = 0
  BY EmptySeq
<1>2. IsSeq(<< >>)
  BY <1>1, SeqForm
<1>3. \A i \in 1..0 : FALSE
  OBVIOUS
<1>4. QED
  BY <1>1, <1>2, <1>3 DEF AllIn

----------------------------------------------------------------------------
(* The plan of a deploy.                                                   *)

\* What a deploy plans: Apps by the names of their roles, playbooks as a whole.
LayerRun(asked) ==
    {run \in [playbook : Layered, tags : SUBSET asked] : run.playbook = "apps" => run.tags # {}}
WholeOf(S) == {Run(p, {}) : p \in S}
WholeRun == WholeOf(Standalone \ NotDeployable)
DeployRun == LayerRun(Roster) \cup WholeRun

LEMMA LayersAreRuns ==
    ASSUME NEW asked
    PROVE  AllIn(LayerRuns(asked), LayerRun(asked))
<1> DEFINE carries(p) == \E t \in asked : \E r \in Tree[p] : t = r.name \/ t \in r.tags
           needed(p) == carries(p) \/ (p = "infrastructure" /\ carries("apps"))
           layer(p) == IF needed(p) THEN <<Run(p, TagsFor(p, asked))>> ELSE << >>
<1>1. \A p \in Layered : needed(p) => Run(p, TagsFor(p, asked)) \in LayerRun(asked)
  <2> SUFFICES ASSUME NEW p \in Layered, needed(p)
               PROVE  Run(p, TagsFor(p, asked)) \in LayerRun(asked)
    OBVIOUS
  <2>1. TagsFor(p, asked) \in SUBSET asked
    BY DEF TagsFor
  <2>2. p = "apps" => TagsFor(p, asked) # {}
    BY DEF TagsFor
  <2>3. QED
    BY <2>1, <2>2 DEF LayerRun, Run
<1>2. \A p \in Layered : AllIn(layer(p), LayerRun(asked))
  <2> SUFFICES ASSUME NEW p \in Layered PROVE AllIn(layer(p), LayerRun(asked))
    OBVIOUS
  <2>1. CASE needed(p)
    BY <1>1, <2>1, AllInOne
  <2>2. CASE ~needed(p)
    BY <2>2, AllInNone
  <2>3. QED
    BY <2>1, <2>2
<1>3. LayerRuns(asked) = layer("hardening") \o layer("infrastructure") \o layer("apps")
  BY DEF LayerRuns
<1> HIDE DEF layer
<1>4. AllIn(layer("hardening"), LayerRun(asked)) /\ AllIn(layer("infrastructure"), LayerRun(asked))
      /\ AllIn(layer("apps"), LayerRun(asked))
  BY <1>2 DEF Layered
<1>5. AllIn(layer("hardening") \o layer("infrastructure"), LayerRun(asked))
  BY <1>4, AllInJoined
<1>6. QED
  BY <1>3, <1>4, <1>5, AllInJoined

LEMMA WholesAreRuns ==
    ASSUME NEW S, NEW names \in Seq(S)
    PROVE  AllIn(WholeRuns(names), WholeOf(S))
<1>1. Len(names) \in Nat /\ DOMAIN names = 1..Len(names) /\ \A i \in 1..Len(names) : names[i] \in S
  BY LenProperties, ElementOfSeq
<1>2. WholeRuns(names) = [i \in 1..Len(names) |-> Run(names[i], {})]
  BY <1>1 DEF WholeRuns
<1>3. WholeRuns(names) \in Seq(WholeOf(S))
  BY <1>1, <1>2 DEF WholeOf
<1>4. QED
  BY <1>3, SeqForm, ElementOfSeq DEF AllIn

\* What a deploy is asked for is a list of names, the whole roster one too.
LEMMA RequestsAreLists ==
    ASSUME NEW d \in Demands, NEW names \in Requests(d)
    PROVE  names \in Seq(Elements(names))
<1>1. CASE names = d.names
  BY <1>1, DemandAssumption
<1>2. CASE \E t \in MenuTargets : names = <<t>>
  <2>1. PICK t : names = <<t>>
    BY <1>2
  <2>2. Elements(names) = {t}
    BY <2>1 DEF Elements
  <2>3. QED
    BY <2>1, <2>2
<1>3. CASE names = WholeRoster
  <2> DEFINE n == Cardinality(Roster)
  <2>1. PICK f : ExistsBijection(1 .. n, Roster) /\ n \in Nat /\ f \in Bijection(1 .. n, Roster)
    BY DemandAssumption, FS_NatBijection, FS_CardinalityType, FS_CountingElements DEF ExistsBijection
  <2>2. f \in [1 .. n -> Roster] /\ Elements(f) = Roster
    <3>1. f \in [1 .. n -> Roster] /\ \A r \in Roster : \E i \in 1 .. n : f[i] = r
      BY <2>1 DEF Bijection, Injection, Surjection
    <3>2. QED
      BY <3>1 DEF Elements
  <2>3. WholeRoster \in [1 .. n -> Roster] /\ Elements(WholeRoster) = Roster
    BY <2>2 DEF WholeRoster
  <2>4. QED
    BY <1>3, <2>1, <2>3
<1>4. QED
  BY <1>1, <1>2, <1>3 DEF Requests

LEMMA DeployPlans ==
    ASSUME NEW d \in Demands, NEW names \in Requests(d), Elements(names) \subseteq Deployable
    PROVE  AllIn(DeployPlan(names), DeployRun) /\ Len(DeployPlan(names)) > 0
<1> DEFINE roles == OfRoster(names)
           whole == WholeRuns(Others(names))
           runs == LayerRuns(Elements(roles))
           first == Run("hardening", {})
           base == Run("infrastructure", {})
<1>1. AllIn(runs, DeployRun)
  <2>1. roles \in Seq(Roster)
    <3>1. roles \in Seq(Elements(names) \cap Roster)
      BY RequestsAreLists, KeptIs DEF OfRoster
    <3> HIDE DEF roles
    <3>2. QED
      BY <3>1
  <2>2. Elements(roles) \subseteq Roster
    BY <2>1, LenProperties, ElementOfSeq DEF Elements
  <2>3. LayerRun(Elements(roles)) \subseteq LayerRun(Roster)
    BY <2>2 DEF LayerRun
  <2>4. QED
    BY <2>3, LayersAreRuns DEF AllIn, DeployRun
<1>2. AllIn(whole, DeployRun)
  <2>1. Others(names) \in Seq(Elements(names) \cap (Elements(names) \ Roster))
    BY RequestsAreLists, KeptIs DEF Others
  <2>2. Elements(names) \cap (Elements(names) \ Roster) \subseteq Standalone \ NotDeployable
    BY DEF Deployable
  <2>3. Others(names) \in Seq(Standalone \ NotDeployable)
    BY <2>1, <2>2
  <2>4. AllIn(WholeRuns(Others(names)), WholeRun)
    BY <2>3, WholesAreRuns DEF WholeRun
  <2>5. QED
    BY <2>4 DEF AllIn, DeployRun
<1>3. first \in DeployRun /\ base \in DeployRun
  BY DEF DeployRun, LayerRun, Run, Layered
<1>4. DeployPlan(names) = <<first>> \o WithSubstrate(runs, whole)
  BY DEF DeployPlan
<1> HIDE DEF roles, whole, runs, first, base
<1>5. AllIn(<<first>>, DeployRun) /\ AllIn(<<base>>, DeployRun) /\ Len(<<first>>) = 1
  BY <1>3, AllInOne
<1>6. AllIn(<<base>> \o runs, DeployRun)
  BY <1>1, <1>5, AllInJoined
<1>7. AllIn(runs \o whole, DeployRun) /\ AllIn((<<base>> \o runs) \o whole, DeployRun)
  BY <1>1, <1>2, <1>6, AllInJoined
<1>8. \/ WithSubstrate(runs, whole) = runs
      \/ WithSubstrate(runs, whole) = runs \o whole
      \/ WithSubstrate(runs, whole) = (<<base>> \o runs) \o whole
  BY DEF WithSubstrate, base
<1>9. AllIn(WithSubstrate(runs, whole), DeployRun)
  BY <1>1, <1>7, <1>8
<1>10. QED
  BY <1>4, <1>5, <1>9, AllInJoined DEF AllIn, IsSeq

LEMMA TaggedPlans ==
    ASSUME NEW d \in Demands
    PROVE  IsSeq(TaggedPlan(d.names))
<1>1. IsSeq(LayerRuns(Elements(d.names)))
  BY LayersAreRuns DEF AllIn
<1>2. Redirected(d.names) \in Seq(Standalone)
  <2> DEFINE elements == Elements(d.names)
             chosen == Unresolved(elements) \cap Standalone
  <2>1. d.names \in Seq(elements) /\ Redirected(d.names) = Kept(d.names, chosen)
    BY DemandAssumption DEF Redirected
  <2>2. chosen \subseteq Standalone
    OBVIOUS
  <2> HIDE DEF elements, chosen
  <2>3. Kept(d.names, chosen) \in Seq(elements \cap chosen)
    BY <2>1, KeptIs
  <2>4. Seq(elements \cap chosen) \subseteq Seq(Standalone)
    BY <2>2
  <2>5. QED
    BY <2>1, <2>3, <2>4
<1>3. IsSeq(WholeRuns(Redirected(d.names)))
  BY <1>2, WholesAreRuns DEF AllIn
<1>4. QED
  BY <1>1, <1>3, ConcatIs DEF TaggedPlan

LEMMA SomeLength ==
    ASSUME NEW s, IsSeq(s)
    PROVE  s # << >> => Len(s) > 0
<1>1. s \in Seq({s[i] : i \in 1..Len(s)})
  BY FormSeq
<1>2. QED
  BY <1>1, EmptySeq DEF IsSeq

----------------------------------------------------------------------------
(* The runs of a command.                                                  *)

\* What a preflight has found of config.toml, which no later edit takes back.
Answered(c, run, host) ==
    /\ c \in Configs /\ ZonesResolve(c, run, host) /\ Flattens(c, host)
    /\ \A key \in KeysFor(run) : KeyAnswered(c, key, host)

\* How far a command is, by what it has preflighted and played.
Progress ==
    CASE at = "idle" -> Len(plan) = 0 /\ Len(vars) = 0
      [] at = "preflight" -> IsDeploy /\ Len(vars) = 0 /\ Len(plan) > 0
      [] at = "confirm" -> IsDeploy /\ Len(vars) = Len(plan) /\ Len(played) = 0 /\ Len(plan) > 0
      [] at = "load" -> ~IsDeploy /\ Len(vars) = Len(played) /\ Len(played) < Len(plan)
      [] at = "warn" -> ~IsDeploy /\ Len(vars) = Len(played) + 1 /\ Len(played) < Len(plan)
      [] at = "play" ->
           /\ Len(vars) = IF IsDeploy THEN Len(plan) ELSE Len(played) + 1
           /\ Len(played) < Len(plan)
      [] at = "verify" -> IsDeploy /\ Len(vars) = Len(plan) /\ 0 < Len(played)
      [] OTHER -> at \in Ended

\* A run is played with the config it was preflighted with, and a deploy's runs
\* all with the same.
DeployInv ==
    /\ config \in Configs /\ demand.op \in {"none", "deploy", "run", "single", "bootstrap"}
    /\ IsSeq(plan) /\ IsSeq(vars) /\ IsSeq(played)
    /\ Len(played) <= Len(vars) /\ Len(vars) <= Len(plan)
    /\ Progress
    /\ IsDeploy => AllIn(plan, DeployRun) /\ \A i \in 1..Len(vars) : vars[i] = vars[1]
    /\ \A i \in 1..Len(vars) : Answered(vars[i], plan[i], demand.host)
    /\ \A i \in 1..Len(played) : played[i].run = plan[i] /\ played[i].vars = vars[i]

LEMMA EmptyLength == IsSeq(<< >>) /\ Len(<< >>) = 0 /\ \A i \in 1..0 : FALSE
  BY AllInNone, EmptySeq DEF AllIn

LEMMA DeployInvInit == DeployInit => DeployInv
  BY EmptyLength DEF DeployInit, DeployInv, Progress, IsDeploy

LEMMA DeployCases ==
    ASSUME [DeployNext]_deployVars
    PROVE  \/ \E d \in Demands : GiveDeploy(d)
           \/ \E d \in Demands : GiveRun(d)
           \/ PreflightAll \/ ConfirmDeploy \/ LoadAndPreflight \/ Warn
           \/ PlayForDeploy \/ PlayForRun \/ Verify \/ EditConfig \/ EditRoster
           \/ UNCHANGED deployVars
  BY Zenon DEF DeployNext

LEMMA GiveDeployStep ==
    ASSUME DeployInv, NEW d \in Demands, GiveDeploy(d)
    PROVE  DeployInv'
<1>1. /\ at = "idle" /\ UNCHANGED <<config, vars, played>> /\ d.op = "deploy"
      /\ Len(plan) = 0 /\ Len(vars) = 0 /\ Len(played) = 0
  BY DEF GiveDeploy, Arrive, outside, DeployInv, Progress, IsSeq
<1>2. PICK names \in Requests(d) :
         \/ /\ Elements(names) \subseteq Deployable /\ demand' = [d EXCEPT !.names = names]
            /\ plan' = DeployPlan(names) /\ at' = "preflight"
         \/ demand' = [d EXCEPT !.names = names] /\ at' = "refused" /\ UNCHANGED plan
  BY DEF GiveDeploy, Turned, Goto
<1>3. demand'.op = "deploy"
  BY <1>1, <1>2, DemandAssumption
<1>4. AllIn(plan', DeployRun) /\ (at' = "preflight" => Len(plan') > 0)
  BY <1>1, <1>2, DeployPlans DEF AllIn, DeployInv
<1>5. Progress' /\ IsDeploy'
  BY <1>1, <1>2, <1>3, <1>4 DEF Progress, IsDeploy, Ended
<1>6. QED
  BY <1>1, <1>2, <1>3, <1>4, <1>5 DEF DeployInv, AllIn, IsSeq

LEMMA GiveRunStep ==
    ASSUME DeployInv, NEW d \in Demands, GiveRun(d)
    PROVE  DeployInv'
<1>0. demand' = d
  BY DEF GiveRun, Turned
<1>1. /\ at = "idle" /\ UNCHANGED <<config, vars, played>> /\ d.op # "deploy"
      /\ Len(plan) = 0 /\ Len(vars) = 0 /\ Len(played) = 0 /\ demand' = d
  <2>1. at = "idle" /\ UNCHANGED <<config, vars, played>> /\ d.op # "deploy"
    BY DEF GiveRun, Arrive, outside
  <2>2. QED
    BY <1>0, <2>1 DEF DeployInv, Progress, IsSeq
<1>2. d.op \in {"run", "single", "bootstrap"}
  BY <1>1, DemandAssumption
<1>3. \/ at' = "refused" /\ UNCHANGED plan
      \/ at' = "load" /\ plan' = TaggedPlan(d.names) /\ TaggedPlan(d.names) # << >>
      \/ at' = "load" /\ \E run : plan' = <<run>>
  BY <1>2 DEF GiveRun, Turned, Goto
<1>4. IsSeq(plan') /\ (at' = "load" => Len(plan') > 0)
  <2>1. ASSUME NEW run PROVE IsSeq(<<run>>) /\ Len(<<run>>) > 0
    <3>1. AllIn(<<run>>, {run}) /\ Len(<<run>>) = 1
      BY AllInOne
    <3>2. QED
      BY <3>1 DEF AllIn
  <2>2. QED
    BY <1>3, <2>1, TaggedPlans, SomeLength DEF DeployInv
<1>5. Progress' /\ ~IsDeploy'
  BY <1>1, <1>2, <1>3, <1>4 DEF Progress, IsDeploy, Ended
<1>6. QED
  BY <1>1, <1>2, <1>3, <1>4, <1>5 DEF DeployInv, IsSeq

LEMMA PreflightStep ==
    ASSUME DeployInv, PreflightAll
    PROVE  DeployInv'
<1>1. at = "preflight" /\ IsDeploy /\ Len(vars) = 0 /\ Len(plan) > 0 /\ Len(played) = 0
  BY DEF PreflightAll, DeployInv, Progress, IsSeq
<1>2. UNCHANGED <<config, demand, plan, played>> /\ IsDeploy'
  BY <1>1 DEF PreflightAll, outside, command, IsDeploy
<1>3. CASE \A run \in Elements(plan) : Preflighted(config, run, demand.host)
  <2>1. DOMAIN plan = 1..Len(plan)
    BY DEF DeployInv, IsSeq
  <2>2. vars' = [i \in 1..Len(plan) |-> config] /\ at' = "confirm"
    BY <1>3, <2>1 DEF PreflightAll, Goto
  <2>3. \A i \in 1..Len(plan) : Answered(config, plan[i], demand.host)
    BY <1>3, <2>1 DEF Elements, Preflighted, Answered, DeployInv
  <2>4. IsSeq(vars') /\ Len(vars') = Len(plan) /\ \A i \in 1..Len(plan) : vars'[i] = config
    <3>1. vars' \in Seq({config}) /\ Len(vars') = Len(plan)
      BY <2>2 DEF DeployInv, IsSeq
    <3>2. QED
      BY <2>2, <3>1, SeqForm
  <2>5. Progress'
    BY <1>1, <1>2, <2>2, <2>4 DEF Progress
  <2>6. QED
    BY <1>1, <1>2, <2>3, <2>4, <2>5 DEF DeployInv
<1>4. CASE ~\A run \in Elements(plan) : Preflighted(config, run, demand.host)
  <2>1. at' = "refused" /\ UNCHANGED vars
    BY <1>4 DEF PreflightAll, Goto
  <2>2. Progress'
    BY <2>1 DEF Progress, Ended
  <2>3. QED
    BY <1>2, <2>1, <2>2 DEF DeployInv, IsDeploy
<1>5. QED
  BY <1>3, <1>4

LEMMA LoadStep ==
    ASSUME DeployInv, LoadAndPreflight
    PROVE  DeployInv'
<1>1. at = "load" /\ ~IsDeploy /\ Len(vars) = Len(played) /\ Len(played) < Len(plan)
  BY DEF LoadAndPreflight, DeployInv, Progress
<1>2. UNCHANGED <<config, demand, plan, played>> /\ ~IsDeploy'
  BY <1>1 DEF LoadAndPreflight, outside, command, IsDeploy
<1>3. CASE Preflighted(config, plan[Turn], demand.host)
  <2>1. vars' = Append(vars, config) /\ at' = "warn"
    BY <1>3 DEF LoadAndPreflight, Goto
  <2>2. /\ IsSeq(vars') /\ Len(vars') = Len(vars) + 1 /\ vars'[Len(vars) + 1] = config
        /\ \A i \in 1..Len(vars) : vars'[i] = vars[i]
    BY <2>1, Added DEF DeployInv
  <2>3. Answered(config, plan[Len(vars) + 1], demand.host)
    BY <1>1, <1>3 DEF Turn, Preflighted, Answered, DeployInv
  <2>4. Progress'
    BY <1>1, <1>2, <2>1, <2>2 DEF Progress
  <2>5. \A i \in 1..Len(vars') : Answered(vars'[i], plan[i], demand.host)
    <3>1. \A i \in 1..Len(vars') : i \in 1..Len(vars) \/ i = Len(vars) + 1
      BY <2>2 DEF DeployInv, IsSeq
    <3>2. QED
      BY <2>2, <2>3, <3>1 DEF DeployInv
  <2>6. QED
    BY <1>1, <1>2, <2>2, <2>4, <2>5 DEF DeployInv, IsSeq
<1>4. CASE ~Preflighted(config, plan[Turn], demand.host)
  <2>1. at' = "refused" /\ UNCHANGED vars
    BY <1>4 DEF LoadAndPreflight, Goto
  <2>2. Progress'
    BY <2>1 DEF Progress, Ended
  <2>3. QED
    BY <1>2, <2>1, <2>2 DEF DeployInv
<1>5. QED
  BY <1>3, <1>4

\* A play that starts, of the run whose turn it is.
LEMMA Starts ==
    ASSUME DeployInv, at = "play", played' = Started, UNCHANGED <<plan, vars>>
    PROVE  /\ IsSeq(played') /\ Len(played') = Len(played) + 1
           /\ \A i \in 1..Len(played) : played'[i] = played[i]
           /\ \A i \in 1..Len(played') : played'[i].run = plan[i] /\ played'[i].vars = vars[i]
<1> DEFINE one == [run |-> plan[Turn], vars |-> vars[Turn], agreed |-> agreed, target |-> target]
<1>1. one.run = plan[Len(played) + 1] /\ one.vars = vars[Len(played) + 1]
  BY DEF Turn
<1>2. played' = Append(played, one)
  BY DEF Started
<1> HIDE DEF one
<1>3. /\ IsSeq(played') /\ Len(played') = Len(played) + 1 /\ played'[Len(played) + 1] = one
      /\ \A i \in 1..Len(played) : played'[i] = played[i]
  BY <1>2, Added DEF DeployInv
<1>4. \A i \in 1..Len(played') : i \in 1..Len(played) \/ i = Len(played) + 1
  BY <1>3 DEF DeployInv, IsSeq
<1>5. QED
  BY <1>1, <1>3, <1>4 DEF DeployInv

LEMMA PlayStep ==
    ASSUME DeployInv, PlayForDeploy \/ PlayForRun
    PROVE  DeployInv'
<1>1. /\ at = "play" /\ Len(played) < Len(plan)
      /\ Len(vars) = IF IsDeploy THEN Len(plan) ELSE Len(played) + 1
      /\ UNCHANGED <<config, demand, plan, vars>> /\ IsDeploy' = IsDeploy
      /\ Len(played) \in Nat /\ Len(plan) \in Nat
  BY DEF PlayForDeploy, PlayForRun, outside, command, IsDeploy, DeployInv, Progress, IsSeq
<1>2. \/ played' = Started /\ \/ at' = "ok"
                              \/ at' = "verify" /\ IsDeploy
                              \/ Turn # Len(plan) /\ at' = IF IsDeploy THEN "play" ELSE "load"
      \/ played' \in {played, Started} /\ at' = "failed"
  BY DEF PlayForDeploy, PlayForRun, NextRun, Goto, IsDeploy
<1>3. played' = Started =>
        /\ IsSeq(played') /\ Len(played') = Len(played) + 1
        /\ \A i \in 1..Len(played') : played'[i].run = plan[i] /\ played'[i].vars = vars[i]
  BY <1>1, Starts
<1>4. /\ IsSeq(played') /\ Len(played') <= Len(vars)
      /\ \A i \in 1..Len(played') : played'[i].run = plan[i] /\ played'[i].vars = vars[i]
  BY <1>1, <1>2, <1>3 DEF DeployInv
<1>5. Progress'
  BY <1>1, <1>2, <1>3 DEF Progress, Ended, Turn
<1>6. QED
  BY <1>1, <1>4, <1>5 DEF DeployInv

LEMMA DeployInvStep ==
    ASSUME DeployInv, [DeployNext]_deployVars
    PROVE  DeployInv'
<1>1. CASE ConfirmDeploy
  <2>1. /\ at = "confirm" /\ UNCHANGED <<config, demand, plan, vars, played>>
        /\ (at' = "play" \/ at' = "aborted") /\ IsDeploy' = IsDeploy
    BY <1>1 DEF ConfirmDeploy, outside, command, Goto, IsDeploy
  <2>2. Progress'
    BY <2>1 DEF DeployInv, Progress, Ended
  <2>3. QED
    BY <2>1, <2>2 DEF DeployInv
<1>2. CASE Warn
  <2>1. /\ at = "warn" /\ UNCHANGED <<config, demand, plan, vars, played>>
        /\ at' \in {"play", "aborted", "refused"} /\ IsDeploy' = IsDeploy
    BY <1>2 DEF Warn, Confirmed, outside, Goto, IsDeploy
  <2>2. Progress'
    BY <2>1 DEF DeployInv, Progress, Ended
  <2>3. QED
    BY <2>1, <2>2 DEF DeployInv
<1>3. CASE Verify
  <2>1. /\ at = "verify" /\ UNCHANGED <<config, demand, plan, vars, played>>
        /\ (at' \in {"unverified", "ok"} \/ (at' = "play" /\ Len(played) # Len(plan)))
        /\ IsDeploy' = IsDeploy
    BY <1>3 DEF Verify, outside, command, Goto, IsDeploy
  <2>2. Progress'
    <3>1. /\ IsDeploy /\ Len(vars) = Len(plan) /\ Len(played) <= Len(plan)
          /\ Len(played) \in Nat /\ Len(plan) \in Nat
      BY <2>1 DEF DeployInv, Progress, IsSeq
    <3>2. at' = "play" => Len(played) < Len(plan)
      BY <2>1, <3>1
    <3>3. QED
      BY <2>1, <3>1, <3>2 DEF Progress, Ended
  <2>3. QED
    BY <2>1, <2>2 DEF DeployInv
<1>4. CASE EditConfig \/ EditRoster \/ UNCHANGED deployVars
  <2>1. /\ config' \in Configs /\ UNCHANGED <<at, demand, plan, vars, played>>
    BY <1>4 DEF EditConfig, EditRoster, deployVars, command, DeployInv
  <2>2. IsDeploy' = IsDeploy /\ Progress' = Progress
    BY <2>1 DEF Progress, IsDeploy
  <2>3. QED
    BY <2>1, <2>2 DEF DeployInv
<1>5. QED
  BY <1>1, <1>2, <1>3, <1>4, DeployCases, GiveDeployStep, GiveRunStep, PreflightStep, LoadStep, PlayStep

\* What was answered for a run is what the roles it enters read.
LEMMA AnsweredReaches ==
    ASSUME NEW c, NEW run, NEW h, Answered(c, run, h),
           NEW r \in Entered(run), r.name \in Apps, ~r.guarded \/ r.name \in run.tags
    PROVE  /\ \A key \in RequiredKeys[r.name] : Get(c.keys[key], h) \notin {Unset, Blanked, Fails}
           /\ PublishesAName(c, Metas, r.name, h) => ParentZone(c, Metas, r.name, h) # Unset
<1>1. r \in Selected(run.playbook, run.tags)
  BY DEF Entered, Selected
<1>2. BehindAGuard(run.playbook, run.tags, r) = FALSE
  BY DEF BehindAGuard, SinglesOut
<1> DEFINE s == [name |-> r.name, guarded |-> FALSE]
<1>3. s \in Sources(run)
  BY <1>1, <1>2 DEF Sources
<1>4. \A key \in RequiredKeys[r.name] : KeyAnswered(c, key, h) /\ key \in DOMAIN c.keys
  BY <1>3, AnswersAssumption DEF Answered, KeysFor
<1>5. \A key \in RequiredKeys[r.name] : Get(c.keys[key], h) \notin {Unset, Blanked, Fails}
  BY <1>4 DEF Answered, Flattens, KeyAnswered, Says, Get
<1>6. ASSUME PublishesAName(c, Metas, r.name, h)
      PROVE  ParentZone(c, Metas, r.name, h) # Unset
  <2> DEFINE zone == EffectiveZone(c, Metas, r.name, h)
  <2>1. zone # Refused /\ Resolves(c, zone, h)
    BY <1>3, <1>6 DEF Answered, ZonesResolve, ServesAName
  <2>2. ParentZone(c, Metas, r.name, h) = zone
    BY <1>6, <2>1 DEF ParentZone, PlacedApps
  <2>3. Metas[r.name].pin \in {""} \cup ZoneNames
    BY AnswersAssumption DEF Meta
  <2>4. zone # Unset
    BY <2>1, <2>3, AnswersAssumption DEF EffectiveZone, Says, Refused, Unset, FleetZone
  <2>5. QED
    BY <2>2, <2>4
<1>7. QED
  BY <1>5, <1>6

\* Every role a play enters has its required keys answered and its name's Zone
\* whole, in the config the play was given: for every tree of playbooks, every
\* config.toml and every command, whatever is edited between its preflight and
\* its play (preflight_for, required_keys_for, assert_zones_resolve).
THEOREM KeysReach == DeploySpec => []KeysReachTheRoles
<1>1. DeployInv => KeysReachTheRoles
  <2> SUFFICES ASSUME DeployInv, NEW i \in DOMAIN played, NEW r \in Entered(played[i].run),
                      r.name \in Apps, ~r.guarded \/ r.name \in played[i].run.tags
               PROVE  LET c == played[i].vars  h == demand.host
                      IN /\ \A key \in RequiredKeys[r.name] :
                              Get(c.keys[key], h) \notin {Unset, Blanked, Fails}
                         /\ PublishesAName(c, Metas, r.name, h) =>
                              ParentZone(c, Metas, r.name, h) # Unset
    BY DEF KeysReachTheRoles
  <2>1. i \in 1..Len(played) /\ i \in 1..Len(vars)
    BY DEF DeployInv, IsSeq
  <2>2. Answered(played[i].vars, played[i].run, demand.host)
    BY <2>1 DEF DeployInv
  <2>3. QED
    BY <2>2, AnsweredReaches
<1>2. QED
  BY <1>1, DeployInvInit, DeployInvStep, PTL DEF DeploySpec

\* Of every name that a play's Apps have on the tailnet, one was found.
Covered(i) ==
    \A r \in Entered(played[i].run) :
        LET c == played[i].vars  h == demand.host
            zone == ParentZone(c, Metas, r.name, h)
        IN /\ played[i].run.playbook \notin {"hardening", "infrastructure"}
           /\ r.name \in Apps /\ Says(c.sub[r.name], h) /\ Says(c.tail[r.name], h)
           /\ zone # Unset
           => [play |-> i, app |-> r.name, zone |-> zone] \in verified

\* A deploy goes on only past plays that are covered.
CoveredSoFar ==
    IsDeploy /\ ~demand.check =>
        \A i \in 1..Len(played) :
            at \in {"play", "ok"} \/ (at = "verify" /\ i < Len(played)) => Covered(i)

LEMMA CoveredStays ==
    ASSUME NEW i, Covered(i), played'[i] = played[i], UNCHANGED <<demand, guards>>,
           verified \subseteq verified'
    PROVE  Covered(i)'
<1>1. Entered(played[i].run)' = Entered(played[i].run)
  BY DEF Entered
<1>2. QED
  BY <1>1 DEF Covered

\* An App that a play of a deploy enters is one that the deploy verifies.
LEMMA EnteredIsPublished ==
    ASSUME \A r, q \in Tree["apps"] : q.name \in r.tags => q.name = r.name,
           NEW run \in DeployRun, NEW r \in Entered(run),
           run.playbook \notin {"hardening", "infrastructure"}
    PROVE  r.name \in Published(run)
<1>1. CASE run.playbook = "apps"
  <2>1. run \in LayerRun(Roster)
    BY <1>1 DEF DeployRun, WholeRun, WholeOf, Run, Standalone, Layered
  <2>2. run.tags \in SUBSET Roster /\ run.tags # {}
    BY <1>1, <2>1 DEF LayerRun
  <2>3. PICK t \in run.tags : t \in r.tags
    BY <2>2 DEF Entered
  <2>4. PICK q \in Tree["apps"] : q.name = t
    BY <2>2, <2>3 DEF Roster
  <2>5. r.name = t
    BY <1>1, <2>3, <2>4 DEF Entered
  <2>6. QED
    <3>1. run # Run("apps", {})
      BY <2>2 DEF Run
    <3>2. QED
      BY <1>1, <2>2, <2>3, <2>5, <3>1 DEF Published
<1>2. CASE run.playbook # "apps"
  <2>1. run \in WholeRun
    BY <1>2 DEF DeployRun, LayerRun, Layered
  <2>2. run.tags = {}
    BY <2>1 DEF WholeRun, WholeOf, Run
  <2>3. QED
    <3>1. run # Run("apps", {})
      BY <1>2 DEF Run
    <3>2. Published(run) = {q.name : q \in Tree[run.playbook]}
      BY <2>2, <3>1 DEF Published
    <3>3. QED
      BY <3>2 DEF Entered
<1>3. QED
  BY <1>1, <1>2

LEMMA VerifyCovers ==
    ASSUME \A r, q \in Tree["apps"] : q.name \in r.tags => q.name = r.name,
           DeployInv, Verify, at' \in {"play", "ok"}
    PROVE  Covered(Len(played))'
<1> DEFINE i == Len(played)
           asked == {app \in Published(plan[i]) \cap Apps : Kind(app) # "nothing"}
<1>1. /\ at = "verify" /\ UNCHANGED <<demand, guards, played>>
      /\ verified' = verified \cup
           {[play |-> i, app |-> app, zone |-> VerifiedZone(vars[1], Metas, app, demand.host)] :
              app \in asked}
  BY DEF Verify, outside, command, Goto
<1>2. /\ IsDeploy /\ i \in 1..Len(plan) /\ i \in 1..Len(vars) /\ i \in 1..Len(played)
      /\ played[i].run = plan[i] /\ played[i].vars = vars[1] /\ plan[i] \in DeployRun
  <2>1. IsDeploy /\ 0 < i /\ i <= Len(vars) /\ Len(vars) <= Len(plan) /\ i \in Nat
    BY <1>1 DEF DeployInv, Progress, IsSeq
  <2>2. i \in 1..Len(plan) /\ i \in 1..Len(vars) /\ i \in 1..Len(played)
    BY <2>1 DEF DeployInv, IsSeq
  <2>3. played[i].run = plan[i] /\ played[i].vars = vars[i] /\ vars[i] = vars[1]
    BY <2>1, <2>2 DEF DeployInv
  <2>4. plan[i] \in DeployRun
    BY <2>1, <2>2 DEF DeployInv, AllIn
  <2>5. QED
    BY <2>1, <2>2, <2>3, <2>4
<1>3. Entered(played[i].run)' = Entered(plan[i])
  BY <1>1, <1>2 DEF Entered
<1> SUFFICES ASSUME NEW r \in Entered(plan[i]),
                    plan[i].playbook \notin {"hardening", "infrastructure"}, r.name \in Apps,
                    Says(vars[1].sub[r.name], demand.host), Says(vars[1].tail[r.name], demand.host),
                    ParentZone(vars[1], Metas, r.name, demand.host) # Unset
             PROVE  [play |-> i, app |-> r.name,
                     zone |-> ParentZone(vars[1], Metas, r.name, demand.host)] \in verified'
  BY <1>1, <1>2, <1>3 DEF Covered
<1>4. r.name \in Published(plan[i])
  BY <1>2, EnteredIsPublished
<1>5. VerifiedZone(vars[1], Metas, r.name, demand.host)
        = ParentZone(vars[1], Metas, r.name, demand.host)
  <2> DEFINE zone == EffectiveZone(vars[1], Metas, r.name, demand.host)
  <2>1. r.name \in PlacedApps(vars[1], Metas, demand.host)
    BY DEF ParentZone
  <2>2. zone # Refused /\ Resolves(vars[1], zone, demand.host)
    BY <2>1 DEF PlacedApps
  <2>3. QED
    BY <2>1, <2>2 DEF ParentZone, VerifiedZone
<1>6. Kind(r.name) = "tailnet"
  BY <1>5 DEF Kind, Verified
<1>7. r.name \in asked
  BY <1>4, <1>6
<1>8. QED
  BY <1>1, <1>5, <1>7

LEMMA CoveredSoFarStep ==
    ASSUME \A r, q \in Tree["apps"] : q.name \in r.tags => q.name = r.name,
           DeployInv, CoveredSoFar, [DeployNext]_deployVars
    PROVE  CoveredSoFar'
<1>1. ASSUME NEW d \in Demands, GiveDeploy(d) \/ GiveRun(d)
      PROVE  CoveredSoFar'
  <2>1. Len(played') = 0
    <3>1. at = "idle" /\ played' = played
      BY <1>1 DEF GiveDeploy, GiveRun, Arrive
    <3>2. QED
      BY <3>1 DEF DeployInv, Progress, IsSeq
  <2>2. \A i \in 1..0 : FALSE
    OBVIOUS
  <2>3. QED
    BY <2>1, <2>2 DEF CoveredSoFar
<1>2. CASE PreflightAll \/ ConfirmDeploy
  <2>1. Len(played') = 0
    <3>1. at \in {"preflight", "confirm"} /\ played' = played
      BY <1>2 DEF PreflightAll, ConfirmDeploy
    <3>2. Len(played) \in Nat /\ Len(played) <= Len(vars) /\ Progress
      BY DEF DeployInv, IsSeq
    <3>3. QED
      BY <3>1, <3>2 DEF Progress
  <2>2. \A i \in 1..0 : FALSE
    OBVIOUS
  <2>3. QED
    BY <2>1, <2>2 DEF CoveredSoFar
<1>3. CASE LoadAndPreflight \/ Warn \/ PlayForRun
  <2>1. ~IsDeploy'
    BY <1>3 DEF LoadAndPreflight, Warn, PlayForRun, command, DeployInv, Progress, IsDeploy
  <2>2. QED
    BY <2>1 DEF CoveredSoFar
<1>4. CASE PlayForDeploy
  <2>1. /\ at = "play" /\ UNCHANGED <<plan, vars, demand, guards, verified>>
        /\ at' = "failed" \/ (played' = Started /\ (demand.check \/ at' = "verify"))
    BY <1>4 DEF PlayForDeploy, command, outside, Goto
  <2>2. CASE at' = "failed" \/ demand.check
    BY <2>1, <2>2 DEF CoveredSoFar
  <2>3. CASE at' = "verify" /\ played' = Started
    <3>1. /\ Len(played') = Len(played) + 1 /\ Len(played) \in Nat
          /\ \A i \in 1..Len(played) : played'[i] = played[i]
      BY <2>1, <2>3, Starts DEF DeployInv, IsSeq
    <3> SUFFICES ASSUME IsDeploy, ~demand.check, NEW i \in 1..Len(played'), i < Len(played')
                 PROVE  Covered(i)'
      BY <2>1, <2>3 DEF CoveredSoFar, IsDeploy
    <3>2. i \in 1..Len(played)
      BY <3>1
    <3>3. Covered(i)
      BY <2>1, <3>2 DEF CoveredSoFar
    <3>4. QED
      BY <2>1, <3>1, <3>2, <3>3, CoveredStays
  <2>4. QED
    BY <2>1, <2>2, <2>3
<1>5. CASE Verify
  <2>1. /\ at = "verify" /\ UNCHANGED <<demand, guards, played>> /\ verified \subseteq verified'
        /\ at' \in {"unverified", "play", "ok"}
    BY <1>5 DEF Verify, outside, command, Goto
  <2> SUFFICES ASSUME IsDeploy, ~demand.check, NEW i \in 1..Len(played), at' \in {"play", "ok"}
               PROVE  Covered(i)'
    BY <2>1 DEF CoveredSoFar, IsDeploy
  <2>2. CASE i = Len(played)
    <3>1. Covered(Len(played))'
      BY <1>5, VerifyCovers
    <3>2. QED
      BY <2>1, <2>2, <3>1
  <2>3. CASE i # Len(played)
    <3>1. i < Len(played)
      BY <2>3 DEF DeployInv, IsSeq
    <3>2. Covered(i)
      BY <2>1, <3>1 DEF CoveredSoFar
    <3>3. QED
      BY <2>1, <3>2, CoveredStays
  <2>4. QED
    BY <2>2, <2>3
<1>6. CASE EditConfig \/ EditRoster \/ UNCHANGED deployVars
  <2>1. UNCHANGED <<at, demand, guards, played, verified>>
    BY <1>6 DEF EditConfig, EditRoster, deployVars, command
  <2> SUFFICES ASSUME IsDeploy, ~demand.check, NEW i \in 1..Len(played),
                      at \in {"play", "ok"} \/ (at = "verify" /\ i < Len(played))
               PROVE  Covered(i)'
    BY <2>1 DEF CoveredSoFar, IsDeploy
  <2>2. Covered(i)
    BY DEF CoveredSoFar
  <2>3. QED
    BY <2>1, <2>2, CoveredStays
<1>7. QED
  BY <1>1, <1>2, <1>3, <1>4, <1>5, <1>6, DeployCases

\* A deploy that reports success found every tailnet name of every App its plays
\* entered, in the Zone the App was composed in: for every tree, config.toml and
\* list of names, and any edits meanwhile, as long as no role of apps.yml carries
\* another role's name as a tag (published_apps, run_dns_checks_for_run).
THEOREM SuccessesAreVerified ==
    ASSUME \A r, q \in Tree["apps"] : q.name \in r.tags => q.name = r.name
    PROVE  DeploySpec => []SuccessIsVerified
<1>1. DeployInit => CoveredSoFar
  BY EmptyLength DEF DeployInit, CoveredSoFar
<1>2. DeployInv /\ CoveredSoFar => SuccessIsVerified
  <2>1. DeployInv => DOMAIN played = 1..Len(played)
    BY DEF DeployInv, IsSeq
  <2>2. QED
    BY <2>1 DEF SuccessIsVerified, CoveredSoFar, Covered
<1>3. DeployInv /\ CoveredSoFar /\ [DeployNext]_deployVars => DeployInv' /\ CoveredSoFar'
  BY DeployInvStep, CoveredSoFarStep
<1>4. QED
  BY DeployInvInit, <1>1, <1>2, <1>3, PTL DEF DeploySpec

----------------------------------------------------------------------------
(* What a Host is given first, and what is never played unasked.           *)

Hardening == Run("hardening", {})
Base == Run("infrastructure", {})
Needs(run) == run.playbook \notin {"hardening", "infrastructure"}
\* Whatever needs the infrastructure comes after the whole of it.
Based(s) ==
    /\ IsSeq(s)
    /\ \A i \in 1..Len(s) : Needs(s[i]) => \E k \in 1..(i - 1) : s[k] = Base
Holds(s) == \E k \in 1..Len(s) : s[k] = Base

LEMMA ConcatAt ==
    ASSUME NEW s, NEW t, IsSeq(s), IsSeq(t)
    PROVE  /\ IsSeq(s \o t) /\ Len(s \o t) = Len(s) + Len(t)
           /\ \A i \in 1..Len(s) : (s \o t)[i] = s[i]
           /\ \A i \in 1..Len(t) : (s \o t)[Len(s) + i] = t[i]
<1>1. Len(s) \in Nat /\ Len(t) \in Nat
  BY DEF IsSeq
<1>2. /\ IsSeq(s \o t) /\ Len(s \o t) = Len(s) + Len(t)
      /\ \A i \in 1..Len(s \o t) :
           \/ i \in 1..Len(s) /\ (s \o t)[i] = s[i]
           \/ i - Len(s) \in 1..Len(t) /\ (s \o t)[i] = t[i - Len(s)]
  BY ConcatIs
<1>3. ASSUME NEW i \in 1..Len(s) PROVE (s \o t)[i] = s[i]
  <2>1. i \in 1..Len(s \o t) /\ i - Len(s) \notin 1..Len(t)
    BY <1>1, <1>2
  <2>2. QED
    BY <1>2, <2>1
<1>4. ASSUME NEW i \in 1..Len(t) PROVE (s \o t)[Len(s) + i] = t[i]
  <2>1. /\ Len(s) + i \in 1..Len(s \o t) /\ Len(s) + i \notin 1..Len(s)
        /\ (Len(s) + i) - Len(s) = i
    BY <1>1, <1>2
  <2>2. QED
    BY <1>2, <2>1
<1>5. QED
  BY <1>2, <1>3, <1>4

\* The infrastructure of the first part serves the second, too.
LEMMA BasedJoined ==
    ASSUME NEW s, NEW t, Based(s), IsSeq(t),
           Holds(s) \/ Based(t)
    PROVE  Based(s \o t) /\ (Holds(s) \/ Holds(t) => Holds(s \o t))
<1>0. Len(s) \in Nat /\ Len(t) \in Nat
  BY DEF Based, IsSeq
<1>1. /\ IsSeq(s \o t) /\ Len(s \o t) = Len(s) + Len(t)
      /\ \A i \in 1..Len(s) : (s \o t)[i] = s[i]
      /\ \A i \in 1..Len(t) : (s \o t)[Len(s) + i] = t[i]
  BY ConcatAt DEF Based
<1>2. ASSUME NEW i \in 1..Len(s), Needs((s \o t)[i])
      PROVE  \E k \in 1..(i - 1) : (s \o t)[k] = Base
  <2>1. PICK k \in 1..(i - 1) : s[k] = Base
    BY <1>1, <1>2 DEF Based
  <2>2. k \in 1..Len(s)
    BY <1>0, <2>1
  <2>3. QED
    BY <1>1, <2>1, <2>2
<1>3. ASSUME NEW i \in 1..Len(t), Needs((s \o t)[Len(s) + i])
      PROVE  \E k \in 1..(Len(s) + i - 1) : (s \o t)[k] = Base
  <2>1. CASE Holds(s)
    <3>1. PICK k \in 1..Len(s) : s[k] = Base
      BY <2>1 DEF Holds
    <3>2. k \in 1..(Len(s) + i - 1)
      BY <1>0, <3>1
    <3>3. QED
      BY <1>1, <3>1, <3>2
  <2>2. CASE Based(t)
    <3>1. PICK k \in 1..(i - 1) : t[k] = Base
      BY <1>1, <1>3, <2>2 DEF Based
    <3>2. k \in 1..Len(t) /\ Len(s) + k \in 1..(Len(s) + i - 1)
      BY <1>0, <3>1
    <3>3. QED
      BY <1>1, <3>1, <3>2
  <2>3. QED
    BY <2>1, <2>2
<1>4. ASSUME NEW i \in 1..Len(s \o t), Needs((s \o t)[i])
      PROVE  \E k \in 1..(i - 1) : (s \o t)[k] = Base
  <2>1. CASE i \in 1..Len(s)
    BY <1>2, <1>4, <2>1
  <2>2. CASE i \notin 1..Len(s)
    <3>1. PICK j \in 1..Len(t) : i = Len(s) + j
      <4>1. i - Len(s) \in 1..Len(t) /\ i = Len(s) + (i - Len(s))
        BY <1>0, <1>1, <2>2
      <4>2. QED
        BY <4>1
    <3>2. Needs((s \o t)[Len(s) + j])
      BY <1>4, <3>1
    <3>3. \E k \in 1..(Len(s) + j - 1) : (s \o t)[k] = Base
      BY <1>3, <3>2
    <3>4. QED
      BY <3>1, <3>3
  <2>3. QED
    BY <2>1, <2>2
<1>5. Holds(s) \/ Holds(t) => Holds(s \o t)
  <2>1. \A k \in 1..Len(s) : k \in 1..Len(s \o t)
    BY <1>0, <1>1
  <2>2. \A k \in 1..Len(t) : Len(s) + k \in 1..Len(s \o t)
    BY <1>0, <1>1
  <2>3. QED
    BY <1>1, <2>1, <2>2 DEF Holds
<1>6. QED
  BY <1>1, <1>4, <1>5 DEF Based

LEMMA BasedOne ==
    ASSUME NEW run, ~Needs(run)
    PROVE  Based(<<run>>) /\ (run = Base => Holds(<<run>>))
<1>1. AllIn(<<run>>, {run}) /\ Len(<<run>>) = 1
  BY AllInOne
<1>2. QED
  BY <1>1 DEF AllIn, Based, Holds

LEMMA BasedNone == Based(<< >>) /\ ~Holds(<< >>)
  BY EmptyLength DEF Based, Holds

\* The layered runs are based, whatever was asked for; and an App's are on the
\* whole infrastructure, not on a role of it.
LEMMA LayersAreBased ==
    ASSUME NEW asked
    PROVE  /\ Based(LayerRuns(asked))
           /\ asked \subseteq Roster =>
                \A i \in 1..Len(LayerRuns(asked)) :
                    LayerRuns(asked)[i].playbook = "infrastructure" => Holds(LayerRuns(asked))
<1> DEFINE carries(p) == \E t \in asked : \E r \in Tree[p] : t = r.name \/ t \in r.tags
           needed(p) == carries(p) \/ (p = "infrastructure" /\ carries("apps"))
           layer(p) == IF needed(p) THEN <<Run(p, TagsFor(p, asked))>> ELSE << >>
           h == layer("hardening")
           i == layer("infrastructure")
           a == layer("apps")
<1>1. LayerRuns(asked) = (h \o i) \o a
  BY DEF LayerRuns
<1>2. Based(h) /\ Based(i) /\ IsSeq(a)
  <2>1. \A p \in {"hardening", "infrastructure"} : \A tags : ~Needs(Run(p, tags))
    BY DEF Needs, Run
  <2>2. \A p \in {"hardening", "infrastructure"} : Based(layer(p))
    BY <2>1, BasedOne, BasedNone
  <2>3. a = << >> \/ a = <<Run("apps", TagsFor("apps", asked))>>
    OBVIOUS
  <2>4. \A run : IsSeq(<<run>>)
    BY AllInOne DEF AllIn
  <2>5. QED
    BY <2>2, <2>3, <2>4, EmptyLength
<1>3. carries("apps") => Holds(i)
  <2> SUFFICES ASSUME carries("apps") PROVE Holds(i)
    OBVIOUS
  <2>1. TagsFor("infrastructure", asked) = {}
    BY DEF TagsFor
  <2>2. i = <<Base>>
    BY <2>1 DEF Base
  <2>3. ~Needs(Base)
    BY DEF Needs, Base, Run
  <2>4. QED
    BY <2>2, <2>3, BasedOne
<1>4. ~carries("apps") => a = << >>
  OBVIOUS
<1>5. asked \subseteq Roster /\ asked # {} => carries("apps")
  BY DEF Roster
<1>6. asked = {} => h = << >> /\ i = << >> /\ a = << >>
  OBVIOUS
<1> HIDE DEF carries, h, i, a
<1>7. Based(h \o i) /\ (carries("apps") => Holds(h \o i)) /\ IsSeq(h \o i)
  BY <1>2, <1>3, BasedJoined DEF Based
<1>8. Based(LayerRuns(asked)) /\ (carries("apps") => Holds(LayerRuns(asked)))
  BY <1>1, <1>2, <1>4, <1>7, BasedJoined, BasedNone
<1>9. ASSUME asked \subseteq Roster, NEW n \in 1..Len(LayerRuns(asked)) PROVE Holds(LayerRuns(asked))
  <2>1. CASE asked # {}
    BY <1>5, <1>8, <1>9, <2>1
  <2>2. CASE asked = {}
    <3>1. LayerRuns(asked) = (<< >> \o << >>) \o << >>
      BY <1>1, <1>6, <2>2
    <3>2. Len(LayerRuns(asked)) = 0
      BY <3>1, EmptyLength, ConcatIs
    <3>3. QED
      BY <1>9, <3>2, EmptyLength
  <2>3. QED
    BY <2>1, <2>2
<1>10. QED
  BY <1>8, <1>9

\* A deploy's plan hardens the Host, and only then goes on to what is based.
LEMMA PlansAreBased ==
    ASSUME NEW d \in Demands, NEW names \in Requests(d), Elements(names) \subseteq Deployable
    PROVE  Based(DeployPlan(names)) /\ DeployPlan(names)[1] = Hardening
<1> DEFINE asked == Elements(OfRoster(names))
           runs == LayerRuns(asked)
           whole == WholeRuns(Others(names))
<1>1. asked \subseteq Roster
  <2>1. OfRoster(names) \in Seq(Elements(names) \cap Roster)
    BY RequestsAreLists, KeptIs DEF OfRoster
  <2>2. QED
    BY <2>1, LenProperties, ElementOfSeq DEF Elements
<1>2. IsSeq(whole)
  <2>1. Others(names) \in Seq(Elements(names) \cap (Elements(names) \ Roster))
    BY RequestsAreLists, KeptIs DEF Others
  <2> DEFINE S == Elements(names) \cap (Elements(names) \ Roster)
  <2> HIDE DEF S
  <2>2. Others(names) \in Seq(S)
    BY <2>1 DEF S
  <2>3. QED
    BY <2>2, WholesAreRuns DEF AllIn
<1>3. /\ Based(runs)
      /\ \A i \in 1..Len(runs) : runs[i].playbook = "infrastructure" => Holds(runs)
  BY <1>1, LayersAreBased
<1>4. DeployPlan(names) = <<Hardening>> \o WithSubstrate(runs, whole)
  BY DEF DeployPlan, Hardening
<1> HIDE DEF asked, runs, whole
<1>5. Based(<<Hardening>>) /\ Based(<<Base>>) /\ Holds(<<Base>>)
  BY BasedOne DEF Hardening, Base, Needs, Run
<1>6. Based(WithSubstrate(runs, whole))
  <2>1. CASE whole = << >>
    BY <1>3, <2>1 DEF WithSubstrate
  <2>2. CASE whole # << >> /\ \E i \in DOMAIN runs : runs[i].playbook = "infrastructure"
    <3>1. DOMAIN runs = 1..Len(runs)
      BY <1>3 DEF Based, IsSeq
    <3>2. Holds(runs)
      BY <1>3, <2>2, <3>1
    <3>3. WithSubstrate(runs, whole) = runs \o whole
      BY <2>2 DEF WithSubstrate
    <3>4. QED
      BY <1>2, <1>3, <3>2, <3>3, BasedJoined
  <2>3. CASE whole # << >> /\ ~\E i \in DOMAIN runs : runs[i].playbook = "infrastructure"
    <3>1. WithSubstrate(runs, whole) = (<<Base>> \o runs) \o whole
      BY <2>3 DEF WithSubstrate, Base
    <3>2. Based(<<Base>> \o runs) /\ Holds(<<Base>> \o runs)
      BY <1>3, <1>5, BasedJoined DEF Based
    <3>3. QED
      BY <1>2, <3>1, <3>2, BasedJoined
  <2>4. QED
    BY <2>1, <2>2, <2>3
<1>7. DeployPlan(names)[1] = Hardening
  <2>1. AllIn(<<Hardening>>, {Hardening}) /\ Len(<<Hardening>>) = 1
    BY AllInOne
  <2>2. 1 \in 1..Len(<<Hardening>>) /\ <<Hardening>>[1] = Hardening
    BY <2>1 DEF AllIn
  <2>3. IsSeq(<<Hardening>>) /\ IsSeq(WithSubstrate(runs, whole))
    BY <1>6, <2>1 DEF AllIn, Based
  <2>4. QED
    BY <1>4, <2>2, <2>3, ConcatAt
<1>8. QED
  <2>1. IsSeq(WithSubstrate(runs, whole))
    BY <1>6 DEF Based
  <2>2. Based(<<Hardening>> \o WithSubstrate(runs, whole))
    BY <1>5, <1>6, <2>1, BasedJoined
  <2>3. QED
    BY <1>4, <1>7, <2>2

\* A deploy plans no bootstrap, and ends refused only before its first play; a
\* bootstrap whose turn it is was confirmed.
GroundInv ==
    /\ IsDeploy => Based(plan) /\ (Len(plan) > 0 => plan[1] = Hardening)
    /\ IsDeploy /\ at = "refused" => Len(played) = 0
    /\ ~IsDeploy /\ at = "play" => (plan[Turn].playbook = "bootstrap" => "firewall" \in agreed)
    /\ \A i \in 1..Len(played) : played[i].run.playbook = "bootstrap" => "firewall" \in played[i].agreed

LEMMA GroundInvInit == DeployInit => GroundInv
  BY EmptyLength DEF DeployInit, GroundInv, IsDeploy

LEMMA GroundInvStep ==
    ASSUME DeployInv, GroundInv, [DeployNext]_deployVars
    PROVE  GroundInv'
<1>0. Len(plan) \in Nat /\ Len(vars) \in Nat /\ Len(played) \in Nat /\ Len(played) <= Len(vars)
  BY DEF DeployInv, IsSeq
<1>1. ASSUME NEW d \in Demands, GiveDeploy(d) PROVE GroundInv'
  <2>1. /\ at = "idle" /\ played' = played /\ d.op = "deploy"
        /\ Len(plan) = 0 /\ Len(played) = 0
    BY <1>0, <1>1 DEF GiveDeploy, Arrive, outside, DeployInv, Progress
  <2>2. PICK names \in Requests(d) :
           \/ /\ Elements(names) \subseteq Deployable /\ demand' = [d EXCEPT !.names = names]
              /\ plan' = DeployPlan(names) /\ at' = "preflight"
           \/ demand' = [d EXCEPT !.names = names] /\ at' = "refused" /\ UNCHANGED plan
    BY <1>1 DEF GiveDeploy, Turned, Goto
  <2>3. IsDeploy'
    BY <2>1, <2>2, DemandAssumption DEF IsDeploy
  <2>4. Based(plan') /\ (Len(plan') > 0 => plan'[1] = Hardening)
    <3>1. Len(plan) = 0 /\ IsSeq(plan)
      BY <2>1 DEF DeployInv
    <3>2. Based(plan)
      BY <3>1, EmptyLength DEF Based
    <3>3. QED
      BY <2>2, <3>1, <3>2, PlansAreBased
  <2>5. QED
    BY <2>1, <2>3, <2>4, EmptyLength DEF GroundInv
<1>2. ASSUME NEW d \in Demands, GiveRun(d) PROVE GroundInv'
  <2>1. /\ at = "idle" /\ played' = played /\ Len(played) = 0
    BY <1>0, <1>2 DEF GiveRun, Arrive, DeployInv, Progress
  <2>2. ~IsDeploy' /\ at' # "play"
    BY <1>2 DEF GiveRun, Turned, Goto, IsDeploy
  <2>3. QED
    BY <2>1, <2>2, EmptyLength DEF GroundInv
<1>3. CASE PreflightAll
  <2>1. /\ at = "preflight" /\ Len(played) = 0 /\ UNCHANGED <<demand, plan, played>>
        /\ at' # "play"
    BY <1>0, <1>3 DEF PreflightAll, command, Goto, DeployInv, Progress
  <2>2. QED
    BY <2>1 DEF GroundInv, IsDeploy
<1>4. CASE LoadAndPreflight
  <2>1. /\ ~IsDeploy /\ UNCHANGED <<demand, plan, played>> /\ at' # "play"
    BY <1>4 DEF LoadAndPreflight, command, Goto, DeployInv, Progress
  <2>2. QED
    BY <2>1 DEF GroundInv, IsDeploy
<1>5. CASE Warn
  <2>1. ~IsDeploy /\ UNCHANGED <<demand, plan, played>> /\ IsDeploy' = IsDeploy
    BY <1>5 DEF Warn, DeployInv, Progress, IsDeploy
  <2>2. at' = "play" => (plan[Turn].playbook = "bootstrap" => "firewall" \in agreed')
    <3>1. plan[Turn].playbook = "bootstrap" => Asks(plan[Turn]) = {"firewall"}
      BY DEF Asks
    <3>2. at' = "play" => agreed' = agreed \cup Asks(plan[Turn])
      BY <1>5 DEF Warn, Confirmed, Goto
    <3>3. QED
      BY <3>1, <3>2
  <2>3. QED
    BY <2>1, <2>2 DEF GroundInv, Turn
<1>6. CASE PlayForDeploy \/ PlayForRun
  <2>1. /\ at = "play" /\ UNCHANGED <<demand, plan, vars, agreed>> /\ IsDeploy' = IsDeploy
        /\ played' \in {played, Started} /\ at' # "refused"
        /\ at' = "play" => IsDeploy
    BY <1>6 DEF PlayForDeploy, PlayForRun, NextRun, command, Goto, IsDeploy
  <2>2. \A i \in 1..Len(played') :
          played'[i].run.playbook = "bootstrap" => "firewall" \in played'[i].agreed
    <3>1. CASE played' = played
      BY <3>1 DEF GroundInv
    <3>2. CASE played' = Started
      <4> DEFINE one == [run |-> plan[Turn], vars |-> vars[Turn], agreed |-> agreed, target |-> target]
      <4>1. one.run = plan[Turn] /\ one.agreed = agreed
        OBVIOUS
      <4>2. played' = Append(played, one)
        BY <3>2 DEF Started
      <4> HIDE DEF one
      <4>3. /\ Len(played') = Len(played) + 1 /\ played'[Len(played) + 1] = one
            /\ \A i \in 1..Len(played) : played'[i] = played[i]
        BY <4>2, Added DEF DeployInv
      <4>4. \A i \in 1..Len(played') : i \in 1..Len(played) \/ i = Len(played) + 1
        BY <1>0, <4>3
      <4>5. plan[Turn].playbook = "bootstrap" => "firewall" \in agreed
        <5>1. CASE ~IsDeploy
          BY <2>1, <5>1 DEF GroundInv
        <5>2. CASE IsDeploy
          <6>1. Turn \in 1..Len(plan)
            BY <1>0, <2>1 DEF DeployInv, Progress, Turn
          <6>2. plan[Turn] \in DeployRun
            BY <5>2, <6>1 DEF DeployInv, AllIn
          <6>3. QED
            BY <6>2 DEF DeployRun, LayerRun, WholeRun, WholeOf, Run, Layered, NotDeployable
        <5>3. QED
          BY <5>1, <5>2
      <4>6. QED
        BY <4>1, <4>3, <4>4, <4>5 DEF GroundInv
    <3>3. QED
      BY <2>1, <3>1, <3>2
  <2>3. QED
    BY <2>1, <2>2 DEF GroundInv
<1>7. CASE ConfirmDeploy \/ Verify
  <2>1. /\ IsDeploy /\ UNCHANGED <<demand, plan, played>> /\ at' # "refused"
    BY <1>7 DEF ConfirmDeploy, Verify, command, Goto, DeployInv, Progress
  <2>2. QED
    BY <2>1 DEF GroundInv, IsDeploy
<1>8. CASE EditConfig \/ EditRoster \/ UNCHANGED deployVars
  <2>1. UNCHANGED <<at, demand, plan, played, agreed>>
    BY <1>8 DEF EditConfig, EditRoster, deployVars, command
  <2>2. QED
    BY <2>1 DEF GroundInv, IsDeploy, Turn
<1>9. QED
  BY <1>1, <1>2, <1>3, <1>4, <1>5, <1>6, <1>7, <1>8, DeployCases

LEMMA GroundHolds == DeploySpec => [](DeployInv /\ GroundInv)
<1>1. DeployInit => DeployInv /\ GroundInv
  BY DeployInvInit, GroundInvInit
<1>2. DeployInv /\ GroundInv /\ [DeployNext]_deployVars => (DeployInv /\ GroundInv)'
  BY DeployInvStep, GroundInvStep
<1>3. QED
  BY <1>1, <1>2, PTL DEF DeploySpec

\* No App and no standalone playbook is deployed but after hardening and the
\* whole infrastructure, for every tree of playbooks and every list of names:
\* names in any order, Apps and playbooks mixed, tags that a role of a lower layer
\* carries too (resolve_tags_to_playbook_runs, with_substrate, prepend_hardening).
THEOREM SubstratesComeFirst == DeploySpec => []SubstrateFirst
<1>1. DeployInv /\ GroundInv => SubstrateFirst
  <2> SUFFICES ASSUME DeployInv, GroundInv, IsDeploy, NEW i \in DOMAIN played, Needs(played[i].run)
               PROVE  \E j, k \in 1..(i - 1) :
                         j < k /\ played[j].run = Hardening /\ played[k].run = Base
    BY DEF SubstrateFirst, Needs, Hardening, Base
  <2>1. /\ i \in 1..Len(played) /\ Len(played) \in Nat /\ Len(plan) \in Nat
        /\ Len(played) <= Len(plan) /\ \A n \in 1..Len(played) : played[n].run = plan[n]
    BY DEF DeployInv, IsSeq
  <2>2. i \in 1..Len(plan) /\ Len(plan) > 0
    BY <2>1
  <2>3. PICK k \in 1..(i - 1) : plan[k] = Base
    BY <2>1, <2>2 DEF GroundInv, Based
  <2>4. plan[1] = Hardening /\ Hardening # Base
    BY <2>2 DEF GroundInv, Hardening, Base, Run
  <2>5. k # 1
    BY <2>3, <2>4
  <2>6. 1 \in 1..(i - 1) /\ 1 < k /\ 1 \in 1..Len(played) /\ k \in 1..Len(played)
    BY <2>1, <2>3, <2>5
  <2>7. QED
    BY <2>1, <2>3, <2>4, <2>6
<1>2. QED
  BY <1>1, GroundHolds, PTL

\* A deploy that is refused has played nothing, not even the runs whose own
\* answers were all there (run_deploy, deploy.rs:493).
THEOREM RefusalsPlayNothing == DeploySpec => []RefusedIsUntouched
<1>1. DeployInv /\ GroundInv => RefusedIsUntouched
  <2> SUFFICES ASSUME DeployInv, GroundInv, IsDeploy, at = "refused" PROVE played = << >>
    BY DEF RefusedIsUntouched
  <2>1. IsSeq(played) /\ Len(played) = 0
    BY DEF DeployInv, GroundInv
  <2>2. QED
    BY <2>1, SomeLength
<1>2. QED
  BY <1>1, GroundHolds, PTL

\* bootstrap.yml is never deployed, and no command plays it but after its operator
\* said that the provider's firewall lets the port through, or waived the question
\* with --force (deployable_playbooks, confirm_provider_firewall).
THEOREM BootstrapsAreConfirmed == DeploySpec => []BootstrapIsConfirmed
<1>1. DeployInv /\ GroundInv => BootstrapIsConfirmed
  <2> SUFFICES ASSUME DeployInv, GroundInv, NEW i \in DOMAIN played, played[i].run.playbook = "bootstrap"
               PROVE  ~IsDeploy /\ "firewall" \in played[i].agreed
    BY DEF BootstrapIsConfirmed
  <2>1. /\ i \in 1..Len(played) /\ i \in 1..Len(plan) /\ played[i].run = plan[i]
    BY DEF DeployInv, IsSeq
  <2>2. IsDeploy => plan[i] \in DeployRun
    BY <2>1 DEF DeployInv, AllIn
  <2>3. ~IsDeploy
    BY <2>1, <2>2 DEF DeployRun, LayerRun, WholeRun, WholeOf, Run, Layered, NotDeployable
  <2>4. QED
    BY <2>1, <2>3 DEF GroundInv
<1>2. QED
  BY <1>1, GroundHolds, PTL

----------------------------------------------------------------------------
(* A program and the threads that read it.                                 *)

Units == UNION {{s[i] : i \in DOMAIN s} : s \in Scripts}
\* Before it is spawned a program wrote nothing, and no call runs.
ChildInv ==
    /\ {"todo", "state", "ok"} \subseteq DOMAIN child
    /\ child.todo \in Seq(Units) /\ child.state \in {"none", "running", "ended", "killed"}
    /\ child.state = "none" =>
         call.phase # "running" /\ \A s \in {"out", "err"} : pipe[s].held = << >>

LEMMA ChildInitially == SubprocessInit => ChildInv
<1> SUFFICES ASSUME SubprocessInit PROVE ChildInv
  OBVIOUS
<1>1. child.todo = << >> /\ child.state = "none" /\ {"todo", "state", "ok"} \subseteq DOMAIN child
  BY DEF SubprocessInit
<1>2. call.phase = "idle" /\ \A s \in {"out", "err"} : pipe[s].held = << >>
  BY DEF SubprocessInit, NoCall, NewPipe
<1>3. QED
  BY <1>1, <1>2 DEF ChildInv

LEMMA ChildSteps == ASSUME ChildInv, [SubprocessNext]_subprocessVars PROVE ChildInv'
<1>1. CASE Spawn
  <2>1. PICK script \in Scripts, ok \in BOOLEAN : child' = [todo |-> script, state |-> "running", ok |-> ok]
    BY <1>1 DEF Spawn
  <2>2. script \in Seq({script[i] : i \in DOMAIN script}) /\ {script[i] : i \in DOMAIN script} \subseteq Units
    BY SubprocessAssumption DEF Units
  <2>3. script \in Seq(Units)
    BY <2>2
  <2>4. QED
    BY <2>1, <2>3 DEF ChildInv
<1>2. CASE Write
  <2>1. child.state = "running" /\ child.todo # << >>
        /\ (child' = [child EXCEPT !.todo = Tail(@)] \/ child' = [child EXCEPT !.state = "killed", !.ok = FALSE])
    BY <1>2 DEF Write, CanWrite
  <2>2. Tail(child.todo) \in Seq(Units)
    BY <2>1 DEF ChildInv
  <2>3. QED
    BY <2>1, <2>2 DEF ChildInv
<1>3. CASE Exit
  BY <1>3 DEF ChildInv, Exit
<1>4. CASE ReadErr \/ ReadOut \/ \E s \in {"out", "err"} : EndOfFile(s)
  <2>1. child' = child /\ child.state # "none"
    <3>1. CASE ReadErr
      BY <3>1 DEF ReadErr, ChildInv
    <3>2. CASE ReadOut
      BY <3>2 DEF ReadOut, ChildInv
    <3>3. CASE \E s \in {"out", "err"} : EndOfFile(s)
      BY <3>3 DEF EndOfFile, Dead
    <3>4. QED
      BY <1>4, <3>1, <3>2, <3>3
  <2>2. QED
    BY <2>1 DEF ChildInv
<1>5. CASE Return
  <2>1. child' = child /\ child.state # "none"
    BY <1>5 DEF Return, Dead
  <2>2. QED
    BY <2>1 DEF ChildInv
<1>6. CASE UNCHANGED subprocessVars
  BY <1>6 DEF subprocessVars, ChildInv
<1>7. QED
  BY <1>1, <1>2, <1>3, <1>4, <1>5, <1>6 DEF SubprocessNext

\* A program and the two threads that read it never all wait for one another,
\* whatever it writes, in whatever order and however small its pipes are
\* (run_piped, stream_command).
THEOREM PipesNeverStall == SubprocessSpec => []NobodyWaits
<1>1. ChildInv => NobodyWaits
  <2> SUFFICES ASSUME ChildInv, call.phase = "running" PROVE NobodyWaits
    BY DEF NobodyWaits
  <2>1. CASE child.state = "running"
    <3> SUFFICES ASSUME child.todo # << >>, ~CanWrite PROVE NobodyWaits
      BY <2>1 DEF NobodyWaits
    <3>1. Into \in {"out", "err"}
      <4>1. Head(child.todo) \in Units
        BY DEF ChildInv
      <4>2. ASSUME NEW u \in Units PROVE u[1] \in {"out", "err"}
        <5>1. PICK s \in Scripts : u \in {s[i] : i \in DOMAIN s}
          BY <4>2 DEF Units
        <5>2. PICK i \in DOMAIN s : u = s[i]
          BY <5>1
        <5>3. QED
          BY <5>2, SubprocessAssumption
      <4>3. QED
        BY <4>1, <4>2 DEF Into
    <3>2. Wanted(Into) /\ pipe[Into].open /\ Full(Into)
      BY DEF CanWrite
    <3>3. pipe[Into].held # << >>
      <4>1. PipeSize \in Nat \ {0} /\ Len(pipe[Into].held) >= PipeSize
        BY <3>2, SubprocessAssumption DEF Full
      <4>2. Len(<< >>) = 0
        OBVIOUS
      <4>3. QED
        BY <4>1, <4>2
    <3>4. CanRead(Into)
      BY <3>2, <3>3 DEF CanRead, MayRead, OutTurn
    <3>5. QED
      BY <3>1, <3>4 DEF NobodyWaits
  <2>2. CASE Dead
    <3>1. CASE Joined
      BY <2>2, <3>1 DEF NobodyWaits
    <3>2. CASE ~Joined
      <4>1. PICK s \in {"out", "err"} : Wanted(s) /\ pipe[s].open
        BY <3>2 DEF Joined
      <4>2. CanRead(s)
        BY <2>2, <4>1 DEF CanRead, MayRead, OutTurn
      <4>3. QED
        BY <4>2 DEF NobodyWaits
    <3>3. QED
      BY <3>1, <3>2
  <2>3. QED
    BY <2>1, <2>2 DEF ChildInv, Dead
<1>2. ChildInv /\ [SubprocessNext]_subprocessVars => ChildInv'
  BY ChildSteps
<1>3. QED
  BY ChildInitially, <1>1, <1>2, PTL DEF SubprocessSpec

----------------------------------------------------------------------------
(* What a call returns.                                                    *)

\* Picked, as its recursion has it.
UpTo(seq, I, f) ==
    /\ f \in [0 .. Len(seq) -> Seq({seq[i] : i \in DOMAIN seq})]
    /\ f[0] = << >>
    /\ \A n \in 1 .. Len(seq) : f[n] = IF n \in I THEN Append(f[n - 1], seq[n]) ELSE f[n - 1]

LEMMA PickedIs ==
    ASSUME NEW S, NEW seq \in Seq(S), NEW I
    PROVE  \E f : UpTo(seq, I, f) /\ Picked(seq, I) = f[Len(seq)]
<1> DEFINE E == {seq[i] : i \in DOMAIN seq}
           V == Seq(E)
           N == Len(seq)
           move == [n \in 1 .. N |-> [y \in V |-> IF n \in I THEN Append(y, seq[n]) ELSE y]]
           IsIt(f) == f = [n \in 0 .. N |-> IF n = 0 THEN << >>
                             ELSE IF n \in I THEN Append(f[n - 1], seq[n]) ELSE f[n - 1]]
           c == CHOOSE h : IsIt(h)
<1>1. N \in Nat /\ << >> \in V /\ \A n \in 1 .. N, y \in V : Append(y, seq[n]) \in V
  OBVIOUS
<1>2. move \in [1 .. N -> [V -> V]]
  <2> HIDE DEF V, N
  <2>1. QED
    BY <1>1
<1>3. PICK f \in [0 .. N -> V] : f[0] = << >> /\ \A n \in 1 .. N : f[n] = move[n][f[n - 1]]
  <2> HIDE DEF V, move, N, c, IsIt
  <2>1. move \in Moves(N, V)
    BY <1>2 DEF Moves
  <2>2. \E f \in Values(N, V) : Unfolds(f, << >>, move, N)
    BY <1>1, <2>1, Recursion
  <2>3. QED
    BY <2>2 DEF Unfolds, Values
<1>4. ASSUME NEW n \in 1 .. N
      PROVE  f[n] = IF n \in I THEN Append(f[n - 1], seq[n]) ELSE f[n - 1]
  <2> HIDE DEF V, N
  <2>1. n - 1 \in 0 .. N
    BY <1>1
  <2>2. f[n - 1] \in V /\ f[n] = move[n][f[n - 1]]
    BY <1>3, <2>1
  <2>3. QED
    BY <2>2
<1>5. IsIt(f)
  <2> HIDE DEF V
  <2>1. \A n \in 0 .. N : n # 0 => n \in 1 .. N
    BY <1>1
  <2>2. \A n \in 0 .. N : f[n] = IF n = 0 THEN << >>
                             ELSE IF n \in I THEN Append(f[n - 1], seq[n]) ELSE f[n - 1]
    BY <1>3, <1>4, <2>1
  <2>3. QED
    BY <1>3, <2>2
<1>6. IsIt(c)
  BY <1>5
<1>7. Picked(seq, I) = c[N]
  BY DEF Picked
<1> HIDE DEF c
<1>8. c[0] = << >> /\ \A n \in 1 .. N : c[n] = IF n \in I THEN Append(c[n - 1], seq[n]) ELSE c[n - 1]
  <2> HIDE DEF V, N
  <2>1. 0 \in 0 .. N /\ \A n \in 1 .. N : n \in 0 .. N /\ n # 0
    BY <1>1
  <2>2. QED
    BY <1>6, <2>1
<1>9. c \in [0 .. N -> V]
  <2> DEFINE T == {n \in 0 .. N : c[n] \in V}
  <2> HIDE DEF V, N
  <2>1. 0 \in T
    BY <1>1, <1>8
  <2>2. ASSUME NEW n \in 1 .. N, n - 1 \in T PROVE n \in T
    BY <1>1, <1>8, <2>2
  <2>3. 0 .. N \subseteq T
    <3> HIDE DEF T
    <3>1. QED
      BY <1>1, <2>1, <2>2, UpToN
  <2>4. QED
    BY <1>6, <2>3
<1>10. QED
  BY <1>7, <1>8, <1>9 DEF UpTo

LEMMA PickedAppend ==
    ASSUME NEW S, NEW seq \in Seq(S), NEW x \in S, NEW I, NEW J,
           \A i \in 1 .. Len(seq) : i \in I <=> i \in J
    PROVE  /\ Picked(seq, I) \in Seq(S)
           /\ Picked(Append(seq, x), J) =
                IF Len(seq) + 1 \in J THEN Append(Picked(seq, I), x) ELSE Picked(seq, I)
<1> DEFINE N == Len(seq)  longer == Append(seq, x)
<1>1. longer \in Seq(S) /\ Len(longer) = N + 1 /\ N \in Nat /\ longer[N + 1] = x
      /\ \A i \in 1 .. N : longer[i] = seq[i]
  OBVIOUS
<1>2. PICK f : UpTo(seq, I, f) /\ Picked(seq, I) = f[N]
  BY PickedIs
<1>3. PICK g : UpTo(longer, J, g) /\ Picked(longer, J) = g[N + 1]
  BY <1>1, PickedIs
<1> HIDE DEF longer
<1>4. g[N] = f[N]
  <2> DEFINE T == {n \in 0 .. N : f[n] = g[n]}
  <2>1. 0 \in T
    BY <1>2, <1>3 DEF UpTo
  <2>2. ASSUME NEW n \in 1 .. N, n - 1 \in T PROVE n \in T
    <3>1. n \in 1 .. N + 1 /\ f[n - 1] = g[n - 1]
      BY <2>2
    <3>2. f[n] = IF n \in I THEN Append(f[n - 1], seq[n]) ELSE f[n - 1]
      BY <1>2 DEF UpTo
    <3>3. g[n] = IF n \in J THEN Append(g[n - 1], longer[n]) ELSE g[n - 1]
      BY <1>1, <1>3, <3>1 DEF UpTo
    <3>4. QED
      BY <1>1, <3>1, <3>2, <3>3
  <2>3. 0 .. N \subseteq T
    <3> HIDE DEF T
    <3>1. QED
      BY <1>1, <2>1, <2>2, UpToN
  <2>4. QED
    BY <2>3
<1>5. g[N + 1] = IF N + 1 \in J THEN Append(g[N], x) ELSE g[N]
  <2>1. N + 1 \in 1 .. Len(longer) /\ (N + 1) - 1 = N
    BY <1>1
  <2>2. g[N + 1] = IF N + 1 \in J THEN Append(g[(N + 1) - 1], longer[N + 1]) ELSE g[(N + 1) - 1]
    BY <1>3, <2>1 DEF UpTo
  <2>3. QED
    BY <1>1, <2>1, <2>2
<1>6. f[N] \in Seq(S)
  <2>1. f[N] \in Seq({seq[i] : i \in DOMAIN seq})
    BY <1>2 DEF UpTo
  <2>2. {seq[i] : i \in DOMAIN seq} \subseteq S
    OBVIOUS
  <2>3. QED
    BY <2>1, <2>2
<1>7. QED
  BY <1>2, <1>3, <1>4, <1>5, <1>6 DEF longer

LEMMA PickedNone == \A I : Picked(<< >>, I) = << >>
<1> SUFFICES ASSUME NEW I PROVE Picked(<< >>, I) = << >>
  OBVIOUS
<1> DEFINE none == << >>
<1>1. none \in Seq({}) /\ Len(none) = 0
  OBVIOUS
<1> HIDE DEF none
<1>2. PICK f : UpTo(none, I, f) /\ Picked(none, I) = f[Len(none)]
  BY <1>1, PickedIs, Zenon
<1>3. f[0] = << >>
  BY <1>2, Zenon DEF UpTo
<1>4. Picked(none, I) = << >>
  BY <1>1, <1>2, <1>3, Zenon
<1>5. QED
  BY <1>4 DEF none

LEMMA GoodAppend ==
    ASSUME NEW S, NEW heard \in Seq(S), NEW x \in S
    PROVE  /\ Good(heard) \in Seq(S) /\ Good(<< >>) = << >>
           /\ Good(Append(heard, x)) = IF x = "bad" THEN Good(heard) ELSE Append(Good(heard), x)
<1> DEFINE I == {i \in DOMAIN heard : heard[i] # "bad"}
           longer == Append(heard, x)
           J == {i \in DOMAIN longer : longer[i] # "bad"}
<1>1. \A i \in 1 .. Len(heard) : i \in I <=> i \in J
  OBVIOUS
<1>2. Len(heard) + 1 \in J <=> x # "bad"
  OBVIOUS
<1> HIDE DEF I, J
<1>3. Picked(heard, I) \in Seq(S)
      /\ Picked(longer, J) = IF Len(heard) + 1 \in J THEN Append(Picked(heard, I), x) ELSE Picked(heard, I)
  BY <1>1, PickedAppend
<1>4. Good(heard) = Picked(heard, I) /\ Good(longer) = Picked(longer, J)
  BY DEF Good, I, J
<1>5. QED
  BY <1>2, <1>3, <1>4, PickedNone DEF Good

LEMMA LatestPushed ==
    ASSUME NEW S, NEW seq \in Seq(S), NEW x \in S
    PROVE  Pushed(Latest(TailLines, seq), x) = Latest(TailLines, Append(seq, x))
<1> TailLines \in Nat \ {0}
  BY SubprocessAssumption
<1> DEFINE N == Len(seq)
<1>1. CASE N < TailLines
  <2>0. \A q \in Seq(S) : SubSeq(q, 1, Len(q)) = q
    OBVIOUS
  <2>1. Latest(TailLines, seq) = seq
    <3>1. ~(Len(seq) > TailLines)
      BY <1>1
    <3>2. QED
      BY <2>0, <3>1 DEF Latest
  <2>2. Latest(TailLines, Append(seq, x)) = Append(seq, x)
    <3> DEFINE longer == Append(seq, x)
    <3>1. longer \in Seq(S) /\ ~(Len(longer) > TailLines)
      BY <1>1
    <3> HIDE DEF longer
    <3>2. Latest(TailLines, longer) = longer
      BY <2>0, <3>1 DEF Latest
    <3>3. QED
      BY <3>2 DEF longer
  <2>3. QED
    BY <1>1, <2>1, <2>2 DEF Pushed
<1>2. CASE N >= TailLines
  <2> DEFINE last == Latest(TailLines, seq)
  <2>1. last \in Seq(S) /\ Len(last) = TailLines
        /\ \A i \in 1 .. TailLines : last[i] = seq[N - TailLines + i]
    BY <1>2 DEF Latest
  <2> DEFINE longer == Append(last, x)  then == Latest(TailLines, Append(seq, x))
  <2> HIDE DEF last
  <2>2. Pushed(last, x) = Tail(longer) /\ longer \in Seq(S) /\ Len(longer) = TailLines + 1
    BY <2>1 DEF Pushed
  <2>3. then \in Seq(S) /\ Len(then) = TailLines
        /\ \A i \in 1 .. TailLines : then[i] = Append(seq, x)[N + 1 - TailLines + i]
    BY <1>2 DEF Latest
  <2>4. Tail(longer) \in Seq(S) /\ Len(Tail(longer)) = TailLines
        /\ \A i \in 1 .. TailLines : Tail(longer)[i] = longer[i + 1]
    BY <2>2
  <2>5. ASSUME NEW i \in 1 .. TailLines PROVE Tail(longer)[i] = then[i]
    <3>1. CASE i = TailLines
      <4>1. longer[i + 1] = x
        BY <2>1, <3>1
      <4>2. N + 1 - TailLines + i = Len(seq) + 1
        BY <3>1
      <4>3. QED
        BY <2>3, <2>4, <4>1, <4>2
    <3>2. CASE i # TailLines
      <4>1. i + 1 \in 1 .. TailLines /\ longer[i + 1] = last[i + 1]
        BY <2>1, <3>2
      <4>2. last[i + 1] = seq[N - TailLines + (i + 1)]
        BY <2>1, <4>1
      <4>3. N + 1 - TailLines + i \in 1 .. N /\ N - TailLines + (i + 1) = N + 1 - TailLines + i
        BY <1>2, <3>2
      <4>4. Append(seq, x)[N + 1 - TailLines + i] = seq[N + 1 - TailLines + i]
        BY <4>3
      <4>5. QED
        BY <2>3, <2>4, <4>1, <4>2, <4>3, <4>4
    <3>3. QED
      BY <3>1, <3>2
  <2> HIDE DEF longer, then
  <2>6. Tail(longer) = then
    BY <2>3, <2>4, <2>5
  <2>7. QED
    BY <2>2, <2>6 DEF last, then
<1>3. QED
  BY <1>1, <1>2

\* What a reader has cut from the bytes it has read: the parts it handed on and
\* the one it is in.
PartsOf(h, g) == IF g = << >> THEN h ELSE Append(h, g)
CutSoFar(h, g, r) ==
    /\ \E from \in [1 .. Len(PartsOf(h, g)) -> 1 .. Len(r)] :
          /\ CutAt(PartsOf(h, g), r, from)
          /\ g # << >> => from[Len(h) + 1] + Len(g) = Len(r) + 1
    /\ g = << >> <=> ~Inside(r, Len(r))

LEMMA InsideLonger ==
    ASSUME NEW S, NEW r \in Seq(S), NEW x \in S
    PROVE  /\ \A i \in Int : i # Len(r) + 1 => (Inside(Append(r, x), i) <=> Inside(r, i))
           /\ Inside(Append(r, x), Len(r) + 1) <=> x \notin Terminators
  BY DEF Inside

\* A run that ended before the last byte, or ends at it, is one of the longer
\* sequence.
LEMMA RunKept ==
    ASSUME NEW S, NEW r \in Seq(S), NEW x \in S, NEW part \in Seq(S), NEW first \in 1 .. Len(r),
           IsRun(part, r, first), x \in Terminators \/ first + Len(part) # Len(r) + 1
    PROVE  IsRun(part, Append(r, x), first)
<1> DEFINE b == Append(r, x)  next == first + Len(part)
<1>1. /\ part # << >> /\ ~Inside(r, first - 1) /\ ~Inside(r, next)
      /\ \A i \in first .. next - 1 : Inside(r, i) /\ part[i - first + 1] = r[i]
  BY DEF IsRun
<1>2. ~Inside(b, first - 1) /\ ~Inside(b, next)
  BY <1>1, InsideLonger
<1>3. ASSUME NEW i \in first .. next - 1 PROVE Inside(b, i) /\ part[i - first + 1] = b[i]
  <2>1. Inside(r, i) /\ part[i - first + 1] = r[i]
    BY <1>1
  <2>2. i \in 1 .. Len(r)
    BY <2>1 DEF Inside
  <2>3. i # Len(r) + 1 /\ b[i] = r[i]
    BY <2>2
  <2>4. QED
    BY <2>1, <2>3, InsideLonger
<1>4. QED
  BY <1>1, <1>2, <1>3 DEF IsRun

LEMMA RunEnds ==
    ASSUME NEW S, NEW r \in Seq(S), NEW part \in Seq(S), NEW first \in 1 .. Len(r), IsRun(part, r, first)
    PROVE  Len(part) \in Nat \ {0} /\ Inside(r, first + Len(part) - 1)
<1>1. Len(part) \in Nat \ {0}
  BY DEF IsRun
<1>2. QED
  BY <1>1 DEF IsRun

LEMMA EatTerminator ==
    ASSUME NEW S, NEW r \in Seq(S), NEW h \in Seq(Seq(S)), NEW g \in Seq(S),
           NEW x \in S, x \in Terminators, CutSoFar(h, g, r)
    PROVE  CutSoFar(PartsOf(h, g), << >>, Append(r, x))
<1> DEFINE b == Append(r, x)  parts == PartsOf(h, g)
<1>1. parts \in Seq(Seq(S)) /\ PartsOf(parts, << >>) = parts /\ b \in Seq(S) /\ Len(b) = Len(r) + 1
  BY DEF PartsOf
<1>2. PICK from \in [1 .. Len(parts) -> 1 .. Len(r)] : CutAt(parts, r, from)
  BY DEF CutSoFar
<1> HIDE DEF b, parts
<1>3. from \in [1 .. Len(parts) -> 1 .. Len(b)]
  BY <1>1, <1>2
<1>4. \A k \in DOMAIN parts : IsRun(parts[k], b, from[k])
  BY <1>1, <1>2, RunKept DEF CutAt, b
<1>5. ASSUME NEW i \in DOMAIN b, Inside(b, i), ~Inside(b, i - 1)
      PROVE  \E k \in DOMAIN parts : from[k] = i
  <2>1. i # Len(r) + 1 /\ i \in DOMAIN r
    BY <1>1, <1>5, InsideLonger DEF b
  <2>2. Inside(r, i) /\ ~Inside(r, i - 1)
    BY <1>5, <2>1, InsideLonger DEF b
  <2>3. QED
    BY <1>2, <2>1, <2>2 DEF CutAt
<1>6. CutAt(parts, b, from)
  BY <1>2, <1>4, <1>5 DEF CutAt
<1>7. ~Inside(b, Len(b))
  BY <1>1, InsideLonger DEF b
<1>8. QED
  BY <1>1, <1>3, <1>6, <1>7 DEF CutSoFar, b, parts

\* The run that reaches to the last byte grows with the next.
LEMMA RunGrows ==
    ASSUME NEW S, NEW r \in Seq(S), NEW g \in Seq(S), NEW x \in S, x \notin Terminators,
           NEW first \in 1 .. Len(r), IsRun(g, r, first), first + Len(g) = Len(r) + 1
    PROVE  /\ IsRun(Append(g, x), Append(r, x), first)
           /\ first + Len(Append(g, x)) = Len(Append(r, x)) + 1
<1> DEFINE b == Append(r, x)  more == Append(g, x)
<1>1. /\ ~Inside(r, first - 1) /\ first \in Nat
      /\ \A i \in first .. Len(r) : Inside(r, i) /\ g[i - first + 1] = r[i]
  <2>1. first + Len(g) - 1 = Len(r)
    OBVIOUS
  <2>2. QED
    BY <2>1 DEF IsRun
<1>2. /\ more # << >> /\ first + Len(more) = Len(r) + 2 /\ more[Len(g) + 1] = x
      /\ \A i \in 1 .. Len(g) : more[i] = g[i]
  OBVIOUS
<1>3. ~Inside(b, first - 1) /\ ~Inside(b, Len(r) + 2)
  <2>1. first - 1 # Len(r) + 1 /\ first - 1 \in Int /\ Len(r) + 2 \notin DOMAIN b
    OBVIOUS
  <2>2. QED
    BY <1>1, <2>1, InsideLonger DEF Inside
<1>4. ASSUME NEW i \in first .. Len(r) + 1 PROVE Inside(b, i) /\ more[i - first + 1] = b[i]
  <2>1. CASE i = Len(r) + 1
    <3>1. i - first + 1 = Len(g) + 1
      BY <2>1
    <3>2. b[i] = x /\ Inside(b, i)
      BY <2>1, InsideLonger
    <3>3. QED
      BY <1>2, <3>1, <3>2
  <2>2. CASE i # Len(r) + 1
    <3>1. i \in first .. Len(r) /\ i \in 1 .. Len(r) /\ i - first + 1 \in 1 .. Len(g)
      BY <2>2
    <3>2. b[i] = r[i] /\ Inside(b, i)
      BY <1>1, <2>2, <3>1, InsideLonger
    <3>3. QED
      BY <1>1, <1>2, <3>1, <3>2
  <2>3. QED
    BY <2>1, <2>2
<1>5. first + Len(more) - 1 = Len(r) + 1
  OBVIOUS
<1>6. first + Len(more) = Len(b) + 1
  OBVIOUS
<1> HIDE DEF b, more
<1>7. IsRun(more, b, first)
  BY <1>2, <1>3, <1>4, <1>5 DEF IsRun
<1>8. QED
  BY <1>6, <1>7 DEF b, more

\* One that starts before another does not reach its end.
LEMMA RunBefore ==
    ASSUME NEW S, NEW r \in Seq(S), NEW part \in Seq(S), NEW first \in 1 .. Len(r),
           NEW last \in 1 .. Len(r), IsRun(part, r, first), first < last, ~Inside(r, last - 1)
    PROVE  first + Len(part) # Len(r) + 1
<1>1. SUFFICES ASSUME first + Len(part) = Len(r) + 1 PROVE FALSE
  OBVIOUS
<1>2. last - 1 \in first .. first + Len(part) - 1
  BY <1>1
<1>3. QED
  BY <1>2 DEF IsRun

LEMMA EatFirst ==
    ASSUME NEW S, NEW r \in Seq(S), NEW h \in Seq(Seq(S)),
           NEW x \in S, x \notin Terminators, CutSoFar(h, << >>, r)
    PROVE  CutSoFar(h, << x >>, Append(r, x))
<1> DEFINE b == Append(r, x)  g == << x >>  parts == Append(h, g)  m == Len(h) + 1
<1>1. /\ parts \in Seq(Seq(S)) /\ Len(parts) = m /\ m \in Nat /\ parts[m] = g
      /\ PartsOf(h, g) = parts /\ PartsOf(h, << >>) = h /\ \A k \in 1 .. Len(h) : parts[k] = h[k]
      /\ b \in Seq(S) /\ Len(b) = Len(r) + 1 /\ b[Len(r) + 1] = x
  BY DEF PartsOf
<1>2. PICK old \in [1 .. Len(h) -> 1 .. Len(r)] : CutAt(h, r, old)
  BY <1>1 DEF CutSoFar
<1>3. ~Inside(r, Len(r))
  BY DEF CutSoFar
<1> DEFINE from == [k \in 1 .. m |-> IF k = m THEN Len(r) + 1 ELSE old[k]]
<1> HIDE DEF b, parts, g
<1>4. from \in [1 .. Len(parts) -> 1 .. Len(b)]
  BY <1>1, <1>2
<1>5. ASSUME NEW k \in DOMAIN parts PROVE IsRun(parts[k], b, from[k])
  <2>1. CASE k = m
    <3>1. g # << >> /\ Len(g) = 1 /\ g[1] = x
      BY DEF g
    <3>2. Inside(b, Len(r) + 1) /\ ~Inside(b, Len(r)) /\ ~Inside(b, Len(r) + 2)
      BY <1>1, <1>3, InsideLonger DEF b, Inside
    <3>3. from[k] = Len(r) + 1 /\ parts[k] = g /\ \A i \in Len(r) + 1 .. Len(r) + 1 + Len(g) - 1 : i = Len(r) + 1
      BY <1>1, <2>1, <3>1
    <3>4. Len(r) + 1 - (Len(r) + 1) + 1 = 1 /\ Len(r) + 1 - 1 = Len(r) /\ Len(r) + 1 + Len(g) = Len(r) + 2
      BY <1>1, <3>1
    <3> HIDE DEF from
    <3>5. IsRun(g, b, Len(r) + 1)
      BY <1>1, <3>1, <3>2, <3>3, <3>4 DEF IsRun
    <3>6. QED
      BY <3>3, <3>5
  <2>2. CASE k # m
    <3>1. k \in 1 .. Len(h) /\ parts[k] = h[k] /\ from[k] = old[k] /\ h[k] \in Seq(S) /\ old[k] \in 1 .. Len(r)
      BY <1>1, <1>2, <2>2
    <3>2. IsRun(h[k], r, old[k])
      BY <1>2, <3>1 DEF CutAt
    <3>3. old[k] + Len(h[k]) # Len(r) + 1
      BY <1>3, <3>1, <3>2, RunEnds
    <3>4. QED
      BY <3>1, <3>2, <3>3, RunKept DEF b
  <2>3. QED
    BY <2>1, <2>2
<1>6. ASSUME NEW i \in DOMAIN b, Inside(b, i), ~Inside(b, i - 1)
      PROVE  \E k \in DOMAIN parts : from[k] = i
  <2>1. CASE i = Len(r) + 1
    <3>1. m \in DOMAIN parts /\ from[m] = Len(r) + 1
      BY <1>1
    <3>2. QED
      BY <2>1, <3>1
  <2>2. CASE i # Len(r) + 1
    <3>1. i \in DOMAIN r /\ Inside(r, i) /\ ~Inside(r, i - 1)
      BY <1>1, <1>6, <2>2, InsideLonger DEF b
    <3>2. PICK k \in DOMAIN h : old[k] = i
      BY <1>2, <3>1 DEF CutAt
    <3>3. k \in 1 .. m /\ k # m
      BY <3>2
    <3>4. QED
      BY <1>1, <3>2, <3>3
  <2>3. QED
    BY <2>1, <2>2
<1>7. \A k, l \in DOMAIN parts : k < l => from[k] < from[l]
  <2>1. \A k, l \in DOMAIN h : k < l => old[k] < old[l]
    BY <1>2 DEF CutAt
  <2>2. ASSUME NEW k \in DOMAIN parts, NEW l \in DOMAIN parts, k < l PROVE from[k] < from[l]
    <3>1. k \in 1 .. Len(h) /\ from[k] = old[k] /\ old[k] \in 1 .. Len(r)
      BY <1>1, <1>2, <2>2
    <3>2. CASE l = m
      <4>1. from[l] = Len(r) + 1
        BY <1>1, <3>2
      <4>2. \A i \in 1 .. Len(r) : i < Len(r) + 1
        OBVIOUS
      <4> HIDE DEF from
      <4>3. QED
        BY <3>1, <4>1, <4>2
    <3>3. CASE l # m
      <4>1. l \in 1 .. Len(h) /\ from[l] = old[l]
        BY <1>1, <3>3
      <4>2. QED
        <5>1. k \in DOMAIN h /\ l \in DOMAIN h /\ old[k] < old[l]
          BY <2>1, <2>2, <3>1, <4>1
        <5> HIDE DEF from
        <5>2. QED
          BY <3>1, <4>1, <5>1
    <3>4. QED
      BY <3>2, <3>3
  <2>3. QED
    BY <2>2
<1>8. CutAt(parts, b, from)
  BY <1>5, <1>6, <1>7 DEF CutAt
<1>9. from[Len(h) + 1] + Len(g) = Len(b) + 1 /\ Inside(b, Len(b)) /\ g # << >>
  BY <1>1, InsideLonger DEF b, g
<1>10. QED
  BY <1>1, <1>4, <1>8, <1>9 DEF CutSoFar, b, g

LEMMA EatMore ==
    ASSUME NEW S, NEW r \in Seq(S), NEW h \in Seq(Seq(S)), NEW g \in Seq(S), g # << >>,
           NEW x \in S, x \notin Terminators, CutSoFar(h, g, r)
    PROVE  CutSoFar(h, Append(g, x), Append(r, x))
<1> DEFINE b == Append(r, x)  more == Append(g, x)  m == Len(h) + 1
           parts == Append(h, g)  longer == Append(h, more)
<1>a. Len(r) \in Nat /\ Len(g) \in Nat \ {0} /\ m \in Nat \ {0}
  OBVIOUS
<1>b. /\ more \in Seq(S) /\ more # << >> /\ Len(more) = Len(g) + 1 /\ more[Len(g) + 1] = x
      /\ \A i \in 1 .. Len(g) : more[i] = g[i]
  OBVIOUS
<1>ab. Len(more) = Len(g) + 1 /\ Len(r) \in Int /\ Len(g) \in Int
  BY <1>a, <1>b
<1>c. /\ b \in Seq(S) /\ Len(b) = Len(r) + 1 /\ b[Len(r) + 1] = x
      /\ \A i \in 1 .. Len(r) : b[i] = r[i]
  OBVIOUS
<1>d. /\ parts \in Seq(Seq(S)) /\ Len(parts) = m /\ parts[m] = g /\ DOMAIN parts = 1 .. m
      /\ \A k \in 1 .. Len(h) : parts[k] = h[k]
  OBVIOUS
<1>e. /\ longer \in Seq(Seq(S)) /\ Len(longer) = m /\ longer[m] = more /\ DOMAIN longer = 1 .. m
      /\ \A k \in 1 .. Len(h) : longer[k] = h[k]
  <2> HIDE DEF more
  <2>1. QED
    BY <1>b
<1>f. \A k \in 1 .. m : k # m => longer[k] = parts[k] /\ parts[k] \in Seq(S) /\ k < m
  <2>1. \A k \in 1 .. m : k # m => k \in 1 .. Len(h) /\ k < m /\ h[k] \in Seq(S)
    OBVIOUS
  <2> HIDE DEF parts, longer, m
  <2>2. QED
    BY <1>d, <1>e, <2>1
<1>2. PartsOf(h, g) = parts /\ PartsOf(h, more) = longer
  BY <1>b DEF PartsOf
<1>3. PICK from \in [1 .. m -> 1 .. Len(r)] : CutAt(parts, r, from) /\ from[m] + Len(g) = Len(r) + 1
  BY <1>2, <1>d DEF CutSoFar
<1> HIDE DEF b, more, parts, longer
<1>4. /\ Inside(r, Len(r)) /\ ~Inside(r, from[m] - 1) /\ from[m] \in 1 .. Len(r)
      /\ IsRun(g, r, from[m])
      /\ \A i \in from[m] .. Len(r) : Inside(r, i) /\ g[i - from[m] + 1] = r[i]
  <2>1. IsRun(g, r, from[m])
    <3>1. m \in DOMAIN parts
      BY <1>a, <1>d
    <3>2. QED
      BY <1>3, <1>d, <3>1 DEF CutAt
  <2>2. from[m] \in 1 .. Len(r)
    BY <1>a, <1>3
  <2>3. from[m] + Len(g) - 1 = Len(r)
    BY <1>a, <1>3, <2>2
  <2>4. Len(r) \in from[m] .. from[m] + Len(g) - 1
    BY <1>a, <2>2, <2>3
  <2>5. QED
    BY <2>1, <2>2, <2>3, <2>4 DEF IsRun
<1>g. IsRun(more, b, from[m]) /\ from[m] + Len(more) = Len(b) + 1
  <2> HIDE DEF m
  <2>1. QED
    BY <1>3, <1>4, RunGrows DEF b, more
<1>5. ASSUME NEW k \in DOMAIN longer PROVE IsRun(longer[k], b, from[k])
  <2>1. CASE k = m
    BY <1>e, <1>g, <2>1
  <2>2. CASE k # m
    <3>1. k \in 1 .. m /\ longer[k] = parts[k] /\ parts[k] \in Seq(S) /\ from[k] \in 1 .. Len(r) /\ k < m
      BY <1>e, <1>f, <1>3, <2>2
    <3>2. IsRun(parts[k], r, from[k]) /\ from[k] < from[m]
      <4>1. k \in DOMAIN parts /\ m \in DOMAIN parts
        BY <1>a, <1>d, <3>1
      <4>2. QED
        BY <1>3, <3>1, <4>1 DEF CutAt
    <3>3. from[k] + Len(parts[k]) # Len(r) + 1
      BY <1>4, <3>1, <3>2, RunBefore
    <3>4. QED
      BY <3>1, <3>2, <3>3, RunKept DEF b
  <2>3. QED
    BY <2>1, <2>2
<1>6. ASSUME NEW i \in DOMAIN b, Inside(b, i), ~Inside(b, i - 1)
      PROVE  \E k \in DOMAIN longer : from[k] = i
  <2>1. i # Len(r) + 1
    <3>1. Inside(b, Len(r))
      BY <1>a, <1>4, InsideLonger DEF b
    <3>2. QED
      BY <1>a, <1>6, <3>1
  <2>2. i \in DOMAIN r /\ Inside(r, i) /\ ~Inside(r, i - 1)
    <3>1. i \in DOMAIN r /\ i \in Int /\ i - 1 \in Int /\ i - 1 # Len(r) + 1
      BY <1>c, <2>1
    <3>2. QED
      BY <1>6, <2>1, <3>1, InsideLonger DEF b
  <2>3. QED
    BY <1>d, <1>e, <1>3, <2>2 DEF CutAt
<1>7. \A k, l \in DOMAIN longer : k < l => from[k] < from[l]
  BY <1>d, <1>e, <1>3 DEF CutAt
<1>8. CutAt(longer, b, from)
  BY <1>5, <1>6, <1>7 DEF CutAt
<1>9. from[m] + Len(more) = Len(b) + 1 /\ Inside(b, Len(b)) /\ from \in [1 .. m -> 1 .. Len(b)]
  <2>1. Inside(b, Len(r) + 1)
    BY InsideLonger DEF b
  <2>2. QED
    <3>1. from[m] + Len(more) = Len(b) + 1
      BY <1>g
    <3>2. from \in [1 .. m -> 1 .. Len(b)]
      BY <1>a, <1>c, <1>3
    <3>3. QED
      BY <1>a, <1>c, <2>1, <3>1, <3>2
<1>10. QED
  BY <1>b, <1>e, <1>2, <1>8, <1>9 DEF CutSoFar, b, more, m

LEMMA CutNothing == CutSoFar(<< >>, << >>, << >>)
<1> DEFINE from == [i \in 1 .. 0 |-> 1]
<1>1. Len(<< >>) = 0 /\ DOMAIN << >> = {} /\ 1 .. 0 = {} /\ PartsOf(<< >>, << >>) = << >>
  BY DEF PartsOf
<1>2. CutAt(<< >>, << >>, from) /\ ~Inside(<< >>, 0)
  BY <1>1 DEF CutAt, Inside
<1>3. from \in [1 .. 0 -> 1 .. 0]
  BY <1>1
<1> HIDE DEF from
<1>4. QED
  BY <1>1, <1>2, <1>3 DEF CutSoFar

LEMMA CutAtLast ==
    ASSUME NEW S, NEW r \in Seq(S), NEW h \in Seq(Seq(S)), NEW g \in Seq(S), CutSoFar(h, g, r)
    PROVE  CutInto(PartsOf(h, g), r)
<1> DEFINE parts == PartsOf(h, g)
<1>1. parts \in Seq(Seq(S))
  BY DEF PartsOf
<1> HIDE DEF parts
<1>2. DOMAIN parts = 1 .. Len(parts) /\ DOMAIN r = 1 .. Len(r)
  BY <1>1
<1>3. QED
  BY <1>2 DEF CutSoFar, CutInto, parts

Contents == {u[2] : u \in Units}
LEMMA OfAppend ==
    ASSUME NEW script \in Seq(Units), NEW u \in Units, NEW s
    PROVE  /\ Of(s, script) \in Seq(Contents) /\ Of(s, << >>) = << >>
           /\ Of(s, Append(script, u)) =
                IF u[1] = s THEN Append(Of(s, script), u[2]) ELSE Of(s, script)
<1> DEFINE I == {i \in DOMAIN script : script[i][1] = s}
           longer == Append(script, u)
           J == {i \in DOMAIN longer : longer[i][1] = s}
<1>1. \A i \in 1 .. Len(script) : i \in I <=> i \in J
  OBVIOUS
<1>2. Len(script) + 1 \in J <=> u[1] = s
  OBVIOUS
<1> HIDE DEF I, J
<1>3. Picked(script, I) \in Seq(Units)
      /\ Picked(longer, J) = IF Len(script) + 1 \in J THEN Append(Picked(script, I), u) ELSE Picked(script, I)
  BY <1>1, PickedAppend
<1> DEFINE mine == Picked(script, I)
           Map(q) == [i \in DOMAIN q |-> q[i][2]]
<1>4. Of(s, script) = Map(mine) /\ Of(s, longer) = Map(Picked(longer, J))
  BY DEF Of, I, J
<1>5. Of(s, << >>) = << >>
  BY PickedNone DEF Of
<1> HIDE DEF mine
<1>6. mine \in Seq(Units)
  BY <1>3 DEF mine
<1>7. Map(mine) \in Seq(Contents)
  <2>1. \A w \in Units : w[2] \in Contents
    BY DEF Contents
  <2>2. QED
    BY <1>6, <2>1
<1>8. Map(Append(mine, u)) = Append(Map(mine), u[2])
  BY <1>6
<1>9. QED
  BY <1>2, <1>3, <1>4, <1>5, <1>7, <1>8 DEF mine

Calls(H) ==
    [kind : {"", "piped", "stdout", "segments"}, verbose : BOOLEAN,
     phase : {"idle", "running", "returned"}, script : Seq(Units), tail : Seq(Contents),
     segment : Seq(Contents), heard : Seq(H), shown : Int, lines : Int, ok : BOOLEAN]
SegmentCalls == Calls(Seq(Contents))

LEMMA EatIs ==
    ASSUME NEW c \in SegmentCalls, NEW x \in Contents, NEW r \in Seq(Contents), CutSoFar(c.heard, c.segment, r)
    PROVE  /\ Eat(c, x) \in SegmentCalls
           /\ Eat(c, x) = [c EXCEPT !.heard = Eat(c, x).heard, !.segment = Eat(c, x).segment]
           /\ CutSoFar(Eat(c, x).heard, Eat(c, x).segment, Append(r, x))
<1> DEFINE h == c.heard  g == c.segment  d == Eat(c, x)
<1>1. h \in Seq(Seq(Contents)) /\ g \in Seq(Contents)
  BY DEF SegmentCalls, Calls
<1>2. CASE x \in Terminators
  <2>1. PartsOf(h, g) \in Seq(Seq(Contents)) /\ << >> \in Seq(Contents)
    BY <1>1 DEF PartsOf
  <2>2. d = [c EXCEPT !.heard = PartsOf(h, g), !.segment = << >>]
    BY <1>2 DEF Eat, Flushed, PartsOf, SegmentCalls, Calls
  <2>3. d \in SegmentCalls /\ d.heard = PartsOf(h, g) /\ d.segment = << >>
    BY <2>1, <2>2 DEF SegmentCalls, Calls
  <2>4. CutSoFar(PartsOf(h, g), << >>, Append(r, x))
    BY <1>1, <1>2, EatTerminator
  <2>5. QED
    BY <2>2, <2>3, <2>4
<1>3. CASE x \notin Terminators
  <2>1. Append(g, x) \in Seq(Contents)
    BY <1>1
  <2>2. d = [c EXCEPT !.segment = Append(g, x)]
    BY <1>3 DEF Eat
  <2>3. d \in SegmentCalls /\ d.heard = h /\ d.segment = Append(g, x)
        /\ d = [c EXCEPT !.heard = h, !.segment = Append(g, x)]
    BY <2>1, <2>2 DEF SegmentCalls, Calls
  <2>4. CutSoFar(h, Append(g, x), Append(r, x))
    <3>1. CASE g = << >>
      <4>1. Append(<< >>, x) = << x >>
        OBVIOUS
      <4>2. QED
        BY <1>1, <1>3, <3>1, <4>1, EatFirst
    <3>2. CASE g # << >>
      BY <1>1, <1>3, <3>2, EatMore
    <3>3. QED
      BY <3>1, <3>2
  <2>5. QED
    BY <2>2, <2>3, <2>4
<1>4. QED
  BY <1>2, <1>3

LEMMA EatTyped == \A c \in SegmentCalls, x \in Contents : Eat(c, x) \in SegmentCalls
<1> TAKE c \in SegmentCalls, x \in Contents
<1>1. Append(c.heard, c.segment) \in Seq(Seq(Contents)) /\ Append(c.segment, x) \in Seq(Contents)
      /\ << >> \in Seq(Contents)
  <2>1. c.heard \in Seq(Seq(Contents)) /\ c.segment \in Seq(Contents)
    BY DEF SegmentCalls, Calls
  <2>2. QED
    BY <2>1
<1>2. QED
  BY <1>1 DEF Eat, Flushed, SegmentCalls, Calls

\* Eaten, as its recursion has it.
LEMMA EatenIs ==
    ASSUME NEW c \in SegmentCalls, NEW bytes \in Seq(Contents)
    PROVE  \E f \in [0 .. Len(bytes) -> SegmentCalls] :
              /\ f[0] = c /\ \A n \in 1 .. Len(bytes) : f[n] = Eat(f[n - 1], bytes[n])
              /\ Eaten(c, bytes) = f[Len(bytes)]
<1> DEFINE V == SegmentCalls
           N == Len(bytes)
           move == [n \in 1 .. N |-> [y \in V |-> Eat(y, bytes[n])]]
           IsIt(f) == f = [n \in 0 .. N |-> IF n = 0 THEN c ELSE Eat(f[n - 1], bytes[n])]
           it == CHOOSE h : IsIt(h)
<1>1. N \in Nat /\ c \in V /\ \A n \in 1 .. N : bytes[n] \in Contents
  OBVIOUS
<1>2. move \in Moves(N, V)
  <2> HIDE DEF V, N
  <2>1. \A n \in 1 .. N, y \in V : Eat(y, bytes[n]) \in V
    BY <1>1, EatTyped DEF V
  <2>2. QED
    BY <2>1 DEF Moves
<1>3. PICK f \in [0 .. N -> V] : f[0] = c /\ \A n \in 1 .. N : f[n] = move[n][f[n - 1]]
  <2> HIDE DEF V, move, N, it, IsIt
  <2>1. \E f \in Values(N, V) : Unfolds(f, c, move, N)
    BY <1>1, <1>2, Recursion
  <2>2. QED
    BY <2>1 DEF Unfolds, Values
<1>4. ASSUME NEW n \in 1 .. N PROVE f[n] = Eat(f[n - 1], bytes[n])
  <2> HIDE DEF V, N
  <2>1. n - 1 \in 0 .. N
    BY <1>1
  <2>2. f[n - 1] \in V /\ f[n] = move[n][f[n - 1]]
    BY <1>3, <2>1
  <2>3. QED
    BY <2>2
<1>5. IsIt(f)
  <2> HIDE DEF V
  <2>1. \A n \in 0 .. N : n # 0 => n \in 1 .. N
    BY <1>1
  <2>2. \A n \in 0 .. N : f[n] = IF n = 0 THEN c ELSE Eat(f[n - 1], bytes[n])
    BY <1>3, <1>4, <2>1
  <2>3. QED
    BY <1>3, <2>2
<1>6. IsIt(it)
  BY <1>5
<1>7. Eaten(c, bytes) = it[N]
  BY DEF Eaten
<1> HIDE DEF it
<1>8. it[0] = c /\ \A n \in 1 .. N : it[n] = Eat(it[n - 1], bytes[n])
  <2> HIDE DEF V, N
  <2>1. 0 \in 0 .. N /\ \A n \in 1 .. N : n \in 0 .. N /\ n # 0
    BY <1>1
  <2>2. QED
    BY <1>6, <2>1
<1>9. it \in [0 .. N -> V]
  <2> DEFINE T == {n \in 0 .. N : it[n] \in V}
  <2> HIDE DEF V, N
  <2>1. 0 \in T
    BY <1>1, <1>8
  <2>2. ASSUME NEW n \in 1 .. N, n - 1 \in T PROVE n \in T
    <3>1. it[n] = Eat(it[n - 1], bytes[n]) /\ it[n - 1] \in V /\ bytes[n] \in Contents
      BY <1>1, <1>8, <2>2
    <3>2. it[n] \in V
      BY <3>1, EatTyped DEF V
    <3>3. QED
      BY <1>1, <3>2
  <2>3. 0 .. N \subseteq T
    <3> HIDE DEF T
    <3>1. QED
      BY <1>1, <2>1, <2>2, UpToN
  <2>4. QED
    BY <1>6, <2>3
<1>10. QED
  BY <1>7, <1>8, <1>9

\* However the reads fall, what was cut so far is cut from all that was read.
LEMMA EatenCuts ==
    ASSUME NEW c \in SegmentCalls, NEW bytes \in Seq(Contents), NEW r \in Seq(Contents),
           CutSoFar(c.heard, c.segment, r)
    PROVE  LET d == Eaten(c, bytes)
           IN  /\ d \in SegmentCalls /\ d = [c EXCEPT !.heard = d.heard, !.segment = d.segment]
               /\ CutSoFar(d.heard, d.segment, r \o bytes)
<1> DEFINE N == Len(bytes)
           Part(n) == r \o SubSeq(bytes, 1, n)
           Cut(d, n) == /\ d = [c EXCEPT !.heard = d.heard, !.segment = d.segment]
                        /\ CutSoFar(d.heard, d.segment, Part(n))
<1>1. PICK f \in [0 .. N -> SegmentCalls] :
              /\ f[0] = c /\ \A n \in 1 .. N : f[n] = Eat(f[n - 1], bytes[n])
              /\ Eaten(c, bytes) = f[N]
  BY EatenIs
<1>2. N \in Nat /\ \A n \in 1 .. N : bytes[n] \in Contents
  OBVIOUS
<1>3. \A n \in 0 .. N : Part(n) \in Seq(Contents)
  OBVIOUS
<1>4. Part(0) = r
  OBVIOUS
<1>5. Part(N) = r \o bytes
  <2>1. SubSeq(bytes, 1, N) = bytes
    BY SubSeqFull
  <2>2. QED
    BY <2>1
<1>6. \A n \in 1 .. N : Part(n) = Append(Part(n - 1), bytes[n])
  <2> TAKE n \in 1 .. N
  <2>1. SubSeq(bytes, 1, n) = Append(SubSeq(bytes, 1, n - 1), bytes[n])
    OBVIOUS
  <2>2. SubSeq(bytes, 1, n - 1) \in Seq(Contents)
    OBVIOUS
  <2>3. \A q \in Seq(Contents) : r \o Append(q, bytes[n]) = Append(r \o q, bytes[n])
    BY <1>2
  <2>4. QED
    BY <2>1, <2>2, <2>3
<1> DEFINE T == {n \in 0 .. N : Cut(f[n], n)}
<1>7. 0 \in T
  <2>1. c = [c EXCEPT !.heard = c.heard, !.segment = c.segment]
    BY DEF SegmentCalls, Calls
  <2> HIDE DEF Part
  <2>2. QED
    BY <1>1, <1>2, <1>4, <2>1
<1>8. ASSUME NEW n \in 1 .. N, n - 1 \in T PROVE n \in T
  <2> DEFINE d == f[n - 1]  e == f[n]
  <2>1. d \in SegmentCalls /\ e = Eat(d, bytes[n]) /\ Cut(d, n - 1) /\ n - 1 \in 0 .. N /\ bytes[n] \in Contents
    BY <1>1, <1>2, <1>8
  <2> HIDE DEF Part, d, e, N
  <2>2. Part(n - 1) \in Seq(Contents) /\ CutSoFar(d.heard, d.segment, Part(n - 1))
    BY <1>3, <2>1
  <2>3. /\ e = [d EXCEPT !.heard = e.heard, !.segment = e.segment]
        /\ CutSoFar(e.heard, e.segment, Append(Part(n - 1), bytes[n]))
    BY <2>1, <2>2, EatIs
  <2>4. Append(Part(n - 1), bytes[n]) = Part(n)
    BY <1>6
  <2>5. e = [c EXCEPT !.heard = e.heard, !.segment = e.segment]
    BY <2>1, <2>3 DEF SegmentCalls, Calls
  <2>6. n \in 0 .. N
    BY <1>2
  <2>7. QED
    BY <2>3, <2>4, <2>5, <2>6 DEF e
<1>9. 0 .. N \subseteq T
  <2> HIDE DEF T, N
  <2>1. QED
    BY <1>2, <1>7, <1>8, UpToN
<1>10. f[N] \in SegmentCalls /\ Cut(f[N], N)
  <2> HIDE DEF Part
  <2>1. N \in T
    <3> HIDE DEF T, N
    <3>1. QED
      BY <1>2, <1>9
  <2>2. QED
    BY <1>1, <2>1
<1>11. QED
  BY <1>1, <1>5, <1>10

CallTyped ==
    /\ child \in [todo : Seq(Units), state : {"none", "running", "ended", "killed"}, ok : BOOLEAN]
    /\ pipe \in [{"out", "err"} -> [held : Seq(Contents), open : BOOLEAN]]
    /\ call \in Calls(IF call.kind = "segments" THEN Seq(Contents) ELSE Contents)
    /\ call.kind # "segments" => call.segment = << >>

\* What a call has made of what it read from a pipe.
Told(s, read) ==
    /\ s = "err" => call.tail = Latest(TailLines, Good(read))
    /\ s = "out" /\ call.kind = "stdout" => call.heard = Good(read)
    /\ s = "out" /\ call.kind = "segments" =>
         IF pipe[s].open THEN CutSoFar(call.heard, call.segment, read)
         ELSE CutInto(call.heard, read)

\* A pipe holds what was written to it and not read yet.
ReadsAs(s, done, read) ==
    /\ Of(s, done) = read \o pipe[s].held
    /\ Told(s, read)
    /\ ~pipe[s].open => Dead /\ pipe[s].held = << >>
    /\ call.kind = "piped" => \A i \in DOMAIN pipe[s].held : pipe[s].held[i] # "bad"
Reads(s, done) == \E read \in Seq(Contents) : ReadsAs(s, done, read)

\* Of a legible call nothing is lost: all that was written is held or told.
KeepsAs(done) ==
    /\ call.script = done \o child.todo
    /\ child.state \in {"running", "ended"}
    /\ child.state = "ended" => child.todo = << >>
    /\ \A s \in {"out", "err"} : Wanted(s) => Reads(s, done)
Keeps == \E done \in Seq(Units) : KeepsAs(done)

Telling ==
    /\ call.phase = "idle" => call = NoCall /\ child.state = "none" /\ \A s \in {"out", "err"} : pipe[s] = NewPipe
    /\ call.phase = "running" =>
         /\ child.state # "none"
         /\ call.kind = "piped" => call.shown = call.lines
         /\ Legible => Keeps
    /\ call.phase = "returned" => Dead /\ Joined /\ TellsTheChild
CallInv == CallTyped /\ Telling

LEMMA CallInvInit == SubprocessInit => CallInv
<1> SUFFICES ASSUME SubprocessInit PROVE CallInv
  OBVIOUS
<1>1. \A S : << >> \in Seq(S)
  OBVIOUS
<1>2. NoCall \in Calls(Contents) /\ NoCall.phase = "idle" /\ NoCall.kind = "" /\ NoCall.segment = << >>
  BY <1>1 DEF NoCall, Calls
<1>3. CallTyped
  BY <1>1, <1>2 DEF SubprocessInit, CallTyped, NewPipe
<1>4. QED
  BY <1>2, <1>3 DEF SubprocessInit, Telling, CallInv

LEMMA ScriptTyped == \A script \in Scripts : script \in Seq(Units)
<1> TAKE script \in Scripts
<1>1. script \in Seq({script[i] : i \in DOMAIN script}) /\ {script[i] : i \in DOMAIN script} \subseteq Units
  BY SubprocessAssumption DEF Units
<1>2. QED
  BY <1>1

LEMMA SpawnTells == ASSUME CallInv, Spawn PROVE CallInv'
<1>1. PICK script \in Scripts, kind \in {"piped", "stdout", "segments"}, verbose \in BOOLEAN, ok \in BOOLEAN :
         /\ call' = [NoCall EXCEPT !.kind = kind, !.verbose = verbose, !.phase = "running", !.script = script]
         /\ child' = [todo |-> script, state |-> "running", ok |-> ok]
  BY DEF Spawn
<1>2. /\ \A s \in {"out", "err"} : pipe[s] = NewPipe
      /\ pipe' = pipe
  BY DEF Spawn, CallInv, Telling
<1>3. script \in Seq(Units) /\ \A S : << >> \in Seq(S)
  BY ScriptTyped
<1>4. /\ call'.kind = kind /\ call'.phase = "running" /\ call'.script = script /\ call'.tail = << >>
      /\ call'.heard = << >> /\ call'.segment = << >> /\ call'.shown = call'.lines
  BY <1>1 DEF NoCall
<1>5. call' \in Calls(IF kind = "segments" THEN Seq(Contents) ELSE Contents)
  <2> DEFINE H == IF kind = "segments" THEN Seq(Contents) ELSE Contents
  <2>1. << >> \in Seq(H) /\ << >> \in Seq(Contents)
    BY <1>3
  <2> HIDE DEF H
  <2>2. call' \in Calls(H)
    <3>1. call' = [kind |-> kind, verbose |-> verbose, phase |-> "running", script |-> script, tail |-> << >>,
                   segment |-> << >>, heard |-> << >>, shown |-> 0, lines |-> 0, ok |-> FALSE]
      BY <1>1 DEF NoCall
    <3>2. script \in Seq(Units) /\ << >> \in Seq(H) /\ << >> \in Seq(Contents) /\ 0 \in Int
      BY <1>3, <2>1
    <3>3. QED
      BY <3>1, <3>2 DEF Calls
  <2>3. QED
    BY <2>2 DEF H
<1>6. CallTyped'
  BY <1>1, <1>2, <1>3, <1>4, <1>5 DEF CallTyped, CallInv
<1>7. Keeps'
  <2>1. script = << >> \o script /\ << >> \o << >> = << >>
    BY <1>3
  <2>2. ASSUME NEW s \in {"out", "err"} PROVE Reads(s, << >>)'
    <3>1. Of(s, << >>) = << >> /\ Good(<< >>) = << >>
      BY PickedNone DEF Of, Good
    <3>2. Latest(TailLines, << >>) = << >>
      BY SubprocessAssumption DEF Latest
    <3>3. pipe'[s].held = << >> /\ pipe'[s].open
      BY <1>2 DEF NewPipe
    <3>4. Told(s, << >>)'
      BY <1>4, <3>1, <3>2, <3>3, CutNothing DEF Told
    <3>5. \A i : i \notin DOMAIN pipe'[s].held
      BY <3>3
    <3>6. << >> \in Seq(Contents) /\ Of(s, << >>) = << >> \o pipe'[s].held
      BY <1>3, <2>1, <3>1, <3>3
    <3>7. QED
      BY <3>3, <3>4, <3>5, <3>6 DEF Reads, ReadsAs
  <2>3. child'.state = "running" /\ child'.todo = script
    BY <1>1
  <2>4. QED
    BY <1>3, <1>4, <2>1, <2>2, <2>3 DEF Keeps, KeepsAs
<1>8. QED
  BY <1>1, <1>4, <1>6, <1>7 DEF Telling, CallInv

\* What is left to write comes from the script.
LEMMA NextUnit ==
    ASSUME NEW done \in Seq(Units), NEW todo \in Seq(Units), todo # << >>
    PROVE  /\ Head(todo) \in Units /\ Tail(todo) \in Seq(Units)
           /\ done \o todo = Append(done, Head(todo)) \o Tail(todo)
           /\ Len(done) + 1 \in DOMAIN (done \o todo) /\ (done \o todo)[Len(done) + 1] = Head(todo)
  OBVIOUS

LEMMA UnitStreams == \A u \in Units : u[1] \in {"out", "err"} /\ u[2] \in Contents
  BY SubprocessAssumption DEF Units, Contents

LEMMA Writes ==
    ASSUME NEW u \in Units, NEW q \in Seq(Contents), NEW p \in Seq(Contents)
    PROVE  /\ Append(q, u[2]) \in Seq(Contents) /\ Append(p \o q, u[2]) = p \o Append(q, u[2])
           /\ \A i \in DOMAIN Append(q, u[2]) :
                Append(q, u[2])[i] = u[2] \/ (i \in DOMAIN q /\ Append(q, u[2])[i] = q[i])
<1>1. u[2] \in Contents
  BY UnitStreams
<1>2. QED
  BY <1>1

LEMMA WriteTells == ASSUME CallInv, Write PROVE CallInv'
<1>1. child.state = "running" /\ child.todo # << >> /\ call' = call /\ child.todo \in Seq(Units)
  BY DEF Write, CanWrite, CallInv, CallTyped
<1>u. PICK u \in Units : u = Head(child.todo)
  BY <1>1, NextUnit
<1>x. PICK x \in Contents : x = u[2]
  BY UnitStreams
<1>2. u \in Units /\ Tail(child.todo) \in Seq(Units) /\ Into = u[1] /\ u[1] \in {"out", "err"} /\ x \in Contents
  BY <1>1, <1>u, NextUnit, UnitStreams DEF Into
<1>a. \/ /\ child' = [child EXCEPT !.todo = Tail(@)] /\ (Wanted(u[1]) => pipe[u[1]].open)
         /\ pipe' = IF Wanted(u[1]) THEN [pipe EXCEPT ![u[1]].held = Append(@, x)] ELSE pipe
      \/ /\ Wanted(u[1]) /\ ~pipe[u[1]].open
         /\ child' = [child EXCEPT !.state = "killed", !.ok = FALSE] /\ pipe' = pipe
  <2>1. Into = u[1] /\ Head(child.todo)[2] = x
    BY <1>u, <1>x DEF Into
  <2>2. QED
    BY <2>1 DEF Write
<1>b. Append(pipe[u[1]].held, x) \in Seq(Contents) /\ pipe[u[1]].held \in Seq(Contents)
  <2>1. pipe[u[1]].held \in Seq(Contents)
    BY <1>2 DEF CallInv, CallTyped
  <2>2. QED
    BY <1>2, <2>1
<1>c. Tail(child.todo) \in Seq(Units) /\ \A done \in Seq(Units) :
        /\ done \o child.todo = Append(done, u) \o Tail(child.todo)
        /\ Append(done, u) \in Seq(Units)
        /\ Len(done) + 1 \in DOMAIN (done \o child.todo) /\ (done \o child.todo)[Len(done) + 1] = u
        /\ \A s : Of(s, Append(done, u)) = IF u[1] = s THEN Append(Of(s, done), x) ELSE Of(s, done)
  <2>1. \A done \in Seq(Units) :
        /\ done \o child.todo = Append(done, u) \o Tail(child.todo)
        /\ Append(done, u) \in Seq(Units)
        /\ Len(done) + 1 \in DOMAIN (done \o child.todo) /\ (done \o child.todo)[Len(done) + 1] = u
    <3>1. \A todo \in Seq(Units) : todo # << >> => \A done \in Seq(Units) :
            /\ done \o todo = Append(done, Head(todo)) \o Tail(todo)
            /\ Len(done) + 1 \in DOMAIN (done \o todo) /\ (done \o todo)[Len(done) + 1] = Head(todo)
      BY NextUnit
    <3>2. \A done \in Seq(Units) : Append(done, u) \in Seq(Units)
      OBVIOUS
    <3>3. QED
      BY <1>1, <1>u, <3>1, <3>2
  <2>2. ASSUME NEW done \in Seq(Units), NEW s
        PROVE  Of(s, Append(done, u)) = IF u[1] = s THEN Append(Of(s, done), x) ELSE Of(s, done)
    <3>1. Of(s, Append(done, u)) = IF u[1] = s THEN Append(Of(s, done), u[2]) ELSE Of(s, done)
      BY OfAppend
    <3>2. QED
      BY <1>x, <3>1
  <2>3. QED
    BY <1>2, <2>1, <2>2
<1>3. call.phase = "running"
  BY <1>1 DEF CallInv, Telling, CallTyped, Calls, Dead
<1>4. CallTyped'
  <2>1. child' \in [todo : Seq(Units), state : {"none", "running", "ended", "killed"}, ok : BOOLEAN]
    BY <1>a, <1>c DEF CallInv, CallTyped
  <2>2. pipe' \in [{"out", "err"} -> [held : Seq(Contents), open : BOOLEAN]]
    <3> DEFINE s == u[1]  held == Append(pipe[s].held, x)
    <3>1. s \in {"out", "err"} /\ held \in Seq(Contents)
      BY <1>2, <1>b
    <3>2. pipe' = pipe \/ pipe' = [pipe EXCEPT ![s].held = held]
      BY <1>a
    <3> HIDE DEF s, held
    <3>3. pipe \in [{"out", "err"} -> [held : Seq(Contents), open : BOOLEAN]]
      BY DEF CallInv, CallTyped
    <3>4. [pipe[s] EXCEPT !.held = held] \in [held : Seq(Contents), open : BOOLEAN]
      BY <3>1, <3>3
    <3>5. QED
      BY <3>1, <3>2, <3>3, <3>4
  <2>3. QED
    BY <1>1, <2>1, <2>2 DEF CallInv, CallTyped
<1>5. child'.state # "none"
  BY <1>1, <1>a DEF CallInv, CallTyped
<1>6. ASSUME Legible PROVE Keeps'
  <2>1. PICK done \in Seq(Units) : KeepsAs(done)
    BY <1>3, <1>6 DEF CallInv, Telling, Keeps
  <2>2. Wanted(u[1]) => pipe[u[1]].open
    BY <1>1, <1>2, <2>1 DEF KeepsAs, Reads, ReadsAs, Dead
  <2>3. /\ child' = [child EXCEPT !.todo = Tail(@)]
        /\ pipe' = IF Wanted(u[1]) THEN [pipe EXCEPT ![u[1]].held = Append(@, x)] ELSE pipe
    BY <1>a, <2>2
  <2>4. child'.state = "running" /\ child'.todo = Tail(child.todo)
    BY <1>1, <2>3 DEF CallInv, CallTyped
  <2>c. PICK after \in Seq(Units) : after = Append(done, u)
    BY <1>c
  <2>5. after \in Seq(Units) /\ call.script = after \o child'.todo
    BY <1>c, <2>1, <2>4, <2>c DEF KeepsAs
  <2>a. \A s : Of(s, after) = IF u[1] = s THEN Append(Of(s, done), x) ELSE Of(s, done)
    BY <1>c, <2>c
  <2>b. Len(done) + 1 \in DOMAIN call.script /\ call.script[Len(done) + 1] = u
    BY <1>c, <2>1 DEF KeepsAs
  <2>6. ASSUME NEW s \in {"out", "err"}, Wanted(s)' PROVE Reads(s, after)'
    <3>1. Wanted(s)
      BY <1>1, <2>6 DEF Wanted
    <3>2. PICK read \in Seq(Contents) : ReadsAs(s, done, read)
      BY <2>1, <3>1 DEF KeepsAs, Reads
    <3>3. pipe[s].open /\ pipe[s].held \in Seq(Contents) /\ pipe'[s].open
      <4>1. pipe[s].open /\ pipe[s].held \in Seq(Contents)
        BY <1>1, <3>2 DEF CallInv, CallTyped, Dead, ReadsAs
      <4>2. QED
        BY <1>2, <2>3, <4>1 DEF CallInv, CallTyped
    <3>4. Told(s, read)'
      BY <1>1, <3>2, <3>3 DEF Told, ReadsAs
    <3>5. CASE u[1] = s
      <4>1. pipe'[s].held = Append(pipe[s].held, x)
        BY <1>2, <2>3, <3>1, <3>5 DEF CallInv, CallTyped
      <4>2. Of(s, after) = Append(Of(s, done), x)
        BY <2>a, <3>5
      <4>3. Of(s, after) = read \o pipe'[s].held
        <5>1. Append(read \o pipe[s].held, x) = read \o Append(pipe[s].held, x)
          BY <1>x, <3>3, Writes
        <5>2. QED
          BY <3>2, <4>1, <4>2, <5>1 DEF ReadsAs
      <4>4. call.kind = "piped" => x # "bad"
        BY <1>6, <1>x, <2>b, <3>1, <3>5 DEF Legible
      <4>5. call.kind = "piped" => \A i \in DOMAIN pipe'[s].held : pipe'[s].held[i] # "bad"
        <5>1. \A i \in DOMAIN pipe'[s].held : pipe'[s].held[i] = x
                \/ (i \in DOMAIN pipe[s].held /\ pipe'[s].held[i] = pipe[s].held[i])
          BY <1>x, <3>3, <4>1, Writes
        <5>2. QED
          BY <3>2, <4>4, <5>1 DEF ReadsAs
      <4>6. QED
        <5>1. ReadsAs(s, after, read)'
          BY <1>1, <3>3, <3>4, <4>3, <4>5 DEF ReadsAs
        <5>2. QED
          BY <5>1 DEF Reads
    <3>6. CASE u[1] # s
      <4>1. pipe'[s] = pipe[s]
        BY <1>2, <2>3, <3>6 DEF CallInv, CallTyped
      <4>2. Of(s, after) = Of(s, done)
        BY <2>a, <3>6
      <4>3. QED
        <5>1. ReadsAs(s, after, read)'
          BY <1>1, <3>2, <3>3, <3>4, <4>1, <4>2 DEF ReadsAs
        <5>2. QED
          BY <5>1 DEF Reads
    <3>7. QED
      BY <3>5, <3>6
  <2>7. QED
    <3>1. call'.script = after \o child'.todo /\ child'.state \in {"running", "ended"} /\ child'.state # "ended"
      BY <1>1, <2>4, <2>5
    <3>2. KeepsAs(after)'
      BY <2>5, <2>6, <3>1 DEF KeepsAs
    <3>3. QED
      BY <2>5, <3>2 DEF Keeps
<1>7. Legible' <=> Legible
  BY <1>1 DEF Legible, Wanted
<1>8. QED
  BY <1>1, <1>3, <1>4, <1>5, <1>6, <1>7 DEF CallInv, Telling

LEMMA ExitTells == ASSUME CallInv, Exit PROVE CallInv'
<1>1. child.state = "running" /\ child.todo = << >> /\ pipe' = pipe /\ call' = call
      /\ child'.state = "ended" /\ child'.todo = << >>
  BY DEF Exit, CallInv, CallTyped
<1>2. CallTyped'
  BY <1>1 DEF Exit, CallInv, CallTyped
<1>3. call.phase = "running"
  BY <1>1 DEF CallInv, Telling, CallTyped, Calls, Dead
<1>4. ASSUME Legible PROVE Keeps'
  <2>1. PICK done \in Seq(Units) : KeepsAs(done)
    BY <1>3, <1>4 DEF CallInv, Telling, Keeps
  <2>2. \A s \in {"out", "err"} : Wanted(s)' => Reads(s, done)'
    BY <1>1, <2>1 DEF Wanted, KeepsAs, Reads, ReadsAs, Told, Dead
  <2>3. KeepsAs(done)'
    BY <1>1, <2>1, <2>2 DEF KeepsAs
  <2>4. QED
    BY <2>3 DEF Keeps
<1>5. QED
  BY <1>1, <1>2, <1>3, <1>4 DEF CallInv, Telling, Legible, Wanted

\* The first n units of what a pipe holds are read.
LEMMA Takes ==
    ASSUME NEW p \in Seq(Contents), NEW q \in Seq(Contents), NEW n \in 1 .. Len(q)
    PROVE  /\ SubSeq(q, 1, n) \in Seq(Contents) /\ SubSeq(q, n + 1, Len(q)) \in Seq(Contents)
           /\ p \o q = (p \o SubSeq(q, 1, n)) \o SubSeq(q, n + 1, Len(q))
           /\ p \o SubSeq(q, 1, n) \in Seq(Contents)
           /\ \A i \in DOMAIN SubSeq(q, n + 1, Len(q)) :
                \E k \in DOMAIN q : SubSeq(q, n + 1, Len(q))[i] = q[k]
<1> DEFINE a == SubSeq(q, 1, n)  b == SubSeq(q, n + 1, Len(q))
<1>1. a \in Seq(Contents) /\ Len(a) = n /\ \A i \in 1 .. n : a[i] = q[i]
  OBVIOUS
<1>2. b \in Seq(Contents) /\ Len(b) = Len(q) - n /\ \A i \in 1 .. Len(b) : b[i] = q[n + i]
  OBVIOUS
<1> HIDE DEF a, b
<1>3. q = a \o b
  BY ConcatAdjacentSubSeq, SubSeqFull DEF a, b
<1>4. p \o (a \o b) = (p \o a) \o b /\ p \o a \in Seq(Contents)
  BY <1>1, <1>2
<1>5. \A i \in DOMAIN b : n + i \in DOMAIN q
  BY <1>2
<1>6. p \o q = (p \o a) \o b
  BY <1>3, <1>4
<1>7. \A i \in DOMAIN b : \E k \in DOMAIN q : b[i] = q[k]
  BY <1>2, <1>5
<1>8. QED
  BY <1>1, <1>2, <1>4, <1>6, <1>7 DEF a, b

LEMMA TakesOne ==
    ASSUME NEW q \in Seq(Contents), q # << >>, NEW p \in Seq(Contents)
    PROVE  1 \in 1 .. Len(q) /\ Head(q) \in Contents /\ p \o SubSeq(q, 1, 1) = Append(p, Head(q))
  OBVIOUS

\* What a read of pipe s leaves of the other, and of the call.
Elsewhere(s) ==
    /\ child' = child /\ CallTyped'
    /\ call'.kind = call.kind /\ call'.verbose = call.verbose
    /\ call'.phase = call.phase /\ call'.script = call.script
    /\ call.kind = "piped" /\ call.shown = call.lines => call'.shown = call'.lines
    /\ s = "err" => call'.heard = call.heard /\ call'.segment = call.segment /\ pipe'["out"] = pipe["out"]
    /\ s = "out" => call'.tail = call.tail /\ pipe'["err"] = pipe["err"]
\* A legible call reads n units of pipe s and tells them.
TellsMore(s, n) ==
    /\ n \in 1 .. Len(pipe[s].held)
    /\ pipe'[s].held = SubSeq(pipe[s].held, n + 1, Len(pipe[s].held)) /\ pipe'[s].open
    /\ \A read \in Seq(Contents) : 
        \A more \in Seq(Contents) : more = read \o SubSeq(pipe[s].held, 1, n) => (Told(s, read) => Told(s, more)')

\* There is something to read only while the call runs.
LEMMA ReadsWhileRunning ==
    ASSUME CallInv, NEW s \in {"out", "err"}, MayRead(s), pipe[s].held # << >> \/ Dead
    PROVE  call.phase = "running" /\ Wanted(s) /\ pipe[s].open
<1>1. call.phase \in {"idle", "running", "returned"}
  BY DEF CallInv, CallTyped, Calls
<1>2. Wanted(s) /\ pipe[s].open
  BY DEF MayRead
<1>3. call.phase # "idle"
  BY DEF CallInv, Telling, NewPipe, Dead
<1>4. call.phase # "returned"
  BY <1>2 DEF CallInv, Telling, Joined
<1>5. QED
  BY <1>1, <1>2, <1>3, <1>4

LEMMA HeldIsGood ==
    ASSUME CallInv, call.phase = "running", Legible, call.kind = "piped",
           NEW s \in {"out", "err"}, Wanted(s), pipe[s].held # << >>
    PROVE  Head(pipe[s].held) # "bad"
<1>1. PICK done \in Seq(Units) : KeepsAs(done)
  BY DEF CallInv, Telling, Keeps
<1>2. \A i \in DOMAIN pipe[s].held : pipe[s].held[i] # "bad"
  BY <1>1 DEF KeepsAs, Reads, ReadsAs
<1>3. pipe[s].held \in Seq(Contents)
  BY DEF CallInv, CallTyped
<1>4. QED
  BY <1>2, <1>3

LEMMA ReadTells ==
    ASSUME CallInv, call.phase = "running", NEW s \in {"out", "err"}, Wanted(s), pipe[s].open,
           Elsewhere(s), Legible => \E n \in Nat : TellsMore(s, n)
    PROVE  CallInv'
<1>1. ASSUME Legible PROVE Keeps'
  <2>1. PICK done \in Seq(Units) : KeepsAs(done)
    BY <1>1 DEF CallInv, Telling, Keeps
  <2>2. PICK n \in Nat : TellsMore(s, n)
    BY <1>1
  <2>3. ASSUME NEW o \in {"out", "err"}, Wanted(o)' PROVE Reads(o, done)'
    <3>1. Wanted(o)
      BY <2>3 DEF Wanted, Elsewhere
    <3>2. PICK read \in Seq(Contents) : ReadsAs(o, done, read)
      BY <2>1, <3>1 DEF KeepsAs, Reads
    <3>3. CASE o = s
      <4>1. pipe[s].held \in Seq(Contents) /\ n \in 1 .. Len(pipe[s].held)
        BY <2>2 DEF TellsMore, CallInv, CallTyped
      <4>2. PICK more \in Seq(Contents) : more = read \o SubSeq(pipe[s].held, 1, n)
        BY <4>1, Takes
      <4>3. read \o pipe[s].held = more \o pipe'[s].held
        <5>1. read \o pipe[s].held = more \o SubSeq(pipe[s].held, n + 1, Len(pipe[s].held))
          BY <4>1, <4>2, Takes
        <5>2. QED
          BY <2>2, <5>1 DEF TellsMore
      <4>4. Told(s, more)'
        BY <2>2, <3>2, <3>3, <4>2 DEF TellsMore, ReadsAs
      <4>5. call.kind = "piped" => \A i \in DOMAIN pipe'[s].held : pipe'[s].held[i] # "bad"
        <5>1. \A i \in DOMAIN pipe'[s].held : \E k \in DOMAIN pipe[s].held : pipe'[s].held[i] = pipe[s].held[k]
          BY <2>2, <4>1, Takes DEF TellsMore
        <5>2. QED
          BY <3>2, <3>3, <5>1 DEF ReadsAs
      <4>6. ReadsAs(s, done, more)'
        BY <2>2, <3>2, <3>3, <4>3, <4>4, <4>5 DEF ReadsAs, TellsMore, Elsewhere
      <4>7. QED
        BY <3>3, <4>6 DEF Reads
    <3>4. CASE o # s
      <4>1. pipe'[o] = pipe[o]
        BY <3>4 DEF Elsewhere
      <4>2. Told(o, read)'
        BY <3>2, <3>4, <4>1 DEF Elsewhere, Told, ReadsAs
      <4>3. ReadsAs(o, done, read)'
        BY <3>2, <4>1, <4>2 DEF ReadsAs, Elsewhere, Dead
      <4>4. QED
        BY <4>3 DEF Reads
    <3>5. QED
      BY <3>3, <3>4
  <2>4. KeepsAs(done)'
    BY <2>1, <2>3 DEF KeepsAs, Elsewhere
  <2>5. QED
    BY <2>4 DEF Keeps
<1>2. Legible' <=> Legible
  BY DEF Elsewhere, Legible, Wanted
<1>3. QED
  BY <1>1, <1>2 DEF CallInv, Telling, Elsewhere

LEMMA PushedTyped ==
    ASSUME NEW S, NEW tail \in Seq(S), NEW x \in S
    PROVE  Pushed(tail, x) \in Seq(S)
<1> DEFINE longer == Append(tail, x)
<1>1. longer \in Seq(S) /\ longer # << >>
  BY AppendProperties
<1> HIDE DEF longer
<1>2. Tail(longer) \in Seq(S)
  BY <1>1
<1>3. QED
  BY <1>1, <1>2 DEF Pushed, longer

\* d is c, with more lines shown and counted.
ShowsMore(c, d) ==
    /\ d = [c EXCEPT !.shown = d.shown, !.lines = d.lines]
    /\ c.shown = c.lines => d.shown = d.lines

LEMMA EmittedTyped ==
    ASSUME NEW H, NEW c \in Calls(H), NEW line
    PROVE  Emitted(c, line) \in Calls(H) /\ ShowsMore(c, Emitted(c, line))
<1> USE DEF ShowsMore
<1>1. CASE c.kind # "piped" \/ ~Shows(c, line)
  BY <1>1 DEF Emitted, Counts, Calls
<1>2. CASE c.kind = "piped" /\ Shows(c, line)
  <2>a. c.shown \in Int /\ c.lines \in Int
    BY DEF Calls
  <2>1. PICK n \in Int, m \in Int : n = c.shown + 1 /\ m = c.lines + 1
    BY <2>a
  <2>2. Emitted(c, line) = [c EXCEPT !.shown = n, !.lines = m]
    BY <1>2, <2>1 DEF Emitted, Counts
  <2>3. Emitted(c, line).shown = n /\ Emitted(c, line).lines = m /\ Emitted(c, line) \in Calls(H)
    BY <2>2 DEF Calls
  <2>4. c.shown = c.lines => n = m
    BY <2>1
  <2>5. QED
    BY <2>2, <2>3, <2>4
<1>3. QED
  BY <1>1, <1>2

LEMMA ReadErrTells == ASSUME CallInv, ReadErr PROVE CallInv'
<1>1. call.phase = "running" /\ Wanted("err") /\ pipe["err"].open /\ child' = child
      /\ pipe["err"].held # << >> /\ pipe["err"].held \in Seq(Contents)
  BY ReadsWhileRunning DEF ReadErr, CallInv, CallTyped
<1>2. PICK line \in Contents : line = Head(pipe["err"].held)
  BY <1>1, TakesOne
<1>3. pipe["err"] = [held |-> pipe["err"].held, open |-> TRUE]
  BY <1>1 DEF CallInv, CallTyped
<1>t. SubSeq(pipe["err"].held, 2, Len(pipe["err"].held)) \in Seq(Contents) /\ 1 + 1 = 2
  BY <1>1
<1>4. CASE Took("err", 1)
  <2>1. /\ pipe' \in [{"out", "err"} -> [held : Seq(Contents), open : BOOLEAN]]
        /\ pipe'["out"] = pipe["out"] /\ pipe'["err"].open
        /\ pipe'["err"].held = SubSeq(pipe["err"].held, 2, Len(pipe["err"].held))
    BY <1>1, <1>t, <1>4 DEF Took, CallInv, CallTyped
  <2>2. \/ line = "bad" /\ call' = call
        \/ line # "bad" /\ call' = [Emitted(call, line) EXCEPT !.tail = Pushed(@, line)]
    BY <1>2 DEF ReadErr
  <2>3. Elsewhere("err") /\ call'.tail = IF line = "bad" THEN call.tail ELSE Pushed(call.tail, line)
    <3>1. Pushed(call.tail, line) \in Seq(Contents)
      BY PushedTyped DEF CallInv, CallTyped, Calls
    <3> DEFINE told == IF line = "bad" THEN call ELSE Emitted(call, line)
               tail == IF line = "bad" THEN call.tail ELSE Pushed(call.tail, line)
               H == IF call.kind = "segments" THEN Seq(Contents) ELSE Contents
    <3>2. call' = [told EXCEPT !.tail = tail] /\ tail \in Seq(Contents)
      BY <2>2, <3>1 DEF Emitted, CallInv, CallTyped, Calls
    <3> HIDE DEF tail, H
    <3>3. call \in Calls(H)
      BY DEF H, CallInv, CallTyped
    <3>4. told \in Calls(H) /\ ShowsMore(call, told)
      <4>1. CASE line = "bad"
        BY <3>3, <4>1 DEF Calls, ShowsMore
      <4>2. CASE line # "bad"
        <5>1. told = Emitted(call, line)
          BY <4>2
        <5>2. QED
          BY <3>3, <5>1, EmittedTyped
      <4>3. QED
        BY <4>1, <4>2
    <3> HIDE DEF told
    <3>5. call' \in Calls(H) /\ call'.tail = tail /\ (call.shown = call.lines => call'.shown = call'.lines)
          /\ call' = [call EXCEPT !.shown = call'.shown, !.lines = call'.lines, !.tail = tail]
      BY <3>2, <3>3, <3>4 DEF Calls, ShowsMore
    <3>6. QED
      BY <1>1, <2>1, <3>3, <3>5 DEF Elsewhere, CallInv, CallTyped, Calls, H, tail
  <2>4. ASSUME NEW read \in Seq(Contents), Told("err", read),
               NEW more \in Seq(Contents), more = read \o SubSeq(pipe["err"].held, 1, 1)
        PROVE  Told("err", more)'
    <3>1. more = Append(read, line)
      BY <1>1, <1>2, <2>4, TakesOne
    <3>3. Good(read) \in Seq(Contents)
          /\ Good(more) = IF line = "bad" THEN Good(read) ELSE Append(Good(read), line)
      BY <3>1, GoodAppend
    <3>4. call'.tail = Latest(TailLines, Good(more))
      BY <2>3, <2>4, <3>3, LatestPushed DEF Told
    <3>5. QED
      BY <3>4 DEF Told
  <2>5. TellsMore("err", 1)
    BY <1>1, <1>t, <2>1, <2>4, TakesOne DEF TellsMore
  <2>6. QED
    BY <1>1, <2>3, <2>5, ReadTells
<1>5. CASE Closed("err") /\ ~Took("err", 1)
  <2>1. line = "bad" /\ call.kind = "piped" /\ call' = call
    BY <1>2, <1>5 DEF ReadErr
  <2>2. ~Legible
    BY <1>1, <1>2, <2>1, HeldIsGood
  <2>3. pipe' \in [{"out", "err"} -> [held : Seq(Contents), open : BOOLEAN]] /\ pipe'["out"] = pipe["out"]
    BY <1>1, <1>5 DEF Closed, CallInv, CallTyped
  <2>4. Elsewhere("err")
    BY <1>1, <2>1, <2>3 DEF Elsewhere, CallInv, CallTyped
  <2>5. QED
    BY <1>1, <2>2, <2>4, ReadTells
<1>6. QED
  BY <1>4, <1>5 DEF ReadErr

LEMMA ReadOutTells == ASSUME CallInv, ReadOut PROVE CallInv'
<1>1. call.phase = "running" /\ Wanted("out") /\ pipe["out"].open /\ child' = child
      /\ pipe["out"].held # << >> /\ pipe["out"].held \in Seq(Contents)
  BY ReadsWhileRunning DEF ReadOut, CallInv, CallTyped
<1>2. PICK line \in Contents : line = Head(pipe["out"].held)
  BY <1>1, TakesOne
<1>p. PICK held \in Seq(Contents) : held = pipe["out"].held
  BY <1>1
<1>3. ASSUME NEW n \in 1 .. Len(held), Took("out", n)
      PROVE  /\ pipe' \in [{"out", "err"} -> [held : Seq(Contents), open : BOOLEAN]]
             /\ pipe'["err"] = pipe["err"] /\ pipe'["out"].open
             /\ pipe'["out"].held = SubSeq(held, n + 1, Len(held))
  <2>a. SubSeq(held, n + 1, Len(held)) \in Seq(Contents)
    OBVIOUS
  <2>1. PICK left \in Seq(Contents) : left = SubSeq(held, n + 1, Len(held))
    BY <2>a
  <2>2. pipe["out"].open /\ pipe \in [{"out", "err"} -> [held : Seq(Contents), open : BOOLEAN]]
    BY <1>1 DEF CallInv, CallTyped
  <2>3. pipe' = [pipe EXCEPT !["out"].held = left]
    BY <1>3, <1>p, <2>1 DEF Took
  <2>4. /\ pipe' \in [{"out", "err"} -> [held : Seq(Contents), open : BOOLEAN]]
        /\ pipe'["err"] = pipe["err"] /\ pipe'["out"].open /\ pipe'["out"].held = left
    BY <2>2, <2>3
  <2>5. QED
    BY <2>1, <2>4
<1>4. CASE call.kind = "segments"
  <2>1. PICK n \in 1 .. Len(held) : Took("out", n) /\ call' = Eaten(call, SubSeq(held, 1, n))
    BY <1>1, <1>4, <1>p DEF ReadOut
  <2>2. PICK bytes \in Seq(Contents) : bytes = SubSeq(held, 1, n)
    BY Takes
  <2>3. call \in SegmentCalls /\ Legible
    BY <1>4 DEF CallInv, CallTyped, SegmentCalls, Legible
  <2>4. PICK read \in Seq(Contents) : CutSoFar(call.heard, call.segment, read)
    <3>1. PICK done \in Seq(Units) : KeepsAs(done)
      BY <1>1, <2>3 DEF CallInv, Telling, Keeps
    <3>2. PICK read \in Seq(Contents) : ReadsAs("out", done, read)
      BY <1>1, <3>1 DEF KeepsAs, Reads
    <3>3. QED
      BY <1>1, <1>4, <3>2 DEF ReadsAs, Told
  <2>5. call' \in SegmentCalls /\ call' = [call EXCEPT !.heard = call'.heard, !.segment = call'.segment]
    BY <2>1, <2>2, <2>3, <2>4, EatenCuts
  <2>6. Elsewhere("out")
    <3>1. call'.kind = "segments" /\ call'.verbose = call.verbose /\ call'.phase = call.phase
          /\ call'.script = call.script /\ call'.tail = call.tail
      BY <1>4, <2>3, <2>5 DEF SegmentCalls, Calls
    <3>2. CallTyped'
      BY <1>1, <1>3, <2>1, <2>5, <3>1 DEF CallInv, CallTyped, SegmentCalls
    <3>3. QED
      BY <1>1, <1>3, <1>4, <2>1, <3>1, <3>2 DEF Elsewhere
  <2>7. ASSUME NEW soFar \in Seq(Contents), NEW more \in Seq(Contents), more = soFar \o bytes, Told("out", soFar)
        PROVE  Told("out", more)'
    <3>1. CutSoFar(call.heard, call.segment, soFar)
      BY <1>1, <1>4, <2>7 DEF Told
    <3>2. CutSoFar(call'.heard, call'.segment, soFar \o bytes)
      BY <2>1, <2>2, <2>3, <3>1, EatenCuts
    <3>3. call'.kind = "segments" /\ pipe'["out"].open
      BY <1>3, <1>4, <2>1, <2>6 DEF Elsewhere
    <3>4. QED
      BY <2>7, <3>2, <3>3 DEF Told
  <2>8. TellsMore("out", n)
    BY <1>3, <1>p, <2>1, <2>2, <2>7 DEF TellsMore
  <2>9. QED
    BY <1>1, <2>6, <2>8, ReadTells
<1>5. CASE call.kind # "segments" /\ Took("out", 1)
  <2>1. 1 \in 1 .. Len(held)
    BY <1>1, <1>p, TakesOne
  <2>2. \/ line = "bad" /\ call' = call
        \/ line # "bad" /\ call' = IF call.kind = "piped" THEN Emitted(call, line)
                                    ELSE [call EXCEPT !.heard = Append(@, line)]
    BY <1>2, <1>5 DEF ReadOut
  <2>3. call \in Calls(Contents) /\ call.segment = << >>
    BY <1>5 DEF CallInv, CallTyped
  <2>4. Append(call.heard, line) \in Seq(Contents)
    <3>1. call.heard \in Seq(Contents)
      BY <2>3 DEF Calls
    <3>2. QED
      BY <3>1
  <2>5. /\ call' \in Calls(Contents) /\ call'.kind = call.kind /\ call'.verbose = call.verbose
        /\ call'.phase = call.phase /\ call'.script = call.script /\ call'.tail = call.tail
        /\ call'.segment = << >> /\ (call.shown = call.lines => call'.shown = call'.lines)
    <3>1. CASE call' = call
      BY <2>3, <3>1
    <3>2. CASE call' = Emitted(call, line)
      <4>1. call' \in Calls(Contents) /\ ShowsMore(call, call')
        BY <2>3, <3>2, EmittedTyped
      <4>2. QED
        BY <2>3, <4>1 DEF Calls, ShowsMore
    <3>3. CASE call' = [call EXCEPT !.heard = Append(@, line)]
      BY <2>3, <2>4, <3>3 DEF Calls
    <3>4. QED
      BY <2>2, <3>1, <3>2, <3>3
  <2>6. Elsewhere("out")
    BY <1>1, <1>3, <1>5, <2>1, <2>5 DEF Elsewhere, CallInv, CallTyped
  <2>7. ASSUME NEW soFar \in Seq(Contents), NEW more \in Seq(Contents), more = soFar \o SubSeq(held, 1, 1),
               Told("out", soFar)
        PROVE  Told("out", more)'
    <3>1. more = Append(soFar, line)
      BY <1>1, <1>2, <1>p, <2>7, TakesOne
    <3>2. Good(soFar) \in Seq(Contents)
          /\ Good(more) = IF line = "bad" THEN Good(soFar) ELSE Append(Good(soFar), line)
      BY <3>1, GoodAppend
    <3>3. call.kind = "stdout" => call'.heard = IF line = "bad" THEN call.heard ELSE Append(call.heard, line)
      BY <2>2, <2>3 DEF Calls
    <3>4. call'.kind = "stdout" => call'.heard = Good(more)
      BY <2>5, <2>7, <3>2, <3>3 DEF Told
    <3>5. QED
      BY <1>5, <2>5, <3>4 DEF Told
  <2>8. TellsMore("out", 1)
    BY <1>3, <1>5, <1>p, <2>1, <2>7 DEF TellsMore
  <2>9. QED
    BY <1>1, <2>6, <2>8, ReadTells
<1>6. CASE call.kind # "segments" /\ Closed("out") /\ ~Took("out", 1)
  <2>1. line = "bad" /\ call.kind = "piped" /\ call' = call
    BY <1>2, <1>6 DEF ReadOut
  <2>2. ~Legible
    BY <1>1, <1>2, <2>1, HeldIsGood
  <2>3. pipe' \in [{"out", "err"} -> [held : Seq(Contents), open : BOOLEAN]] /\ pipe'["err"] = pipe["err"]
    BY <1>1, <1>6 DEF Closed, CallInv, CallTyped
  <2>4. Elsewhere("out")
    BY <1>1, <2>1, <2>3 DEF Elsewhere, CallInv, CallTyped
  <2>5. QED
    BY <1>1, <2>2, <2>4, ReadTells
<1>7. QED
  BY <1>4, <1>5, <1>6 DEF ReadOut
LEMMA EndOfFileTells ==
    ASSUME CallInv, NEW s \in {"out", "err"}, EndOfFile(s) PROVE CallInv'
<1>1. call.phase = "running" /\ Wanted(s) /\ pipe[s].open /\ pipe[s].held = << >> /\ Dead /\ child' = child
  BY ReadsWhileRunning DEF EndOfFile
<1>2. /\ pipe' \in [{"out", "err"} -> [held : Seq(Contents), open : BOOLEAN]]
      /\ pipe'[s].held = << >> /\ ~pipe'[s].open
      /\ \A o \in {"out", "err"} \ {s} : pipe'[o] = pipe[o]
  <2>1. << >> \in Seq(Contents)
    OBVIOUS
  <2>2. QED
    BY <2>1 DEF EndOfFile, Closed, CallInv, CallTyped
<1> DEFINE H == IF call.kind = "segments" THEN Seq(Contents) ELSE Contents
<1>3. call \in Calls(H)
  BY DEF CallInv, CallTyped
<1>4. s = "out" /\ call.kind = "segments" => call'.heard = PartsOf(call.heard, call.segment)
  BY <1>3 DEF EndOfFile, Flushed, PartsOf, Calls
<1>5. s = "err" \/ call.kind # "segments" => call' = call
  BY DEF EndOfFile, Flushed, CallInv, CallTyped
<1>6. /\ CallTyped' /\ call'.kind = call.kind /\ call'.verbose = call.verbose /\ call'.tail = call.tail
      /\ call'.phase = call.phase /\ call'.script = call.script
      /\ call'.shown = call.shown /\ call'.lines = call.lines
  <2>1. CASE call' = call
    BY <1>1, <1>2, <2>1 DEF CallInv, CallTyped
  <2>2. CASE call' # call
    <3>1. s = "out" /\ call.kind = "segments" /\ call' = Flushed(call) /\ call.segment # << >>
      BY <1>5, <2>2 DEF EndOfFile, Flushed
    <3>2. call \in SegmentCalls /\ call.heard \in Seq(Seq(Contents)) /\ call.segment \in Seq(Contents)
      BY <3>1 DEF CallInv, CallTyped, Calls, SegmentCalls
    <3>a. Append(call.heard, call.segment) \in Seq(Seq(Contents))
      BY <3>2
    <3>3. PICK heard \in Seq(Seq(Contents)) : heard = Append(call.heard, call.segment)
      BY <3>a
    <3>4. call' = [call EXCEPT !.heard = heard, !.segment = << >>] /\ << >> \in Seq(Contents)
      BY <3>1, <3>3 DEF Flushed
    <3>5. call' \in SegmentCalls /\ call'.kind = "segments"
      BY <3>1, <3>2, <3>4 DEF SegmentCalls, Calls
    <3>6. CallTyped'
      BY <1>1, <1>2, <3>5 DEF CallInv, CallTyped, SegmentCalls
    <3>7. QED
      BY <3>1, <3>2, <3>4, <3>6 DEF SegmentCalls, Calls
  <2>3. QED
    BY <2>1, <2>2
<1>7. ASSUME Legible PROVE Keeps'
  <2>1. PICK done \in Seq(Units) : KeepsAs(done)
    BY <1>1, <1>7 DEF CallInv, Telling, Keeps
  <2>2. ASSUME NEW o \in {"out", "err"}, Wanted(o)' PROVE Reads(o, done)'
    <3>1. Wanted(o)
      BY <1>6, <2>2 DEF Wanted
    <3>2. PICK read \in Seq(Contents) : ReadsAs(o, done, read)
      BY <2>1, <3>1 DEF KeepsAs, Reads
    <3>3. o = "out" /\ call.kind = "segments" /\ o = s => CutInto(call'.heard, read)
      <4>1. SUFFICES ASSUME o = "out", call.kind = "segments", o = s PROVE CutInto(call'.heard, read)
        OBVIOUS
      <4>2. CutSoFar(call.heard, call.segment, read)
        BY <1>1, <3>2, <4>1 DEF ReadsAs, Told
      <4>3. call.heard \in Seq(Seq(Contents)) /\ call.segment \in Seq(Contents)
        BY <4>1 DEF CallInv, CallTyped, Calls
      <4>4. QED
        BY <1>4, <4>1, <4>2, <4>3, CutAtLast
    <3>4. o = s \/ pipe'[o] = pipe[o]
      BY <1>2
    <3>5. Told(o, read)'
      <4>1. o = "err" => call'.tail = Latest(TailLines, Good(read))
        BY <1>6, <3>2 DEF Told, ReadsAs
      <4>2. o = "out" /\ call'.kind = "stdout" => call'.heard = Good(read)
        BY <1>5, <1>6, <3>2 DEF Told, ReadsAs
      <4>3. o = "out" /\ call'.kind = "segments" =>
              IF pipe'[o].open THEN CutSoFar(call'.heard, call'.segment, read)
              ELSE CutInto(call'.heard, read)
        <5>1. CASE o = s
          BY <1>2, <1>6, <3>3, <5>1
        <5>2. CASE o # s
          <6>1. o = "out" => call' = call /\ pipe'[o] = pipe[o]
            BY <1>5, <3>4, <5>2
          <6>2. QED
            BY <3>2, <6>1 DEF Told, ReadsAs
        <5>3. QED
          BY <5>1, <5>2
      <4>4. QED
        BY <4>1, <4>2, <4>3 DEF Told
    <3>6. pipe'[o].held = pipe[o].held /\ (~pipe'[o].open => Dead' /\ pipe'[o].held = << >>)
      BY <1>1, <1>2, <3>2, <3>4 DEF ReadsAs, Dead
    <3>7. ReadsAs(o, done, read)'
      BY <1>6, <3>2, <3>5, <3>6 DEF ReadsAs
    <3>8. QED
      BY <3>7 DEF Reads
  <2>3. KeepsAs(done)'
    BY <1>1, <1>6, <2>1, <2>2 DEF KeepsAs
  <2>4. QED
    BY <2>3 DEF Keeps
<1>8. Legible' <=> Legible
  BY <1>6 DEF Legible, Wanted
<1>9. QED
  BY <1>1, <1>6, <1>7, <1>8 DEF CallInv, Telling

LEMMA ReturnTells == ASSUME CallInv, Return PROVE CallInv'
<1>1. call.phase = "running" /\ Joined /\ Dead /\ child' = child /\ pipe' = pipe
  BY DEF Return
<1>2. /\ call'.phase = "returned" /\ call'.kind = call.kind /\ call'.verbose = call.verbose
      /\ call'.script = call.script /\ call'.tail = call.tail /\ call'.heard = call.heard
      /\ call'.ok = child.ok /\ call'.shown = IF child.ok THEN call.shown - call.lines ELSE call.shown
  BY DEF Return, CallInv, CallTyped, Calls
<1>3. CallTyped'
  <2> DEFINE H == IF call.kind = "segments" THEN Seq(Contents) ELSE Contents
  <2>1. call \in Calls(H) /\ child.ok \in BOOLEAN
    BY DEF CallInv, CallTyped
  <2>2. call.shown \in Int /\ call.lines \in Int
    BY <2>1 DEF Calls
  <2>3. PICK shown \in Int : shown = IF child.ok THEN call.shown - call.lines ELSE call.shown
    BY <2>2
  <2>4. call' = [call EXCEPT !.phase = "returned", !.ok = child.ok, !.shown = shown]
    BY <2>3 DEF Return
  <2> HIDE DEF H
  <2>5. call' \in Calls(H) /\ call'.segment = call.segment
    BY <2>1, <2>4 DEF Calls
  <2>6. QED
    BY <1>1, <1>2, <2>5 DEF CallInv, CallTyped, H
<1>4. Legible' <=> Legible
  BY <1>2 DEF Legible, Wanted
<1>5. ASSUME Legible PROVE TellsTheChild'
  <2>1. PICK done \in Seq(Units) : KeepsAs(done)
    BY <1>1, <1>5 DEF CallInv, Telling, Keeps
  <2>2. child.state = "ended" /\ child.todo = << >> /\ call.script = done
    BY <1>1, <2>1 DEF KeepsAs, Dead
  <2>3. ASSUME NEW s \in {"out", "err"}, Wanted(s)
        PROVE  ~pipe[s].open /\ Of(s, done) \in Seq(Contents) /\ Told(s, Of(s, done))
    <3>1. PICK read \in Seq(Contents) : ReadsAs(s, done, read)
      BY <2>1, <2>3 DEF KeepsAs, Reads
    <3>2. ~pipe[s].open /\ pipe[s].held = << >>
      BY <1>1, <2>3, <3>1 DEF Joined, ReadsAs
    <3>3. Of(s, done) = read
      BY <3>1, <3>2 DEF ReadsAs
    <3>4. QED
      BY <3>1, <3>2, <3>3 DEF ReadsAs
  <2>4. Wanted("err") /\ (call.kind # "piped" => Wanted("out"))
    BY DEF Wanted
  <2>5. call'.tail = Latest(TailLines, Good(Of("err", done)))
    BY <1>2, <2>3, <2>4 DEF Told
  <2>6. call.kind = "stdout" => call'.heard = Good(Of("out", done))
    BY <1>2, <2>3, <2>4 DEF Told
  <2>7. call.kind = "segments" => CutInto(call'.heard, Of("out", done))
    BY <1>2, <2>3, <2>4 DEF Told
  <2>8. call.kind = "piped" /\ child.ok => call'.shown = 0
    <3>1. call.shown \in Int /\ (call.kind = "piped" => call.shown = call.lines)
      BY <1>1 DEF CallInv, CallTyped, Telling, Calls
    <3>2. QED
      BY <1>2, <3>1
  <2>9. QED
    BY <1>1, <1>2, <2>2, <2>5, <2>6, <2>7, <2>8 DEF TellsTheChild, Written
<1>6. Joined' /\ Dead'
  BY <1>1, <1>2 DEF Joined, Dead, Wanted
<1>7. ~Legible => TellsTheChild'
  BY <1>4 DEF TellsTheChild
<1>8. QED
  BY <1>2, <1>3, <1>5, <1>6, <1>7 DEF CallInv, Telling

LEMMA CallInvStep == CallInv /\ [SubprocessNext]_subprocessVars => CallInv'
<1> SUFFICES ASSUME CallInv, [SubprocessNext]_subprocessVars PROVE CallInv'
  OBVIOUS
<1>1. CASE UNCHANGED subprocessVars
  <2>1. child' = child /\ pipe' = pipe /\ call' = call
    BY <1>1 DEF subprocessVars
  <2>2. CallTyped' /\ (Legible' <=> Legible) /\ (Joined' <=> Joined)
    BY <2>1 DEF CallInv, CallTyped, Legible, Joined, Wanted
  <2>3. Keeps => Keeps'
    BY <2>1 DEF Keeps, KeepsAs, Reads, ReadsAs, Told, Dead, Wanted
  <2>4. TellsTheChild => TellsTheChild'
    BY <2>1, <2>2 DEF TellsTheChild, Written
  <2>5. QED
    BY <2>1, <2>2, <2>3, <2>4 DEF CallInv, Telling, Dead
<1>2. CASE SubprocessNext
  BY <1>2, SpawnTells, WriteTells, ExitTells, ReadErrTells, ReadOutTells, EndOfFileTells, ReturnTells
     DEF SubprocessNext
<1>3. QED
  BY <1>1, <1>2

\* A call that returns tells what the program did: its exit, the last of its
\* stderr, its stdout cut at each CR and LF wherever the reads fell, nothing of
\* the operator's cleared; and until then program and threads never all wait
\* (run_piped, read_segments, flush_segment, push_stderr_tail; output.rs).
THEOREM CallsTellTheChild == SubprocessSpec => []CallTellsTheChild
<1>1. CallInv => TellsTheChild
  BY DEF CallInv, CallTyped, Calls, Telling, TellsTheChild
<1>2. SubprocessSpec => []TellsTheChild
  BY <1>1, CallInvInit, CallInvStep, PTL DEF SubprocessSpec
<1>3. QED
  BY <1>2, PipesNeverStall, PTL DEF CallTellsTheChild

----------------------------------------------------------------------------
(* Version pins: what an exit code of `versions` tells.                    *)
AllPins == AppPins \cup UNION {ToolPins(role) : role \in {l \in RoleFiles : WellFormed(l)}}
\* The segments that what is declared and what is released are written in.
Used == (UNION {Range(r.version) : r \in AllReleases}) \cup (UNION {Range(p.value) : p \in AllPins}) \cup {Zero}
\* Of three of them the mixed comparison puts none in a cycle.
Comparable ==
    \A s, t, u \in Used : ~SegmentLess(s, t) /\ ~SegmentLess(t, u) => ~SegmentLess(s, u)

LEMMA RangedIs ==
    ASSUME NEW R, NEW s \in Seq(R), NEW T, Range(s) \subseteq T
    PROVE  s \in Seq(T)
<1>1. \A i \in 1 .. Len(s) : s[i] \in T
  BY DEF Range
<1>2. s = [i \in 1 .. Len(s) |-> s[i]] /\ Len(s) \in Nat
  OBVIOUS
<1>3. QED
  BY <1>1, <1>2

LEMMA PinsAre == \A p \in AllPins : Coordinates(p) /\ p.value \in Seq(Used)
<1>1. \A p \in AllPins : Coordinates(p)
  BY VersionsAssumption DEF AllPins
<1>2. ASSUME NEW p \in AllPins PROVE p.value \in Seq(Used)
  <2>1. p.value \in Seq(Segments)
    BY <1>1, <1>2 DEF Coordinates
  <2>2. Range(p.value) \subseteq Used
    BY DEF Used
  <2>3. QED
    BY <2>1, <2>2, RangedIs
<1>3. QED
  BY <1>1, <1>2

LEMMA ReleasesAre == \A r \in AllReleases : r.version \in Seq(Used)
<1>1. ASSUME NEW r \in AllReleases PROVE r.version \in Seq(Used)
  <2>1. r.version \in Seq(Segments)
    BY VersionsAssumption
  <2>2. Range(r.version) \subseteq Used
    BY DEF Used
  <2>3. QED
    BY <2>1, <2>2, RangedIs
<1>2. QED
  BY <1>1

LEMMA SegmentsAre ==
    /\ Zero \in Used /\ \A v \in Seq(Used), i \in Nat : SegmentOf(v, i) \in Used
    /\ \A s, t \in Used : SegmentLess(s, t) => ~SegmentLess(t, s)
    /\ \A s \in Used : ~SegmentLess(s, s)
<1>1. Zero \in Used
  BY DEF Used
<1>2. Used \subseteq Segments
  <2>1. \A r \in AllReleases : Range(r.version) \subseteq Segments
    BY VersionsAssumption DEF Range
  <2>2. \A p \in AllPins : Range(p.value) \subseteq Segments
    BY VersionsAssumption DEF AllPins, Coordinates, Range
  <2>3. Zero \in Segments
    BY VersionsAssumption
  <2>4. QED
    BY <2>1, <2>2, <2>3 DEF Used
<1>3. \A s \in Segments : NumOf[s] \in Int /\ Rank[s] \in Int
  BY VersionsAssumption DEF NoNum
<1>4. \A s, t \in Used : SegmentLess(s, t) => ~SegmentLess(t, s)
  BY <1>2, <1>3 DEF SegmentLess, Numeric
<1>5. \A v \in Seq(Used), i \in Nat : SegmentOf(v, i) \in Used
  BY <1>1 DEF SegmentOf
<1>6. QED
  BY <1>1, <1>4, <1>5

\* What a version has at i, past its end too, decides.
LEMMA OlderIs ==
    ASSUME NEW v \in Seq(Used), NEW w \in Seq(Used)
    PROVE  Older(v, w) <=> \E i \in Nat \ {0} :
             /\ SegmentLess(SegmentOf(v, i), SegmentOf(w, i))
             /\ \A k \in 1 .. i - 1 : Ties(SegmentOf(v, k), SegmentOf(w, k))
<1>1. ASSUME NEW i \in Nat, SegmentLess(SegmentOf(v, i), SegmentOf(w, i)) PROVE i \in DOMAIN v \cup DOMAIN w
  <2>1. CASE i \notin DOMAIN v \cup DOMAIN w
    <3>1. SegmentOf(v, i) = Zero /\ SegmentOf(w, i) = Zero
      BY <2>1 DEF SegmentOf
    <3>2. QED
      BY <1>1, <3>1, SegmentsAre
  <2>2. QED
    BY <2>1
<1>2. \A i \in DOMAIN v \cup DOMAIN w : i \in Nat \ {0}
  OBVIOUS
<1>3. QED
  BY <1>1, <1>2 DEF Older

LEMMA OlderAsymmetric ==
    ASSUME NEW v \in Seq(Used), NEW w \in Seq(Used), Older(v, w)
    PROVE  ~Older(w, v)
<1>1. SUFFICES ASSUME Older(w, v) PROVE FALSE
  OBVIOUS
<1>2. PICK i \in Nat \ {0} : /\ SegmentLess(SegmentOf(v, i), SegmentOf(w, i))
                             /\ \A k \in 1 .. i - 1 : Ties(SegmentOf(v, k), SegmentOf(w, k))
  BY OlderIs
<1>3. PICK j \in Nat \ {0} : /\ SegmentLess(SegmentOf(w, j), SegmentOf(v, j))
                             /\ \A k \in 1 .. j - 1 : Ties(SegmentOf(w, k), SegmentOf(v, k))
  BY <1>1, OlderIs
<1>4. CASE i < j
  <2>1. i \in 1 .. j - 1
    BY <1>4
  <2>2. QED
    BY <1>2, <1>3, <2>1 DEF Ties
<1>5. CASE j < i
  <2>1. j \in 1 .. i - 1
    BY <1>5
  <2>2. QED
    BY <1>2, <1>3, <2>1 DEF Ties
<1>6. CASE i = j
  BY <1>2, <1>3, <1>6, SegmentsAre
<1>7. QED
  BY <1>4, <1>5, <1>6

LEMMA NotOlder ==
    ASSUME Comparable, NEW a \in Seq(Used), NEW b \in Seq(Used), NEW c \in Seq(Used),
           ~Older(a, b), ~Older(b, c)
    PROVE  ~Older(a, c)
<1> DEFINE A(k) == SegmentOf(a, k)  B(k) == SegmentOf(b, k)  C(k) == SegmentOf(c, k)
           Apart == {k \in Nat \ {0} : ~(Ties(A(k), B(k)) /\ Ties(B(k), C(k)))}
<1>1. \A k \in Nat : A(k) \in Used /\ B(k) \in Used /\ C(k) \in Used
  BY SegmentsAre
<1>2. SUFFICES ASSUME NEW i \in Nat \ {0}, SegmentLess(A(i), C(i)),
                      \A k \in 1 .. i - 1 : Ties(A(k), C(k))
               PROVE  FALSE
  BY OlderIs
<1>a. /\ \A k \in Nat \ {0} : SegmentLess(A(k), B(k)) => ~\A n \in 1 .. k - 1 : Ties(A(n), B(n))
      /\ \A k \in Nat \ {0} : SegmentLess(B(k), C(k)) => ~\A n \in 1 .. k - 1 : Ties(B(n), C(n))
  BY OlderIs
<1> HIDE DEF A, B, C
<1>3. i \in Apart
  BY <1>1, <1>2 DEF Comparable, Ties
<1>4. PICK m \in Apart : \A k \in Apart : m <= k
  <2>1. Apart \subseteq Nat
    OBVIOUS
  <2> HIDE DEF Apart
  <2>2. QED
    BY <1>3, <2>1, LeastNatural
<1>5. m \in Nat \ {0} /\ m <= i /\ \A k \in 1 .. m - 1 : Ties(A(k), B(k)) /\ Ties(B(k), C(k))
  <2>1. m \in Nat \ {0} /\ m <= i
    BY <1>3, <1>4
  <2>2. \A k \in 1 .. m - 1 : k \notin Apart /\ k \in Nat \ {0}
    BY <1>4, <2>1
  <2>3. QED
    BY <2>1, <2>2
<1>6. ~SegmentLess(A(m), B(m)) /\ ~SegmentLess(B(m), C(m))
  BY <1>5, <1>a
<1>7. ~SegmentLess(A(m), C(m))
  BY <1>1, <1>5, <1>6 DEF Comparable
<1>8. m # i
  BY <1>2, <1>7
<1>9. Ties(A(m), C(m))
  <2>1. m \in 1 .. i - 1
    BY <1>5, <1>8
  <2>2. QED
    BY <1>2, <2>1
<1>10. ~SegmentLess(B(m), A(m)) /\ ~SegmentLess(C(m), B(m))
  BY <1>1, <1>5, <1>6, <1>9 DEF Ties, Comparable
<1>11. QED
  BY <1>4, <1>6, <1>10 DEF Ties

\* What max_by folds to is one of those at I, and none of them is newer.
LEMMA NewestIs ==
    ASSUME Comparable, NEW R, \A r \in R : r.version \in Seq(Used),
           NEW releases \in Seq(R), NEW I, I \subseteq DOMAIN releases, I # {}
    PROVE  /\ NewestAt(releases, I) \in I
           /\ \A k \in I : ~Older(releases[NewestAt(releases, I)].version, releases[k].version)
<1> DEFINE N == Len(releases)
           V == 0 .. N
           Next(n, m) == IF n \in I /\ (m # 0 => ~Older(releases[n].version, releases[m].version))
                         THEN n ELSE m
           turn == [n \in 1 .. N |-> [m \in V |-> Next(n, m)]]
           IsIt(f) == f = [n \in 0 .. N |-> IF n = 0 THEN 0 ELSE Next(n, f[n - 1])]
           it == CHOOSE h : IsIt(h)
<1>1. N \in Nat /\ 0 \in V /\ \A n \in 1 .. N : n \in V /\ releases[n].version \in Seq(Used)
  OBVIOUS
<1>2. turn \in Moves(N, V)
  <2> HIDE DEF V, N
  <2>1. \A n \in 1 .. N, m \in V : Next(n, m) \in V
    BY <1>1
  <2> HIDE DEF Next
  <2>2. QED
    BY <2>1 DEF Moves
<1>3. PICK f \in [0 .. N -> V] : f[0] = 0 /\ \A n \in 1 .. N : f[n] = turn[n][f[n - 1]]
  <2> HIDE DEF V, turn, N, it, IsIt
  <2>1. \E f \in Values(N, V) : Unfolds(f, 0, turn, N)
    BY <1>1, <1>2, Recursion
  <2>2. QED
    BY <2>1 DEF Unfolds, Values
<1> HIDE DEF Next
<1>4. ASSUME NEW n \in 1 .. N PROVE f[n] = Next(n, f[n - 1])
  <2> HIDE DEF V, N
  <2>1. n - 1 \in 0 .. N
    BY <1>1
  <2>2. f[n - 1] \in V /\ f[n] = turn[n][f[n - 1]]
    BY <1>3, <2>1
  <2>3. QED
    BY <2>2
<1>5. IsIt(f)
  <2> HIDE DEF V
  <2>1. \A n \in 0 .. N : n # 0 => n \in 1 .. N
    BY <1>1
  <2>2. \A n \in 0 .. N : f[n] = IF n = 0 THEN 0 ELSE Next(n, f[n - 1])
    BY <1>3, <1>4, <2>1
  <2>3. QED
    BY <1>3, <2>2
<1>6. IsIt(it)
  BY <1>5
<1>7. NewestAt(releases, I) = it[N]
  BY DEF NewestAt, Next
<1> HIDE DEF it
<1>8. it[0] = 0 /\ \A n \in 1 .. N : it[n] = Next(n, it[n - 1])
  <2> HIDE DEF V, N
  <2>1. 0 \in 0 .. N /\ \A n \in 1 .. N : n \in 0 .. N /\ n # 0
    BY <1>1
  <2>2. QED
    BY <1>6, <2>1
<1> DEFINE Ver(k) == releases[k].version
           Best(n, m) == /\ m = 0 => \A k \in I : ~(k <= n)
                         /\ m # 0 => m \in I /\ \A k \in I : k <= n => ~Older(Ver(m), Ver(k))
           T == {n \in 0 .. N : Best(n, it[n])}
<1>9. \A k \in I : k \in 1 .. N /\ Ver(k) \in Seq(Used)
  OBVIOUS
<1>a. \A k \in I : ~Older(Ver(k), Ver(k))
  BY <1>9, OlderAsymmetric
<1>b. \A j, k, l \in I : ~Older(Ver(j), Ver(k)) /\ ~Older(Ver(k), Ver(l)) => ~Older(Ver(j), Ver(l))
  BY <1>9, NotOlder
<1>c. \A j, k \in I : Older(Ver(j), Ver(k)) => ~Older(Ver(k), Ver(j))
  BY <1>9, OlderAsymmetric
<1>d. \A n, m : n \in 1 .. N => Next(n, m) = IF n \in I /\ (m # 0 => ~Older(Ver(n), Ver(m))) THEN n ELSE m
  BY DEF Next
<1>e. \A k \in I : k \in Nat \ {0}
  BY <1>9
<1>f. \A k \in Nat \ {0}, n \in Nat \ {0} : ~(k <= 0) /\ (k <= n <=> k <= n - 1 \/ k = n)
  OBVIOUS
<1>g. \A n \in 1 .. N : n \in Nat \ {0} /\ n \in 0 .. N
  OBVIOUS
<1> HIDE DEF Ver, N
<1>10. 0 \in T
  <2>1. Best(0, 0)
    BY <1>e, <1>f
  <2> HIDE DEF Best
  <2>2. 0 \in 0 .. N
    BY <1>1
  <2>3. QED
    BY <1>8, <2>1, <2>2
<1>11. ASSUME NEW n \in 1 .. N, n - 1 \in T PROVE n \in T
  <2> DEFINE m == it[n - 1]
  <2>1. Best(n - 1, m)
    BY <1>11
  <2>2. it[n] = Next(n, m) /\ n \in 0 .. N /\ n # 0
    BY <1>1, <1>8
  <2>3. \A k \in I : k <= n <=> k <= n - 1 \/ k = n
    <3>1. n \in Nat \ {0}
      BY <1>g
    <3>2. QED
      BY <1>e, <1>f, <3>1
  <2> HIDE DEF m
  <2>4. Best(n, Next(n, m))
    <3>1. CASE n \notin I
      <4>1. Next(n, m) = m
        BY <1>d, <3>1
      <4>2. QED
        BY <2>1, <2>3, <3>1, <4>1
    <3>2. CASE n \in I /\ m = 0
      <4>1. Next(n, m) = n
        BY <1>d, <3>2
      <4>2. QED
        BY <1>a, <2>1, <2>2, <2>3, <3>2, <4>1
    <3>3. CASE n \in I /\ m # 0 /\ ~Older(Ver(n), Ver(m))
      <4>1. Next(n, m) = n
        BY <1>d, <3>3
      <4>2. QED
        BY <1>a, <1>b, <2>1, <2>2, <2>3, <3>3, <4>1
    <3>4. CASE n \in I /\ m # 0 /\ Older(Ver(n), Ver(m))
      <4>1. Next(n, m) = m
        BY <1>d, <3>4
      <4>2. QED
        BY <1>c, <2>1, <2>3, <3>4, <4>1
    <3>5. QED
      BY <3>1, <3>2, <3>3, <3>4
  <2>5. QED
    BY <2>2, <2>4
<1>12. N \in T
  <2> HIDE DEF T
  <2>1. 0 .. N \subseteq T
    BY <1>1, <1>10, <1>11, UpToN
  <2>2. QED
    BY <1>1, <2>1
<1>13. it[N] # 0
  BY <1>1, <1>9, <1>12
<1>14. QED
  BY <1>7, <1>9, <1>12, <1>13 DEF Ver

\* What the answers rely on: a listing that is read page by page has no release
\* newer than those of the pages before it, and the registry's are versions.
PublishedInOrder ==
    \A pin \in AllPins :
        /\ pin.source \in {"github-releases", "forgejo-releases"} =>
             \A i, k \in DOMAIN upstream[pin.dep], n \in Nat :
                 /\ i <= n * PerPage /\ n * PerPage < k
                 /\ Eligible(upstream[pin.dep][i], pin) /\ Eligible(upstream[pin.dep][k], pin)
                 => ~Older(upstream[pin.dep][i].version, upstream[pin.dep][k].version)
        /\ pin.source = "npm" => \A r \in Range(upstream[pin.dep]) : IsVersionLike(r.version)

Offered(r, pin) == Eligible(r, pin) /\ Older(pin.value, r.version)
LEMMA ReallyIs ==
    ASSUME NEW pin, NEW feeds PROVE ReallyStable(pin, feeds) <=> \E r \in Range(feeds[pin.dep]) : Offered(r, pin)
BY DEF ReallyStable, Offered, Eligible

\* A page, from a + 1 to b.
Cut(L, a, b) == SubSeq(L, a + 1, IF b < Len(L) THEN b ELSE Len(L))
LEMMA CutIs ==
    ASSUME NEW R, NEW L \in Seq(R), NEW a \in Nat, NEW b \in Nat, a <= b
    PROVE  /\ Cut(L, a, b) \in Seq(R)
           /\ Range(Cut(L, a, b)) \subseteq Range(L)
           /\ \A r \in Range(Cut(L, a, b)) : \E i \in DOMAIN L : r = L[i] /\ a < i /\ i <= b
           /\ \A i \in DOMAIN L : a < i /\ i <= b => L[i] \in Range(Cut(L, a, b))
<1> DEFINE e == IF b < Len(L) THEN b ELSE Len(L)
           s == SubSeq(L, a + 1, e)
           m == IF a + 1 <= e THEN e - a ELSE 0
<1>1. s = [i \in 1 .. m |-> L[i + a]] /\ e \in Nat /\ m \in Nat /\ Len(s) = m
  <2>1. e \in Nat /\ m \in Nat
    OBVIOUS
  <2>2. s = [i \in 1 .. m |-> L[i + a]]
    BY <2>1
  <2>3. QED
    BY <2>1, <2>2
<1> DEFINE l == Len(L)
<1>a. /\ l \in Nat /\ DOMAIN L = 1 .. l /\ e \in Nat /\ m \in Nat
      /\ e = IF b < l THEN b ELSE l
      /\ m = IF a + 1 <= e THEN e - a ELSE 0
      /\ s = [i \in 1 .. m |-> L[i + a]]
  BY <1>1
<1> HIDE DEF s, e, m, l
<1>2. \A i \in 1 .. m : i + a \in DOMAIN L /\ a < i + a /\ i + a <= b /\ s[i] = L[i + a]
  <2>1. \A i \in 1 .. m : i + a \in 1 .. l /\ a < i + a /\ i + a <= b
    BY <1>a
  <2>2. QED
    BY <1>a, <2>1
<1>3. s \in Seq(R)
  <2>1. \A i \in 1 .. m : s[i] \in R
    BY <1>2
  <2>2. s \in [1 .. m -> R]
    BY <1>a, <2>1
  <2>3. QED
    BY <1>a, <2>2
<1>4. ASSUME NEW i \in DOMAIN L, a < i, i <= b PROVE i - a \in 1 .. m /\ s[i - a] = L[i]
  <2>1. i \in 1 .. l
    BY <1>a
  <2>2. i - a \in 1 .. m /\ (i - a) + a = i
    BY <1>a, <1>4, <2>1
  <2>3. QED
    BY <1>a, <2>2
<1>5. DOMAIN s = 1 .. m
  BY <1>a
<1>6. Cut(L, a, b) = s
  BY DEF Cut, s, e
<1>7. Range(s) = {s[i] : i \in 1 .. m} /\ Range(L) = {L[i] : i \in DOMAIN L}
  BY <1>5 DEF Range
<1>8. QED
  BY <1>2, <1>3, <1>4, <1>6, <1>7

LEMMA LongerIs ==
    ASSUME NEW R, NEW s \in Seq(R), NEW t \in Seq(R)
    PROVE  s \o t \in Seq(R) /\ Range(s \o t) = Range(s) \cup Range(t)
<1>1. s \o t \in Seq(R)
  OBVIOUS
<1>2. \A i \in DOMAIN s : i \in DOMAIN (s \o t) /\ (s \o t)[i] = s[i]
  OBVIOUS
<1>3. \A i \in DOMAIN t : i + Len(s) \in DOMAIN (s \o t) /\ (s \o t)[i + Len(s)] = t[i]
  OBVIOUS
<1>4. \A i \in DOMAIN (s \o t) : i \in DOMAIN s \/ (i - Len(s) \in DOMAIN t /\ (s \o t)[i] = t[i - Len(s)])
  OBVIOUS
<1> DEFINE u == s \o t
<1>5. QED
  <2>1. /\ \A i \in DOMAIN s : i \in DOMAIN u /\ u[i] = s[i]
        /\ \A i \in DOMAIN t : i + Len(s) \in DOMAIN u /\ u[i + Len(s)] = t[i]
        /\ \A i \in DOMAIN u : i \in DOMAIN s \/ (i - Len(s) \in DOMAIN t /\ u[i] = t[i - Len(s)])
    BY <1>2, <1>3, <1>4
  <2> HIDE DEF u
  <2>2. Range(u) = Range(s) \cup Range(t)
    BY <2>1 DEF Range
  <2>3. QED
    BY <1>1, <2>2 DEF u

\* What an answer says is right about the listing L, and about all that S had.
TellsOf(pin, latest, L, S) ==
    /\ Drift(pin.value, latest) = "behind" => \E r \in L : Offered(r, pin)
    /\ IsVersionLike(pin.value) /\ Drift(pin.value, latest) # "behind" => ~\E r \in S : Offered(r, pin)

\* The newest of what was seen answers for the listing it was seen in, and for
\* what it does not answer for something it saw does.
LEMMA NewestAnswers ==
    ASSUME Comparable, NEW pin \in AllPins, NEW seen \in Seq(AllReleases), NEW I, I \subseteq DOMAIN seen, I # {},
           NEW L \in SUBSET AllReleases, NEW S \in SUBSET AllReleases,
           \A i \in I : seen[i] \in L /\ Eligible(seen[i], pin),
           \A r \in S : Eligible(r, pin) => \E i \in I : ~Older(seen[i].version, r.version)
    PROVE  TellsOf(pin, Newest(seen, I), L, S)
<1> DEFINE n == NewestAt(seen, I)
           best == seen[n].version
<1>1. n \in I /\ \A i \in I : ~Older(best, seen[i].version)
  BY ReleasesAre, NewestIs
<1>2. /\ best \in Seq(Used) /\ pin.value \in Seq(Used)
      /\ \A i \in I : seen[i].version \in Seq(Used)
      /\ \A r \in S : r.version \in Seq(Used)
  BY <1>1, ReleasesAre, PinsAre DEF Coordinates
<1>3. Newest(seen, I) = best
  BY DEF Newest
<1> HIDE DEF n, best
<1>4. ASSUME Drift(pin.value, best) = "behind" PROVE \E r \in L : Offered(r, pin)
  <2>1. Older(pin.value, best) /\ IsVersionLike(best)
    BY <1>4 DEF Drift
  <2>2. QED
    BY <1>1, <2>1 DEF Offered, best
<1>5. ASSUME IsVersionLike(pin.value), Drift(pin.value, best) # "behind", NEW r \in S, Offered(r, pin)
      PROVE  FALSE
  <2>1. IsVersionLike(best)
    BY <1>1 DEF best, Eligible
  <2>2. ~Older(pin.value, best)
    BY <1>5, <2>1 DEF Drift
  <2>3. PICK i \in I : ~Older(seen[i].version, r.version)
    BY <1>5 DEF Offered
  <2>4. ~Older(best, r.version)
    BY <1>1, <1>2, <2>3, NotOlder
  <2>5. ~Older(pin.value, r.version)
    BY <1>2, <2>2, <2>4, NotOlder
  <2>6. QED
    BY <1>5, <2>5 DEF Offered
<1>6. QED
  BY <1>3, <1>4, <1>5 DEF TellsOf

\* What the pages before this one left behind: nothing the pin takes.
PassedBy(pin, L, S, seen, a) ==
    /\ \A r \in Range(seen) : r \in Range(L) /\ ~Eligible(r, pin)
    /\ \A i \in DOMAIN L : i <= a /\ L[i] \in S => ~Eligible(L[i], pin)

LEMMA PageAnswers ==
    ASSUME Comparable, NEW pin \in AllPins, NEW L \in Seq(AllReleases), NEW seen \in Seq(AllReleases),
           NEW S \in SUBSET Range(L), NEW a \in Nat, NEW b \in Nat, a <= b, PassedBy(pin, L, S, seen, a),
           \A i, k \in DOMAIN L : i <= b /\ b < k /\ Eligible(L[i], pin) /\ Eligible(L[k], pin)
                                  => ~Older(L[i].version, L[k].version)
    PROVE  /\ Some(seen \o Cut(L, a, b), pin) =>
                 TellsOf(pin, LatestOf(seen \o Cut(L, a, b), pin), Range(L), S)
           /\ ~Some(seen \o Cut(L, a, b), pin) => PassedBy(pin, L, S, seen \o Cut(L, a, b), b)
<1> DEFINE new == seen \o Cut(L, a, b)
           I == Through(new, pin)
<1>1. /\ new \in Seq(AllReleases) /\ Range(new) = Range(seen) \cup Range(Cut(L, a, b))
      /\ Cut(L, a, b) \in Seq(AllReleases)
  <2>1. Cut(L, a, b) \in Seq(AllReleases)
    BY CutIs
  <2> DEFINE c == Cut(L, a, b)
  <2> HIDE DEF c
  <2>2. c \in Seq(AllReleases)
    BY <2>1 DEF c
  <2>3. seen \o c \in Seq(AllReleases) /\ Range(seen \o c) = Range(seen) \cup Range(c)
    BY <2>2, LongerIs
  <2>4. QED
    BY <2>1, <2>3 DEF c
<1>2. /\ \A r \in Range(Cut(L, a, b)) : \E i \in DOMAIN L : r = L[i] /\ a < i /\ i <= b
      /\ \A i \in DOMAIN L : a < i /\ i <= b => L[i] \in Range(Cut(L, a, b))
  BY CutIs
<1>3. /\ Range(L) = {L[i] : i \in DOMAIN L} /\ Range(new) = {new[i] : i \in DOMAIN new}
      /\ Range(L) \in SUBSET AllReleases /\ \A i \in DOMAIN L : i \in Nat
  BY <1>1 DEF Range
<1> DEFINE page == Range(Cut(L, a, b))
<1> HIDE DEF new, page
<1>4. \A i \in I : i \in DOMAIN new /\ new[i] \in page /\ new[i] \in Range(L) /\ Eligible(new[i], pin)
  BY <1>1, <1>2, <1>3 DEF Through, PassedBy, page
<1>5. \A r \in Range(new) : Eligible(r, pin) => \E i \in I : new[i] = r
  BY <1>3 DEF Through
<1>6. \A r \in page : r \in Range(new)
  BY <1>1 DEF page
<1>7. ASSUME I # {} PROVE TellsOf(pin, LatestOf(new, pin), Range(L), S)
  <2>1. ASSUME NEW r \in S, Eligible(r, pin) PROVE \E i \in I : ~Older(new[i].version, r.version)
    <3>1. PICK k \in DOMAIN L : L[k] = r
      BY <1>3
    <3>2. ~(k <= a)
      BY <2>1, <3>1 DEF PassedBy
    <3>3. CASE k <= b
      <4>1. r \in page
        BY <1>2, <1>3, <3>1, <3>2, <3>3 DEF page
      <4>2. PICK i \in I : new[i] = r
        BY <1>5, <1>6, <2>1, <4>1
      <4>3. r.version \in Seq(Used)
        BY <1>3, ReleasesAre
      <4>4. ~Older(r.version, r.version)
        BY <4>3, OlderAsymmetric
      <4>5. QED
        BY <4>2, <4>4
    <3>4. CASE ~(k <= b)
      <4>1. PICK i \in I : TRUE
        BY <1>7
      <4>2. PICK j \in DOMAIN L : new[i] = L[j] /\ j <= b
        BY <1>2, <1>4 DEF page
      <4>3. b < k
        BY <1>3, <3>4
      <4>4. ~Older(L[j].version, L[k].version)
        BY <1>4, <2>1, <3>1, <4>2, <4>3
      <4>5. QED
        BY <3>1, <4>2, <4>4
    <3>5. QED
      BY <3>3, <3>4
  <2>2. I \subseteq DOMAIN new
    BY DEF Through
  <2>3. S \in SUBSET AllReleases
    BY <1>3
  <2> HIDE DEF I
  <2>4. TellsOf(pin, Newest(new, I), Range(L), S)
    BY <1>1, <1>3, <1>4, <1>7, <2>1, <2>2, <2>3, NewestAnswers
  <2>5. QED
    BY <2>4 DEF LatestOf, I
<1>8. ASSUME I = {} PROVE PassedBy(pin, L, S, new, b)
  <2>1. \A r \in Range(new) : ~Eligible(r, pin)
    BY <1>5, <1>8
  <2>2. \A r \in Range(new) : r \in Range(L)
    BY <1>1, <1>2, <1>3 DEF PassedBy, page
  <2>3. ASSUME NEW i \in DOMAIN L, i <= b, L[i] \in S PROVE ~Eligible(L[i], pin)
    <3>1. CASE i <= a
      BY <2>3, <3>1 DEF PassedBy
    <3>2. CASE ~(i <= a)
      <4>1. a < i
        BY <1>3, <3>2
      <4>2. QED
        BY <1>2, <1>6, <2>1, <2>3, <4>1 DEF page
    <3>3. QED
      BY <3>1, <3>2
  <2>4. QED
    BY <2>1, <2>2, <2>3 DEF PassedBy
<1>9. Some(new, pin) <=> I # {}
  BY DEF Some
<1>10. QED
  BY <1>7, <1>8, <1>9 DEF new

\* go: the proxy lists every version.  npm: the newest stable one, all of them versions.
LEMMA WholeAnswers ==
    ASSUME Comparable, NEW pin \in AllPins, NEW L \in Seq(AllReleases), NEW S \in SUBSET Range(L),
           NEW I, I # {}, I \subseteq DOMAIN L, \A i \in DOMAIN L : i \in I <=> Eligible(L[i], pin)
    PROVE  TellsOf(pin, Newest(L, I), Range(L), S)
<1>1. Range(L) = {L[i] : i \in DOMAIN L} /\ Range(L) \in SUBSET AllReleases
  BY DEF Range
<1>2. \A i \in I : L[i] \in Range(L) /\ Eligible(L[i], pin)
  BY <1>1
<1>3. ASSUME NEW r \in S, Eligible(r, pin) PROVE \E i \in I : ~Older(L[i].version, r.version)
  <2>1. PICK i \in DOMAIN L : L[i] = r
    BY <1>1
  <2>2. r.version \in Seq(Used)
    BY <1>1, ReleasesAre
  <2>3. QED
    BY <1>3, <2>1, <2>2, OlderAsymmetric
<1>4. S \in SUBSET AllReleases
  BY <1>1
<1>5. QED
  BY <1>1, <1>2, <1>3, <1>4, NewestAnswers

\* What the command does to its check leaves it one.
Checks(P, S, L, F) ==
    [phase : {"idle", "asking", "done", "deployed", "refused"}, todo : SUBSET P, page : Nat \ {0},
     seen : S, report : SUBSET L, exit : Int, start : F]
EndOf(c, e, exit) == [c EXCEPT !.phase = "done", !.exit = exit, !.todo = {}, !.seen = e, !.page = 1]
AnswerOf(c, e, line, p) == [c EXCEPT !.report = @ \cup {line}, !.todo = @ \ {p}, !.seen = e, !.page = 1]
TurnOf(c, e) == [c EXCEPT !.seen = e, !.page = @ + 1]
LEMMA EndedIs ==
    ASSUME NEW P, NEW S, NEW L, NEW F, NEW c \in Checks(P, S, L, F), NEW e \in S, NEW exit \in Int, NEW d,
           d = EndOf(c, e, exit)
    PROVE  /\ d \in Checks(P, S, L, F) /\ d.phase = "done" /\ d.exit = exit /\ d.report = c.report
           /\ d.start = c.start
<1>1. d.phase = "done" /\ d.exit = exit /\ d.report = c.report /\ d.start = c.start
  BY DEF Checks, EndOf, AnswerOf, TurnOf
<1>2. c.report \in SUBSET L /\ c.start \in F
  BY DEF Checks, EndOf, AnswerOf, TurnOf
<1>3. d = [phase |-> "done", todo |-> {}, page |-> 1, seen |-> e, report |-> c.report, exit |-> exit,
           start |-> c.start]
  BY DEF Checks, EndOf, AnswerOf, TurnOf
<1>4. d \in Checks(P, S, L, F)
  BY <1>2, <1>3 DEF Checks
<1>5. QED
  BY <1>1, <1>4

LEMMA AnsweredIs ==
    ASSUME NEW P, NEW S, NEW L, NEW F, NEW c \in Checks(P, S, L, F), NEW e \in S, NEW line \in L, NEW p \in P,
           NEW d, d = AnswerOf(c, e, line, p)
    PROVE  /\ d \in Checks(P, S, L, F) /\ d.phase = c.phase /\ d.report = c.report \cup {line}
           /\ d.start = c.start /\ d.todo = c.todo \ {p} /\ d.page = 1 /\ d.seen = e
<1>1. /\ d.phase = c.phase /\ d.report = c.report \cup {line} /\ d.start = c.start
      /\ d.todo = c.todo \ {p} /\ d.page = 1 /\ d.seen = e
  BY DEF Checks, EndOf, AnswerOf, TurnOf
<1>2. /\ c.report \cup {line} \in SUBSET L /\ c.start \in F /\ c.todo \ {p} \in SUBSET P /\ c.exit \in Int
      /\ c.phase \in {"idle", "asking", "done", "deployed", "refused"}
  BY DEF Checks, EndOf, AnswerOf, TurnOf
<1>3. d = [phase |-> c.phase, todo |-> c.todo \ {p}, page |-> 1, seen |-> e, report |-> c.report \cup {line},
           exit |-> c.exit, start |-> c.start]
  BY DEF Checks, EndOf, AnswerOf, TurnOf
<1>4. d \in Checks(P, S, L, F)
  BY <1>2, <1>3 DEF Checks
<1>5. QED
  BY <1>1, <1>4

LEMMA TurnedIs ==
    ASSUME NEW P, NEW S, NEW L, NEW F, NEW c \in Checks(P, S, L, F), NEW e \in S,
           NEW d, d = TurnOf(c, e)
    PROVE  /\ d \in Checks(P, S, L, F) /\ d.phase = c.phase /\ d.report = c.report /\ d.exit = c.exit
           /\ d.start = c.start /\ d.todo = c.todo /\ d.page = c.page + 1 /\ d.seen = e
<1>1. /\ d.phase = c.phase /\ d.report = c.report /\ d.exit = c.exit /\ d.start = c.start
      /\ d.todo = c.todo /\ d.page = c.page + 1 /\ d.seen = e
  BY DEF Checks, EndOf, AnswerOf, TurnOf
<1>2. /\ c.report \in SUBSET L /\ c.start \in F /\ c.todo \in SUBSET P /\ c.exit \in Int
      /\ c.phase \in {"idle", "asking", "done", "deployed", "refused"} /\ c.page \in Nat \ {0}
  BY DEF Checks, EndOf, AnswerOf, TurnOf
<1>3. c.page + 1 \in Nat \ {0}
  BY <1>2
<1>4. d = [phase |-> c.phase, todo |-> c.todo, page |-> c.page + 1, seen |-> e, report |-> c.report,
           exit |-> c.exit, start |-> c.start]
  BY DEF Checks, EndOf, AnswerOf, TurnOf
<1>5. d \in Checks(P, S, L, F)
  BY <1>2, <1>3, <1>4 DEF Checks
<1>6. QED
  BY <1>1, <1>5

Statuses == {"behind", "current", "unknown"}
ReportLines == [pin : AllPins, latest : Seq(Used), status : Statuses]
Listings == [Deps -> Seq(AllReleases)] \cup {<< >>}
CheckType == Checks(AllPins, Seq(AllReleases), ReportLines, Listings)
ReportTyped == upstream \in [Deps -> Seq(AllReleases)] /\ check \in CheckType
Begun == check.phase = "asking" \/ check.start # << >>
Had(dep) == Range(check.start[dep])
Has(dep) == Range(upstream[dep])
\* What upstream had, it has.
Grown ==
    /\ check.phase = "idle" => check = NoCheck
    /\ Begun => check.start \in [Deps -> Seq(AllReleases)] /\ \A dep \in Deps : Had(dep) \subseteq Has(dep)
LinesSay ==
    \A line \in check.report :
        /\ line.status = Drift(line.pin.value, line.latest)
        /\ TellsOf(line.pin, line.latest, Has(line.pin.dep), Had(line.pin.dep))
Paged ==
    check.phase = "asking" /\ check.todo # {} =>
        PassedBy(Pin, upstream[Pin.dep], Had(Pin.dep), check.seen, (check.page - 1) * PerPage)
ReportedPins == {line.pin : line \in check.report}
EveryApp ==
    /\ check.phase = "asking" => AppPins \subseteq check.todo \cup ReportedPins
    /\ Begun /\ check.phase # "asking" /\ check.exit = 0 =>
         AppPins \subseteq ReportedPins /\ \A line \in check.report : line.status # "behind"
ReportInv == ReportTyped /\ Grown /\ LinesSay /\ Paged /\ EveryApp

LEMMA ReportsTell == ReportInv => ExitTellsDrift
<1> SUFFICES ASSUME ReportInv PROVE ExitTellsDrift
  OBVIOUS
<1> USE DEF ReportInv
<1>1. \A line \in check.report : line \in ReportLines
  BY DEF ReportTyped, CheckType, Checks
<1>2. \A line \in check.report : line.status = "behind" => ReallyStable(line.pin, upstream)
  BY ReallyIs DEF LinesSay, TellsOf, Has
<1>3. ASSUME check.start # << >>, check.exit = 0, check.phase = "done",
             NEW pin \in AppPins \cup ReportedPins, IsVersionLike(pin.value)
      PROVE  ~ReallyStable(pin, check.start)
  <2>1. PICK line \in check.report : line.pin = pin /\ line.status # "behind"
    BY <1>3 DEF EveryApp, Begun, ReportedPins
  <2>2. ~\E r \in Had(pin.dep) : Offered(r, pin)
    BY <1>3, <2>1 DEF LinesSay, TellsOf
  <2>3. QED
    BY <2>2, ReallyIs DEF Had
<1>4. QED
  BY <1>2, <1>3 DEF ExitTellsDrift, ReportedPins

LEMMA ReportsFromTheStart == VersionsInit => ReportInv
<1> SUFFICES ASSUME VersionsInit PROVE ReportInv
  OBVIOUS
<1>1. upstream \in [Deps -> Seq(AllReleases)]
  BY VersionsAssumption DEF VersionsInit
<1>2. check = NoCheck /\ ~Begun /\ check.report = {}
  BY DEF VersionsInit, NoCheck, Begun
<1>3. ReportTyped
  BY <1>1, <1>2 DEF ReportTyped, CheckType, Checks, Listings, NoCheck, NoNum
<1>4. Grown /\ LinesSay /\ Paged /\ EveryApp
  BY <1>2 DEF Grown, LinesSay, Paged, EveryApp, NoCheck
<1>5. QED
  BY <1>3, <1>4 DEF ReportInv

\* A check that ends, whatever the code.
LEMMA EndingKeeps ==
    ASSUME ReportInv, upstream' = upstream, NEW exit \in Int, check' = CheckEnded(check, exit),
           check.phase = "asking",
           exit = 0 => check.todo = {} /\ \A line \in check.report : line.status # "behind"
    PROVE  ReportInv'
<1> USE DEF ReportInv
<1>1. /\ check'.phase = "done" /\ check'.exit = exit /\ check'.report = check.report
      /\ check'.start = check.start /\ check' \in CheckType
  <2>1. check' = [check EXCEPT !.phase = "done", !.exit = exit, !.todo = {}, !.seen = << >>, !.page = 1]
    BY DEF CheckEnded
  <2>2. PICK c, d, e : c = check /\ d = check' /\ e = << >>
    OBVIOUS
  <2>3. d = EndOf(c, e, exit)
    BY <2>1, <2>2 DEF EndOf
  <2>4. c \in CheckType /\ e \in Seq(AllReleases)
    BY <2>2 DEF ReportTyped
  <2>5. /\ d \in CheckType /\ d.phase = "done" /\ d.exit = exit /\ d.report = c.report
        /\ d.start = c.start
    BY <2>3, <2>4, EndedIs DEF CheckType
  <2>6. QED
    BY <2>2, <2>5
<1>2. ReportTyped'
  BY <1>1 DEF ReportTyped
<1>3. Grown'
  BY <1>1 DEF Grown, Begun, Had, Has
<1>4. LinesSay'
  BY <1>1 DEF LinesSay, Has, Had
<1>5. EveryApp'
  BY <1>1 DEF EveryApp, ReportedPins
<1>6. Paged'
  BY <1>1 DEF Paged
<1>7. QED
  BY <1>2, <1>3, <1>4, <1>5, <1>6

\* An answer that says what is so.
LEMMA AnswerKeeps ==
    ASSUME ReportInv, upstream' = upstream, check.phase = "asking", check.todo # {},
           NEW latest \in Seq(Used), check' = Resolved(latest),
           TellsOf(Pin, latest, Has(Pin.dep), Had(Pin.dep))
    PROVE  ReportInv'
<1> USE DEF ReportInv
<1>1. PICK p : p = Pin
  OBVIOUS
<1>2. p \in check.todo /\ p \in AllPins
  <2>1. Pin \in check.todo
    BY DEF Pin
  <2>2. QED
    BY <1>1, <2>1 DEF ReportTyped, CheckType, Checks
<1> DEFINE line == [pin |-> p, latest |-> latest, status |-> Drift(p.value, latest)]
<1>3. line \in ReportLines
  BY <1>2 DEF ReportLines, Statuses, Drift
<1>4. /\ check'.phase = "asking" /\ check'.report = check.report \cup {line}
      /\ check'.start = check.start /\ check'.todo = check.todo \ {p} /\ check'.page = 1
      /\ check'.seen = << >> /\ check' \in CheckType
  <2>1. check' = [check EXCEPT !.report = @ \cup {line}, !.todo = @ \ {p}, !.seen = << >>, !.page = 1]
    BY <1>1 DEF Resolved
  <2> HIDE DEF line
  <2>2. PICK c, d, e : c = check /\ d = check' /\ e = << >>
    OBVIOUS
  <2>3. d = AnswerOf(c, e, line, p)
    BY <2>1, <2>2 DEF AnswerOf
  <2>4. c \in CheckType /\ e \in Seq(AllReleases)
    BY <2>2 DEF ReportTyped
  <2>5. /\ d \in CheckType /\ d.phase = c.phase /\ d.report = c.report \cup {line}
        /\ d.start = c.start /\ d.todo = c.todo \ {p} /\ d.page = 1 /\ d.seen = e
    BY <1>2, <1>3, <2>3, <2>4, AnsweredIs DEF CheckType
  <2>6. QED
    BY <2>2, <2>5
<1>5. ReportTyped'
  BY <1>4 DEF ReportTyped
<1>6. Grown'
  BY <1>4 DEF Grown, Begun, Had, Has
<1>7. LinesSay'
  BY <1>1, <1>4 DEF LinesSay, Has, Had
<1>8. EveryApp'
  <2>1. line.pin = p
    OBVIOUS
  <2> HIDE DEF line
  <2>2. ReportedPins' = ReportedPins \cup {p}
    BY <1>4, <2>1 DEF ReportedPins
  <2>3. QED
    BY <1>4, <2>2 DEF EveryApp
<1>9. Paged'
  <2>1. SUFFICES ASSUME check'.todo # {} PROVE Paged'
    BY DEF Paged
  <2>2. PICK q : q = Pin'
    OBVIOUS
  <2>3. q \in check'.todo
    BY <2>1, <2>2 DEF Pin
  <2>4. q \in AllPins
    BY <1>4, <2>3 DEF CheckType, Checks
  <2>5. upstream[q.dep] \in Seq(AllReleases)
    BY <2>4, PinsAre DEF ReportTyped, Coordinates
  <2>6. \A i \in DOMAIN upstream[q.dep] : ~(i <= (1 - 1) * PerPage)
    BY <2>5, VersionsAssumption
  <2>7. Range(<< >>) = {}
    BY DEF Range
  <2>8. QED
    BY <1>4, <2>2, <2>6, <2>7 DEF Paged, PassedBy, Had
<1>10. QED
  BY <1>5, <1>6, <1>7, <1>8, <1>9

\* The next page, when nothing of those so far is taken.
LEMMA TurningKeeps ==
    ASSUME ReportInv, upstream' = upstream, check.phase = "asking", check.todo # {},
           NEW seen \in Seq(AllReleases), check' = [check EXCEPT !.seen = seen, !.page = @ + 1],
           PassedBy(Pin, upstream[Pin.dep], Had(Pin.dep), seen, check.page * PerPage)
    PROVE  ReportInv'
<1> USE DEF ReportInv
<1>1. /\ check'.phase = "asking" /\ check'.report = check.report /\ check'.start = check.start
      /\ check'.todo = check.todo /\ check'.page = check.page + 1 /\ check'.seen = seen /\ check' \in CheckType
  <2>1. PICK c, d : c = check /\ d = check'
    OBVIOUS
  <2>2. d = TurnOf(c, seen)
    BY <2>1 DEF TurnOf
  <2>3. c \in CheckType
    BY <2>1 DEF ReportTyped
  <2>4. /\ d \in CheckType /\ d.phase = c.phase /\ d.report = c.report
        /\ d.start = c.start /\ d.todo = c.todo /\ d.page = c.page + 1 /\ d.seen = seen
    BY <2>2, <2>3, TurnedIs DEF CheckType
  <2>5. QED
    BY <2>1, <2>4
<1>2. ReportTyped'
  BY <1>1 DEF ReportTyped
<1>3. Grown'
  BY <1>1 DEF Grown, Begun, Had, Has
<1>4. LinesSay'
  BY <1>1 DEF LinesSay, Has, Had
<1>5. EveryApp'
  BY <1>1 DEF EveryApp, ReportedPins
<1>6. Paged'
  <2>1. PICK p : p = Pin
    OBVIOUS
  <2>2. Pin' = p
    BY <1>1, <2>1 DEF Pin
  <2>3. (check.page + 1) - 1 = check.page
    BY DEF ReportTyped, CheckType, Checks
  <2>4. PassedBy(p, upstream[p.dep], Range(check.start[p.dep]), seen, check.page * PerPage)
    BY <2>1 DEF Had
  <2>5. QED
    BY <1>1, <2>2, <2>3, <2>4 DEF Paged, Had
<1>7. QED
  BY <1>2, <1>3, <1>4, <1>5, <1>6

LEMMA PagesAre ==
    ASSUME NEW k \in Nat \ {0}
    PROVE  (k - 1) * PerPage \in Nat /\ k * PerPage \in Nat /\ (k - 1) * PerPage <= k * PerPage
<1>1. PerPage \in Nat
  BY VersionsAssumption
<1>2. k - 1 \in Nat /\ k \in Nat
  OBVIOUS
<1>3. \A m, n \in Nat : m * n \in Nat
  OBVIOUS
<1>4. (k - 1) * PerPage = k * PerPage - PerPage
  BY <1>1
<1>5. QED
  BY <1>1, <1>2, <1>3, <1>4

LEMMA LatestIs ==
    ASSUME Comparable, NEW releases \in Seq(AllReleases), NEW I, I \subseteq DOMAIN releases, I # {}
    PROVE  Newest(releases, I) \in Seq(Used)
<1>1. NewestAt(releases, I) \in DOMAIN releases
  BY ReleasesAre, NewestIs
<1>2. releases[NewestAt(releases, I)] \in AllReleases
  BY <1>1
<1>3. QED
  BY <1>2, ReleasesAre DEF Newest

LEMMA QueryKeeps ==
    ASSUME Comparable, ReportInv, PublishedInOrder, Query
    PROVE  ReportInv'
<1> USE DEF ReportInv
<1>1. check.phase = "asking" /\ check.todo # {} /\ upstream' = upstream
  BY DEF Query
<1>2. PICK p : p = Pin
  OBVIOUS
<1>3. p \in check.todo /\ p \in AllPins /\ Coordinates(p)
  <2>1. Pin \in check.todo
    BY <1>1 DEF Pin
  <2>2. QED
    BY <1>2, <2>1, PinsAre DEF ReportTyped, CheckType, Checks
<1>4. PICK L, S : L = upstream[p.dep] /\ S = Range(check.start[p.dep])
  OBVIOUS
<1>5. L \in Seq(AllReleases) /\ S \in SUBSET Range(L)
  BY <1>1, <1>3, <1>4 DEF ReportTyped, Grown, Begun, Had, Has, Coordinates
<1>6. PassedBy(p, L, S, check.seen, (check.page - 1) * PerPage)
  BY <1>1, <1>2, <1>4 DEF Paged, Had
<1>7. check.page \in Nat \ {0} /\ check.seen \in Seq(AllReleases)
  BY DEF ReportTyped, CheckType, Checks
<1>8. CASE check' = CheckEnded(check, 2)
  BY <1>1, <1>8, EndingKeeps
<1>9. ASSUME NEW latest \in Seq(Used), TellsOf(p, latest, Range(L), S), check' = Resolved(latest)
      PROVE  ReportInv'
  <2>1. TellsOf(Pin, latest, Has(Pin.dep), Had(Pin.dep))
    BY <1>2, <1>4, <1>9 DEF Has, Had
  <2>2. QED
    BY <1>1, <1>9, <2>1, AnswerKeeps
<1>10. ASSUME p.source \in {"github-releases", "forgejo-releases"}, NEW k \in Nat
       PROVE  \A i, j \in DOMAIN L : i <= k * PerPage /\ k * PerPage < j
                /\ Eligible(L[i], p) /\ Eligible(L[j], p) => ~Older(L[i].version, L[j].version)
  BY <1>3, <1>4, <1>10 DEF PublishedInOrder
<1>11. CASE p.source = "github-releases" /\ check' = GithubLatest
  <2> DEFINE a == (check.page - 1) * PerPage
             b == check.page * PerPage
             new == check.seen \o Cut(L, a, b)
  <2>1. a \in Nat /\ b \in Nat /\ a <= b
    BY <1>7, PagesAre
  <2>2. \A i, j \in DOMAIN L : i <= b /\ b < j /\ Eligible(L[i], p) /\ Eligible(L[j], p)
                               => ~Older(L[i].version, L[j].version)
    BY <1>7, <1>10, <1>11
  <2>3. PageOf(check.page) = Cut(L, a, b)
    BY <1>2, <1>4 DEF PageOf, Listing, Cut
  <2>4. \/ Some(new, p) /\ check' = Resolved(LatestOf(new, p))
        \/ ~Some(new, p) /\ check' = [check EXCEPT !.seen = new, !.page = @ + 1]
        \/ check' = CheckEnded(check, 2)
    BY <1>2, <1>11, <2>3 DEF GithubLatest
  <2>5. PassedBy(p, L, S, check.seen, a)
    BY <1>6
  <2> HIDE DEF a, b
  <2>6. new \in Seq(AllReleases)
    <3>1. Cut(L, a, b) \in Seq(AllReleases)
      BY <1>5, <2>1, CutIs
    <3>2. QED
      BY <1>7, <3>1, LongerIs
  <2>7. /\ Some(new, p) => TellsOf(p, LatestOf(new, p), Range(L), S)
        /\ ~Some(new, p) => PassedBy(p, L, S, new, b)
    BY <1>3, <1>5, <1>7, <2>1, <2>2, <2>5, PageAnswers
  <2> HIDE DEF new
  <2>8. CASE Some(new, p) /\ check' = Resolved(LatestOf(new, p))
    <3>1. LatestOf(new, p) \in Seq(Used)
      BY <2>6, <2>8, LatestIs DEF LatestOf, Some, Through
    <3>2. QED
      BY <1>9, <2>7, <2>8, <3>1
  <2>9. CASE ~Some(new, p) /\ check' = [check EXCEPT !.seen = new, !.page = @ + 1]
    <3>1. PassedBy(Pin, upstream[Pin.dep], Had(Pin.dep), new, check.page * PerPage)
      BY <1>2, <1>4, <2>7, <2>9 DEF Had, b
    <3>2. QED
      BY <1>1, <2>6, <2>9, <3>1, TurningKeeps
  <2>10. QED
    BY <1>8, <2>4, <2>8, <2>9
<1>12. CASE p.source = "npm" /\ check' = NpmLatest
  <2> DEFINE I == {i \in DOMAIN L : L[i].stable}
  <2>1. \/ check' = CheckEnded(check, 2)
        \/ I # {} /\ check' = Resolved(Newest(L, I))
    BY <1>2, <1>4, <1>12 DEF NpmLatest, Listing
  <2>2. \A i \in DOMAIN L : i \in I <=> Eligible(L[i], p)
    <3>1. \A i \in DOMAIN L : IsVersionLike(L[i].version)
      BY <1>3, <1>4, <1>12 DEF PublishedInOrder, Range
    <3>2. QED
      BY <1>12, <3>1 DEF Eligible, Yields
  <2>3. I \subseteq DOMAIN L
    OBVIOUS
  <2> HIDE DEF I
  <2>4. CASE I # {} /\ check' = Resolved(Newest(L, I))
    BY <1>3, <1>5, <1>9, <2>2, <2>3, <2>4, WholeAnswers, LatestIs
  <2>5. QED
    BY <1>8, <2>1, <2>4
<1>13. CASE p.source = "go" /\ check' = ListedLatest(Listing)
  <2> DEFINE I == Through(L, p)
  <2>1. \/ check' = CheckEnded(check, 2)
        \/ I # {} /\ check' = Resolved(Newest(L, I))
    BY <1>2, <1>4, <1>13 DEF ListedLatest, Listing, Some, LatestOf
  <2>2. I \subseteq DOMAIN L /\ \A i \in DOMAIN L : i \in I <=> Eligible(L[i], p)
    BY DEF Through
  <2> HIDE DEF I
  <2>3. CASE I # {} /\ check' = Resolved(Newest(L, I))
    BY <1>3, <1>5, <1>9, <2>2, <2>3, WholeAnswers, LatestIs
  <2>4. QED
    BY <1>8, <2>1, <2>3
<1>14. CASE p.source = "forgejo-releases" /\ check' = ListedLatest(PageOf(1))
  <2> DEFINE a == (1 - 1) * PerPage
             b == 1 * PerPage
             new == << >> \o Cut(L, a, b)
  <2>1. a \in Nat /\ b \in Nat /\ a <= b
    BY PagesAre
  <2>2. Cut(L, a, b) \in Seq(AllReleases)
    BY <1>5, <2>1, CutIs
  <2>3. new \in Seq(AllReleases) /\ new = PageOf(1)
    <3>1. PageOf(1) = Cut(L, a, b)
      BY <1>2, <1>4 DEF PageOf, Listing, Cut
    <3>2. QED
      BY <2>2, <3>1, ConcatEmptySeq
  <2>4. \A i, j \in DOMAIN L : i <= b /\ b < j /\ Eligible(L[i], p) /\ Eligible(L[j], p)
                               => ~Older(L[i].version, L[j].version)
    BY <1>10, <1>14
  <2>5. a = 0
    BY VersionsAssumption
  <2> HIDE DEF a, b
  <2>6. PassedBy(p, L, S, << >>, a)
    BY <1>5, <2>5 DEF PassedBy, Range
  <2>7. Some(new, p) => TellsOf(p, LatestOf(new, p), Range(L), S)
    <3>1. << >> \in Seq(AllReleases)
      OBVIOUS
    <3>2. QED
      BY <1>3, <1>5, <2>1, <2>4, <2>6, <3>1, PageAnswers
  <2> HIDE DEF new
  <2>8. \/ Some(new, p) /\ check' = Resolved(LatestOf(new, p))
        \/ check' = CheckEnded(check, 2)
    BY <1>2, <1>14, <2>3 DEF ListedLatest
  <2>9. CASE Some(new, p) /\ check' = Resolved(LatestOf(new, p))
    <3>1. LatestOf(new, p) \in Seq(Used)
      BY <2>3, <2>9, LatestIs DEF LatestOf, Some, Through
    <3>2. QED
      BY <1>9, <2>7, <2>9, <3>1
  <2>10. QED
    BY <1>8, <2>8, <2>9
<1>15. QED
  BY <1>2, <1>3, <1>8, <1>11, <1>12, <1>13, <1>14 DEF Query, Coordinates, Datasources

LEMMA PublishKeeps == ASSUME ReportInv, Publish PROVE ReportInv'
<1> USE DEF ReportInv
<1>1. PICK dep \in Deps, r \in AllReleases :
        /\ r \notin Range(upstream[dep])
        /\ upstream' = [upstream EXCEPT ![dep] = <<r>> \o @]
  <2>1. \A dep \in Deps : Publishable[dep] \subseteq AllReleases
    BY DEF AllReleases
  <2>2. PICK dep \in Deps, r \in UNION {Publishable[d] : d \in Deps} :
          /\ r \in Publishable[dep] \ Range(upstream[dep])
          /\ upstream' = [upstream EXCEPT ![dep] = <<r>> \o @]
    BY DEF Publish
  <2>3. r \in AllReleases /\ r \notin Range(upstream[dep])
    BY <2>1, <2>2
  <2>4. QED
    BY <2>2, <2>3
<1>2. check' = check
  BY DEF Publish
<1> DEFINE longer == <<r>> \o upstream[dep]
<1>3. /\ longer \in Seq(AllReleases) /\ \A s \in Range(longer) : s = r \/ s \in Range(upstream[dep])
      /\ Range(upstream[dep]) \subseteq Range(longer)
      /\ \A i \in DOMAIN longer : longer[i] = r \/ (i - 1 \in DOMAIN upstream[dep] /\ longer[i] = upstream[dep][i - 1])
  <2>1. upstream[dep] \in Seq(AllReleases)
    BY DEF ReportTyped
  <2>2. PICK L : L = upstream[dep]
    OBVIOUS
  <2>3. <<r>> \in Seq(AllReleases)
    OBVIOUS
  <2> DEFINE one == <<r>>
             both == one \o L
  <2>4. DOMAIN one = {1} /\ one[1] = r
    OBVIOUS
  <2>5. one \in Seq(AllReleases) /\ L \in Seq(AllReleases)
    BY <2>1, <2>2, <2>3
  <2>6. \A i \in DOMAIN both : both[i] = r \/ (i - 1 \in DOMAIN L /\ both[i] = L[i - 1])
    BY <2>5
  <2> HIDE DEF one
  <2>7. both \in Seq(AllReleases) /\ Range(both) = Range(one) \cup Range(L)
    BY <2>5, LongerIs
  <2>8. Range(one) = {r}
    BY <2>4 DEF Range
  <2>9. longer = both
    BY <2>2 DEF one
  <2> HIDE DEF both, longer
  <2>10. QED
    BY <2>2, <2>6, <2>7, <2>8, <2>9
<1> HIDE DEF longer
<1>4. /\ upstream' \in [Deps -> Seq(AllReleases)]
      /\ upstream'[dep] = longer /\ \A d \in Deps : d # dep => upstream'[d] = upstream[d]
  <2>1. upstream' = [upstream EXCEPT ![dep] = longer]
    BY <1>1 DEF longer
  <2>2. QED
    BY <1>3, <2>1 DEF ReportTyped
<1>5. \A d \in Deps : Has(d) \subseteq Has(d)'
  BY <1>3, <1>4 DEF Has
<1>6. ReportTyped'
  BY <1>2, <1>4 DEF ReportTyped
<1>7. Grown'
  BY <1>2, <1>5 DEF Grown, Begun, Had
<1>8. LinesSay'
  <2>1. ASSUME NEW line \in check.report
        PROVE  TellsOf(line.pin, line.latest, Has(line.pin.dep), Had(line.pin.dep))'
    <3>1. line.pin.dep \in Deps
      <4>1. line.pin \in AllPins
        BY DEF ReportTyped, CheckType, Checks, ReportLines
      <4>2. QED
        BY <4>1, PinsAre DEF Coordinates
    <3>2. TellsOf(line.pin, line.latest, Has(line.pin.dep), Had(line.pin.dep))
      BY DEF LinesSay
    <3>3. Has(line.pin.dep) \subseteq Has(line.pin.dep)' /\ Had(line.pin.dep)' = Had(line.pin.dep)
      BY <1>2, <1>5, <3>1 DEF Had
    <3>4. QED
      BY <3>2, <3>3 DEF TellsOf
  <2>2. QED
    BY <1>2, <2>1 DEF LinesSay
<1>9. EveryApp'
  BY <1>2 DEF EveryApp, Begun, ReportedPins
<1>10. Paged'
  <2>1. SUFFICES ASSUME check.phase = "asking", check.todo # {} PROVE Paged'
    BY <1>2 DEF Paged
  <2>2. PICK p : p = Pin
    OBVIOUS
  <2>3. Pin' = p
    BY <1>2, <2>2 DEF Pin
  <2>4. p.dep \in Deps
    <3>1. Pin \in check.todo
      BY <2>1 DEF Pin
    <3>2. QED
      BY <2>2, <3>1, PinsAre DEF ReportTyped, CheckType, Checks, Coordinates
  <2> DEFINE a == (check.page - 1) * PerPage
             S == Range(check.start[p.dep])
  <2>5. a \in Nat
    BY PagesAre DEF ReportTyped, CheckType, Checks
  <2>6. PassedBy(p, upstream[p.dep], S, check.seen, a)
    BY <2>1, <2>2 DEF Paged, Had
  <2>7. S \subseteq Range(upstream[p.dep])
    BY <2>1, <2>4 DEF Grown, Begun, Had, Has
  <2>8. upstream[p.dep] \in Seq(AllReleases)
    BY <2>4 DEF ReportTyped
  <2> HIDE DEF a, S
  <2>9. PassedBy(p, upstream'[p.dep], S, check.seen, a)
    <3>1. CASE p.dep # dep
      BY <1>4, <2>4, <2>6, <3>1
    <3>2. CASE p.dep = dep
      <4>1. \A q \in Range(check.seen) : q \in Range(longer) /\ ~Eligible(q, p)
        BY <1>3, <2>6, <3>2 DEF PassedBy
      <4>2. ASSUME NEW i \in DOMAIN longer, i <= a, longer[i] \in S PROVE ~Eligible(longer[i], p)
        <5>1. longer[i] # r
          BY <1>1, <2>7, <3>2, <4>2
        <5>2. i - 1 \in DOMAIN upstream[dep] /\ longer[i] = upstream[dep][i - 1]
          BY <1>3, <5>1
        <5>3. i \in Nat /\ i - 1 <= a
          BY <1>3, <2>5, <4>2
        <5>4. QED
          BY <2>6, <3>2, <4>2, <5>2, <5>3 DEF PassedBy
      <4>3. QED
        BY <1>4, <3>2, <4>1, <4>2 DEF PassedBy
    <3>3. QED
      BY <3>1, <3>2
  <2>10. QED
    BY <1>2, <2>3, <2>9 DEF Paged, Had, a, S
<1>11. QED
  BY <1>6, <1>7, <1>8, <1>9, <1>10

LEMMA AskKeeps == ASSUME ReportInv, Ask PROVE ReportInv'
<1> USE DEF ReportInv
<1>1. PICK role \in RoleFiles, online \in BOOLEAN :
        check' = IF ~WellFormed(role) THEN CheckEnded(NoCheck, 2)
                 ELSE IF ~online THEN CheckEnded(NoCheck, 0)
                 ELSE [NoCheck EXCEPT !.phase = "asking", !.start = upstream,
                                      !.todo = AppPins \cup ToolPins(role)]
  BY DEF Ask
<1>2. upstream' = upstream /\ upstream \in [Deps -> Seq(AllReleases)]
  BY DEF Ask, ReportTyped
<1>3. ASSUME NEW exit \in Int, check' = CheckEnded(NoCheck, exit) PROVE ReportInv'
  <2>1. check' = [phase |-> "done", todo |-> {}, page |-> 1, seen |-> << >>, report |-> {}, exit |-> exit,
                  start |-> << >>]
    BY <1>3 DEF CheckEnded, NoCheck
  <2>2. ReportTyped'
    BY <1>2, <2>1 DEF ReportTyped, CheckType, Checks, Listings
  <2>3. Grown' /\ LinesSay' /\ Paged' /\ EveryApp'
    BY <2>1 DEF Grown, LinesSay, Paged, EveryApp, Begun
  <2>4. QED
    BY <2>2, <2>3
<1>4. CASE WellFormed(role) /\ check' = [NoCheck EXCEPT !.phase = "asking", !.start = upstream,
                                                         !.todo = AppPins \cup ToolPins(role)]
  <2> DEFINE pins == AppPins \cup ToolPins(role)
  <2>1. check' = [phase |-> "asking", todo |-> pins, page |-> 1, seen |-> << >>, report |-> {}, exit |-> NoNum,
                  start |-> upstream]
    BY <1>4 DEF NoCheck
  <2>2. pins \in SUBSET AllPins /\ AppPins \subseteq pins
    BY <1>4 DEF AllPins
  <2> HIDE DEF pins
  <2>3. ReportTyped'
    BY <1>2, <2>1, <2>2 DEF ReportTyped, CheckType, Checks, Listings, NoNum
  <2>4. Grown' /\ LinesSay' /\ EveryApp'
    BY <1>2, <2>1, <2>2 DEF Grown, LinesSay, EveryApp, Begun, Had, Has
  <2>5. Paged'
    <3>1. SUFFICES ASSUME check'.todo # {} PROVE Paged'
      BY DEF Paged
    <3>2. PICK q : q = Pin'
      OBVIOUS
    <3>3. q \in check'.todo
      BY <3>1, <3>2 DEF Pin
    <3>4. upstream[q.dep] \in Seq(AllReleases)
      BY <1>2, <2>1, <2>2, <3>3, PinsAre DEF Coordinates
    <3>5. \A i \in DOMAIN upstream[q.dep] : ~(i <= (1 - 1) * PerPage)
      BY <3>4, VersionsAssumption
    <3>6. Range(<< >>) = {}
      BY DEF Range
    <3>7. QED
      BY <1>2, <2>1, <3>2, <3>5, <3>6 DEF Paged, PassedBy, Had
  <2>6. QED
    BY <2>3, <2>4, <2>5
<1>5. QED
  BY <1>1, <1>3, <1>4

LEMMA GateKeeps == ASSUME ReportInv, RequireBuiltRelease PROVE ReportInv'
<1> USE DEF ReportInv
<1>1. PICK end \in {"deployed", "refused"} : check' = [NoCheck EXCEPT !.phase = end]
  BY DEF RequireBuiltRelease
<1>2. check' = [phase |-> end, todo |-> {}, page |-> 1, seen |-> << >>, report |-> {}, exit |-> NoNum,
                start |-> << >>]
  BY <1>1 DEF NoCheck
<1>3. upstream' = upstream
  BY DEF RequireBuiltRelease
<1>4. ReportTyped'
  BY <1>2, <1>3 DEF ReportTyped, CheckType, Checks, Listings, NoNum
<1>5. Grown' /\ LinesSay' /\ Paged' /\ EveryApp'
  BY <1>2 DEF Grown, LinesSay, Paged, EveryApp, Begun
<1>6. QED
  BY <1>4, <1>5

LEMMA ExitKeeps == ASSUME ReportInv, ExitCode PROVE ReportInv'
<1>1. PICK exit \in Int : /\ check' = CheckEnded(check, exit)
                          /\ exit = 0 => \A line \in check.report : line.status # "behind"
  BY DEF ExitCode
<1>2. QED
  BY <1>1, EndingKeeps DEF ExitCode

LEMMA RestKeeps == ASSUME ReportInv, UNCHANGED <<upstream, check>> PROVE ReportInv'
BY DEF ReportInv, ReportTyped, Grown, Begun, Had, Has, LinesSay, Paged, EveryApp, ReportedPins, Pin

LEMMA ReportInvariant ==
    ASSUME Comparable PROVE VersionsSpec /\ []PublishedInOrder => []ReportInv
<1>1. ASSUME ReportInv, PublishedInOrder, [VersionsNext]_versionVars PROVE ReportInv'
  <2>1. CASE Publish
    BY <1>1, <2>1, PublishKeeps
  <2>2. CASE Build
    BY <1>1, <2>2, RestKeeps DEF Build
  <2>3. CASE Ask
    BY <1>1, <2>3, AskKeeps
  <2>4. CASE Query
    BY <1>1, <2>4, QueryKeeps
  <2>5. CASE ExitCode
    BY <1>1, <2>5, ExitKeeps
  <2>6. CASE RequireBuiltRelease
    BY <1>1, <2>6, GateKeeps
  <2>7. CASE UNCHANGED versionVars
    BY <1>1, <2>7, RestKeeps DEF versionVars
  <2>8. QED
    BY <1>1, <2>1, <2>2, <2>3, <2>4, <2>5, <2>6, <2>7 DEF VersionsNext
<1>2. QED
  BY <1>1, ReportsFromTheStart, PTL DEF VersionsSpec

\* An exit code of `versions --check-upstream` tells drift, for any pins, feeds and
\* page size and whatever is published meanwhile, if the segments in use compare as
\* an order, no release is newer than those on the pages before it and the registry
\* lists versions (versions_exit_code, latest_release_version, github_latest).
THEOREM ReportsTellDrift ==
    ASSUME Comparable PROVE VersionsSpec /\ []PublishedInOrder => []ExitTellsDrift
BY ReportInvariant, ReportsTell, PTL

\* Where the segments in use compare as an order, the newest of a listing is newer
\* than the others however they are listed: mixed segments are all that stands
\* against compare_versions' comment (versions.rs:229).
THEOREM NewestOfAnOrder ==
    ASSUME Comparable PROVE VersionsSpec => []NewestWhateverTheOrder
<1> DEFINE Typed == upstream \in [Deps -> Seq(AllReleases)]
<1>1. VersionsInit => Typed
  BY VersionsAssumption DEF VersionsInit
<1>2. ASSUME Typed, [VersionsNext]_versionVars PROVE Typed'
  <2>1. CASE Publish
    <3>1. PICK dep \in Deps, r \in UNION {Publishable[d] : d \in Deps} :
            r \in Publishable[dep] /\ upstream' = [upstream EXCEPT ![dep] = <<r>> \o @]
      BY <2>1 DEF Publish
    <3>2. r \in AllReleases
      BY <3>1 DEF AllReleases
    <3>3. <<r>> \in Seq(AllReleases) /\ upstream[dep] \in Seq(AllReleases)
      BY <1>2, <3>2
    <3>4. PICK s, t : s = <<r>> /\ t = upstream[dep]
      OBVIOUS
    <3>5. s \o t \in Seq(AllReleases)
      BY <3>3, <3>4, LongerIs
    <3>6. QED
      BY <1>2, <3>1, <3>4, <3>5
  <2>2. CASE UNCHANGED upstream
    BY <1>2, <2>2
  <2>3. QED
    BY <1>2, <2>1, <2>2 DEF VersionsNext, versionVars, Build, Ask, Query, ExitCode, RequireBuiltRelease
<1>3. Typed => NewestWhateverTheOrder
  <2>1. ASSUME Typed, NEW dep \in Deps, NEW i \in DOMAIN upstream[dep]
        PROVE  ~Older(Newest(upstream[dep], DOMAIN upstream[dep]), upstream[dep][i].version)
    <3>1. PICK L : L = upstream[dep]
      OBVIOUS
    <3>2. L \in Seq(AllReleases) /\ i \in DOMAIN L
      BY <2>1, <3>1
    <3> DEFINE I == DOMAIN L
    <3>3. I \subseteq DOMAIN L /\ I # {}
      BY <3>2
    <3> HIDE DEF I
    <3>4. \A k \in I : ~Older(Newest(L, I), L[k].version)
      BY <3>2, <3>3, ReleasesAre, NewestIs DEF Newest
    <3>5. QED
      BY <3>1, <3>2, <3>4 DEF I
  <2>2. QED
    BY <2>1 DEF NewestWhateverTheOrder
<1>4. QED
  BY <1>1, <1>2, <1>3, PTL DEF VersionsSpec

\* A deploy that passed the gate of a built release finds its asset whole
\* (built_release_exists, require_built_release_at).
THEOREM DeploysFindTheAsset == VersionsSpec => []DeployFindsItsAsset
<1> DEFINE Phased == "phase" \in DOMAIN check
<1>1. VersionsInit => Phased /\ DeployFindsItsAsset
  BY DEF VersionsInit, NoCheck, DeployFindsItsAsset
<1>2. ASSUME Phased, DeployFindsItsAsset, [VersionsNext]_versionVars PROVE Phased' /\ DeployFindsItsAsset'
  <2>1. CASE RequireBuiltRelease
    BY <2>1 DEF RequireBuiltRelease, BuiltReleaseExists, NoCheck, DeployFindsItsAsset
  <2>2. CASE Ask
    <3>1. Phased' /\ check'.phase # "deployed"
      BY <2>2 DEF Ask, NoCheck, CheckEnded
    <3>2. QED
      BY <3>1 DEF DeployFindsItsAsset
  <2>3. CASE Publish \/ Build \/ UNCHANGED versionVars
    BY <1>2, <2>3 DEF Publish, Build, versionVars, DeployFindsItsAsset
  <2>4. CASE Query \/ ExitCode
    <3>1. check.phase = "asking"
      BY <2>4 DEF Query, ExitCode
    <3>2. \A exit : check' = CheckEnded(check, exit) => Phased' /\ check'.phase # "deployed"
      BY <1>2 DEF CheckEnded
    <3>3. \A latest : check' = Resolved(latest) => Phased' /\ check'.phase # "deployed"
      BY <1>2, <3>1 DEF Resolved
    <3>4. \A seen : check' = [check EXCEPT !.seen = seen, !.page = @ + 1] => Phased' /\ check'.phase # "deployed"
      BY <1>2, <3>1
    <3>5. \/ \E exit : check' = CheckEnded(check, exit)
          \/ \E latest : check' = Resolved(latest)
          \/ \E seen : check' = [check EXCEPT !.seen = seen, !.page = @ + 1]
      BY <2>4 DEF Query, ExitCode, GithubLatest, ListedLatest, NpmLatest
    <3>6. Phased' /\ check'.phase # "deployed"
      BY <3>2, <3>3, <3>4, <3>5
    <3>7. QED
      BY <3>6 DEF DeployFindsItsAsset
  <2>5. QED
    BY <1>2, <2>1, <2>2, <2>3, <2>4 DEF VersionsNext
<1>3. QED
  BY <1>1, <1>2, PTL DEF VersionsSpec
============================================================================
