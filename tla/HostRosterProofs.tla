-------------------------- MODULE HostRosterProofs --------------------------
(***************************************************************************)
(* What holds of the roster and the include for any number of processes,   *)
(* Hosts, commands and faults.                                             *)
(***************************************************************************)
EXTENDS HostRoster, TLAPS

\* The inductive invariant: the include and every roster a process is about to
\* publish are valid.  hosts.toml itself need not be: an operator edits it.
Publishable ==
    /\ at = [p \in Procs |-> at[p]]
    /\ mem = [p \in Procs |-> mem[p]]
    /\ Valid(include)
    /\ \A p \in Procs : at[p] \in {"fill", "publish"} => Valid(mem[p].roster)

\* A roster cut down to some of its entries is as valid as it was.
LEMMA ValidRestricted ==
    ASSUME NEW r, Valid(r), NEW S \in SUBSET DOMAIN r
    PROVE  Valid(Restrict(r, S))
  BY DEF Valid, Restrict

LEMMA PublishableInit == Init => Publishable
<1> SUFFICES ASSUME Init PROVE Publishable
  OBVIOUS
<1>1. Valid(include)
  <2>1. PICK S \in SUBSET Names : roster \in [S -> Entry]
    BY HostRosterAssumption DEF Init, Roster
  <2>2. ASSUME NEW h \in Entry
        PROVE  [h EXCEPT !.prefer = FALSE].prefer = FALSE
    BY DEF Entry
  <2>3. QED
    BY <2>1, <2>2 DEF Init, Valid
<1>2. QED
  BY <1>1 DEF Init, Publishable

\* Each step keeps it: a roster is validated where it enters "fill", held until
\* it is published, and only so does the include change.
LEMMA PublishableStep ==
    ASSUME Publishable, [Next]_vars
    PROVE  Publishable'
<1> USE DEF Publishable, Goto, Hold, Return, Nothing
<1>1. CASE UNCHANGED vars
  BY <1>1 DEF vars, Valid
<1>2. CASE Next
  <2> PICK p \in Procs : \/ \E j \in Jobs : Start(p, j)
                         \/ Step(p) \/ Fail(p) \/ Crash(p)
    BY <1>2 DEF Next
  <2>1. ASSUME NEW j \in Jobs, Start(p, j) PROVE Publishable'
    BY <2>1 DEF Start, Valid
  <2>2. CASE Load(p)
    BY <2>2 DEF Load, Valid
  <2>3. CASE Reload(p)
    BY <2>3 DEF Reload, Valid
  <2>4. CASE RenameRemote(p)
    BY <2>4 DEF RenameRemote, Valid
  <2>5. CASE MoveKeys(p)
    BY <2>5 DEF MoveKeys, Valid
  <2>6. CASE MoveTables(p)
    BY <2>6 DEF MoveTables, Valid
  <2>7. CASE Truncate(p)
    BY <2>7 DEF Truncate, Valid
  <2>8. CASE Fill(p)
    BY <2>8 DEF Fill, Valid
  <2>9. CASE Publish(p)
    BY <2>9 DEF Publish, Valid
  <2>10. CASE Override(p)
    BY <2>10 DEF Override, Valid
  <2>11. CASE Fail(p)
    <3>1. Valid(include')
      BY <2>11, ValidRestricted DEF Fail
    <3>2. QED
      BY <2>11, <3>1 DEF Fail, Valid
  <2>12. CASE Crash(p)
    BY <2>12 DEF Crash, Valid
  <2>13. QED
    BY <2>1, <2>2, <2>3, <2>4, <2>5, <2>6, <2>7, <2>8, <2>9, <2>10, <2>11, <2>12
       DEF Step
<1>3. QED
  BY <1>1, <1>2

\* However many commands run at once, fail or die, and whatever an operator has
\* written into hosts.toml by hand, the ssh include never sends a Host over a
\* tailnet address it does not have (Host::validate, write_roster).
THEOREM RoutesResolve == Spec => []PublishedRoutesResolve
<1>1. Publishable => PublishedRoutesResolve
  BY DEF Publishable, Valid, PublishedRoutesResolve
<1>2. QED
  BY PublishableInit, PublishableStep, <1>1, PTL DEF Spec

----------------------------------------------------------------------------
(* The include and the roster, when commands are given one at a time.       *)

\* The inductive invariant: the include lags only while it is said to, and what
\* is about to be published is what was written last.
Regenerated ==
    /\ at = [p \in Procs |-> at[p]]
    /\ mem = [p \in Procs |-> mem[p]]
    /\ stale \/ include = roster
    /\ \A p \in Procs : at[p] = "publish" => stale /\ mem[p].roster = roster

LEMMA RegeneratedInit == Init => Regenerated
  BY DEF Init, Regenerated

\* Each step keeps it: a write makes the include stale, the publication that
\* follows it publishes that write, and a command that is cut short between the
\* two leaves it stale.
LEMMA RegeneratedStep ==
    ASSUME \A p, q \in Procs : p = q, Regenerated, [Next]_vars
    PROVE  Regenerated'
<1> USE DEF Regenerated, Goto, Hold, Return, Nothing, history
<1>1. CASE UNCHANGED vars
  BY <1>1 DEF vars
<1>2. CASE Next
  <2> PICK p \in Procs : \/ \E j \in Jobs : Start(p, j)
                         \/ Step(p) \/ Fail(p) \/ Crash(p)
    BY <1>2 DEF Next
  <2>1. ASSUME NEW j \in Jobs, Start(p, j) PROVE Regenerated'
    BY <2>1 DEF Start
  <2>2. CASE Load(p)
    BY <2>2 DEF Load
  <2>3. CASE Reload(p)
    BY <2>3 DEF Reload
  <2>4. CASE RenameRemote(p)
    BY <2>4 DEF RenameRemote
  <2>5. CASE MoveKeys(p)
    BY <2>5 DEF MoveKeys
  <2>6. CASE MoveTables(p)
    BY <2>6 DEF MoveTables
  <2>7. CASE Truncate(p)
    BY <2>7 DEF Truncate
  <2>8. CASE Fill(p)
    BY <2>8 DEF Fill
  <2>9. CASE Publish(p)
    BY <2>9 DEF Publish
  <2>10. CASE Override(p)
    BY <2>10 DEF Override
  <2>11. CASE Fail(p)
    <3>1. CASE at[p] = "publish"
      BY <2>11, <3>1 DEF Fail
    <3>2. CASE at[p] # "publish"
      BY <2>11, <3>2 DEF Fail
    <3>3. QED
      BY <3>1, <3>2
  <2>12. CASE Crash(p)
    BY <2>12 DEF Crash
  <2>13. QED
    BY <2>1, <2>2, <2>3, <2>4, <2>5, <2>6, <2>7, <2>8, <2>9, <2>10, <2>11, <2>12
       DEF Step
<1>3. QED
  BY <1>1, <1>2

\* While one command runs at a time the include says what the roster says from
\* the next write that gets through on, however many writes and regenerations
\* failed or were cut short before it (write_roster).
THEOREM IncludeFollows ==
    ASSUME \A p, q \in Procs : p = q
    PROVE  Spec => []IncludeFollowsRoster
<1>1. Regenerated => IncludeFollowsRoster
  BY DEF Regenerated, IncludeFollowsRoster
<1>2. QED
  BY RegeneratedInit, RegeneratedStep, <1>1, PTL DEF Spec

----------------------------------------------------------------------------
(* Types.                                                                   *)

\* What a process between its reads and its write holds is a roster that has
\* the Host it is about.
Holding ==
    /\ mem \in [Procs -> [roster : Roster, answers : SUBSET (Tables \X Names)]]
    /\ \A p \in Procs :
         /\ at[p] \in {"remote", "keys", "config"} => job[p].op = "rename"
         /\ at[p] = "reload" => job[p].op \in {"add", "remove", "edit", "detect"}
         /\ (at[p] = "reload" /\ job[p].op # "add") \/ at[p] \in {"remote", "keys"} =>
              job[p].name \in DOMAIN mem[p].roster

Typed == TypeOK /\ Holding

LEMMA RosterIs ==
    \A r : r \in Roster <=> DOMAIN r \subseteq Names /\ r \in [DOMAIN r -> Entry]
<1>1. ASSUME NEW r, r \in Roster PROVE DOMAIN r \subseteq Names /\ r \in [DOMAIN r -> Entry]
  <2>1. PICK S \in SUBSET Names : r \in [S -> Entry]
    BY <1>1 DEF Roster
  <2>2. QED
    BY <2>1
<1>2. ASSUME NEW r, DOMAIN r \subseteq Names, r \in [DOMAIN r -> Entry] PROVE r \in Roster
  BY <1>2 DEF Roster
<1>3. QED
  BY <1>1, <1>2

LEMMA EmptyRoster == << >> \in Roster
<1>1. DOMAIN << >> = {} /\ << >> \in [{} -> Entry]
  OBVIOUS
<1>2. QED
  BY <1>1 DEF Roster

\* What a command makes of the rosters it read is a roster.
LEMMA UpdatedIs ==
    ASSUME NEW j \in Job, NEW now \in Roster, NEW first \in Roster,
           j.op \in {"add", "remove", "edit", "detect"},
           j.op # "add" => j.name \in DOMAIN first /\ j.name \in DOMAIN now
    PROVE  Updated(j, first, now) \in Roster
<1>1. j.name \in Names /\ j.entry \in Entry
  BY DEF Job
<1>2. DOMAIN now \subseteq Names /\ now \in [DOMAIN now -> Entry] /\ first \in [DOMAIN first -> Entry]
  BY RosterIs
<1>3. \A h, e \in Entry : Edited(h, e) \in Entry /\ Detected(h) \in Entry
  BY DEF Edited, Detected, PreferAnswer, Entry
<1>4. \A e \in Entry : [e EXCEPT !.ts = FALSE, !.prefer = FALSE] \in Entry
  BY DEF Entry
<1>5. CASE j.op = "add"
  <2>1. Updated(j, first, now) = [n \in DOMAIN now \cup {j.name} |->
                                    IF n # j.name THEN now[n]
                                    ELSE [j.entry EXCEPT !.ts = FALSE, !.prefer = FALSE]]
    BY <1>5 DEF Updated
  <2>2. /\ DOMAIN Updated(j, first, now) = DOMAIN now \cup {j.name}
        /\ Updated(j, first, now) \in [DOMAIN now \cup {j.name} -> Entry]
    BY <1>1, <1>2, <1>4, <2>1
  <2>3. QED
    BY <1>1, <1>2, <2>2, RosterIs
<1>6. CASE j.op = "remove"
  <2>1. Updated(j, first, now) = Restrict(now, DOMAIN now \ {j.name})
    BY <1>6 DEF Updated
  <2>2. Restrict(now, DOMAIN now \ {j.name}) \in [DOMAIN now \ {j.name} -> Entry]
    BY <1>2 DEF Restrict
  <2>3. QED
    BY <1>2, <2>1, <2>2, RosterIs
<1>7. CASE j.op = "edit"
  <2>1. Updated(j, first, now) = [now EXCEPT ![j.name] = Edited(first[j.name], j.entry)]
    BY <1>7 DEF Updated
  <2>2. QED
    BY <1>1, <1>2, <1>3, <1>7, <2>1, RosterIs
<1>8. CASE j.op = "detect"
  <2>1. Updated(j, first, now) = [now EXCEPT ![j.name] = Detected(first[j.name])]
    BY <1>8 DEF Updated
  <2>2. QED
    BY <1>1, <1>2, <1>3, <1>8, <2>1, RosterIs
<1>9. QED
  BY <1>5, <1>6, <1>7, <1>8

LEMMA RenamedIs ==
    ASSUME NEW r \in Roster, NEW old \in DOMAIN r, NEW new \in Names
    PROVE  /\ Renamed(r, old, new) \in Roster
           /\ DOMAIN Renamed(r, old, new) = (DOMAIN r \ {old}) \cup {new}
           /\ Renamed(r, old, new)[new].machine = r[old].machine
<1>1. DOMAIN r \subseteq Names /\ r \in [DOMAIN r -> Entry]
  BY RosterIs
<1>2. \A h \in Entry : [h EXCEPT !.key = IF @ = old THEN new ELSE @] \in Entry
  BY DEF Entry
<1>3. \A h \in Entry : [h EXCEPT !.key = IF @ = old THEN new ELSE @].machine = h.machine
  BY DEF Entry
<1>4. /\ DOMAIN Renamed(r, old, new) = (DOMAIN r \ {old}) \cup {new}
      /\ Renamed(r, old, new) \in [(DOMAIN r \ {old}) \cup {new} -> Entry]
  BY <1>1, <1>2 DEF Renamed
<1>5. QED
  BY <1>1, <1>3, <1>4, RosterIs DEF Renamed

LEMMA TypedInit == ASSUME Jobs # {} PROVE Init => Typed
<1> SUFFICES ASSUME Init PROVE Typed
  OBVIOUS
<1>1. PICK j \in Jobs : TRUE
  OBVIOUS
<1>2. j \in Job /\ j.name \in Names
  BY <1>1, HostRosterAssumption DEF Job
<1>3. roster \in Roster /\ DOMAIN roster \subseteq Names /\ roster \in [DOMAIN roster -> Entry]
  BY HostRosterAssumption, RosterIs DEF Init
<1>4. include \in Roster
  <2>1. \A h \in Entry : [h EXCEPT !.prefer = FALSE] \in Entry
    BY DEF Entry
  <2>2. include \in [DOMAIN roster -> Entry]
    BY <1>3, <2>1 DEF Init
  <2>3. QED
    BY <1>3, <2>2, RosterIs
<1>5. identities \subseteq Names /\ answers \subseteq Tables \X Names
  <2>1. \A n \in DOMAIN roster : KeyDir(n, roster[n]) \in Names \cup {"custom"}
    BY <1>3 DEF KeyDir, Entry
  <2>2. QED
    BY <1>3, <2>1 DEF Init
<1>6. hostname \in [Machines -> Names]
  <2> DEFINE Its(m, n) == (\E o \in DOMAIN roster : roster[o].machine = m)
                             => n \in DOMAIN roster /\ roster[n].machine = m
  <2>1. ASSUME NEW m \in Machines PROVE \E n \in Names : Its(m, n)
    BY <1>2, <1>3
  <2>2. ASSUME NEW m \in Machines PROVE (CHOOSE n \in Names : Its(m, n)) \in Names
    BY <2>1
  <2>3. hostname = [m \in Machines |-> CHOOSE n \in Names : Its(m, n)]
    BY DEF Init
  <2>4. QED
    BY <2>2, <2>3
<1>7. job \in [Procs -> Jobs]
  BY <1>1 DEF Init
<1>8. stale \in BOOLEAN
  BY DEF Init
<1>9. mem \in [Procs -> [roster : Roster, answers : SUBSET (Tables \X Names)]]
  BY EmptyRoster DEF Init, Nothing
<1>10. at = [p \in Procs |-> "idle"] /\ begun = 0 /\ faults = 0 /\ started = {}
       /\ torn = FALSE /\ tornConfig = FALSE
  BY DEF Init
<1>11. Holding
  BY <1>9, <1>10 DEF Holding
<1>12. TypeOK
  <2>1. \A p \in Procs : mem[p].roster \in Roster /\ mem[p].answers \subseteq Tables \X Names
    BY <1>9
  <2>2. MaxJobs \in Nat /\ MaxFaults \in Nat
    BY HostRosterAssumption
  <2>3. at \in [Procs -> Places] /\ begun \in 0..MaxJobs /\ faults \in 0..MaxFaults
    BY <1>10, <2>2 DEF Places
  <2>4. {torn, tornConfig, stale} \subseteq BOOLEAN
    BY <1>8, <1>10
  <2>5. started \subseteq Jobs
    BY <1>10
  <2>6. QED
    BY <1>3, <1>4, <1>5, <1>6, <1>7, <2>1, <2>3, <2>4, <2>5 DEF TypeOK
<1>13. QED
  BY <1>11, <1>12 DEF Typed

\* Each action keeps it.
LEMMA TypedStep ==
    ASSUME Typed, [Next]_vars
    PROVE  Typed'
<1> USE DEF Goto, Hold, Return, Nothing
<1>1. CASE UNCHANGED vars
  BY <1>1 DEF vars, Typed, TypeOK, Holding
<1>2. ASSUME NEW p \in Procs, NEW j \in Jobs, Start(p, j) PROVE Typed'
  <2>1. begun' \in 0..MaxJobs
    BY <1>2, HostRosterAssumption DEF Start, Typed, TypeOK
  <2>2. at' \in [Procs -> Places] /\ job' \in [Procs -> Jobs]
    BY <1>2 DEF Start, Typed, TypeOK, Places
  <2>3. at'[p] \in {"reload", "load"} /\ job'[p] = j /\ (at'[p] = "reload" => j.op = "add")
    BY <1>2 DEF Start, Typed, TypeOK
  <2>4. \A q \in Procs \ {p} : at'[q] = at[q] /\ job'[q] = job[q]
    BY <1>2 DEF Start, Typed, TypeOK
  <2>5. Holding'
    BY <1>2, <2>3, <2>4 DEF Start, Typed, Holding
  <2>6. TypeOK'
    BY <1>2, <2>1, <2>2 DEF Start, Typed, TypeOK, named
  <2>7. QED
    BY <2>5, <2>6 DEF Typed
<1>3. ASSUME NEW p \in Procs, Step(p) \/ Fail(p) \/ Crash(p) PROVE Typed'
  <2> DEFINE Held == [roster : Roster, answers : SUBSET (Tables \X Names)]
             j == job[p]
  <2>1. /\ at \in [Procs -> Places] /\ job \in [Procs -> Jobs] /\ mem \in [Procs -> Held]
        /\ roster \in Roster /\ include \in Roster /\ answers \subseteq Tables \X Names
        /\ mem[p] \in Held /\ j \in Job /\ j \in Jobs /\ j.name \in Names /\ j.to \in Names
    BY HostRosterAssumption DEF Typed, TypeOK, Holding, Job
  <2>2. [roster |-> << >>, answers |-> {}] \in Held
    BY EmptyRoster
  <2>3. job' = job /\ begun' = begun
    BY <1>3 DEF Step, Load, Reload, RenameRemote, MoveKeys, MoveTables, Truncate, Fill,
                Publish, Override, Fail, Crash, history
  <2>4. \A q \in Procs \ {p} : at'[q] = at[q] /\ mem'[q] = mem[q]
    BY <1>3 DEF Step, Load, Reload, RenameRemote, MoveKeys, MoveTables, Truncate, Fill,
                Publish, Override, Fail, Crash, history, Typed, TypeOK, Holding
  \* What a step of p does to what p holds.
  <2> DEFINE GoesTo(place) ==
        /\ at' = [at EXCEPT ![p] = place] /\ place \in Places
        /\ mem' \in [Procs -> Held]
        /\ place \in {"remote", "keys", "config"} => j.op = "rename"
        /\ place = "reload" => j.op \in {"add", "remove", "edit", "detect"}
        /\ (place = "reload" /\ j.op # "add") \/ place \in {"remote", "keys"} =>
             j.name \in DOMAIN mem'[p].roster
  <2>5. ASSUME NEW place, GoesTo(place) PROVE Holding' /\ at' \in [Procs -> Places]
    BY <2>1, <2>3, <2>4, <2>5 DEF Typed, Holding
  <2> DEFINE Kept == /\ roster' \in Roster /\ include' \in Roster
                     /\ {torn', tornConfig', stale'} \subseteq BOOLEAN
                     /\ identities' \subseteq Names /\ answers' \subseteq Tables \X Names
                     /\ hostname' \in [Machines -> Names]
                     /\ faults' \in 0..MaxFaults /\ started' \subseteq Jobs
  <2>6. ASSUME NEW place, GoesTo(place), Kept PROVE Typed'
    <3>1. Holding' /\ at' \in [Procs -> Places]
      BY <2>5, <2>6
    <3>2. job' \in [Procs -> Jobs] /\ begun' \in 0..MaxJobs
      BY <2>3 DEF Typed, TypeOK
    <3>3. \A q \in Procs : mem'[q].roster \in Roster /\ mem'[q].answers \subseteq Tables \X Names
      BY <2>6
    <3>4. TypeOK'
      BY <2>6, <3>1, <3>2, <3>3 DEF TypeOK
    <3>5. QED
      BY <3>1, <3>4 DEF Typed
  <2>7. Return(p) => GoesTo("idle")
    BY <2>1, <2>2 DEF Places
  <2>8. CASE Load(p)
    <3>1. Kept
      BY <2>1, <2>8 DEF Load, Typed, TypeOK, named
    <3>2. CASE Return(p)
      BY <2>6, <2>7, <3>1, <3>2
    <3>3. CASE /\ j.name \in DOMAIN roster /\ j.op \in {"remove", "edit", "detect"}
               /\ Goto(p, "reload") /\ Hold(p, roster, answers)
      BY <2>1, <2>6, <3>1, <3>3 DEF Places
    <3>4. CASE /\ j.name \in DOMAIN roster /\ j.op = "rename"
               /\ Goto(p, "remote") /\ Hold(p, roster, answers)
      BY <2>1, <2>6, <3>1, <3>4 DEF Places
    <3>5. QED
      BY <2>8, <3>2, <3>3, <3>4 DEF Load
  <2>9. CASE Reload(p)
    <3>1. Kept
      BY <2>1, <2>9 DEF Reload, Typed, TypeOK, named, history
    <3>2. CASE Return(p)
      BY <2>6, <2>7, <3>1, <3>2
    <3>3. CASE ~Return(p)
      <4>1. /\ at[p] = "reload"
            /\ Goto(p, "write") /\ Hold(p, Updated(j, mem[p].roster, roster), mem[p].answers)
            /\ (j.op = "add") # (j.name \in DOMAIN roster)
        BY <2>9, <3>3 DEF Reload
      <4>2. Updated(j, mem[p].roster, roster) \in Roster
        BY <2>1, <4>1, UpdatedIs DEF Typed, Holding
      <4>3. mem' \in [Procs -> Held]
        BY <2>1, <4>1, <4>2
      <4>4. GoesTo("write")
        BY <4>1, <4>3 DEF Places
      <4>5. QED
        BY <2>6, <3>1, <4>4
    <3>4. QED
      BY <3>2, <3>3
  <2>10. CASE RenameRemote(p)
    <3>1. mem[p].roster[j.name].machine \in Machines
      <4>1. j.name \in DOMAIN mem[p].roster
        BY <2>10 DEF RenameRemote, Typed, Holding
      <4>2. QED
        BY <2>1, <4>1, RosterIs DEF Entry
    <3>2. Kept
      BY <2>1, <2>10, <3>1 DEF RenameRemote, Typed, TypeOK, history
    <3>3. GoesTo("keys")
      BY <2>1, <2>10 DEF RenameRemote, Typed, Holding, Places
    <3>4. QED
      BY <2>6, <3>2, <3>3
  <2>11. CASE MoveKeys(p)
    <3>1. Kept
      BY <2>1, <2>11 DEF MoveKeys, Typed, TypeOK, history
    <3>2. CASE Return(p)
      BY <2>6, <2>7, <3>1, <3>2
    <3>3. CASE ~Return(p)
      <4>1. /\ at[p] = "keys" /\ Goto(p, "config")
            /\ Hold(p, Renamed(mem[p].roster, j.name, j.to), mem[p].answers)
        BY <2>11, <3>3 DEF MoveKeys
      <4>2. Renamed(mem[p].roster, j.name, j.to) \in Roster
        BY <2>1, <4>1, RenamedIs DEF Typed, Holding
      <4>3. GoesTo("config")
        BY <2>1, <4>1, <4>2 DEF Typed, Holding, Places
      <4>4. QED
        BY <2>6, <3>1, <4>3
    <3>4. QED
      BY <3>2, <3>3
  <2>12. CASE MoveTables(p)
    <3>1. Table(j.name) \in mem[p].answers => Table(j.to) \in Tables \X Names
      BY <2>1 DEF Table
    <3>2. answers' \subseteq Tables \X Names /\ tornConfig' \in BOOLEAN
      BY <2>1, <2>12, <3>1 DEF MoveTables, Typed, TypeOK
    <3>3. Kept
      BY <2>12, <3>2 DEF MoveTables, Typed, TypeOK, history
    <3>4. GoesTo("write")
      BY <2>1, <2>12 DEF MoveTables, Places
    <3>5. QED
      BY <2>6, <3>3, <3>4
  <2>13. CASE Truncate(p)
    <3>1. Kept
      BY <2>13 DEF Truncate, Typed, TypeOK, named, history
    <3>2. CASE Return(p)
      BY <2>6, <2>7, <3>1, <3>2
    <3>3. CASE Goto(p, "fill") /\ UNCHANGED mem
      <4>1. GoesTo("fill")
        BY <2>1, <3>3 DEF Places
      <4>2. QED
        BY <2>6, <3>1, <4>1
    <3>4. QED
      BY <2>13, <3>2, <3>3 DEF Truncate
  <2>14. CASE Fill(p)
    <3>1. torn' \in BOOLEAN
      BY <2>14 DEF Fill, Typed, TypeOK
    <3>2. Kept
      BY <2>1, <2>14, <3>1 DEF Fill, Typed, TypeOK, named
    <3>3. GoesTo("publish")
      BY <2>1, <2>14 DEF Fill, Places
    <3>4. QED
      BY <2>6, <3>2, <3>3
  <2>15. CASE Publish(p)
    <3>1. Kept
      BY <2>1, <2>15 DEF Publish, Typed, TypeOK, named
    <3>2. CASE Return(p)
      BY <2>6, <2>7, <3>1, <3>2
    <3>3. CASE Goto(p, "override") /\ UNCHANGED mem
      <4>1. GoesTo("override")
        BY <2>1, <3>3 DEF Places
      <4>2. QED
        BY <2>6, <3>1, <4>1
    <3>4. QED
      BY <2>15, <3>2, <3>3 DEF Publish
  <2>16. CASE Override(p)
    <3>1. answers' \subseteq Tables \X Names
      <4>1. CASE UNCHANGED answers
        BY <2>1, <4>1
      <4>2. CASE answers' = mem[p].answers \cup {Table(j.name)}
        BY <2>1, <4>2, HostRosterAssumption DEF Table
      <4>3. CASE answers' = mem[p].answers \ {Table(j.name)}
        BY <2>1, <4>3
      <4>4. QED
        BY <2>16, <4>1, <4>2, <4>3 DEF Override
    <3>2. tornConfig' \in BOOLEAN
      BY <2>16 DEF Override, Typed, TypeOK
    <3>3. Kept
      BY <2>16, <3>1, <3>2 DEF Override, Typed, TypeOK, history
    <3>4. QED
      BY <2>6, <2>7, <2>16, <3>3 DEF Override
  <2>17. CASE Fail(p)
    <3>1. \A S \in SUBSET DOMAIN mem[p].roster : Restrict(mem[p].roster, S) \in Roster
      <4>1. mem[p].roster \in [DOMAIN mem[p].roster -> Entry] /\ DOMAIN mem[p].roster \subseteq Names
        BY <2>1, RosterIs
      <4>2. \A S \in SUBSET DOMAIN mem[p].roster :
              DOMAIN Restrict(mem[p].roster, S) = S /\ Restrict(mem[p].roster, S) \in [S -> Entry]
        BY <4>1 DEF Restrict
      <4>3. QED
        BY <4>1, <4>2, RosterIs
    <3>2. include' \in Roster
      BY <2>1, <2>17, <3>1 DEF Fail
    <3>3. faults' \in 0..MaxFaults
      BY <2>17, HostRosterAssumption DEF Fail, Typed, TypeOK
    <3>4. Kept
      BY <2>17, <3>2, <3>3 DEF Fail, Typed, TypeOK, named
    <3>5. QED
      BY <2>6, <2>7, <2>17, <3>4 DEF Fail
  <2>18. CASE Crash(p)
    <3>1. faults' \in 0..MaxFaults
      BY <2>18, HostRosterAssumption DEF Crash, Typed, TypeOK
    <3>2. Kept
      BY <2>18, <3>1 DEF Crash, Typed, TypeOK
    <3>3. QED
      BY <2>6, <2>7, <2>18, <3>2 DEF Crash
  <2>19. QED
    BY <1>3, <2>8, <2>9, <2>10, <2>11, <2>12, <2>13, <2>14, <2>15, <2>16, <2>17, <2>18
       DEF Step
<1>4. QED
  BY <1>1, <1>2, <1>3 DEF Next

\* Whatever is in hosts.toml to begin with, and whatever fails or dies, each
\* variable keeps its type: in particular what a command is about to write is a
\* roster, since it has the Host it changes (the second read of add_host,
\* remove_host and update_host).
THEOREM TypeCorrect ==
    ASSUME Jobs # {}
    PROVE  Spec => []TypeOK
<1>1. Typed => TypeOK
  BY DEF Typed
<1>2. QED
  BY TypedInit, TypedStep, <1>1, PTL DEF Spec

----------------------------------------------------------------------------
(* What a command does to a Host while no other command runs.               *)

OneCommand == \A p, q \in Procs : p = q

Writes == {"write", "fill"}
EditPlaces == {"reload", "write", "fill", "publish", "override"}

\* A rename under way: the roster it holds is the one on disk, or that with the
\* Host under its new name, and what it is past has moved.
Renaming(p) ==
    LET old == job[p].name  new == job[p].to
    IN  /\ at[p] \in {"remote", "keys", "config"} \cup Writes =>
             /\ old \in DOMAIN roster /\ new \notin DOMAIN roster
             /\ mem[p].roster = IF at[p] \in {"remote", "keys"} THEN roster
                                ELSE Renamed(roster, old, new)
        /\ at[p] \in {"remote", "keys", "config"} => mem[p].answers = answers
        /\ at[p] \in {"keys", "config"} \cup Writes => hostname[roster[old].machine] = new
        /\ at[p] \in {"config"} \cup Writes => old \notin identities
        /\ at[p] \in Writes => Table(old) \notin answers

\* Any other command: what it first read is still there, and what it is about to
\* write is the roster on disk with its one change.
Changing(p) ==
    /\ at[p] = "reload" /\ job[p].op # "add" => mem[p].roster = roster
    /\ job[p].op = "edit" /\ at[p] \in EditPlaces => mem[p].answers = answers
    /\ at[p] \in Writes =>
         /\ job[p].op \in {"add", "remove", "edit", "detect"}
         /\ mem[p].roster = Updated(job[p], roster, roster)
         /\ job[p].op # "add" => job[p].name \in DOMAIN roster
         /\ job[p].op = "add" => job[p].name \notin DOMAIN roster

\* The inductive invariant: what a command holds is in step with the files.
InStep == \A p \in Procs : IF job[p].op = "rename" THEN Renaming(p) ELSE Changing(p)

LEMMA InStepInit == Init => InStep
  BY DEF Init, InStep, Renaming, Changing, Writes, EditPlaces

\* Each step keeps it, for only the command itself changes a file it has read.
LEMMA InStepStep ==
    ASSUME \A p, q \in Procs : p = q, Typed, InStep, [Next]_vars
    PROVE  InStep'
<1> USE DEF Goto, Hold, Return, Nothing
<1>1. CASE UNCHANGED vars
  BY <1>1 DEF vars, InStep, Renaming, Changing
<1>2. ASSUME NEW p \in Procs, NEW j \in Jobs, Start(p, j) PROVE InStep'
  <2>1. job'[p] = j /\ at'[p] = (IF j.op = "add" THEN "reload" ELSE "load")
    BY <1>2 DEF Start, Typed, TypeOK
  <2>2. IF job'[p].op = "rename" THEN Renaming(p)' ELSE Changing(p)'
    BY <2>1 DEF Renaming, Changing, Writes, EditPlaces
  <2>3. QED
    BY <2>2 DEF InStep
<1>3. ASSUME NEW p \in Procs, Step(p) \/ Fail(p) \/ Crash(p) PROVE InStep'
  <2> DEFINE Held == [roster : Roster, answers : SUBSET (Tables \X Names)]
             j == job[p]
  <2>1. /\ at \in [Procs -> Places] /\ job \in [Procs -> Jobs] /\ mem \in [Procs -> Held]
        /\ roster \in Roster /\ j \in Job /\ j.name \in Names /\ j.to \in Names
    BY HostRosterAssumption DEF Typed, TypeOK, Holding, Job
  <2>2. job' = job
    BY <1>3 DEF Step, Load, Reload, RenameRemote, MoveKeys, MoveTables, Truncate, Fill,
                Publish, Override, Fail, Crash, history
  <2>3. SUFFICES IF j.op = "rename" THEN Renaming(p)' ELSE Changing(p)'
    BY <2>2 DEF InStep
  <2>4. ASSUME at'[p] \in {"idle", "load"}
        PROVE  IF j.op = "rename" THEN Renaming(p)' ELSE Changing(p)'
    BY <2>4 DEF Renaming, Changing, Writes, EditPlaces
  <2>5. Return(p) => at'[p] = "idle"
    BY <2>1
  <2>6. CASE Load(p)
    <3>1. CASE Return(p)
      BY <2>4, <2>5, <3>1
    <3>2. CASE /\ j.name \in DOMAIN roster /\ j.op \in {"remove", "edit", "detect"}
               /\ Goto(p, "reload") /\ Hold(p, roster, answers)
      <4>1. at'[p] = "reload" /\ mem'[p].roster = roster /\ mem'[p].answers = answers
        BY <2>1, <3>2
      <4>2. UNCHANGED <<roster, answers>>
        BY <2>6 DEF Load, named
      <4>3. QED
        BY <2>2, <3>2, <4>1, <4>2 DEF Changing, Writes, EditPlaces
    <3>3. CASE /\ j.op = "rename" /\ Preflight(j)
               /\ Goto(p, "remote") /\ Hold(p, roster, answers)
      <4>1. at'[p] = "remote" /\ mem'[p].roster = roster /\ mem'[p].answers = answers
        BY <2>1, <3>3
      <4>2. UNCHANGED <<roster, answers>>
        BY <2>6 DEF Load, named
      <4>3. QED
        BY <2>2, <3>3, <4>1, <4>2 DEF Renaming, Preflight, Writes
    <3>4. QED
      BY <2>6, <3>1, <3>2, <3>3 DEF Load
  <2>7. CASE Reload(p)
    <3>1. CASE Return(p)
      BY <2>4, <2>5, <3>1
    <3>2. CASE ~Return(p)
      <4>1. /\ at[p] = "reload"
            /\ Goto(p, "write") /\ Hold(p, Updated(j, mem[p].roster, roster), mem[p].answers)
            /\ (j.op = "add") # (j.name \in DOMAIN roster)
            /\ UNCHANGED <<roster, answers>>
        BY <2>7, <3>2 DEF Reload, named
      <4>2. j.op \in {"add", "remove", "edit", "detect"}
        BY <4>1 DEF Typed, Holding
      <4>3. Changing(p)
        BY <4>2 DEF InStep
      <4>4. Updated(j, mem[p].roster, roster) = Updated(j, roster, roster)
        <5>1. CASE j.op = "add"
          BY <5>1 DEF Updated
        <5>2. CASE j.op # "add"
          BY <4>1, <4>3, <5>2 DEF Changing
        <5>3. QED
          BY <5>1, <5>2
      <4>5. /\ at'[p] = "write" /\ mem'[p].roster = Updated(j, roster, roster)
            /\ mem'[p].answers = mem[p].answers
        BY <2>1, <4>1, <4>4
      <4>6. Changing(p)'
        BY <2>2, <4>1, <4>2, <4>3, <4>5 DEF Changing, Writes, EditPlaces
      <4>7. QED
        BY <4>2, <4>6
    <3>3. QED
      BY <3>1, <3>2
  <2>8. CASE RenameRemote(p)
    <3>1. /\ at[p] = "remote" /\ at'[p] = "keys" /\ j.op = "rename"
          /\ UNCHANGED <<roster, answers, mem>>
      BY <2>1, <2>8 DEF RenameRemote, Typed, Holding
    <3>2. Renaming(p)
      BY <3>1 DEF InStep
    <3>3. mem[p].roster = roster /\ j.name \in DOMAIN roster /\ j.to \notin DOMAIN roster
      BY <3>1, <3>2 DEF Renaming
    <3>4. roster[j.name].machine \in Machines
      BY <2>1, <3>3, RosterIs DEF Entry
    <3>5. hostname'[roster[j.name].machine] = j.to
      BY <2>8, <3>3, <3>4 DEF RenameRemote, Typed, TypeOK
    <3>6. Renaming(p)'
      BY <2>2, <3>1, <3>2, <3>3, <3>5 DEF Renaming, Writes
    <3>7. QED
      BY <3>1, <3>6
  <2>9. CASE MoveKeys(p)
    <3>1. CASE Return(p)
      BY <2>4, <2>5, <3>1
    <3>2. CASE ~Return(p)
      <4>1. /\ at[p] = "keys" /\ j.op = "rename" /\ ~({j.name, j.to} \subseteq identities)
            /\ identities' = (IF j.name \in identities
                              THEN (identities \ {j.name}) \cup {j.to} ELSE identities)
            /\ Goto(p, "config") /\ Hold(p, Renamed(mem[p].roster, j.name, j.to), mem[p].answers)
            /\ UNCHANGED <<roster, answers, hostname>>
        BY <2>9, <3>2 DEF MoveKeys, Typed, Holding
      <4>2. /\ at'[p] = "config" /\ mem'[p].roster = Renamed(mem[p].roster, j.name, j.to)
            /\ mem'[p].answers = mem[p].answers
        BY <2>1, <4>1
      <4>3. Renaming(p)
        BY <4>1 DEF InStep
      <4>4. j.name # j.to /\ j.name \notin identities'
        BY <4>1, <4>3 DEF Renaming
      <4>5. Renaming(p)'
        BY <2>2, <4>1, <4>2, <4>3, <4>4 DEF Renaming, Writes
      <4>6. QED
        BY <4>1, <4>5
    <3>3. QED
      BY <3>1, <3>2
  <2>10. CASE MoveTables(p)
    <3>1. /\ at[p] = "config" /\ j.op = "rename" /\ at'[p] = "write"
          /\ answers' = (IF Table(j.name) \in mem[p].answers
                         THEN (mem[p].answers \ {Table(j.name)}) \cup {Table(j.to)} ELSE answers)
          /\ UNCHANGED <<roster, identities, hostname, mem>>
      BY <2>1, <2>10 DEF MoveTables, Typed, Holding
    <3>2. Renaming(p)
      BY <3>1 DEF InStep
    <3>3. Table(j.name) # Table(j.to)
      BY <3>1, <3>2 DEF Renaming, Table
    <3>4. Table(j.name) \notin answers'
      BY <3>1, <3>2, <3>3 DEF Renaming
    <3>5. Renaming(p)'
      BY <2>2, <3>1, <3>2, <3>4 DEF Renaming, Writes
    <3>6. QED
      BY <3>1, <3>5
  <2>11. CASE Truncate(p)
    <3>1. CASE Return(p)
      BY <2>4, <2>5, <3>1
    <3>2. CASE at'[p] = "fill" /\ UNCHANGED mem
      <4>1. at[p] = "write" /\ UNCHANGED <<roster, answers, identities, hostname>>
        BY <2>11 DEF Truncate, named
      <4>2. QED
        BY <2>2, <3>2, <4>1 DEF InStep, Renaming, Changing, Writes, EditPlaces
    <3>3. QED
      BY <2>1, <2>11, <3>1, <3>2 DEF Truncate
  <2>12. CASE Fill(p)
    <3>1. at[p] = "fill" /\ at'[p] = "publish" /\ UNCHANGED <<mem, answers>>
      BY <2>1, <2>12 DEF Fill, named
    <3>2. QED
      BY <2>2, <3>1 DEF InStep, Renaming, Changing, Writes, EditPlaces
  <2>13. CASE Publish(p)
    <3>1. CASE Return(p)
      BY <2>4, <2>5, <3>1
    <3>2. CASE at'[p] = "override" /\ UNCHANGED mem
      <4>1. at[p] = "publish" /\ UNCHANGED answers
        BY <2>13 DEF Publish, named
      <4>2. QED
        BY <2>2, <3>2, <4>1 DEF InStep, Renaming, Changing, Writes, EditPlaces
    <3>3. QED
      BY <2>1, <2>13, <3>1, <3>2 DEF Publish
  <2>14. CASE Override(p) \/ Fail(p) \/ Crash(p)
    BY <2>4, <2>5, <2>14 DEF Override, Fail, Crash
  <2>15. QED
    BY <1>3, <2>6, <2>7, <2>8, <2>9, <2>10, <2>11, <2>12, <2>13, <2>14 DEF Step
<1>4. QED
  BY <1>1, <1>2, <1>3 DEF Next

\* A process leaves "fill" for "publish" by writing hosts.toml.
LEMMA CommitIsFill ==
    ASSUME OneCommand, Typed, Next, NEW p \in Procs, at[p] = "fill", at'[p] = "publish"
    PROVE  Fill(p)
<1>1. PICK q \in Procs : (\E j \in Jobs : Start(q, j)) \/ Step(q) \/ Fail(q) \/ Crash(q)
  BY DEF Next
<1>2. q = p
  BY DEF OneCommand
<1>3. QED
  BY <1>1, <1>2
     DEF Start, Step, Fail, Crash, Load, Reload, RenameRemote, MoveKeys, MoveTables, Truncate,
         Publish, Override, Return, Goto, Typed, TypeOK

\* While one command runs at a time, detect-tailscale-ip leaves every Host routed
\* as it was: it caches an address and turns no route on
\* (with_detected_tailscale_ip).
THEOREM DetectionsNeverRoute ==
    ASSUME Jobs # {}, OneCommand
    PROVE  Spec => DetectNeverRoutes
<1>1. ASSUME Typed, InStep, [Next]_vars
      PROVE  [\A p \in Procs : at[p] = "fill" /\ at'[p] = "publish" /\ job[p].op = "detect"
                => \A n \in DOMAIN roster' : roster'[n].prefer => roster[n].prefer]_vars
  <2> SUFFICES ASSUME NEW p \in Procs, Next,
                      at[p] = "fill", at'[p] = "publish", job[p].op = "detect",
                      NEW n \in DOMAIN roster', roster'[n].prefer
               PROVE  roster[n].prefer
    BY <1>1
  <2>1. Fill(p)
    BY <1>1, CommitIsFill
  <2>2. Changing(p)
    BY <1>1 DEF InStep
  <2>3. /\ roster' = Updated(job[p], roster, roster) /\ job[p].name \in DOMAIN roster
    BY <2>1, <2>2 DEF Fill, Changing, Writes
  <2>4. roster \in [DOMAIN roster -> Entry]
    BY <1>1, RosterIs DEF Typed, TypeOK
  <2>5. \A h \in Entry : Detected(h).prefer = h.prefer
    BY DEF Entry, Detected
  <2>6. roster' = [roster EXCEPT ![job[p].name] = Detected(roster[job[p].name])]
    BY <2>3 DEF Updated
  <2>7. QED
    BY <2>3, <2>4, <2>5, <2>6
<1>2. QED
  BY TypedInit, TypedStep, InStepInit, InStepStep, <1>1, PTL DEF Spec, DetectNeverRoutes, OneCommand

\* While one command runs at a time, the write of hosts.toml is the last thing a
\* rename does: when it lands, the machine, the key directory and the table of
\* config.toml go by the new name already, and whatever cut the rename short
\* before has left the old name in the roster (run_host_rename).
THEOREM CommitsAreLast ==
    ASSUME Jobs # {}, OneCommand
    PROVE  Spec => CommitIsLast
<1>1. ASSUME Typed, InStep, [Next]_vars
      PROVE  [\A p \in Procs : at[p] = "fill" /\ at'[p] = "publish" /\ job[p].op = "rename"
                => Moved(job[p], roster'[job[p].to].machine)]_vars
  <2> SUFFICES ASSUME NEW p \in Procs, Next,
                      at[p] = "fill", at'[p] = "publish", job[p].op = "rename"
               PROVE  Moved(job[p], roster'[job[p].to].machine)
    BY <1>1
  <2>1. Fill(p)
    BY <1>1, CommitIsFill
  <2>2. Renaming(p)
    BY <1>1 DEF InStep
  <2>3. /\ job[p].name \in DOMAIN roster /\ roster \in Roster /\ job[p].to \in Names
        /\ roster' = Renamed(roster, job[p].name, job[p].to)
    BY <1>1, <2>1, <2>2, HostRosterAssumption DEF Fill, Renaming, Writes, Typed, TypeOK, Job
  <2>4. roster'[job[p].to].machine = roster[job[p].name].machine
    BY <2>3, RenamedIs
  <2>5. QED
    BY <2>2, <2>4 DEF Renaming, Moved, Writes, Table
<1>2. QED
  BY TypedInit, TypedStep, InStepInit, InStepStep, <1>1, PTL DEF Spec, CommitIsLast, OneCommand

----------------------------------------------------------------------------
(* A rename that is given again.                                            *)

\* No write is cut off in the middle (RerunIsTheFix has the other case), and
\* while the rename of a Host is not through, no command but list and
\* detect-tailscale-ip is about its two names.
NoTears == "tear" \notin Faults
OneRename ==
    \A j, k \in Jobs : j.op = "rename" /\ k # j =>
        /\ k.op # "rename"
        /\ k.op \in {"list", "detect"} \/ k.name \notin {j.name, j.to}

\* What the place of a command says of it.
PlacesKnown == \A p \in Procs : /\ at[p] = "fill" => torn
                                /\ at[p] = "override" => job[p].op = "edit"

\* The inductive invariant: a rename that was begun would pass its preflight at
\* every moment, its own steps included, until its roster is written.
Rerunnable ==
    /\ ~tornConfig
    /\ torn => \E p \in Procs : at[p] = "fill"
    /\ PlacesKnown
    /\ \A j \in started : j.op = "rename" /\ Preflight(j)

\* A preflight looks at five places; what leaves them alone leaves it passed.
LEMMA PreflightKept ==
    ASSUME NEW j, Preflight(j), UNCHANGED <<roster, identities, answers>>, ~tornConfig'
    PROVE  Preflight(j)'
  BY DEF Preflight, KeysMovable, TablesMovable, KeyFound, KeyExists

\* The write of another command keeps the Host, its key and its route.
LEMMA OthersKeep ==
    ASSUME NEW j \in Job, NEW k \in Job, NEW r, r \in Roster,
           j.name \in DOMAIN r, j.to \notin DOMAIN r,
           k.op \in {"add", "remove", "edit", "detect"},
           k.op # "add" => k.name \in DOMAIN r,
           k.op = "detect" \/ k.name \notin {j.name, j.to}
    PROVE  LET now == Updated(k, r, r)
           IN  /\ j.name \in DOMAIN now /\ j.to \notin DOMAIN now
               /\ now[j.name].key = r[j.name].key
               /\ now[j.name].prefer = r[j.name].prefer
               /\ r[j.name].ts => now[j.name].ts
<1>1. DOMAIN r \subseteq Names /\ r \in [DOMAIN r -> Entry]
  BY RosterIs
<1>2. CASE k.op = "add"
  BY <1>1, <1>2 DEF Updated
<1>3. CASE k.op = "remove"
  BY <1>1, <1>3 DEF Updated, Restrict
<1>4. CASE k.op = "edit"
  BY <1>1, <1>4 DEF Updated
<1>5. CASE k.op = "detect"
  <2>1. Updated(k, r, r) = [r EXCEPT ![k.name] = Detected(r[k.name])]
    BY <1>5 DEF Updated
  <2>2. \A h \in Entry : /\ Detected(h).key = h.key /\ Detected(h).prefer = h.prefer
                         /\ h.ts => Detected(h).ts
    BY DEF Entry, Detected
  <2>3. CASE k.name = j.name
    BY <1>1, <1>5, <2>1, <2>2, <2>3
  <2>4. CASE k.name # j.name
    BY <1>1, <1>5, <2>1, <2>4
  <2>5. QED
    BY <2>3, <2>4
<1>6. QED
  BY <1>2, <1>3, <1>4, <1>5

LEMMA RerunnableInit == Init => Rerunnable
  BY DEF Init, Rerunnable, PlacesKnown

LEMMA PlacesKnownStep ==
    ASSUME OneCommand, Typed, PlacesKnown, [Next]_vars
    PROVE  PlacesKnown'
<1> USE DEF Goto, Hold, Return, PlacesKnown
<1>1. CASE UNCHANGED vars
  BY <1>1 DEF vars
<1>2. ASSUME NEW p \in Procs, NEW j \in Jobs, Start(p, j) PROVE PlacesKnown'
  BY <1>2 DEF Start, OneCommand, Typed, TypeOK
<1>3. ASSUME NEW p \in Procs, Step(p) \/ Fail(p) \/ Crash(p) PROVE PlacesKnown'
  <2>1. at \in [Procs -> Places] /\ \A q \in Procs : q = p
    BY DEF Typed, TypeOK, OneCommand
  <2>2. CASE Load(p) \/ Reload(p) \/ RenameRemote(p) \/ MoveKeys(p) \/ MoveTables(p)
    BY <2>1, <2>2 DEF Load, Reload, RenameRemote, MoveKeys, MoveTables
  <2>3. CASE Truncate(p)
    BY <2>1, <2>3 DEF Truncate
  <2>4. CASE Fill(p) \/ Publish(p) \/ Override(p)
    BY <2>1, <2>4 DEF Fill, Publish, Override
  <2>5. CASE Fail(p) \/ Crash(p)
    BY <2>1, <2>5 DEF Fail, Crash
  <2>6. QED
    BY <1>3, <2>2, <2>3, <2>4, <2>5 DEF Step
<1>4. QED
  BY <1>1, <1>2, <1>3 DEF Next

LEMMA RerunnableStep ==
    ASSUME OneCommand, NoTears, OneRename, Typed, InStep, Rerunnable, [Next]_vars
    PROVE  Rerunnable'
<1> USE DEF Goto, Hold, Return, Nothing
<1>0. PlacesKnown'
  BY PlacesKnownStep DEF Rerunnable
<1>1. CASE UNCHANGED vars
  BY <1>0, <1>1, PreflightKept DEF vars, Rerunnable
<1>2. ASSUME NEW p \in Procs, NEW j \in Jobs, Start(p, j) PROVE Rerunnable'
  <2>1. torn => FALSE
    BY <1>2 DEF Start, Rerunnable, OneCommand
  <2>2. QED
    BY <1>0, <1>2, <2>1, PreflightKept DEF Start, Rerunnable, named
<1>3. ASSUME NEW p \in Procs, Step(p) \/ Fail(p) \/ Crash(p) PROVE Rerunnable'
  <2> DEFINE j == job[p]
  <2>1. /\ at \in [Procs -> Places] /\ j \in Jobs /\ j \in Job /\ roster \in Roster
        /\ started \subseteq Jobs /\ started \subseteq Job
    BY HostRosterAssumption DEF Typed, TypeOK
  <2>2. torn => at[p] = "fill"
    BY DEF Rerunnable, OneCommand
  <2>3. CASE Load(p)
    <3>1. \A k \in started' : k.op = "rename" /\ Preflight(k)
      BY <2>3 DEF Load, Rerunnable
    <3>2. ~torn' /\ ~tornConfig' /\ UNCHANGED <<roster, identities, answers>>
      BY <2>2, <2>3 DEF Load, Rerunnable, named
    <3>3. QED
      BY <3>1, <3>2, <1>0, PreflightKept DEF Rerunnable
  <2>4. CASE Reload(p) \/ RenameRemote(p) \/ Publish(p)
    <3>1. ~torn' /\ ~tornConfig' /\ UNCHANGED <<roster, identities, answers, started>>
      BY <2>2, <2>4 DEF Reload, RenameRemote, Publish, Rerunnable, named, history
    <3>2. QED
      BY <3>1, <1>0, PreflightKept DEF Rerunnable
  <2>5. CASE Truncate(p)
    <3>1. ~tornConfig' /\ UNCHANGED <<roster, identities, answers, started>>
      BY <2>5 DEF Truncate, Rerunnable, named, history
    <3>2. torn' => at'[p] = "fill"
      BY <2>1, <2>2, <2>5 DEF Truncate
    <3>3. QED
      BY <3>1, <3>2, <1>0, PreflightKept DEF Rerunnable
  <2>6. CASE MoveKeys(p)
    <3>1. ~torn' /\ ~tornConfig' /\ UNCHANGED <<roster, answers, started>>
      BY <2>2, <2>6 DEF MoveKeys, Rerunnable, history
    <3>2. ASSUME NEW k \in started PROVE Preflight(k)'
      <4>1. Preflight(k) /\ k.op = "rename"
        BY <3>2 DEF Rerunnable
      <4>2. CASE UNCHANGED identities
        BY <3>1, <4>1, <4>2, PreflightKept
      <4>3. CASE ~UNCHANGED identities
        <5>1. j.op = "rename"
          BY <2>6 DEF MoveKeys, Typed, Holding
        <5>2. k = j
          BY <2>1, <4>1, <5>1 DEF OneRename
        <5>3. identities' = (identities \ {k.name}) \cup {k.to}
          BY <2>6, <4>3, <5>2 DEF MoveKeys
        <5>4. k.name # k.to
          BY <4>1 DEF Preflight
        <5>5. KeysMovable(k.name, k.to)'
          BY <5>3, <5>4 DEF KeysMovable
        <5>6. KeyFound(roster[k.name], k.name, k.to)'
          BY <3>1, <4>1, <5>3 DEF Preflight, KeyFound, KeyExists
        <5>7. QED
          BY <3>1, <4>1, <5>5, <5>6 DEF Preflight, TablesMovable
      <4>4. QED
        BY <4>2, <4>3
    <3>3. QED
      BY <1>0, <3>1, <3>2 DEF Rerunnable
  <2>7. CASE MoveTables(p)
    <3>1. ~torn' /\ ~tornConfig' /\ UNCHANGED <<roster, identities, started>>
      BY <2>2, <2>7 DEF MoveTables, Rerunnable, history
    <3>2. j.op = "rename" /\ at[p] = "config"
      BY <2>7 DEF MoveTables, Typed, Holding
    <3>3. mem[p].answers = answers
      BY <3>2 DEF InStep, Renaming
    <3>4. ASSUME NEW k \in started PROVE Preflight(k)'
      <4>1. Preflight(k) /\ k.op = "rename"
        BY <3>4 DEF Rerunnable
      <4>2. k = j
        BY <2>1, <3>2, <4>1 DEF OneRename
      <4>3. Table(k.name) # Table(k.to)
        BY <4>1 DEF Preflight, Table
      <4>4. TablesMovable(k.name, k.to)'
        BY <2>7, <3>3, <4>1, <4>2, <4>3 DEF MoveTables, TablesMovable, Preflight
      <4>5. QED
        BY <3>1, <4>1, <4>4 DEF Preflight, KeysMovable, KeyFound, KeyExists
    <3>5. QED
      BY <1>0, <3>1, <3>4 DEF Rerunnable
  <2>8. CASE Fill(p)
    <3>1. /\ at[p] = "fill" /\ roster' = mem[p].roster /\ started' = started \ {j}
          /\ UNCHANGED <<identities, answers, tornConfig>>
      BY <2>8 DEF Fill, named
    <3>2. ASSUME NEW k \in started, k # j PROVE Preflight(k)'
      <4>1. Preflight(k) /\ k.op = "rename" /\ k \in Jobs /\ k \in Job
        BY <2>1, <3>2 DEF Rerunnable
      <4>2. j.op # "rename" /\ (j.op \in {"list", "detect"} \/ j.name \notin {k.name, k.to})
        BY <2>1, <3>2, <4>1 DEF OneRename
      <4>3. /\ j.op \in {"add", "remove", "edit", "detect"}
            /\ roster' = Updated(j, roster, roster)
            /\ j.op # "add" => j.name \in DOMAIN roster
        BY <3>1, <4>2 DEF InStep, Changing, Writes
      <4>4. /\ k.name \in DOMAIN roster' /\ k.to \notin DOMAIN roster'
            /\ roster'[k.name].key = roster[k.name].key
            /\ roster'[k.name].prefer = roster[k.name].prefer
            /\ roster[k.name].ts => roster'[k.name].ts
        BY <2>1, <4>1, <4>2, <4>3, OthersKeep DEF Preflight
      <4>5. KeyFound(roster[k.name], k.name, k.to)'
        BY <3>1, <4>1, <4>4 DEF Preflight, KeyFound, KeyExists, KeyDir
      <4>6. QED
        BY <3>1, <4>1, <4>4, <4>5 DEF Preflight, KeysMovable, TablesMovable
    <3>3. ~torn'
      BY <2>8, <3>1 DEF Fill, Rerunnable, PlacesKnown
    <3>4. QED
      BY <1>0, <3>1, <3>2, <3>3 DEF Rerunnable
  <2>9. CASE Override(p)
    <3>1. ~torn' /\ ~tornConfig' /\ UNCHANGED <<roster, identities, started>>
      BY <2>2, <2>9 DEF Override, Rerunnable, history
    <3>2. j.op = "edit" /\ mem[p].answers = answers
      <4>1. at[p] = "override" /\ j.op = "edit"
        BY <2>9 DEF Override, Rerunnable, PlacesKnown
      <4>2. QED
        BY <4>1 DEF InStep, Changing, EditPlaces
    <3>3. ASSUME NEW k \in started PROVE Preflight(k)'
      <4>1. Preflight(k) /\ k.op = "rename" /\ k \in Jobs
        BY <2>1, <3>3 DEF Rerunnable
      <4>2. j.name \notin {k.name, k.to}
        BY <2>1, <3>2, <4>1 DEF OneRename
      <4>3. Table(j.name) \notin {Table(k.name), Table(k.to)}
        BY <4>2 DEF Table
      <4>4. TablesMovable(k.name, k.to)'
        BY <2>9, <3>2, <4>1, <4>3 DEF Override, TablesMovable, Preflight
      <4>5. QED
        BY <3>1, <4>1, <4>4 DEF Preflight, KeysMovable, KeyFound, KeyExists
    <3>4. QED
      BY <1>0, <3>1, <3>3 DEF Rerunnable
  <2>10. CASE Fail(p)
    <3>1. ~torn' /\ ~tornConfig' /\ UNCHANGED <<roster, identities, answers, started>>
      BY <2>2, <2>10 DEF Fail, Rerunnable, named
    <3>2. QED
      BY <3>1, <1>0, PreflightKept DEF Rerunnable
  <2>11. CASE Crash(p)
    <3>1. ~torn' /\ ~tornConfig' /\ UNCHANGED <<roster, identities, answers, started>>
      BY <2>2, <2>11 DEF Crash, Rerunnable, NoTears
    <3>2. QED
      BY <3>1, <1>0, PreflightKept DEF Rerunnable
  <2>12. QED
    BY <1>3, <2>3, <2>4, <2>5, <2>6, <2>7, <2>8, <2>9, <2>10, <2>11 DEF Step
<1>4. QED
  BY <1>1, <1>2, <1>3 DEF Next

\* A rename that was begun can be given again, wherever an error or a death cut
\* it short: the roster is whole and the preflight passes, half-moved as the
\* name may be (ADR-0024, preflight_identities, rename_host_overrides).
THEOREM RerunsPass ==
    ASSUME Jobs # {}, OneCommand, NoTears, OneRename
    PROVE  Spec => [](RerunPasses /\ RerunIsTheFix)
<1>1. Rerunnable => RerunPasses /\ RerunIsTheFix
  BY DEF Rerunnable, RerunPasses, RerunIsTheFix, Quiet
<1>2. QED
  BY TypedInit, TypedStep, InStepInit, InStepStep, RerunnableInit, RerunnableStep, <1>1, PTL
     DEF Spec, OneCommand
=============================================================================
