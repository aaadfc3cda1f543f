-------------------------- MODULE KnownHostsProofs --------------------------
(***************************************************************************)
(* What holds of the trust store for any number of Hosts, keys, commands,  *)
(* reinstallations and deaths, while one command runs at a time, every     *)
(* address is declared under one name and no command goes to a Host by a   *)
(* name that a rename gave it.                                             *)
(***************************************************************************)
EXTENDS KnownHosts, TLAPS

OneCommand == \A p, q \in Procs : p = q
OneNameEach == \A r \in Rosters : \A n, o \in DOMAIN r : r[n].machine = r[o].machine => n = o
NewNamesUnused == \A j, k \in Jobs : j.op = "rename" => k.name # j.to

\* The names commands go by, and those of them that are in the roster.
Named == {j.name : j \in Jobs}
Resident == Named \cap DOMAIN roster
OnFile(m) == legacy[<<m, "port">>] \cup legacy[<<m, "bare">>]

Work == [roster : Roster \cup {<< >>}, names : SUBSET Names, copy : SUBSET Names,
         keys : SUBSET Keys, targets : SUBSET Targets, again : BOOLEAN]

Typed ==
    /\ alias \in [Names -> SUBSET Keys] /\ legacy \in [Targets -> SUBSET Keys]
    /\ installed \in [Machines -> Keys] /\ roster \in Roster
    /\ at \in [Procs -> {"idle", "migrate", "append", "inspect", "forget",
                         "connect", "commit"}]
    /\ job = [p \in Procs |-> job[p]]
    /\ mem \in [Procs -> Work]
    /\ verified \in [Machines -> SUBSET Keys] /\ dropped \in [Names -> SUBSET Keys]

\* A command works on the roster as it is, and goes to a Host that is in it.
Current == \A p \in Procs :
    /\ at[p] # "idle" => /\ job[p] \in Jobs /\ mem[p].roster = roster
                         /\ mem[p].names \subseteq DOMAIN roster
    /\ at[p] \in {"inspect", "forget", "connect", "commit"} =>
         job[p].name \in Resident /\ mem[p].names = {}
    /\ at[p] = "append" => mem[p].copy \subseteq DOMAIN roster
    /\ at[p] = "commit" => job[p].op = "rename"

Apart == \A n, o \in Resident : roster[n].machine = roster[o].machine => n = o

\* What the operator trusts of a Host's machine is on file; a machine whose own
\* key is on file has no other under its name, and none that would be inherited
\* first.
Backs(n) ==
    LET m == roster[n].machine
    IN  /\ verified[m] \subseteq alias[n] \cup OnFile(m)
        /\ installed[m] \in alias[n] \cup OnFile(m) => alias[n] \subseteq {installed[m]}
        /\ installed[m] \in OnFile(m) =>
             /\ legacy[<<m, "port">>] \subseteq {installed[m]}
             /\ legacy[<<m, "port">>] = {} => legacy[<<m, "bare">>] \subseteq {installed[m]}
        /\ roster[n].port = "std" => legacy[<<m, "port">>] = {}
Backed == \A n \in Resident : Backs(n)

\* What was forgotten is gone from wherever the name could inherit it.
Clean(n) ==
    LET m == roster[n].machine
    IN  /\ installed[m] \notin dropped[n]
        /\ dropped[n] # {} => \A t \in LegacyTargets(m, roster[n].port) : legacy[t] = {}
Gone ==
    /\ ForgetSticks
    /\ \A n \in Names \ Named : dropped[n] = {}
    /\ \A n \in Resident : Clean(n)

\* A command that has looked at a name found a key for it where there is one.
Found(p, n) ==
    LET m == roster[n].machine
    IN  /\ at[p] # "idle" /\ n \notin mem[p].names /\ ~(at[p] = "append" /\ n \in mem[p].copy)
             => (verified[m] # {} => alias[n] # {})
        /\ at[p] = "append" /\ n \in mem[p].copy =>
             /\ alias[n] = {} /\ dropped[n] = {} /\ mem[p].keys # {}
             /\ mem[p].keys \subseteq OnFile(m)
             /\ installed[m] \in OnFile(m) => mem[p].keys \subseteq {installed[m]}
Looked == \A p \in Procs : \A n \in Resident : Found(p, n)

\* A command that is going to forget a Host does so because of another key than
\* the one it offers, and forgets all there is.
Refused(p) == \/ at[p] \in {"migrate", "append"} /\ mem[p].again
              \/ at[p] = "forget" /\ mem[p].copy # {}
Forgets(p, n) ==
    LET m == roster[n].machine
    IN  /\ installed[m] \notin OnFile(m)
        /\ Refused(p) => alias[n] # {} /\ installed[m] \notin alias[n]
        /\ at[p] = "forget" =>
             /\ mem[p].targets \subseteq {m} \X Spellings
             /\ \A t \in LegacyTargets(m, roster[n].port) :
                  t \in mem[p].targets \/ (mem[p].copy = {} /\ legacy[t] = {})
        /\ at[p] = "forget" /\ mem[p].copy = {} =>
             alias[n] = {} /\ verified[m] = {} /\ installed[m] \notin mem[p].keys
Forgetting == \A p \in Procs : Refused(p) \/ at[p] = "forget" =>
    job[p].name \in Resident /\ Forgets(p, job[p].name)

Inv == Typed /\ Current /\ Apart /\ Backed /\ Gone /\ Looked /\ Forgetting

\* A roster names Hosts and says where they are.
LEMMA RosterEntries ==
    ASSUME NEW r \in Roster
    PROVE  /\ r = [n \in DOMAIN r |-> r[n]] /\ DOMAIN r \subseteq Names
           /\ \A n \in DOMAIN r : r[n] \in Entry
  BY DEF Roster

\* What a Host's key may be filed under, spelling by spelling.
LEMMA TargetsOf ==
    ASSUME NEW m \in Machines, NEW q \in Ports
    PROVE  /\ LegacyTargets(m, q) \subseteq Targets
           /\ LegacyTargets(m, q) \subseteq {m} \X Spellings
           /\ <<m, "bare">> \in LegacyTargets(m, q)
           /\ q # "std" => LegacyTargets(m, q) = {<<m, "bare">>, <<m, "port">>}
           /\ q = "std" => LegacyTargets(m, q) = {<<m, "bare">>}
  BY DEF LegacyTargets, Targets, Spellings, Ports

\* A name inherits what is on file for the machine, of the first spelling that
\* has any.
LEMMA InheritedIs ==
    ASSUME Typed, NEW m \in Machines, NEW q \in Ports
    PROVE  /\ Inherited(m, q) \subseteq OnFile(m) /\ Inherited(m, q) \subseteq Keys
           /\ q # "std" /\ legacy[<<m, "port">>] # {} => Inherited(m, q) = legacy[<<m, "port">>]
           /\ q = "std" \/ legacy[<<m, "port">>] = {} => Inherited(m, q) = legacy[<<m, "bare">>]
           /\ (\A t \in LegacyTargets(m, q) : legacy[t] = {}) => Inherited(m, q) = {}
<1>1. \A t \in Targets : legacy[t] \in SUBSET Keys
  BY DEF Typed
<1>2. <<m, "bare">> \in Targets /\ <<m, "port">> \in Targets
  BY DEF Targets, Spellings
<1>3. CASE q = "std"
  <2>1. LegacyTargets(m, q) = {<<m, "bare">>}
    BY <1>3, TargetsOf
  <2>2. <<m, "port">> \notin {t \in LegacyTargets(m, q) : legacy[t] # {}}
    BY <2>1
  <2>3. Inherited(m, q) = UNION {legacy[t] : t \in {t \in {<<m, "bare">>} : legacy[t] # {}}}
    BY <2>1, <2>2 DEF Inherited
  <2>4. Inherited(m, q) = legacy[<<m, "bare">>]
    BY <2>3
  <2>5. QED
    BY <1>1, <1>2, <1>3, <2>1, <2>4 DEF OnFile
<1>4. CASE q # "std" /\ legacy[<<m, "port">>] # {}
  <2>1. LegacyTargets(m, q) = {<<m, "bare">>, <<m, "port">>}
    BY <1>4, TargetsOf
  <2>2. <<m, "port">> \in {t \in LegacyTargets(m, q) : legacy[t] # {}}
    BY <1>4, <2>1
  <2>3. Inherited(m, q) = legacy[<<m, "port">>]
    BY <2>2 DEF Inherited
  <2>4. QED
    BY <1>1, <1>2, <1>4, <2>1, <2>3 DEF OnFile
<1>5. CASE q # "std" /\ legacy[<<m, "port">>] = {}
  <2>1. LegacyTargets(m, q) = {<<m, "bare">>, <<m, "port">>}
    BY <1>5, TargetsOf
  <2>2. <<m, "port">> \notin {t \in LegacyTargets(m, q) : legacy[t] # {}}
    BY <1>5
  <2>3. Inherited(m, q) = UNION {legacy[t] : t \in
                            {t \in {<<m, "bare">>, <<m, "port">>} : legacy[t] # {}}}
    BY <2>1, <2>2 DEF Inherited
  <2>4. Inherited(m, q) = legacy[<<m, "bare">>]
    BY <1>5, <2>3
  <2>5. QED
    BY <1>1, <1>2, <1>5, <2>1, <2>4 DEF OnFile
<1>6. QED
  BY <1>3, <1>4, <1>5

LEMMA StepCases ==
    ASSUME [Next]_vars
    PROVE  \/ UNCHANGED vars
           \/ \E p \in Procs : \/ \E j \in Jobs : Start(p, j)
                               \/ \E n \in Names : Look(p, n)
                               \/ Append(p) \/ HaveRead(p) \/ Inspect(p)
                               \/ ForgetAlias(p) \/ \E t \in Targets : ForgetTarget(p, t)
                               \/ Forgotten(p) \/ Connect(p) \/ Rename(p) \/ Crash(p)
           \/ \E m \in Machines, k \in Keys : Reinstall(m, k)
  BY Zenon DEF Next, Step

----------------------------------------------------------------------------
(* The types.                                                              *)

LEMMA TypedInit == Init => Typed
<1> SUFFICES ASSUME Init PROVE Typed
  OBVIOUS
<1> USE KnownHostsAssumption
<1>1. roster \in Roster
  BY DEF Init
<1>2. mem \in [Procs -> Work]
  BY DEF Init, NoWork, Work
<1>3. verified \in [Machines -> SUBSET Keys]
  BY DEF Init
<1>4. QED
  BY <1>1, <1>2, <1>3 DEF Init, Typed

\* What a command finds when it looks a name up.
LEMMA LookTyped ==
    ASSUME Typed, Current, NEW p \in Procs, NEW n \in Names, Look(p, n)
    PROVE  Typed'
<1> DEFINE e == mem[p].roster[n]
           keys == IF alias[n] = {} THEN Inherited(e.machine, e.port) ELSE {}
           w == [mem[p] EXCEPT !.names = @ \ {n}, !.copy = {n}, !.keys = keys]
<1>1. mem[p] \in Work /\ mem[p].roster = roster /\ n \in DOMAIN roster
  BY DEF Typed, Current, Look
<1>2. e \in Entry
  BY <1>1, RosterEntries DEF Typed
<1>3. keys \in SUBSET Keys
  BY <1>2, InheritedIs DEF Entry
<1> HIDE DEF keys
<1>4. w \in Work
  BY <1>1, <1>3 DEF Work
<1>5. mem' = [mem EXCEPT ![p] = w]
  BY <1>1 DEF Look, keys, Typed, Work
<1> HIDE DEF w
<1>6. mem' \in [Procs -> Work]
  BY <1>4, <1>5 DEF Typed
<1>7. at' \in [Procs -> {"idle", "migrate", "append", "inspect", "forget", "connect", "commit"}]
  BY DEF Typed, Look, Goto
<1>8. QED
  BY <1>6, <1>7 DEF Typed, Look, filed

LEMMA TypedStep ==
    ASSUME Typed, Current, [Next]_vars
    PROVE  Typed'
<1> USE DEF Goto, Return, filed, counts
<1>1. CASE UNCHANGED vars
  BY <1>1 DEF vars, Typed
<1>2. ASSUME NEW p \in Procs, NEW j \in Jobs, Start(p, j) PROVE Typed'
  <2>1. [NoWork EXCEPT !.roster = roster, !.names = DOMAIN roster, !.again = FALSE] \in Work
    BY RosterEntries DEF Typed, NoWork, Work
  <2>2. QED
    BY <1>2, <2>1 DEF Start, Read, Typed
<1>3. ASSUME NEW p \in Procs, NEW n \in Names, Look(p, n) PROVE Typed'
  BY <1>3, LookTyped
<1>4. ASSUME NEW p \in Procs, Append(p) PROVE Typed'
  BY <1>4 DEF Append, Typed, Work
<1>5. ASSUME NEW p \in Procs, HaveRead(p) PROVE Typed'
  <2>1. NoWork \in Work
    BY DEF NoWork, Work
  <2>2. CASE UNCHANGED mem
    BY <1>5, <2>2 DEF HaveRead, Typed
  <2>3. CASE Return(p)
    BY <1>5, <2>1, <2>3 DEF HaveRead, Typed
  <2>4. CASE mem[p].again /\ ~(UNCHANGED mem) /\ ~Return(p)
    <3> DEFINE ts == KeyTargets(job[p].name, Declared(p).machine, job[p].port, mem[p].roster)
               w == [mem[p] EXCEPT !.copy = {job[p].name}, !.targets = ts]
    <3>1. /\ Goto(p, "forget") /\ mem' = [mem EXCEPT ![p].copy = {job[p].name}, ![p].targets = ts]
          /\ job[p].name \in DOMAIN mem[p].roster /\ at[p] = "migrate"
      BY <1>5, <2>4 DEF HaveRead
    <3>2. job[p] \in Job /\ mem[p].roster = roster /\ mem[p] \in Work
      BY <3>1, KnownHostsAssumption DEF Current, Typed
    <3>3. Declared(p) \in Entry
      BY <3>1, <3>2, RosterEntries DEF Typed, Declared
    <3>4. ts \in SUBSET Targets
      BY <3>1, <3>2, <3>3, TargetsOf DEF KeyTargets, Declared, Entry, Job
    <3> HIDE DEF ts
    <3>5. w \in Work
      BY <3>2, <3>4 DEF Work, Job
    <3>6. mem' = [mem EXCEPT ![p] = w]
      BY <3>1, <3>2 DEF Typed, Work
    <3>7. QED
      BY <1>5, <3>1, <3>5, <3>6 DEF HaveRead, Typed
  <2>5. QED
    BY <1>5, <2>2, <2>3, <2>4 DEF HaveRead
<1>6. ASSUME NEW p \in Procs, Inspect(p) PROVE Typed'
  <2>1. [NoWork EXCEPT !.roster = roster, !.names = DOMAIN roster, !.again = TRUE] \in Work
    BY RosterEntries DEF Typed, NoWork, Work
  <2>2. QED
    BY <1>6, <2>1 DEF Inspect, Read, Typed
<1>7. ASSUME NEW p \in Procs, ForgetAlias(p) PROVE Typed'
  <2> DEFINE ks == alias[job[p].name] \cup UNION {legacy[t] : t \in mem[p].targets}
             w == [mem[p] EXCEPT !.copy = {}, !.keys = ks]
  <2>1. mem[p] \in Work /\ job[p] \in Job /\ job[p].name \in DOMAIN roster /\ mem[p].roster = roster
    BY <1>7, KnownHostsAssumption DEF ForgetAlias, Typed, Current, Resident
  <2>2. ks \in SUBSET Keys
    BY <2>1 DEF Typed, Work, Job
  <2> HIDE DEF ks
  <2>3. w \in Work
    BY <2>1, <2>2 DEF Work
  <2>4. mem' = [mem EXCEPT ![p] = w]
    BY <1>7, <2>1 DEF ForgetAlias, ks, Typed, Work
  <2>5. mem' \in [Procs -> Work]
    BY <2>3, <2>4 DEF Typed
  <2>6. QED
    BY <1>7, <2>5 DEF ForgetAlias, Typed
<1>8. ASSUME NEW p \in Procs, NEW t \in Targets, ForgetTarget(p, t) PROVE Typed'
  BY <1>8 DEF ForgetTarget, Typed, Work
<1>9. ASSUME NEW p \in Procs, Forgotten(p) PROVE Typed'
  BY <1>9 DEF Forgotten, Typed, Work
<1>10. ASSUME NEW p \in Procs, Connect(p) PROVE Typed'
  <2>1. NoWork \in Work
    BY DEF NoWork, Work
  <2>2. Declared(p).machine \in Machines
    BY <1>10, RosterEntries DEF Connect, Declared, Typed, Current, Resident, Entry
  <2>3. {installed[Declared(p).machine]} \in SUBSET Keys
    BY <2>2 DEF Typed
  <2>4. alias' \in [Names -> SUBSET Keys]
    BY <1>10, <2>3 DEF Connect, Typed
  <2>5. verified' \in [Machines -> SUBSET Keys]
    BY <1>10, <2>3 DEF Connect, Typed
  <2>6. QED
    BY <1>10, <2>1, <2>4, <2>5 DEF Connect, Typed
<1>11. ASSUME NEW p \in Procs, Rename(p) PROVE Typed'
  <2>1. NoWork \in Work
    BY DEF NoWork, Work
  <2>2. roster' \in Roster
    <3> DEFINE n == job[p].name   to == job[p].to
    <3>1. mem[p].roster = roster /\ job[p] \in Job /\ n \in DOMAIN roster
      BY <1>11, KnownHostsAssumption DEF Rename, Current, Resident
    <3>2. \A x \in (DOMAIN roster \ {n}) \cup {to} :
             (IF x = to THEN roster[n] ELSE roster[x]) \in Entry
      BY <3>1, RosterEntries DEF Typed
    <3>3. (DOMAIN roster \ {n}) \cup {to} \in SUBSET Names
      BY <3>1, RosterEntries DEF Typed, Job
    <3>4. [x \in (DOMAIN roster \ {n}) \cup {to} |-> IF x = to THEN roster[n] ELSE roster[x]]
             \in [(DOMAIN roster \ {n}) \cup {to} -> Entry]
      BY <3>2
    <3>5. QED
      BY <1>11, <3>1, <3>3, <3>4 DEF Rename, Typed, Roster
  <2>3. QED
    BY <1>11, <2>1, <2>2 DEF Rename, Typed
<1>12. ASSUME NEW p \in Procs, Crash(p) PROVE Typed'
  <2>1. NoWork \in Work
    BY DEF NoWork, Work
  <2>2. QED
    BY <1>12, <2>1 DEF Crash, Typed
<1>13. ASSUME NEW m \in Machines, NEW k \in Keys, Reinstall(m, k) PROVE Typed'
  BY <1>13 DEF Reinstall, Typed
<1>14. QED
  BY StepCases, <1>1, <1>2, <1>3, <1>4, <1>5, <1>6, <1>7, <1>8, <1>9, <1>10, <1>11,
     <1>12, <1>13

----------------------------------------------------------------------------
(* One command at a time: what it read is what there is.                   *)

LEMMA CurrentStep ==
    ASSUME OneCommand, NewNamesUnused, Typed, Current, [Next]_vars
    PROVE  Current'
<1> USE DEF Goto, Return, filed, counts, Current, Resident
<1>0. mem \in [Procs -> Work] /\ \A p \in Procs : mem[p] \in Work
  BY DEF Typed
<1>1. CASE UNCHANGED vars
  BY <1>1 DEF vars
<1>2. ASSUME NEW p \in Procs, NEW j \in Jobs, Start(p, j) PROVE Current'
  BY <1>2, <1>0 DEF Start, Read, Typed, OneCommand
<1>3. ASSUME NEW p \in Procs, NEW n \in Names, Look(p, n) PROVE Current'
  <2>1. /\ mem'[p].roster = mem[p].roster /\ mem'[p].names = mem[p].names \ {n}
        /\ mem'[p].copy = {n}
    BY <1>0, <1>3 DEF Look, Work
  <2>2. QED
    BY <1>0, <1>3, <2>1 DEF Look, Typed, OneCommand
<1>4. ASSUME NEW p \in Procs, Append(p) PROVE Current'
  BY <1>4 DEF Append, Typed, OneCommand
<1>5. ASSUME NEW p \in Procs, HaveRead(p) PROVE Current'
  <2>1. at'[p] # "idle" => mem'[p].roster = mem[p].roster /\ mem'[p].names = mem[p].names
    BY <1>0, <1>5 DEF HaveRead, Work, Typed
  <2>2. at'[p] # "idle" => job[p].name \in DOMAIN mem[p].roster /\ mem[p].names = {}
    BY <1>0, <1>5 DEF HaveRead, Typed
  <2>3. at'[p] = "commit" => job[p].op = "rename"
    BY <1>0, <1>5 DEF HaveRead, Typed
  <2>4. at[p] # "idle" /\ at'[p] # "append"
    BY <1>5 DEF HaveRead, Typed
  <2>5. QED
    BY <1>5, <2>1, <2>2, <2>3, <2>4 DEF HaveRead, OneCommand, Named
<1>6. ASSUME NEW p \in Procs, Inspect(p) PROVE Current'
  <2>1. CASE Read(p, TRUE)
    BY <1>6, <2>1 DEF Inspect, Read, Typed, OneCommand
  <2>2. CASE Goto(p, "connect") /\ UNCHANGED mem
    BY <1>6, <2>2 DEF Inspect, Typed, OneCommand
  <2>3. QED
    BY <1>6, <2>1, <2>2 DEF Inspect
<1>7. ASSUME NEW p \in Procs, ForgetAlias(p) PROVE Current'
  <2>1. mem'[p].roster = mem[p].roster /\ mem'[p].names = mem[p].names
    BY <1>0, <1>7 DEF ForgetAlias, Work
  <2>2. QED
    BY <1>0, <1>7, <2>1 DEF ForgetAlias, Typed, OneCommand
<1>8. ASSUME NEW p \in Procs, NEW t \in Targets, ForgetTarget(p, t) PROVE Current'
  <2>1. mem'[p].roster = mem[p].roster /\ mem'[p].names = mem[p].names
    BY <1>0, <1>8 DEF ForgetTarget, Work
  <2>2. QED
    BY <1>0, <1>8, <2>1 DEF ForgetTarget, Typed, OneCommand
<1>9. ASSUME NEW p \in Procs, Forgotten(p) PROVE Current'
  <2>1. mem'[p].roster = mem[p].roster /\ mem'[p].names = mem[p].names
    BY <1>0, <1>9 DEF Forgotten, Work
  <2>2. QED
    BY <1>0, <1>9, <2>1 DEF Forgotten, Typed, OneCommand
<1>10. ASSUME NEW p \in Procs, Connect(p) PROVE Current'
  BY <1>10, <1>0 DEF Connect, Typed, OneCommand
<1>11. ASSUME NEW p \in Procs, Rename(p) PROVE Current'
  BY <1>11, <1>0 DEF Rename, Typed, OneCommand
<1>12. ASSUME NEW p \in Procs, Crash(p) PROVE Current'
  BY <1>12, <1>0 DEF Crash, Typed, OneCommand
<1>13. ASSUME NEW m \in Machines, NEW k \in Keys, Reinstall(m, k) PROVE Current'
  BY <1>13 DEF Reinstall
<1>14. QED
  BY StepCases, <1>1, <1>2, <1>3, <1>4, <1>5, <1>6, <1>7, <1>8, <1>9, <1>10, <1>11,
     <1>12, <1>13

\* A rename takes a name out of those commands go by, and adds none to them.
LEMMA ResidentsStay ==
    ASSUME OneCommand, NewNamesUnused, Typed, Current, [Next]_vars
    PROVE  /\ Resident' \subseteq Resident
           /\ \A n \in Resident' : roster'[n] = roster[n]
<1>1. ASSUME NEW p \in Procs, Rename(p)
      PROVE  Resident' \subseteq Resident /\ \A n \in Resident' : roster'[n] = roster[n]
  <2>1. job[p] \in Jobs /\ job[p].op = "rename" /\ mem[p].roster = roster
    BY <1>1 DEF Rename, Current
  <2>2. job[p].to \notin Named
    BY <2>1 DEF Named, NewNamesUnused
  <2>3. CASE roster' = roster
    BY <2>3 DEF Resident
  <2>4. CASE roster' # roster
    <3>1. roster' = [x \in (DOMAIN roster \ {job[p].name}) \cup {job[p].to} |->
                       IF x = job[p].to THEN roster[job[p].name] ELSE roster[x]]
      BY <1>1, <2>1, <2>4 DEF Rename
    <3>2. QED
      BY <2>2, <3>1 DEF Resident
  <2>5. QED
    BY <2>3, <2>4
<1>2. CASE roster' = roster
  BY <1>2 DEF Resident
<1>3. (\E p \in Procs : Rename(p)) \/ roster' = roster
  BY StepCases DEF vars, Start, Look, Append, HaveRead, Inspect, ForgetAlias, ForgetTarget,
     Forgotten, Connect, Crash, Reinstall
<1>4. QED
  BY <1>1, <1>2, <1>3

LEMMA ApartStep ==
    ASSUME OneCommand, NewNamesUnused, Typed, Current, Apart, [Next]_vars
    PROVE  Apart'
  BY ResidentsStay DEF Apart

\* Where a Host that commands go to is.
LEMMA ResidentEntry ==
    ASSUME Typed, NEW n \in Resident
    PROVE  n \in Names /\ n \in Named /\ roster[n].machine \in Machines /\ roster[n].port \in Ports
  BY RosterEntries DEF Typed, Resident, Entry

----------------------------------------------------------------------------
(* What the operator trusts is on file.                                    *)

LEMMA BackedStep ==
    ASSUME OneCommand, NewNamesUnused, Inv, [Next]_vars
    PROVE  Backed'
<1> USE DEF Inv
<1> SUFFICES ASSUME NEW n \in Resident' PROVE Backs(n)'
  BY DEF Backed
<1> DEFINE m == roster[n].machine
<1>0. /\ n \in Resident /\ roster'[n] = roster[n] /\ Backs(n)
      /\ n \in Names /\ m \in Machines /\ roster[n].port \in Ports
  BY ResidentsStay, ResidentEntry DEF Backed
<1>t. /\ <<m, "port">> \in Targets /\ <<m, "bare">> \in Targets
      /\ \A t \in Targets : legacy[t] \in SUBSET Keys
  BY <1>0 DEF Targets, Spellings, Typed
<1>1. CASE UNCHANGED <<alias, legacy, installed, verified>>
  BY <1>0, <1>1 DEF Backs, OnFile
<1>2. ASSUME NEW p \in Procs, Append(p) PROVE Backs(n)'
  <2>1. UNCHANGED <<legacy, installed, verified>> /\ at[p] = "append"
    BY <1>2 DEF Append
  <2>2. alias'[n] = IF n \in mem[p].copy THEN alias[n] \cup mem[p].keys ELSE alias[n]
    BY <1>0, <1>2 DEF Append
  <2>3. CASE n \in mem[p].copy
    <3>1. alias[n] = {} /\ mem[p].keys \subseteq OnFile(m)
          /\ (installed[m] \in OnFile(m) => mem[p].keys \subseteq {installed[m]})
      BY <1>0, <2>1, <2>3 DEF Looked, Found
    <3>2. alias'[n] = mem[p].keys
      BY <2>2, <2>3, <3>1
    <3>3. QED
      BY <1>0, <2>1, <3>1, <3>2 DEF Backs, OnFile
  <2>4. CASE n \notin mem[p].copy
    BY <1>0, <2>1, <2>2, <2>4 DEF Backs, OnFile
  <2>5. QED
    BY <2>3, <2>4
<1>3. ASSUME NEW p \in Procs, ForgetAlias(p) PROVE Backs(n)'
  <2>1. /\ UNCHANGED <<legacy, installed>> /\ at[p] = "forget"
        /\ job[p].name \in Resident /\ mem[p].roster = roster
    BY <1>3 DEF ForgetAlias, filed, Current
  <2>2. /\ alias' = [alias EXCEPT ![job[p].name] = {}]
        /\ verified' = [verified EXCEPT ![roster[job[p].name].machine] = {}]
    BY <1>3, <2>1 DEF ForgetAlias, Declared
  <2>3. CASE n = job[p].name
    BY <1>0, <2>1, <2>2, <2>3 DEF Typed, Backs, OnFile
  <2>4. CASE n # job[p].name
    <3>1. m # roster[job[p].name].machine
      BY <1>0, <2>1, <2>4 DEF Apart
    <3>2. alias'[n] = alias[n] /\ verified'[m] = verified[m]
      BY <1>0, <2>2, <2>4, <3>1 DEF Typed
    <3>3. QED
      BY <1>0, <2>1, <3>2 DEF Backs, OnFile
  <2>5. QED
    BY <2>3, <2>4
<1>4. ASSUME NEW p \in Procs, NEW t \in Targets, ForgetTarget(p, t) PROVE Backs(n)'
  <2>1. /\ UNCHANGED <<alias, installed, verified>> /\ at[p] = "forget" /\ mem[p].copy = {}
        /\ t \in mem[p].targets /\ legacy' = [legacy EXCEPT ![t] = {}]
    BY <1>4 DEF ForgetTarget
  <2>2. Forgets(p, job[p].name) /\ job[p].name \in Resident
    BY <2>1 DEF Forgetting
  <2>3. legacy'[<<m, "port">>] = (IF t = <<m, "port">> THEN {} ELSE legacy[<<m, "port">>])
        /\ legacy'[<<m, "bare">>] = (IF t = <<m, "bare">> THEN {} ELSE legacy[<<m, "bare">>])
    BY <1>t, <2>1 DEF Typed
  <2>4. CASE n = job[p].name
    <3>1. alias[n] = {} /\ verified[m] = {} /\ installed[m] \notin OnFile(m)
      BY <2>1, <2>2, <2>4 DEF Forgets
    <3>2. QED
      BY <1>0, <2>1, <2>3, <3>1 DEF Backs, OnFile
  <2>5. CASE n # job[p].name
    <3>1. m # roster[job[p].name].machine
      BY <1>0, <2>2, <2>5 DEF Apart
    <3>2. t \in {roster[job[p].name].machine} \X Spellings
      BY <2>1, <2>2 DEF Forgets
    <3>3. t # <<m, "port">> /\ t # <<m, "bare">>
      BY <3>1, <3>2
    <3>4. QED
      BY <1>0, <2>1, <2>3, <3>3 DEF Backs, OnFile
  <2>6. QED
    BY <2>4, <2>5
<1>5. ASSUME NEW p \in Procs, Connect(p) PROVE Backs(n)'
  <2>1. /\ UNCHANGED <<legacy, installed>> /\ at[p] = "connect"
        /\ job[p].name \in Resident /\ mem[p].roster = roster
    BY <1>5 DEF Connect, Current
  <2> DEFINE o == job[p].name   new == job[p].op # "strict" /\ alias[o] = {}
  <2>2. /\ alias' = [alias EXCEPT ![o] = IF new THEN {installed[roster[o].machine]} ELSE @]
        /\ verified' = [verified EXCEPT ![roster[o].machine] =
                          IF new THEN {installed[roster[o].machine]} ELSE @]
    BY <1>5, <2>1 DEF Connect, Declared
  <2> HIDE DEF new
  <2>3. CASE n = o
    <3>1. alias'[n] = (IF new THEN {installed[m]} ELSE alias[n])
          /\ verified'[m] = (IF new THEN {installed[m]} ELSE verified[m])
      BY <1>0, <2>2, <2>3 DEF Typed
    <3>2. QED
      BY <1>0, <2>1, <3>1 DEF Backs, OnFile
  <2>4. CASE n # o
    <3>1. m # roster[o].machine
      BY <1>0, <2>1, <2>4 DEF Apart
    <3>2. alias'[n] = alias[n] /\ verified'[m] = verified[m]
      BY <1>0, <2>2, <2>4, <3>1 DEF Typed
    <3>3. QED
      BY <1>0, <2>1, <3>2 DEF Backs, OnFile
  <2>5. QED
    BY <2>3, <2>4
<1>6. ASSUME NEW x \in Machines, NEW k \in Keys, Reinstall(x, k) PROVE Backs(n)'
  <2>1. /\ UNCHANGED <<alias, legacy, verified>> /\ installed' = [installed EXCEPT ![x] = k]
        /\ k \notin alias[n] /\ k \notin OnFile(m)
    BY <1>0, <1>t, <1>6 DEF Reinstall, filed, OnFile
  <2>2. QED
    BY <1>0, <2>1 DEF Backs, OnFile, Typed
<1>7. QED
  BY StepCases, <1>1, <1>2, <1>3, <1>4, <1>5, <1>6
     DEF vars, filed, Start, Look, HaveRead, Inspect, Forgotten, Rename, Crash

----------------------------------------------------------------------------
(* What was forgotten stays forgotten.                                     *)

LEMMA GoneStep ==
    ASSUME OneCommand, NewNamesUnused, Inv, [Next]_vars
    PROVE  Gone'
<1> USE DEF Inv
<1>1. ASSUME NEW n \in Names \ Named PROVE (dropped[n] = {})'
  <2>1. ASSUME NEW p \in Procs, Forgotten(p) PROVE dropped'[n] = {}
    <3>1. job[p].name \in Named
      BY <2>1 DEF Forgotten, Current, Resident
    <3>2. QED
      BY <2>1, <3>1 DEF Forgotten, Gone, Typed
  <2>2. dropped' = dropped \/ \E p \in Procs : Forgotten(p)
    BY StepCases DEF vars, Start, Look, Append, HaveRead, Inspect, ForgetAlias,
       ForgetTarget, Connect, Rename, Crash, Reinstall
  <2>3. QED
    BY <2>1, <2>2 DEF Gone
<1>2. ASSUME NEW n \in Names PROVE (alias[n] \cap dropped[n] = {})'
  <2>0. alias[n] \cap dropped[n] = {} /\ (n \notin Named => dropped[n] = {})
    BY DEF Gone, ForgetSticks
  <2>1. CASE UNCHANGED <<alias, dropped>>
    BY <2>0, <2>1
  <2>2. ASSUME NEW p \in Procs, Append(p) PROVE (alias[n] \cap dropped[n] = {})'
    <3>1. /\ alias'[n] = (IF n \in mem[p].copy THEN alias[n] \cup mem[p].keys ELSE alias[n])
          /\ dropped' = dropped /\ at[p] = "append"
      BY <2>2 DEF Append
    <3>2. CASE n \in mem[p].copy
      <4>1. dropped[n] = {}
        <5>1. n \in DOMAIN roster
          BY <3>1, <3>2 DEF Current
        <5>2. n \in Named => Found(p, n)
          BY <5>1 DEF Looked, Resident
        <5>3. QED
          BY <2>0, <3>1, <3>2, <5>2 DEF Found
      <4>2. QED
        BY <3>1, <4>1
    <3>3. CASE n \notin mem[p].copy
      BY <2>0, <3>1, <3>3
    <3>4. QED
      BY <3>2, <3>3
  <2>3. ASSUME NEW p \in Procs, ForgetAlias(p) PROVE (alias[n] \cap dropped[n] = {})'
    BY <2>0, <2>3 DEF ForgetAlias, Typed
  <2>4. ASSUME NEW p \in Procs, Forgotten(p) PROVE (alias[n] \cap dropped[n] = {})'
    <3>1. alias[job[p].name] = {}
      BY <2>4 DEF Forgotten, Forgetting, Forgets
    <3>2. QED
      BY <2>0, <2>4, <3>1 DEF Forgotten, filed, Typed
  <2>5. ASSUME NEW p \in Procs, Connect(p) PROVE (alias[n] \cap dropped[n] = {})'
    <3>1. installed[Declared(p).machine] \notin dropped[job[p].name]
      BY <2>5 DEF Connect, Current, Declared, Gone, Clean
    <3>2. QED
      BY <2>0, <2>5, <3>1 DEF Connect, Typed
  <2>6. QED
    BY StepCases, <2>1, <2>2, <2>3, <2>4, <2>5
       DEF vars, filed, Start, Look, HaveRead, Inspect, ForgetTarget, Rename, Crash, Reinstall
<1>3. ASSUME NEW n \in Resident' PROVE Clean(n)'
  <2> DEFINE m == roster[n].machine
  <2>0. /\ n \in Resident /\ roster'[n] = roster[n] /\ Clean(n)
        /\ n \in Names /\ m \in Machines /\ roster[n].port \in Ports
        /\ LegacyTargets(m, roster[n].port) \subseteq Targets
    BY ResidentsStay, ResidentEntry, TargetsOf DEF Gone
  <2>1. CASE UNCHANGED <<legacy, installed, dropped>>
    BY <2>0, <2>1 DEF Clean, LegacyTargets
  <2>2. ASSUME NEW p \in Procs, NEW t \in Targets, ForgetTarget(p, t) PROVE Clean(n)'
    <3>1. \A u \in Targets : legacy[u] = {} => legacy'[u] = {}
      BY <2>2 DEF ForgetTarget, Typed
    <3>2. UNCHANGED <<installed, dropped>>
      BY <2>2 DEF ForgetTarget
    <3>3. QED
      BY <2>0, <3>1, <3>2 DEF Clean, LegacyTargets
  <2>3. ASSUME NEW p \in Procs, Forgotten(p) PROVE Clean(n)'
    <3>1. /\ UNCHANGED <<legacy, installed>> /\ at[p] = "forget" /\ mem[p].copy = {}
          /\ mem[p].targets = {}
          /\ dropped'[n] = (IF n = job[p].name THEN dropped[n] \cup mem[p].keys ELSE dropped[n])
      BY <2>0, <2>3 DEF Forgotten, filed, Typed
    <3>2. CASE n = job[p].name
      <4>1. installed[m] \notin mem[p].keys
            /\ \A t \in LegacyTargets(m, roster[n].port) : legacy[t] = {}
        BY <3>1, <3>2 DEF Forgetting, Forgets
      <4>2. QED
        BY <2>0, <3>1, <3>2, <4>1 DEF Clean, LegacyTargets
    <3>3. CASE n # job[p].name
      BY <2>0, <3>1, <3>3 DEF Clean, LegacyTargets
    <3>4. QED
      BY <3>2, <3>3
  <2>4. ASSUME NEW x \in Machines, NEW k \in Keys, Reinstall(x, k) PROVE Clean(n)'
    BY <2>0, <2>4 DEF Reinstall, filed, Clean, LegacyTargets, Typed
  <2>5. QED
    BY StepCases, <2>1, <2>2, <2>3, <2>4
       DEF vars, filed, Start, Look, Append, HaveRead, Inspect, ForgetAlias, Connect, Rename, Crash
<1>4. QED
  BY <1>1, <1>2, <1>3 DEF Gone, ForgetSticks

----------------------------------------------------------------------------
(* A command that reads the roster finds what there is on file.             *)

\* What a Host inherits: nothing only if nothing is on file for its machine, and
\* the machine's own key if that is on file.
LEMMA InheritedHas ==
    ASSUME Typed, NEW n \in Resident, Backs(n), Clean(n)
    PROVE  LET m == roster[n].machine
               keys == Inherited(m, roster[n].port)
           IN  /\ keys \subseteq OnFile(m)
               /\ keys = {} => OnFile(m) = {}
               /\ keys # {} => dropped[n] = {}
               /\ installed[m] \in OnFile(m) => keys \subseteq {installed[m]}
<1> DEFINE m == roster[n].machine
           q == roster[n].port
           keys == Inherited(m, q)
<1>1. m \in Machines /\ q \in Ports
  BY ResidentEntry
<1>2. keys \subseteq OnFile(m) /\ (dropped[n] # {} => keys = {})
  BY <1>1, InheritedIs DEF Clean
<1>3. CASE q # "std" /\ legacy[<<m, "port">>] # {}
  <2>1. keys = legacy[<<m, "port">>]
    BY <1>1, <1>3, InheritedIs
  <2> HIDE DEF keys
  <2>2. QED
    BY <1>2, <1>3, <2>1 DEF Backs, keys
<1>4. CASE q = "std" \/ legacy[<<m, "port">>] = {}
  <2>1. keys = legacy[<<m, "bare">>] /\ legacy[<<m, "port">>] = {}
    BY <1>1, <1>4, InheritedIs DEF Backs
  <2>2. OnFile(m) = keys
    BY <2>1 DEF OnFile
  <2> HIDE DEF keys
  <2>3. QED
    BY <1>2, <2>1, <2>2 DEF Backs, keys
<1>5. QED
  BY <1>3, <1>4

LEMMA LookedStep ==
    ASSUME OneCommand, NewNamesUnused, Inv, [Next]_vars
    PROVE  Looked'
<1> USE DEF Inv, Goto, Return
<1> SUFFICES ASSUME NEW p \in Procs, NEW n \in Resident' PROVE Found(p, n)'
  BY DEF Looked
<1> DEFINE m == roster[n].machine
<1>0. /\ n \in Resident /\ roster'[n] = roster[n] /\ Found(p, n) /\ Backs(n) /\ Clean(n)
      /\ n \in Names /\ m \in Machines /\ roster[n].port \in Ports
      /\ mem[p] \in Work /\ n \in DOMAIN roster
  BY ResidentsStay, ResidentEntry DEF Looked, Backed, Gone, Resident, Typed
<1>1. CASE UNCHANGED vars
  BY <1>0, <1>1 DEF vars, filed, Found, OnFile
<1>2. ASSUME NEW j \in Jobs, Start(p, j) PROVE Found(p, n)'
  BY <1>0, <1>2 DEF Start, Read, Found, Typed
<1>3. ASSUME NEW x \in Names, Look(p, x) PROVE Found(p, n)'
  <2> DEFINE keys == IF alias[x] = {}
                     THEN Inherited(roster[x].machine, roster[x].port) ELSE {}
  <2>1. /\ UNCHANGED <<alias, legacy, installed, verified, dropped>> /\ at[p] = "migrate"
        /\ mem'[p].names = mem[p].names \ {x} /\ mem'[p].copy = {x} /\ mem'[p].keys = keys
        /\ at'[p] = (IF keys = {} THEN "migrate" ELSE "append")
    BY <1>0, <1>3 DEF Look, Current, Typed, Work, filed
  <2>2. CASE x = n
    <3>1. CASE alias[n] = {}
      <4>1. keys = Inherited(m, roster[n].port)
        BY <2>2, <3>1
      <4> HIDE DEF keys
      <4>2. /\ keys \subseteq OnFile(m)
            /\ keys = {} => OnFile(m) = {}
            /\ keys # {} => dropped[n] = {}
            /\ installed[m] \in OnFile(m) => keys \subseteq {installed[m]}
        BY <1>0, <4>1, InheritedHas
      <4>3. verified[m] \subseteq OnFile(m)
        BY <1>0, <3>1 DEF Backs
      <4>4. QED
        BY <1>0, <2>1, <2>2, <3>1, <4>2, <4>3 DEF Found, OnFile
    <3>2. CASE alias[n] # {}
      BY <1>0, <2>1, <2>2, <3>2 DEF Found
    <3>3. QED
      BY <3>1, <3>2
  <2>3. CASE x # n
    BY <1>0, <2>1, <2>3 DEF Found
  <2>4. QED
    BY <2>2, <2>3
<1>4. CASE Append(p)
  <2>1. /\ UNCHANGED <<mem, verified>> /\ at[p] = "append" /\ at'[p] = "migrate"
        /\ alias'[n] = (IF n \in mem[p].copy THEN alias[n] \cup mem[p].keys ELSE alias[n])
    BY <1>0, <1>4 DEF Append, Typed
  <2>2. QED
    BY <1>0, <2>1 DEF Found
<1>5. CASE HaveRead(p)
  <2>1. /\ UNCHANGED <<alias, legacy, installed, verified, dropped>> /\ at[p] = "migrate"
        /\ at'[p] # "append"
    BY <1>0, <1>5 DEF HaveRead, Typed, filed
  <2>2. at'[p] # "idle" => mem'[p].names = mem[p].names
    BY <1>0, <1>5 DEF HaveRead, Typed, Work
  <2>3. QED
    BY <1>0, <2>1, <2>2 DEF Found
<1>6. CASE Inspect(p)
  <2>1. /\ UNCHANGED <<alias, legacy, installed, verified, dropped>> /\ at[p] = "inspect"
        /\ at'[p] # "append"
    BY <1>0, <1>6 DEF Inspect, Read, Typed, filed
  <2>2. mem'[p].names = mem[p].names \/ n \in mem'[p].names
    BY <1>0, <1>6 DEF Inspect, Read, Typed, NoWork
  <2>3. QED
    BY <1>0, <2>1, <2>2 DEF Found
<1>7. CASE ForgetAlias(p)
  <2>1. /\ UNCHANGED <<legacy, installed, dropped>> /\ at[p] = "forget" /\ at'[p] = "forget"
        /\ job[p].name \in Resident /\ mem[p].roster = roster /\ mem'[p].names = mem[p].names
    BY <1>0, <1>7 DEF ForgetAlias, filed, Current, Typed, Work
  <2>2. /\ alias' = [alias EXCEPT ![job[p].name] = {}]
        /\ verified' = [verified EXCEPT ![roster[job[p].name].machine] = {}]
    BY <1>7, <2>1 DEF ForgetAlias, Declared
  <2>3. verified'[m] = {} \/ (verified'[m] = verified[m] /\ alias'[n] = alias[n])
    BY <1>0, <2>1, <2>2 DEF Typed
  <2>4. QED
    BY <1>0, <2>1, <2>3 DEF Found
<1>8. ASSUME NEW t \in Targets, ForgetTarget(p, t) PROVE Found(p, n)'
  <2>1. /\ UNCHANGED <<alias, verified>> /\ at[p] = "forget" /\ at'[p] = "forget"
        /\ mem'[p].names = mem[p].names
    BY <1>0, <1>8 DEF ForgetTarget, Typed, Work
  <2>2. QED
    BY <1>0, <2>1 DEF Found
<1>9. CASE Forgotten(p)
  <2>1. /\ UNCHANGED <<alias, verified>> /\ at[p] = "forget" /\ at'[p] = "connect"
        /\ mem'[p].names = mem[p].names
    BY <1>0, <1>9 DEF Forgotten, filed, Typed, Work
  <2>2. QED
    BY <1>0, <2>1 DEF Found
<1>10. CASE Connect(p) \/ Rename(p) \/ Crash(p)
  <2>1. at'[p] = "idle"
    BY <1>0, <1>10 DEF Connect, Rename, Crash, Typed
  <2>2. QED
    BY <2>1 DEF Found
<1>11. ASSUME NEW x \in Machines, NEW k \in Keys, Reinstall(x, k) PROVE Found(p, n)'
  <2>1. /\ UNCHANGED <<alias, legacy, verified, dropped, at, mem>>
        /\ installed'[m] \in {installed[m], k} /\ k \notin OnFile(m)
    BY <1>0, <1>11 DEF Reinstall, filed, OnFile, Typed, Targets, Spellings
  <2>2. QED
    BY <1>0, <2>1 DEF Found, OnFile
<1>12. QED
  BY StepCases, <1>1, <1>2, <1>3, <1>4, <1>5, <1>6, <1>7, <1>8, <1>9, <1>10, <1>11
     DEF OneCommand

----------------------------------------------------------------------------
(* A command that forgets.                                                  *)

LEMMA ForgettingStep ==
    ASSUME OneCommand, NewNamesUnused, Inv, [Next]_vars
    PROVE  Forgetting'
<1> USE DEF Inv, Goto, Return
<1> SUFFICES ASSUME NEW p \in Procs, (Refused(p) \/ at[p] = "forget")'
             PROVE  (job[p].name \in Resident /\ Forgets(p, job[p].name))'
  BY DEF Forgetting
<1>0. /\ mem[p] \in Work /\ at \in [Procs -> {"idle", "migrate", "append", "inspect",
                                              "forget", "connect", "commit"}]
      /\ mem \in [Procs -> Work]
      /\ Refused(p) \/ at[p] = "forget" => job[p].name \in Resident /\ Forgets(p, job[p].name)
  BY DEF Forgetting, Typed
<1> DEFINE n == job[p].name   m == roster[n].machine   q == roster[n].port
<1>1. CASE UNCHANGED vars
  BY <1>0, <1>1 DEF vars, filed, Refused, Resident, Forgets, OnFile, LegacyTargets
<1>2. ASSUME NEW j \in Jobs, Start(p, j) PROVE FALSE
  BY <1>0, <1>2 DEF Start, Read, Refused, NoWork
<1>3. ASSUME NEW x \in Names, Look(p, x)
      PROVE  (job[p].name \in Resident /\ Forgets(p, job[p].name))'
  <2>1. /\ UNCHANGED <<alias, legacy, installed, roster, job, verified>> /\ at[p] = "migrate"
        /\ mem'[p].again = mem[p].again /\ at'[p] \in {"migrate", "append"}
    BY <1>0, <1>3 DEF Look, Work, filed
  <2>2. Refused(p)
    BY <2>1 DEF Refused
  <2>3. QED
    BY <1>0, <2>1, <2>2 DEF Refused, Forgets, OnFile, Resident
<1>4. ASSUME Append(p)
      PROVE  (job[p].name \in Resident /\ Forgets(p, job[p].name))'
  <2>1. /\ UNCHANGED <<legacy, installed, roster, job, verified, mem>> /\ at[p] = "append"
        /\ at'[p] = "migrate"
    BY <1>0, <1>4 DEF Append
  <2>2. Refused(p) /\ n \in Resident /\ Forgets(p, n)
    BY <1>0, <2>1 DEF Refused
  <2>3. n \in Names /\ n \notin mem[p].copy
    BY <2>1, <2>2, ResidentEntry DEF Forgets, Looked, Found
  <2>4. alias'[n] = alias[n]
    BY <1>4, <2>3 DEF Append
  <2>5. QED
    BY <2>1, <2>2, <2>4 DEF Refused, Forgets, OnFile, Resident
<1>5. ASSUME HaveRead(p)
      PROVE  (job[p].name \in Resident /\ Forgets(p, job[p].name))'
  <2>1. /\ UNCHANGED <<alias, legacy, installed, roster, job, verified>> /\ at[p] = "migrate"
        /\ job[p] \in Jobs /\ mem[p].roster = roster
    BY <1>5 DEF HaveRead, filed, Current
  <2>2. at'[p] \in {"idle", "inspect", "commit", "connect"} \/ at'[p] = "forget"
    BY <1>0, <1>5 DEF HaveRead
  <2>3. /\ at'[p] = "forget" /\ mem[p].again
        /\ mem' = [mem EXCEPT ![p].copy = {n},
                     ![p].targets = KeyTargets(n, Declared(p).machine, job[p].port, mem[p].roster)]
    BY <1>0, <1>5, <2>2 DEF HaveRead, Refused
  <2>4. n \in Resident /\ Forgets(p, n) /\ Refused(p)
    BY <1>0, <2>1, <2>3 DEF Refused
  <2>5. Declared(p).machine = m
    BY <2>1 DEF Declared
  <2> DEFINE ts == KeyTargets(n, m, job[p].port, roster)
  <2>6. ts \subseteq {m} \X Spellings /\ LegacyTargets(m, q) \subseteq ts
    BY <2>1, <2>4, TargetsOf, ResidentEntry, KnownHostsAssumption DEF KeyTargets, Resident, Job
  <2> HIDE DEF ts
  <2>7. mem'[p].copy = {n} /\ mem'[p].targets = ts
    BY <1>0, <2>1, <2>3, <2>5 DEF Work, ts
  <2>8. QED
    BY <2>1, <2>3, <2>4, <2>6, <2>7 DEF Refused, Forgets, OnFile, Resident, LegacyTargets
<1>6. ASSUME Inspect(p)
      PROVE  (job[p].name \in Resident /\ Forgets(p, job[p].name))'
  <2>1. /\ UNCHANGED <<alias, legacy, installed, roster, job, verified>> /\ at[p] = "inspect"
        /\ n \in Resident /\ mem[p].roster = roster
    BY <1>6 DEF Inspect, filed, Current
  <2>2. Contradicted(alias[n], installed[m]) /\ at'[p] = "migrate"
    BY <1>0, <1>6, <2>1 DEF Inspect, Declared, Read, Refused
  <2>3. alias[n] # {} /\ installed[m] \notin alias[n] \cup OnFile(m)
    <3>1. Backs(n)
      BY <2>1 DEF Backed
    <3>2. QED
      BY <2>2, <3>1 DEF Backs, Contradicted
  <2>4. QED
    BY <2>1, <2>2, <2>3 DEF Refused, Forgets, OnFile, Resident
<1>7. ASSUME ForgetAlias(p)
      PROVE  (job[p].name \in Resident /\ Forgets(p, job[p].name))'
  <2>1. /\ UNCHANGED <<legacy, installed, roster, at, job>> /\ at[p] = "forget"
        /\ mem[p].copy # {} /\ n \in Resident /\ mem[p].roster = roster
    BY <1>7 DEF ForgetAlias, filed, Current
  <2>2. Forgets(p, n) /\ Refused(p)
    BY <1>0, <2>1 DEF Refused
  <2>3. n \in Names /\ m \in Machines /\ q \in Ports
    BY <2>1, ResidentEntry
  <2>4. alias'[n] = {} /\ verified'[m] = {}
    BY <1>7, <2>1, <2>3 DEF ForgetAlias, Declared, Typed
  <2>5. /\ mem'[p].copy = {} /\ mem'[p].targets = mem[p].targets
        /\ mem'[p].keys = alias[n] \cup UNION {legacy[t] : t \in mem[p].targets}
    BY <1>0, <1>7 DEF ForgetAlias, Work
  <2>6. \A t \in mem[p].targets : legacy[t] \subseteq OnFile(m)
    BY <2>1, <2>2 DEF Forgets, OnFile, Spellings
  <2>7. installed[m] \notin mem'[p].keys
    BY <2>2, <2>5, <2>6 DEF Forgets
  <2>8. \A t \in LegacyTargets(m, q) : t \in mem[p].targets
    BY <2>1, <2>2 DEF Forgets
  <2>9. QED
    BY <2>1, <2>2, <2>4, <2>5, <2>7, <2>8 DEF Refused, Forgets, OnFile, Resident, LegacyTargets
<1>8. ASSUME NEW t \in Targets, ForgetTarget(p, t)
      PROVE  (job[p].name \in Resident /\ Forgets(p, job[p].name))'
  <2>1. /\ UNCHANGED <<alias, installed, roster, at, job, verified>> /\ at[p] = "forget"
        /\ mem[p].copy = {} /\ t \in mem[p].targets /\ legacy' = [legacy EXCEPT ![t] = {}]
    BY <1>8 DEF ForgetTarget
  <2>2. n \in Resident /\ Forgets(p, n) /\ m \in Machines /\ q \in Ports
    BY <1>0, <2>1, ResidentEntry
  <2>3. /\ mem'[p].copy = {} /\ mem'[p].targets = mem[p].targets \ {t}
        /\ mem'[p].keys = mem[p].keys
    BY <1>0, <1>8, <2>1 DEF ForgetTarget, Work
  <2>4. \A u \in Targets : legacy'[u] \subseteq legacy[u] /\ (u = t => legacy'[u] = {})
    BY <2>1 DEF Typed
  <2>5. LegacyTargets(m, q) \subseteq Targets /\ <<m, "port">> \in Targets /\ <<m, "bare">> \in Targets
    BY <2>2, TargetsOf DEF Targets, Spellings
  <2>6. installed[m] \notin OnFile(m)'
    BY <2>1, <2>2, <2>4, <2>5 DEF Forgets, OnFile
  <2>7. \A u \in LegacyTargets(m, q) : u \in mem'[p].targets \/ legacy'[u] = {}
    BY <2>1, <2>2, <2>3, <2>4, <2>5 DEF Forgets
  <2>8. QED
    BY <2>1, <2>2, <2>3, <2>6, <2>7 DEF Refused, Forgets, OnFile, Resident, LegacyTargets
<1>9. ASSUME Forgotten(p) \/ Connect(p) \/ Rename(p) \/ Crash(p) PROVE FALSE
  <2>1. at'[p] \in {"connect", "idle"}
    BY <1>0, <1>9 DEF Forgotten, Connect, Rename, Crash
  <2>2. QED
    BY <2>1 DEF Refused
<1>10. ASSUME NEW x \in Machines, NEW k \in Keys, Reinstall(x, k)
       PROVE  (job[p].name \in Resident /\ Forgets(p, job[p].name))'
  <2>1. /\ UNCHANGED <<alias, legacy, roster, verified, at, mem, job>>
    BY <1>10 DEF Reinstall, filed
  <2>2. n \in Resident /\ Forgets(p, n) /\ m \in Machines /\ q \in Ports /\ n \in Names
    BY <1>0, <2>1, ResidentEntry DEF Refused
  <2>3. /\ installed'[m] \in {installed[m], k} /\ k \notin OnFile(m) /\ k \notin alias[n]
        /\ k \notin mem[p].keys
    BY <1>10, <2>2 DEF Reinstall, OnFile, Typed, Targets, Spellings
  <2>4. QED
    BY <2>1, <2>2, <2>3 DEF Refused, Forgets, OnFile, Resident, LegacyTargets
<1>11. QED
  BY StepCases, <1>1, <1>2, <1>3, <1>4, <1>5, <1>6, <1>7, <1>8, <1>9, <1>10
     DEF OneCommand

----------------------------------------------------------------------------
(* The invariant.                                                          *)

LEMMA InvInit ==
    ASSUME OneNameEach, Init
    PROVE  Inv
<1>1. Typed
  BY TypedInit
<1>2. Current
  BY DEF Init, Current
<1>3. Apart
  BY DEF Init, Apart, Resident, OneNameEach
<1>4. ASSUME NEW n \in Resident PROVE Backs(n) /\ Clean(n)
  <2> DEFINE m == roster[n].machine
  <2>1. n \in Names /\ m \in Machines /\ roster[n].port \in Ports /\ n \in DOMAIN roster
    BY <1>1, <1>4, ResidentEntry DEF Resident
  <2>2. /\ alias[n] = {} \/ alias[n] = {installed[m]}
        /\ \A o \in Names : installed[m] \in alias[o] => alias[n] = {installed[m]}
    <3>1. ASSUME NEW o \in Names, installed[m] \in alias[o] PROVE o = n
      <4>1. o \in DOMAIN roster /\ installed[m] = installed[roster[o].machine]
        BY <3>1 DEF Init
      <4>2. roster[o].machine \in Machines
        BY <1>1, <4>1, RosterEntries DEF Typed, Entry
      <4>3. roster[o].machine = m
        BY <2>1, <4>1, <4>2 DEF Init
      <4>4. QED
        BY <2>1, <4>1, <4>3 DEF Init, OneNameEach
    <3>2. alias[n] = {} \/ alias[n] = {installed[m]}
      BY <2>1 DEF Init
    <3>3. QED
      BY <3>1, <3>2
  <2>3. verified[m] \subseteq {installed[m]} /\ \A k \in verified[m] :
           \/ \E s \in Spellings : k \in legacy[<<m, s>>]
           \/ \E o \in Names : k \in alias[o]
    <3>1. verified[m] = {k \in {installed[m]} : \/ \E s \in Spellings : k \in legacy[<<m, s>>]
                                               \/ \E o \in Names : k \in alias[o]}
      BY <2>1 DEF Init
    <3>2. QED
      BY <3>1
  <2>4. verified[m] \subseteq alias[n] \cup OnFile(m)
    BY <2>2, <2>3 DEF OnFile, Spellings
  <2>5. /\ legacy[<<m, "port">>] \subseteq {installed[m]}
        /\ legacy[<<m, "port">>] = {} => legacy[<<m, "bare">>] \subseteq {installed[m]}
    BY <2>1 DEF Init
  <2>6. roster[n].port = "std" => legacy[<<m, "port">>] = {}
    <3>1. roster[n] \in Entry
      BY <1>1, <2>1, RosterEntries DEF Typed
    <3>2. roster[n].port = "std" => roster[n] = [machine |-> m, port |-> "std"]
      BY <3>1 DEF Entry
    <3>3. QED
      BY <2>1, <3>2 DEF Init
  <2>7. dropped[n] = {}
    BY <2>1 DEF Init
  <2>8. QED
    BY <2>2, <2>4, <2>5, <2>6, <2>7 DEF Backs, Clean
<1>5. Gone
  BY <1>4 DEF Init, Gone, ForgetSticks
<1>6. Looked /\ Forgetting
  BY DEF Init, Looked, Found, Forgetting, Refused
<1>7. QED
  BY <1>1, <1>2, <1>3, <1>4, <1>5, <1>6 DEF Inv, Backed

LEMMA InvStep ==
    ASSUME OneCommand, NewNamesUnused, Inv, [Next]_vars
    PROVE  Inv'
<1>1. Typed' /\ Current' /\ Apart'
  BY TypedStep, CurrentStep, ApartStep DEF Inv
<1>2. QED
  BY <1>1, BackedStep, GoneStep, LookedStep, ForgettingStep DEF Inv

\* Where a command connects it has looked at every name, so the key of the Host
\* is on file if any of its machine that the operator trusts is.
LEMMA ConnectFinds ==
    ASSUME Inv, NEW p \in Procs, at[p] = "connect"
    PROVE  LET n == job[p].name   m == Declared(p).machine
           IN  /\ n \in Resident /\ Declared(p) = roster[n]
               /\ verified[m] # {} => alias[n] # {}
               /\ installed[m] \in verified[m] => installed[m] \in alias[n]
<1> DEFINE n == job[p].name   m == roster[n].machine
<1>1. n \in Resident /\ mem[p].roster = roster /\ mem[p].names = {}
  BY DEF Inv, Current
<1>2. verified[m] # {} => alias[n] # {}
  BY <1>1 DEF Inv, Looked, Found
<1>3. Backs(n)
  BY <1>1 DEF Inv, Backed
<1>4. installed[m] \in verified[m] => installed[m] \in alias[n]
  BY <1>2, <1>3 DEF Backs
<1>5. QED
  BY <1>1, <1>2, <1>4 DEF Declared

\* While one command runs at a time, a machine whose key the operator trusts and
\* that still offers it has that key under its name whenever a command connects,
\* however many reinstallations, forgets and deaths came before (read_roster,
\* migrate_alias).
THEOREM TrustFollows ==
    ASSUME OneCommand, OneNameEach, NewNamesUnused
    PROVE  Spec => []TrustFollowsHost
<1>1. Init => Inv
  BY InvInit
<1>2. Inv /\ [Next]_vars => Inv'
  BY InvStep
<1>3. Inv => TrustFollowsHost
  BY ConnectFinds DEF TrustFollowsHost
<1>4. QED
  BY <1>1, <1>2, <1>3, PTL DEF Spec

\* A key that a completed forget dropped does not come back under the name
\* (key_targets, forget).
THEOREM ForgetsForGood ==
    ASSUME OneCommand, OneNameEach, NewNamesUnused
    PROVE  Spec => []ForgetSticks
<1>1. Init => Inv
  BY InvInit
<1>2. Inv /\ [Next]_vars => Inv'
  BY InvStep
<1>3. Inv => ForgetSticks
  BY DEF Inv, Gone
<1>4. QED
  BY <1>1, <1>2, <1>3, PTL DEF Spec

\* A step in which a command connects and files a key.
LEMMA ConnectsOnly ==
    ASSUME Inv, [Next]_vars, NEW p \in Procs, at[p] = "connect", at'[p] = "idle",
           alias' # alias, OneCommand
    PROVE  Connect(p)
<1>1. Crash(p) => alias' = alias
  BY DEF Crash, filed
<1>2. QED
  BY <1>1, StepCases DEF OneCommand, vars, filed, Start, Look, Append, HaveRead, Inspect,
     ForgetAlias, ForgetTarget, Forgotten, Rename, Reinstall

\* A connection files a key under a name only where the operator trusts none of
\* the machine's: ansible's accept-new never takes a key in place of one that was
\* not forgotten (ADR-0076).
THEOREM NeverBlindly ==
    ASSUME OneCommand, OneNameEach, NewNamesUnused
    PROVE  Spec => NeverTrustedBlindly
<1>1. Init => Inv
  BY InvInit
<1>2. Inv /\ [Next]_vars => Inv'
  BY InvStep
<1>3. ASSUME Inv, [Next]_vars
      PROVE  \A p \in Procs : at[p] = "connect" /\ at'[p] = "idle"
                /\ alias'[job[p].name] # alias[job[p].name]
                => verified[Declared(p).machine] = {}
  <2> SUFFICES ASSUME NEW p \in Procs, at[p] = "connect", at'[p] = "idle",
                      alias'[job[p].name] # alias[job[p].name]
               PROVE  verified[Declared(p).machine] = {}
    OBVIOUS
  <2>1. Connect(p)
    BY <1>3, ConnectsOnly
  <2>2. alias[job[p].name] = {}
    BY <1>3, <2>1 DEF Connect, Inv, Typed
  <2>3. QED
    BY <1>3, <2>2, ConnectFinds
<1>4. QED
  BY <1>1, <1>2, <1>3, PTL DEF Spec, NeverTrustedBlindly
=============================================================================
