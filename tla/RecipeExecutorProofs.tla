----------------------- MODULE RecipeExecutorProofs -----------------------
(***************************************************************************)
(* What holds of RecipeExecutor for every number of units, every timeout,  *)
(* every set of Recipes and any number of runs: its types; that no unit is *)
(* left down behind anyone's back; that it implements Custody; and what    *)
(* the window promises while its arms land in order.                       *)
(***************************************************************************)
EXTENDS RecipeExecutor, TLAPS


USE DeadmanAssumption, ExecutorAssumption
    DEF DeadmanAssumption, ExecutorAssumption

----------------------------------------------------------------------------
(* Type correctness, one part of the state at a time.                      *)

LEMMA InitTypeOK == Init => TypeOK
<1> SUFFICES ASSUME Init PROVE TypeOK
  OBVIOUS
<1>1. HostTypeOK
  <2> USE DEF Init, HostInit
  <2>1. active \in [Units -> BOOLEAN] /\ unreported \in BOOLEAN
    BY Zenon
  <2>2. /\ erred \subseteq Units /\ unit \in {"absent", "armed", "firing"}
        /\ left \in 0..Timeout /\ guards \in Operations
        /\ next \in 1..(NumUnits + 1) /\ marker \in Operations \cup {"none"}
    BY DEF Operations
  <2>3. sent \in [Operations -> Nat] /\ replacing \in [Operations -> Nat]
    OBVIOUS
  <2>4. QED
    BY <2>1, <2>2, <2>3 DEF HostTypeOK
<1>2. PointTypeOK
  BY DEF Init, PointTypeOK
<1>3. DriverTypeOK
  BY DEF Init, DriverTypeOK, Operations
<1>4. AccountTypeOK
  BY DEF Init, AccountTypeOK
<1>5. FlagTypeOK
  BY Zenon DEF Init, FlagTypeOK
<1>6. QED
  BY <1>1, <1>2, <1>3, <1>4, <1>5 DEF TypeOK

\* The points a stage may be passed over to: all but those of the unit loops.
StagePoints == (Commands \cup ArmPoints) \ {"arm_first", "stop", "start"}

\* Passing over the stages a Recipe does not ask for stays within them.
LEMMA PointsTyped ==
    /\ \A k \in Nat : ToPaths(k) \in StagePoints /\ ToOwner(k) \in StagePoints
    /\ ToCleanup(staging) \in StagePoints
    /\ DriverTypeOK => /\ AfterPaths \in StagePoints /\ AfterStops \in StagePoints
                       /\ ToDb \in StagePoints /\ ToPost \in StagePoints
<1> USE DEF StagePoints, Commands, ClosureSteps, ArmPoints
<1>2. ToCleanup(staging) \in StagePoints
  BY DEF ToCleanup, AfterCleanup
<1>3. ToPost \in StagePoints
  BY <1>2 DEF ToPost
<1>4. ToDb \in StagePoints
  BY <1>3 DEF ToDb
<1>5. \A k \in Nat : ToOwner(k) \in StagePoints
  BY <1>4 DEF ToOwner
<1>6. AfterPaths \in StagePoints
  BY <1>2, <1>5 DEF AfterPaths
<1>7. \A k \in Nat : ToPaths(k) \in StagePoints
  BY <1>6 DEF ToPaths
<1>8. AfterStops \in StagePoints
  BY <1>7 DEF AfterStops
<1>9. QED
  BY <1>2, <1>3, <1>4, <1>5, <1>6, <1>7, <1>8

LEMMA HostStepTyped ==
    ASSUME HostTypeOK, HostNext
    PROVE  HostTypeOK'
<1> USE DEF HostTypeOK, timerVars
<1>1. ASSUME NEW o \in Operations, ArmDisarms(o) PROVE HostTypeOK'
  BY <1>1 DEF ArmDisarms, DisarmUnit
<1>2. ASSUME NEW o \in Operations, ArmSchedules(o) PROVE HostTypeOK'
  BY <1>2 DEF ArmSchedules, ScheduleUnit
<1>3. ASSUME NEW o \in Operations, ArmLost(o) PROVE HostTypeOK'
  BY <1>3 DEF ArmLost
<1>4. CASE Expire
  BY <1>4 DEF Expire
<1>5. CASE RecoverUnit
  <2>1. active' \in [Units -> BOOLEAN] /\ unreported' \in BOOLEAN
    BY <1>5, Zenon DEF RecoverUnit
  <2>2. erred' \subseteq Units
    BY <1>5, Zenon DEF RecoverUnit
  <2>3. next' \in 1..(NumUnits + 1)
    BY <1>5 DEF RecoverUnit, Units
  <2>4. QED
    BY <1>5, <2>1, <2>2, <2>3 DEF RecoverUnit
<1>6. CASE RecordFire
  BY <1>6 DEF RecordFire, DisarmUnit
<1>7. QED
  BY <1>1, <1>2, <1>3, <1>4, <1>5, <1>6 DEF HostNext

\* Of the driver's steps only a few touch the Host.
LEMMA DriverKeepsHostTyped ==
    ASSUME TypeOK, DriverStep
    PROVE  HostTypeOK'
<1> USE DEF TypeOK, HostTypeOK, DriverTypeOK, PointTypeOK, hostVars, timerVars
<1>1. CASE CheckMarker
  <2>1. marker' \in Operations \cup {"none"} /\ unreported' \in BOOLEAN
    BY <1>1 DEF CheckMarker
  <2>2. QED
    BY <1>1, <2>1 DEF CheckMarker
<1>2. CASE Arm
  <2>1. CASE SpawnArm(op)
    BY <1>2, <2>1 DEF Arm, SpawnArm, ArmAtOnce
  <2>2. CASE UNCHANGED <<timerVars, sent, replacing>>
    BY <1>2, <2>2 DEF Arm
  <2>3. QED
    BY <1>2, <2>1, <2>2 DEF Arm
<1>3. CASE StopUnit
  BY <1>3 DEF StopUnit
<1>4. CASE StopFails
  <2>1. active' \in [Units -> BOOLEAN]
    BY <1>4, Zenon DEF StopFails
  <2>2. erred' \subseteq Units
    BY <1>4 DEF StopFails
  <2>3. QED
    BY <1>4, <2>1, <2>2 DEF StopFails
<1>5. CASE StartUnit
  <2>1. active' \in [Units -> BOOLEAN]
    BY <1>5, Zenon DEF StartUnit
  <2>2. erred' \subseteq Units
    BY <1>5 DEF StartUnit
  <2>3. QED
    BY <1>5, <2>1, <2>2 DEF StartUnit
<1>6. CASE Disarm
  BY <1>6 DEF Disarm, DisarmUnit
<1>7. CASE UNCHANGED hostVars
  BY <1>7
<1>8. QED
  BY <1>1, <1>2, <1>3, <1>4, <1>5, <1>6, <1>7
     DEF DriverStep, MakeStaging, Dump, Rsync, Chown, CopyDump, Replay, Post,
         StepFails, RemoveStaging

LEMMA DriverKeepsPointTyped ==
    ASSUME TypeOK, DriverStep
    PROVE  PointTypeOK'
<1> USE PointsTyped
    DEF TypeOK, DriverTypeOK, PointTypeOK, Goto, Units, StagePoints, Commands,
        ClosureSteps, ArmPoints
<1>0. ASSUME pc' \in StagePoints, i' \in Nat \ {0} PROVE PointTypeOK'
  BY <1>0
<1>1. CASE CheckMarker
  BY <1>1 DEF CheckMarker
<1>2. CASE Arm
  BY <1>2 DEF Arm, AfterArm, ToStarts
<1>3. CASE StopUnit
  <2>1. CASE i < NumUnits
    BY <1>3, <2>1 DEF StopUnit
  <2>2. CASE ~(i < NumUnits)
    BY <1>3, <2>2, <1>0 DEF StopUnit
  <2>3. QED
    BY <2>1, <2>2
<1>4. CASE StopFails
  BY <1>4 DEF StopFails, ToStarts
<1>5. CASE StartUnit
  BY <1>5 DEF StartUnit
<1>6. CASE Disarm
  BY <1>6 DEF Disarm
<1>7. CASE MakeStaging \/ Dump \/ Rsync \/ Chown \/ CopyDump \/ Replay \/ Post
             \/ StepFails \/ RemoveStaging
  <2>1. CASE MakeStaging \/ Dump \/ Rsync \/ Chown
    BY <1>0, <2>1 DEF MakeStaging, Dump, Rsync, Chown
  <2>2. CASE CopyDump \/ Replay \/ Post \/ StepFails \/ RemoveStaging
    BY <1>0, <2>2 DEF CopyDump, Replay, Post, StepFails, RemoveStaging, AfterCleanup
  <2>3. QED
    BY <1>7, <2>1, <2>2
<1>8. QED
  BY <1>1, <1>2, <1>3, <1>4, <1>5, <1>6, <1>7 DEF DriverStep

LEMMA DriverKeepsRestTyped ==
    ASSUME TypeOK, DriverStep
    PROVE  DriverTypeOK' /\ AccountTypeOK' /\ FlagTypeOK'
<1> USE DEF TypeOK, accountVars, Goto
<1>1. DriverTypeOK'
  <2> USE DEF DriverTypeOK, PointTypeOK
  <2>1. CASE StopUnit
    BY <2>1 DEF StopUnit, Units
  <2>2. CASE CheckMarker \/ Arm \/ StopFails \/ StartUnit
    BY <2>2 DEF CheckMarker, Arm, StopFails, StartUnit
  <2>3. CASE Disarm
    BY <2>3 DEF Disarm
  <2>4. CASE MakeStaging \/ Dump \/ Rsync \/ Chown \/ CopyDump
    BY <2>4 DEF MakeStaging, Dump, Rsync, Chown, CopyDump
  <2>5. CASE Replay \/ Post \/ StepFails \/ RemoveStaging
    BY <2>5 DEF Replay, Post, StepFails, RemoveStaging
  <2>6. QED
    BY <2>1, <2>2, <2>3, <2>4, <2>5 DEF DriverStep
<1>2. AccountTypeOK'
  BY DEF AccountTypeOK, DriverStep, CheckMarker, Arm, StopUnit, StopFails, StartUnit,
         Disarm, MakeStaging, RemoveStaging, Dump, Rsync, Chown, CopyDump, Replay,
         Post, StepFails
<1>3. FlagTypeOK'
  BY Zenon DEF FlagTypeOK, DriverStep, CheckMarker, Arm, StopUnit, StopFails, StartUnit,
         Disarm, MakeStaging, RemoveStaging, Dump, Rsync, Chown, CopyDump, Replay,
         Post, StepFails
<1>4. QED
  BY <1>1, <1>2, <1>3

\* Every variable keeps its type in every reachable state.
THEOREM TypeCorrect == Spec => []TypeOK
<1>1. TypeOK /\ [Next]_vars => TypeOK'
  <2> SUFFICES ASSUME TypeOK, [Next]_vars PROVE TypeOK'
    OBVIOUS
  <2> USE DEF TypeOK
  <2>1. ASSUME NEW o \in Allowed, Begin(o) PROVE TypeOK'
    <3>1. HostTypeOK' /\ AccountTypeOK'
      BY <2>1 DEF Begin, hostVars, HostTypeOK, AccountTypeOK
    <3>2. PointTypeOK'
      BY <2>1 DEF Begin, Goto, PointTypeOK, Commands
    <3>3. DriverTypeOK'
      BY <2>1 DEF Begin, Goto, DriverTypeOK
    <3>4. FlagTypeOK'
      BY <2>1, Zenon DEF Begin, FlagTypeOK
    <3>5. QED
      BY <3>1, <3>2, <3>3, <3>4
  <2>2. ASSUME NEW o \in Allowed, Refuse(o) PROVE TypeOK'
    BY <2>2 DEF Refuse, hostVars, accountVars, HostTypeOK, PointTypeOK, DriverTypeOK,
                AccountTypeOK, FlagTypeOK
  <2>3. CASE DriverStep
    BY <2>3, DriverKeepsHostTyped, DriverKeepsPointTyped, DriverKeepsRestTyped
  <2>4. CASE Crash
    BY <2>4 DEF Crash, Goto, hostVars, HostTypeOK, PointTypeOK, DriverTypeOK,
                AccountTypeOK, FlagTypeOK
  <2>5. CASE HostNext /\ UNCHANGED <<driverVars, accountVars>>
    <3>1. HostTypeOK'
      BY <2>5, HostStepTyped
    <3>2. QED
      BY <2>5, <3>1 DEF driverVars, accountVars, PointTypeOK, DriverTypeOK, AccountTypeOK,
                FlagTypeOK
  <2>6. CASE Tick
    <3>1. HostTypeOK'
      BY <2>6 DEF Tick, HostTypeOK
    <3>2. DriverTypeOK'
      BY <2>6 DEF Tick, DriverTypeOK
    <3>3. PointTypeOK' /\ AccountTypeOK' /\ FlagTypeOK'
      BY <2>6 DEF Tick, accountVars, PointTypeOK, AccountTypeOK, FlagTypeOK
    <3>4. QED
      BY <3>1, <3>2, <3>3
  <2>7. CASE UNCHANGED vars
    BY <2>7 DEF vars, hostVars, driverVars, accountVars, HostTypeOK, PointTypeOK,
                DriverTypeOK, AccountTypeOK, FlagTypeOK
  <2>8. QED
    BY <2>1, <2>2, <2>3, <2>4, <2>5, <2>6, <2>7 DEF Next
<1>2. QED
  BY <1>1, InitTypeOK, PTL DEF Spec

----------------------------------------------------------------------------
(* `stopped` at every point of a run.                                      *)

\* The points between the stop loop and the restart loop.
Quiesced == ClosureSteps \cup {"cleanup"} \cup (ArmPoints \ {"arm_first"})

StopCount ==
    /\ pc = "arm_first" => i = 1
    /\ pc \in {"fire_check", "arm_first"} => stopped = 0
    /\ pc = "stop" => stopped = i - 1
    /\ pc \in Quiesced => stopped = NumUnits
    /\ pc \in {"start", "disarm"} => failing \/ stopped = NumUnits

\* Passing over stages never leaves the quiesced points.
LEMMA PointsQuiesced ==
    /\ \A k \in Nat : ToPaths(k) \in Quiesced /\ ToOwner(k) \in Quiesced
    /\ ToCleanup(staging) \in Quiesced /\ ToPost \in Quiesced /\ ToDb \in Quiesced
    /\ AfterPaths \in Quiesced /\ AfterStops \in Quiesced
<1> USE DEF Quiesced, ClosureSteps, ArmPoints
<1>1. ToCleanup(staging) \in Quiesced
  BY DEF ToCleanup, AfterCleanup
<1>2. ToPost \in Quiesced
  BY <1>1 DEF ToPost
<1>3. ToDb \in Quiesced
  BY <1>2 DEF ToDb
<1>4. \A k \in Nat : ToOwner(k) \in Quiesced
  BY <1>3 DEF ToOwner
<1>5. AfterPaths \in Quiesced
  BY <1>1, <1>4 DEF AfterPaths
<1>6. \A k \in Nat : ToPaths(k) \in Quiesced
  BY <1>5 DEF ToPaths
<1>7. AfterStops \in Quiesced
  BY <1>6 DEF AfterStops
<1>8. QED
  BY <1>1, <1>2, <1>3, <1>4, <1>5, <1>6, <1>7

\* The steps between the stop loop and the restart loop, but for arming,
\* change nothing of the Host and stay quiesced.
CopyStep ==
    \/ MakeStaging \/ Dump \/ Rsync \/ Chown \/ CopyDump \/ Replay \/ Post
    \/ StepFails \/ RemoveStaging

LEMMA CopyStepStaysQuiesced ==
    ASSUME TypeOK, CopyStep
    PROVE  /\ pc \in Quiesced /\ pc' \in Quiesced
           /\ UNCHANGED <<hostVars, stopped, outcome>>
<1> USE PointsQuiesced DEF TypeOK, PointTypeOK, Goto
<1>0. /\ \A p \in {"mktemp", "dump", "rsync", "fetch", "chown", "send", "replay", "post",
                   "cleanup", "arm_path", "arm_owner", "arm_start"} : p \in Quiesced
      /\ i + 1 \in Nat
  BY DEF Quiesced, ClosureSteps, ArmPoints
<1>1. CASE MakeStaging \/ Dump \/ Rsync
  BY <1>0, <1>1 DEF MakeStaging, Dump, Rsync
<1>2. CASE Chown \/ CopyDump \/ Replay \/ Post
  BY <1>0, <1>2 DEF Chown, CopyDump, Replay, Post
<1>3. CASE StepFails \/ RemoveStaging
  BY <1>0, <1>3 DEF StepFails, RemoveStaging, AfterCleanup, ClosureSteps
<1>4. QED
  BY <1>1, <1>2, <1>3 DEF CopyStep

\* An arm at a point of the window stays in it or enters the restart loop.
LEMMA ArmStays ==
    ASSUME TypeOK, Arm
    PROVE  /\ pc = "arm_first" => pc' = "stop" /\ i' = i
           /\ pc # "arm_first" => pc \in Quiesced /\ (pc' \in Quiesced \/ pc = "arm_start")
           /\ pc = "arm_start" => pc' = ToStarts(stopped) /\ i' = 1
           /\ UNCHANGED <<active, erred, marker, stopped, failing, outcome>>
           /\ spent' = 0
<1>1. \A p \in {"mktemp", "rsync", "chown", "post"} : p \in Quiesced
  BY DEF Quiesced, ClosureSteps
<1>2. /\ pc = "arm_first" => pc' = "stop" /\ i' = i
      /\ pc # "arm_first" => pc' \in Quiesced \/ pc = "arm_start"
      /\ pc = "arm_start" => pc' = ToStarts(stopped) /\ i' = 1
  BY <1>1, PointsQuiesced DEF Arm, ArmPoints, AfterArm, Goto
<1>3. pc # "arm_first" => pc \in Quiesced
  BY DEF Arm, Quiesced
<1>4. QED
  BY <1>2, <1>3 DEF Arm, Goto

LEMMA StopCountStep ==
    ASSUME TypeOK, StopCount, [Next]_vars
    PROVE  StopCount'
<1> USE DEF StopCount
<1>0. /\ "stop" \notin Quiesced /\ "start" \notin Quiesced /\ "disarm" \notin Quiesced
      /\ "idle" \notin Quiesced /\ "fire_check" \notin Quiesced
      /\ "arm_first" \notin Quiesced
  BY DEF Quiesced, ClosureSteps, ArmPoints
<1>1. ASSUME NEW o \in Allowed, Begin(o) \/ Refuse(o) PROVE StopCount'
  BY <1>0, <1>1 DEF Begin, Refuse, Goto
<1>2. CASE CheckMarker
  BY <1>0, <1>2 DEF CheckMarker, Goto
<1>3. CASE Arm
  BY <1>0, <1>3, ArmStays DEF ToStarts
<1>4. CASE StopUnit
  <2>1. CASE i < NumUnits
    BY <1>0, <1>4, <2>1 DEF StopUnit, Goto, TypeOK, PointTypeOK
  <2>2. CASE ~(i < NumUnits)
    <3>1. i = NumUnits
      BY <1>4, <2>2 DEF StopUnit, TypeOK, PointTypeOK, Units
    <3>2. pc' \in Quiesced
      BY <1>4, <2>2, PointsQuiesced DEF StopUnit, Goto
    <3>3. stopped' = NumUnits
      BY <1>4, <3>1 DEF StopUnit
    <3>4. QED
      BY <1>0, <3>2, <3>3
  <2>3. QED
    BY <2>1, <2>2
<1>5. CASE StopFails
  BY <1>0, <1>5 DEF StopFails, Goto, ToStarts
<1>6. CASE CopyStep
  BY <1>0, <1>6, CopyStepStaysQuiesced
<1>7. CASE StartUnit
  BY <1>0, <1>7 DEF StartUnit, Goto
<1>8. CASE Disarm \/ Crash
  BY <1>0, <1>8 DEF Disarm, Crash, Goto
<1>9. CASE HostNext /\ UNCHANGED <<driverVars, accountVars>>
  BY <1>9 DEF driverVars
<1>10. CASE Tick
  BY <1>10 DEF Tick
<1>11. CASE UNCHANGED vars
  BY <1>11 DEF vars, driverVars
<1>12. QED
  BY <1>1, <1>2, <1>3, <1>4, <1>5, <1>6, <1>7, <1>8, <1>9, <1>10, <1>11
     DEF Next, DriverStep, CopyStep

THEOREM StopCounts == Spec => [](TypeOK /\ StopCount)
<1>1. Init => StopCount
  BY DEF Init, StopCount, Quiesced, ClosureSteps, ArmPoints
<1>2. TypeOK /\ StopCount /\ [Next]_vars => StopCount'
  BY StopCountStep
<1>3. QED
  BY <1>1, <1>2, TypeCorrect, PTL DEF Spec

----------------------------------------------------------------------------
(* A run that returns Ok left every unit running.                          *)

\* The restart loop has brought up every unit it has passed, unless it has
\* recorded a failure.
UpOnSuccess ==
    /\ pc = "start" => failing \/ \A u \in Units : u < i => active[u]
    /\ pc = "disarm" => failing \/ \A u \in Units : active[u]
    /\ OkMeansUp

\* Nothing on the Host takes a unit down.
LEMMA HostOnlyStarts ==
    ASSUME TypeOK, HostNext
    PROVE  \A u \in Units : active[u] => active'[u]
<1>1. CASE RecoverUnit
  BY <1>1 DEF RecoverUnit, TypeOK, HostTypeOK
<1>2. CASE ~RecoverUnit
  BY <1>2 DEF HostNext, ArmDisarms, ArmSchedules, ArmLost, Expire, RecordFire
<1>3. QED
  BY <1>1, <1>2

LEMMA UpOnSuccessStep ==
    ASSUME TypeOK, StopCount, UpOnSuccess, [Next]_vars
    PROVE  UpOnSuccess'
<1> USE DEF UpOnSuccess, OkMeansUp
<1>0. /\ "start" \notin Quiesced /\ "disarm" \notin Quiesced /\ "idle" \notin Quiesced
      /\ "arm_start" \in Quiesced
  BY DEF Quiesced, ClosureSteps, ArmPoints
<1>1. ASSUME NEW o \in Allowed, Begin(o) \/ Refuse(o) PROVE UpOnSuccess'
  BY <1>1 DEF Begin, Refuse, Goto
<1>2. CASE CheckMarker
  BY <1>2 DEF CheckMarker, Goto
<1>3. CASE Arm
  <2>1. CASE pc = "arm_start"
    <3>1. stopped = NumUnits
      BY <1>0, <2>1 DEF StopCount
    <3>2. pc' = "start" /\ i' = 1
      BY <1>3, <2>1, <3>1, ArmStays DEF ToStarts
    <3>3. \A u \in Units : ~(u < i')
      BY <3>2 DEF Units
    <3>4. QED
      BY <3>2, <3>3
  <2>2. CASE pc # "arm_start"
    BY <1>0, <1>3, <2>2, ArmStays
  <2>3. QED
    BY <2>1, <2>2
<1>4. CASE StopUnit
  BY <1>0, <1>4, PointsQuiesced DEF StopUnit, Goto
<1>5. CASE StopFails
  BY <1>5 DEF StopFails, Goto, ToStarts
<1>6. CASE CopyStep
  BY <1>0, <1>6, CopyStepStaysQuiesced
<1>7. CASE StartUnit
  <2>1. CASE failing'
    BY <1>7, <2>1 DEF StartUnit, Goto
  <2>2. CASE ~failing'
    <3>1. /\ ~failing /\ stopped = NumUnits
          /\ active' = [active EXCEPT ![i] = TRUE]
      BY <1>7, <2>2 DEF StartUnit, StopCount
    <3>2. \A u \in Units : u <= i => active'[u]
      BY <1>7, <3>1 DEF StartUnit, TypeOK, HostTypeOK, PointTypeOK, Units
    <3>3. CASE i < stopped
      BY <1>7, <3>2, <3>3 DEF StartUnit, Goto, TypeOK, PointTypeOK, Units
    <3>4. CASE ~(i < stopped)
      <4>1. \A u \in Units : active'[u]
        BY <3>1, <3>2, <3>4 DEF TypeOK, PointTypeOK, Units
      <4>2. QED
        BY <1>7, <3>4, <4>1 DEF StartUnit, Goto
    <3>5. QED
      BY <3>3, <3>4
  <2>3. QED
    BY <2>1, <2>2
<1>8. CASE Disarm
  BY <1>8 DEF Disarm, Goto
<1>9. CASE Crash
  BY <1>9 DEF Crash, Goto
<1>10. CASE HostNext /\ UNCHANGED <<driverVars, accountVars>>
  BY <1>10, HostOnlyStarts DEF driverVars
<1>11. CASE Tick
  BY <1>11 DEF Tick
<1>12. CASE UNCHANGED vars
  BY <1>12 DEF vars, hostVars, driverVars
<1>13. QED
  BY <1>1, <1>2, <1>3, <1>4, <1>5, <1>6, <1>7, <1>8, <1>9, <1>10, <1>11, <1>12
     DEF Next, DriverStep, CopyStep

\* A run that returned Ok left every unit of its App running, whatever faults
\* occur, however late the arms land and whenever the deadman fires
\* (executor.rs, restart_all_collecting and the match on the result).
THEOREM OkRunsLeaveUnitsUp == Spec => []OkMeansUp
<1>1. Init => UpOnSuccess
  BY DEF Init, UpOnSuccess, OkMeansUp
<1>2. TypeOK /\ StopCount /\ UpOnSuccess /\ [Next]_vars => UpOnSuccess'
  BY UpOnSuccessStep
<1>3. UpOnSuccess => OkMeansUp
  BY DEF UpOnSuccess
<1>4. QED
  BY <1>1, <1>2, <1>3, StopCounts, PTL DEF Spec

----------------------------------------------------------------------------
(* No unit is stranded.  An arm that is lost or was never launched leaves  *)
(* the window unguarded, and a stop that fails ends in a disarm that may   *)
(* cut short the recovery of an earlier run: the executor does not promise *)
(* the property then (see arm_lost_silently.cfg and inherited_guard.cfg). *)

ArmsAndStopsSucceed ==
    Faults \cap {"arm_lost", "arm_spawn_fails", "stop_fails", "stop_answer_lost"} = {}

\* Every unit can be stopped before the timer armed at arm_first runs out.
StopsFitTimer == NumUnits * StepMax < Timeout

Coming == \E o \in Operations : sent[o] > 0
Rearming == unit = "absent" /\ \E o \in Operations : replacing[o] > 0

\* What will start unit u, with InFlight told apart: an arm that has run its
\* disarm half is a recovery only if its systemd-run will not be refused.
Owed(u) == Coming \/ Rearming \/ unit = "armed" \/ (unit = "firing" /\ next <= u)

\* Units that are down without an error have their recovery at any time, also
\* under a live driver: it may die at once.
AllOwed == \A u \in Units : active[u] \/ u \in erred \/ Owed(u)

\* During the stop loop the timer has not run out: what is left of it and what
\* the loop has taken, at most StepMax for each unit, make up Timeout.
StopsGuarded ==
    pc = "stop" =>
        \/ Coming
        \/ Rearming
        \/ unit = "armed" /\ left + (i - 1) * StepMax + spent >= Timeout

\* The restart loop leaves behind it no unit down without an error.
RestartsTried ==
    /\ pc \in {"start", "disarm"} => stopped = NumUnits
    /\ pc = "start" => \A u \in Units : u < i => active[u] \/ u \in erred
    /\ pc = "disarm" => \A u \in Units : active[u] \/ u \in erred

Recoverable == AllOwed /\ StopsGuarded /\ RestartsTried

\* Each unit's share of the stop loop is StepMax ticks.
LEMMA NextShare ==
    ASSUME NEW k \in Nat \ {0}
    PROVE  /\ (k - 1) * StepMax \in Nat
           /\ (k + 1 - 1) * StepMax = (k - 1) * StepMax + StepMax
<1>1. PICK m \in Nat : k = m + 1
  BY k - 1 \in Nat, k = (k - 1) + 1
<1>2. (m + 1) * StepMax = m * StepMax + StepMax
  OBVIOUS
<1>3. m * StepMax \in Nat
  OBVIOUS
<1>4. QED
  BY <1>1, <1>2, <1>3

\* At any point of the stop loop less than Timeout has gone by.
LEMMA StopsEndInTime ==
    ASSUME StopsFitTimer, NEW k \in Units, NEW t \in 0..StepMax
    PROVE  (k - 1) * StepMax + t < Timeout
<1>1. (k - 1) * StepMax + StepMax = k * StepMax
  BY NextShare DEF Units
<1>2. k * StepMax <= NumUnits * StepMax
  BY DEF Units
<1>3. (k - 1) * StepMax \in Nat /\ k * StepMax \in Nat /\ NumUnits * StepMax \in Nat
  BY NextShare DEF Units
<1>4. QED
  BY <1>1, <1>2, <1>3 DEF StopsFitTimer

LEMMA HostKeepsOwing ==
    ASSUME ArmsAndStopsSucceed, TypeOK, AllOwed, HostNext
    PROVE  AllOwed'
<1> USE DEF AllOwed, Owed
<1>1. ASSUME NEW o \in Operations, ArmDisarms(o) PROVE AllOwed'
  <2>1. replacing'[o] > 0 /\ unit' = "absent"
    BY <1>1 DEF ArmDisarms, DisarmUnit, TypeOK, HostTypeOK
  <2>2. Rearming'
    BY <2>1 DEF Rearming
  <2>3. QED
    BY <2>2
<1>2. ASSUME NEW o \in Operations, ArmSchedules(o) PROVE AllOwed'
  <2>1. UNCHANGED <<active, erred, sent>>
    BY <1>2 DEF ArmSchedules
  <2>2. CASE unit = "absent"
    BY <1>2, <2>2 DEF ArmSchedules, ScheduleUnit
  <2>3. CASE unit # "absent"
    BY <1>2, <2>1, <2>3 DEF ArmSchedules, ScheduleUnit, timerVars, Coming, Rearming
  <2>4. QED
    BY <2>2, <2>3
<1>3. ASSUME NEW o \in Operations, ArmLost(o) PROVE FALSE
  BY <1>3 DEF ArmLost, ArmsAndStopsSucceed
<1>4. CASE Expire
  <2>1. \A u \in Units : 1 <= u
    BY DEF Units
  <2>2. QED
    BY <1>4, <2>1 DEF Expire
<1>5. CASE RecoverUnit
  <2>1. ASSUME NEW u \in Units PROVE (active[u] \/ u \in erred \/ Owed(u))'
    <3>1. UNCHANGED <<unit, sent>> /\ unit = "firing" /\ next' = next + 1
      BY <1>5 DEF RecoverUnit
    <3>2. CASE u = next
      BY <1>5, <3>2 DEF RecoverUnit, TypeOK, HostTypeOK
    <3>3. CASE u # next
      <4>1. active'[u] = active[u] /\ (u \in erred => u \in erred')
        BY <1>5, <3>3 DEF RecoverUnit, TypeOK, HostTypeOK
      <4>2. next <= u => next' <= u
        BY <3>1, <3>3 DEF TypeOK, HostTypeOK, Units
      <4>3. QED
        BY <3>1, <4>1, <4>2 DEF Coming, Rearming
    <3>4. QED
      BY <3>2, <3>3
  <2>2. QED
    BY <2>1
<1>6. CASE RecordFire
  <2>1. \A u \in Units : ~(next <= u)
    BY <1>6 DEF RecordFire, Units
  <2>2. QED
    BY <1>6, <2>1 DEF RecordFire, Coming, Rearming
<1>7. QED
  BY <1>1, <1>2, <1>3, <1>4, <1>5, <1>6 DEF HostNext

LEMMA HostKeepsGuarding ==
    ASSUME ArmsAndStopsSucceed, StopsFitTimer, TypeOK, StopsGuarded,
           HostNext, UNCHANGED <<driverVars, accountVars>>, pc = "stop"
    PROVE  StopsGuarded'
<1> DEFINE Enough == left + (i - 1) * StepMax + spent >= Timeout
<1>0. UNCHANGED <<pc, i, spent>>
  BY DEF driverVars
<1>1. ASSUME NEW o \in Operations, ArmDisarms(o) PROVE StopsGuarded'
  <2>1. replacing'[o] > 0 /\ unit' = "absent"
    BY <1>1 DEF ArmDisarms, DisarmUnit, TypeOK, HostTypeOK
  <2>2. QED
    BY <2>1 DEF Rearming, StopsGuarded
<1>2. ASSUME NEW o \in Operations, ArmSchedules(o) PROVE StopsGuarded'
  <2>1. CASE unit = "absent"
    <3>1. unit' = "armed" /\ left' = Timeout
      BY <1>2, <2>1 DEF ArmSchedules, ScheduleUnit
    <3>2. Timeout \in Nat /\ (i - 1) * StepMax \in Nat /\ spent \in Nat
      BY NextShare DEF TypeOK, PointTypeOK, DriverTypeOK
    <3>3. Enough'
      BY <1>0, <3>1, <3>2
    <3>4. QED
      BY <3>1, <3>3 DEF StopsGuarded
  <2>2. CASE unit # "absent"
    BY <1>0, <1>2, <2>2
       DEF ArmSchedules, ScheduleUnit, timerVars, StopsGuarded, Coming, Rearming
  <2>3. QED
    BY <2>1, <2>2
<1>3. ASSUME NEW o \in Operations, ArmLost(o) PROVE FALSE
  BY <1>3 DEF ArmLost, ArmsAndStopsSucceed
<1>4. CASE Expire
  <2>1. (i - 1) * StepMax + spent < Timeout /\ (i - 1) * StepMax \in Nat
    BY StopsEndInTime, NextShare DEF TypeOK, PointTypeOK, DriverTypeOK
  <2>2. left = 0 /\ spent \in Nat
    BY <1>4 DEF Expire, TypeOK, DriverTypeOK
  <2>3. ~Enough
    BY <2>1, <2>2
  <2>4. Coming
    BY <1>4, <2>3 DEF Expire, StopsGuarded, Rearming
  <2>5. QED
    BY <1>4, <2>4 DEF Expire, StopsGuarded, Coming
<1>5. CASE RecoverUnit \/ RecordFire
  <2>1. Coming
    BY <1>5 DEF RecoverUnit, RecordFire, StopsGuarded, Rearming
  <2>2. QED
    BY <1>5, <2>1 DEF RecoverUnit, RecordFire, StopsGuarded, Coming
<1>6. QED
  BY <1>1, <1>2, <1>3, <1>4, <1>5 DEF HostNext

\* An arm in the right place always leaves a recovery.
LEMMA ArmOwes ==
    ASSUME ArmsAndStopsSucceed, TypeOK, Arm
    PROVE  Coming' \/ (unit' = "armed" /\ left' = Timeout)
<1>1. SpawnArm(op)
  BY DEF Arm, ArmsAndStopsSucceed
<1>2. CASE Detached
  <2>1. sent'[op] > 0 /\ op \in Operations
    BY <1>1, <1>2 DEF SpawnArm, TypeOK, HostTypeOK, DriverTypeOK
  <2>2. QED
    BY <2>1 DEF Coming
<1>3. CASE ~Detached
  BY <1>1, <1>3 DEF SpawnArm, ArmAtOnce
<1>4. QED
  BY <1>2, <1>3

LEMMA RecoverableStep ==
    ASSUME ArmsAndStopsSucceed, StopsFitTimer,
           TypeOK, StopCount, Recoverable, [Next]_vars
    PROVE  Recoverable'
<1>0. /\ "stop" \notin Quiesced /\ "start" \notin Quiesced /\ "disarm" \notin Quiesced
      /\ "arm_start" \in Quiesced
  BY DEF Quiesced, ClosureSteps, ArmPoints
<1> USE DEF Recoverable
<1>1. ASSUME NEW o \in Allowed, Begin(o) \/ Refuse(o) PROVE Recoverable'
  BY <1>1 DEF Begin, Refuse, Goto, hostVars, AllOwed, Owed, Coming, Rearming,
              StopsGuarded, RestartsTried
<1>2. CASE CheckMarker
  BY <1>2 DEF CheckMarker, Goto, timerVars, AllOwed, Owed, Coming, Rearming,
              StopsGuarded, RestartsTried
<1>3. CASE Arm
  <2>1. AllOwed'
    BY <1>3, ArmOwes DEF AllOwed, Owed
  <2>2. StopsGuarded'
    <3>1. CASE pc = "arm_first"
      <4>1. i' = 1 /\ spent' = 0
        BY <1>3, <3>1, ArmStays DEF StopCount
      <4>2. unit' = "armed" /\ left' = Timeout => (left + (i - 1) * StepMax + spent >= Timeout)'
        BY <4>1
      <4>3. QED
        BY <1>3, <4>2, ArmOwes DEF StopsGuarded
    <3>2. CASE pc # "arm_first"
      BY <1>0, <1>3, <3>2, ArmStays DEF StopsGuarded, ToStarts
    <3>3. QED
      BY <3>1, <3>2
  <2>3. RestartsTried'
    <3>1. CASE pc = "arm_start"
      <4>1. stopped = NumUnits
        BY <1>0, <3>1 DEF StopCount
      <4>2. pc' = "start" /\ i' = 1 /\ stopped' = NumUnits
        BY <1>3, <3>1, <4>1, ArmStays DEF ToStarts
      <4>3. \A u \in Units : ~(u < i')
        BY <4>2 DEF Units
      <4>4. QED
        BY <4>2, <4>3 DEF RestartsTried
    <3>2. CASE pc # "arm_start"
      BY <1>0, <1>3, <3>2, ArmStays DEF RestartsTried
    <3>3. QED
      BY <3>1, <3>2
  <2>4. QED
    BY <2>1, <2>2, <2>3
<1>4. CASE StopUnit
  <2>1. UNCHANGED <<timerVars, sent, replacing>>
    BY <1>4 DEF StopUnit
  <2>2. Coming \/ Rearming \/ unit = "armed"
    BY <1>4 DEF StopUnit, StopsGuarded
  <2>3. AllOwed'
    BY <2>1, <2>2 DEF AllOwed, Owed, timerVars, Coming, Rearming
  <2>4. StopsGuarded'
    <3>1. CASE i < NumUnits
      <4>1. i' = i + 1 /\ spent' = 0 /\ UNCHANGED left
        BY <1>4, <2>1, <3>1 DEF StopUnit, Goto, timerVars
      <4>2. /\ (i + 1 - 1) * StepMax = (i - 1) * StepMax + StepMax
            /\ (i - 1) * StepMax \in Nat
        BY NextShare DEF TypeOK, PointTypeOK
      <4>3. left \in Nat /\ spent \in 0..StepMax
        BY DEF TypeOK, HostTypeOK, DriverTypeOK
      <4>4. left + (i - 1) * StepMax + spent >= Timeout
                => left' + (i' - 1) * StepMax + spent' >= Timeout
        <5> DEFINE past == (i - 1) * StepMax
        <5>1. (i' - 1) * StepMax = past + StepMax
          <6>1. i' - 1 = i + 1 - 1
            BY <4>1 DEF TypeOK, PointTypeOK
          <6>2. (i' - 1) * StepMax = (i + 1 - 1) * StepMax
            BY <6>1, Zenon
          <6>3. QED
            BY <4>2, <6>2, Zenon
        <5>2. past \in Nat
          BY <4>2
        <5> HIDE DEF past
        <5>3. left + past + spent >= Timeout => left' + (past + StepMax) + spent' >= Timeout
          BY <4>1, <4>3, <5>2
        <5>4. QED
          BY <5>1, <5>3 DEF past
      <4>5. QED
        BY <1>4, <2>1, <4>4 DEF StopUnit, StopsGuarded, timerVars, Coming, Rearming
    <3>2. CASE ~(i < NumUnits)
      BY <1>0, <1>4, <3>2, PointsQuiesced DEF StopUnit, Goto, StopsGuarded
    <3>3. QED
      BY <3>1, <3>2
  <2>5. RestartsTried'
    BY <1>0, <1>4, PointsQuiesced DEF StopUnit, Goto, RestartsTried
  <2>6. QED
    BY <2>3, <2>4, <2>5
<1>5. CASE StopFails
  BY <1>5 DEF StopFails, ArmsAndStopsSucceed
<1>6. CASE CopyStep
  BY <1>0, <1>6, CopyStepStaysQuiesced
     DEF hostVars, AllOwed, Owed, Coming, Rearming, StopsGuarded, RestartsTried
<1>7. CASE StartUnit
  <2>1. ASSUME NEW u \in Units
        PROVE  /\ (active[u] \/ u \in erred) => (active'[u] \/ u \in erred')
               /\ u = i => active'[u] \/ u \in erred'
    BY <1>7 DEF StartUnit, TypeOK, HostTypeOK, PointTypeOK
  <2>2. AllOwed'
    BY <1>7, <2>1 DEF StartUnit, AllOwed, Owed, timerVars, Coming, Rearming
  <2>3. stopped = NumUnits /\ stopped' = NumUnits
    BY <1>7 DEF StartUnit, RestartsTried
  <2>4. \A u \in Units : u <= i => active'[u] \/ u \in erred'
    BY <1>7, <2>1 DEF StartUnit, RestartsTried, TypeOK, PointTypeOK, Units
  <2>5. RestartsTried' /\ StopsGuarded'
    <3>1. CASE i < stopped
      BY <1>7, <2>3, <2>4, <3>1
         DEF StartUnit, Goto, RestartsTried, StopsGuarded, TypeOK, PointTypeOK, Units
    <3>2. CASE ~(i < stopped)
      <4>1. \A u \in Units : active'[u] \/ u \in erred'
        BY <2>3, <2>4, <3>2 DEF TypeOK, PointTypeOK, Units
      <4>2. QED
        BY <1>7, <2>3, <3>2, <4>1 DEF StartUnit, Goto, RestartsTried, StopsGuarded
    <3>3. QED
      BY <3>1, <3>2
  <2>6. QED
    BY <2>2, <2>5
<1>8. CASE Disarm
  <2>1. \A u \in Units : active'[u] \/ u \in erred'
    BY <1>8 DEF Disarm, RestartsTried
  <2>2. QED
    BY <1>8, <2>1 DEF Disarm, Goto, AllOwed, StopsGuarded, RestartsTried
<1>9. CASE Crash
  BY <1>9 DEF Crash, Goto, hostVars, AllOwed, Owed, Coming, Rearming, StopsGuarded,
              RestartsTried
<1>10. CASE HostNext /\ UNCHANGED <<driverVars, accountVars>>
  <2>1. AllOwed'
    BY <1>10, HostKeepsOwing
  <2>2. StopsGuarded'
    <3>1. CASE pc = "stop"
      BY <1>10, <3>1, HostKeepsGuarding
    <3>2. CASE pc # "stop"
      BY <1>10, <3>2 DEF driverVars, StopsGuarded
    <3>3. QED
      BY <3>1, <3>2
  <2>3. \A u \in Units : active[u] \/ u \in erred => active'[u] \/ u \in erred'
    <3>1. CASE RecoverUnit
      BY <3>1 DEF RecoverUnit, TypeOK, HostTypeOK
    <3>2. CASE ~RecoverUnit
      BY <1>10, <3>2 DEF HostNext, ArmDisarms, ArmSchedules, ArmLost, Expire, RecordFire
    <3>3. QED
      BY <3>1, <3>2
  <2>4. RestartsTried'
    BY <1>10, <2>3 DEF driverVars, RestartsTried
  <2>5. QED
    BY <2>1, <2>2, <2>4
<1>11. CASE Tick
  <2>1. AllOwed' /\ RestartsTried'
    BY <1>11 DEF Tick, AllOwed, Owed, Coming, Rearming, RestartsTried
  <2>2. StopsGuarded'
    <3>1. CASE pc = "stop"
      <4>1. spent' = spent + 1 /\ left' >= left - 1 /\ UNCHANGED <<pc, i, unit, sent, replacing>>
        BY <1>11, <3>1 DEF Tick, Commands, TypeOK, HostTypeOK
      <4>2. left \in Nat /\ left' \in Nat /\ spent \in Nat /\ (i - 1) * StepMax \in Nat
        BY <1>11, NextShare DEF Tick, TypeOK, HostTypeOK, DriverTypeOK, PointTypeOK
      <4>3. left + (i - 1) * StepMax + spent >= Timeout
                => left' + (i' - 1) * StepMax + spent' >= Timeout
        BY <4>1, <4>2
      <4>4. QED
        BY <3>1, <4>1, <4>3 DEF StopsGuarded, Coming, Rearming
    <3>2. CASE pc # "stop"
      BY <1>11, <3>2 DEF Tick, StopsGuarded
    <3>3. QED
      BY <3>1, <3>2
  <2>3. QED
    BY <2>1, <2>2
<1>12. CASE UNCHANGED vars
  BY <1>12 DEF vars, hostVars, driverVars, AllOwed, Owed, Coming, Rearming, StopsGuarded,
               RestartsTried
<1>13. QED
  BY <1>1, <1>2, <1>3, <1>4, <1>5, <1>6, <1>7, <1>8, <1>9, <1>10, <1>11, <1>12
     DEF Next, DriverStep, CopyStep

\* When arms are only late and stops succeed, a driver that dies at any point
\* leaves no unit down without a recovery on the Host or an error for it.
THEOREM NothingIsStranded ==
    ASSUME ArmsAndStopsSucceed, StopsFitTimer
    PROVE  Spec => []NeverStranded
<1>1. Init => Recoverable
  BY DEF Init, HostInit, Recoverable, AllOwed, StopsGuarded, RestartsTried
<1>2. TypeOK /\ StopCount /\ Recoverable /\ [Next]_vars => Recoverable'
  BY RecoverableStep
<1>3. TypeOK /\ Recoverable => NeverStranded
  <2> SUFFICES ASSUME TypeOK, Recoverable, NEW u \in Units, Owed(u)
               PROVE  RecoveryPending(u)
    BY DEF Recoverable, AllOwed, NeverStranded
  <2>1. ASSUME Coming \/ Rearming PROVE InFlight > 0
    BY <2>1 DEF Coming, Rearming, InFlight, Operations, TypeOK, HostTypeOK
  <2>2. QED
    BY <2>1 DEF Owed, RecoveryPending
<1>4. QED
  BY <1>1, <1>2, <1>3, StopCounts, PTL DEF Spec

----------------------------------------------------------------------------
(* RecipeExecutor implements Custody: whoever takes an App's units down    *)
(* answers for them, and hands them to nobody but the Host's recovery.     *)

Custodian ==
    IF pc # "idle" THEN "driver"
    ELSE IF \E u \in Down \ erred : RecoveryPending(u) THEN "host"
    ELSE "nobody"

\* While no unit is stranded the Host's share is every unit down without an
\* error, so the custodian is a function of what is down and excused.
CustodianIsShare ==
    Custodian = IF pc # "idle" THEN "driver" ELSE AppCustody!HostShare(Down, erred)

LEMMA CustodianKnown == NeverStranded => CustodianIsShare
<1> SUFFICES ASSUME NeverStranded PROVE CustodianIsShare
  OBVIOUS
<1>1. CASE pc = "idle"
  <2>1. \A u \in Down \ erred : RecoveryPending(u)
    BY <1>1 DEF NeverStranded, Down
  <2>2. QED
    BY <1>1, <2>1 DEF CustodianIsShare, Custodian, AppCustody!HostShare
<1>2. CASE pc # "idle"
  BY <1>2 DEF CustodianIsShare, Custodian
<1>3. QED
  BY <1>1, <1>2

LEMMA CustodianKnownNext == NeverStranded' => CustodianIsShare'
  BY CustodianKnown, PTL

\* A step that keeps the units and the driver's presence is invisible.
LEMMA InvisibleStep ==
    ASSUME NeverStranded, NeverStranded', UNCHANGED <<active, erred>>,
           (pc = "idle") <=> (pc' = "idle")
    PROVE  UNCHANGED <<Down, erred, Custodian>>
<1>1. UNCHANGED <<Down, erred>>
  BY DEF Down
<1>2. QED
  BY <1>1, CustodianKnown, CustodianKnownNext DEF CustodianIsShare

\* Every step of the executor or the Host is a step of Custody or invisible.
LEMMA CustodyStep ==
    ASSUME ArmsAndStopsSucceed, TypeOK, NeverStranded, NeverStranded', [Next]_vars
    PROVE  AppCustody!Next \/ UNCHANGED <<Down, erred, Custodian>>
<1> USE CustodianKnown, CustodianKnownNext DEF CustodianIsShare
<1>0. AppCustody!Next <=> \/ AppCustody!Open \/ AppCustody!LetGo
                         \/ \E u \in Units : AppCustody!TakeDown(u) \/ AppCustody!BringUp(u)
  BY DEF AppCustody!Next
<1>1. ASSUME NEW o \in Allowed, Begin(o) PROVE AppCustody!Open
  <2>1. UNCHANGED <<Down, erred>>
    BY <1>1 DEF Begin, hostVars, Down
  <2>2. QED
    BY <1>1, <2>1 DEF Begin, Goto, AppCustody!Open, AppCustody!HostShare, Custodian
<1>2. ASSUME NEW o \in Allowed, Refuse(o) PROVE UNCHANGED <<Down, erred, Custodian>>
  BY <1>2, InvisibleStep DEF Refuse, hostVars
<1>3. CASE CheckMarker \/ Arm
  <2>1. pc # "idle" /\ pc' # "idle"
    BY <1>3, ArmStays DEF CheckMarker, Arm, Goto, ArmPoints, Quiesced, ClosureSteps, ToStarts
  <2>2. QED
    BY <1>3, <2>1, InvisibleStep DEF CheckMarker, Arm
<1>4. CASE CopyStep
  <2>1. "idle" \notin Quiesced
    BY DEF Quiesced, ClosureSteps, ArmPoints
  <2>2. QED
    BY <1>4, <2>1, CopyStepStaysQuiesced, InvisibleStep DEF hostVars
<1>5. CASE StopUnit
  <2>1. i \in Units /\ pc # "idle"
    BY <1>5 DEF StopUnit, TypeOK, PointTypeOK
  <2>2. pc' # "idle"
    BY <1>5, PointsQuiesced DEF StopUnit, Goto, Quiesced, ClosureSteps, ArmPoints
  <2>3. Down' = Down \cup {i} /\ erred' = erred \ {i}
    BY <1>5, <2>1 DEF StopUnit, Down, TypeOK, HostTypeOK
  <2>4. AppCustody!TakeDown(i)
    BY <2>1, <2>2, <2>3 DEF AppCustody!TakeDown, Custodian
  <2>5. QED
    BY <1>0, <2>1, <2>4
<1>6. CASE StopFails
  BY <1>6 DEF StopFails, ArmsAndStopsSucceed
<1>7. CASE StartUnit
  <2>1. i \in Units /\ pc # "idle" /\ pc' # "idle"
    BY <1>7 DEF StartUnit, Goto, TypeOK, PointTypeOK
  <2>2. \/ Down' = Down \ {i} /\ erred' = erred \ {i}
        \/ Down' = Down /\ erred' = erred \cup {i}
    BY <1>7, <2>1 DEF StartUnit, Down, TypeOK, HostTypeOK
  <2>3. AppCustody!BringUp(i)
    BY <2>1, <2>2 DEF AppCustody!BringUp, Custodian
  <2>4. QED
    BY <1>0, <2>1, <2>3
<1>8. CASE Disarm \/ Crash
  <2>1. UNCHANGED <<Down, erred>> /\ pc # "idle" /\ pc' = "idle"
    BY <1>8 DEF Disarm, Crash, Goto, hostVars, Down
  <2>2. AppCustody!LetGo
    BY <2>1 DEF AppCustody!LetGo, AppCustody!HostShare, Custodian
  <2>3. QED
    BY <1>0, <2>2
<1>9. CASE HostNext /\ UNCHANGED <<driverVars, accountVars>>
  <2>1. UNCHANGED pc
    BY <1>9 DEF driverVars
  <2>2. CASE RecoverUnit
    <3>1. next \in Units
      BY <2>2 DEF RecoverUnit
    <3>2. \/ Down' = Down \ {next} /\ erred' = erred \ {next}
          \/ Down' = Down /\ erred' = erred \cup {next}
      BY <2>2, <3>1 DEF RecoverUnit, Down, TypeOK, HostTypeOK
    <3>3. Custodian = "driver" <=> pc # "idle"
      BY DEF AppCustody!HostShare
    <3>4. Custodian' = IF Custodian = "driver" THEN "driver"
                       ELSE AppCustody!HostShare(Down', erred')
      BY <2>1, <3>3
    <3>5. AppCustody!BringUp(next)
      BY <3>2, <3>4 DEF AppCustody!BringUp, Custodian
    <3>6. QED
      BY <1>0, <3>1, <3>5
  <2>3. CASE ~RecoverUnit
    <3>1. UNCHANGED <<active, erred>>
      BY <1>9, <2>3 DEF HostNext, ArmDisarms, ArmSchedules, ArmLost, Expire, RecordFire
    <3>2. QED
      BY <2>1, <3>1, InvisibleStep
  <2>4. QED
    BY <2>2, <2>3
<1>10. CASE Tick \/ UNCHANGED vars
  BY <1>10, InvisibleStep DEF Tick, vars, hostVars, driverVars
<1>11. QED
  BY <1>0, <1>1, <1>2, <1>3, <1>4, <1>5, <1>6, <1>7, <1>8, <1>9, <1>10
     DEF Next, DriverStep, CopyStep

\* When arms are only late and stops succeed, the executor, its deadman and
\* the Host together implement Custody: a driver's return or death hands
\* exactly the units still down without an error to the Host.
THEOREM ImplementsCustody ==
    ASSUME ArmsAndStopsSucceed, StopsFitTimer
    PROVE  Spec => KeepsCustody
<1>1. Init => AppCustody!Init
  BY DEF Init, HostInit, AppCustody!Init, Down
<1>2. /\ TypeOK /\ NeverStranded /\ NeverStranded' /\ [Next]_vars
          => [AppCustody!Next]_(AppCustody!custodyVars)
  BY CustodyStep DEF AppCustody!custodyVars, Custodian
<1>3. Spec => []NeverStranded
  BY NothingIsStranded
<1>4. QED
  BY <1>1, <1>2, <1>3, TypeCorrect, PTL DEF Spec, KeepsCustody, AppCustody!Spec
----------------------------------------------------------------------------
(* The window while its arms land in order.  An arm that is late may find  *)
(* the window closed, and one never launched leaves the timer running: the *)
(* executor does not promise what follows then (README, Counterexamples).  *)

NoneInFlight == \A o \in Operations : sent[o] = 0 /\ replacing[o] = 0

LEMMA NoneInFlightStep ==
    ASSUME ~Detached, TypeOK, NoneInFlight, [Next]_vars
    PROVE  NoneInFlight'
<1> SUFFICES UNCHANGED <<sent, replacing>>
  BY DEF NoneInFlight
<1>1. ASSUME NEW o \in Allowed, Begin(o) \/ Refuse(o) PROVE UNCHANGED <<sent, replacing>>
  BY <1>1 DEF Begin, Refuse, hostVars
<1>2. CASE CheckMarker \/ Arm \/ StopUnit \/ StopFails \/ StartUnit \/ Disarm
  BY <1>2 DEF CheckMarker, Arm, SpawnArm, ArmAtOnce, StopUnit, StopFails, StartUnit, Disarm
<1>3. CASE CopyStep
  BY <1>3, CopyStepStaysQuiesced DEF hostVars
<1>4. CASE HostNext
  BY <1>4 DEF HostNext, NoneInFlight, ArmDisarms, ArmSchedules, ArmLost, Expire,
              RecoverUnit, RecordFire
<1>5. CASE Crash \/ Tick \/ UNCHANGED vars
  BY <1>5 DEF Crash, Tick, vars, hostVars
<1>6. QED
  BY <1>1, <1>2, <1>3, <1>4, <1>5 DEF Next, DriverStep, CopyStep

\* If every arm lands before the driver's next command and the disarm is not
\* lost, a run that returned leaves no timer of its App armed: none can fire
\* on an App nobody is working on (executor.rs, the disarm on every path).
THEOREM ReturnsLeaveNothingArmed ==
    ASSUME ~Detached, "disarm_lost" \notin Faults
    PROVE  Spec => []NothingStaysArmed
<1>1. Init => NoneInFlight /\ NothingStaysArmed
  BY DEF Init, HostInit, NoneInFlight, NothingStaysArmed
<1>2. ASSUME TypeOK, NoneInFlight, NothingStaysArmed, [Next]_vars
      PROVE  NothingStaysArmed'
  <2> USE <1>2 DEF NothingStaysArmed
  <2>1. ASSUME NEW o \in Allowed, Begin(o) \/ Refuse(o) PROVE NothingStaysArmed'
    BY <2>1 DEF Begin, Refuse, Goto, hostVars, timerVars
  <2>2. CASE DriverStep /\ ~Disarm
    <3>1. "idle" \notin Quiesced
      BY DEF Quiesced, ClosureSteps, ArmPoints
    <3>2. CASE CheckMarker \/ StopUnit \/ StopFails \/ StartUnit
      BY <3>1, <3>2, PointsQuiesced DEF CheckMarker, StopUnit, StopFails, StartUnit, Goto, ToStarts
    <3>3. CASE Arm
      BY <3>1, <3>3, ArmStays DEF ToStarts
    <3>4. CASE CopyStep
      BY <3>1, <3>4, CopyStepStaysQuiesced
    <3>5. QED
      BY <2>2, <3>2, <3>3, <3>4 DEF DriverStep, CopyStep
  <2>3. CASE Disarm
    BY <2>3 DEF Disarm, DisarmUnit
  <2>4. CASE Crash
    BY <2>4 DEF Crash
  <2>5. CASE HostNext /\ UNCHANGED <<driverVars, accountVars>>
    <3>1. unit' = "armed" => unit = "armed"
      BY <2>5 DEF HostNext, NoneInFlight, ArmDisarms, ArmSchedules, ArmLost, Expire,
                  RecoverUnit, RecordFire, DisarmUnit
    <3>2. QED
      BY <2>5, <3>1 DEF driverVars
  <2>6. CASE Tick \/ UNCHANGED vars
    BY <2>6 DEF Tick, vars, hostVars, timerVars, driverVars
  <2>7. QED
    BY <2>1, <2>2, <2>3, <2>4, <2>5, <2>6 DEF Next
<1>3. TypeOK /\ NoneInFlight /\ [Next]_vars => NoneInFlight'
  BY NoneInFlightStep
<1>4. QED
  BY <1>1, <1>2, <1>3, TypeCorrect, PTL DEF Spec

ArmsLandInOrder == ~Detached /\ "arm_spawn_fails" \notin Faults

\* Between two arms a run waits for at most 2 * NumUnits + 2 commands, and the
\* timer outlasts them: deadman::TIMEOUT bounds a stretch, not the operation.
StretchFitsTimer == (2 * NumUnits + 2) * StepMax < Timeout

Window == (Commands \cup ArmPoints) \ {"fire_check", "arm_first"}

\* At most so many commands have returned since the last arm.  A stop that
\* fails goes to the restart loop without a further arm.
Elapsed ==
    CASE pc = "stop" -> i - 1
      [] pc \in {"dump", "send"} -> 1
      [] pc \in {"fetch", "replay"} -> 2
      [] pc = "cleanup" -> 3
      [] pc = "start" -> NumUnits + i
      [] pc = "disarm" -> 2 * NumUnits + 1
      [] pc \in ArmPoints -> 2 * NumUnits + 2
      [] OTHER -> 0

\* The timer that runs during a window has not lost more than the commands of
\* the window have taken.
TimerKept ==
    /\ pc \in ArmPoints => spent = 0
    /\ pc \in {"fire_check", "arm_first", "stop"} => ~staging
    /\ pc \in Window => unit = "armed" /\ left + Elapsed * StepMax + spent >= Timeout

\* The stop loop leaves down what it has passed, and nothing starts it again
\* before the restart loop.
StaysDown ==
    /\ pc = "stop" => \A u \in Units : u < i => ~active[u]
    /\ pc \in Quiesced => \A u \in Units : ~active[u]

Windowed == NoneInFlight /\ TimerKept /\ StaysDown

LEMMA Pace ==
    ASSUME NEW n \in Nat, NEW m \in Nat
    PROVE  n * StepMax \in Nat /\ (n < m => n * StepMax + StepMax <= m * StepMax)
<1>1. \A k \in Nat : k * StepMax \in Nat
  OBVIOUS
<1>2. ASSUME n < m PROVE n * StepMax + StepMax <= m * StepMax
  <2>1. PICK d \in Nat : m = n + 1 + d
    BY <1>2, m - n - 1 \in Nat, m = n + 1 + (m - n - 1)
  <2>2. (n + 1 + d) * StepMax = n * StepMax + StepMax + d * StepMax
    OBVIOUS
  <2>3. QED
    BY <1>1, <2>1, <2>2
<1>3. QED
  BY <1>1, <1>2

\* A stretch never holds more commands than it may.
StretchBounded ==
    /\ Elapsed \in Nat
    /\ pc \in Window => Elapsed <= 2 * NumUnits + 2
    /\ pc \in Window \ ArmPoints => Elapsed <= 2 * NumUnits + 1

LEMMA ElapsedBound == TypeOK => StretchBounded
<1> USE DEF StretchBounded, Elapsed, Window, Commands, ClosureSteps, ArmPoints
<1> SUFFICES ASSUME TypeOK PROVE StretchBounded
  OBVIOUS
<1>1. CASE pc \in {"stop", "start"}
  BY <1>1 DEF TypeOK, PointTypeOK, Units
<1>2. CASE pc \notin {"stop", "start"}
  BY <1>2
<1>3. QED
  BY <1>1, <1>2

LEMMA ElapsedBoundNext == TypeOK' => StretchBounded'
  BY ElapsedBound, PTL

\* The commands of the unit loops, counted.
LoopsElapse ==
    /\ pc = "stop" => Elapsed = i - 1
    /\ pc = "start" => Elapsed = NumUnits + i
    /\ pc = "disarm" => Elapsed = 2 * NumUnits + 1
    /\ pc \in ArmPoints => Elapsed = 2 * NumUnits + 2

LEMMA LoopCounts == TypeOK => LoopsElapse
  BY DEF LoopsElapse, Elapsed, ArmPoints, TypeOK, PointTypeOK

LEMMA LoopCountsNext == TypeOK' => LoopsElapse'
  BY LoopCounts, PTL

\* In a window the timer is running and has time left.
LEMMA NotPresumedDead ==
    ASSUME StretchFitsTimer, TypeOK, TimerKept, pc \in Window
    PROVE  unit = "armed" /\ left > 0
<1> DEFINE past == Elapsed * StepMax  all == (2 * NumUnits + 2) * StepMax
<1>1. all < Timeout /\ all \in Nat
  BY Pace DEF StretchFitsTimer
<1>2. past \in Nat /\ spent \in 0..StepMax /\ left \in Nat
  BY ElapsedBound, Pace DEF StretchBounded, TypeOK, HostTypeOK, DriverTypeOK
<1>3. past + spent <= all
  <2>1. CASE pc \in ArmPoints
    <3>1. Elapsed = 2 * NumUnits + 2
      BY <2>1 DEF Elapsed, ArmPoints
    <3>2. QED
      BY <1>1, <2>1, <3>1 DEF TimerKept
  <2>2. CASE pc \notin ArmPoints
    <3>1. Elapsed \in Nat /\ Elapsed < 2 * NumUnits + 2
      BY <2>2, ElapsedBound DEF StretchBounded
    <3>2. past + StepMax <= all
      BY <3>1, Pace
    <3>3. QED
      BY <1>1, <1>2, <3>2
  <2>3. QED
    BY <2>1, <2>2
<1>4. unit = "armed" /\ left + past + spent >= Timeout
  BY DEF TimerKept
<1> HIDE DEF past, all
<1>5. QED
  BY <1>1, <1>2, <1>3, <1>4

\* A command of the window returned, and the timer ran on beside it.
LEMMA CommandReturns ==
    ASSUME TypeOK, TypeOK', TimerKept, pc \in Window, UNCHANGED timerVars,
           spent' = 0, Elapsed' >= Elapsed + 1
    PROVE  unit' = "armed" /\ left' + Elapsed' * StepMax + spent' >= Timeout
<1> DEFINE past == Elapsed * StepMax  now == Elapsed' * StepMax
<1>1. Elapsed \in Nat /\ Elapsed' \in Nat
  BY ElapsedBound, ElapsedBoundNext DEF StretchBounded
<1>2. past + StepMax <= now /\ past \in Nat /\ now \in Nat
  <2>1. Elapsed < Elapsed'
    BY <1>1
  <2>2. QED
    BY <1>1, <2>1, Pace
<1>3. unit = "armed" /\ left + past + spent >= Timeout
  BY DEF TimerKept
<1>4. spent \in 0..StepMax /\ left \in Nat /\ unit' = unit /\ left' = left
  BY DEF TypeOK, HostTypeOK, DriverTypeOK, timerVars
<1> HIDE DEF past, now
<1>5. unit' = "armed" /\ left' + now + spent' >= Timeout
  BY <1>2, <1>3, <1>4
<1>6. QED
  BY <1>5 DEF now

\* Where the stages a Recipe does not ask for are passed over to, counted by
\* the commands that have gone before.
LEMMA PointsLater ==
    /\ ToCleanup(staging) \in {"cleanup", "arm_start"}
    /\ ToPost \in {"arm_post", "cleanup", "arm_start"}
    /\ ToDb \in {"arm_db", "arm_post", "cleanup", "arm_start"}
    /\ \A k \in Nat : ToPaths(k) \in (ArmPoints \ {"arm_first"}) \cup {"fetch", "cleanup"}
    /\ AfterPaths \in (ArmPoints \ {"arm_first"}) \cup {"fetch", "cleanup"}
    /\ ~staging /\ op \in Operations => AfterStops \in ArmPoints \ {"arm_first"}
<1> USE DEF ArmPoints
<1>1. ToCleanup(staging) \in {"cleanup", "arm_start"}
  BY DEF ToCleanup, AfterCleanup
<1>2. ToPost \in {"arm_post", "cleanup", "arm_start"}
  BY <1>1 DEF ToPost
<1>3. ToDb \in {"arm_db", "arm_post", "cleanup", "arm_start"}
  BY <1>2 DEF ToDb
<1>4. \A k \in Nat : ToOwner(k) \in (ArmPoints \ {"arm_first"}) \cup {"cleanup"}
  BY <1>3 DEF ToOwner
<1>5. AfterPaths \in (ArmPoints \ {"arm_first"}) \cup {"fetch", "cleanup"}
  BY <1>1, <1>4 DEF AfterPaths
<1>6. \A k \in Nat : ToPaths(k) \in (ArmPoints \ {"arm_first"}) \cup {"fetch", "cleanup"}
  BY <1>5 DEF ToPaths
<1>7. ASSUME ~staging, op \in Operations PROVE AfterStops \in ArmPoints \ {"arm_first"}
  <2>1. ToDb \in ArmPoints \ {"arm_first"}
    BY <1>7 DEF ToDb, ToPost, ToCleanup, AfterCleanup
  <2>2. ToOwner(1) \in ArmPoints \ {"arm_first"}
    BY <2>1 DEF ToOwner
  <2>3. QED
    BY <1>7, <2>2 DEF AfterStops, ToPaths, AfterPaths, Operations
<1>8. QED
  BY <1>1, <1>2, <1>3, <1>5, <1>6, <1>7

\* A command of the copy counts itself.
LEMMA CopyStepElapses ==
    ASSUME TypeOK, CopyStep
    PROVE  /\ Elapsed' >= Elapsed + 1 /\ spent' = 0
           /\ pc \in Window /\ pc' \in Window /\ pc' # "stop"
<1> USE PointsLater DEF Elapsed, Goto, Window, Commands, ClosureSteps, ArmPoints
<1>1. CASE MakeStaging \/ CopyDump
  BY <1>1 DEF MakeStaging, CopyDump
<1>2. CASE Dump \/ Replay \/ Post
  BY <1>2 DEF Dump, Replay, Post
<1>3. CASE Rsync \/ Chown
  BY <1>3 DEF Rsync, Chown
<1>4. CASE StepFails \/ RemoveStaging
  BY <1>4 DEF StepFails, RemoveStaging, AfterCleanup
<1>5. QED
  BY <1>1, <1>2, <1>3, <1>4 DEF CopyStep

LEMMA TimerKeptStep ==
    ASSUME ArmsLandInOrder, StretchFitsTimer, TypeOK, TypeOK', NoneInFlight, TimerKept,
           [Next]_vars
    PROVE  TimerKept'
<1>0. /\ "idle" \notin Window /\ "fire_check" \notin Window /\ "arm_first" \notin Window
      /\ "idle" \notin ArmPoints /\ "fire_check" \notin ArmPoints
      /\ Window \ ArmPoints \subseteq Commands
      /\ Commands \cap ArmPoints = {} /\ "stop" \notin ArmPoints
      /\ \A p \in {"stop", "start", "disarm"} : p \in Window /\ p \notin ArmPoints
      /\ ArmPoints \ {"arm_first"} \subseteq Window
  BY DEF Window, Commands, ClosureSteps, ArmPoints
<1>1. ASSUME NEW o \in Allowed, Begin(o) PROVE TimerKept'
  BY <1>0, <1>1 DEF Begin, Goto, TimerKept
<1>2. ASSUME NEW o \in Allowed, Refuse(o) PROVE TimerKept'
  BY <1>0, <1>2 DEF Refuse, TimerKept
<1>3. CASE CheckMarker
  BY <1>0, <1>3 DEF CheckMarker, Goto, TimerKept
<1>4. CASE Arm
  <2>1. unit' = "armed" /\ left' = Timeout /\ spent' = 0
    BY <1>4, ArmStays DEF Arm, SpawnArm, ArmAtOnce, ArmsLandInOrder
  <2>2. Elapsed' * StepMax \in Nat
    BY ElapsedBoundNext, Pace DEF StretchBounded
  <2>3. left' + Elapsed' * StepMax + spent' >= Timeout
    BY <2>1, <2>2
  <2>4. pc' \in {"fire_check", "arm_first", "stop"} => ~staging'
    <3>1. pc' \in {"fire_check", "arm_first", "stop"} => pc = "arm_first"
      BY <1>4, ArmStays DEF ToStarts, Quiesced, ClosureSteps, ArmPoints
    <3>2. QED
      BY <1>4, <3>1 DEF Arm, TimerKept
  <2>5. QED
    BY <2>1, <2>3, <2>4 DEF TimerKept
<1>5. CASE StopUnit
  <2>1. pc \in Window /\ ~staging /\ UNCHANGED <<timerVars, staging>> /\ spent' = 0
    BY <1>0, <1>5 DEF StopUnit, Goto, TimerKept
  <2>2. Elapsed' >= Elapsed + 1
    <3>1. Elapsed = i - 1 /\ i \in Units
      BY <1>5, LoopCounts DEF StopUnit, LoopsElapse, TypeOK, PointTypeOK
    <3>2. CASE i < NumUnits
      <4>1. pc' = "stop" /\ i' = i + 1
        BY <1>5, <3>2 DEF StopUnit, Goto
      <4>2. QED
        BY <3>1, <4>1, LoopCountsNext DEF LoopsElapse, Units
    <3>3. CASE ~(i < NumUnits)
      <4>1. pc' \in ArmPoints \ {"arm_first"}
        BY <1>5, <2>1, <3>3, PointsLater DEF StopUnit, Goto, TypeOK, DriverTypeOK
      <4>2. Elapsed' = 2 * NumUnits + 2
        BY <4>1, LoopCountsNext DEF LoopsElapse, ArmPoints
      <4>3. QED
        BY <3>1, <4>2 DEF Units
    <3>4. QED
      BY <3>2, <3>3
  <2>3. QED
    BY <2>1, <2>2, CommandReturns DEF TimerKept
<1>6. CASE StopFails
  <2>1. /\ pc \in Window /\ UNCHANGED <<timerVars, staging>> /\ spent' = 0
        /\ pc' \in {"start", "disarm"} /\ i' = 1
    BY <1>0, <1>6 DEF StopFails, Goto, ToStarts
  <2>2. Elapsed' >= Elapsed + 1
    <3>1. Elapsed = i - 1 /\ i \in Units
      BY <1>6, LoopCounts DEF StopFails, LoopsElapse, TypeOK, PointTypeOK
    <3>2. QED
      BY <2>1, <3>1, LoopCountsNext DEF LoopsElapse, Units
  <2>3. QED
    BY <1>0, <2>1, <2>2, CommandReturns DEF TimerKept
<1>7. CASE CopyStep
  <2>1. UNCHANGED timerVars
    BY <1>7, CopyStepStaysQuiesced DEF hostVars, timerVars
  <2>2. pc' \notin {"fire_check", "arm_first", "stop"}
    BY <1>0, <1>7, CopyStepElapses
  <2>3. QED
    BY <1>7, <2>1, <2>2, CopyStepElapses, CommandReturns DEF TimerKept
<1>8. CASE StartUnit
  <2>1. /\ pc \in Window /\ UNCHANGED <<timerVars, staging>> /\ spent' = 0
        /\ pc' \in {"start", "disarm"} /\ i \in Units
        /\ pc' = "start" => i' = i + 1
    BY <1>0, <1>8 DEF StartUnit, Goto, TypeOK, PointTypeOK
  <2>2. Elapsed' >= Elapsed + 1
    <3>1. Elapsed = NumUnits + i
      BY <1>8, LoopCounts DEF StartUnit, LoopsElapse
    <3>2. QED
      BY <2>1, <3>1, LoopCountsNext DEF LoopsElapse, Units
  <2>3. QED
    BY <1>0, <2>1, <2>2, CommandReturns DEF TimerKept
<1>9. CASE Disarm \/ Crash
  BY <1>0, <1>9 DEF Disarm, Crash, Goto, TimerKept
<1>10. CASE HostNext /\ UNCHANGED <<driverVars, accountVars>>
  <2>1. UNCHANGED <<pc, i, spent, staging>>
    BY <1>10 DEF driverVars
  <2>2. ASSUME pc \in Window PROVE UNCHANGED <<unit, left>>
    BY <1>10, <2>2, NotPresumedDead
       DEF HostNext, NoneInFlight, ArmDisarms, ArmSchedules, ArmLost, Expire,
           RecoverUnit, RecordFire
  <2>3. Elapsed' = Elapsed
    BY <2>1 DEF Elapsed
  <2>4. QED
    BY <2>1, <2>2, <2>3 DEF TimerKept
<1>11. CASE Tick
  <2>1. UNCHANGED <<pc, i, unit, staging>> /\ pc \notin ArmPoints
    BY <1>11 DEF Tick
  <2>2. ASSUME pc \in Window PROVE left' + Elapsed' * StepMax + spent' >= Timeout
    <3> DEFINE past == Elapsed * StepMax
    <3>1. Elapsed' * StepMax = past /\ past \in Nat
      BY <2>1, ElapsedBound, Pace DEF StretchBounded, Elapsed
    <3>2. left' = left - 1 /\ spent' = spent + 1
      BY <1>0, <1>11, <2>1, <2>2, NotPresumedDead DEF Tick
    <3>3. left + past + spent >= Timeout
      BY <2>2 DEF TimerKept
    <3>4. left \in Nat /\ spent \in Nat
      BY DEF TypeOK, HostTypeOK, DriverTypeOK
    <3> HIDE DEF past
    <3>5. QED
      BY <3>1, <3>2, <3>3, <3>4
  <2>3. QED
    BY <2>1, <2>2 DEF TimerKept
<1>12. CASE UNCHANGED vars
  <2>1. Elapsed' = Elapsed
    BY <1>12 DEF vars, driverVars, Elapsed
  <2>2. QED
    BY <1>12, <2>1 DEF vars, hostVars, timerVars, driverVars, TimerKept
<1>13. QED
  BY <1>1, <1>2, <1>3, <1>4, <1>5, <1>6, <1>7, <1>8, <1>9, <1>10, <1>11, <1>12
     DEF Next, DriverStep, CopyStep

LEMMA StaysDownStep ==
    ASSUME TypeOK, StopCount, NoneInFlight, TimerKept, StaysDown, [Next]_vars
    PROVE  StaysDown'
<1>0. /\ "stop" \notin Quiesced /\ "start" \notin Quiesced /\ "disarm" \notin Quiesced
      /\ "idle" \notin Quiesced /\ "fire_check" \notin Quiesced
      /\ "arm_first" \notin Quiesced /\ Quiesced \cup {"stop"} \subseteq Window
  BY DEF Quiesced, Window, Commands, ClosureSteps, ArmPoints
<1> USE DEF StaysDown
<1>1. ASSUME NEW o \in Allowed, Begin(o) \/ Refuse(o) PROVE StaysDown'
  BY <1>0, <1>1 DEF Begin, Refuse, Goto, hostVars
<1>2. CASE CheckMarker \/ StopFails \/ StartUnit \/ Disarm \/ Crash
  BY <1>0, <1>2 DEF CheckMarker, StopFails, StartUnit, Disarm, Crash, Goto, ToStarts
<1>3. CASE Arm
  <2>1. CASE pc = "arm_first"
    BY <1>0, <1>3, <2>1, ArmStays DEF StopCount, Units
  <2>2. CASE pc # "arm_first"
    BY <1>0, <1>3, <2>2, ArmStays DEF ToStarts
  <2>3. QED
    BY <2>1, <2>2
<1>4. CASE StopUnit
  <2>1. \A u \in Units : u <= i => ~active'[u]
    BY <1>4 DEF StopUnit, TypeOK, HostTypeOK, PointTypeOK, Units
  <2>2. CASE i < NumUnits
    BY <1>0, <1>4, <2>1, <2>2 DEF StopUnit, Goto, TypeOK, PointTypeOK, Units
  <2>3. CASE ~(i < NumUnits)
    <3>1. \A u \in Units : ~active'[u]
      BY <2>1, <2>3 DEF TypeOK, PointTypeOK, Units
    <3>2. pc' # "stop"
      BY <1>0, <1>4, <2>3, PointsQuiesced DEF StopUnit, Goto
    <3>3. QED
      BY <3>1, <3>2
  <2>4. QED
    BY <2>2, <2>3
<1>5. CASE CopyStep
  BY <1>0, <1>5, CopyStepStaysQuiesced DEF hostVars
<1>6. CASE HostNext /\ UNCHANGED <<driverVars, accountVars>>
  <2>1. ASSUME pc \in Window PROVE UNCHANGED active
    BY <1>6, <2>1 DEF TimerKept, HostNext, ArmDisarms, ArmSchedules, ArmLost, Expire,
                      RecoverUnit, RecordFire
  <2>2. QED
    BY <1>0, <1>6, <2>1 DEF driverVars
<1>7. CASE Tick \/ UNCHANGED vars
  BY <1>7 DEF Tick, vars, hostVars, driverVars
<1>8. QED
  BY <1>1, <1>2, <1>3, <1>4, <1>5, <1>6, <1>7 DEF Next, DriverStep, CopyStep

THEOREM WindowHolds ==
    ASSUME ArmsLandInOrder, StretchFitsTimer
    PROVE  Spec => [](TypeOK /\ StopCount /\ Windowed)
<1>1. Init => Windowed
  BY DEF Init, HostInit, Windowed, NoneInFlight, TimerKept, StaysDown, Window, Commands,
         ClosureSteps, ArmPoints, Quiesced
<1>2. TypeOK /\ TypeOK' /\ StopCount /\ Windowed /\ [Next]_vars => Windowed'
  BY NoneInFlightStep, TimerKeptStep, StaysDownStep DEF Windowed, ArmsLandInOrder
<1>3. QED
  BY <1>1, <1>2, StopCounts, PTL DEF Spec

\* While arms land in order and a stretch fits the timer, data is dumped,
\* copied off or overwritten only with every unit of the App down: neither
\* the run's own order nor its deadman starts one in the middle
\* (executor.rs, the stop loop and the re-arm at each step boundary).
THEOREM CopiesAreQuiesced ==
    ASSUME ArmsLandInOrder, StretchFitsTimer
    PROVE  Spec => []QuiescedCopy
<1>1. Windowed => QuiescedCopy
  BY DEF Windowed, StaysDown, QuiescedCopy, Quiesced, ClosureSteps
<1>2. QED
  BY <1>1, WindowHolds, PTL

\* Under the same assumptions the deadman never fires on a driver that armed
\* it and is still alive (deadman::TIMEOUT).
THEOREM LiveDriversAreSpared ==
    ASSUME ArmsLandInOrder, StretchFitsTimer
    PROVE  Spec => LiveDriverNotPresumedDead
<1> DEFINE Spared == unit = "armed" /\ unit' = "firing"
                         => pc \in {"idle", "fire_check", "arm_first"}
<1>1. ASSUME TypeOK, Windowed, [Next]_vars PROVE [Spared]_vars
  <2>1. SUFFICES ASSUME unit = "armed", unit' = "firing", pc \in Window PROVE FALSE
    BY <1>1 DEF TypeOK, PointTypeOK, Window
  <2>2. left > 0 /\ NoneInFlight
    BY <1>1, <2>1, NotPresumedDead DEF Windowed
  <2>3. CASE HostNext
    BY <2>1, <2>2, <2>3 DEF HostNext, NoneInFlight, ArmDisarms, ArmSchedules, ArmLost,
                            Expire, RecoverUnit, RecordFire, DisarmUnit
  <2>4. CASE DriverStep
    <3>1. CASE CopyStep
      BY <1>1, <2>1, <3>1, CopyStepStaysQuiesced DEF hostVars
    <3>2. CASE ~CopyStep
      BY <2>1, <2>4, <3>2 DEF DriverStep, CopyStep, CheckMarker, Arm, SpawnArm, ArmAtOnce,
                              StopUnit, StopFails, StartUnit, Disarm, DisarmUnit, timerVars
    <3>3. QED
      BY <3>1, <3>2
  <2>5. ASSUME NEW o \in Allowed, Begin(o) \/ Refuse(o) PROVE FALSE
    BY <2>1, <2>5 DEF Begin, Refuse, hostVars
  <2>6. CASE Crash \/ Tick \/ UNCHANGED vars
    BY <2>1, <2>6 DEF Crash, Tick, vars, hostVars
  <2>7. QED
    BY <1>1, <2>3, <2>4, <2>5, <2>6 DEF Next
<1>2. QED
  BY <1>1, WindowHolds, PTL DEF Spec, LiveDriverNotPresumedDead

----------------------------------------------------------------------------
(* What the timer is armed for, and what an operator is told of it.        *)

\* The timer of a window was armed by the run the window is of.
Named == pc \in Window => guards = op

LEMMA NamedStep ==
    ASSUME ArmsLandInOrder, StretchFitsTimer, TypeOK, NoneInFlight, TimerKept, Named,
           [Next]_vars
    PROVE  Named'
<1>0. /\ "idle" \notin Window /\ "fire_check" \notin Window /\ "arm_first" \notin Window
      /\ "stop" \in Window /\ "start" \in Window /\ "disarm" \in Window
  BY DEF Window, Commands, ClosureSteps, ArmPoints
<1> USE DEF Named
<1>1. ASSUME NEW o \in Allowed, Begin(o) \/ Refuse(o) PROVE Named'
  BY <1>0, <1>1 DEF Begin, Refuse, Goto
<1>2. CASE CheckMarker
  BY <1>0, <1>2 DEF CheckMarker, Goto
<1>3. CASE Arm
  BY <1>3 DEF Arm, SpawnArm, ArmAtOnce, ArmsLandInOrder
<1>4. CASE StopUnit \/ StopFails \/ StartUnit
  BY <1>0, <1>4 DEF StopUnit, StopFails, StartUnit, timerVars
<1>5. CASE CopyStep
  <2>1. UNCHANGED op
    BY <1>5 DEF CopyStep, MakeStaging, Dump, Rsync, Chown, CopyDump, Replay, Post,
                StepFails, RemoveStaging
  <2>2. QED
    BY <1>5, <2>1, CopyStepElapses, CopyStepStaysQuiesced DEF hostVars
<1>6. CASE Disarm \/ Crash
  BY <1>0, <1>6 DEF Disarm, Crash, Goto
<1>7. CASE HostNext /\ UNCHANGED <<driverVars, accountVars>>
  BY <1>7 DEF driverVars, HostNext, NoneInFlight, ArmDisarms, ArmSchedules, ArmLost,
              Expire, RecoverUnit, RecordFire, DisarmUnit
<1>8. CASE Tick \/ UNCHANGED vars
  BY <1>8 DEF Tick, vars, hostVars, driverVars
<1>9. QED
  BY <1>1, <1>2, <1>3, <1>4, <1>5, <1>6, <1>7, <1>8 DEF Next, DriverStep, CopyStep

LEMMA NamedThroughout ==
    ASSUME ArmsLandInOrder, StretchFitsTimer
    PROVE  Spec => [](TypeOK /\ Windowed /\ Named)
<1>1. Init => Named
  BY DEF Init, Named, Window, Commands, ClosureSteps, ArmPoints
<1>2. TypeOK /\ Windowed /\ Named /\ [Next]_vars => Named'
  BY NamedStep DEF Windowed
<1>3. QED
  BY <1>1, <1>2, WindowHolds, PTL DEF Spec

\* Under the assumptions of CopiesAreQuiesced, the timer that runs beside a
\* command was armed for the operation that command belongs to, so a fire
\* marker names the operation that was cut short (deadman::Operation).
THEOREM GuardsNameTheirWindow ==
    ASSUME ArmsLandInOrder, StretchFitsTimer
    PROVE  Spec => []GuardNamesWindow
<1>1. TypeOK /\ Named => GuardNamesWindow
  BY DEF Named, GuardNamesWindow, Window, Commands, ClosureSteps
<1>2. QED
  BY <1>1, NamedThroughout, PTL

\* A timer outside a window, a recovery and a marker are of a run that died.
Mourned ==
    /\ unit = "armed" /\ pc \notin Window => guards \in died
    /\ unit = "firing" => guards \in died
    /\ marker \in Operations => marker \in died
    /\ NoFalseAlarm

LEMMA MournedStep ==
    ASSUME ArmsLandInOrder, StretchFitsTimer, "disarm_lost" \notin Faults,
           TypeOK, Windowed, Named, Mourned, [Next]_vars
    PROVE  Mourned'
<1>0. /\ "idle" \notin Window /\ "fire_check" \notin Window /\ "arm_first" \notin Window
      /\ "stop" \in Window /\ "start" \in Window /\ "disarm" \in Window
      /\ "none" \notin Operations
      /\ \A p \in Commands \cup ArmPoints : p \in Window \/ p \in {"fire_check", "arm_first"}
  BY DEF Window, Commands, ClosureSteps, ArmPoints, Operations
<1> USE DEF Mourned, NoFalseAlarm
<1>1. ASSUME NEW o \in Allowed, Begin(o) \/ Refuse(o) PROVE Mourned'
  BY <1>0, <1>1 DEF Begin, Refuse, Goto, hostVars, accountVars
<1>2. CASE CheckMarker
  BY <1>0, <1>2 DEF CheckMarker, Goto, timerVars
<1>3. CASE Arm
  <2>1. pc' \in Window
    <3>1. pc' = "stop" \/ pc' \in Quiesced \/ pc' \in {"start", "disarm"}
      BY <1>3, ArmStays DEF ToStarts
    <3>2. Quiesced \subseteq Window
      BY DEF Quiesced, Window, Commands, ClosureSteps, ArmPoints
    <3>3. QED
      BY <1>0, <3>1, <3>2
  <2>2. unit' = "armed" /\ UNCHANGED <<marker, told, died>>
    BY <1>3 DEF Arm, SpawnArm, ArmAtOnce, ArmsLandInOrder
  <2>3. QED
    BY <2>1, <2>2
<1>4. CASE StopUnit \/ StopFails \/ StartUnit
  <2>1. pc \in Window /\ UNCHANGED <<timerVars, marker, told, died>>
    BY <1>0, <1>4 DEF StopUnit, StopFails, StartUnit, accountVars
  <2>2. pc' \in Window
    <3>1. AfterStops \in Window
      BY PointsQuiesced DEF Quiesced, Window, Commands, ClosureSteps, ArmPoints
    <3>2. QED
      BY <1>0, <1>4, <3>1 DEF StopUnit, StopFails, StartUnit, Goto, ToStarts
  <2>3. QED
    BY <2>1, <2>2 DEF timerVars
<1>5. CASE CopyStep
  <2>1. UNCHANGED accountVars
    BY <1>5 DEF CopyStep, MakeStaging, Dump, Rsync, Chown, CopyDump, Replay, Post,
                StepFails, RemoveStaging
  <2>2. QED
    BY <1>5, <2>1, CopyStepElapses, CopyStepStaysQuiesced DEF hostVars, accountVars
<1>6. CASE Disarm
  BY <1>6 DEF Disarm, DisarmUnit, accountVars
<1>7. CASE Crash
  <2>1. died \subseteq died' /\ UNCHANGED <<hostVars, told>>
    BY <1>7 DEF Crash
  <2>2. pc \in Window => guards \in died'
    BY <1>0, <1>7 DEF Crash, Named
  <2>3. QED
    BY <2>1, <2>2 DEF hostVars
<1>8. CASE HostNext /\ UNCHANGED <<driverVars, accountVars>>
  <2>1. UNCHANGED <<pc, told, died>> /\ NoneInFlight
    BY <1>8 DEF driverVars, accountVars, Windowed
  <2>2. CASE Expire
    <3>1. pc \notin Window
      BY <2>2, NotPresumedDead DEF Expire, Windowed
    <3>2. QED
      BY <2>1, <2>2, <3>1 DEF Expire
  <2>3. CASE RecoverUnit \/ RecordFire
    BY <2>1, <2>3 DEF RecoverUnit, RecordFire, DisarmUnit
  <2>4. CASE ~Expire /\ ~RecoverUnit /\ ~RecordFire
    BY <1>8, <2>1, <2>4 DEF HostNext, NoneInFlight, ArmDisarms, ArmSchedules, ArmLost
  <2>5. QED
    BY <2>2, <2>3, <2>4
<1>9. CASE Tick \/ UNCHANGED vars
  BY <1>9 DEF Tick, vars, hostVars, driverVars, accountVars
<1>10. QED
  BY <1>1, <1>2, <1>3, <1>4, <1>5, <1>6, <1>7, <1>8, <1>9 DEF Next, DriverStep, CopyStep

\* While moreover no disarm is lost, an operator is told that a backup or a
\* restore died only if one did: a marker is written by the timer of a run
\* whose driver is gone, however many runs came between (fire_warning).
THEOREM AlarmsAreTrue ==
    ASSUME ArmsLandInOrder, StretchFitsTimer, "disarm_lost" \notin Faults
    PROVE  Spec => []NoFalseAlarm
<1>1. Init => Mourned
  BY DEF Init, HostInit, Mourned, NoFalseAlarm, Operations
<1>2. TypeOK /\ Windowed /\ Named /\ Mourned /\ [Next]_vars => Mourned'
  BY MournedStep
<1>3. Mourned => NoFalseAlarm
  BY DEF Mourned
<1>4. QED
  BY <1>1, <1>2, <1>3, NamedThroughout, PTL DEF Spec

----------------------------------------------------------------------------
(* A run that returns, Ok or Err, restarts what it stopped.                *)

Accounted(u) == active[u] \/ u \in erred

\* No run ends before its stop loop does.
StopsGetThrough == Faults \cap {"stop_fails", "stop_answer_lost", "refused"} = {}

\* A run that dies leaves units down, and one that gets no further than its
\* stop loop restarts only what it stopped itself: not what the other left.
DeathsOrFailedStops == "crash" \notin Faults \/ StopsGetThrough

Restarting ==
    /\ outcome = "died" => "crash" \in Faults
    /\ pc = "idle" /\ outcome # "died" => \A u \in Units : Accounted(u)
    /\ pc \in {"fire_check", "arm_first", "stop"} =>
          StopsGetThrough \/ \A u \in Units : u > stopped => Accounted(u)
    /\ pc \in {"start", "disarm"} /\ StopsGetThrough => stopped = NumUnits
    /\ pc = "start" => \A u \in Units : u < i \/ u > stopped => Accounted(u)
    /\ pc = "disarm" => \A u \in Units : Accounted(u)

\* A start or stop of one unit leaves the others as accounted for as they were.
LEMMA OthersAccounted ==
    ASSUME TypeOK, NEW k \in Units, NEW b,
           active' = [active EXCEPT ![k] = b] \/ active' = active,
           erred' = erred \ {k} \/ erred' = erred \cup {k} \/ erred' = erred
    PROVE  \A u \in Units : u # k /\ Accounted(u) => Accounted(u)'
<1> SUFFICES ASSUME NEW u \in Units, u # k, Accounted(u) PROVE Accounted(u)'
  OBVIOUS
<1>1. DOMAIN active = Units
  BY DEF TypeOK, HostTypeOK
<1>2. active'[u] = active[u]
  BY <1>1, Zenon
<1>3. u \in erred' <=> u \in erred
  OBVIOUS
<1>4. QED
  BY <1>2, <1>3, Zenon DEF Accounted

\* What is accounted for stays so on the Host.
LEMMA HostAccounts ==
    ASSUME TypeOK, HostNext
    PROVE  \A u \in Units : Accounted(u) => Accounted(u)'
<1>1. CASE RecoverUnit
  BY <1>1 DEF RecoverUnit, Accounted, TypeOK, HostTypeOK
<1>2. CASE ~RecoverUnit
  BY <1>2 DEF HostNext, ArmDisarms, ArmSchedules, ArmLost, Expire, RecordFire, Accounted
<1>3. QED
  BY <1>1, <1>2

LEMMA RestartingStep ==
    ASSUME DeathsOrFailedStops, TypeOK, StopCount, Restarting, [Next]_vars
    PROVE  Restarting'
<1> DEFINE NoneLeft == \A u \in Units : Accounted(u)
<1>0. /\ "stop" \notin Quiesced /\ "start" \notin Quiesced /\ "disarm" \notin Quiesced
      /\ "idle" \notin Quiesced /\ "fire_check" \notin Quiesced
      /\ "arm_first" \notin Quiesced /\ "arm_start" \in Quiesced
  BY DEF Quiesced, ClosureSteps, ArmPoints
<1> USE DEF Restarting
<1>1. ASSUME NEW o \in Allowed, Begin(o) PROVE Restarting'
  <2>1. StopsGetThrough \/ NoneLeft
    BY <1>1 DEF Begin, DeathsOrFailedStops
  <2>2. pc' = "fire_check" /\ outcome' = "running" /\ UNCHANGED <<active, erred>>
    BY <1>1 DEF Begin, Goto, hostVars
  <2>3. QED
    BY <2>1, <2>2 DEF Accounted
<1>2. ASSUME NEW o \in Allowed, Refuse(o) PROVE Restarting'
  <2>1. NoneLeft
    BY <1>2 DEF Refuse, DeathsOrFailedStops, StopsGetThrough
  <2>2. pc' = "idle" /\ outcome' = "refused" /\ UNCHANGED <<active, erred>>
    BY <1>2 DEF Refuse, hostVars
  <2>3. QED
    BY <2>1, <2>2 DEF Accounted
<1>3. CASE CheckMarker
  BY <1>3 DEF CheckMarker, Goto, Accounted
<1>4. CASE Arm
  <2>1. UNCHANGED <<active, erred, stopped, outcome>>
    BY <1>4, ArmStays
  <2>2. CASE pc = "arm_first"
    BY <1>4, <2>1, <2>2, ArmStays DEF Accounted
  <2>3. CASE pc = "arm_start"
    <3>1. stopped = NumUnits /\ pc' = "start" /\ i' = 1
      BY <1>0, <1>4, <2>3, ArmStays DEF StopCount, ToStarts
    <3>2. \A u \in Units : ~(u < 1) /\ ~(u > NumUnits)
      BY DEF Units
    <3>3. QED
      BY <2>1, <3>1, <3>2
  <2>4. CASE pc \notin {"arm_first", "arm_start"}
    BY <1>0, <1>4, <2>1, <2>4, ArmStays
  <2>5. QED
    BY <2>2, <2>3, <2>4
<1>5. CASE StopUnit
  <2>1. /\ pc = "stop" /\ i \in Units /\ stopped = i - 1 /\ stopped' = i
        /\ UNCHANGED outcome
    BY <1>5 DEF StopUnit, StopCount, TypeOK, PointTypeOK
  <2>2. \A u \in Units : u # i /\ Accounted(u) => Accounted(u)'
    BY <1>5, <2>1, OthersAccounted DEF StopUnit
  <2>3. StopsGetThrough \/ \A u \in Units : u > stopped' => Accounted(u)'
    <3>1. \A u \in Units : u > stopped' => u # i /\ u > stopped
      BY <2>1 DEF Units
    <3>2. QED
      BY <2>1, <2>2, <3>1
  <2>4. pc' = "stop" \/ pc' \in Quiesced
    BY <1>5, PointsQuiesced DEF StopUnit, Goto
  <2>5. QED
    BY <1>0, <2>1, <2>3, <2>4
<1>6. CASE StopFails
  <2>1. /\ pc = "stop" /\ i \in Units /\ stopped = i - 1 /\ UNCHANGED <<outcome, stopped>>
        /\ ~StopsGetThrough /\ pc' \in {"start", "disarm"} /\ i' = 1
        /\ pc' = "disarm" => stopped = 0
    BY <1>6 DEF StopFails, StopCount, TypeOK, PointTypeOK, DriverTypeOK, StopsGetThrough,
                Goto, ToStarts
  <2>2. \A u \in Units : u > stopped => Accounted(u)
    BY <2>1
  <2>3. \A u \in Units : u > stopped => Accounted(u)'
    BY <1>6, <2>1, <2>2 DEF StopFails, TypeOK, HostTypeOK, Units, Accounted
  <2>4. \A u \in Units : ~(u < 1) /\ u > 0
    BY DEF Units
  <2>5. QED
    BY <2>1, <2>3, <2>4
<1>7. CASE CopyStep
  BY <1>0, <1>7, CopyStepStaysQuiesced
<1>8. CASE StartUnit
  <2>1. /\ pc = "start" /\ i \in Units /\ UNCHANGED <<outcome, stopped>>
        /\ DOMAIN active = Units
    BY <1>8 DEF StartUnit, TypeOK, HostTypeOK, PointTypeOK
  <2>2. \A u \in Units : u < i + 1 \/ u > stopped => Accounted(u)'
    <3>1. \A u \in Units : u = i => Accounted(u)'
      BY <1>8, <2>1 DEF StartUnit, Accounted
    <3>2. \A u \in Units : u # i /\ Accounted(u) => Accounted(u)'
      BY <1>8, <2>1, OthersAccounted DEF StartUnit
    <3>3. \A u \in Units : u < i + 1 \/ u > stopped => u = i \/ u < i \/ u > stopped
      BY <2>1 DEF Units
    <3>4. QED
      BY <2>1, <3>1, <3>2, <3>3
  <2>3. CASE i < stopped
    BY <1>8, <2>1, <2>2, <2>3 DEF StartUnit, Goto
  <2>4. CASE ~(i < stopped)
    <3>1. \A u \in Units : u < i + 1 \/ u > stopped
      BY <2>1, <2>4 DEF Units, TypeOK, DriverTypeOK
    <3>2. pc' = "disarm"
      BY <1>8, <2>4 DEF StartUnit, Goto
    <3>3. QED
      BY <2>1, <2>2, <3>1, <3>2
  <2>5. QED
    BY <2>3, <2>4
<1>9. CASE Disarm
  BY <1>9 DEF Disarm, Goto, Accounted
<1>10. CASE Crash
  BY <1>10 DEF Crash, Goto
<1>11. CASE HostNext /\ UNCHANGED <<driverVars, accountVars>>
  BY <1>11, HostAccounts DEF driverVars
<1>12. CASE Tick
  BY <1>12 DEF Tick, Accounted
<1>13. CASE UNCHANGED vars
  BY <1>13 DEF vars, hostVars, driverVars, Accounted
<1>14. QED
  BY <1>1, <1>2, <1>3, <1>4, <1>5, <1>6, <1>7, <1>8, <1>9, <1>10, <1>11, <1>12, <1>13
     DEF Next, DriverStep, CopyStep

\* A run that returned, Ok or Err, left running every unit whose own stop or
\* start did not return an error, whatever its deadman and late arms do
\* meanwhile (restart_all on every path of executor.rs): unless drivers die
\* and stops fail or runs are refused as well, for a run that ends in its stop
\* loop does not start what an earlier one left down.
THEOREM ReturnsRestart ==
    ASSUME DeathsOrFailedStops
    PROVE  Spec => []EveryReturnRestarts
<1>1. Init => Restarting
  BY DEF Init, HostInit, Restarting, Accounted
<1>2. TypeOK /\ StopCount /\ Restarting /\ [Next]_vars => Restarting'
  BY RestartingStep
<1>3. Restarting => EveryReturnRestarts
  BY DEF Restarting, EveryReturnRestarts, Accounted
<1>4. QED
  BY <1>1, <1>2, <1>3, StopCounts, PTL DEF Spec
============================================================================
