------------------------------- MODULE Custody -------------------------------
(***************************************************************************)
(* What the deadman promises about an App's units, without timers, arms or *)
(* messages: whoever takes a unit down answers for it, and units are never *)
(* down with nobody answering for them (src/meta/adr/0066).                *)
(*                                                                         *)
(* A unit whose own stop or start returned an error is excused: somebody   *)
(* was told about that unit.                                               *)
(***************************************************************************)
EXTENDS Naturals

CONSTANT Units

VARIABLES
    down,        \* units not running
    excused,     \* units whose last stop or start returned an error
    custodian    \* who answers for the units that are down

custodyVars == <<down, excused, custodian>>

CustodyTypeOK ==
    /\ down \subseteq Units
    /\ excused \subseteq Units
    /\ custodian \in {"nobody", "driver", "host"}

Init == down = {} /\ excused = {} /\ custodian = "nobody"

\* The custody the Host is left with when units d are down and e excused.
HostShare(d, e) == IF d \subseteq e THEN "nobody" ELSE "host"

\* A driver opens a quiesce window and takes over from the Host, if it must.
Open ==
    /\ custodian # "driver"
    /\ custodian' = "driver"
    /\ UNCHANGED <<down, excused>>

\* Only a driver takes units down.
TakeDown(u) ==
    /\ custodian = "driver"
    /\ down' = down \cup {u}
    /\ excused' \in {excused \ {u}, excused \cup {u}}
    /\ UNCHANGED custodian

\* Anyone may try to start a unit; a Host that owes nothing more is done.
BringUp(u) ==
    /\ \/ down' = down \ {u} /\ excused' = excused \ {u}
       \/ down' = down /\ excused' = excused \cup {u}
    /\ custodian' = IF custodian = "driver" THEN "driver" ELSE HostShare(down', excused')

\* A driver returns or dies: what it leaves down falls to the Host.
LetGo ==
    /\ custodian = "driver"
    /\ custodian' = HostShare(down, excused)
    /\ UNCHANGED <<down, excused>>

Next == Open \/ LetGo \/ \E u \in Units : TakeDown(u) \/ BringUp(u)

Spec == Init /\ [][Next]_custodyVars

\* The Host does not keep units it answers for down for ever.
HostKeepsItsWord == custodian = "host" ~> custodian # "host"
==============================================================================
