--------------------------- MODULE NetworkProofs ----------------------------
(***************************************************************************)
(* What holds of the tailnet's coordinator, of the zone, of the operator's *)
(* keys and of a Host's routes, for every roster, every tailnet and every  *)
(* number of processes.                                                    *)
(***************************************************************************)
EXTENDS Headscale, Dns, Identities, Routes, FiniteSetTheorems, SequenceTheorems,
        NaturalsInduction, WellFoundedInduction, TLAPS

----------------------------------------------------------------------------
(* The coordinator's store.                                                *)

\* A node is called what its machine calls itself and keeps its id, its name and
\* its address; a machine is logged in as a node of its own.
StoreInv ==
    /\ lastId \in Nat
    /\ \A n \in DOMAIN nodes : n \in 1..lastId /\ nodes[n].machine \in Machines /\ nodes[n].name[1] = Hostname[nodes[n].machine]
    /\ \A n \in DOMAIN nodes : {"machine", "name", "ip"} \subseteq DOMAIN nodes[n]
    /\ \A i, j \in DOMAIN nodes : nodes[i].name = nodes[j].name => i = j
    /\ login = [m \in Machines |-> login[m]]
    /\ \A m \in Machines :
         login[m] # 0 => login[m] \in DOMAIN nodes /\ nodes[login[m]].machine = m

\* No node takes an id that was given before, and none is renamed or moves.
Settled ==
    /\ lastId <= lastId'
    /\ \A n \in DOMAIN nodes' : n \in 1..lastId =>
         n \in DOMAIN nodes /\ nodes'[n].name = nodes[n].name /\ nodes'[n].ip = nodes[n].ip

LEMMA RestStays == ASSUME StoreInv, UNCHANGED <<nodes, login, lastId>> PROVE StoreInv' /\ Settled
<1>1. StoreInv'
  BY DEF StoreInv
<1>2. Settled
  BY DEF StoreInv, Settled
<1>3. QED
  BY <1>1, <1>2

LEMMA EnrollStays ==
    ASSUME StoreInv, NEW m \in Machines, NEW tags, Enroll(m, tags)
    PROVE  /\ StoreInv' /\ Settled
           /\ \A o \in Machines : login[o] # 0 => login'[o] # 0
<1>1. PICK id \in Ids, k \in Ids, ip \in Addresses :
        EnrolledAs(m, id, [machine |-> m, name |-> GivenName(m, k), ip |-> ip, tags |-> tags])
  BY DEF Enroll
<1> DEFINE new == [machine |-> m, name |-> GivenName(m, k), ip |-> ip, tags |-> tags]
<1>2. new.machine = m /\ new.name[1] = Hostname[m] /\ {"machine", "name", "ip"} \subseteq DOMAIN new
  BY DEF GivenName
<1>3. EnrolledAs(m, id, new)
  BY <1>1
<1> HIDE DEF new
<1>4. /\ nodes' = [y \in DOMAIN nodes \cup {id} |-> IF y = id THEN new ELSE nodes[y]]
      /\ login' = [login EXCEPT ![m] = id]
      /\ lastId' = IF id = NewId THEN NewId ELSE lastId
      /\ id \in DOMAIN nodes \cup {NewId} /\ id # 0
  BY <1>3 DEF EnrolledAs, Put, Ids
<1>5. /\ id \in DOMAIN nodes => nodes[id].machine = m /\ new.name = nodes[id].name /\ new.ip = nodes[id].ip
      /\ id \notin DOMAIN nodes => \A i \in DOMAIN nodes : nodes[i].name # new.name
  BY <1>3 DEF EnrolledAs
<1>6. NewId \notin DOMAIN nodes /\ NewId = lastId + 1 /\ lastId \in Nat
  BY DEF StoreInv, NewId
<1>7. lastId' \in Nat /\ lastId <= lastId' /\ DOMAIN nodes' = DOMAIN nodes \cup {id}
      /\ nodes'[id] = new /\ \A n \in DOMAIN nodes : n # id => nodes'[n] = nodes[n]
  BY <1>4, <1>6
<1>8. \A n \in DOMAIN nodes' : /\ n \in 1..lastId' /\ nodes'[n].machine \in Machines
                              /\ nodes'[n].name[1] = Hostname[nodes'[n].machine]
                              /\ {"machine", "name", "ip"} \subseteq DOMAIN nodes'[n]
  BY <1>2, <1>4, <1>6, <1>7 DEF StoreInv
<1>9. \A i, j \in DOMAIN nodes' : nodes'[i].name = nodes'[j].name => i = j
  BY <1>5, <1>7 DEF StoreInv
<1>10. login' = [o \in Machines |-> login'[o]] /\ login'[m] = id
       /\ \A o \in Machines : o # m => login'[o] = login[o]
  BY <1>4 DEF StoreInv
<1>11. \A o \in Machines : login'[o] # 0 => login'[o] \in DOMAIN nodes' /\ nodes'[login'[o]].machine = o
  <2> SUFFICES ASSUME NEW o \in Machines, login'[o] # 0
               PROVE  login'[o] \in DOMAIN nodes' /\ nodes'[login'[o]].machine = o
    OBVIOUS
  <2>1. CASE o = m
    BY <1>2, <1>7, <1>10, <2>1
  <2>2. CASE o # m
    <3>1. login[o] \in DOMAIN nodes /\ nodes[login[o]].machine = o /\ login'[o] = login[o]
      BY <1>10, <2>2 DEF StoreInv
    <3>2. login[o] # id
      BY <1>5, <2>2, <3>1
    <3>3. QED
      BY <1>7, <3>1, <3>2
  <2>3. QED
    BY <2>1, <2>2
<1>12. Settled
  BY <1>4, <1>5, <1>6, <1>7 DEF Settled
<1>13. QED
  BY <1>4, <1>7, <1>8, <1>9, <1>10, <1>11, <1>12 DEF StoreInv

LEMMA TagStays ==
    ASSUME StoreInv, NEW n \in DOMAIN nodes, NEW tags, UNCHANGED <<login, lastId>>,
           nodes' = [nodes EXCEPT ![n].tags = tags]
    PROVE  StoreInv' /\ Settled
<1>1. /\ DOMAIN nodes' = DOMAIN nodes
      /\ \A i \in DOMAIN nodes : /\ DOMAIN nodes'[i] = DOMAIN nodes[i]
                                /\ nodes'[i].name = nodes[i].name /\ nodes'[i].ip = nodes[i].ip
                                /\ nodes'[i].machine = nodes[i].machine
  BY DEF StoreInv
<1>2. lastId' = lastId /\ login' = login
  OBVIOUS
<1>3. Settled
  BY <1>1, <1>2 DEF StoreInv, Settled
<1>4. StoreInv'
  BY <1>1, <1>2 DEF StoreInv
<1>5. QED
  BY <1>3, <1>4

LEMMA CountStays ==
    ASSUME StoreInv, lastId' = NewId, UNCHANGED <<nodes, login>> PROVE StoreInv' /\ Settled
<1>1. lastId' \in Nat /\ lastId <= lastId' /\ 1..lastId \subseteq 1..lastId'
  BY DEF StoreInv, NewId
<1>2. QED
  BY <1>1 DEF StoreInv, Settled

\* A node goes, and with it the login of its machine.
Drop(n) ==
    /\ lastId' = lastId /\ nodes' = Restrict(nodes, DOMAIN nodes \ {n})
    /\ login' = [m \in Machines |-> IF login[m] = n THEN 0 ELSE login[m]]

LEMMA DropStays ==
    ASSUME StoreInv, NEW n \in DOMAIN nodes, Drop(n)
    PROVE  /\ StoreInv' /\ Settled
           /\ \A m \in Machines : login[m] # 0 /\ m # nodes[n].machine => login'[m] # 0
<1>1. /\ DOMAIN nodes' = DOMAIN nodes \ {n}
      /\ \A i \in DOMAIN nodes' : nodes'[i] = nodes[i]
  BY DEF Restrict, Drop
<1>2. \A m \in Machines : login'[m] = IF login[m] = n THEN 0 ELSE login[m]
  BY DEF Drop
<1>3. login' = [m \in Machines |-> login'[m]] /\ lastId' = lastId
  BY DEF Drop
<1>4. Settled
  BY <1>1, <1>3 DEF Settled, StoreInv
<1>5. \A m \in Machines : login'[m] # 0 =>
        login'[m] \in DOMAIN nodes' /\ nodes'[login'[m]].machine = m
  BY <1>1, <1>2 DEF StoreInv
<1>6. StoreInv'
  BY <1>1, <1>3, <1>5 DEF StoreInv
<1>7. \A m \in Machines : login[m] # 0 /\ m # nodes[n].machine => login'[m] # 0
  BY <1>2 DEF StoreInv
<1>8. QED
  BY <1>4, <1>6, <1>7

----------------------------------------------------------------------------
(* What a process holds.                                                   *)

\* A node of those listed that has the name of a Host.
Namesakes(listed, h) == {n \in listed \cap DOMAIN nodes : nodes[n].name = RosterName(h)}

\* The node that a process is about to delete.
Its(n, p) ==
    n \in DOMAIN nodes =>
        nodes[n].name = RosterName(order[p].about) /\ held[p].ip \in {None, nodes[n].ip}

ProcInv(p) ==
    /\ step[p] # "idle" => order[p] \in Order
    /\ step[p] = "users" => order[p].op \in {"add_key", "register", "remove_user"}
    /\ step[p] = "coordinator" => order[p].op \in {"host_remove", "deploy"}
    /\ step[p] \in {"probe", "only_user", "play"} => order[p].op = "deploy"
    /\ held[p].listed \subseteq 1..lastId
    /\ step[p] = "delete" =>
         /\ held[p].node \in 1..lastId
         /\ Its(held[p].node, p)
         /\ Namesakes(held[p].listed, order[p].about) \subseteq {held[p].node}
    /\ step[p] = "write" /\ held[p].said = "nothing" =>
         Namesakes(held[p].listed, order[p].about) = {}
    /\ held[p].why = "enrolled" =>
         step[p] = "play" /\ (login[order[p].about] # 0 \/ held[p].said = "forgotten")

\* The answers that a process got have these fields, whatever is put in them.
Reply(h) == {"node", "listed", "why", "said", "ip"} \subseteq DOMAIN h

\* Of the nodes listed, none with the Host's name is left, or its operator was told.
Gone(entry, h) ==
    /\ entry.listed \subseteq 1..lastId
    /\ entry.said = "nothing" => Namesakes(entry.listed, h) = {}

HeadInv ==
    /\ StoreInv
    /\ step = [p \in Clients |-> step[p]] /\ order = [p \in Clients |-> order[p]]
    /\ held = [p \in Clients |-> held[p]]
    /\ \A p \in Clients : Reply(held[p]) /\ ProcInv(p)
    /\ \A h \in DOMAIN left : Gone(left[h], h)
    /\ PlayHasItsKey

LEMMA NamesakesShrink ==
    ASSUME Settled, NEW S \in SUBSET (1..lastId), NEW h
    PROVE  Namesakes(S, h)' \subseteq Namesakes(S, h)
  BY DEF Settled, Namesakes, RosterName

\* What a step leaves a process that does not take it.
Bystander(q) ==
    /\ step'[q] = step[q] /\ order'[q] = order[q]
    /\ \/ held'[q] = held[q]
       \/ step[q] = "play" /\ held'[q] = [held[q] EXCEPT !.said = "forgotten"]
    /\ step[q] = "play" /\ login[order[q].about] # 0 =>
         login'[order[q].about] # 0 \/ held'[q].said = "forgotten"

LEMMA BystanderStays ==
    ASSUME NEW q \in Clients, Settled, lastId \in Nat, lastId' \in Nat, Reply(held[q]), ProcInv(q), Bystander(q)
    PROVE  Reply(held'[q]) /\ ProcInv(q)'
<1>1. held'[q] = held[q] \/ (step[q] = "play" /\ held'[q] = [held[q] EXCEPT !.said = "forgotten"])
  BY DEF Bystander
<1>2. Reply(held'[q]) /\ (held'[q].said = "forgotten" \/ held'[q].said = held[q].said)
      /\ held'[q].why = held[q].why /\ (step[q] # "play" => held'[q] = held[q])
  BY <1>1 DEF Reply
<1>3. \A S \in SUBSET (1..lastId) : \A h : Namesakes(S, h)' \subseteq Namesakes(S, h)
  BY NamesakesShrink
<1>4. lastId <= lastId' /\ step'[q] = step[q] /\ order'[q] = order[q]
      /\ 1..lastId \subseteq 1..lastId'
  BY DEF Settled, Bystander
<1>5. step[q] = "delete" => Its(held[q].node, q)'
  BY <1>2, <1>4 DEF Settled, ProcInv, Its, RosterName
<1>6. held[q].why = "enrolled" =>
        step[q] = "play" /\ (login'[order[q].about] # 0 \/ held'[q].said = "forgotten")
  BY <1>2 DEF ProcInv, Bystander
<1>7. /\ held'[q].listed = held[q].listed /\ held'[q].listed \subseteq 1..lastId'
      /\ step[q] # "play" =>
           Namesakes(held[q].listed, order[q].about)' \subseteq Namesakes(held[q].listed, order[q].about)
  <2>1. held'[q].listed = held[q].listed
    BY <1>1 DEF Reply
  <2>2. QED
    BY <2>1, <1>3, <1>4, <1>2 DEF ProcInv
<1>8. QED
  BY <1>2, <1>4, <1>5, <1>6, <1>7 DEF ProcInv

LEMMA HeadInitially == HeadscaleInit => HeadInv
<1> SUFFICES ASSUME HeadscaleInit PROVE HeadInv
  OBVIOUS
<1> USE DEF HeadscaleInit
<1>1. lastId = 2 /\ left = << >> /\ starved = {}
  OBVIOUS
<1>2. StoreInv
  <2>1. PICK h \in Hosts, on \in BOOLEAN, ip \in Addresses, tagged \in BOOLEAN :
          /\ nodes = [i \in IF on THEN {2} ELSE {} |->
                       [machine |-> h, name |-> GivenName(h, 1), ip |-> ip,
                        tags |-> IF tagged THEN Tiers ELSE {}]]
          /\ login = [m \in Machines |-> IF on /\ m = h THEN 2 ELSE 0]
    OBVIOUS
  <2>2. DOMAIN nodes = IF on THEN {2} ELSE {}
    BY <2>1
  <2>3. \A n \in DOMAIN nodes : /\ n = 2 /\ nodes[n].machine = h /\ h \in Machines
                               /\ nodes[n].name[1] = Hostname[h]
                               /\ {"machine", "name", "ip"} \subseteq DOMAIN nodes[n]
    BY <2>1 DEF GivenName, Machines
  <2>4. login = [m \in Machines |-> login[m]]
    BY <2>1
  <2>5. \A m \in Machines :
          login[m] # 0 => login[m] \in DOMAIN nodes /\ nodes[login[m]].machine = m
    BY <2>1, <2>2, <2>3
  <2>6. QED
    BY <1>1, <2>2, <2>3, <2>4, <2>5 DEF StoreInv
<1>3. /\ step = [p \in Clients |-> step[p]] /\ order = [p \in Clients |-> order[p]]
      /\ held = [p \in Clients |-> held[p]]
  OBVIOUS
<1>4. \A p \in Clients : step[p] = "idle" /\ held[p] = Blank
  OBVIOUS
<1>5. \A p \in Clients : Reply(held[p]) /\ ProcInv(p)
  BY <1>4 DEF Reply, ProcInv, Blank
<1>6. QED
  BY <1>1, <1>2, <1>3, <1>5 DEF HeadInv, PlayHasItsKey

----------------------------------------------------------------------------
(* The steps.                                                              *)

Shaped ==
    /\ step = [p \in Clients |-> step[p]] /\ order = [p \in Clients |-> order[p]]
    /\ held = [p \in Clients |-> held[p]]

\* What a step of a process, or of the tailnet, comes to.
Stepped(p) ==
    /\ StoreInv' /\ Settled /\ Shaped'
    /\ \A q \in Clients \ {p} : Bystander(q)
    /\ Reply(held'[p]) /\ ProcInv(p)'

\* The shape of a process's turn.
LEMMA Turn ==
    ASSUME Shaped, NEW p \in Clients, NEW s, NEW h, To(p, s), With(p, h), UNCHANGED order,
           \A o \in Machines : login[o] # 0 => login'[o] # 0,
           \A q \in Clients : ProcInv(q), HeadscaleAssumption
    PROVE  /\ Shaped' /\ step'[p] = s /\ held'[p] = h
           /\ \A q \in Clients \ {p} : Bystander(q)
<1>1. Shaped' /\ step'[p] = s /\ held'[p] = h
      /\ \A q \in Clients \ {p} : step'[q] = step[q] /\ held'[q] = held[q]
  BY DEF Shaped, To, With
<1>2. \A q \in Clients : step[q] = "play" => order[q].about \in Machines
  BY DEF ProcInv, Order
<1>3. QED
  BY <1>1, <1>2 DEF Bystander

LEMMA GiveSteps ==
    ASSUME HeadInv, NEW p \in Clients, NEW o \in Orders, Give(p, o)
    PROVE  Stepped(p)
<1> USE HeadscaleAssumption
<1>1. StoreInv' /\ Settled
  BY RestStays DEF HeadInv, Give, store
<1>2. PICK s : To(p, s) /\ s \in {"create", "users", "nodes", "coordinator"}
               /\ (s = "users" => o.op \in {"add_key", "register", "remove_user"})
               /\ (s = "coordinator" => o.op \in {"host_remove", "deploy"})
  BY DEF Give, AddUser, AddKey, Register, Tag, ListStore, RemoveUser, HostRemove, Deploy
<1>3. PICK ip : held' = [held EXCEPT ![p] = [Blank EXCEPT !.ip = ip]]
  BY DEF Give, With
<1>4. order' = [order EXCEPT ![p] = o] /\ o \in Order /\ UNCHANGED login
  BY DEF Give
<1>5. Shaped' /\ step'[p] = s /\ held'[p] = [Blank EXCEPT !.ip = ip] /\ order'[p] = o
      /\ \A q \in Clients \ {p} : step'[q] = step[q] /\ held'[q] = held[q] /\ order'[q] = order[q]
  BY <1>2, <1>3, <1>4 DEF HeadInv, Shaped, To
<1>6. Reply(held'[p]) /\ held'[p].listed = {} /\ held'[p].why = "none"
  BY <1>5 DEF Reply, Blank
<1>7. ProcInv(p)'
  BY <1>2, <1>4, <1>5, <1>6 DEF ProcInv
<1>8. \A q \in Clients \ {p} : Bystander(q)
  BY <1>4, <1>5 DEF Bystander
<1>9. QED
  BY <1>1, <1>5, <1>6, <1>7, <1>8 DEF Stepped

\* A turn that leaves the nodes and the logins as they are.
LEMMA CalmTurn ==
    ASSUME HeadInv, NEW p \in Clients, NEW s, NEW h, To(p, s), With(p, h),
           UNCHANGED <<order, nodes, login, lastId>>
    PROVE  /\ StoreInv' /\ Settled /\ Shaped'
           /\ step'[p] = s /\ held'[p] = h /\ order'[p] = order[p]
           /\ \A q \in Clients \ {p} : Bystander(q)
           /\ \A S, x : Namesakes(S, x)' = Namesakes(S, x)
<1>1. StoreInv' /\ Settled
  BY RestStays DEF HeadInv
<1>2. Shaped /\ \A q \in Clients : ProcInv(q)
  BY DEF HeadInv, Shaped
<1>3. \A o \in Machines : login[o] # 0 => login'[o] # 0
  OBVIOUS
<1>4. Shaped' /\ step'[p] = s /\ held'[p] = h /\ \A q \in Clients \ {p} : Bystander(q)
  BY <1>2, <1>3, Turn, HeadscaleAssumption
<1>5. \A S, x : Namesakes(S, x)' = Namesakes(S, x)
  BY DEF Namesakes, RosterName
<1>6. QED
  BY <1>1, <1>4, <1>5

\* What a process is left with when its command ends.
LEMMA Over ==
    ASSUME NEW p \in Clients, step'[p] = "idle", held'[p] = Blank
    PROVE  Reply(held'[p]) /\ ProcInv(p)'
<1>1. held'[p].listed = {} /\ held'[p].why = "none"
  BY DEF Blank
<1>2. QED
  BY <1>1 DEF Reply, ProcInv, Blank

LEMMA CalmEnds ==
    ASSUME HeadInv, NEW p \in Clients, End(p), UNCHANGED <<order, nodes, login, lastId>>
    PROVE  Stepped(p)
<1>1. To(p, "idle") /\ With(p, Blank)
  BY DEF End
<1>2. /\ StoreInv' /\ Settled /\ Shaped' /\ step'[p] = "idle" /\ held'[p] = Blank
      /\ \A q \in Clients \ {p} : Bystander(q)
  BY <1>1, CalmTurn
<1>3. QED
  BY <1>2, Over DEF Stepped

\* The commands' steps before anything is changed.
LEMMA AskingSteps ==
    ASSUME HeadInv, NEW p \in Clients,
           \/ PickUser(p) \/ ShowKey(p) \/ ListNodes(p) \/ Confirm(p) \/ OnlyUser(p) \/ Unreached(p)
    PROVE  Stepped(p)
<1>1. UNCHANGED <<order, nodes, login, lastId>>
  BY DEF PickUser, ShowKey, ListNodes, Confirm, OnlyUser, Unreached, store
<1>2. Reply(held[p]) /\ ProcInv(p) /\ StoreInv
  BY DEF HeadInv
<1>3. CASE End(p)
  BY <1>1, <1>3, CalmEnds
<1>4. CASE PickUser(p)
  <2>1. CASE \E u : With(p, [held[p] EXCEPT !.user = u, !.tags = order[p].tags])
                    /\ \E s \in {"mint", "register", "confirm"} : To(p, s)
    <3>0. PICK u : With(p, [held[p] EXCEPT !.user = u, !.tags = order[p].tags])
                   /\ \E s \in {"mint", "register", "confirm"} : To(p, s)
      BY <2>1
    <3>1. PICK s \in {"mint", "register", "confirm"} : To(p, s)
      BY <3>0
    <3> DEFINE h == [held[p] EXCEPT !.user = u, !.tags = order[p].tags]
    <3>2. Reply(h) /\ h.listed = held[p].listed /\ h.why = held[p].why
      BY <1>2 DEF Reply
    <3>3. With(p, h)
      BY <3>0
    <3> HIDE DEF h
    <3>4. /\ StoreInv' /\ Settled /\ Shaped' /\ step'[p] = s /\ held'[p] = h /\ order'[p] = order[p]
          /\ \A q \in Clients \ {p} : Bystander(q)
      BY <1>1, <3>1, <3>3, CalmTurn
    <3>5. step[p] = "users"
      BY <1>4 DEF PickUser
    <3>6. ProcInv(p)'
      BY <1>1, <1>2, <3>2, <3>4, <3>5 DEF ProcInv
    <3>7. QED
      BY <3>2, <3>4, <3>6 DEF Stepped
  <2>2. \/ End(p)
        \/ \E u : With(p, [held[p] EXCEPT !.user = u, !.tags = order[p].tags])
                  /\ \E s \in {"mint", "register", "confirm"} : To(p, s)
    BY <1>2, <1>4 DEF PickUser, ProcInv
  <2>3. QED
    BY <1>3, <2>1, <2>2
<1>5. CASE ListNodes(p) /\ ~End(p)
  <2>1. PICK n : To(p, "tag") /\ With(p, [held[p] EXCEPT !.node = n, !.tags = nodes[n].tags])
    BY <1>5 DEF ListNodes
  <2> DEFINE h == [held[p] EXCEPT !.node = n, !.tags = nodes[n].tags]
  <2>2. Reply(h) /\ h.listed = held[p].listed /\ h.why = held[p].why
    BY <1>2 DEF Reply
  <2>3. With(p, h)
    BY <2>1
  <2> HIDE DEF h
  <2>4. /\ StoreInv' /\ Settled /\ Shaped' /\ step'[p] = "tag" /\ held'[p] = h /\ order'[p] = order[p]
        /\ \A q \in Clients \ {p} : Bystander(q)
    BY <1>1, <2>1, <2>3, CalmTurn
  <2>5. step[p] = "nodes"
    BY <1>5 DEF ListNodes
  <2>6. ProcInv(p)'
    BY <1>1, <1>2, <2>2, <2>4, <2>5 DEF ProcInv
  <2>7. QED
    BY <2>2, <2>4, <2>6 DEF Stepped
<1>6. CASE Confirm(p) /\ ~End(p)
  <2>1. To(p, "destroy") /\ UNCHANGED held /\ step[p] = "confirm"
    BY <1>6 DEF Confirm
  <2>2. With(p, held[p])
    BY <2>1 DEF With, HeadInv
  <2>3. /\ StoreInv' /\ Settled /\ Shaped' /\ step'[p] = "destroy" /\ held'[p] = held[p]
        /\ order'[p] = order[p] /\ \A q \in Clients \ {p} : Bystander(q)
    BY <1>1, <2>1, <2>2, CalmTurn
  <2>4. ProcInv(p)'
    BY <1>1, <1>2, <2>1, <2>3 DEF ProcInv
  <2>5. QED
    BY <1>2, <2>3, <2>4 DEF Stepped
<1>7. CASE OnlyUser(p) /\ ~End(p)
  <2>1. PICK u : To(p, "mint") /\ With(p, [held[p] EXCEPT !.user = u, !.why = "minted"])
    BY <1>7 DEF OnlyUser
  <2> DEFINE h == [held[p] EXCEPT !.user = u, !.why = "minted"]
  <2>2. Reply(h) /\ h.listed = held[p].listed /\ h.why = "minted"
    BY <1>2 DEF Reply
  <2>3. With(p, h)
    BY <2>1
  <2> HIDE DEF h
  <2>4. /\ StoreInv' /\ Settled /\ Shaped' /\ step'[p] = "mint" /\ held'[p] = h /\ order'[p] = order[p]
        /\ \A q \in Clients \ {p} : Bystander(q)
    BY <1>1, <2>1, <2>3, CalmTurn
  <2>5. step[p] = "only_user"
    BY <1>7 DEF OnlyUser
  <2>6. ProcInv(p)'
    BY <1>1, <1>2, <2>2, <2>4, <2>5 DEF ProcInv
  <2>7. QED
    BY <2>2, <2>4, <2>6 DEF Stepped
<1>8. QED
  BY <1>3, <1>4, <1>5, <1>6, <1>7 DEF ShowKey, Unreached

LEMMA CoordinatorSteps == ASSUME HeadInv, NEW p \in Clients, Coordinator(p) PROVE Stepped(p)
<1>1. UNCHANGED <<order, nodes, login, lastId>> /\ step[p] = "coordinator"
  BY DEF Coordinator, store
<1>2. Reply(held[p]) /\ ProcInv(p) /\ StoreInv
  BY DEF HeadInv
<1>3. /\ order[p].op \in {"host_remove", "deploy"} /\ order[p] \in Order
      /\ held[p].listed \subseteq 1..lastId /\ held[p].why # "enrolled"
  BY <1>1, <1>2 DEF ProcInv
<1>4. CASE End(p)
  BY <1>1, <1>4, CalmEnds
<1>5. CASE /\ To(p, IF order[p].op = "deploy" THEN "play" ELSE "write")
           /\ With(p, [held[p] EXCEPT !.said = "no coordinator", !.why = "no coordinator"])
  <2> DEFINE h == [held[p] EXCEPT !.said = "no coordinator", !.why = "no coordinator"]
             s == IF order[p].op = "deploy" THEN "play" ELSE "write"
  <2>1. Reply(h) /\ h.listed = held[p].listed /\ h.why = "no coordinator" /\ h.said = "no coordinator"
    BY <1>2 DEF Reply
  <2>2. s \in {"play", "write"} /\ (s = "play" => order[p].op = "deploy")
    OBVIOUS
  <2>3. To(p, s) /\ With(p, h)
    BY <1>5
  <2> HIDE DEF h, s
  <2>4. /\ StoreInv' /\ Settled /\ Shaped' /\ step'[p] = s /\ held'[p] = h /\ order'[p] = order[p]
        /\ \A q \in Clients \ {p} : Bystander(q)
    BY <1>1, <2>3, CalmTurn
  <2>5. ProcInv(p)'
    BY <1>1, <1>3, <2>1, <2>2, <2>4 DEF ProcInv
  <2>6. QED
    BY <2>1, <2>4, <2>5 DEF Stepped
<1>6. CASE order[p].op = "host_remove" /\ To(p, "revoke") /\ UNCHANGED held
  <2>1. With(p, held[p])
    BY <1>6 DEF With, HeadInv
  <2>2. /\ StoreInv' /\ Settled /\ Shaped' /\ step'[p] = "revoke" /\ held'[p] = held[p]
        /\ order'[p] = order[p] /\ \A q \in Clients \ {p} : Bystander(q)
    BY <1>1, <1>6, <2>1, CalmTurn
  <2>3. ProcInv(p)'
    BY <1>1, <1>3, <2>2 DEF ProcInv
  <2>4. QED
    BY <1>2, <2>2, <2>3 DEF Stepped
<1>7. CASE order[p].op = "deploy" /\ To(p, "play") /\ With(p, [held[p] EXCEPT !.why = "check"])
  <2> DEFINE h == [held[p] EXCEPT !.why = "check"]
  <2>1. Reply(h) /\ h.listed = held[p].listed /\ h.why = "check"
    BY <1>2 DEF Reply
  <2>2. With(p, h)
    BY <1>7
  <2> HIDE DEF h
  <2>3. /\ StoreInv' /\ Settled /\ Shaped' /\ step'[p] = "play" /\ held'[p] = h /\ order'[p] = order[p]
        /\ \A q \in Clients \ {p} : Bystander(q)
    BY <1>1, <1>7, <2>2, CalmTurn
  <2>4. ProcInv(p)'
    BY <1>1, <1>3, <1>7, <2>1, <2>3 DEF ProcInv
  <2>5. QED
    BY <2>1, <2>3, <2>4 DEF Stepped
<1>8. CASE /\ order[p].op = "deploy" /\ To(p, "probe")
           /\ With(p, [held[p] EXCEPT !.tags = fleet[order[p].about].tier])
  <2> DEFINE h == [held[p] EXCEPT !.tags = fleet[order[p].about].tier]
  <2>1. Reply(h) /\ h.listed = held[p].listed /\ h.why = held[p].why
    BY <1>2 DEF Reply
  <2>2. With(p, h)
    BY <1>8
  <2> HIDE DEF h
  <2>3. /\ StoreInv' /\ Settled /\ Shaped' /\ step'[p] = "probe" /\ held'[p] = h /\ order'[p] = order[p]
        /\ \A q \in Clients \ {p} : Bystander(q)
    BY <1>1, <1>8, <2>2, CalmTurn
  <2>4. ProcInv(p)'
    BY <1>1, <1>3, <1>8, <2>1, <2>3 DEF ProcInv
  <2>5. QED
    BY <2>1, <2>3, <2>4 DEF Stepped
<1>9. QED
  <2>1. \/ /\ To(p, IF order[p].op = "deploy" THEN "play" ELSE "write")
           /\ With(p, [held[p] EXCEPT !.said = "no coordinator", !.why = "no coordinator"])
        \/ order[p].op = "host_remove" /\ To(p, "revoke") /\ UNCHANGED held
        \/ order[p].op = "deploy" /\ To(p, "play") /\ With(p, [held[p] EXCEPT !.why = "check"])
        \/ /\ order[p].op = "deploy" /\ To(p, "probe")
           /\ With(p, [held[p] EXCEPT !.tags = fleet[order[p].about].tier])
        \/ End(p)
    BY <1>3, Zenon DEF Coordinator
  <2>2. QED
    BY <1>4, <1>5, <1>6, <1>7, <1>8, <2>1, Zenon

LEMMA RevokeSteps == ASSUME HeadInv, NEW p \in Clients, RevokeNode(p) PROVE Stepped(p)
<1>1. UNCHANGED <<order, nodes, login, lastId>> /\ step[p] = "revoke"
  BY DEF RevokeNode, store
<1>2. Reply(held[p]) /\ ProcInv(p) /\ StoreInv
  BY DEF HeadInv
<1>3. order[p] \in Order /\ held[p].why # "enrolled" /\ DOMAIN nodes \subseteq 1..lastId
  BY <1>1, <1>2 DEF ProcInv, StoreInv
<1>4. CASE \E said \in {"absent", "withheld"} :
             To(p, "write") /\ With(p, [held[p] EXCEPT !.listed = DOMAIN nodes, !.said = said])
  <2>1. PICK said \in {"absent", "withheld"} :
          To(p, "write") /\ With(p, [held[p] EXCEPT !.listed = DOMAIN nodes, !.said = said])
    BY <1>4
  <2> DEFINE h == [held[p] EXCEPT !.listed = DOMAIN nodes, !.said = said]
  <2>2. Reply(h) /\ h.listed = DOMAIN nodes /\ h.why = held[p].why /\ h.said = said
    BY <1>2 DEF Reply
  <2>3. With(p, h)
    BY <2>1
  <2> HIDE DEF h
  <2>4. /\ StoreInv' /\ Settled /\ Shaped' /\ step'[p] = "write" /\ held'[p] = h /\ order'[p] = order[p]
        /\ \A q \in Clients \ {p} : Bystander(q)
    BY <1>1, <2>1, <2>3, CalmTurn
  <2>5. ProcInv(p)'
    BY <1>1, <1>3, <2>2, <2>4 DEF ProcInv
  <2>6. QED
    BY <2>2, <2>4, <2>5 DEF Stepped
<1>5. CASE \E n \in DOMAIN nodes :
             /\ nodes[n].name = RosterName(order[p].about) /\ held[p].ip \in {None, nodes[n].ip}
             /\ To(p, "delete") /\ With(p, [held[p] EXCEPT !.listed = DOMAIN nodes, !.node = n])
  <2>1. PICK n \in DOMAIN nodes :
          /\ nodes[n].name = RosterName(order[p].about) /\ held[p].ip \in {None, nodes[n].ip}
          /\ To(p, "delete") /\ With(p, [held[p] EXCEPT !.listed = DOMAIN nodes, !.node = n])
    BY <1>5
  <2> DEFINE h == [held[p] EXCEPT !.listed = DOMAIN nodes, !.node = n]
  <2>2. Reply(h) /\ h.listed = DOMAIN nodes /\ h.why = held[p].why /\ h.node = n /\ h.ip = held[p].ip
    BY <1>2 DEF Reply
  <2>3. With(p, h)
    BY <2>1
  <2> HIDE DEF h
  <2>4. /\ StoreInv' /\ Settled /\ Shaped' /\ step'[p] = "delete" /\ held'[p] = h /\ order'[p] = order[p]
        /\ \A q \in Clients \ {p} : Bystander(q)
        /\ Namesakes(DOMAIN nodes, order[p].about)' = Namesakes(DOMAIN nodes, order[p].about)
    BY <1>1, <2>1, <2>3, CalmTurn
  <2>5. Namesakes(DOMAIN nodes, order[p].about) \subseteq {n}
    BY <1>2, <2>1 DEF StoreInv, Namesakes
  <2>6. Namesakes(held[p].listed, order[p].about)' \subseteq {n}
    BY <1>1, <2>2, <2>4, <2>5 DEF Namesakes
  <2>7. n \in 1..lastId
    BY <1>3, <2>1
  <2>8. ProcInv(p)'
    BY <1>1, <1>3, <2>1, <2>2, <2>4, <2>6, <2>7 DEF ProcInv, Its, RosterName
  <2>9. QED
    BY <2>2, <2>4, <2>8 DEF Stepped
<1>6. QED
  BY <1>4, <1>5 DEF RevokeNode, NodesForHost, SameName

LEMMA ProbeSteps == ASSUME HeadInv, NEW p \in Clients, Probe(p) PROVE Stepped(p)
<1>1. UNCHANGED <<order, nodes, login, lastId>> /\ step[p] = "probe"
  BY DEF Probe, store
<1>2. Reply(held[p]) /\ ProcInv(p)
  BY DEF HeadInv
<1>3. CASE /\ login[order[p].about] # 0
           /\ To(p, "play") /\ With(p, [held[p] EXCEPT !.why = "enrolled"])
  <2> DEFINE h == [held[p] EXCEPT !.why = "enrolled"]
  <2>1. Reply(h) /\ h.listed = held[p].listed
    BY <1>2 DEF Reply
  <2>2. With(p, h)
    BY <1>3
  <2> HIDE DEF h
  <2>3. /\ StoreInv' /\ Settled /\ Shaped' /\ step'[p] = "play" /\ held'[p] = h /\ order'[p] = order[p]
        /\ \A q \in Clients \ {p} : Bystander(q)
    BY <1>1, <1>3, <2>2, CalmTurn
  <2>4. ProcInv(p)'
    BY <1>1, <1>2, <1>3, <2>1, <2>3 DEF ProcInv
  <2>5. QED
    BY <2>1, <2>3, <2>4 DEF Stepped
<1>4. CASE To(p, "only_user") /\ UNCHANGED held
  <2>1. With(p, held[p])
    BY <1>4 DEF With, HeadInv
  <2>2. /\ StoreInv' /\ Settled /\ Shaped' /\ step'[p] = "only_user" /\ held'[p] = held[p]
        /\ order'[p] = order[p] /\ \A q \in Clients \ {p} : Bystander(q)
    BY <1>1, <1>4, <2>1, CalmTurn
  <2>3. ProcInv(p)'
    BY <1>1, <1>2, <2>2 DEF ProcInv
  <2>4. QED
    BY <1>2, <2>2, <2>3 DEF Stepped
<1>5. QED
  BY <1>3, <1>4 DEF Probe, Enrolled

\* The Host leaves the roster with what was listed of its nodes gone.
LEMMA WriteSteps ==
    ASSUME HeadInv, NEW p \in Clients, WriteRoster(p)
    PROVE  /\ Stepped(p)
           /\ \A h \in DOMAIN left' :
                (h \in DOMAIN left /\ left'[h] = left[h]) \/ Gone(left'[h], h)
<1>1. UNCHANGED <<order, nodes, login, lastId>> /\ step[p] = "write" /\ End(p)
  BY DEF WriteRoster, store
<1>2. Stepped(p)
  BY <1>1, CalmEnds
<1>3. ProcInv(p)
  BY DEF HeadInv
<1>4. held[p].listed \subseteq 1..lastId
      /\ (held[p].said = "nothing" => Namesakes(held[p].listed, order[p].about) = {})
  BY <1>1, <1>3 DEF ProcInv
<1> DEFINE entry == [listed |-> held[p].listed, said |-> held[p].said]
<1>5. left' = left \/ left' = [y \in DOMAIN left \cup {order[p].about} |->
                                 IF y = order[p].about THEN entry ELSE left[y]]
  BY DEF WriteRoster, Put
<1>6. entry.listed = held[p].listed /\ entry.said = held[p].said
  OBVIOUS
<1> HIDE DEF entry
<1>7. QED
  BY <1>2, <1>4, <1>5, <1>6 DEF Gone

\* A call is answered, or it is not.
LEMMA RepliedStays ==
    ASSUME HeadInv, NEW p \in Clients, NEW s \in {"idle", "mint", "show", "play"}, NEW h,
           Replied(p, s, h), UNCHANGED order, StoreInv', Settled,
           \A o \in Machines : login[o] # 0 => login'[o] # 0,
           Reply(h), h.listed \subseteq 1..lastId', h.why # "enrolled",
           order[p] \in Order, s = "play" => order[p].op = "deploy"
    PROVE  Stepped(p)
<1>1. Shaped /\ \A q \in Clients : ProcInv(q)
  BY DEF HeadInv, Shaped
<1>2. CASE To(p, s) /\ With(p, h)
  <2>1. Shaped' /\ step'[p] = s /\ held'[p] = h /\ \A q \in Clients \ {p} : Bystander(q)
    BY <1>1, <1>2, Turn, HeadscaleAssumption
  <2>2. ProcInv(p)'
    BY <2>1 DEF ProcInv
  <2>3. QED
    BY <2>1, <2>2 DEF Stepped
<1>3. CASE End(p)
  <2>1. To(p, "idle") /\ With(p, Blank)
    BY <1>3 DEF End
  <2>2. Shaped' /\ step'[p] = "idle" /\ held'[p] = Blank /\ \A q \in Clients \ {p} : Bystander(q)
    BY <1>1, <2>1, Turn, HeadscaleAssumption
  <2>3. QED
    BY <2>2, Over DEF Stepped
<1>4. QED
  BY <1>2, <1>3 DEF Replied

LEMMA EndedStays ==
    ASSUME HeadInv, NEW p \in Clients, End(p), UNCHANGED order, StoreInv', Settled,
           \A o \in Machines : login[o] # 0 => login'[o] # 0
    PROVE  Stepped(p)
<1>1. Shaped /\ \A q \in Clients : ProcInv(q)
  BY DEF HeadInv, Shaped
<1>2. To(p, "idle") /\ With(p, Blank)
  BY DEF End
<1>3. Shaped' /\ step'[p] = "idle" /\ held'[p] = Blank /\ \A q \in Clients \ {p} : Bystander(q)
  BY <1>1, <1>2, Turn, HeadscaleAssumption
<1>4. QED
  BY <1>3, Over DEF Stepped

LEMMA CreateSteps == ASSUME HeadInv, NEW p \in Clients, CreateUser(p) PROVE Stepped(p)
<1>1. UNCHANGED <<order, login, nodes>> /\ step[p] = "create"
  BY DEF CreateUser, store
<1>2. Reply(held[p]) /\ ProcInv(p) /\ StoreInv
  BY DEF HeadInv
<1>3. order[p] \in Order /\ held[p].listed \subseteq 1..lastId /\ held[p].why # "enrolled"
  BY <1>1, <1>2 DEF ProcInv
<1>4. CASE End(p) /\ UNCHANGED store
  BY <1>1, <1>4, CalmEnds DEF store
<1>5. CASE ~(End(p) /\ UNCHANGED store)
  <2> DEFINE h == [held[p] EXCEPT !.user = NewId, !.tags = order[p].tags]
  <2>1. Reply(h) /\ h.listed = held[p].listed /\ h.why = held[p].why
    BY <1>2 DEF Reply
  <2>2. Replied(p, "mint", h) /\ lastId' = NewId
    BY <1>5 DEF CreateUser
  <2> HIDE DEF h
  <2>3. StoreInv' /\ Settled
    BY <1>1, <1>2, <2>2, CountStays
  <2>4. h.listed \subseteq 1..lastId'
    BY <1>2, <1>3, <2>1, <2>2 DEF StoreInv, NewId
  <2>5. QED
    BY <1>1, <1>3, <2>1, <2>2, <2>3, <2>4, RepliedStays
<1>6. QED
  BY <1>4, <1>5

LEMMA MintSteps == ASSUME HeadInv, NEW p \in Clients, MintKey(p) PROVE Stepped(p)
<1>1. UNCHANGED <<order, login, nodes>> /\ step[p] = "mint"
  BY DEF MintKey, store
<1>2. Reply(held[p]) /\ ProcInv(p) /\ StoreInv
  BY DEF HeadInv
<1>3. order[p] \in Order /\ held[p].listed \subseteq 1..lastId /\ held[p].why # "enrolled"
  BY <1>1, <1>2 DEF ProcInv
<1>4. CASE End(p) /\ UNCHANGED store
  BY <1>1, <1>4, CalmEnds DEF store
<1>5. CASE ~(End(p) /\ UNCHANGED store)
  <2> DEFINE h == [held[p] EXCEPT !.key = NewId]
             s == IF order[p].op = "deploy" THEN "play" ELSE "show"
  <2>1. Reply(h) /\ h.listed = held[p].listed /\ h.why = held[p].why
    BY <1>2 DEF Reply
  <2>2. Replied(p, s, h) /\ lastId' = NewId
    BY <1>5 DEF MintKey, store
  <2>3. s \in {"show", "play"} /\ (s = "play" => order[p].op = "deploy")
    OBVIOUS
  <2> HIDE DEF h, s
  <2>4. StoreInv' /\ Settled
    BY <1>1, <1>2, <2>2, CountStays
  <2>5. h.listed \subseteq 1..lastId'
    BY <1>2, <1>3, <2>1, <2>2 DEF StoreInv, NewId
  <2>6. QED
    BY <1>1, <1>3, <2>1, <2>2, <2>3, <2>4, <2>5, RepliedStays
<1>6. QED
  BY <1>4, <1>5

LEMMA RegisterSteps == ASSUME HeadInv, NEW p \in Clients, RegisterNode(p) PROVE Stepped(p)
<1>1. UNCHANGED order /\ step[p] = "register" /\ End(p)
  BY DEF RegisterNode
<1>2. ProcInv(p) /\ StoreInv
  BY DEF HeadInv
<1>3. order[p].about \in Machines
  BY <1>1, <1>2 DEF ProcInv, Order
<1>4. CASE UNCHANGED <<store, login>>
  BY <1>1, <1>4, CalmEnds DEF store
<1>5. CASE Enroll(order[p].about, {})
  BY <1>1, <1>2, <1>3, <1>5, EnrollStays, EndedStays
<1>6. QED
  BY <1>4, <1>5 DEF RegisterNode

LEMMA TagSteps == ASSUME HeadInv, NEW p \in Clients, TagNode(p) PROVE Stepped(p)
<1>1. UNCHANGED <<order, login, lastId>> /\ step[p] = "tag" /\ Replied(p, "idle", Blank)
  BY DEF TagNode
<1>2. ProcInv(p) /\ StoreInv
  BY DEF HeadInv
<1>3. StoreInv' /\ Settled
  <2>1. CASE UNCHANGED nodes
    BY <1>1, <1>2, <2>1, RestStays
  <2>2. CASE ~UNCHANGED nodes
    BY <1>1, <1>2, <2>2, TagStays DEF TagNode
  <2>3. QED
    BY <2>1, <2>2
<1>4. Reply(Blank) /\ Blank.listed = {} /\ Blank.why = "none"
  BY DEF Reply, Blank
<1>5. order[p] \in Order
  BY <1>1, <1>2 DEF ProcInv
<1>6. QED
  BY <1>1, <1>3, <1>4, <1>5, RepliedStays

LEMMA DestroySteps == ASSUME HeadInv, NEW p \in Clients, DestroyUser(p) PROVE Stepped(p)
<1>1. UNCHANGED <<order, login, lastId, nodes>> /\ step[p] = "destroy" /\ Replied(p, "idle", Blank)
  BY DEF DestroyUser
<1>2. ProcInv(p) /\ StoreInv
  BY DEF HeadInv
<1>3. StoreInv' /\ Settled
  BY <1>1, <1>2, RestStays
<1>4. Reply(Blank) /\ Blank.listed = {} /\ Blank.why = "none"
  BY DEF Reply, Blank
<1>5. order[p] \in Order
  BY <1>1, <1>2 DEF ProcInv
<1>6. QED
  BY <1>1, <1>3, <1>4, <1>5, RepliedStays

\* A play about to ask a machine is told when the machine is logged out.
LEMMA LoggedOutTells ==
    ASSUME HeadInv, NEW q \in Clients, NEW m, LoggedOut(m), step'[q] = step[q], UNCHANGED order,
           \A o \in Machines : login[o] # 0 /\ o # m => login'[o] # 0
    PROVE  Bystander(q)
<1>1. Reply(held[q]) /\ ProcInv(q)
  BY DEF HeadInv
<1>2. step[q] = "play" => order[q].op = "deploy" /\ order[q].about \in Machines
  BY <1>1 DEF ProcInv, Order
<1>3. CASE step[q] = "play" /\ order[q].about = m
  <2>1. held'[q] = [held[q] EXCEPT !.said = "forgotten"]
    BY <1>2, <1>3 DEF LoggedOut
  <2>2. held'[q].said = "forgotten"
    BY <1>1, <2>1 DEF Reply
  <2>3. QED
    BY <1>3, <2>1, <2>2 DEF Bystander
<1>4. CASE ~(step[q] = "play" /\ order[q].about = m)
  <2>1. held'[q] = held[q]
    BY <1>4 DEF LoggedOut
  <2>2. QED
    BY <1>2, <1>4, <2>1 DEF Bystander
<1>5. QED
  BY <1>3, <1>4

LEMMA DeleteSteps == ASSUME HeadInv, NEW p \in Clients, DeleteNode(p) PROVE Stepped(p)
<1>1. UNCHANGED order /\ lastId' = lastId /\ step[p] = "delete"
  BY DEF DeleteNode
<1>2. Reply(held[p]) /\ ProcInv(p) /\ StoreInv
  BY DEF HeadInv
<1>3. /\ order[p] \in Order /\ held[p].listed \subseteq 1..lastId /\ held[p].why # "enrolled"
      /\ Namesakes(held[p].listed, order[p].about) \subseteq {held[p].node}
  BY <1>1, <1>2 DEF ProcInv
<1> DEFINE n == held[p].node
           m == nodes[n].machine
<1>4. CASE n \in DOMAIN nodes
  <2>1. Drop(n) /\ LoggedOut(m) /\ (To(p, "write") \/ To(p, "idle"))
    <3>1. Drop(n)
      BY <1>1, <1>4 DEF DeleteNode, Drop
    <3>2. LoggedOut(m) /\ (To(p, "write") \/ To(p, "idle"))
      BY <1>4, Zenon DEF DeleteNode
    <3>3. QED
      BY <3>1, <3>2
  <2>2. /\ StoreInv' /\ Settled
        /\ \A o \in Machines : login[o] # 0 /\ o # m => login'[o] # 0
    BY <1>2, <1>4, <2>1, DropStays
  <2>3. n \notin DOMAIN nodes'
    BY <2>1 DEF Drop, Restrict
  <2> HIDE DEF m, n
  <2>4. /\ step' = [q \in Clients |-> step'[q]] /\ order' = [q \in Clients |-> order'[q]]
        /\ held' = [q \in Clients |-> held'[q]]
        /\ step'[p] \in {"write", "idle"} /\ \A q \in Clients \ {p} : step'[q] = step[q]
    BY <1>1, <2>1 DEF HeadInv, To, LoggedOut
  <2>5. held'[p] = held[p] /\ order'[p] = order[p]
    BY <1>1, <2>1 DEF LoggedOut
  <2>6. \A q \in Clients \ {p} : Bystander(q)
    BY <1>1, <2>1, <2>2, <2>4, LoggedOutTells
  <2>7. Namesakes(held[p].listed, order[p].about)' \subseteq {}
    <3> DEFINE S == held[p].listed
               h == order[p].about
    <3>1. S \in SUBSET (1..lastId) /\ Namesakes(S, h) \subseteq {n}
      BY <1>3 DEF n
    <3>2. S' = S /\ h' = h
      BY <2>5
    <3> HIDE DEF S, h
    <3>3. \A x \in {i \in S \cap DOMAIN nodes' : nodes'[i].name = RosterName(h)} : x \in {}
      BY <2>2, <2>3, <3>1 DEF Settled, Namesakes
    <3>4. QED
      BY <3>2, <3>3 DEF Namesakes, RosterName, S, h
  <2>8. ProcInv(p)'
    BY <1>1, <1>2, <1>3, <2>2, <2>4, <2>5, <2>7 DEF ProcInv, Its, Settled
  <2>9. QED
    BY <1>2, <2>2, <2>4, <2>5, <2>6, <2>8 DEF Stepped, Shaped
<1>5. CASE n \notin DOMAIN nodes
  <2>1. End(p) /\ UNCHANGED <<nodes, login>>
    BY <1>5 DEF DeleteNode
  <2>2. QED
    BY <1>1, <2>1, CalmEnds
<1>6. QED
  BY <1>4, <1>5

\* A play that needs a key after its target said it was enrolled found the target
\* logged out in between.
LEMMA PlaySteps ==
    ASSUME HeadInv, NEW p \in Clients, Play(p)
    PROVE  Stepped(p) /\ PlayHasItsKey'
<1>1. UNCHANGED order /\ step[p] = "play" /\ End(p)
  BY DEF Play
<1>2. ProcInv(p) /\ StoreInv /\ PlayHasItsKey
  BY DEF HeadInv
<1>3. order[p].about \in Machines
  BY <1>1, <1>2 DEF ProcInv, Order
<1>4. CASE UNCHANGED <<store, login, starved>>
  <2>1. Stepped(p)
    BY <1>1, <1>4, CalmEnds DEF store
  <2>2. QED
    BY <1>2, <1>4, <2>1 DEF PlayHasItsKey
<1>5. CASE UNCHANGED starved /\ \E tags : Enroll(order[p].about, tags)
  <2>1. PICK tags : Enroll(order[p].about, tags)
    BY <1>5
  <2>2. Stepped(p)
    BY <1>1, <1>2, <1>3, <2>1, EnrollStays, EndedStays
  <2>3. QED
    BY <1>2, <1>5, <2>2 DEF PlayHasItsKey
<1>6. CASE /\ UNCHANGED <<store, login>> /\ login[order[p].about] = 0
           /\ starved' = starved \cup {[why |-> held[p].why, since |-> held[p].said = "forgotten"]}
  <2>1. Stepped(p)
    BY <1>1, <1>6, CalmEnds DEF store
  <2>2. held[p].why = "enrolled" => held[p].said = "forgotten"
    BY <1>2, <1>6 DEF ProcInv
  <2> DEFINE new == [why |-> held[p].why, since |-> held[p].said = "forgotten"]
  <2>3. new.why = "enrolled" => new.since
    BY <2>2
  <2>4. starved' = starved \cup {new}
    BY <1>6
  <2> HIDE DEF new
  <2>5. PlayHasItsKey'
    BY <1>2, <2>3, <2>4 DEF PlayHasItsKey
  <2>6. QED
    BY <2>1, <2>5
<1>7. QED
  <2>1. \/ UNCHANGED <<store, login, starved>>
        \/ UNCHANGED starved /\ \E k : Enroll(order[p].about, keys[k].tags)
        \/ /\ UNCHANGED <<store, login>> /\ login[order[p].about] = 0
           /\ starved' = starved \cup {[why |-> held[p].why, since |-> held[p].said = "forgotten"]}
    BY Zenon DEF Play
  <2>2. QED
    BY <1>4, <1>5, <1>6, <2>1, Zenon

\* What happens on the tailnet leaves every process where it is.
LEMMA EventSteps ==
    ASSUME HeadInv, Event
    PROVE  StoreInv' /\ Settled /\ Shaped' /\ \A q \in Clients : Bystander(q)
<1>1. UNCHANGED <<step, order>> /\ StoreInv /\ Shaped /\ \A q \in Clients : ProcInv(q)
  BY DEF Event, HeadInv, Shaped
<1>2. CASE \E m \in Machines : /\ login[m] # 0 /\ login' = [login EXCEPT ![m] = 0]
                              /\ LoggedOut(m) /\ lastId' = lastId
                              /\ \/ nodes' = nodes
                                 \/ nodes' = Restrict(nodes, DOMAIN nodes \ {login[m]})
  <2>1. PICK m \in Machines : /\ login[m] # 0 /\ login' = [login EXCEPT ![m] = 0]
                              /\ LoggedOut(m) /\ lastId' = lastId
                              /\ \/ nodes' = nodes
                                 \/ nodes' = Restrict(nodes, DOMAIN nodes \ {login[m]})
    BY <1>2
  <2>2. /\ login' = [o \in Machines |-> login'[o]] /\ login'[m] = 0
        /\ \A o \in Machines : o # m => login'[o] = login[o]
    BY <1>1, <2>1 DEF StoreInv
  <2>3. StoreInv' /\ Settled
    <3>1. CASE nodes' = nodes
      <4>1. Settled
        BY <1>1, <2>1, <3>1 DEF StoreInv, Settled
      <4>2. StoreInv'
        BY <1>1, <2>1, <2>2, <3>1 DEF StoreInv
      <4>3. QED
        BY <4>1, <4>2
    <3>2. CASE nodes' = Restrict(nodes, DOMAIN nodes \ {login[m]})
      <4>1. \A o \in Machines : o # m /\ login[o] # 0 => login[o] # login[m]
        BY <1>1, <2>1 DEF StoreInv
      <4>2. login' = [o \in Machines |-> IF login[o] = login[m] THEN 0 ELSE login[o]]
        BY <2>1, <2>2, <4>1
      <4>3. login[m] \in DOMAIN nodes
        BY <1>1, <2>1 DEF StoreInv
      <4>4. Drop(login[m])
        BY <2>1, <3>2, <4>2 DEF Drop
      <4>5. QED
        BY <1>1, <4>3, <4>4, DropStays
    <3>3. QED
      BY <2>1, <3>1, <3>2
  <2>4. \A q \in Clients : Bystander(q)
    BY <1>1, <2>1, <2>2, LoggedOutTells
  <2>5. Shaped'
    BY <1>1, <2>1 DEF Shaped, LoggedOut
  <2>6. QED
    BY <2>3, <2>4, <2>5
<1>3. CASE UNCHANGED <<nodes, login, lastId, held>>
  <2>1. StoreInv' /\ Settled
    BY <1>1, <1>3, RestStays
  <2>2. \A q \in Clients : Bystander(q)
    BY <1>1, <1>3 DEF Bystander
  <2>3. Shaped'
    BY <1>1, <1>3 DEF Shaped
  <2>4. QED
    BY <2>1, <2>2, <2>3
<1>4. CASE UNCHANGED held /\ \E m \in Devices : \E tags : Enroll(m, tags)
  <2>0. PICK m \in Devices : \E tags : Enroll(m, tags)
    BY <1>4
  <2>1. PICK tags : Enroll(m, tags)
    BY <2>0
  <2>2. m \in Machines
    BY DEF Machines
  <2>3. StoreInv' /\ Settled /\ \A o \in Machines : login[o] # 0 => login'[o] # 0
    BY <1>1, <2>1, <2>2, EnrollStays
  <2>4. \A q \in Clients : step[q] = "play" => order[q].about \in Machines
    BY <1>1 DEF ProcInv, Order
  <2>5. \A q \in Clients : Bystander(q)
    BY <1>1, <1>4, <2>3, <2>4 DEF Bystander
  <2>6. Shaped'
    BY <1>1, <1>4 DEF Shaped
  <2>7. QED
    BY <2>3, <2>5, <2>6
<1>5. \/ \E m \in Machines : /\ login[m] # 0 /\ login' = [login EXCEPT ![m] = 0]
                            /\ LoggedOut(m) /\ lastId' = lastId
                            /\ \/ nodes' = nodes
                               \/ nodes' = Restrict(nodes, DOMAIN nodes \ {login[m]})
      \/ UNCHANGED <<nodes, login, lastId, held>>
      \/ UNCHANGED held /\ \E m \in Devices : \E tags : Enroll(m, tags)
  BY Zenon DEF Event, store
<1>6. QED
  BY <1>2, <1>3, <1>4, <1>5, Zenon

LEMMA GoneStays ==
    ASSUME Settled, lastId \in Nat, lastId' \in Nat, NEW e, NEW h, Gone(e, h)
    PROVE  Gone(e, h)'
<1>1. lastId <= lastId' /\ 1..lastId \subseteq 1..lastId'
  BY DEF Settled
<1>2. Namesakes(e.listed, h)' \subseteq Namesakes(e.listed, h)
  BY NamesakesShrink DEF Gone
<1>3. QED
  BY <1>1, <1>2 DEF Gone

LEMMA HeadStays == ASSUME HeadInv, [HeadscaleNext]_headscaleVars PROVE HeadInv'
<1>1. ASSUME NEW p \in Clients, Stepped(p), UNCHANGED <<left, starved>>
      PROVE  HeadInv'
  <2>1. \A e, h : Gone(e, h) => Gone(e, h)'
    BY <1>1, GoneStays DEF HeadInv, Stepped, StoreInv
  <2>2. \A q \in Clients : Reply(held'[q]) /\ ProcInv(q)'
    BY <1>1, BystanderStays DEF Stepped, HeadInv, StoreInv
  <2>3. (\A h \in DOMAIN left : Gone(left[h], h))'
    BY <1>1, <2>1 DEF HeadInv
  <2>4. PlayHasItsKey'
    BY <1>1 DEF HeadInv, PlayHasItsKey
  <2>5. QED
    BY <1>1, <2>2, <2>3, <2>4 DEF Stepped, Shaped, HeadInv
<1>2. ASSUME NEW p \in Clients, WriteRoster(p) PROVE HeadInv'
  <2>1. /\ Stepped(p) /\ starved' = starved
        /\ \A h \in DOMAIN left' : (h \in DOMAIN left /\ left'[h] = left[h]) \/ Gone(left'[h], h)
    BY <1>2, WriteSteps DEF WriteRoster
  <2>2. \A e, h : Gone(e, h) => Gone(e, h)'
    BY <2>1, GoneStays DEF HeadInv, Stepped, StoreInv
  <2>3. \A q \in Clients : Reply(held'[q]) /\ ProcInv(q)'
    BY <2>1, BystanderStays DEF Stepped, HeadInv, StoreInv
  <2>4. \A h \in DOMAIN left' : Gone(left'[h], h)
    BY <2>1 DEF HeadInv
  <2>5. (\A h \in DOMAIN left : Gone(left[h], h))'
    BY <2>2, <2>4
  <2>6. PlayHasItsKey'
    BY <2>1 DEF HeadInv, PlayHasItsKey
  <2>7. QED
    BY <2>1, <2>3, <2>5, <2>6 DEF Stepped, Shaped, HeadInv
<1>3. ASSUME NEW p \in Clients, Play(p) PROVE HeadInv'
  <2>1. Stepped(p) /\ PlayHasItsKey' /\ left' = left
    BY <1>3, PlaySteps DEF Play
  <2>2. \A e, h : Gone(e, h) => Gone(e, h)'
    BY <2>1, GoneStays DEF HeadInv, Stepped, StoreInv
  <2>3. \A q \in Clients : Reply(held'[q]) /\ ProcInv(q)'
    BY <2>1, BystanderStays DEF Stepped, HeadInv, StoreInv
  <2>4. (\A h \in DOMAIN left : Gone(left[h], h))'
    BY <2>1, <2>2 DEF HeadInv
  <2>5. QED
    BY <2>1, <2>3, <2>4 DEF Stepped, Shaped, HeadInv
<1>4. ASSUME Event PROVE HeadInv'
  <2>1. /\ StoreInv' /\ Settled /\ Shaped' /\ \A q \in Clients : Bystander(q)
        /\ UNCHANGED <<left, starved>>
    BY <1>4, EventSteps DEF Event, history
  <2>2. \A e, h : Gone(e, h) => Gone(e, h)'
    BY <2>1, GoneStays DEF HeadInv, StoreInv
  <2>3. \A q \in Clients : Reply(held'[q]) /\ ProcInv(q)'
    BY <2>1, BystanderStays DEF HeadInv, StoreInv
  <2>4. (\A h \in DOMAIN left : Gone(left[h], h))'
    BY <2>1, <2>2 DEF HeadInv
  <2>5. PlayHasItsKey'
    BY <2>1 DEF HeadInv, PlayHasItsKey
  <2>6. QED
    BY <2>1, <2>3, <2>4, <2>5 DEF Shaped, HeadInv
<1>5. ASSUME UNCHANGED headscaleVars PROVE HeadInv'
  BY <1>5 DEF headscaleVars, store, HeadInv, StoreInv, Reply, ProcInv, Its, Gone, Namesakes, RosterName,
              PlayHasItsKey
<1>6. ASSUME NEW p \in Clients,
             \/ \E o \in Orders : Give(p, o)
             \/ CreateUser(p) \/ PickUser(p) \/ MintKey(p) \/ ShowKey(p)
             \/ RegisterNode(p) \/ ListNodes(p) \/ TagNode(p)
             \/ Confirm(p) \/ DestroyUser(p)
             \/ Coordinator(p) \/ RevokeNode(p) \/ DeleteNode(p)
             \/ Probe(p) \/ OnlyUser(p) \/ Unreached(p)
      PROVE  Stepped(p) /\ UNCHANGED <<left, starved>>
  <2>1. UNCHANGED <<left, starved>>
    BY <1>6, Zenon DEF Give, CreateUser, PickUser, MintKey, ShowKey, RegisterNode, ListNodes, TagNode,
       Confirm, DestroyUser, Coordinator, RevokeNode, DeleteNode, Probe, OnlyUser, Unreached, Stay, history
  <2>2. Stepped(p)
    BY <1>6, GiveSteps, CreateSteps, AskingSteps, MintSteps, RegisterSteps, TagSteps, DestroySteps,
       CoordinatorSteps, RevokeSteps, DeleteSteps, ProbeSteps
  <2>3. QED
    BY <2>1, <2>2
<1>7. QED
  BY <1>1, <1>2, <1>3, <1>4, <1>5, <1>6 DEF HeadscaleNext

\* A Host leaves the roster with its node gone, or its operator was told that it
\* is not, whatever else happens on the tailnet (revoke_host_node, run_host_remove).
THEOREM RemovedHostsAreRevoked == HeadscaleSpec => []RemovedIsRevoked
<1>1. HeadInv => RemovedIsRevoked
  BY DEF HeadInv, Gone, Namesakes, RemovedIsRevoked
<1>2. QED
  BY HeadInitially, HeadStays, <1>1, PTL DEF HeadscaleSpec

\* A play that needs a key has one, unless its target was logged out after it said
\* it was enrolled (auto_mint_for, target_is_enrolled).
THEOREM PlaysHaveTheirKeys == HeadscaleSpec => []PlayHasItsKey
<1>1. HeadInv => PlayHasItsKey
  BY DEF HeadInv
<1>2. QED
  BY HeadInitially, HeadStays, <1>1, PTL DEF HeadscaleSpec

\* A node is deleted by a host remove only if it has the Host's name in headscale
\* and the address cached for it, if one was: a node of another machine, too
\* (revoke_node).
THEOREM RevocationSparesOthers == HeadscaleSpec => RevokeSparesOthers
<1>1. ASSUME HeadInv, [HeadscaleNext]_headscaleVars
      PROVE  [\A p \in Clients :
                Deleted(p) /\ nodes[held[p].node].machine # order[p].about =>
                   /\ nodes[held[p].node].name = RosterName(order[p].about)
                   /\ held[p].ip \in {None, nodes[held[p].node].ip}]_headscaleVars
  <2>1. ASSUME NEW p \in Clients, Deleted(p)
        PROVE  /\ nodes[held[p].node].name = RosterName(order[p].about)
               /\ held[p].ip \in {None, nodes[held[p].node].ip}
    BY <1>1, <2>1 DEF HeadInv, ProcInv, Its, Deleted
  <2>2. QED
    BY <2>1
<1>2. QED
  BY HeadInitially, HeadStays, <1>1, PTL DEF HeadscaleSpec, RevokeSparesOthers

\* No machine calls itself what the operator calls another.
OneOfTheName == \A h, m \in Machines : Hostname[m] = h => m = h

\* Where no other machine calls itself what the roster calls a Host, host remove
\* deletes "the node `host` enrolled as" and no other, however stale the address it
\* cached and however often ids and addresses change hands (revoke_node).
THEOREM RevocationsAreOwn == ASSUME OneOfTheName PROVE HeadscaleSpec => RevokesItsOwn
<1>1. ASSUME HeadInv, [HeadscaleNext]_headscaleVars
      PROVE  [\A p \in Clients :
                Deleted(p) => nodes[held[p].node].machine = order[p].about]_headscaleVars
  <2>1. ASSUME NEW p \in Clients, Deleted(p)
        PROVE  nodes[held[p].node].machine = order[p].about
    <3>1. held[p].node \in DOMAIN nodes /\ nodes[held[p].node].name = RosterName(order[p].about)
      BY <1>1, <2>1 DEF HeadInv, ProcInv, Its, Deleted
    <3>2. Hostname[nodes[held[p].node].machine] = order[p].about
      BY <1>1, <3>1 DEF HeadInv, StoreInv, RosterName
    <3>3. order[p].about \in Machines /\ nodes[held[p].node].machine \in Machines
      BY <1>1, <2>1, <3>1 DEF HeadInv, StoreInv, ProcInv, Order, Deleted
    <3>4. QED
      BY <3>2, <3>3, OneOfTheName DEF OneOfTheName
  <2>2. QED
    BY <2>1
<1>2. QED
  BY HeadInitially, HeadStays, <1>1, PTL DEF HeadscaleSpec, RevokesItsOwn

----------------------------------------------------------------------------
(* The operator's keys.                                                    *)

\* A public key whose private half is gone lies where keygen is at work or was
\* interrupted; one beside another private key only where keygen is about to
\* replace it, after an interruption.
PairsInv ==
    /\ generated \in Nat /\ genFailures \in Nat
    /\ private = [p \in Places |-> private[p]] /\ public = [p \in Places |-> public[p]]
    /\ {"phase", "name"} \subseteq DOMAIN gen /\ (gen.phase # "idle" => gen.name \in Places)
    /\ \A n \in Places : private[n] = 0 /\ public[n] # 0 =>
         genFailures # 0 \/ (gen.phase = "public" /\ gen.name = n)
    /\ \A n \in Places : private[n] # 0 /\ public[n] \notin {0, private[n]} =>
         gen.phase = "halfway" /\ gen.name = n /\ genFailures # 0

\* What add-key was given is the pair as it is, unless keygen replaces it; what it
\* says it authorized is there.
AddInv ==
    /\ accepted = [b \in Accounts |-> accepted[b]] /\ ragged = {}
    /\ {"phase", "name", "which", "key", "steady", "ok", "opened", "named"} \subseteq DOMAIN add
    /\ add.phase # "idle" => add.name \in Aliases /\ add.which \in Places
    /\ add.phase # "idle" /\ add.steady => private[add.which] \in {0, add.key}
    /\ add.phase = "done" /\ add.ok =>
         add.opened = add.named /\ add.key \in accepted[BoxOf[add.name]]

LEMMA KeysInitially == ASSUME IdentitiesInit, Ragged = {} PROVE PairsInv /\ AddInv
<1> USE DEF IdentitiesInit
<1>1. gen.phase = "idle" /\ {"phase", "name"} \subseteq DOMAIN gen
  BY DEF NoGen
<1>2. add.phase = "idle" /\ {"phase", "name", "which", "key", "steady", "ok", "opened", "named"} \subseteq DOMAIN add
  BY DEF NoAdd
<1>3. generated = 1 /\ genFailures = 0 /\ public = private
      /\ private = [p \in Places |-> IF p = Own THEN 1 ELSE 0]
  OBVIOUS
<1>4. PairsInv
  BY <1>1, <1>3 DEF PairsInv
<1>5. AddInv
  BY <1>2 DEF AddInv
<1>6. QED
  BY <1>4, <1>5

\* The steps that leave the pairs to keygen.
LEMMA KeygenSteps ==
    ASSUME PairsInv, AddInv, MaxKeygenFailures <= 1,
           Keygen \/ RemovePrivate \/ RemovePublic \/ WritePrivate \/ WritePublic \/ KeygenFails
    PROVE  PairsInv' /\ AddInv'
<1> USE IdentitiesAssumption
<1>1. CASE Keygen
  <2>1. PICK n \in Aliases, force \in BOOLEAN :
          gen' = [phase |-> IF private[n] = 0 THEN "generate" ELSE "private", name |-> n, force |-> force]
    BY <1>1 DEF Keygen
  <2>2. gen'.name \in Places /\ gen'.phase \in {"generate", "private"} /\ {"phase", "name"} \subseteq DOMAIN gen'
    BY <2>1 DEF Places
  <2>3. gen.phase = "idle" /\ UNCHANGED <<private, public, generated, accepted, ragged, add, genFailures>>
    BY <1>1 DEF Keygen, pairs, boxes
  <2>4. PairsInv'
    BY <2>2, <2>3 DEF PairsInv
  <2>5. QED
    BY <2>3, <2>4 DEF AddInv
<1>2. CASE RemovePrivate
  <2>1. /\ gen.phase = "private" /\ private' = [private EXCEPT ![gen.name] = 0]
        /\ gen' = [gen EXCEPT !.phase = "public"]
        /\ UNCHANGED <<public, generated, accepted, ragged, add, genFailures>>
    BY <1>2 DEF RemovePrivate, Becomes, AfterPrivate, PrivateFirst, boxes
  <2>2. gen'.phase = "public" /\ gen'.name = gen.name /\ {"phase", "name"} \subseteq DOMAIN gen'
    BY <2>1 DEF PairsInv
  <2>3. /\ gen.name \in Places /\ private' = [p \in Places |-> private'[p]] /\ private'[gen.name] = 0
        /\ \A n \in Places : n # gen.name => private'[n] = private[n]
    BY <2>1 DEF PairsInv
  <2>4. PairsInv'
    BY <2>1, <2>2, <2>3 DEF PairsInv
  <2>5. AddInv'
    BY <2>1, <2>3 DEF AddInv
  <2>6. QED
    BY <2>4, <2>5
<1>3. CASE RemovePublic
  <2>1. /\ gen.phase = "public" /\ public' = [public EXCEPT ![gen.name] = 0]
        /\ gen' = [gen EXCEPT !.phase = "generate"]
        /\ UNCHANGED <<private, generated, accepted, ragged, add, genFailures>>
    BY <1>3 DEF RemovePublic, Becomes, boxes
  <2>2. gen'.phase = "generate" /\ gen'.name = gen.name /\ {"phase", "name"} \subseteq DOMAIN gen'
    BY <2>1 DEF PairsInv
  <2>3. /\ gen.name \in Places /\ public' = [p \in Places |-> public'[p]] /\ public'[gen.name] = 0
        /\ \A n \in Places : n # gen.name => public'[n] = public[n]
    BY <2>1 DEF PairsInv
  <2>4. PairsInv'
    BY <2>1, <2>2, <2>3 DEF PairsInv
  <2>5. AddInv'
    BY <2>1 DEF AddInv
  <2>6. QED
    BY <2>4, <2>5
<1>4. CASE WritePrivate
  <2>1. /\ gen.phase = "generate" /\ private[gen.name] = 0
        /\ generated' = generated + 1 /\ private' = [private EXCEPT ![gen.name] = generated + 1]
        /\ gen' = [gen EXCEPT !.phase = "halfway"]
        /\ UNCHANGED <<public, accepted, ragged, genFailures>>
    BY <1>4 DEF WritePrivate, Becomes, boxes
  <2>2. gen'.phase = "halfway" /\ gen'.name = gen.name /\ {"phase", "name"} \subseteq DOMAIN gen'
    BY <2>1 DEF PairsInv
  <2>3. /\ gen.name \in Places /\ private' = [p \in Places |-> private'[p]]
        /\ \A n \in Places : n # gen.name => private'[n] = private[n]
    BY <2>1 DEF PairsInv
  <2>4. generated' \in Nat
    BY <2>1 DEF PairsInv
  <2>5. PairsInv'
    BY <2>1, <2>2, <2>3, <2>4 DEF PairsInv
  <2>6. add' = [add EXCEPT !.steady = add.steady /\ add.which # gen.name]
    BY <1>4 DEF WritePrivate
  <2>7. /\ DOMAIN add' = DOMAIN add
        /\ \A f \in DOMAIN add : f # "steady" => add'[f] = add[f]
        /\ add'.steady <=> add.steady /\ add.which # gen.name
    BY <2>6 DEF AddInv
  <2>8. /\ add'.phase = add.phase /\ add'.name = add.name /\ add'.which = add.which /\ add'.key = add.key
        /\ add'.ok = add.ok /\ add'.opened = add.opened /\ add'.named = add.named
    BY <2>7 DEF AddInv
  <2>9. add'.phase # "idle" /\ add'.steady => private'[add'.which] \in {0, add'.key}
    BY <2>3, <2>7, <2>8 DEF AddInv
  <2>10. AddInv'
    BY <2>1, <2>7, <2>8, <2>9 DEF AddInv
  <2>11. QED
    BY <2>5, <2>10
<1>5. CASE WritePublic
  <2>1. /\ gen.phase = "halfway" /\ public' = [public EXCEPT ![gen.name] = private[gen.name]]
        /\ gen' = NoGen /\ UNCHANGED <<private, generated, accepted, ragged, add, genFailures>>
    BY <1>5 DEF WritePublic, boxes
  <2>2. gen'.phase = "idle" /\ {"phase", "name"} \subseteq DOMAIN gen'
    BY <2>1 DEF NoGen
  <2>3. /\ gen.name \in Places /\ public' = [p \in Places |-> public'[p]]
        /\ public'[gen.name] = private[gen.name]
        /\ \A n \in Places : n # gen.name => public'[n] = public[n]
    BY <2>1 DEF PairsInv
  <2>4. PairsInv'
    BY <2>1, <2>2, <2>3 DEF PairsInv
  <2>5. AddInv'
    BY <2>1 DEF AddInv
  <2>6. QED
    BY <2>4, <2>5
<1>6. CASE KeygenFails
  <2>1. /\ genFailures < MaxKeygenFailures /\ genFailures' = genFailures + 1 /\ gen' = NoGen
        /\ UNCHANGED <<private, public, generated, accepted, ragged, add>>
    BY <1>6 DEF KeygenFails, pairs, boxes
  <2>2. gen'.phase = "idle" /\ {"phase", "name"} \subseteq DOMAIN gen'
    BY <2>1 DEF NoGen
  <2>3. genFailures = 0 /\ genFailures' = 1
    BY <2>1 DEF PairsInv
  <2>4. PairsInv'
    BY <2>1, <2>2, <2>3 DEF PairsInv
  <2>5. AddInv'
    BY <2>1 DEF AddInv
  <2>6. QED
    BY <2>4, <2>5
<1>7. QED
  BY <1>1, <1>2, <1>3, <1>4, <1>5, <1>6

LEMMA AddSteps ==
    ASSUME PairsInv, AddInv, Session \/ Expire \/ AuthorizeKey \/ Authorize
    PROVE  PairsInv' /\ AddInv'
<1> USE IdentitiesAssumption
<1>1. UNCHANGED <<private, public, generated, gen, genFailures>>
  BY DEF Session, Expire, AuthorizeKey, Authorize, pairs
<1>2. PairsInv'
  BY <1>1 DEF PairsInv
<1>3. CASE Session \/ Expire
  <2>1. UNCHANGED <<accepted, ragged, add>>
    BY <1>3 DEF Session, Expire, boxes
  <2>2. QED
    BY <1>1, <1>2, <2>1 DEF AddInv
<1>4. CASE AuthorizeKey
  <2>1. PICK n \in Aliases, named \in BOOLEAN, other \in BOOLEAN :
          \E with \in Offered(n, named), which \in Offering(n, other) :
            add' = [NoAdd EXCEPT !.phase = "confirm", !.name = n, !.with = with, !.which = which,
                                 !.key = public[which], !.steady = gen = NoGen \/ gen.name # which]
    BY <1>4 DEF AuthorizeKey
  <2>2. PICK with \in Offered(n, named), which \in Offering(n, other) :
            add' = [NoAdd EXCEPT !.phase = "confirm", !.name = n, !.with = with, !.which = which,
                                 !.key = public[which], !.steady = gen = NoGen \/ gen.name # which]
    BY <2>1
  <2>3. /\ add'.phase = "confirm" /\ add'.name = n /\ add'.which = which /\ add'.key = public[which]
        /\ add'.steady = (gen = NoGen \/ gen.name # which)
        /\ {"phase", "name", "which", "key", "steady", "ok", "opened", "named"} \subseteq DOMAIN add'
    BY <2>2 DEF NoAdd
  <2>4. which \in Places /\ public[which] # 0
    BY DEF Offering, Places
  <2>5. gen = NoGen => gen.phase = "idle"
    BY DEF NoGen
  <2>6. (gen = NoGen \/ gen.name # which) => private[which] \in {0, public[which]}
    BY <2>4, <2>5 DEF PairsInv
  <2>7. UNCHANGED <<accepted, ragged>>
    BY <1>4 DEF AuthorizeKey, boxes
  <2>8. AddInv'
    BY <1>1, <2>3, <2>4, <2>6, <2>7 DEF AddInv
  <2>9. QED
    BY <1>2, <2>8
<1>5. CASE Authorize
  <2>1. PICK opened, ok : /\ add' = [add EXCEPT !.phase = "done", !.opened = opened, !.named = NamedKey, !.ok = ok]
                          /\ \/ ok = FALSE /\ UNCHANGED boxes
                             \/ /\ opened = NamedKey /\ ragged' = ragged \ {BoxOf[add.name]}
                                /\ accepted' = IF BoxOf[add.name] \in ragged THEN accepted
                                     ELSE [accepted EXCEPT ![BoxOf[add.name]] = @ \cup {add.key}]
    BY <1>5, Zenon DEF Authorize, Ended, FirstContact
  <2>2. /\ add'.phase = "done" /\ add'.opened = opened /\ add'.named = NamedKey /\ add'.ok = ok
        /\ add'.name = add.name /\ add'.which = add.which /\ add'.key = add.key /\ add'.steady = add.steady
        /\ DOMAIN add' = DOMAIN add
    BY <2>1 DEF AddInv
  <2>3. add.phase = "confirm"
    BY <1>5 DEF Authorize
  <2>4. BoxOf[add.name] \in Accounts
    BY <2>3 DEF AddInv, Accounts
  <2>5. CASE ok = FALSE /\ UNCHANGED boxes
    BY <1>1, <1>2, <2>2, <2>3, <2>5 DEF AddInv, boxes
  <2>6. CASE /\ opened = NamedKey /\ ragged' = ragged \ {BoxOf[add.name]}
             /\ accepted' = IF BoxOf[add.name] \in ragged THEN accepted
                             ELSE [accepted EXCEPT ![BoxOf[add.name]] = @ \cup {add.key}]
    <3>1. ragged' = {} /\ accepted' = [b \in Accounts |-> accepted'[b]]
          /\ add.key \in accepted'[BoxOf[add.name]]
      BY <2>4, <2>6 DEF AddInv
    <3>2. AddInv'
      BY <1>1, <2>2, <2>3, <2>6, <3>1 DEF AddInv
    <3>3. QED
      BY <1>2, <3>2
  <2>7. QED
    BY <2>1, <2>5, <2>6
<1>6. QED
  BY <1>3, <1>4, <1>5

\* An add-key that succeeded went in by the key the operator named, and the pair it
\* was given opens the machine, as long as at most one keygen was interrupted and
\* every authorized_keys ends its last line (run_ssh_add_key, run_ssh_keygen).
THEOREM AddedKeysOpen ==
    ASSUME MaxKeygenFailures <= 1, Ragged = {}
    PROVE  IdentitiesInit /\ [][IdentitiesNext]_IdentityVars => []AddedKeyOpens
<1>1. IdentitiesInit => PairsInv /\ AddInv
  BY KeysInitially
<1>2. PairsInv /\ AddInv /\ [IdentitiesNext]_IdentityVars => (PairsInv /\ AddInv)'
  <2> SUFFICES ASSUME PairsInv, AddInv, [IdentitiesNext]_IdentityVars PROVE PairsInv' /\ AddInv'
    OBVIOUS
  <2>1. CASE IdentitiesNext
    BY <2>1, KeygenSteps, AddSteps DEF IdentitiesNext
  <2>2. CASE UNCHANGED IdentityVars
    BY <2>2 DEF IdentityVars, pairs, boxes, PairsInv, AddInv
  <2>3. QED
    BY <2>1, <2>2
<1>3. PairsInv /\ AddInv => AddedKeyOpens
  BY DEF AddInv, AddedKeyOpens, Present, LetsIn
<1>4. QED
  BY <1>1, <1>2, <1>3, PTL

----------------------------------------------------------------------------
(* Which Host a command acts on and how it is reached.                     *)

World == EverPublic \cup {NoAddress}
Fields == {"kind", "phase", "host", "tty", "entry", "connect", "pub", "peers", "given", "exit"}

\* Where a command is in its course.
CourseInv ==
    /\ declared \in Declared /\ Fields \subseteq DOMAIN cmd
    /\ cmd.phase \notin {"finish", "idle"} => cmd.exit = "none"
    /\ cmd.phase \in {"resolve", "connect", "peers", "render", "inventory"} => cmd.kind # "publish"
    /\ cmd.phase \in {"connect", "peers", "render", "inventory"} => cmd.host \in RouteHosts
    /\ cmd.phase = "publish" => cmd.kind = "publish"

\* What is, or will be, told to the world is public.
TellsPublic ==
    /\ published \subseteq World /\ cmd.pub \in World /\ cmd.given.public_address \in World
    /\ cmd.phase = "pick" => IF cmd.kind = "session" THEN cmd.entry \in Declared
                             ELSE \A n \in DOMAIN cmd.entry : cmd.entry[n] \in World
    /\ cmd.phase = "publish" => cmd.entry \in World
    /\ cmd.phase = "connect" => cmd.entry.pub \in World

\* A run in which the flag decided a route took the route it names.
FlagInv ==
    /\ reached \in BOOLEAN
    /\ reached => /\ override # 0 /\ cmd.kind # "publish"
                  /\ cmd.phase \in {"peers", "render", "inventory", "finish", "idle"}
                  /\ cmd.connect = RouteOver(cmd.entry, FromSlot(override))
    /\ cmd.exit = "ok" /\ cmd.kind = "play" => cmd.given.ansible_host = cmd.connect
    /\ cmd.phase = "idle" /\ cmd.exit = "ok" /\ override # 0 => reached

\* Every address of the roster is in a set of peers.
Whole(peers) ==
    \A m \in DOMAIN declared : {declared[m].pub, declared[m].ts} \ {NoAddress} \subseteq peers
AllowInv ==
    /\ allow = [n \in RouteHosts |-> allow[n]]
    /\ \A n \in since :
         IF n = cmd.host /\ cmd.phase \in {"render", "inventory"} THEN Whole(cmd.peers) ELSE Whole(allow[n])

RouteInv == CourseInv /\ TellsPublic /\ FlagInv /\ AllowInv

LEMMA RosterIsPublic ==
    ASSUME NEW r \in Declared, NEW n \in DOMAIN r PROVE n \in RouteHosts /\ r[n].pub \in World
  BY DEF RouteHosts, World, EverPublic

LEMMA BundleIsPublic ==
    ASSUME NEW n \in DOMAIN Bundled PROVE n \in RouteHosts /\ Bundled[n] \in World
  BY DEF RouteHosts, World, EverPublic, Range

LEMMA ListedIsPublic ==
    ASSUME declared \in Declared PROVE \A n \in DOMAIN Listed : Listed[n] \in World
<1>1. CASE declared = << >>
  BY <1>1, BundleIsPublic DEF Listed
<1>2. CASE declared # << >>
  BY <1>2, RosterIsPublic DEF Listed, PublicAddress
<1>3. QED
  BY <1>1, <1>2

LEMMA PeersAreWhole == Whole(PeerAddresses(declared))
  BY DEF Whole, PeerAddresses

LEMMA RoutesInitially == RoutesInit => RouteInv
<1> SUFFICES ASSUME RoutesInit PROVE RouteInv
  OBVIOUS
<1> USE DEF RoutesInit
<1>1. /\ cmd.phase = "idle" /\ cmd.exit = "none" /\ cmd.pub = NoAddress
      /\ cmd.given.public_address = NoAddress /\ Fields \subseteq DOMAIN cmd
  BY DEF NoRoute, NoInventory, Fields
<1>2. CourseInv /\ TellsPublic
  BY <1>1 DEF CourseInv, TellsPublic, World
<1>3. FlagInv /\ AllowInv
  BY <1>1 DEF FlagInv, AllowInv
<1>4. QED
  BY <1>2, <1>3 DEF RouteInv

\* A command that fails.
LEMMA FailSteps ==
    ASSUME RouteInv, Fail, UNCHANGED <<declared, override, reached, allow, published>>,
           cmd.phase \notin {"idle", "finish"},
           \/ UNCHANGED since /\ cmd.phase \notin {"render", "inventory"}
           \/ since' = since \ {cmd.host}
    PROVE  RouteInv'
<1>1. cmd' = [cmd EXCEPT !.phase = "finish", !.exit = "failed"]
  BY DEF Fail
<1>2. /\ DOMAIN cmd' = DOMAIN cmd /\ cmd'.phase = "finish" /\ cmd'.exit = "failed"
      /\ cmd'.kind = cmd.kind /\ cmd'.pub = cmd.pub /\ cmd'.given = cmd.given /\ cmd'.entry = cmd.entry
      /\ cmd'.connect = cmd.connect /\ cmd'.host = cmd.host /\ cmd'.peers = cmd.peers
  BY <1>1 DEF RouteInv, CourseInv, Fields
<1>3. CourseInv' /\ TellsPublic'
  BY <1>2 DEF RouteInv, CourseInv, TellsPublic
<1>4. FlagInv'
  BY <1>2 DEF RouteInv, FlagInv
<1>5. AllowInv'
  BY <1>2 DEF RouteInv, AllowInv, Whole
<1>6. QED
  BY <1>3, <1>4, <1>5 DEF RouteInv

LEMMA BeginSteps == ASSUME RouteInv, BeginCommand PROVE RouteInv'
<1>1. PICK kind \in Kinds, host \in RouteHosts \cup {Nobody}, tty \in BOOLEAN, slot \in 0..2 :
         /\ override' = slot /\ reached' = FALSE
         /\ cmd' = [NoRoute EXCEPT !.kind = kind, !.host = host, !.tty = tty,
                       !.phase = IF kind = "publish" \/ host = Nobody THEN "list" ELSE "resolve"]
  BY DEF BeginCommand
<1>2. /\ Fields \subseteq DOMAIN cmd' /\ cmd'.phase \in {"list", "resolve"}
      /\ (cmd'.phase = "resolve" => kind # "publish") /\ cmd'.kind = kind /\ cmd'.exit = "none"
      /\ cmd'.pub = NoAddress /\ cmd'.given.public_address = NoAddress
  BY <1>1 DEF NoRoute, NoInventory, Fields
<1>3. UNCHANGED <<declared, allow, since, published>> /\ cmd.phase = "idle" /\ reached' = FALSE
  BY <1>1 DEF BeginCommand
<1>4. CourseInv' /\ TellsPublic'
  BY <1>2, <1>3 DEF RouteInv, CourseInv, TellsPublic, World
<1>5. FlagInv'
  BY <1>2, <1>3 DEF RouteInv, FlagInv
<1>6. AllowInv'
  BY <1>2, <1>3 DEF RouteInv, AllowInv, Whole
<1>7. QED
  BY <1>4, <1>5, <1>6 DEF RouteInv

LEMMA ListSteps == ASSUME RouteInv, ListHosts PROVE RouteInv'
<1>1. cmd.phase = "list" /\ UNCHANGED <<declared, override, reached, allow, since, published>>
  BY DEF ListHosts
<1>2. CASE Fail
  BY <1>1, <1>2, FailSteps
<1>3. CASE cmd' = [cmd EXCEPT !.phase = "pick", !.entry = RowsFor(cmd.kind)]
  <2>1. /\ DOMAIN cmd' = DOMAIN cmd /\ cmd'.phase = "pick" /\ cmd'.exit = cmd.exit
        /\ cmd'.kind = cmd.kind /\ cmd'.pub = cmd.pub /\ cmd'.given = cmd.given
        /\ cmd'.connect = cmd.connect /\ cmd'.host = cmd.host /\ cmd'.peers = cmd.peers
        /\ cmd'.entry = RowsFor(cmd.kind)
    BY <1>3 DEF RouteInv, CourseInv, Fields
  <2>2. IF cmd.kind = "session" THEN RowsFor(cmd.kind) \in Declared
        ELSE \A n \in DOMAIN RowsFor(cmd.kind) : RowsFor(cmd.kind)[n] \in World
    BY ListedIsPublic DEF RouteInv, CourseInv, RowsFor
  <2>3. CourseInv' /\ TellsPublic'
    BY <1>1, <2>1, <2>2 DEF RouteInv, CourseInv, TellsPublic
  <2>4. FlagInv'
    BY <1>1, <2>1 DEF RouteInv, FlagInv, CourseInv
  <2>5. AllowInv'
    BY <1>1, <2>1 DEF RouteInv, AllowInv, Whole
  <2>6. QED
    BY <2>3, <2>4, <2>5 DEF RouteInv
<1>4. QED
  BY <1>2, <1>3 DEF ListHosts

LEMMA PickSteps == ASSUME RouteInv, Pick PROVE RouteInv'
<1>1. cmd.phase = "pick" /\ UNCHANGED <<declared, override, reached, allow, since, published>>
  BY DEF Pick
<1>2. CASE Fail
  BY <1>1, <1>2, FailSteps
<1>3. CASE \E n \in Rows : Picked(n)
  <2>1. PICK n \in Rows : Picked(n)
    BY <1>3
  <2> DEFINE next == CASE cmd.kind = "publish" -> "publish"
                       [] cmd.kind = "session" -> "connect"
                       [] OTHER -> "resolve"
             entry == IF cmd.kind = "play" THEN << >> ELSE cmd.entry[n]
  <2>2. /\ cmd.kind = "publish" => next = "publish"
        /\ cmd.kind = "session" => next = "connect"
        /\ cmd.kind \notin {"publish", "session"} => next = "resolve"
    OBVIOUS
  <2>3. cmd.kind \in {"publish", "session"} => entry = cmd.entry[n]
    OBVIOUS
  <2>4. cmd' = [cmd EXCEPT !.phase = next, !.host = n, !.entry = entry]
    BY <2>1 DEF Picked
  <2> HIDE DEF next, entry
  <2>5. /\ DOMAIN cmd' = DOMAIN cmd /\ cmd'.phase = next /\ cmd'.exit = cmd.exit
        /\ cmd'.kind = cmd.kind /\ cmd'.pub = cmd.pub /\ cmd'.given = cmd.given
        /\ cmd'.connect = cmd.connect /\ cmd'.host = n /\ cmd'.peers = cmd.peers /\ cmd'.entry = entry
    BY <2>4 DEF RouteInv, CourseInv, Fields
  <2>6. next = "connect" => entry.pub \in World /\ n \in RouteHosts
    BY <1>1, <2>1, <2>2, <2>3, RosterIsPublic DEF RouteInv, TellsPublic, Rows
  <2>7. next = "publish" => entry \in World
    BY <1>1, <2>1, <2>2, <2>3 DEF RouteInv, TellsPublic, Rows
  <2>8. CourseInv' /\ TellsPublic'
    BY <1>1, <2>2, <2>5, <2>6, <2>7 DEF RouteInv, CourseInv, TellsPublic
  <2>9. FlagInv'
    BY <1>1, <2>2, <2>5 DEF RouteInv, FlagInv, CourseInv
  <2>10. AllowInv'
    BY <1>1, <2>2, <2>5 DEF RouteInv, AllowInv, Whole
  <2>11. QED
    BY <2>8, <2>9, <2>10 DEF RouteInv
<1>4. QED
  BY <1>2, <1>3 DEF Pick

LEMMA ReadSteps == ASSUME RouteInv, ReadHost PROVE RouteInv'
<1>1. cmd.phase = "resolve" /\ UNCHANGED <<declared, override, reached, allow, since, published>>
  BY DEF ReadHost
<1>2. CASE Fail
  BY <1>1, <1>2, FailSteps
<1>3. CASE /\ cmd.host \in DOMAIN declared
           /\ cmd' = [cmd EXCEPT !.phase = "connect", !.entry = declared[cmd.host]]
  <2>1. /\ DOMAIN cmd' = DOMAIN cmd /\ cmd'.phase = "connect" /\ cmd'.exit = cmd.exit
        /\ cmd'.kind = cmd.kind /\ cmd'.pub = cmd.pub /\ cmd'.given = cmd.given
        /\ cmd'.connect = cmd.connect /\ cmd'.host = cmd.host /\ cmd'.peers = cmd.peers
        /\ cmd'.entry = declared[cmd.host]
    BY <1>3 DEF RouteInv, CourseInv, Fields
  <2>2. cmd.host \in RouteHosts /\ declared[cmd.host].pub \in World
    BY <1>3, RosterIsPublic DEF RouteInv, CourseInv
  <2>3. CourseInv' /\ TellsPublic'
    BY <1>1, <2>1, <2>2 DEF RouteInv, CourseInv, TellsPublic
  <2>4. FlagInv'
    BY <1>1, <2>1 DEF RouteInv, FlagInv, CourseInv
  <2>5. AllowInv'
    BY <1>1, <2>1 DEF RouteInv, AllowInv, Whole
  <2>6. QED
    BY <2>3, <2>4, <2>5 DEF RouteInv
<1>4. CASE /\ cmd.host \in DOMAIN Bundled
           /\ cmd' = [cmd EXCEPT !.phase = "peers", !.connect = Bundled[cmd.host], !.pub = Bundled[cmd.host]]
  <2>1. /\ DOMAIN cmd' = DOMAIN cmd /\ cmd'.phase = "peers" /\ cmd'.exit = cmd.exit
        /\ cmd'.kind = cmd.kind /\ cmd'.pub = Bundled[cmd.host] /\ cmd'.given = cmd.given
        /\ cmd'.host = cmd.host /\ cmd'.peers = cmd.peers
    BY <1>4 DEF RouteInv, CourseInv, Fields
  <2>2. cmd.host \in RouteHosts /\ Bundled[cmd.host] \in World
    BY <1>4, BundleIsPublic
  <2>3. CourseInv' /\ TellsPublic'
    BY <1>1, <2>1, <2>2 DEF RouteInv, CourseInv, TellsPublic
  <2>4. FlagInv'
    BY <1>1, <2>1 DEF RouteInv, FlagInv, CourseInv
  <2>5. AllowInv'
    BY <1>1, <2>1 DEF RouteInv, AllowInv, Whole
  <2>6. QED
    BY <2>3, <2>4, <2>5 DEF RouteInv
<1>5. QED
  BY <1>2, <1>3, <1>4 DEF ReadHost

LEMMA ConnectSteps == ASSUME RouteInv, Connect PROVE RouteInv'
<1>1. cmd.phase = "connect" /\ UNCHANGED <<declared, override, allow, since, published>>
  BY DEF Connect
<1> DEFINE at == InventoryHost(cmd.entry)
<1>2. at.pub = cmd.entry.pub /\ at.connect = Resolve(cmd.entry)
  BY DEF InventoryHost, PublicAddress
<1>3. CASE Fail /\ UNCHANGED reached
  BY <1>1, <1>3, FailSteps
<1>4. CASE /\ reached' = (reached \/ override # 0)
           /\ cmd' = [cmd EXCEPT !.connect = at.connect, !.pub = at.pub,
                         !.phase = IF cmd.kind = "play" THEN "peers" ELSE "finish",
                         !.exit = IF cmd.kind = "play" THEN @ ELSE "ok"]
  <2>1. cmd' = [cmd EXCEPT !.connect = Resolve(cmd.entry), !.pub = cmd.entry.pub,
                   !.phase = IF cmd.kind = "play" THEN "peers" ELSE "finish",
                   !.exit = IF cmd.kind = "play" THEN cmd.exit ELSE "ok"]
    BY <1>2, <1>4
  <2> HIDE DEF at
  <2>2. /\ DOMAIN cmd' = DOMAIN cmd
        /\ cmd'.phase = IF cmd.kind = "play" THEN "peers" ELSE "finish"
        /\ cmd'.exit = IF cmd.kind = "play" THEN cmd.exit ELSE "ok"
        /\ cmd'.kind = cmd.kind /\ cmd'.pub = cmd.entry.pub /\ cmd'.given = cmd.given
        /\ cmd'.connect = Resolve(cmd.entry) /\ cmd'.host = cmd.host /\ cmd'.peers = cmd.peers
        /\ cmd'.entry = cmd.entry
    BY <2>1 DEF RouteInv, CourseInv, Fields
  <2>3. CourseInv' /\ TellsPublic'
    BY <1>1, <2>2 DEF RouteInv, CourseInv, TellsPublic
  <2>4. cmd.kind # "publish" /\ cmd.exit = "none" /\ reached = FALSE
    BY <1>1 DEF RouteInv, CourseInv, FlagInv
  <2>5. override # 0 => Resolve(cmd.entry) = RouteOver(cmd.entry, FromSlot(override))
    BY DEF Resolve
  <2>6. reached' \in BOOLEAN /\ (reached' <=> override # 0)
    BY <1>4, <2>4
  <2>7. FlagInv'
    BY <1>1, <2>2, <2>4, <2>5, <2>6 DEF FlagInv
  <2>8. AllowInv'
    BY <1>1, <2>2 DEF RouteInv, AllowInv, Whole
  <2>9. QED
    BY <2>3, <2>7, <2>8 DEF RouteInv
<1>5. QED
  BY <1>3, <1>4 DEF Connect

LEMMA PeersSteps == ASSUME RouteInv, ReadPeers PROVE RouteInv'
<1>1. /\ cmd.phase = "peers" /\ since' = since \cup {cmd.host}
      /\ UNCHANGED <<declared, override, reached, allow, published>>
      /\ cmd' = [cmd EXCEPT !.phase = "render", !.peers = PeerAddresses(declared)]
  BY DEF ReadPeers
<1>2. /\ DOMAIN cmd' = DOMAIN cmd /\ cmd'.phase = "render" /\ cmd'.exit = cmd.exit
      /\ cmd'.kind = cmd.kind /\ cmd'.pub = cmd.pub /\ cmd'.given = cmd.given /\ cmd'.entry = cmd.entry
      /\ cmd'.connect = cmd.connect /\ cmd'.host = cmd.host /\ cmd'.peers = PeerAddresses(declared)
  BY <1>1 DEF RouteInv, CourseInv, Fields
<1>3. CourseInv' /\ TellsPublic'
  BY <1>1, <1>2 DEF RouteInv, CourseInv, TellsPublic
<1>4. FlagInv'
  BY <1>1, <1>2 DEF RouteInv, FlagInv, CourseInv
<1>5. Whole(cmd'.peers)
  BY <1>2, PeersAreWhole
<1>6. AllowInv'
  BY <1>1, <1>2, <1>5 DEF RouteInv, AllowInv, Whole
<1>7. QED
  BY <1>3, <1>4, <1>6 DEF RouteInv

LEMMA RenderSteps == ASSUME RouteInv, Render PROVE RouteInv'
<1>1. cmd.phase = "render" /\ UNCHANGED <<declared, override, reached, published, allow>>
  BY DEF Render
<1>2. CASE Fail /\ since' = since \ {cmd.host}
  BY <1>1, <1>2, FailSteps
<1>3. CASE UNCHANGED since /\ cmd' = [cmd EXCEPT !.phase = "inventory", !.peers = cmd.peers \cup Range(Listed)]
  <2>1. /\ DOMAIN cmd' = DOMAIN cmd /\ cmd'.phase = "inventory" /\ cmd'.exit = cmd.exit
        /\ cmd'.kind = cmd.kind /\ cmd'.pub = cmd.pub /\ cmd'.given = cmd.given /\ cmd'.entry = cmd.entry
        /\ cmd'.connect = cmd.connect /\ cmd'.host = cmd.host
        /\ cmd'.peers = cmd.peers \cup Range(Listed)
    BY <1>3 DEF RouteInv, CourseInv, Fields
  <2>2. CourseInv' /\ TellsPublic'
    BY <1>1, <2>1 DEF RouteInv, CourseInv, TellsPublic
  <2>3. FlagInv'
    BY <1>1, <2>1 DEF RouteInv, FlagInv, CourseInv
  <2>4. Whole(cmd.peers) => Whole(cmd'.peers)
    BY <2>1 DEF Whole
  <2>5. AllowInv'
    BY <1>1, <1>3, <2>1, <2>4 DEF RouteInv, AllowInv, Whole
  <2>6. QED
    BY <2>2, <2>3, <2>5 DEF RouteInv
<1>4. QED
  BY <1>2, <1>3 DEF Render

LEMMA RolesSteps == ASSUME RouteInv, PlayRoles PROVE RouteInv'
<1>1. /\ cmd.phase = "inventory" /\ allow' = [allow EXCEPT ![cmd.host] = cmd.peers]
      /\ UNCHANGED <<declared, override, reached, since, published>>
      /\ cmd' = [cmd EXCEPT !.phase = "finish", !.exit = "ok", !.given = Inventory(cmd)]
  BY DEF PlayRoles
<1>2. Inventory(cmd).ansible_host = cmd.connect /\ Inventory(cmd).public_address = cmd.pub
  BY DEF Inventory
<1>3. /\ DOMAIN cmd' = DOMAIN cmd /\ cmd'.phase = "finish" /\ cmd'.exit = "ok"
      /\ cmd'.kind = cmd.kind /\ cmd'.pub = cmd.pub /\ cmd'.given = Inventory(cmd) /\ cmd'.entry = cmd.entry
      /\ cmd'.connect = cmd.connect /\ cmd'.host = cmd.host /\ cmd'.peers = cmd.peers
  BY <1>1 DEF RouteInv, CourseInv, Fields
<1>4. CourseInv' /\ TellsPublic'
  BY <1>1, <1>2, <1>3 DEF RouteInv, CourseInv, TellsPublic
<1>5. FlagInv'
  BY <1>1, <1>2, <1>3 DEF RouteInv, FlagInv, CourseInv
<1>6. /\ allow' = [n \in RouteHosts |-> allow'[n]] /\ allow'[cmd.host] = cmd.peers
      /\ \A n \in RouteHosts : n # cmd.host => allow'[n] = allow[n]
      /\ \A n : n \notin RouteHosts => allow'[n] = allow[n]
  BY <1>1 DEF RouteInv, AllowInv, CourseInv
<1>7. AllowInv'
  BY <1>1, <1>3, <1>6 DEF RouteInv, AllowInv, Whole
<1>8. QED
  BY <1>4, <1>5, <1>7 DEF RouteInv

LEMMA LastSteps == ASSUME RouteInv, Publish \/ Finish \/ Declare PROVE RouteInv'
<1>1. CASE Publish
  <2>1. /\ cmd.phase = "publish" /\ published' = published \cup {cmd.entry}
        /\ UNCHANGED <<declared, override, reached, allow, since>>
        /\ cmd' = [cmd EXCEPT !.phase = "finish", !.exit = "ok", !.pub = cmd.entry]
    BY <1>1 DEF Publish
  <2>2. /\ DOMAIN cmd' = DOMAIN cmd /\ cmd'.phase = "finish" /\ cmd'.exit = "ok"
        /\ cmd'.kind = cmd.kind /\ cmd'.pub = cmd.entry /\ cmd'.given = cmd.given /\ cmd'.entry = cmd.entry
        /\ cmd'.connect = cmd.connect /\ cmd'.host = cmd.host /\ cmd'.peers = cmd.peers
    BY <2>1 DEF RouteInv, CourseInv, Fields
  <2>3. CourseInv' /\ TellsPublic'
    BY <2>1, <2>2 DEF RouteInv, CourseInv, TellsPublic
  <2>4. cmd'.kind = "publish" /\ cmd.exit = "none"
    BY <2>1, <2>2 DEF RouteInv, CourseInv
  <2>5. FlagInv'
    BY <2>1, <2>2, <2>4 DEF RouteInv, FlagInv, TellsPublic, CourseInv
  <2>6. AllowInv'
    BY <2>1, <2>2 DEF RouteInv, AllowInv, Whole
  <2>7. QED
    BY <2>3, <2>5, <2>6 DEF RouteInv
<1>2. CASE Finish
  <2>1. /\ cmd.phase = "finish" /\ UNCHANGED <<declared, override, reached, allow, since, published>>
        /\ cmd' = [cmd EXCEPT !.phase = "idle",
                      !.exit = IF cmd.exit = "ok" /\ override # 0 /\ ~reached THEN "unused" ELSE cmd.exit]
    BY <1>2 DEF Finish
  <2>2. /\ DOMAIN cmd' = DOMAIN cmd /\ cmd'.phase = "idle"
        /\ cmd'.exit = (IF cmd.exit = "ok" /\ override # 0 /\ ~reached THEN "unused" ELSE cmd.exit)
        /\ cmd'.kind = cmd.kind /\ cmd'.pub = cmd.pub /\ cmd'.given = cmd.given /\ cmd'.entry = cmd.entry
        /\ cmd'.connect = cmd.connect /\ cmd'.host = cmd.host /\ cmd'.peers = cmd.peers
    BY <2>1 DEF RouteInv, CourseInv, Fields
  <2>3. CourseInv' /\ TellsPublic'
    BY <2>1, <2>2 DEF RouteInv, CourseInv, TellsPublic
  <2>4. FlagInv'
    BY <2>1, <2>2 DEF RouteInv, FlagInv
  <2>5. AllowInv'
    BY <2>1, <2>2 DEF RouteInv, AllowInv, Whole
  <2>6. QED
    BY <2>3, <2>4, <2>5 DEF RouteInv
<1>3. CASE Declare
  <2>1. declared' \in Declared /\ since' = {} /\ UNCHANGED <<override, reached, cmd, allow, published>>
    BY <1>3 DEF Declare
  <2>2. QED
    BY <2>1 DEF RouteInv, CourseInv, TellsPublic, FlagInv, AllowInv
<1>4. QED
  BY <1>1, <1>2, <1>3

\* --via moves the route and says when it moved none, what the world is told is
\* public, and fail2ban spares every address of the roster, through picks and a
\* roster that changes under the command (resolve, ensure_override_reached_a_host,
\* public_address, peer_addresses, hosts_ignoreip_var).
THEOREM RoutesKept == RoutesInit /\ [][RoutesNext]_routeVars => []RoutesAreKept
<1>1. RouteInv /\ [RoutesNext]_routeVars => RouteInv'
  <2> SUFFICES ASSUME RouteInv, [RoutesNext]_routeVars PROVE RouteInv'
    OBVIOUS
  <2>1. CASE RoutesNext
    BY <2>1, BeginSteps, ListSteps, PickSteps, ReadSteps, ConnectSteps, PeersSteps, RenderSteps,
       RolesSteps, LastSteps DEF RoutesNext
  <2>2. CASE UNCHANGED routeVars
    BY <2>2 DEF routeVars, RouteInv, CourseInv, TellsPublic, FlagInv, AllowInv, Whole
  <2>3. QED
    BY <2>1, <2>2
<1>2. RouteInv => RoutesAreKept
  <2> SUFFICES ASSUME RouteInv PROVE RoutesAreKept
    OBVIOUS
  <2>1. FlagMovedTheRoute
    BY DEF RouteInv, FlagInv, FlagMovedTheRoute
  <2>2. PublicStaysPublic
    BY DEF RouteInv, TellsPublic, PublicStaysPublic, World
  <2>3. AllowlistIsWhole
    BY DEF RouteInv, AllowInv, AllowlistIsWhole, Whole
  <2>4. QED
    BY <2>1, <2>2, <2>3 DEF RoutesAreKept
<1>3. QED
  BY RoutesInitially, <1>1, <1>2, PTL

----------------------------------------------------------------------------
(* The zone.                                                               *)

\* An id is given once, and never the 0 that stands for no record.
ZoneInv(z, m) ==
    /\ m \in Nat
    /\ \A x \in z : {"id", "name", "a", "ip"} \subseteq DOMAIN x /\ x.id \in 1..m
    /\ \A x, y \in z : x.id = y.id => x = y

PublishedIn(z, e) == \E x \in z : x.a /\ x.name = e.name /\ x.ip = e.ip
RunFields == {"cmd", "phase", "plan", "todo", "held", "keepOn", "good", "bad", "exit", "outcome",
              "alone"}

\* A run that is alone writes to the record it found, or found none at the name.
FoundInv(r, z) ==
    r.alone /\ r.phase = "write" =>
      /\ r.held = 0 => \A x \in z : x.a => x.name # Head(r.todo).name
      /\ \A x \in z : x.id = r.held => x.a /\ x.name = Head(r.todo).name

\* What a set-all planned is still to be written, is known to have failed, or is
\* in the zone.
Accounted(r, z) ==
    \A i \in DOMAIN r.plan :
      \/ \E j \in DOMAIN r.todo : r.todo[j] = r.plan[i]
      \/ r.plan[i] \in r.bad
      \/ PublishedIn(z, r.plan[i])
PlanInv(r) ==
    /\ r.phase \in {"ask", "find", "write", "done"}
    /\ r.plan \in Seq(Planned)
    /\ \A i, j \in DOMAIN r.plan : r.plan[i].name = r.plan[j].name => r.plan[i].ip = r.plan[j].ip
    /\ r.phase = "ask" => r.plan # << >>
    /\ r.phase \in {"find", "write"} =>
         r.todo \in Seq({r.plan[i] : i \in DOMAIN r.plan}) /\ r.todo # << >>
BulkInv(r, z) ==
    r.cmd = "set-all" => PlanInv(r) /\ (r.alone /\ r.phase \in {"find", "write"} => Accounted(r, z))

RunInv(r, z) ==
    /\ RunFields \subseteq DOMAIN r
    /\ r.phase # "write" => r.held = 0
    /\ FoundInv(r, z)
    /\ BulkInv(r, z)
DnsInv ==
    /\ ZoneInv(zone, made)
    /\ run = [p \in Runs |-> run[p]]
    /\ \A p \in Runs : RunInv(run[p], zone)

\* What a run that ends tells is so, and what it plans in bulk is public.
PublicPlan(plan) == \A i \in DOMAIN plan : plan[i].name \in Public(world.config, world.metas)
Tells(r, s, z) ==
    /\ s.cmd = "set-all" => PublicPlan(s.plan) \/ (r.cmd = "set-all" /\ s.plan = r.plan)
    /\ (/\ r.phase # "done" /\ s.phase = "done" /\ s.alone
        /\ s.cmd = "set-all" /\ s.outcome = "applied" /\ s.exit = 0)
       => \A i \in DOMAIN r.plan : PublishedIn(z, r.plan[i])
RunsTell == world' = world /\ \A p \in Runs : Tells(run[p], run'[p], zone')

LEMMA DnsInitially == DnsInit => DnsInv
<1> SUFFICES ASSUME DnsInit PROVE DnsInv
  OBVIOUS
<1>1. ZoneInv(zone, made)
  <2>1. zone \in FirstZones /\ made = Cardinality(zone)
    BY DEF DnsInit
  <2>2. Cardinality(zone) \in Nat
    BY <2>1, DnsAssumption, FS_CardinalityType
  <2>3. QED
    BY <2>1, <2>2, DnsAssumption DEF ZoneInv, Record
<1>2. run = [p \in Runs |-> run[p]] /\ \A p \in Runs : run[p] = Idle
  BY DEF DnsInit
<1>3. RunInv(Idle, zone)
  BY DEF Idle, RunInv, RunFields, FoundInv, BulkInv
<1>4. QED
  BY <1>1, <1>2, <1>3 DEF DnsInv

----------------------------------------------------------------------------
(* A run and the steps of the others.                                      *)

\* Once another run wrote, a run is no longer alone, unless it has ended.
LEMMA OthersWrite ==
    ASSUME NEW r, NEW z, NEW z2, NEW sent \in BOOLEAN, RunInv(r, z), sent \/ z2 = z
    PROVE  LET s == [r EXCEPT !.alone = @ /\ (~sent \/ r.phase \in {"idle", "done"})]
           IN RunInv(s, z2) /\ Tells(r, s, z2)
<1> DEFINE s == [r EXCEPT !.alone = @ /\ (~sent \/ r.phase \in {"idle", "done"})]
<1>1. DOMAIN s = DOMAIN r /\ \A f \in RunFields \ {"alone"} : s[f] = r[f]
  BY DEF RunInv, RunFields
<1>2. /\ s.cmd = r.cmd /\ s.phase = r.phase /\ s.plan = r.plan /\ s.todo = r.todo /\ s.held = r.held
      /\ s.bad = r.bad /\ s.outcome = r.outcome
  BY <1>1 DEF RunFields
<1>3. s.alone => r.alone /\ (~sent \/ r.phase \in {"idle", "done"})
  BY DEF RunInv, RunFields
<1> HIDE DEF s
<1>4. s.alone /\ r.phase \in {"find", "write"} => r.alone /\ z2 = z
  BY <1>3
<1>5. FoundInv(s, z2)
  BY <1>2, <1>4 DEF FoundInv, RunInv
<1>6. BulkInv(s, z2)
  BY <1>2, <1>4 DEF BulkInv, PlanInv, Accounted, PublishedIn, RunInv
<1>7. RunInv(s, z2)
  BY <1>1, <1>2, <1>5, <1>6 DEF RunInv
<1>8. Tells(r, s, z2)
  BY <1>2 DEF Tells
<1>9. QED
  BY <1>7, <1>8 DEF s

LEMMA RunStays == ASSUME NEW r, NEW z PROVE Tells(r, r, z)
BY DEF Tells

\* A step of p that leaves the zone and the other runs alone.
LEMMA Alone ==
    ASSUME DnsInv, NEW p \in Runs, NEW s, run' = [run EXCEPT ![p] = s], UNCHANGED <<world, zone, made>>,
           RunInv(s, zone), Tells(run[p], s, zone)
    PROVE  DnsInv' /\ RunsTell
<1>1. \A q \in Runs : run'[q] = IF q = p THEN s ELSE run[q]
  BY DEF DnsInv
<1>2. run' = [q \in Runs |-> run'[q]]
  BY DEF DnsInv
<1>3. \A q \in Runs : RunInv(run'[q], zone')
  BY <1>1 DEF DnsInv
<1>4. RunsTell
  BY <1>1, RunStays DEF RunsTell
<1>5. ZoneInv(zone', made')
  BY DEF DnsInv
<1>6. QED
  BY <1>2, <1>3, <1>4, <1>5 DEF DnsInv

----------------------------------------------------------------------------
(* Induction and recursion up to a number.                                 *)

LEMMA LeastNatural ==
    ASSUME NEW T, T \subseteq Nat, T # {}
    PROVE  \E m \in T : \A k \in T : m <= k
<1>1. IsWellFoundedOn(OpToRel(<, Nat), Nat)
  BY NatLessThanWellFounded
<1>2. PICK m \in T : \A k \in T : <<k, m>> \notin OpToRel(<, Nat)
  BY <1>1, WFMin
<1>3. \A k \in T : ~(k < m)
  BY <1>2 DEF OpToRel
<1>4. \A k \in T : m <= k
  BY <1>3
<1>5. QED
  BY <1>4

\* Induction up to N, with the property as the set of those that have it.
LEMMA UpToN ==
    ASSUME NEW N \in Nat, NEW T, 0 \in T, \A n \in 1 .. N : n - 1 \in T => n \in T
    PROVE  0 .. N \subseteq T
<1> DEFINE Out == (0 .. N) \ T
<1>1. SUFFICES ASSUME Out # {} PROVE FALSE
  OBVIOUS
<1>2. PICK m \in Out : \A k \in Out : m <= k
  <2>1. Out \subseteq Nat
    OBVIOUS
  <2> HIDE DEF Out
  <2>2. QED
    BY <1>1, <2>1, LeastNatural
<1>3. m \in 1 .. N /\ m - 1 \in 0 .. N /\ ~(m <= m - 1)
  BY <1>2
<1>4. QED
  BY <1>2, <1>3

\* What a recursion on 0 .. N defines: its move is a function of the index and
\* of the value before.
Unfolds(f, v, move, N) == f[0] = v /\ \A n \in 1 .. N : f[n] = move[n][f[n - 1]]
Moves(N, V) == [1 .. N -> [V -> V]]
Values(N, V) == [0 .. N -> V]
LEMMA Recursion ==
    ASSUME NEW N \in Nat, NEW V, NEW v \in V, NEW move \in Moves(N, V)
    PROVE  \E f \in Values(N, V) : Unfolds(f, v, move, N)
<1> USE DEF Unfolds, Moves, Values
<1> DEFINE Def(f, n) == f[0] = v /\ \A i \in 1 .. n : f[i] = move[i][f[i - 1]]
           T == {n \in 0 .. N : \E f \in [0 .. n -> V] : Def(f, n)}
<1>1. 0 \in T
  <2>1. [i \in 0 .. 0 |-> v] \in [0 .. 0 -> V] /\ Def([i \in 0 .. 0 |-> v], 0)
    OBVIOUS
  <2> HIDE DEF Def
  <2>2. \E f \in [0 .. 0 -> V] : Def(f, 0)
    BY <2>1
  <2>3. QED
    BY <2>2
<1>2. ASSUME NEW n \in 1 .. N, n - 1 \in T PROVE n \in T
  <2>1. PICK f \in [0 .. n - 1 -> V] : Def(f, n - 1)
    BY <1>2
  <2> DEFINE g == [i \in 0 .. n |-> IF i = n THEN move[n][f[n - 1]] ELSE f[i]]
  <2>2. g \in [0 .. n -> V]
    BY <2>1
  <2>3. ASSUME NEW i \in 1 .. n PROVE g[i] = move[i][g[i - 1]]
    <3>1. g[i - 1] = f[i - 1]
      OBVIOUS
    <3>2. CASE i = n
      BY <3>1, <3>2
    <3>3. CASE i # n
      <4>1. i \in 1 .. n - 1 /\ g[i] = f[i]
        BY <3>3
      <4>2. QED
        BY <2>1, <3>1, <4>1
    <3>4. QED
      BY <3>2, <3>3
  <2>4. g[0] = v
    BY <2>1
  <2>5. Def(g, n)
    BY <2>3, <2>4
  <2> HIDE DEF Def, g
  <2>6. \E h \in [0 .. n -> V] : Def(h, n)
    BY <2>2, <2>5
  <2>7. QED
    BY <2>6
<1>3. N \in T
  <2> HIDE DEF T
  <2>1. 0 .. N \subseteq T
    BY <1>1, <1>2, UpToN
  <2>2. QED
    BY <2>1
<1>4. QED
  BY <1>3

\* What is kept of a sequence is of it, and chosen.
LEMMA KeptIs ==
    ASSUME NEW R, NEW s \in Seq(R), NEW these
    PROVE  Kept(s, these) \in Seq(R \cap these)
<1> DEFINE N == Len(s)
           V == Seq(R \cap these)
           Next(n, t) == IF s[n] \in these THEN Append(t, s[n]) ELSE t
           turn == [n \in 1 .. N |-> [t \in V |-> Next(n, t)]]
           IsIt(f) == f = [n \in 0 .. N |-> IF n = 0 THEN << >> ELSE Next(n, f[n - 1])]
           it == CHOOSE h : IsIt(h)
<1>1. N \in Nat /\ << >> \in V /\ \A n \in 1 .. N : s[n] \in R
  OBVIOUS
<1>2. turn \in Moves(N, V)
  <2>1. ASSUME NEW n \in 1 .. N, NEW t \in V PROVE Next(n, t) \in V
    <3>1. CASE s[n] \in these
      <4>1. s[n] \in R \cap these
        BY <1>1, <3>1
      <4>2. QED
        BY <3>1, <4>1
    <3>2. CASE s[n] \notin these
      BY <3>2
    <3>3. QED
      BY <3>1, <3>2
  <2> HIDE DEF Next, V, N
  <2>2. QED
    BY <2>1 DEF Moves
<1>3. PICK f \in [0 .. N -> V] : f[0] = << >> /\ \A n \in 1 .. N : f[n] = turn[n][f[n - 1]]
  <2> DEFINE v == << >>
  <2> HIDE DEF V, turn, N, it, IsIt, v
  <2>1. v \in V
    BY <1>1 DEF v
  <2>2. \E f \in Values(N, V) : Unfolds(f, v, turn, N)
    BY <1>1, <1>2, <2>1, Recursion
  <2>3. QED
    BY <2>2 DEF Unfolds, Values, v
<1> HIDE DEF Next
<1>4. ASSUME NEW n \in 1 .. N PROVE f[n] = Next(n, f[n - 1])
  <2> HIDE DEF V, N
  <2>1. n - 1 \in 0 .. N
    BY <1>1
  <2>2. f[n - 1] \in V /\ f[n] = turn[n][f[n - 1]]
    BY <1>3, <2>1
  <2>3. QED
    BY <2>2
<1>5. IsIt(f)
  <2> HIDE DEF V
  <2>1. \A n \in 0 .. N : n # 0 => n \in 1 .. N
    BY <1>1
  <2>2. \A n \in 0 .. N : f[n] = IF n = 0 THEN << >> ELSE Next(n, f[n - 1])
    BY <1>3, <1>4, <2>1
  <2>3. QED
    BY <1>3, <2>2
<1>6. IsIt(it)
  BY <1>5
<1>7. Kept(s, these) = it[N]
  BY DEF Kept, Next
<1> HIDE DEF it
<1> DEFINE T == {n \in 0 .. N : it[n] \in V}
<1>8. it[0] = << >> /\ \A n \in 1 .. N : it[n] = Next(n, it[n - 1])
  <2> HIDE DEF V, N
  <2>1. 0 \in 0 .. N /\ \A n \in 1 .. N : n \in 0 .. N /\ n # 0
    BY <1>1
  <2>2. QED
    BY <1>6, <2>1
<1> HIDE DEF V, N
<1>9. 0 \in T
  BY <1>1, <1>8
<1>10. ASSUME NEW n \in 1 .. N, n - 1 \in T PROVE n \in T
  <2>1. it[n - 1] \in V
    BY <1>10
  <2>2. Next(n, it[n - 1]) = turn[n][it[n - 1]] /\ turn[n][it[n - 1]] \in V
    BY <1>2, <2>1 DEF Moves
  <2>3. n \in 0 .. N
    BY <1>1
  <2>4. QED
    BY <1>8, <2>2, <2>3
<1>11. N \in T
  <2> HIDE DEF T
  <2>1. 0 .. N \subseteq T
    BY <1>1, <1>9, <1>10, UpToN
  <2>2. QED
    BY <1>1, <2>1
<1>12. QED
  BY <1>7, <1>11 DEF V

----------------------------------------------------------------------------
(* The start of a run.                                                     *)

LEMMA BeganStays ==
    ASSUME DnsInv, NEW p \in Runs, NEW r, Began(p, r), RunFields \subseteq DOMAIN r,
           r.held = 0, r.phase # "write", r.outcome # "applied",
           r.cmd = "set-all" => PlanInv(r) /\ r.phase \notin {"find", "write"} /\ PublicPlan(r.plan)
    PROVE  DnsInv' /\ RunsTell
<1> DEFINE s == [r EXCEPT !.alone = \A q \in Runs \ {p} : run[q].phase \in {"idle", "done"}]
<1>1. run' = [run EXCEPT ![p] = s] /\ UNCHANGED <<world, zone, made>>
  BY DEF Began
<1>2. DOMAIN s = DOMAIN r /\ \A f \in RunFields \ {"alone"} : s[f] = r[f]
  BY DEF RunFields
<1>3. /\ s.cmd = r.cmd /\ s.phase = r.phase /\ s.plan = r.plan /\ s.todo = r.todo /\ s.held = r.held
      /\ s.bad = r.bad /\ s.outcome = r.outcome
  BY <1>2 DEF RunFields
<1> HIDE DEF s
<1>4. FoundInv(s, zone) /\ BulkInv(s, zone)
  BY <1>3 DEF FoundInv, BulkInv, PlanInv
<1>5. RunInv(s, zone)
  BY <1>2, <1>3, <1>4 DEF RunInv
<1>6. Tells(run[p], s, zone)
  BY <1>3 DEF Tells
<1>7. QED
  BY <1>1, <1>5, <1>6, Alone

LEMMA NothingPlanned == ASSUME NEW r, r.phase = "done", r.plan = << >> PROVE PlanInv(r) /\ PublicPlan(r.plan)
<1>1. << >> \in Seq(Planned) /\ DOMAIN << >> = {}
  OBVIOUS
<1>2. QED
  BY <1>1 DEF PlanInv, PublicPlan

LEMMA UnconnectedSteps == ASSUME DnsInv, NEW p \in Runs, Unconnected(p) PROVE DnsInv' /\ RunsTell
<1>1. PICK com \in Commands :
        run' = [run EXCEPT ![p] = Failed([Idle EXCEPT !.cmd = com], IF com = "set-all" THEN 2 ELSE 1)]
  BY DEF Unconnected
<1> DEFINE s == Failed([Idle EXCEPT !.cmd = com], IF com = "set-all" THEN 2 ELSE 1)
<1>2. /\ RunFields \subseteq DOMAIN s
      /\ s.phase = "done" /\ s.held = 0 /\ s.outcome = "" /\ s.plan = << >>
  BY DEF Failed, Idle, RunFields
<1>3. run' = [run EXCEPT ![p] = s]
  BY <1>1
<1> HIDE DEF s
<1>4. RunInv(s, zone)
  BY <1>2, NothingPlanned DEF RunInv, FoundInv, BulkInv
<1>5. Tells(run[p], s, zone)
  BY <1>2, NothingPlanned DEF Tells
<1>6. QED
  BY <1>3, <1>4, <1>5, Alone DEF Unconnected

\* What is planned is public, at one address a name.
LEMMA PlanIsPublic ==
    ASSUME NEW picked \in SUBSET Apps, NEW target \in Targets
    PROVE  /\ PlanOf(picked, target) \in Seq(Planned)
           /\ \A i, j \in DOMAIN PlanOf(picked, target) :
                PlanOf(picked, target)[i].name = PlanOf(picked, target)[j].name
                => PlanOf(picked, target)[i].ip = PlanOf(picked, target)[j].ip
           /\ \A i \in DOMAIN PlanOf(picked, target) : PlanOf(picked, target)[i].name \in picked
<1> DEFINE apps == InOrder(picked)
           plan == PlanOf(picked, target)
<1>1. apps \in Seq(picked)
  <2>1. apps \in Seq(Apps \cap picked)
    BY DnsAssumption, KeptIs DEF InOrder
  <2>2. Apps \cap picked = picked
    OBVIOUS
  <2>3. QED
    BY <2>1, <2>2
<1>2. plan = [i \in DOMAIN apps |-> [name |-> apps[i], ip |-> AddressOf(apps[i], target), id |-> 0]]
  BY DEF PlanOf
<1> HIDE DEF plan, apps
<1>3. \A app : AddressOf(app, target) \in Targets \cup {Tailnet}
  BY DEF AddressOf
<1>4. \A i \in 1..Len(apps) : plan[i] \in Planned /\ apps[i] \in picked
  BY <1>1, <1>2, <1>3, DnsAssumption DEF Planned
<1>5. Len(apps) \in Nat /\ plan = [i \in 1..Len(apps) |-> plan[i]]
  BY <1>1, <1>2
<1>6. plan \in Seq(Planned)
  BY <1>4, <1>5, SeqDef
<1>7. \A i \in DOMAIN plan : plan[i].name = apps[i] /\ plan[i].ip = AddressOf(apps[i], target)
  BY <1>2
<1>8. QED
  BY <1>4, <1>5, <1>6, <1>7 DEF plan

LEMMA SetAllSteps == ASSUME DnsInv, NEW p \in Runs, SetAll(p) PROVE DnsInv' /\ RunsTell
<1>1. PICK target \in Targets, choice \in Selections, keepOn \in BOOLEAN, dry \in BOOLEAN :
        LET start == [Idle EXCEPT !.cmd = "set-all", !.keepOn = keepOn]
            plan == PlanOf(Selected(choice.named, choice.skip), target)
        IN Began(p, IF Offended(choice.named \ choice.skip) THEN Failed(start, 2)
                    ELSE IF plan = <<>> \/ dry
                    THEN [start EXCEPT !.phase = "done", !.exit = 0, !.outcome = "nothing"]
                    ELSE [start EXCEPT !.phase = "ask", !.plan = plan])
  BY DEF SetAll
<1> DEFINE start == [Idle EXCEPT !.cmd = "set-all", !.keepOn = keepOn]
           plan == PlanOf(Selected(choice.named, choice.skip), target)
           ends == [start EXCEPT !.phase = "done", !.exit = 0, !.outcome = "nothing"]
           asks == [start EXCEPT !.phase = "ask", !.plan = plan]
<1>2. Selected(choice.named, choice.skip) \in SUBSET Apps
  BY DEF Selected, Public
<1>3. /\ plan \in Seq(Planned)
      /\ \A i, j \in DOMAIN plan : plan[i].name = plan[j].name => plan[i].ip = plan[j].ip
  BY <1>2, PlanIsPublic
<1>9. PublicPlan(plan)
  BY <1>2, PlanIsPublic DEF PublicPlan, Selected
<1>4. \/ Began(p, Failed(start, 2))
      \/ Began(p, ends)
      \/ plan # << >> /\ Began(p, asks)
  BY <1>1
<1> HIDE DEF plan
<1>5. CASE Began(p, Failed(start, 2))
  <2>1. LET r == Failed(start, 2) IN
          /\ RunFields \subseteq DOMAIN r
          /\ r.phase = "done" /\ r.held = 0 /\ r.outcome = "" /\ r.plan = << >>
    BY DEF Failed, Idle, RunFields
  <2>2. QED
    BY <1>5, <2>1, NothingPlanned, BeganStays
<1>6. CASE Began(p, ends)
  <2>1. /\ RunFields \subseteq DOMAIN ends
        /\ ends.phase = "done" /\ ends.held = 0 /\ ends.outcome = "nothing" /\ ends.plan = << >>
    BY DEF Idle, RunFields
  <2> HIDE DEF ends
  <2>2. QED
    BY <1>6, <2>1, NothingPlanned, BeganStays
<1>7. CASE plan # << >> /\ Began(p, asks)
  <2>1. /\ RunFields \subseteq DOMAIN asks
        /\ asks.phase = "ask" /\ asks.held = 0 /\ asks.outcome = "" /\ asks.plan = plan
    BY DEF Idle, RunFields
  <2> HIDE DEF asks
  <2>2. PlanInv(asks)
    BY <1>3, <1>7, <2>1 DEF PlanInv
  <2>3. QED
    BY <1>7, <1>9, <2>1, <2>2, BeganStays
<1>8. QED
  BY <1>4, <1>5, <1>6, <1>7

LEMMA OtherStarts ==
    ASSUME DnsInv, NEW p \in Runs, SetOne(p) \/ Delete(p) \/ Migrate(p) \/ Status(p)
    PROVE  DnsInv' /\ RunsTell
<1>1. ASSUME SetOne(p) PROVE DnsInv' /\ RunsTell
  <2>1. PICK plan : Began(p, [Idle EXCEPT !.cmd = "set", !.phase = "find", !.plan = plan, !.todo = plan])
    BY <1>1 DEF SetOne
  <2> DEFINE r == [Idle EXCEPT !.cmd = "set", !.phase = "find", !.plan = plan, !.todo = plan]
  <2>2. /\ RunFields \subseteq DOMAIN r
        /\ r.phase = "find" /\ r.held = 0 /\ r.outcome = "" /\ r.cmd = "set"
    BY DEF Idle, RunFields
  <2> HIDE DEF r
  <2>3. Began(p, r)
    BY <2>1 DEF r
  <2>4. QED
    BY <2>2, <2>3, BeganStays
<1>2. ASSUME Delete(p) PROVE DnsInv' /\ RunsTell
  <2>1. PICK name \in Apps, dry \in BOOLEAN :
          LET start == [Idle EXCEPT !.cmd = "delete",
                                    !.plan = <<[name |-> name, ip |-> Tailnet, id |-> 0]>>]
          IN Began(p, IF dry THEN [start EXCEPT !.phase = "done", !.exit = 0, !.outcome = "nothing"]
                      ELSE [start EXCEPT !.phase = "ask"])
    BY <1>2 DEF Delete
  <2> DEFINE start == [Idle EXCEPT !.cmd = "delete", !.plan = <<[name |-> name, ip |-> Tailnet, id |-> 0]>>]
             r == IF dry THEN [start EXCEPT !.phase = "done", !.exit = 0, !.outcome = "nothing"]
                  ELSE [start EXCEPT !.phase = "ask"]
  <2>2. /\ RunFields \subseteq DOMAIN r
        /\ r.phase # "write" /\ r.held = 0 /\ r.outcome \in {"", "nothing"} /\ r.cmd = "delete"
    BY DEF Idle, RunFields
  <2>3. Began(p, r)
    BY <2>1
  <2> HIDE DEF r
  <2>4. QED
    BY <2>2, <2>3, BeganStays
<1>3. ASSUME Migrate(p) PROVE DnsInv' /\ RunsTell
  <2>1. PICK plan : Began(p, [Idle EXCEPT !.cmd = "migrate", !.phase = "list", !.plan = plan])
    BY <1>3 DEF Migrate
  <2> DEFINE r == [Idle EXCEPT !.cmd = "migrate", !.phase = "list", !.plan = plan]
  <2>2. /\ RunFields \subseteq DOMAIN r
        /\ r.phase = "list" /\ r.held = 0 /\ r.outcome = "" /\ r.cmd = "migrate"
    BY DEF Idle, RunFields
  <2> HIDE DEF r
  <2>3. Began(p, r)
    BY <2>1 DEF r
  <2>4. QED
    BY <2>2, <2>3, BeganStays
<1>4. ASSUME Status(p) PROVE DnsInv' /\ RunsTell
  <2> DEFINE r == [Idle EXCEPT !.cmd = "status", !.phase = "done", !.exit = 0,
                     !.outcome = "reported"]
  <2>1. /\ RunFields \subseteq DOMAIN r
        /\ r.phase = "done" /\ r.held = 0 /\ r.outcome = "reported" /\ r.cmd = "status"
    BY DEF Idle, RunFields
  <2>2. Began(p, r)
    BY <1>4 DEF Status
  <2> HIDE DEF r
  <2>3. QED
    BY <2>1, <2>2, BeganStays
<1>5. QED
  BY <1>1, <1>2, <1>3, <1>4

LEMMA AnswerSteps == ASSUME DnsInv, NEW p \in Runs, Answer(p) PROVE DnsInv' /\ RunsTell
<1> DEFINE r == run[p]
           goes == [r EXCEPT !.phase = "find", !.todo = r.plan]
           ends == [r EXCEPT !.phase = "done", !.exit = 0, !.outcome = "cancelled"]
<1>1. RunInv(r, zone) /\ r.phase = "ask" /\ UNCHANGED <<world, zone, made>>
  BY DEF DnsInv, Answer
<1>2. run' = [run EXCEPT ![p] = goes] \/ run' = [run EXCEPT ![p] = ends]
  BY DEF Answer, DnsInv
<1>3. CASE run' = [run EXCEPT ![p] = goes]
  <2>1. /\ RunFields \subseteq DOMAIN goes
        /\ goes.phase = "find" /\ goes.held = 0 /\ goes.cmd = r.cmd /\ goes.outcome = r.outcome
        /\ goes.plan = r.plan /\ goes.todo = r.plan
    BY <1>1 DEF RunInv, RunFields
  <2> HIDE DEF goes, r
  <2>2. r.cmd = "set-all" => PlanInv(goes) /\ Accounted(goes, zone)
    <3> SUFFICES ASSUME r.cmd = "set-all" PROVE PlanInv(goes) /\ Accounted(goes, zone)
      OBVIOUS
    <3>1. PlanInv(r)
      BY <1>1 DEF RunInv, BulkInv
    <3>2. r.plan \in Seq({r.plan[i] : i \in DOMAIN r.plan}) /\ r.plan # << >>
      BY <1>1, <3>1 DEF PlanInv
    <3>3. QED
      BY <2>1, <3>1, <3>2 DEF PlanInv, Accounted
  <2>3. RunInv(goes, zone)
    BY <2>1, <2>2 DEF RunInv, FoundInv, BulkInv
  <2>4. Tells(r, goes, zone)
    BY <2>1 DEF Tells
  <2>5. QED
    BY <1>1, <1>3, <2>3, <2>4, Alone DEF r
<1>4. CASE run' = [run EXCEPT ![p] = ends]
  <2>1. /\ RunFields \subseteq DOMAIN ends
        /\ ends.phase = "done" /\ ends.held = 0 /\ ends.cmd = r.cmd /\ ends.outcome = "cancelled"
        /\ ends.plan = r.plan
    BY <1>1 DEF RunInv, RunFields
  <2> HIDE DEF ends, r
  <2>2. RunInv(ends, zone)
    BY <1>1, <2>1 DEF RunInv, FoundInv, BulkInv, PlanInv
  <2>3. Tells(r, ends, zone)
    BY <2>1 DEF Tells
  <2>4. QED
    BY <1>1, <1>4, <2>2, <2>3, Alone DEF r
<1>5. QED
  BY <1>2, <1>3, <1>4

\* What the end of a run, and the end of one of its writes, leaves of it.
LEMMA FinishedTells ==
    ASSUME NEW r, RunFields \subseteq DOMAIN r
    PROVE  LET s == Finished(r) IN
           /\ RunFields \subseteq DOMAIN s
           /\ s.phase = "done" /\ s.held = 0 /\ s.outcome = "applied"
           /\ s.cmd = r.cmd /\ s.plan = r.plan /\ s.todo = r.todo /\ s.bad = r.bad /\ s.alone = r.alone
           /\ s.cmd = "set-all" => s.exit = IF r.bad = {} THEN 0 ELSE 1
<1> DEFINE code == CASE r.cmd = "set-all" -> SetAllExit(r)
                     [] r.cmd = "migrate" -> 0
                     [] OTHER -> IF r.bad = {} THEN 0 ELSE 1
<1>1. r.cmd = "set-all" => code = IF r.bad = {} THEN 0 ELSE 1
  BY DEF SetAllExit
<1>2. Finished(r) = [r EXCEPT !.phase = "done", !.outcome = "applied", !.held = 0, !.exit = code]
  BY DEF Finished
<1> HIDE DEF code
<1>3. QED
  BY <1>1, <1>2 DEF RunFields

LEMMA AfterTells ==
    ASSUME NEW r, NEW ok \in BOOLEAN, RunFields \subseteq DOMAIN r
    PROVE  LET s == After(r, ok) IN
           /\ RunFields \subseteq DOMAIN s
           /\ s.phase \in {"find", "done"} /\ s.held = 0
           /\ s.cmd = r.cmd /\ s.plan = r.plan /\ s.todo = Tail(r.todo) /\ s.alone = r.alone
           /\ s.bad = IF ok THEN r.bad ELSE r.bad \cup {Head(r.todo)}
           /\ s.outcome \in {r.outcome, "applied"}
           /\ s.phase = "find" => s.todo # << >>
           /\ s.phase = "done" /\ ok => s.todo = << >>
           /\ s.phase = "done" /\ s.cmd = "set-all" => s.exit = IF s.bad = {} THEN 0 ELSE 1
<1> DEFINE done == Head(r.todo)
           kept == [r EXCEPT !.todo = Tail(r.todo), !.held = 0, !.phase = "find",
                             !.good = IF ok THEN @ \cup {done} ELSE @,
                             !.bad = IF ok THEN @ ELSE @ \cup {done}]
<1>1. /\ RunFields \subseteq DOMAIN kept
      /\ kept.phase = "find" /\ kept.held = 0 /\ kept.outcome = r.outcome /\ kept.cmd = r.cmd
      /\ kept.plan = r.plan /\ kept.todo = Tail(r.todo) /\ kept.alone = r.alone
      /\ kept.bad = IF ok THEN r.bad ELSE r.bad \cup {done}
  BY DEF RunFields
<1>2. After(r, ok) = IF kept.todo = <<>> \/ (~ok /\ r.cmd # "migrate" /\ ~r.keepOn)
                     THEN Finished(kept) ELSE kept
  BY DEF After
<1> HIDE DEF kept
<1>3. CASE kept.todo = <<>> \/ (~ok /\ r.cmd # "migrate" /\ ~r.keepOn)
  <2> DEFINE s == Finished(kept)
  <2>1. After(r, ok) = s
    BY <1>2, <1>3
  <2>2. /\ RunFields \subseteq DOMAIN s
        /\ s.phase = "done" /\ s.held = 0 /\ s.outcome = "applied"
        /\ s.cmd = kept.cmd /\ s.plan = kept.plan /\ s.todo = kept.todo /\ s.bad = kept.bad
        /\ s.alone = kept.alone
        /\ s.cmd = "set-all" => s.exit = IF kept.bad = {} THEN 0 ELSE 1
    BY <1>1, FinishedTells
  <2> HIDE DEF s
  <2>3. ok => s.todo = << >>
    BY <1>1, <1>3, <2>2
  <2>4. QED
    BY <1>1, <2>1, <2>2, <2>3
<1>4. CASE ~(kept.todo = <<>> \/ (~ok /\ r.cmd # "migrate" /\ ~r.keepOn))
  BY <1>1, <1>2, <1>4
<1>5. QED
  BY <1>3, <1>4

LEMMA ListingSteps ==  ASSUME DnsInv, NEW p \in Runs, List(p) PROVE DnsInv' /\ RunsTell
<1> DEFINE r == run[p]
<1>1. RunInv(r, zone) /\ r.phase = "list" /\ UNCHANGED <<world, zone, made>>
  BY DEF DnsInv, List
<1>2. PICK plan : run' = [run EXCEPT ![p] =
                    IF plan = <<>> THEN Finished([@ EXCEPT !.plan = <<>>])
                    ELSE [@ EXCEPT !.plan = plan, !.todo = plan, !.phase = "find"]]
  BY DEF List
<1> DEFINE none == [r EXCEPT !.plan = <<>>]
           goes == [r EXCEPT !.plan = plan, !.todo = plan, !.phase = "find"]
<1>3. run' = [run EXCEPT ![p] = Finished(none)] \/ run' = [run EXCEPT ![p] = goes]
  BY <1>2 DEF DnsInv
<1>4. r.cmd # "set-all"
  BY <1>1 DEF RunInv, BulkInv, PlanInv
<1>5. /\ RunFields \subseteq DOMAIN none /\ none.cmd = r.cmd
      /\ RunFields \subseteq DOMAIN goes /\ goes.cmd = r.cmd
      /\ goes.phase = "find" /\ goes.held = 0 /\ goes.outcome = r.outcome
  BY <1>1 DEF RunInv, RunFields
<1> HIDE DEF none, goes, r
<1>6. CASE run' = [run EXCEPT ![p] = Finished(none)]
  <2>1. RunInv(Finished(none), zone) /\ Tells(r, Finished(none), zone)
    BY <1>4, <1>5, FinishedTells DEF RunInv, FoundInv, BulkInv, Tells
  <2>2. QED
    BY <1>1, <1>6, <2>1, Alone DEF r
<1>7. CASE run' = [run EXCEPT ![p] = goes]
  <2>1. RunInv(goes, zone) /\ Tells(r, goes, zone)
    BY <1>4, <1>5 DEF RunInv, FoundInv, BulkInv, Tells
  <2>2. QED
    BY <1>1, <1>7, <2>1, Alone DEF r
<1>8. QED
  BY <1>3, <1>6, <1>7

\* After a write, a set-all accounts for what is left of its plan; and if it ended
\* with nothing bad, the whole of it is in the zone.
LEMMA AfterStays ==
    ASSUME NEW r, NEW z, NEW z2, NEW ok \in BOOLEAN, RunInv(r, z), r.phase \in {"find", "write"},
           r.alone /\ r.cmd = "set-all" =>
             /\ ok => PublishedIn(z2, Head(r.todo))
             /\ \A i \in DOMAIN r.plan : PublishedIn(z, r.plan[i]) => PublishedIn(z2, r.plan[i])
    PROVE  RunInv(After(r, ok), z2) /\ Tells(r, After(r, ok), z2)
<1> DEFINE s == After(r, ok)
           all == {r.plan[i] : i \in DOMAIN r.plan}
<1>1. /\ RunFields \subseteq DOMAIN s
      /\ s.phase \in {"find", "done"} /\ s.held = 0
      /\ s.cmd = r.cmd /\ s.plan = r.plan /\ s.todo = Tail(r.todo) /\ s.alone = r.alone
      /\ s.bad = IF ok THEN r.bad ELSE r.bad \cup {Head(r.todo)}
      /\ s.outcome \in {r.outcome, "applied"}
      /\ s.phase = "find" => s.todo # << >>
      /\ s.phase = "done" /\ ok => s.todo = << >>
      /\ s.phase = "done" /\ s.cmd = "set-all" => s.exit = IF s.bad = {} THEN 0 ELSE 1
  BY AfterTells DEF RunInv
<1> HIDE DEF s
<1>2. r.cmd = "set-all" => r.todo \in Seq(all) /\ r.todo # << >> /\ PlanInv(r)
  BY DEF RunInv, BulkInv, PlanInv
<1>3. r.cmd = "set-all" => s.todo \in Seq(all) /\ PlanInv(s)
  BY <1>1, <1>2 DEF PlanInv
<1>4. ASSUME r.cmd = "set-all", r.alone PROVE Accounted(s, z2)
  <2>1. Accounted(r, z)
    BY <1>4 DEF RunInv, BulkInv
  <2> SUFFICES ASSUME NEW i \in DOMAIN r.plan
               PROVE  \/ \E j \in DOMAIN s.todo : s.todo[j] = r.plan[i]
                      \/ r.plan[i] \in s.bad
                      \/ PublishedIn(z2, r.plan[i])
    BY <1>1 DEF Accounted
  <2>2. CASE \E j \in DOMAIN r.todo : r.todo[j] = r.plan[i]
    <3>1. PICK j \in DOMAIN r.todo : r.todo[j] = r.plan[i]
      BY <2>2
    <3>2. CASE j = 1
      <4>1. r.plan[i] = Head(r.todo)
        BY <1>2, <1>4, <3>1, <3>2
      <4>2. CASE ok
        BY <1>4, <4>1, <4>2
      <4>3. CASE ~ok
        BY <1>1, <4>1, <4>3
      <4>4. QED
        BY <4>2, <4>3
    <3>3. CASE j # 1
      <4>1. j - 1 \in DOMAIN Tail(r.todo) /\ Tail(r.todo)[j - 1] = r.todo[j]
        BY <1>2, <1>4, <3>1, <3>3
      <4>2. QED
        BY <1>1, <3>1, <4>1
    <3>4. QED
      BY <3>2, <3>3
  <2>3. CASE r.plan[i] \in r.bad
    BY <1>1, <2>3
  <2>4. CASE PublishedIn(z, r.plan[i])
    BY <1>4, <2>4
  <2>5. QED
    BY <2>1, <2>2, <2>3, <2>4 DEF Accounted
<1>5. RunInv(s, z2)
  BY <1>1, <1>3, <1>4 DEF RunInv, FoundInv, BulkInv
<1>6. ASSUME s.phase = "done", s.alone, s.cmd = "set-all", s.exit = 0
      PROVE  \A i \in DOMAIN r.plan : PublishedIn(z2, r.plan[i])
  <2>1. s.bad = {}
    BY <1>1, <1>6
  <2>2. ok
    BY <1>1, <2>1
  <2>3. s.todo = << >> /\ Accounted(s, z2)
    BY <1>1, <1>4, <1>6, <2>2
  <2>4. DOMAIN s.todo = {}
    BY <2>3
  <2>5. \A i \in DOMAIN s.plan : PublishedIn(z2, s.plan[i])
    BY <2>1, <2>3, <2>4 DEF Accounted
  <2>6. QED
    BY <1>1, <2>5
<1>7. Tells(r, s, z2)
  BY <1>1, <1>6 DEF Tells
<1>8. QED
  BY <1>5, <1>7 DEF s

LEMMA FindSteps == ASSUME DnsInv, NEW p \in Runs, Find(p) PROVE DnsInv' /\ RunsTell
<1> DEFINE r == run[p]
           found == Candidates(Head(r.todo).name, Head(r.todo).ip)
           none == [r EXCEPT !.phase = "write"]
           over == [r EXCEPT !.todo = << >>]
<1>1. RunInv(r, zone) /\ r.phase = "find" /\ UNCHANGED <<world, zone, made>> /\ ZoneInv(zone, made)
  BY DEF DnsInv, Find
<1>2. \/ \E x \in found : run' = [run EXCEPT ![p].held = x.id, ![p].phase = "write"]
      \/ found = {} /\ run' = [run EXCEPT ![p] = IF @.cmd = "delete" THEN Finished([@ EXCEPT !.todo = <<>>])
                                                 ELSE [@ EXCEPT !.phase = "write"]]
      \/ run' = [run EXCEPT ![p] = After(@, FALSE)]
  BY DEF Find
<1>3. \/ \E x \in found : run' = [run EXCEPT ![p] = [r EXCEPT !.held = x.id, !.phase = "write"]]
      \/ r.cmd = "delete" /\ run' = [run EXCEPT ![p] = Finished(over)]
      \/ found = {} /\ run' = [run EXCEPT ![p] = none]
      \/ run' = [run EXCEPT ![p] = After(r, FALSE)]
  BY <1>2 DEF DnsInv
<1>4. CASE \E x \in found : run' = [run EXCEPT ![p] = [r EXCEPT !.held = x.id, !.phase = "write"]]
  <2>1. PICK x \in found : run' = [run EXCEPT ![p] = [r EXCEPT !.held = x.id, !.phase = "write"]]
    BY <1>4
  <2> DEFINE s == [r EXCEPT !.held = x.id, !.phase = "write"]
  <2>2. /\ RunFields \subseteq DOMAIN s
        /\ s.phase = "write" /\ s.held = x.id /\ s.cmd = r.cmd /\ s.outcome = r.outcome
        /\ s.plan = r.plan /\ s.todo = r.todo /\ s.alone = r.alone /\ s.bad = r.bad
    BY <1>1 DEF RunInv, RunFields
  <2>3. x \in zone /\ x.a /\ x.name = Head(r.todo).name
    BY DEF Candidates
  <2> HIDE DEF s, r
  <2>4. FoundInv(s, zone)
    BY <1>1, <2>2, <2>3 DEF FoundInv, ZoneInv
  <2>5. BulkInv(s, zone)
    BY <1>1, <2>2 DEF RunInv, BulkInv, PlanInv, Accounted
  <2>6. RunInv(s, zone) /\ Tells(r, s, zone)
    BY <2>2, <2>4, <2>5 DEF RunInv, Tells
  <2>7. QED
    BY <1>1, <2>1, <2>6, Alone DEF r, s
<1>5. CASE r.cmd = "delete" /\ run' = [run EXCEPT ![p] = Finished(over)]
  <2>1. RunFields \subseteq DOMAIN over /\ over.cmd = "delete"
    BY <1>1, <1>5 DEF RunInv, RunFields
  <2> HIDE DEF over, r
  <2>2. RunInv(Finished(over), zone) /\ Tells(r, Finished(over), zone)
    BY <2>1, FinishedTells DEF RunInv, FoundInv, BulkInv, Tells
  <2>3. QED
    BY <1>1, <1>5, <2>2, Alone DEF r
<1>6. CASE found = {} /\ run' = [run EXCEPT ![p] = none]
  <2>1. /\ RunFields \subseteq DOMAIN none
        /\ none.phase = "write" /\ none.held = 0 /\ none.cmd = r.cmd /\ none.outcome = r.outcome
        /\ none.plan = r.plan /\ none.todo = r.todo /\ none.alone = r.alone /\ none.bad = r.bad
    BY <1>1 DEF RunInv, RunFields
  <2>2. \A x \in zone : x.a => x.name # Head(r.todo).name
    BY <1>6 DEF Candidates
  <2>3. \A x \in zone : x.id # 0
    BY <1>1 DEF ZoneInv
  <2> HIDE DEF none, r
  <2>4. FoundInv(none, zone)
    BY <2>1, <2>2, <2>3 DEF FoundInv
  <2>5. BulkInv(none, zone)
    BY <1>1, <2>1 DEF RunInv, BulkInv, PlanInv, Accounted
  <2>6. RunInv(none, zone) /\ Tells(r, none, zone)
    BY <2>1, <2>4, <2>5 DEF RunInv, Tells
  <2>7. QED
    BY <1>1, <1>6, <2>6, Alone DEF r
<1>7. CASE run' = [run EXCEPT ![p] = After(r, FALSE)]
  <2> HIDE DEF r
  <2>1. RunInv(After(r, FALSE), zone) /\ Tells(r, After(r, FALSE), zone)
    BY <1>1, AfterStays
  <2>2. QED
    BY <1>1, <1>7, <2>1, Alone DEF r
<1>8. QED
  BY <1>3, <1>4, <1>5, <1>6, <1>7

\* What one write leaves in the zone: nothing of it, a new record, one record
\* fewer, or one at another address.
LEMMA CarriedTells ==
    ASSUME NEW p, NEW c, c = Carried(p)
    PROVE  LET r == run[p]
               want == Head(r.todo)
               there == {x \in zone : x.id = r.held}
           IN \/ c.ok = FALSE /\ c.zone = zone /\ c.made = made
              \/ /\ c.ok = TRUE /\ r.held = 0 /\ c.made = made + 1
                 /\ c.zone = zone \cup {[id |-> made + 1, name |-> want.name, a |-> TRUE, ip |-> want.ip]}
              \/ c.ok = TRUE /\ r.held # 0 /\ there # {} /\ r.cmd = "delete" /\ c.made = made /\ c.zone = zone \ there
              \/ /\ c.ok = TRUE /\ r.held # 0 /\ there # {} /\ c.made = made
                 /\ c.zone = (zone \ there) \cup {[x EXCEPT !.ip = want.ip] : x \in there}
<1> DEFINE r == run[p]
           want == Head(r.todo)
           there == {x \in zone : x.id = r.held}
           added == zone \cup {[id |-> made + 1, name |-> want.name, a |-> TRUE, ip |-> want.ip]}
           moved == (zone \ there) \cup {[x EXCEPT !.ip = want.ip] : x \in there}
<1>1. c = CASE r.held # 0 /\ there = {} -> [ok |-> FALSE, zone |-> zone, made |-> made]
            [] r.held = 0 /\ made = MaxRecords -> [ok |-> FALSE, zone |-> zone, made |-> made]
            [] r.held = 0 /\ made # MaxRecords -> [ok |-> TRUE, made |-> made + 1, zone |-> added]
            [] there # {} /\ r.held # 0 /\ r.cmd = "delete" -> [ok |-> TRUE, made |-> made, zone |-> zone \ there]
            [] OTHER -> [ok |-> TRUE, made |-> made, zone |-> moved]
  BY DEF Carried
<1> HIDE DEF r, there, added, moved
<1>2. \/ c = [ok |-> FALSE, zone |-> zone, made |-> made]
      \/ r.held = 0 /\ c = [ok |-> TRUE, made |-> made + 1, zone |-> added]
      \/ there # {} /\ r.held # 0 /\ r.cmd = "delete" /\ c = [ok |-> TRUE, made |-> made, zone |-> zone \ there]
      \/ there # {} /\ r.held # 0 /\ c = [ok |-> TRUE, made |-> made, zone |-> moved]
  BY <1>1
<1>3. QED
  BY <1>2 DEF r, there, added, moved

LEMMA ZoneCarried ==
    ASSUME ZoneInv(zone, made), NEW p, NEW c, c = Carried(p)
    PROVE  ZoneInv(c.zone, c.made)
<1> DEFINE r == run[p]
           want == Head(r.todo)
           there == {x \in zone : x.id = r.held}
           new == [id |-> made + 1, name |-> want.name, a |-> TRUE, ip |-> want.ip]
           Moved(x) == [x EXCEPT !.ip = want.ip]
<1>1. CASE c.zone = zone /\ c.made = made
  BY <1>1
<1>2. CASE c.made = made + 1 /\ c.zone = zone \cup {new}
  <2>1. {"id", "name", "a", "ip"} \subseteq DOMAIN new /\ new.id = made + 1
    OBVIOUS
  <2> HIDE DEF new
  <2>2. QED
    BY <1>2, <2>1 DEF ZoneInv
<1>3. CASE c.made = made /\ c.zone = zone \ there
  BY <1>3 DEF ZoneInv
<1>4. CASE c.made = made /\ c.zone = (zone \ there) \cup {Moved(x) : x \in there}
  <2>1. \A x \in there : {"id", "name", "a", "ip"} \subseteq DOMAIN Moved(x) /\ Moved(x).id = x.id
    BY DEF ZoneInv
  <2>2. \A x, y \in there : x = y
    BY DEF ZoneInv
  <2> HIDE DEF Moved
  <2>3. \A x \in zone \ there, y \in there : x.id # y.id
    OBVIOUS
  <2>4. QED
    BY <1>4, <2>1, <2>2, <2>3 DEF ZoneInv
<1>5. QED
  BY <1>1, <1>2, <1>3, <1>4, CarriedTells

\* A set-all's own write publishes what it was for and takes nothing else of its
\* plan away: a name it holds twice it would give one address.
LEMMA WritePublishes ==
    ASSUME ZoneInv(zone, made), NEW p, RunInv(run[p], zone), NEW c, c = Carried(p),
           run[p].phase = "write", run[p].alone, run[p].cmd = "set-all"
    PROVE  /\ c.ok => PublishedIn(c.zone, Head(run[p].todo))
           /\ \A i \in DOMAIN run[p].plan :
                PublishedIn(zone, run[p].plan[i]) => PublishedIn(c.zone, run[p].plan[i])
<1> DEFINE r == run[p]
           want == Head(r.todo)
           there == {x \in zone : x.id = r.held}
           new == [id |-> made + 1, name |-> want.name, a |-> TRUE, ip |-> want.ip]
           Moved(x) == [x EXCEPT !.ip = want.ip]
<1>1. CASE c.ok = FALSE /\ c.zone = zone
  BY <1>1
<1>2. CASE c.zone = zone \cup {new}
  <2>1. new.a = TRUE /\ new.name = want.name /\ new.ip = want.ip
    OBVIOUS
  <2> HIDE DEF new
  <2>2. PublishedIn(c.zone, want)
    BY <1>2, <2>1 DEF PublishedIn
  <2>3. \A e : PublishedIn(zone, e) => PublishedIn(c.zone, e)
    BY <1>2 DEF PublishedIn
  <2>4. QED
    BY <2>2, <2>3
<1>3. CASE there # {} /\ c.zone = (zone \ there) \cup {Moved(x) : x \in there}
  <2>1. \A x \in there : x.a /\ x.name = want.name
    BY DEF RunInv, FoundInv
  <2>2. \A x \in there : Moved(x).a = x.a /\ Moved(x).name = x.name /\ Moved(x).ip = want.ip
    BY DEF ZoneInv
  <2> HIDE DEF Moved
  <2>3. PublishedIn(c.zone, want)
    <3>1. PICK x \in there : TRUE
      BY <1>3
    <3>2. Moved(x) \in c.zone /\ Moved(x).a /\ Moved(x).name = want.name /\ Moved(x).ip = want.ip
      BY <1>3, <2>1, <2>2
    <3>3. QED
      BY <3>2 DEF PublishedIn
  <2>4. ASSUME NEW i \in DOMAIN r.plan, PublishedIn(zone, r.plan[i]) PROVE PublishedIn(c.zone, r.plan[i])
    <3>1. PICK x \in zone : x.a /\ x.name = r.plan[i].name /\ x.ip = r.plan[i].ip
      BY <2>4 DEF PublishedIn
    <3>2. CASE x \notin there
      BY <1>3, <3>1, <3>2 DEF PublishedIn
    <3>3. CASE x \in there
      <4>1. PlanInv(r)
        BY DEF RunInv, BulkInv
      <4>2. r.todo \in Seq({r.plan[j] : j \in DOMAIN r.plan}) /\ r.todo # << >>
        BY <4>1 DEF PlanInv
      <4>3. PICK j \in DOMAIN r.plan : want = r.plan[j]
        BY <4>2
      <4>4. r.plan[i].name = want.name
        BY <2>1, <3>1, <3>3
      <4>5. r.plan[i].ip = want.ip
        BY <4>1, <4>3, <4>4 DEF PlanInv
      <4>6. QED
        BY <2>3, <4>4, <4>5 DEF PublishedIn
    <3>4. QED
      BY <3>2, <3>3
  <2>5. QED
    BY <2>3, <2>4
<1>4. \/ c.ok = FALSE /\ c.zone = zone
      \/ c.zone = zone \cup {new}
      \/ there # {} /\ c.zone = (zone \ there) \cup {Moved(x) : x \in there}
  BY CarriedTells
<1>5. QED
  BY <1>1, <1>2, <1>3, <1>4

LEMMA DnsWrites == ASSUME DnsInv, NEW p \in Runs, Write(p) PROVE DnsInv' /\ RunsTell
<1> DEFINE r == run[p]
           c == Carried(p)
<1>1. RunInv(r, zone) /\ r.phase = "write" /\ ZoneInv(zone, made) /\ c.ok \in BOOLEAN
  BY CarriedTells DEF DnsInv, Write
<1>2. PICK sent \in BOOLEAN, heard \in BOOLEAN :
        /\ heard => sent
        /\ IF sent THEN zone' = c.zone /\ made' = c.made ELSE UNCHANGED <<zone, made>>
        /\ run' = [q \in Runs |->
                    IF q = p THEN After(r, heard /\ c.ok)
                    ELSE [run[q] EXCEPT !.alone = @ /\ (~sent \/ run[q].phase \in {"idle", "done"})]]
  BY DEF Write
<1>3. ZoneInv(zone', made')
  BY <1>1, <1>2, ZoneCarried
<1>4. ASSUME r.alone, r.cmd = "set-all"
      PROVE  /\ heard /\ c.ok => PublishedIn(zone', Head(r.todo))
             /\ \A i \in DOMAIN r.plan : PublishedIn(zone, r.plan[i]) => PublishedIn(zone', r.plan[i])
  <2>1. /\ c.ok => PublishedIn(c.zone, Head(r.todo))
        /\ \A i \in DOMAIN r.plan : PublishedIn(zone, r.plan[i]) => PublishedIn(c.zone, r.plan[i])
    BY <1>1, <1>4, WritePublishes
  <2> HIDE DEF c, r
  <2>2. QED
    BY <1>2, <2>1
<1> DEFINE ok == heard /\ c.ok
<1>5. ok \in BOOLEAN
  OBVIOUS
<1>6. run'[p] = After(r, ok)
  BY <1>2
<1> HIDE DEF c, r, ok
<1>7. RunInv(run'[p], zone') /\ Tells(r, run'[p], zone')
  <2>1. ok => heard /\ c.ok
    BY DEF ok
  <2>2. r.alone /\ r.cmd = "set-all" =>
             /\ ok => PublishedIn(zone', Head(r.todo))
             /\ \A i \in DOMAIN r.plan : PublishedIn(zone, r.plan[i]) => PublishedIn(zone', r.plan[i])
    BY <1>4, <2>1
  <2>3. RunInv(After(r, ok), zone') /\ Tells(r, After(r, ok), zone')
    BY <1>1, <1>5, <2>2, AfterStays
  <2>4. QED
    BY <1>6, <2>3
<1>8. ASSUME NEW q \in Runs, q # p PROVE RunInv(run'[q], zone') /\ Tells(run[q], run'[q], zone')
  <2>1. run'[q] = [run[q] EXCEPT !.alone = @ /\ (~sent \/ run[q].phase \in {"idle", "done"})]
    BY <1>2, <1>8
  <2>2. RunInv(run[q], zone) /\ (sent \/ zone' = zone)
    BY <1>2 DEF DnsInv
  <2>3. QED
    BY <2>1, <2>2, OthersWrite
<1>9. run' = [q \in Runs |-> run'[q]]
  BY <1>2
<1>10. DnsInv'
  BY <1>3, <1>7, <1>8, <1>9 DEF DnsInv
<1>11. RunsTell
  BY <1>7, <1>8 DEF RunsTell, r, Write
<1>12. QED
  BY <1>10, <1>11

LEMMA DnsSteps == ASSUME DnsInv, [DnsNext]_DnsVars PROVE DnsInv' /\ RunsTell
<1>1. CASE DnsNext
  <2>1. PICK p \in Runs : DnsStep(p)
    BY <1>1 DEF DnsNext
  <2>2. QED
    BY <2>1, UnconnectedSteps, SetAllSteps, OtherStarts, AnswerSteps, ListingSteps, FindSteps, DnsWrites
    DEF DnsStep
<1>2. CASE UNCHANGED DnsVars
  <2>1. run' = run /\ zone' = zone /\ made' = made /\ world' = world
    BY <1>2 DEF DnsVars
  <2>2. RunsTell
    BY <2>1, RunStays DEF RunsTell
  <2>3. DnsInv'
    BY <2>1 DEF DnsInv
  <2>4. QED
    BY <2>2, <2>3
<1>3. QED
  BY <1>1, <1>2

\* Exit 0 of a set-all that wrote means that every name of its plan is at its
\* address in the zone, unless another run wrote meanwhile: whatever calls fail or
\* lose their answers, however many runs there are, and with --continue-on-error
\* too (apply_set_all, set_all_exit_code).
THEOREM BulkSuccessIsPublished == DnsSpec => SuccessIsPublished
<1> DEFINE Ends(p) == /\ run[p].phase # "done" /\ run'[p].phase = "done" /\ run'[p].alone
                      /\ run'[p].cmd = "set-all" /\ run'[p].outcome = "applied" /\ run'[p].exit = 0
           Told == \A p \in Runs : Ends(p) =>
                     \A i \in DOMAIN run[p].plan :
                       \E r \in zone' : r.a /\ r.name = run[p].plan[i].name /\ r.ip = run[p].plan[i].ip
<1>1. DnsInv /\ [DnsNext]_DnsVars => DnsInv' /\ [Told]_DnsVars
  <2> SUFFICES ASSUME DnsInv, [DnsNext]_DnsVars PROVE DnsInv' /\ Told
    OBVIOUS
  <2>1. DnsInv' /\ RunsTell
    BY DnsSteps
  <2>2. Told
    BY <2>1 DEF RunsTell, Tells, PublishedIn
  <2>3. QED
    BY <2>1, <2>2
<1>2. QED
  BY DnsInitially, <1>1, PTL DEF DnsSpec, SuccessIsPublished

\* A name gets a second A record only from two runs at once: a run that was not
\* disturbed finds what an earlier one left, its answer lost or not (set_a_record).
THEOREM NamesAreNotDoubled == DnsSpec => OneRecordPerName
<1> DEFINE Once == \A p \in Runs, r \in zone' \ zone :
        (DnsStep(p) /\ r.id \notin {x.id : x \in zone} /\ run[p].alone)
        => ~\E x \in zone : x.a /\ x.name = r.name
<1>1. DnsInv /\ [DnsNext]_DnsVars => DnsInv' /\ [Once]_DnsVars
  <2> SUFFICES ASSUME DnsInv, [DnsNext]_DnsVars PROVE DnsInv' /\ Once
    OBVIOUS
  <2>1. DnsInv'
    BY DnsSteps
  <2> SUFFICES ASSUME NEW p \in Runs, NEW r \in zone' \ zone,
                      DnsStep(p), r.id \notin {x.id : x \in zone}, run[p].alone
               PROVE  ~\E x \in zone : x.a /\ x.name = r.name
    BY <2>1
  <2>2. Write(p)
    BY DEF DnsStep, Unconnected, SetAll, SetOne, Delete, Answer, Migrate, List, Status, Find, Began
  <2>3. RunInv(run[p], zone) /\ run[p].phase = "write" /\ zone' \in {zone, Carried(p).zone}
    BY <2>2 DEF DnsInv, Write
  <2> DEFINE c == Carried(p)
             want == Head(run[p].todo)
             there == {x \in zone : x.id = run[p].held}
             new == [id |-> made + 1, name |-> want.name, a |-> TRUE, ip |-> want.ip]
             Moved(x) == [x EXCEPT !.ip = want.ip]
  <2>4. \A x \in there : Moved(x).id = x.id
    BY DEF DnsInv, ZoneInv
  <2>5. new.name = want.name
    OBVIOUS
  <2>6. \/ c.zone = zone
        \/ run[p].held = 0 /\ c.zone = zone \cup {new}
        \/ c.zone = zone \ there
        \/ c.zone = (zone \ there) \cup {Moved(x) : x \in there}
    BY CarriedTells
  <2>7. r \in c.zone
    BY <2>3
  <2> HIDE DEF c, new, Moved
  <2>8. run[p].held = 0 /\ r = new
    BY <2>4, <2>6, <2>7
  <2>9. QED
    BY <2>3, <2>5, <2>8 DEF RunInv, FoundInv
<1>2. QED
  BY DnsInitially, <1>1, PTL DEF DnsSpec, OneRecordPerName

----------------------------------------------------------------------------
(* The zone a bulk run writes in.                                          *)

\* An App the discovery leaves is one no scope places elsewhere.
LEMMA PublicIsUnplaced ==
    ASSUME NEW c, NEW metas, NEW app \in Public(c, metas)
    PROVE  ~metas[app].tailnet /\ \A at \in Boxes : EffectiveZone(c, metas, app, at) \notin ZoneNames
<1>1. app \in Apps /\ Named(c, metas, app) /\ ~metas[app].tailnet /\ ~PlacedSomewhere(c, metas, app)
  BY DEF Public, TailnetOnly, OffZone
<1>2. metas[app].pin = "" /\ \A at \in Boxes : ~Says(c.place[app], at)
  BY <1>1 DEF PlacedSomewhere, Scopes
<1>3. \A at \in Boxes : EffectiveZone(c, metas, app, at) = FleetZone
  BY <1>2 DEF EffectiveZone
<1>4. QED
  BY <1>1, <1>3, ZonesAssumption

\* No bulk run writes the fleet zone's record for an App that some Host's deploy
\* publishes elsewhere, nor for a tailnet-only App, under any config.toml and any
\* Metas: two partitions that read the same answers by different routes
\* (discover_all_subdomains, effective_zone; #952, ADR-0003, ADR-0081).
THEOREM BulksStayHome == DnsSpec => []BulkStaysInItsZone
<1> DEFINE Bulks == \A p \in Runs : run[p].cmd = "set-all" => PublicPlan(run[p].plan)
<1>1. DnsInit => Bulks
  <2>1. Idle.cmd # "set-all"
    BY DEF Idle
  <2>2. DnsInit => \A p \in Runs : run[p] = Idle
    BY DEF DnsInit
  <2>3. QED
    BY <2>1, <2>2
<1>2. DnsInv /\ [DnsNext]_DnsVars => DnsInv' /\ RunsTell
  BY DnsSteps
<1>3. Bulks /\ RunsTell => Bulks'
  BY DEF RunsTell, Tells, PublicPlan
<1>4. Bulks => BulkStaysInItsZone
  <2> SUFFICES ASSUME Bulks, NEW p \in Runs, run[p].cmd = "set-all", NEW i \in DOMAIN run[p].plan
               PROVE  /\ ~world.metas[run[p].plan[i].name].tailnet
                      /\ \A at \in Boxes : EffectiveZone(world.config, world.metas, run[p].plan[i].name, at)
                                           \notin ZoneNames
    BY DEF BulkStaysInItsZone
  <2>1. run[p].plan[i].name \in Public(world.config, world.metas)
    BY DEF PublicPlan
  <2>2. QED
    BY <2>1, PublicIsUnplaced
<1>5. DnsInv /\ Bulks /\ [DnsNext]_DnsVars => DnsInv' /\ Bulks'
  BY <1>2, <1>3
<1>6. QED
  BY DnsInitially, <1>1, <1>4, <1>5, PTL DEF DnsSpec
=============================================================================
