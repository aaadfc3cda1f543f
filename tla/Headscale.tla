----------------------------- MODULE Headscale ------------------------------
(***************************************************************************)
(* The tailnet's coordinator as auberge drives it (commands/headscale.rs,  *)
(* and `host remove` of commands/host.rs): headscale keeps users, nodes    *)
(* and pre-auth keys; every command is an ssh session of its own that      *)
(* lists, decides and then changes one thing by id or by name.  Between    *)
(* two calls of a command anything may happen on the tailnet, any call may *)
(* fail, and a call that was carried out may lose its answer.              *)
(***************************************************************************)
EXTENDS Naturals, FiniteSets, Functions

CONSTANTS
    Hosts,      \* names a roster may hold, each of a machine of its own
    Devices,    \* machines no roster holds (phones)
    Hostname,   \* what each machine calls itself, whatever the roster calls it
    UserNames,
    Addresses,  \* tailnet addresses headscale hands out, reused once free
    Tiers,      \* tailnet tags
    Policy,     \* the tags the deployed policy's tagOwners names
    Clients,    \* CLI processes
    Orders,     \* the commands an operator may give (a subset of Order)
    Events,     \* what may happen on the tailnet meanwhile
    MaxIds, MaxOrders, MaxEvents, MaxFailures     \* bounds

Machines == Hosts \cup Devices
Ids == 1..MaxIds
\* A command: the Host or device it is about, a username, the tags it asks
\* for, whether its arguments pass their validation, and --check.
Order == [op : {"add_user", "add_key", "register", "tag_node", "remove_user",
                "host_remove", "deploy", "list"},
          about : Machines, user : UserNames, tags : SUBSET Tiers,
          valid : BOOLEAN, check : BOOLEAN]

ASSUME HeadscaleAssumption ==
    /\ Orders \subseteq Order /\ Policy \subseteq Tiers
    /\ Hosts \cap Devices = {} /\ DOMAIN Hostname = Machines
    /\ Events \subseteq {"forget", "reimage", "delete", "rename", "approach",
                         "drop", "expire", "detect", "join"}
    /\ {MaxIds, MaxOrders, MaxEvents, MaxFailures} \subseteq Nat

VARIABLES
    users,      \* headscale's users: id -> name
    nodes,      \* its nodes: id -> [machine, name, ip, tags]
    keys,       \* its pre-auth keys: id -> [user, tags, live]
    lastId,     \* the last id it gave
    pending,    \* machines with an interactive enrollment open
    login,      \* the node each machine's tailscaled is logged in as, 0 if none
    fleet,      \* hosts.toml: Host -> [ip, tier]
    serving,    \* the Hosts whose config answers headscale_subdomain
    step,       \* where each process is
    order,      \* its command
    held,       \* what it holds of the answers it got
    shown,      \* keys an operator or a play was given
    given, happened, lost,  \* orders given, events, failures
    left,       \* history: Hosts taken off the roster -> [listed, said]
    starved,    \* history: plays that needed a key and had none
    chosen      \* history: key id -> the user its minter picked or made

store == <<users, nodes, keys, lastId, pending>>
headscaleVars == <<store, login, fleet, serving, step, order, held, shown,
                   given, happened, lost, left, starved, chosen>>
history == <<left, starved, chosen>>

None == 0
Blank == [user |-> 0, node |-> 0, key |-> 0, listed |-> {}, why |-> "none",
          said |-> "nothing", ip |-> None, tags |-> {}]
Steps == {"idle", "users", "nodes", "create", "mint", "show", "register", "tag",
          "confirm", "destroy", "coordinator", "revoke", "delete", "write",
          "probe", "only_user", "play"}
\* The node's given name: its hostname, with a suffix while another has it.
GivenName(m, k) == <<Hostname[m], k>>
\* The given name that a Host's, or a name that is typed, is equal to.
RosterName(h) == <<h, 1>>
NodeOf == [machine : Machines, name : Range(Hostname) \X Ids, ip : Addresses,
           tags : SUBSET Tiers]
Partial(S, T) == UNION {[D -> T] : D \in SUBSET S}

\* What the auto-mint decided for a run.
AutoMint == {"minted", "enrolled", "no coordinator", "check"}

\* The store, the roster and the processes' places have their types.
HeadscaleTypeOK ==
    /\ DOMAIN users \subseteq Ids /\ \A u \in DOMAIN users : users[u] \in UserNames
    /\ DOMAIN nodes \subseteq Ids /\ \A n \in DOMAIN nodes : nodes[n] \in NodeOf
    /\ DOMAIN keys \subseteq Ids
    /\ \A k \in DOMAIN keys : keys[k] \in [user : Ids, tags : SUBSET Tiers, live : BOOLEAN]
    /\ login \in [Machines -> {0} \cup Ids] /\ pending \subseteq Machines
    /\ DOMAIN fleet \subseteq Hosts /\ serving \subseteq Hosts
    /\ step \in [Clients -> Steps] /\ order \in [Clients -> Orders]
    /\ \A p \in Clients : held[p].why \in AutoMint \cup {"none"}

Put(f, x, v) == [y \in DOMAIN f \cup {x} |-> IF y = x THEN v ELSE f[y]]
\* headscale numbers what it keeps and reuses no number.
NewId == lastId + 1

\* One user; no Host enrolled yet, or one, whose address may be cached.
HeadscaleInit ==
    /\ users \in {[i \in 1..1 |-> u] : u \in UserNames}
    /\ keys = << >> /\ pending = {} /\ lastId = 2
    /\ \E h \in Hosts, on \in BOOLEAN, ip \in Addresses, cached, tagged \in BOOLEAN :
         LET tier == IF tagged THEN Tiers ELSE {}
         IN /\ nodes = [i \in IF on THEN {2} ELSE {} |->
                          [machine |-> h, name |-> GivenName(h, 1), ip |-> ip, tags |-> tier]]
            /\ login = [m \in Machines |-> IF on /\ m = h THEN 2 ELSE 0]
            /\ fleet = [g \in Hosts |->
                          [ip |-> IF on /\ cached /\ g = h THEN ip ELSE None, tier |-> tier]]
    /\ serving \in SUBSET Hosts
    /\ step = [p \in Clients |-> "idle"]
    /\ order = [p \in Clients |-> CHOOSE o \in Orders : TRUE]
    /\ held = [p \in Clients |-> Blank]
    /\ shown = {} /\ given = 0 /\ happened = 0 /\ lost = 0
    /\ left = << >> /\ starved = {} /\ chosen = << >>

----------------------------------------------------------------------------
(* Where a process goes next, and how a call can end.                      *)

To(p, s) == step' = [step EXCEPT ![p] = s]
With(p, h) == held' = [held EXCEPT ![p] = h]
End(p) == To(p, "idle") /\ With(p, Blank)
Stay == UNCHANGED <<shown, given, happened, lost, history>>

\* run_headscale_cmd: the session's answer arrives, or it is lost and the
\* command ends in an error although headscale did what it was told.
Replied(p, s, h) ==
    \/ To(p, s) /\ With(p, h) /\ UNCHANGED lost
    \/ End(p) /\ lost < MaxFailures /\ lost' = lost + 1

\* The call never reaches headscale, or a local file cannot be read.
Unreached(p) ==
    /\ step[p] # "idle" /\ lost < MaxFailures
    /\ lost' = lost + 1 /\ End(p)
    /\ UNCHANGED <<store, login, fleet, serving, order, shown, given, happened, history>>

\* The coordinators of the roster, as serving_hosts reads the gate.
Coordinators == serving \cap DOMAIN fleet

\* resolve_headscale_host and host_ssh_key: the Host named, the only one that
\* serves, or one picked in the roster; an empty roster leaves nothing to pick.
HasHost == fleet # << >>

\* validate_username, validate_tags, validate_expiration and parse_auth_id: a
\* command whose arguments do not pass them ends there.
Valid(o) == o.valid

\* The commands, up to the first thing they ask: add-user, tag-node and register
\* check their arguments before they touch the network, add-key after its
\* listing.
AddUser(p, o) == o.op = "add_user" /\ HasHost /\ Valid(o) /\ To(p, "create")
AddKey(p, o) == o.op = "add_key" /\ HasHost /\ To(p, "users")
Register(p, o) == o.op = "register" /\ Valid(o) /\ HasHost /\ To(p, "users")
Tag(p, o) == o.op = "tag_node" /\ Valid(o) /\ o.tags # {} /\ HasHost /\ To(p, "nodes")
ListStore(p, o) == o.op = "list" /\ HasHost /\ To(p, "nodes")
RemoveUser(p, o) == o.op = "remove_user" /\ Valid(o) /\ HasHost /\ To(p, "users")
HostRemove(p, o) == o.op = "host_remove" /\ o.about \in DOMAIN fleet /\ To(p, "coordinator")
Deploy(p, o) == o.op = "deploy" /\ To(p, "coordinator")

Give(p, o) ==
    /\ step[p] = "idle" /\ given < MaxOrders
    /\ given' = given + 1
    /\ order' = [order EXCEPT ![p] = o]
    /\ \/ AddUser(p, o) \/ AddKey(p, o) \/ Register(p, o) \/ Tag(p, o)
       \/ ListStore(p, o) \/ RemoveUser(p, o) \/ HostRemove(p, o) \/ Deploy(p, o)
    /\ With(p, [Blank EXCEPT !.ip = IF o.op = "host_remove" THEN fleet[o.about].ip
                                    ELSE None])
    /\ UNCHANGED <<store, login, fleet, serving, shown, happened, lost, history>>

----------------------------------------------------------------------------
(* add-user, add-key, register, tag-node and remove-user.                  *)

\* create_user: its response carries the id of the user it just made; a name
\* that is taken is refused.
CreateUser(p) ==
    /\ step[p] = "create"
    /\ IF \/ \E u \in DOMAIN users : users[u] = order[p].user
          \/ lastId = MaxIds
       THEN End(p) /\ UNCHANGED <<store, lost>>
       ELSE /\ users' = Put(users, NewId, order[p].user) /\ lastId' = NewId
            /\ Replied(p, "mint", [held[p] EXCEPT !.user = NewId, !.tags = order[p].tags])
            /\ UNCHANGED <<nodes, keys, pending>>
    /\ UNCHANGED <<login, fleet, serving, order, shown, given, happened, history>>

\* resolve_existing_user: one `users list`; the name given, or picked in the
\* listing, is resolved there.
PickUser(p) ==
    /\ step[p] = "users"
    /\ \/ /\ \/ \A u \in DOMAIN users : users[u] # order[p].user
             \/ ~Valid(order[p])
          /\ End(p)
       \/ \E u \in DOMAIN users :
            /\ users[u] = order[p].user /\ Valid(order[p])
            /\ To(p, CASE order[p].op = "add_key" -> "mint"
                       [] order[p].op = "register" -> "register"
                       [] order[p].op = "remove_user" -> "confirm")
            /\ With(p, [held[p] EXCEPT !.user = u, !.tags = order[p].tags])
    /\ UNCHANGED <<store, login, fleet, serving, order>> /\ Stay

\* The user a key is minted for: the id held, never the name.
Owner(p) == held[p].user

\* mint_preauth_key, for add-user, add-key and the auto-mint.
MintKey(p) ==
    /\ step[p] = "mint"
    /\ IF Owner(p) \notin DOMAIN users \/ lastId = MaxIds
       THEN End(p) /\ UNCHANGED <<store, lost, chosen>>
       ELSE /\ keys' = Put(keys, NewId,
                   [user |-> Owner(p), tags |-> held[p].tags, live |-> TRUE])
            /\ lastId' = NewId
            /\ chosen' = Put(chosen, NewId, held[p].user)
            /\ Replied(p, IF order[p].op = "deploy" THEN "play" ELSE "show",
                   [held[p] EXCEPT !.key = NewId])
            /\ UNCHANGED <<users, nodes, pending>>
    /\ UNCHANGED <<login, fleet, serving, order, shown, given, happened, left, starved>>

\* print_enrollment_instructions: the key reaches the operator, unless
\* config.toml cannot be read (Unreached).
ShowKey(p) ==
    /\ step[p] = "show"
    /\ shown' = shown \cup {held[p].key} /\ End(p)
    /\ UNCHANGED <<store, login, fleet, serving, order, given, happened, lost, history>>

\* headscale enrolls a machine: the node its key is known under, or a new one
\* with an address nobody holds and a name nobody has.  When nothing is left
\* to hand out it refuses.
EnrolledAs(m, id, n) ==
    /\ id \in DOMAIN nodes \cup {NewId} /\ id <= MaxIds
    /\ n.machine = m
    /\ IF id \in DOMAIN nodes
       THEN nodes[id].machine = m /\ n.name = nodes[id].name /\ n.ip = nodes[id].ip
       ELSE /\ \A i \in DOMAIN nodes : nodes[i].ip # n.ip /\ nodes[i].name # n.name
            /\ \A k \in 1..(n.name[2] - 1) :
                  \E i \in DOMAIN nodes : nodes[i].name = GivenName(m, k)
    /\ nodes' = Put(nodes, id, n)
    /\ lastId' = IF id = NewId THEN NewId ELSE lastId
    /\ login' = [login EXCEPT ![m] = id]
Enroll(m, tags) ==
    \E id, k \in Ids, ip \in Addresses :
        EnrolledAs(m, id, [machine |-> m, name |-> GivenName(m, k), ip |-> ip, tags |-> tags])

\* register_node: the pending enrollment, under the *name* of the user picked.
\* A miss in the registration cache is an error.
RegisterNode(p) ==
    /\ step[p] = "register"
    /\ IF order[p].about \in pending /\ \E u \in DOMAIN users : users[u] = order[p].user
       THEN /\ Enroll(order[p].about, {})
            /\ pending' = pending \ {order[p].about}
            /\ End(p) /\ UNCHANGED <<users, keys>>
       ELSE End(p) /\ UNCHANGED <<store, login>>
    /\ UNCHANGED <<fleet, serving, order>> /\ Stay

\* resolve_existing_node and list-nodes: one `nodes list`, the name resolved in
\* it.
ListNodes(p) ==
    /\ step[p] = "nodes"
    /\ LET named == {n \in DOMAIN nodes : nodes[n].name = RosterName(order[p].about)}
       IN IF order[p].op = "list" \/ named = {} THEN End(p)
          ELSE \E n \in named :
                 To(p, "tag") /\ With(p, [held[p] EXCEPT !.node = n, !.tags = nodes[n].tags])
    /\ UNCHANGED <<store, login, fleet, serving, order>> /\ Stay

\* tag_node: the set replaces the node's; headscale takes only the tags its
\* policy names.  tagging_warnings reads what was dropped off the listing.
TagNode(p) ==
    /\ step[p] = "tag"
    /\ IF held[p].node \in DOMAIN nodes /\ order[p].tags \subseteq Policy
       THEN nodes' = [nodes EXCEPT ![held[p].node].tags = order[p].tags]
       ELSE UNCHANGED nodes
    /\ Replied(p, "idle", Blank)
    /\ UNCHANGED <<users, keys, lastId, pending, login, fleet, serving, order, shown,
                   given, happened, history>>

\* run_headscale_remove_user: the operator is asked, and may take long.
Confirm(p) ==
    /\ step[p] = "confirm"
    /\ \/ To(p, "destroy") /\ UNCHANGED held
       \/ End(p)
    /\ UNCHANGED <<store, login, fleet, serving, order>> /\ Stay

\* destroy_user: by name, and with the user go the keys minted for it.
DestroyUser(p) ==
    /\ step[p] = "destroy"
    /\ LET gone == {u \in DOMAIN users : users[u] = order[p].user}
       IN /\ users' = Restrict(users, DOMAIN users \ gone)
          /\ keys' = Restrict(keys, {k \in DOMAIN keys : keys[k].user \notin gone})
    /\ Replied(p, "idle", Blank)
    /\ UNCHANGED <<nodes, lastId, pending, login, fleet, serving, order, shown, given,
                   happened, history>>

----------------------------------------------------------------------------
(* host remove: the node is revoked before the roster forgets the Host.    *)

\* tailnet_coordinator, for host remove and for a run that enters the tailscale
\* role: none is an answer of its own, several is an error.
Coordinator(p) ==
    /\ step[p] = "coordinator"
    /\ \/ Cardinality(Coordinators) > 1 /\ End(p)
       \/ /\ Coordinators = {}
          /\ To(p, IF order[p].op = "deploy" THEN "play" ELSE "write")
          /\ With(p, [held[p] EXCEPT !.said = "no coordinator", !.why = "no coordinator"])
       \/ /\ Cardinality(Coordinators) = 1
          /\ IF order[p].op = "host_remove" THEN To(p, "revoke") /\ UNCHANGED held
             ELSE IF order[p].check
             THEN To(p, "play") /\ With(p, [held[p] EXCEPT !.why = "check"])
             ELSE IF order[p].about \in DOMAIN fleet
             THEN To(p, "probe") /\ With(p, [held[p] EXCEPT !.tags = fleet[order[p].about].tier])
             ELSE End(p)
    /\ UNCHANGED <<store, login, fleet, serving, order>> /\ Stay

\* node_for_host: a cached address decides when there is one, else the name.
NodesForHost(h, ip) ==
    {n \in DOMAIN nodes : IF ip # None THEN nodes[n].ip = ip
                          ELSE nodes[n].name = RosterName(h)}

\* Mutant: the cached address is enough.
AddressIsEnough(h, n) == TRUE

\* revoke_node deletes only a node that also carries the Host's name.
SameName(h, n) == nodes[n].name = RosterName(h)

RevokeNode(p) ==
    /\ step[p] = "revoke"
    /\ LET mine == NodesForHost(order[p].about, held[p].ip)
           saw == [held[p] EXCEPT !.listed = DOMAIN nodes]
       IN \/ mine = {} /\ To(p, "write") /\ With(p, [saw EXCEPT !.said = "absent"])
          \/ \E n \in mine :
               IF SameName(order[p].about, n)
               THEN To(p, "delete") /\ With(p, [saw EXCEPT !.node = n])
               ELSE To(p, "write") /\ With(p, [saw EXCEPT !.said = "withheld"])
    /\ UNCHANGED <<store, login, fleet, serving, order>> /\ Stay

\* A machine is logged out under a play about to ask it.
LoggedOut(m) ==
    held' = [p \in Clients |->
               IF order[p].op = "deploy" /\ order[p].about = m /\ step[p] = "play"
               THEN [held[p] EXCEPT !.said = "forgotten"] ELSE held[p]]

\* Mutant: `nodes delete` without --force exits 0 having deleted nothing.
DeleteUnforced(p) ==
    /\ step[p] = "delete" /\ To(p, "write")
    /\ UNCHANGED <<store, login, fleet, serving, order, held>> /\ Stay

\* delete_node, by the id listed; an id that is gone is an error.
DeleteNode(p) ==
    /\ step[p] = "delete"
    /\ IF held[p].node \in DOMAIN nodes
       THEN /\ nodes' = Restrict(nodes, DOMAIN nodes \ {held[p].node})
            /\ login' = [m \in Machines |-> IF login[m] = held[p].node THEN 0 ELSE login[m]]
            /\ LoggedOut(nodes[held[p].node].machine)
            /\ \/ To(p, "write") /\ UNCHANGED lost
               \/ To(p, "idle") /\ lost < MaxFailures /\ lost' = lost + 1
       ELSE End(p) /\ UNCHANGED <<nodes, login, lost>>
    /\ UNCHANGED <<users, keys, lastId, pending, fleet, serving, order, shown, given,
                   happened, history>>

\* HostManager::remove_host: the roster is read again; a Host already gone is
\* an error.
WriteRoster(p) ==
    /\ step[p] = "write"
    /\ IF order[p].about \in DOMAIN fleet
       THEN /\ fleet' = Restrict(fleet, DOMAIN fleet \ {order[p].about})
            /\ left' = Put(left, order[p].about,
                           [listed |-> held[p].listed, said |-> held[p].said])
       ELSE UNCHANGED <<fleet, left>>
    /\ End(p)
    /\ UNCHANGED <<store, login, serving, order, shown, given, happened, lost, starved, chosen>>

----------------------------------------------------------------------------
(* A run that enters the tailscale role: mint before the play (#768).      *)

\* Mutant: the coordinator's listing is asked instead of the target.
ListedAsEnrolled(m) == \E n \in DOMAIN nodes : nodes[n].machine = m

\* target_is_enrolled: the target's own tailscaled.
Enrolled(m) == login[m] # 0

Probe(p) ==
    /\ step[p] = "probe"
    /\ IF Enrolled(order[p].about)
       THEN To(p, "play") /\ With(p, [held[p] EXCEPT !.why = "enrolled"])
       ELSE To(p, "only_user") /\ UNCHANGED held
    /\ UNCHANGED <<store, login, fleet, serving, order>> /\ Stay

\* mint_against_coordinator: the tailnet's only user; zero and several stop the
\* run.  The key is stamped with the tier the roster had for the Host when the
\* coordinator was looked up.
OnlyUser(p) ==
    /\ step[p] = "only_user"
    /\ IF Cardinality(DOMAIN users) = 1
       THEN \E u \in DOMAIN users :
              To(p, "mint") /\ With(p, [held[p] EXCEPT !.user = u, !.why = "minted"])
       ELSE End(p)
    /\ UNCHANGED <<store, login, fleet, serving, order>> /\ Stay

\* External (ansible/roles/tailscale): a target whose tailscaled is not logged
\* in reads the key, which enrolls one machine; without one the play stops.
Play(p) ==
    /\ step[p] = "play" /\ End(p)
    /\ LET m == order[p].about
           k == held[p].key
       IN IF login[m] # 0 \/ order[p].check
          THEN UNCHANGED <<store, login, starved>>
          ELSE IF k \in DOMAIN keys /\ keys[k].live
          THEN /\ Enroll(m, keys[k].tags)
               /\ keys' = [keys EXCEPT ![k].live = FALSE]
               /\ UNCHANGED <<users, pending, starved>>
          ELSE /\ starved' = starved \cup {[why |-> held[p].why,
                                            since |-> held[p].said = "forgotten"]}
               /\ UNCHANGED <<store, login>>
    /\ UNCHANGED <<fleet, serving, order, shown, given, happened, lost, left, chosen>>

----------------------------------------------------------------------------
(* What happens on the tailnet meanwhile (external).                       *)

Event ==
    /\ happened < MaxEvents /\ happened' = happened + 1
    /\ \* a machine is logged out, or re-imaged under the same hostname: its
       \* node stays listed, tailscaled needs a key
       \/ "forget" \in Events
          /\ \E m \in Machines :
               /\ login[m] # 0 /\ login' = [login EXCEPT ![m] = 0]
               /\ LoggedOut(m)
          /\ UNCHANGED <<store, fleet>>
       \* an administrator deletes a node
       \/ "delete" \in Events
          /\ \E m \in Machines :
               /\ login[m] # 0 /\ login' = [login EXCEPT ![m] = 0]
               /\ nodes' = Restrict(nodes, DOMAIN nodes \ {login[m]})
               /\ LoggedOut(m)
          /\ UNCHANGED <<users, keys, lastId, pending, fleet>>
       \* an administrator renames a user to a name that is free
       \/ "rename" \in Events
          /\ \E u \in DOMAIN users, to \in UserNames :
               /\ \A v \in DOMAIN users : users[v] # to
               /\ users' = [users EXCEPT ![u] = to]
          /\ UNCHANGED <<nodes, keys, lastId, pending, login, fleet, held>>
       \* a device opens a login; headscale forgets it after 15 minutes, and all
       \* of them when it restarts
       \/ "approach" \in Events
          /\ \E m \in Devices : login[m] = 0 /\ pending' = pending \cup {m}
          /\ UNCHANGED <<users, nodes, keys, lastId, login, fleet, held>>
       \/ "drop" \in Events
          /\ pending # {} /\ pending' = {}
          /\ UNCHANGED <<users, nodes, keys, lastId, login, fleet, held>>
       \* a device uses a key it was shown
       \/ "join" \in Events
          /\ \E m \in Devices, k \in shown \cap DOMAIN keys :
               /\ login[m] = 0 /\ keys[k].live /\ Enroll(m, keys[k].tags)
               /\ keys' = [keys EXCEPT ![k].live = FALSE]
          /\ UNCHANGED <<users, pending, fleet, held>>
       \* a key runs out
       \/ "expire" \in Events
          /\ \E k \in DOMAIN keys : keys[k].live /\ keys' = [keys EXCEPT ![k].live = FALSE]
          /\ UNCHANGED <<users, nodes, lastId, pending, login, fleet, held>>
       \* `host detect-tailscale-ip` caches the address a Host has now
       \/ "detect" \in Events
          /\ \E h \in DOMAIN fleet :
               /\ login[h] \in DOMAIN nodes /\ fleet[h].ip # nodes[login[h]].ip
               /\ fleet' = [fleet EXCEPT ![h].ip = nodes[login[h]].ip]
          /\ UNCHANGED <<store, login, held>>
    /\ UNCHANGED <<serving, step, order, shown, given, lost, history>>

HeadscaleNext ==
    \/ \E p \in Clients :
         \/ \E o \in Orders : Give(p, o)
         \/ CreateUser(p) \/ PickUser(p) \/ MintKey(p) \/ ShowKey(p)
         \/ RegisterNode(p) \/ ListNodes(p) \/ TagNode(p)
         \/ Confirm(p) \/ DestroyUser(p)
         \/ Coordinator(p) \/ RevokeNode(p) \/ DeleteNode(p) \/ WriteRoster(p)
         \/ Probe(p) \/ OnlyUser(p) \/ Play(p) \/ Unreached(p)
    \/ Event

HeadscaleSpec == HeadscaleInit /\ [][HeadscaleNext]_headscaleVars

----------------------------------------------------------------------------
(* Properties.                                                             *)

\* A node that a host remove deletes, in whichever step.
Deleted(p) == step[p] = "delete" /\ held[p].node \in DOMAIN nodes \ DOMAIN nodes'

\* host remove deletes the node of another machine only if that node has the
\* Host's very name in headscale, and the address the roster had cached if it had
\* one: however stale the address, whoever holds it by now, and whatever left,
\* came and was renumbered between the listing and the delete (revoke_node).
RevokeSparesOthers ==
    [][\A p \in Clients :
         Deleted(p) /\ nodes[held[p].node].machine # order[p].about =>
            /\ nodes[held[p].node].name = RosterName(order[p].about)
            /\ held[p].ip \in {None, nodes[held[p].node].ip}]_headscaleVars

\* host remove deletes "the node `host` enrolled as" (headscale.rs:778): false
\* where another machine calls itself what the roster calls the Host.
RevokesItsOwn ==
    [][\A p \in Clients :
         Deleted(p) => nodes[held[p].node].machine = order[p].about]_headscaleVars

\* A Host leaves the roster with its node gone: of the nodes headscale had
\* listed, the one that carries its name is deleted, or the operator was told
\* it is not (revoke_host_node, run_host_remove).
RemovedIsRevoked ==
    \A h \in DOMAIN left :
        \A n \in left[h].listed \cap DOMAIN nodes :
            nodes[n].name = RosterName(h) => left[h].said # "nothing"

\* A key is minted for the user that was picked or just made, whatever users
\* were renamed meanwhile (mint_preauth_key takes the id).
MintedForTheChosen == \A k \in DOMAIN keys : keys[k].user = chosen[k]

\* A run that minted nothing because its target said it was enrolled finds it
\* enrolled when the play asks the same question, unless the target was logged
\* out in between (auto_mint_for, target_is_enrolled).
PlayHasItsKey ==
    \A s \in starved : s.why = "enrolled" => s.since
=============================================================================
