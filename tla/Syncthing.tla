----------------------------- MODULE Syncthing -----------------------------
(***************************************************************************)
(* `auberge syncthing pair` (commands/syncthing, services/syncthing): the  *)
(* peer's own Syncthing is given the Host as a device and shares the       *)
(* agent-memory folder with it.  The plan is made from one reading of the  *)
(* configuration and applied call by call, and its owner goes on editing   *)
(* the configuration; a Host is rebuilt under the same name, with a new    *)
(* device ID and tailnet address.                                          *)
(***************************************************************************)
EXTENDS Naturals, Sequences

CONSTANTS
    Hosts,          \* agent Hosts by name
    Ids,            \* device IDs in their canonical spelling
    Local, Friend,  \* this machine's, and one its owner shares other things with
    PathOf,         \* of a Host: where its folder goes by default
    Within,         \* <<p, q>>: the directory p lies within q
    Paths,          \* of folders
    FirstConfigs,   \* the peer's configurations to begin with
    MaxEdits,       \* bound on edits and rebuilds
    MaxPairs        \* bound on pairings

NoPath == "none"
ASSUME SyncthingAssumption ==
    /\ {Local, Friend} \subseteq Ids /\ Local # Friend
    /\ PathOf \in [Hosts -> Paths] /\ NoPath \notin Paths
    /\ Within \subseteq Paths \X Paths /\ \A p \in Paths : <<p, p>> \in Within
    /\ {MaxEdits, MaxPairs} \subseteq Nat

\* A configuration names its devices, this machine's own among them.
ASSUME ConfigsAssumption ==
    \A c \in FirstConfigs :
      /\ {"devices", "memory", "others"} \subseteq DOMAIN c
      /\ {"path", "with", "tuned"} \subseteq DOMAIN c.memory
      /\ Local \in DOMAIN c.devices

VARIABLES
    peer,       \* devices: ID -> [name, at]; memory, the agent-memory folder:
                \* [path, with, tuned]; others: path -> the devices it is shared with
    hostIs,     \* of a Host: its device ID (its tailnet address goes with it)
    cached,     \* of a Host: the address hosts.toml holds
    pair,       \* the command: [phase, host, path, plan, id, address, at, ok]
    edited,     \* whether anything changed since the command read (history)
    edits, pairs
syncthingVars == <<peer, hostIs, cached, pair, edited, edits, pairs>>

Spare == Ids \ {Local, Friend}
NoFolder == [path |-> NoPath, with |-> {}, tuned |-> FALSE]
NoPlan == [stale |-> {}, device |-> FALSE, folder |-> FALSE]
Idle == [phase |-> "idle", host |-> "", path |-> NoPath, plan |-> NoPlan,
         id |-> Local, address |-> Local, at |-> 1, ok |-> FALSE]

SyncthingInit ==
    /\ peer \in FirstConfigs
    /\ hostIs \in {f \in [Hosts -> Spare] : \A h, k \in Hosts : f[h] = f[k] => h = k}
    /\ cached = hostIs /\ pair = Idle /\ edited = FALSE /\ edits = 0 /\ pairs = 0

----------------------------------------------------------------------------
(* The world: Syncthing drops from a folder a device it does not know.      *)
Known(config, with) == with \cap DOMAIN config.devices
Edit ==
    /\ edits < MaxEdits /\ edits' = edits + 1 /\ edited' = TRUE /\ UNCHANGED <<pair, pairs>>
Rebuild ==      \* the Host comes back as another device; hosts.toml may lag behind
    /\ Edit /\ UNCHANGED peer
    /\ \E h \in Hosts, new \in Spare \ {hostIs[k] : k \in Hosts} :
         /\ hostIs' = [hostIs EXCEPT ![h] = new]
         /\ cached' \in {cached, [cached EXCEPT ![h] = new]}
Refresh ==      \* auberge host detect-tailscale-ip
    /\ Edit /\ cached # hostIs /\ cached' = hostIs /\ UNCHANGED <<peer, hostIs>>
ShareOther ==   \* the owner shares a directory with a friend, or stops to
    /\ Edit /\ UNCHANGED <<hostIs, cached>> /\ Friend \in DOMAIN peer.devices
    /\ \/ \E p \in Paths \ DOMAIN peer.others :
            /\ p # peer.memory.path
            /\ peer' = [peer EXCEPT !.others = [q \in DOMAIN @ \cup {p} |-> IF q = p THEN {Friend} ELSE @[q]]]
       \/ \E p \in DOMAIN peer.others : peer' = [peer EXCEPT !.others = [q \in DOMAIN @ \ {p} |-> @[q]]]
ShareMemory ==
    /\ Edit /\ UNCHANGED <<hostIs, cached>> /\ Friend \in DOMAIN peer.devices
    /\ peer.memory # NoFolder
    /\ peer' = [peer EXCEPT !.memory.with = @ \cup {Friend}]

----------------------------------------------------------------------------
(* plan_pairing.                                                            *)
Nested(p, q) == <<p, q>> \in Within \/ <<q, p>> \in Within
Stale(config, h, id) == {d \in DOMAIN config.devices : config.devices[d].name = h /\ d # id}
NoLeak(config, p) == \A q \in DOMAIN config.others : ~Nested(q, p)
OneTenant(config, p, ours) ==
    config.memory # NoFolder => config.memory.path = p /\ config.memory.with \subseteq ours
PathOnly(config, h, id, p) == id # Local /\ OneTenant(config, p, {Local, id} \cup Stale(config, h, id))
NotRefused(config, h, id, p) ==
    /\ id # Local
    /\ NoLeak(config, p)
    /\ OneTenant(config, p, {Local, id} \cup Stale(config, h, id))
DeviceFor(h, address) == [name |-> h, at |-> address]
FolderCurrent(config, id) == config.memory.tuned /\ config.memory.with = {Local, id}
PlanPairing(config, h, id, address) ==
    [stale |-> Stale(config, h, id),
     device |-> ~(id \in DOMAIN config.devices /\ config.devices[id] = DeviceFor(h, address)),
     folder |-> config.memory = NoFolder \/ ~FolderCurrent(config, id)]
IsConverged(plan) == plan = NoPlan
\* read_device_id: over SSH, from the Host's own Syncthing.
ReadDeviceId(h) == hostIs[h]

PairEnded(ok) == pair' = [pair EXCEPT !.phase = "done", !.ok = ok]
Elsewhere == UNCHANGED <<hostIs, cached, edits>>

\* run_syncthing_pair, up to the plan: the Host, its address in hosts.toml, its
\* device ID over SSH, and the local Syncthing's own ID and configuration.
Pair ==
    /\ pair.phase \in {"idle", "done"} /\ pairs < MaxPairs /\ pairs' = pairs + 1 /\ UNCHANGED peer /\ Elsewhere
    /\ edited' = FALSE
    /\ \E h \in Hosts, p \in Paths :
         LET id == ReadDeviceId(h)
             plan == PlanPairing(peer, h, id, cached[h])
             next == [Idle EXCEPT !.host = h, !.path = p, !.plan = plan,
                                 !.id = id, !.address = cached[h]]
         IN /\ p \in {PathOf[h], peer.memory.path}
            /\ \/ pair' = [next EXCEPT !.phase = "done"]
               \/ /\ ~NotRefused(peer, h, id, p) /\ pair' = [next EXCEPT !.phase = "done"]
               \/ /\ NotRefused(peer, h, id, p)
                  /\ pair' = IF IsConverged(plan) THEN [next EXCEPT !.phase = "done", !.ok = TRUE]
                             ELSE [next EXCEPT !.phase = "planned"]
\* A dry run ends here; a stale device is asked about, for as long as it takes.
Confirm ==
    /\ pair.phase = "planned" /\ UNCHANGED <<peer, edited, pairs>> /\ Elsewhere
    /\ \/ pair' = [pair EXCEPT !.phase = "applying"]
       \/ PairEnded(FALSE)

Steps == <<"device", "folder", "stale">>
FolderFirst == <<"folder", "device", "stale">>
Order == Steps
Doing(step) == pair.phase = "applying" /\ pair.at \in DOMAIN Order /\ Order[pair.at] = step
Call(step, part) ==     \* apply: a call fails, or does its part of the plan as it was made
    /\ Doing(step) /\ UNCHANGED <<edited, pairs>> /\ Elsewhere
    /\ \/ PairEnded(FALSE) /\ UNCHANGED peer
       \/ part
PutDevice == Call("device",
    /\ pair' = [pair EXCEPT !.at = @ + 1]
    /\ peer' = IF ~pair.plan.device THEN peer
               ELSE [peer EXCEPT !.devices = [d \in DOMAIN @ \cup {pair.id} |->
                        IF d = pair.id THEN DeviceFor(pair.host, pair.address) ELSE @[d]]])
PutFolder == Call("folder",
    /\ pair' = [pair EXCEPT !.at = @ + 1]
    /\ peer' = IF ~pair.plan.folder THEN peer
               ELSE [peer EXCEPT !.memory = [path |-> pair.path, tuned |-> TRUE,
                                             with |-> Known(peer, {Local, pair.id})]])
StaleLeft == pair.plan.stale \cap DOMAIN peer.devices
DeleteStale == Call("stale",
    /\ \/ StaleLeft = {} /\ pair' = [pair EXCEPT !.at = @ + 1] /\ UNCHANGED peer
       \/ pair' = pair /\ \E d \in StaleLeft :
            peer' = [peer EXCEPT !.devices = [e \in DOMAIN @ \ {d} |-> @[e]],
                                 !.memory.with = @ \ {d}, !.others = [q \in DOMAIN @ |-> @[q] \ {d}]])
Paired == /\ pair.phase = "applying" /\ pair.at > Len(Order) /\ PairEnded(TRUE)
          /\ UNCHANGED <<peer, edited, pairs>> /\ Elsewhere

SyncthingNext ==
    \/ Rebuild \/ Refresh \/ ShareOther \/ ShareMemory
    \/ Pair \/ Confirm \/ PutDevice \/ PutFolder \/ DeleteStale \/ Paired
SyncthingSpec == SyncthingInit /\ [][SyncthingNext]_syncthingVars

----------------------------------------------------------------------------
Readers(config) ==  \* the devices some file of the memories goes to
    config.memory.with \cup UNION {config.others[q] : q \in {q \in DOMAIN config.others : Nested(q, config.memory.path)}}
Done == pair.phase = "done" /\ pair.ok /\ ~edited
PairedIsPrivate == Done => Readers(peer) \subseteq {Local, hostIs[pair.host]}
PairedIsConverged ==
    Done => IsConverged(PlanPairing(peer, pair.host, hostIs[pair.host], cached[pair.host]))
\* A pairing that ends well, with nobody editing meanwhile, leaves the memories
\* readable by this machine and that Host alone, through their own folder or one
\* around or inside it (plan_pairing, syncthing.rs:146-195); and it leaves nothing
\* for a rerun to change, whatever failed attempt, rebuild or rename came before
\* (Plan::is_converged, LocalSyncthing::apply).
PairedIsSettled == PairedIsPrivate /\ PairedIsConverged
=============================================================================
