------------------------------- MODULE Routes -------------------------------
(***************************************************************************)
(* Which Host a command acts on and how it is reached                      *)
(* (src/services/route.rs, src/services/inventory.rs, src/prompt.rs,       *)
(* hosts::select_or_arg): the roster declares, `--via` overrides, a picker *)
(* chooses among what was listed before it opened.  A play is given two    *)
(* addresses of its Host and the allowlist fail2ban renders; `dns set-all` *)
(* publishes one.  The roster may change between any two reads of it.      *)
(***************************************************************************)
EXTENDS Naturals, FiniteSets, Functions

CONSTANTS
    Declared,      \* the rosters there may be: Host -> [pub, ts, prefer]
    Bundled,       \* the Hosts of ansible/inventory.yml: Host -> its address
    NoAddress,     \* no tailscale_ip is cached, no Host was reached
    MaxCommands,   \* bound on commands
    MaxDeclares    \* bound on changes of the roster

RouteHosts == DOMAIN Bundled \cup UNION {DOMAIN r : r \in Declared}
ASSUME RoutesAssumption ==
    /\ DOMAIN Bundled \cap UNION {DOMAIN r : r \in Declared} = {}
    /\ MaxCommands \in Nat /\ MaxDeclares \in Nat

VARIABLES
    declared,   \* what hosts.toml says
    override,   \* the slot of this run's --via, 0 for none
    reached,    \* the override decided a route in this run
    cmd,        \* [kind, phase, host, tty, entry, connect, pub, peers, given, exit]
    allow,      \* Host -> the peers its rendered jail never bans
    since,      \* Hosts whose jail was rendered from the roster as it is
    published,  \* addresses that public records were given
    commands, declares
routeVars == <<declared, override, reached, cmd, allow, since, published, commands, declares>>

Nobody == "none"     \* no such Host, or entry
Kinds == {"play", "session", "publish"}
NoInventory == [ansible_host |-> NoAddress, public_address |-> NoAddress]
NoRoute == [kind |-> "play", phase |-> "idle", host |-> Nobody, tty |-> FALSE, entry |-> << >>,
            connect |-> NoAddress, pub |-> NoAddress, peers |-> {}, given |-> NoInventory,
            exit |-> "none"]

RoutesInit ==
    /\ declared \in Declared /\ override = 0 /\ reached = FALSE /\ cmd = NoRoute
    /\ allow = [n \in RouteHosts |-> {}] /\ since = {} /\ published = {}
    /\ commands = 0 /\ declares = 0

----------------------------------------------------------------------------
(* route.rs.                                                                *)
Via == <<"public", "tailnet">>
\* A Via takes the slot after its place in ALL, which starts at zero.
FromSlot(slot) == IF slot = 0 THEN Nobody ELSE Via[slot]

DeclaredVia(e) == IF e.prefer THEN "tailnet" ELSE "public"
\* route_over: NoAddress is a failure; there is no falling back.
RouteOver(e, via) == IF via = "tailnet" THEN e.ts ELSE e.pub
DeclaredRoute(e) == RouteOver(e, DeclaredVia(e))
Resolve(e) == IF override = 0 THEN DeclaredRoute(e) ELSE RouteOver(e, FromSlot(override))
\* Mutant: only the addresses in use.
PeersInUse(r) == {DeclaredRoute(r[n]) : n \in DOMAIN r}
\* Both addresses of every Host.
PeerAddresses(r) == ({r[n].pub : n \in DOMAIN r} \cup {r[n].ts : n \in DOMAIN r}) \ {NoAddress}

(* inventory.rs.                                                            *)
PublicAddress(e) == e.pub
\* get_hosts: one entry whose declared route cannot be taken fails the listing.
Listable == \A n \in DOMAIN declared : DeclaredRoute(declared[n]) # NoAddress
\* Host -> public address; the inventory only where there is no roster.
Listed == IF declared = << >> THEN Bundled
          ELSE [n \in DOMAIN declared |-> PublicAddress(declared[n])]

\* What a picker offers, read before it opens: names and public addresses, or
\* whole entries where the roster is asked (hosts::select_or_arg).
RowsFor(kind) == IF kind = "session" THEN declared ELSE Listed
\* The entry a command acts on, as the inventory has it: both its addresses.
InventoryHost(e) == [connect |-> Resolve(e), pub |-> PublicAddress(e)]

----------------------------------------------------------------------------
Fail == cmd' = [cmd EXCEPT !.phase = "finish", !.exit = "failed"]

\* main sets the override before any command, a new process has reached nobody.
BeginCommand ==
    /\ cmd.phase = "idle" /\ commands < MaxCommands /\ commands' = commands + 1
    /\ \E kind \in Kinds, host \in RouteHosts \cup {Nobody}, tty \in BOOLEAN, slot \in 0..2 :
         /\ override' = slot /\ reached' = FALSE
         /\ cmd' = [NoRoute EXCEPT !.kind = kind, !.host = host, !.tty = tty,
                       !.phase = IF kind = "publish" \/ host = Nobody THEN "list" ELSE "resolve"]
    /\ UNCHANGED <<declared, allow, since, published, declares>>

ListHosts ==
    /\ cmd.phase = "list"
    /\ IF cmd.kind # "session" /\ ~Listable THEN Fail
       ELSE cmd' = [cmd EXCEPT !.phase = "pick", !.entry = RowsFor(cmd.kind)]
    /\ UNCHANGED <<declared, override, reached, allow, since, published, commands, declares>>

\* select_item: none is an error, a lone one needs no terminal, a picker may be
\* dismissed.  The row picked is what was listed.
Rows == DOMAIN cmd.entry
Picked(n) ==
    cmd' = [cmd EXCEPT !.phase = CASE cmd.kind = "publish" -> "publish"
                                   [] cmd.kind = "session" -> "connect"
                                   [] OTHER -> "resolve",
                       !.host = n, !.entry = IF cmd.kind = "play" THEN << >> ELSE cmd.entry[n]]
Pick ==
    /\ cmd.phase = "pick"
    /\ \/ \E n \in Rows :
             /\ \/ cmd.host = n
                \/ cmd.host = Nobody /\ (cmd.tty \/ Rows = {n})
             /\ Picked(n)
       \/ cmd.host = Nobody /\ (cmd.tty \/ Cardinality(Rows) # 1) /\ Fail
       \/ cmd.host # Nobody /\ cmd.host \notin Rows /\ Fail
    /\ UNCHANGED <<declared, override, reached, allow, since, published, commands, declares>>

\* A play's Host is read again by name, so that the picked one takes the route a
\* named one does; the inventory has it only where the roster has not, declares
\* no policy, and is no answer to --via.
ReadHost ==
    /\ cmd.phase = "resolve"
    /\ IF cmd.host \in DOMAIN declared
       THEN cmd' = [cmd EXCEPT !.phase = "connect", !.entry = declared[cmd.host]]
       ELSE IF cmd.kind = "play" /\ cmd.host \in DOMAIN Bundled
       THEN cmd' = [cmd EXCEPT !.phase = "peers", !.connect = Bundled[cmd.host], !.pub = Bundled[cmd.host]]
       ELSE Fail
    /\ UNCHANGED <<declared, override, reached, allow, since, published, commands, declares>>

Connect ==
    /\ cmd.phase = "connect"
    /\ LET at == InventoryHost(cmd.entry)
       IN IF at.connect = NoAddress THEN Fail /\ UNCHANGED reached
          ELSE /\ reached' = (reached \/ override # 0)
               /\ cmd' = [cmd EXCEPT !.connect = at.connect, !.pub = at.pub,
                             !.phase = IF cmd.kind = "play" THEN "peers" ELSE "finish",
                             !.exit = IF cmd.kind = "play" THEN @ ELSE "ok"]
    /\ UNCHANGED <<declared, override, allow, since, published, commands, declares>>

\* hosts_ignoreip_var reads the roster twice: the peers, then the listing.
ReadPeers ==
    /\ cmd.phase = "peers" /\ cmd' = [cmd EXCEPT !.phase = "render", !.peers = PeerAddresses(declared)]
    /\ since' = since \cup {cmd.host}
    /\ UNCHANGED <<declared, override, reached, allow, published, commands, declares>>
Render ==
    /\ cmd.phase = "render"
    /\ IF ~Listable THEN Fail /\ since' = since \ {cmd.host} /\ UNCHANGED allow
       ELSE cmd' = [cmd EXCEPT !.phase = "inventory", !.peers = @ \cup Range(Listed)] /\ UNCHANGED <<since, allow>>
    /\ UNCHANGED <<declared, override, reached, published, commands, declares>>

\* write_inventory_file: the addresses that the play's Host is given.
Inventory(c) == [ansible_host |-> c.connect, public_address |-> c.pub]
PlayRoles ==
    /\ cmd.phase = "inventory" /\ allow' = [allow EXCEPT ![cmd.host] = cmd.peers]
    /\ cmd' = [cmd EXCEPT !.phase = "finish", !.exit = "ok", !.given = Inventory(cmd)]
    /\ UNCHANGED <<declared, override, reached, since, published, commands, declares>>

\* dns set-all takes the address its row was listed with.
Publish ==
    /\ cmd.phase = "publish" /\ published' = published \cup {cmd.entry}
    /\ cmd' = [cmd EXCEPT !.phase = "finish", !.exit = "ok", !.pub = cmd.entry]
    /\ UNCHANGED <<declared, override, reached, allow, since, commands, declares>>

\* ensure_override_reached_a_host, after the command.
Finish ==
    /\ cmd.phase = "finish"
    /\ cmd' = [cmd EXCEPT !.phase = "idle",
                  !.exit = IF @ = "ok" /\ override # 0 /\ ~reached THEN "unused" ELSE @]
    /\ UNCHANGED <<declared, override, reached, allow, since, published, commands, declares>>

\* Another command, or a hand: a write through the CLI validates, an edit does not.
Declare ==
    /\ declares < MaxDeclares /\ declares' = declares + 1
    /\ \E r \in Declared \ {declared} : declared' = r
    /\ since' = {}
    /\ UNCHANGED <<override, reached, cmd, allow, published, commands>>

RoutesNext == BeginCommand \/ ListHosts \/ Pick \/ ReadHost \/ Connect \/ ReadPeers \/ Render
              \/ PlayRoles \/ Publish \/ Finish \/ Declare

----------------------------------------------------------------------------
EverPublic == Range(Bundled) \cup UNION {{r[n].pub : n \in DOMAIN r} : r \in Declared}
\* A run with --via that exited 0 connected over the route the flag names.
FlagMovedTheRoute ==
    cmd.phase = "idle" /\ cmd.exit = "ok" /\ override # 0 =>
        LET over == RouteOver(cmd.entry, FromSlot(override))
        IN cmd.kind # "publish" /\ cmd.connect = over /\ (cmd.kind = "play" => cmd.given.ansible_host = over)
\* What is published, and given to a play as its Host's public address, is public.
PublicStaysPublic == published \cup {cmd.pub, cmd.given.public_address} \subseteq EverPublic \cup {NoAddress}
\* A jail rendered since the roster last changed bans no peer on either of its
\* addresses, the one not in use included.
AllowlistIsWhole ==
    \A n \in since : cmd.phase = "idle" =>
        \A m \in DOMAIN declared : {declared[m].pub, declared[m].ts} \ {NoAddress} \subseteq allow[n]
\* The three questions route.rs keeps apart, each answered right through picks,
\* overrides and a roster that changes meanwhile: where the CLI connects, what the
\* world is told, and whom fail2ban spares (resolve, public_address,
\* peer_addresses, ensure_override_reached_a_host, hosts_ignoreip_var,
\* write_inventory_file).
RoutesAreKept == FlagMovedTheRoute /\ PublicStaysPublic /\ AllowlistIsWhole
\* What hosts::select_or_arg does not give: the entry picked is the one the roster
\* has when the connection is made.
PickedIsCurrent == cmd.phase = "connect" => cmd.host \in DOMAIN declared /\ cmd.entry = declared[cmd.host]
=============================================================================
