----------------------------- MODULE Identities -----------------------------
(***************************************************************************)
(* The operator's SSH keys (src/commands/ssh.rs, src/services/ssh.rs,      *)
(* services/ssh/transport.rs): `ssh keygen` makes a pair for a Host,       *)
(* `ssh add-key` appends a public key on the Host over a connection made   *)
(* with a key the operator names, and every other command resolves a key   *)
(* and may join a control socket that an earlier one left open.  The       *)
(* commands run beside each other; keygen may fail or die between steps.   *)
(***************************************************************************)
EXTENDS Naturals

CONSTANTS
    Aliases,     \* Hosts of the roster
    Own,         \* the operator's pair in ~/.ssh
    BoxOf,       \* the machine and user a Host of the roster is reached at
    KeyOf,       \* of a Host: where its ssh_key points, or itself if it has none
    Migratable,  \* Hosts with a key at the path used before
    Ragged,      \* machines whose authorized_keys does not end its last line
    MaxKeys,     \* bound on pairs made
    MaxKeygenFailures  \* bound on failures and deaths of keygen

Accounts == {BoxOf[n] : n \in Aliases}
Places == Aliases \cup {Own}      \* of pairs; a Host's derived place is its name
ASSUME IdentitiesAssumption ==
    /\ Own \notin Aliases /\ BoxOf \in [Aliases -> Accounts] /\ KeyOf \in [Aliases -> Places]
    /\ Migratable \subseteq Aliases /\ Ragged \subseteq Accounts
    /\ MaxKeys \in Nat \ {0} /\ MaxKeygenFailures \in Nat

VARIABLES
    private, public, \* the key at each place, 0 where there is none
    generated,       \* pairs made so far; a pair is its number
    accepted,        \* what each machine's authorized_keys lets in
    ragged,          \* machines whose authorized_keys does not end its last line
    master,          \* the key whose control socket to a machine is open, or 0
    gen,             \* keygen: [phase, name, force]
    add,             \* add-key: [phase, name, with, which, key, opened, named, steady, ok]
    used,            \* the last other command: [name, key, opened]
    genFailures
pairs == <<private, public, generated>>
boxes == <<accepted, ragged>>
IdentityVars == <<pairs, boxes, master, gen, add, used, genFailures>>

NoGen == [phase |-> "idle", name |-> Own, force |-> FALSE]
NoAdd == [phase |-> "idle", name |-> Own, with |-> Own, which |-> Own, key |-> 0,
          opened |-> 0, named |-> 0, steady |-> TRUE, ok |-> FALSE]

\* A provider's image lets the operator's own key in.
IdentitiesInit ==
    /\ generated = 1 /\ private = [p \in Places |-> IF p = Own THEN 1 ELSE 0] /\ public = private
    /\ accepted = [b \in Accounts |-> {1}] /\ ragged = Ragged /\ master = [b \in Accounts |-> 0]
    /\ gen = NoGen /\ add = NoAdd /\ used = [name |-> Own, key |-> 0, opened |-> 0]
    /\ genFailures = 0

----------------------------------------------------------------------------
(* keygen.                                                                  *)
Keygen ==
    /\ gen.phase = "idle" /\ generated < MaxKeys
    /\ \E n \in Aliases, force \in BOOLEAN :
         LET refuses == ~force /\ (private[n] # 0 \/ n \in Migratable)
         IN /\ ~refuses
            /\ gen' = [phase |-> IF private[n] = 0 THEN "generate" ELSE "private", name |-> n, force |-> force]
    /\ UNCHANGED <<pairs, boxes, master, add, used, genFailures>>

Becomes(phase) == gen' = [gen EXCEPT !.phase = phase]
\* --force removes the private key, then the public one that lay beside it.
PrivateFirst == "public"
KeepPublic == "generate"
AfterPrivate == PrivateFirst
RemovePrivate ==
    /\ gen.phase = "private" /\ private' = [private EXCEPT ![gen.name] = 0]
    /\ Becomes(AfterPrivate) /\ UNCHANGED <<public, generated, boxes, master, add, used, genFailures>>
RemovePublic ==
    /\ gen.phase = "public" /\ public' = [public EXCEPT ![gen.name] = 0]
    /\ Becomes("generate") /\ UNCHANGED <<private, generated, boxes, master, add, used, genFailures>>
\* ssh-keygen writes the private key, then the public one.
WritePrivate ==
    /\ gen.phase = "generate" /\ private[gen.name] = 0
    /\ generated' = generated + 1 /\ private' = [private EXCEPT ![gen.name] = generated + 1]
    /\ Becomes("halfway") /\ add' = [add EXCEPT !.steady = @ /\ add.which # gen.name]
    /\ UNCHANGED <<public, boxes, master, used, genFailures>>
WritePublic ==
    /\ gen.phase = "halfway" /\ public' = [public EXCEPT ![gen.name] = private[gen.name]]
    /\ gen' = NoGen /\ UNCHANGED <<private, generated, boxes, master, add, used, genFailures>>
KeygenFails ==
    /\ gen.phase # "idle" /\ genFailures < MaxKeygenFailures /\ genFailures' = genFailures + 1
    /\ gen' = NoGen /\ UNCHANGED <<pairs, boxes, master, add, used>>

----------------------------------------------------------------------------
(* Connections.                                                             *)
Present(p) == private[p] # 0
LetsIn(b, key) == key \in accepted[b]

\* resolve_ssh_key_path: the roster's ssh_key, and the derived place if nothing
\* is there.
Resolved(n) == IF Present(KeyOf[n]) THEN KeyOf[n] ELSE n
Opens(b, key) == IF master[b] # 0 THEN master[b] ELSE key

\* Any other command (Reach::Shared): over the open socket, or with its key,
\* which then leaves one open.
Session ==
    /\ \E n \in Aliases :
         LET b == BoxOf[n]  key == private[Resolved(n)]  opened == Opens(b, key)
         IN /\ key # 0
            /\ IF master[b] # 0 \/ LetsIn(b, key)
               THEN master' = [master EXCEPT ![b] = opened] /\ used' = [name |-> n, key |-> key, opened |-> opened]
               ELSE used' = [name |-> n, key |-> key, opened |-> 0] /\ UNCHANGED master
    /\ UNCHANGED <<pairs, boxes, gen, add, genFailures>>
Expire ==   \* ControlPersist
    /\ \E b \in Accounts : master[b] # 0 /\ master' = [master EXCEPT ![b] = 0]
    /\ UNCHANGED <<pairs, boxes, gen, add, used, genFailures>>

----------------------------------------------------------------------------
(* add-key.                                                                 *)
\* The key to connect with: -c names any, else the derived one if it is there,
\* else one picked from the Host's directory and ~/.ssh.
Offered(n, named) ==
    IF named THEN {p \in Places : Present(p)} ELSE IF Present(n) THEN {n} ELSE {p \in {Own} : Present(p)}
\* The public key to authorize: -a names any, else one picked from the same two.
Offering(n, named) == {p \in (IF named THEN Places ELSE {n, Own}) : public[p] # 0}
AuthorizeKey ==
    /\ add.phase \in {"idle", "done"}
    /\ \E n \in Aliases, named, chosen \in BOOLEAN :
       \E with \in Offered(n, named), which \in Offering(n, chosen) :
         add' = [NoAdd EXCEPT !.phase = "confirm", !.name = n, !.with = with, !.which = which,
                              !.key = public[which], !.steady = gen = NoGen \/ gen.name # which]
    /\ UNCHANGED <<pairs, boxes, master, gen, used, genFailures>>

\* Reach::FirstContact has no control socket.
JoinsMaster == Opens(BoxOf[add.name], private[add.with])
NamedKey == private[add.with]
FirstContact == NamedKey
Ended(opened, ok) == add' = [add EXCEPT !.phase = "done", !.opened = opened, !.named = NamedKey, !.ok = ok]
\* authorize_key: `echo >>`; what follows an unfinished line is part of that line.
Authorize ==
    /\ add.phase = "confirm"
    /\ LET b == BoxOf[add.name]
       IN  \/ Ended(0, FALSE) /\ UNCHANGED boxes
           \/ /\ FirstContact # 0 /\ LetsIn(b, FirstContact)
              /\ accepted' = IF b \in ragged THEN accepted ELSE [accepted EXCEPT ![b] = @ \cup {add.key}]
              /\ ragged' = ragged \ {b}
              /\ \E told \in BOOLEAN : Ended(FirstContact, told)    \* or the answer is lost
    /\ UNCHANGED <<pairs, master, gen, used, genFailures>>

IdentitiesNext ==
    \/ Keygen \/ RemovePrivate \/ RemovePublic \/ WritePrivate \/ WritePublic \/ KeygenFails
    \/ Session \/ Expire \/ AuthorizeKey \/ Authorize

----------------------------------------------------------------------------
\* An add-key that succeeded was let in by the key the operator named, not by one
\* that an earlier command's socket stood for; and the pair it was given, if its
\* private half is still there and keygen did not replace it meanwhile, opens the
\* machine, whatever keygen left behind when it failed (run_ssh_add_key,
\* Reach::FirstContact, run_ssh_keygen --force).
AddedKeyOpens ==
    add.phase = "done" /\ add.ok /\ add.steady =>
        /\ add.opened = add.named
        /\ Present(add.which) => LetsIn(BoxOf[add.name], private[add.which])
\* What a command that got through would say of the key at hand; an open socket
\* answers for a key that is gone.
OpenedByItsKey == used.opened # 0 => LetsIn(BoxOf[used.name], used.key)
=============================================================================
