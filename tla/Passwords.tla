------------------------------ MODULE Passwords ------------------------------
(***************************************************************************)
(* Passwords (internal/secrets, internal/cli runSecret and                  *)
(* preparePasswordAuthEnv).  A password is kept under a reference: the      *)
(* secret_ref of the host, or the account it is for.  `secret set` resolves *)
(* its target before it asks for the password and stores it after; a        *)
(* command that finds none says which `secret set` to run.  Other processes *)
(* change hosts.toml at any time.  A secret_ref is any string, and so may   *)
(* be the reference of an account.                                          *)
(***************************************************************************)
EXTENDS Naturals, FiniteSets

CONSTANTS
    Aliases,      \* names that the inventory may define
    Addresses,    \* of machines; one may be the name of an alias, too
    Colons,       \* those with colons in them, as IPv6 has
    Users,        \* users besides the default one
    Ports,        \* ports besides the default one
    Refs,         \* values of secret_ref; some may be accounts
    NoRef,        \* no secret_ref
    DefaultUser, DefaultPort, Absent,
    MaxSecrets    \* bound: passwords in the keychain

PasswordsAssumption ==
    /\ Colons \subseteq Addresses \ Aliases
    /\ DefaultUser \notin Users \cup {Absent} /\ DefaultPort \notin Ports \cup {Absent}
    /\ NoRef \notin Refs

VARIABLES
    inv,          \* the inventory
    keychain,     \* what is kept under which reference: what it was typed for
    setting       \* secret set: idle, or waiting for the password

vars == <<inv, keychain, setting>>

Entries == [host : Addresses, user : Users \cup {Absent}, port : Ports \cup {Absent},
            ref : Refs \cup {NoRef}]
Nobody == [a \in {} |-> Absent]

\* The words of a command that name its target: a name, and options.
Targets == [name : Aliases \cup Addresses, user : Users \cup {Absent}, port : Ports \cup {Absent}]

-----------------------------------------------------------------------------
(* From a target to a reference *)

Or(value, default) == IF value = Absent THEN default ELSE value

\* hosts.Resolve of an alias, parseEndpointSpec of anything else, and the options.
Resolved(t) ==
    IF t.name \in DOMAIN inv
    THEN LET e == inv[t.name] IN
         [ok |-> TRUE, host |-> e.host, ref |-> e.ref,
          user |-> Or(t.user, Or(e.user, DefaultUser)), port |-> Or(t.port, Or(e.port, DefaultPort))]
    ELSE [ok |-> t.name \notin Colons, host |-> t.name, ref |-> NoRef,
          user |-> Or(t.user, DefaultUser), port |-> Or(t.port, DefaultPort)]

Account(r) == <<r.user, r.host, r.port>>

\* What a password is typed for: the account, and whether it is stored by a secret_ref.
Typed(r) == [account |-> Account(r), byRef |-> r.ref # NoRef]

\* Variant: the port is not part of the reference.
RefOfServer(r) == IF r.ref # NoRef THEN r.ref ELSE <<r.user, r.host>>

\* RefForHost.
Ref(r) == IF r.ref # NoRef THEN r.ref ELSE Account(r)

\* Variant: the options are not repeated.
HintByName(t, r) == [name |-> r.host, user |-> Absent, port |-> Absent]

\* secretSetSuggestion: the words after `secret set`.
Hint(t, r) == IF r.ref # NoRef THEN [name |-> t.name, user |-> Absent, port |-> Absent]
              ELSE [name |-> r.host, user |-> r.user, port |-> r.port]

-----------------------------------------------------------------------------
(* hosts.toml and the commands *)

\* hosts set makes the whole entry anew, without a secret_ref; an editor may write one.
SetsHost(a, e) ==
    /\ inv' = [b \in DOMAIN inv \cup {a} |-> IF b = a THEN e ELSE inv[b]]
    /\ UNCHANGED <<keychain, setting>>

RemovesHost(a) ==
    /\ a \in DOMAIN inv
    /\ inv' = [b \in DOMAIN inv \ {a} |-> inv[b]]
    /\ UNCHANGED <<keychain, setting>>

Idle == [pc |-> "idle", ref |-> << >>, secret |-> [account |-> << >>, byRef |-> FALSE]]

\* runSecret, up to the prompt; the user types the password of what the name stands for.
SecretSetAsks(t) ==
    /\ setting.pc = "idle" /\ Resolved(t).ok
    /\ setting' = [pc |-> "prompt", ref |-> Ref(Resolved(t)), secret |-> Typed(Resolved(t))]
    /\ UNCHANGED <<inv, keychain>>

Keep(ref, secret) ==
    /\ ref \in DOMAIN keychain \/ Cardinality(DOMAIN keychain) < MaxSecrets
    /\ keychain' = [r \in DOMAIN keychain \cup {ref} |-> IF r = ref THEN secret ELSE keychain[r]]

\* The store may refuse, and the user may type nothing.
SecretSetStores ==
    /\ setting.pc = "prompt"
    /\ Keep(setting.ref, setting.secret) \/ UNCHANGED keychain
    /\ setting' = Idle
    /\ UNCHANGED inv

SecretDeletes(t) ==
    /\ Resolved(t).ok
    /\ keychain' = [r \in DOMAIN keychain \ {Ref(Resolved(t))} |-> keychain[r]]
    /\ UNCHANGED <<inv, setting>>

\* resolveTarget: with an alias in front of the options there are no options.
Mixed(t, option) == ~option /\ t.name \in DOMAIN inv /\ (t.user # Absent \/ t.port # Absent)

\* preparePasswordAuthEnv of a command whose target is a positional word or --host: it
\* changes nothing, and gives ssh what it finds.  (Whoever asks that ssh gets it: the account,
\* and the jump hosts on the way to it, which have no part here.)
LookUp(t, option) ==
    LET r == Resolved(t) IN
    [runs |-> ~Mixed(t, option) /\ r.ok, ref |-> Ref(r), found |-> Ref(r) \in DOMAIN keychain]

-----------------------------------------------------------------------------
(* Specification *)

Init ==
    /\ inv = Nobody
    /\ keychain = [r \in {} |-> << >>]
    /\ setting = Idle

Next ==
    \/ \E a \in Aliases : RemovesHost(a) \/ \E e \in Entries : SetsHost(a, e)
    \/ \E t \in Targets : SecretSetAsks(t) \/ SecretDeletes(t)
    \/ SecretSetStores

Spec == Init /\ [][Next]_vars

-----------------------------------------------------------------------------
(* Properties *)

TypeOK ==
    /\ inv \in UNION {[A -> Entries] : A \in SUBSET Aliases}
    /\ setting.pc \in {"idle", "prompt"}

\* The password that a command takes from the keychain was typed for the account that the
\* command is for, whatever happens to hosts.toml between the resolution, the prompt and
\* the command, unless a secret_ref, which may be that of several hosts or the reference of
\* an account, is in use now or was when the password was stored.
PasswordOfAccount ==
    /\ TypeOK
    /\ \A t \in Targets, option \in BOOLEAN :
          LET r == Resolved(t) found == LookUp(t, option) IN
          (found.runs /\ found.found /\ r.ref = NoRef /\ ~keychain[found.ref].byRef) =>
              keychain[found.ref].account = Account(r)

\* An address that resolves to something else when it is given as a name.
Ambiguous(address) ==
    \/ address \in Colons
    \/ address \in DOMAIN inv /\ (inv[address].ref # NoRef \/ inv[address].host # address)

\* The `secret set` that a command without a password suggests stores the password
\* where the command will look for it, unless the address of the host is itself an
\* alias of another one, or one with colons.
HintLeads ==
    \A t \in Targets, option \in BOOLEAN :
        LET r == Resolved(t) found == LookUp(t, option) hint == Hint(t, r) IN
        (found.runs /\ (r.ref # NoRef \/ ~Ambiguous(r.host))) =>
            Resolved(hint).ok /\ Ref(Resolved(hint)) = found.ref
=============================================================================
