------------------------------ MODULE MultiExec ------------------------------
(***************************************************************************)
(* exec @tag (internal/cli, runMultiExec): the hosts that carry a tag are   *)
(* resolved, one goroutine runs the command on each, and the results are    *)
(* reported when all are in.  A goroutine accepts host keys (KnownHosts),   *)
(* sets up password authentication, runs ssh under the time limit and       *)
(* appends to the audit log.                                                *)
(***************************************************************************)
EXTENDS Naturals, SequencesExt, FiniteSets

CONSTANTS
    Aliases,      \* hosts of the inventory
    JumpHost,     \* a jump host
    Behind,       \* the aliases that are reached through it
    Password,     \* the aliases that authenticate with a stored password
    Tags,         \* tags of hosts
    Tagged,       \* bound: which hosts carry which tags
    Specs,        \* tag arguments
    HostKey,      \* the key of every server
    KeyFaults,    \* what KnownHosts may have to face
    Timeout       \* whether --timeout is given

ASSUME MultiExecAssumption ==
    /\ IsFiniteSet(Aliases) /\ JumpHost \notin Aliases
    /\ KeyFaults \subseteq {"rekey", "tools", "partial", "noise", "off"}
    /\ Tagged \subseteq [Aliases -> SUBSET Tags]
    /\ Behind \subseteq Aliases /\ Password \subseteq Aliases
    /\ Timeout \in BOOLEAN

\* A tag argument is a list of parts, each with or without its @.  The first one has
\* it, or runExec would not take the argument for one.
ASSUME SpecsAssumption ==
    \A s \in Specs : s # << >> /\ s[1].at
        /\ \A i \in DOMAIN s : s[i].at \in BOOLEAN /\ s[i].tag \in Tags \cup {"all"}

VARIABLES
    tags, broken, \* the inventory: tags of every host, hosts that do not resolve
    spec,         \* the argument
    main,         \* runMultiExec: control point, hosts in order, next to start, exit
    wg,           \* the counter of the WaitGroup
    go,           \* the goroutines: control point, outcome in hand, context expired
    slot,         \* results
    remote,       \* the command on every host
    askpass,      \* hosts for which an askpass script is on the disk
    audit,        \* events of every host that can be read in the audit log
    log,          \* the log: whether an append to it has failed, and how it ends
    known, serverKey, client      \* KnownHosts, one call per goroutine

keyVars == <<known, serverKey, client>>
vars == <<tags, broken, spec, main, wg, go, slot, remote, askpass, audit, log, keyVars>>

KH == INSTANCE KnownHosts WITH
        Clients <- Aliases, Names <- Aliases \cup {JumpHost}, OtherPorts <- {},
        Keys <- {HostKey}, MaxHops <- 1, Environments <- {KeyFaults},
        faults <- KeyFaults

-----------------------------------------------------------------------------
(* Which hosts *)

\* resolveTagSpec: the @ of the argument is taken off, those of later parts are not.
Parts(s) == {[s[i] EXCEPT !.at = s[i].at /\ i > 1] : i \in DOMAIN s}

Matches(a, s) ==
    LET wanted == {p.tag : p \in {q \in Parts(s) : ~q.at}} IN
    "all" \in wanted \/ tags[a] \cap wanted # {}

\* hostsForTags, in the order in which the map happens to be walked.
Selected == {a \in Aliases : Matches(a, spec)}

Route(a) == (IF a \in Behind THEN <<<<JumpHost, 22>>>> ELSE << >>) \o <<<<a, 22>>>>

-----------------------------------------------------------------------------
(* runMultiExec *)

Zero == [alias |-> JumpHost, ok |-> TRUE]     \* multiExecResult{}: no alias, no error

\* Every host is resolved and validated before the first command runs.
Selects ==
    /\ main.pc = "select"
    /\ IF Selected = {} \/ Selected \cap broken # {}
       THEN /\ main' = [main EXCEPT !.pc = "returned", !.exit = "failed"]
            /\ UNCHANGED slot
       ELSE \E order \in SetToSeqs(Selected) :
              /\ main' = [main EXCEPT !.pc = "spawn", !.order = order]
              /\ slot' = [i \in DOMAIN order |-> Zero]
    /\ UNCHANGED <<tags, broken, spec, wg, go, remote, askpass, audit, log, keyVars>>

\* wg.Add(1) and go; the goroutine's context, with its timer, is made there.
Spawns ==
    /\ main.pc = "spawn" /\ main.next <= Len(main.order)
    /\ go' = [go EXCEPT ![main.order[main.next]].pc = "keys"]
    /\ wg' = wg + 1
    /\ main' = [main EXCEPT !.next = @ + 1]
    /\ UNCHANGED <<tags, broken, spec, slot, remote, askpass, audit, log, keyVars>>

Reports == main' = [main EXCEPT !.pc = "returned",
                      !.exit = IF \A i \in DOMAIN slot : slot[i].ok THEN "ok" ELSE "failed"]

\* wg.Wait, then the report.
Returns ==
    /\ main.pc = "spawn" /\ main.next > Len(main.order) /\ wg = 0
    /\ Reports
    /\ UNCHANGED <<tags, broken, spec, wg, go, slot, remote, askpass, audit, log, keyVars>>

-----------------------------------------------------------------------------
(* A goroutine *)

Goes(a, pc) == go' = [go EXCEPT ![a].pc = pc]
GoesWith(a, pc, ok) == go' = [go EXCEPT ![a].pc = pc, ![a].ok = ok]

\* ensureKnownHosts, which knows nothing of the context.
KeyStep(a) ==
    /\ go[a].pc = "keys" /\ KH!Step(a)
    /\ UNCHANGED <<tags, broken, spec, main, wg, go, slot, remote, askpass, audit, log>>

\* Variant: the command runs although its host keys could not be accepted.
KeysIgnored(a) ==
    /\ go[a].pc = "keys" /\ client[a].pc \in {"ok", "failed"}
    /\ Goes(a, "auth")
    /\ UNCHANGED <<tags, broken, spec, main, wg, slot, remote, askpass, audit, log, keyVars>>

KeysEnd(a) ==
    /\ go[a].pc = "keys"
    /\ \/ client[a].pc = "ok" /\ Goes(a, "auth")
       \/ client[a].pc = "failed" /\ GoesWith(a, "store", FALSE)
    /\ UNCHANGED <<tags, broken, spec, main, wg, slot, remote, askpass, audit, log, keyVars>>

\* preparePasswordAuthEnv: the password is fetched under the context and a script
\* for ssh to ask is written.  Either may fail.
Authenticates(a) ==
    /\ go[a].pc = "auth"
    /\ \/ a \notin Password /\ Goes(a, "run") /\ UNCHANGED askpass
       \/ a \in Password /\ ~go[a].expired /\ Goes(a, "run") /\ askpass' = askpass \cup {a}
       \/ a \in Password /\ GoesWith(a, "store", FALSE) /\ UNCHANGED askpass
    /\ UNCHANGED <<tags, broken, spec, main, wg, slot, remote, audit, log, keyVars>>

\* ssh starts, unless the context has expired; it may not reach the host.
RunStarts(a) ==
    /\ go[a].pc = "run"
    /\ \/ ~go[a].expired /\ Goes(a, "running") /\ remote' = [remote EXCEPT ![a] = "running"]
       \/ GoesWith(a, "audit", FALSE) /\ UNCHANGED remote
    /\ UNCHANGED <<tags, broken, spec, main, wg, slot, askpass, audit, log, keyVars>>

\* Variant: ssh is not started under the context.
RunEndsWithRemote(a) ==
    /\ go[a].pc = "running"
    /\ remote[a] # "running" /\ GoesWith(a, "audit", remote[a] = "ok")
    /\ UNCHANGED <<tags, broken, spec, main, wg, slot, remote, askpass, audit, log, keyVars>>

\* Variant: ssh killed by the context has no exit status, and no error is seen.
RunEndsKilled(a) ==
    /\ go[a].pc = "running"
    /\ \/ remote[a] # "running" /\ GoesWith(a, "audit", remote[a] = "ok")
       \/ go[a].expired /\ GoesWith(a, "audit", TRUE)
    /\ UNCHANGED <<tags, broken, spec, main, wg, slot, remote, askpass, audit, log, keyVars>>

\* The command has ended, or the connection is lost, or the context kills ssh; in
\* the last two cases the command may be running still.
RunEnds(a) ==
    /\ go[a].pc = "running"
    /\ \/ remote[a] # "running" /\ GoesWith(a, "audit", remote[a] = "ok")
       \/ GoesWith(a, "audit", FALSE)
    /\ UNCHANGED <<tags, broken, spec, main, wg, slot, remote, askpass, audit, log, keyVars>>

\* The end of Service.Exec, which drops the error of Logger.Append.  The event is one
\* write and a newline is its last byte: the write may fail, leave part of the event,
\* or leave all but the newline.
Adds(a) == audit' = [audit EXCEPT ![a] = Append(@, go[a].ok)]
Fails(torn, open) == log' = [failed |-> TRUE, torn |-> torn, open |-> open]

AppendsEvent(a) ==
    /\ ~log.torn /\ log.open = {}
    /\ \/ Adds(a) /\ UNCHANGED log
       \/ Adds(a) /\ Fails(FALSE, {a})
       \/ UNCHANGED audit /\ Fails(TRUE, {})

\* The event continues the line that another one has left: neither can be read.
SpoilsLine ==
    /\ log.torn \/ log.open # {}
    /\ audit' = [b \in Aliases |-> IF b \in log.open THEN << >> ELSE audit[b]]
    /\ \E torn \in BOOLEAN : Fails(torn, {})

AppendsNothing == UNCHANGED audit /\ Fails(log.torn, log.open)

Audits(a) ==
    /\ go[a].pc = "audit"
    /\ AppendsEvent(a) \/ SpoilsLine \/ AppendsNothing
    /\ Goes(a, "store")
    /\ UNCHANGED <<tags, broken, spec, main, wg, slot, remote, askpass, keyVars>>

\* Under the mutex, at the goroutine's own index.
Stores(a) ==
    /\ go[a].pc = "store"
    /\ \E i \in DOMAIN main.order :
          main.order[i] = a /\ slot' = [slot EXCEPT ![i] = [alias |-> a, ok |-> go[a].ok]]
    /\ Goes(a, "cleanup")
    /\ UNCHANGED <<tags, broken, spec, main, wg, remote, askpass, audit, log, keyVars>>

\* The deferred cleanupAuth, the last one deferred and so the first to run.
CleansUp(a) ==
    /\ go[a].pc = "cleanup"
    /\ askpass' = askpass \ {a}
    /\ Goes(a, "leave")
    /\ UNCHANGED <<tags, broken, spec, main, wg, slot, remote, audit, log, keyVars>>

\* The deferred wg.Done.
Done(a) ==
    /\ go[a].pc = "leave"
    /\ wg' = wg - 1
    /\ Goes(a, "done")
    /\ UNCHANGED <<tags, broken, spec, main, slot, remote, askpass, audit, log, keyVars>>

\* The time limit of a goroutine, which runs from its start.
Expires(a) ==
    /\ Timeout
    /\ go[a].pc \notin {"none", "done"} /\ ~go[a].expired
    /\ go' = [go EXCEPT ![a].expired = TRUE]
    /\ UNCHANGED <<tags, broken, spec, main, wg, slot, remote, askpass, audit, log, keyVars>>

RemoteEnds(a) ==
    /\ remote[a] = "running"
    /\ \E how \in {"ok", "bad"} : remote' = [remote EXCEPT ![a] = how]
    /\ UNCHANGED <<tags, broken, spec, main, wg, go, slot, askpass, audit, log, keyVars>>

-----------------------------------------------------------------------------
(* Specification *)

\* An earlier command may have left part of an event at the end of the audit log.
Init ==
    /\ tags \in Tagged
    /\ broken \in SUBSET Aliases
    /\ spec \in Specs
    /\ main = [pc |-> "select", order |-> << >>, next |-> 1, exit |-> "none"]
    /\ wg = 0
    /\ go = [a \in Aliases |-> [pc |-> "none", ok |-> FALSE, expired |-> FALSE]]
    /\ slot = << >>
    /\ remote = [a \in Aliases |-> "idle"]
    /\ askpass = {}
    /\ audit = [a \in Aliases |-> << >>]
    /\ log \in {[failed |-> torn, torn |-> torn, open |-> {}] : torn \in BOOLEAN}
    /\ known = [lines |-> << >>, open |-> FALSE]
    /\ serverKey = [q \in KH!Servers |-> HostKey]
    /\ client = [a \in Aliases |-> [pc |-> "prepare", targets |-> Route(a), at |-> 1,
                                    newline |-> FALSE, entry |-> KH!NoLine]]

Goroutine(a) ==
    \/ KeyStep(a) \/ KeysEnd(a) \/ Authenticates(a) \/ RunStarts(a) \/ RunEnds(a)
    \/ Audits(a) \/ Stores(a) \/ CleansUp(a) \/ Done(a)

Main == Selects \/ Spawns \/ Returns

Next ==
    \/ Main
    \/ \E a \in Aliases : Goroutine(a) \/ Expires(a) \/ RemoteEnds(a)

Spec == Init /\ [][Next]_vars

\* The Go scheduler runs main and every goroutine, and a timer goes off.  That a
\* command ends is not assumed, nor that ssh notices a lost connection: of the ends
\* of a run, the one by an expired context is fair.
FairSpec ==
    /\ Spec
    /\ WF_vars(Main)
    /\ \A a \in Aliases :
          /\ WF_vars(Goroutine(a) /\ (go[a].pc = "running" => go[a].expired))
          /\ WF_vars(Expires(a))

-----------------------------------------------------------------------------
(* Properties *)

TypeOK ==
    /\ main.pc \in {"select", "spawn", "returned"} /\ main.exit \in {"none", "ok", "failed"}
    /\ main.next \in 1..(Len(main.order) + 1)
    /\ wg = Cardinality({a \in Aliases : go[a].pc \notin {"none", "done"}})
    /\ Len(slot) = Len(main.order)
    /\ KH!TypeOK

\* When the report is made every selected host has its result, in its own place; and
\* the state is well typed, the WaitGroup counting the goroutines that run.
EveryHostReported ==
    /\ TypeOK
    /\ main.pc = "returned" /\ main.order # << >> =>
          /\ ToSet(main.order) = Selected
          /\ \A i \in DOMAIN main.order : slot[i].alias = main.order[i]

\* Exit status 0 means that the command was completed on every selected host.
ZeroMeansDoneEverywhere ==
    main.exit = "ok" => Selected # {} /\ \A a \in Selected : remote[a] = "ok"

\* The command starts on a host only when every selected host has been resolved, and
\* ssh has a key for every hop on its way, where ensureKnownHosts promises that.
KeysBeforeCommand ==
    \A a \in Aliases : remote[a] # "idle" =>
        /\ Selected \cap broken = {}
        /\ KH!Promises => \A i \in DOMAIN Route(a) : KH!IsKnown(Route(a)[i])

\* No host has two events, and one that can be read says what the report says.  A host
\* on which the command was started has one, unless an append to the log has failed:
\* nothing tells the user of that.
AuditAgrees ==
    main.pc = "returned" =>
        \A i \in DOMAIN main.order :
            LET a == main.order[i] IN
            \/ audit[a] = <<slot[i].ok>>
            \/ audit[a] = << >> /\ (remote[a] = "idle" \/ log.failed)

\* No askpass script outlives the command.
NoScriptLeft == main.pc = "returned" => askpass = {}

\* What is left when exec @tag returns tells the truth: its report has every selected
\* host in its place, its exit status 0 means that the command was completed on all of
\* them, no event in the audit log says anything else than the report, a missing one of
\* a command that was started means that an append has failed, and no script is there.
ReportTells == EveryHostReported /\ ZeroMeansDoneEverywhere /\ AuditAgrees /\ NoScriptLeft

\* With --timeout the command returns, even if it hangs on every host.
ReturnsInTime == <>(main.pc = "returned")
=============================================================================
