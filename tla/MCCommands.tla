------------------------------ MODULE MCCommands -----------------------------
(***************************************************************************)
(* Instances for TLC of the parts in Commands.  A behaviour is one of one   *)
(* of them, the part that moves; the others stay in one of their initial    *)
(* states.                                                                  *)
(***************************************************************************)
EXTENDS Commands, Naturals, Sequences

CONSTANT Parts    \* those that may move

VARIABLE part     \* the one that moves

-----------------------------------------------------------------------------
(* Values of the constants *)

\* Every combination of the fields; `when` names both hosts or one, failed_when is absent
\* or holds for exit code 1 or 0 alone; 2 attempts is one retry.
AllSteps == [retries : {0, 2}, when : {Aliases, {CHOOSE a \in Aliases : TRUE}},
             ignore : BOOLEAN, failedWhen : {{}, {1}, {0}}]

OneStep == {[retries |-> 0, when |-> {}, ignore |-> FALSE, failedWhen |-> {}]}

TwoFiles == <<"f1", "f2">>
SmallContents == {<< >>, <<"a">>, <<"d">>, <<"b", "c">>}

Nothing == [tool |-> "", host |-> "", as |-> "", dry |-> FALSE, max |-> "", delete |-> ""]
Tool(t) == [Nothing EXCEPT !.tool = t]
OnHost(t, h) == [Nothing EXCEPT !.tool = t, !.host = h]

\* One call for every way through the tools.
ToolCalls ==
    {Tool(t) : t \in {"ssh_hosts_list", "ssh_audit", "ssh_connections", "ssh_hosts_reload",
                      "ssh_playbook_check", "ssh_exec", "no_such_tool"}}
    \cup {OnHost(t, "web") : t \in {"ssh_exec", "ssh_health_check", "ssh_sftp_put"}}
    \cup {OnHost("ssh_exec", "h1")}
    \cup {[OnHost("ssh_sudo_exec", "web") EXCEPT !.as = u] : u \in {"", "www"}}
    \cup {[Tool("ssh_playbook_run") EXCEPT !.dry = d] : d \in BOOLEAN}
    \cup {[Tool("ssh_audit_rotate") EXCEPT !.max = d[1], !.delete = d[2]] :
             d \in {<<"", "">>, <<"half", "half">>, <<"0", "7">>}}

OneHost == <<"web">>

\* A name, and what is also the reference of an account.
SomeRefs == {<<"r">>, <<DefaultUser, "b", DefaultPort>>}

\* One Host line for each kind of name, and the three forms of one; two values of one
\* directive, and the forms of one value.
NoBang == [m \in Negations |-> "a"]
HostLine(names, form) == [kind |-> "host", form |-> form, names |-> names]
SetLine(key, value, form) == [kind |-> "set", form |-> form, key |-> key, value |-> value]
SomeLines ==
    {HostLine(names, "blank") :
        names \in {{"a"}, {"b"}, {"a", "b"}, {"a", "*"}, {"a", "!a"}, {"*", "!a"}}}
    \cup {HostLine({"a"}, "tight"), HostLine({"a"}, "loose")}
    \cup {SetLine("hostname", v, "blank") : v \in Values}
    \cup {SetLine("user", "v1", form) : form \in {"blank", "tight", "loose"}}
    \cup {[kind |-> kind, form |-> "blank"] : kind \in {"match", "comment"}}

-----------------------------------------------------------------------------
(* Behaviours *)

\* The input of the parts that do not move.
Unused ==
    /\ part # "calls" => known = {} /\ file = [hosts |-> Kit!Nobody, ok |-> TRUE, stamp |-> 0]
    /\ part # "playbook" =>
          /\ book = [steps |-> <<CHOOSE s \in Steps : TRUE>>,
                     hosts |-> <<CHOOSE a \in Aliases : TRUE>>, dry |-> FALSE]
          /\ broken = {}
    /\ part # "discover" =>
          /\ range = [ip |-> 0, size |-> 1]
          /\ offers = [a \in Network!Space |-> "ssh"]
    /\ part # "health" => selected = {}
    /\ part # "transfer" =>
          /\ operation = [kind |-> "put", creds |-> "none"]
          /\ source = [f \in {Files[i] : i \in DOMAIN Files} |-> << >>] /\ target = source
          /\ folder = TRUE

\* What is outside of the range matters only if it is dialled, and then something is found.
Outside == \A a \in Network!Space : ~Network!InRange(a) => offers[a] = "ssh"

AnyInit ==
    /\ part \in Parts
    /\ Unused
    /\ Secrets!Init /\ Server!Init /\ Kit!Init /\ Copy!Init /\ Book!Init /\ Checkup!Init
    /\ Parser!Init /\ Network!Init /\ Outside

secretVars == <<inv, keychain, setting>>
lineVars == <<sent, closed, pipe, buffer, server, out>>
callVars == <<file, copy, known, asked, answers, serving, child, done>>
copyVars == <<operation, source, target, folder, link, transfer, tally, before>>
bookVars == <<book, broken, run, ran, result, exit>>
healthVars == <<selected, left, now, verdict, counts, facts, exitcode>>
configVars == <<config, block, imported, parsed>>
scanVars == <<range, offers, main, ips, sem, wg, scan, discovered>>
allVars == <<part, secretVars, lineVars, callVars, copyVars, bookVars, healthVars,
             configVars, scanVars>>

\* The variables of the parts that do not move, and which one moves, stay as they are.
OnlySecrets == UNCHANGED <<part, lineVars, callVars, copyVars, bookVars, healthVars, configVars, scanVars>>
OnlyLines == UNCHANGED <<part, secretVars, callVars, copyVars, bookVars, healthVars, configVars, scanVars>>
OnlyCalls == UNCHANGED <<part, secretVars, lineVars, copyVars, bookVars, healthVars, configVars, scanVars>>
OnlyCopy == UNCHANGED <<part, secretVars, lineVars, callVars, bookVars, healthVars, configVars, scanVars>>
OnlyBook == UNCHANGED <<part, secretVars, lineVars, callVars, copyVars, healthVars, configVars, scanVars>>
OnlyHealth == UNCHANGED <<part, secretVars, lineVars, callVars, copyVars, bookVars, configVars, scanVars>>
OnlyConfig == UNCHANGED <<part, secretVars, lineVars, callVars, copyVars, bookVars, healthVars, scanVars>>
OnlyScan == UNCHANGED <<part, secretVars, lineVars, callVars, copyVars, bookVars, healthVars, configVars>>

KeepsSecrets == part = "secrets" /\ Secrets!Next /\ OnlySecrets
HandlesLines == part = "lines" /\ Server!Next /\ OnlyLines
HandlesCalls == part = "calls" /\ Kit!Next /\ OnlyCalls
Transfers == part = "transfer" /\ Copy!Next /\ OnlyCopy
RunsPlaybook == part = "playbook" /\ Book!Next /\ OnlyBook
ChecksHealth == part = "health" /\ Checkup!Next /\ OnlyHealth
Imports == part = "import" /\ Parser!Next /\ OnlyConfig
Discovers == part = "discover" /\ Network!Next /\ OnlyScan

AnyNext == \/ KeepsSecrets \/ HandlesLines \/ HandlesCalls \/ Transfers
           \/ RunsPlaybook \/ ChecksHealth \/ Imports \/ Discovers

\* The fairness of Mcp and of Discover.
ServesLines ==
    /\ part = "lines" /\ OnlyLines
    /\ Server!Serves \/ (Server!SshEnds /\ ~Server!Unlimited)
MainMoves == part = "discover" /\ (Network!Lists \/ Network!Spawns \/ Network!Returns) /\ OnlyScan
WorkerMoves(i) == part = "discover" /\ i \in DOMAIN scan /\ Network!Goroutine(i) /\ OnlyScan

AnySpec ==
    /\ AnyInit /\ [][AnyNext]_allVars
    /\ WF_allVars(ServesLines) /\ WF_allVars(MainMoves)
    /\ \A i \in 1..Top : WF_allVars(WorkerMoves(i))

-----------------------------------------------------------------------------
(* Properties *)

\* A scan comes to an end, however few places the pool has.
ScanEnds == part = "discover" ~> main.pc = "returned"
=============================================================================
