-------------------------------- MODULE Tools --------------------------------
(***************************************************************************)
(* The tools of the MCP server (internal/mcp, callTool) and what they do.   *)
(* ssh_exec and ssh_diagnose run ssh in the server, on the copy of the      *)
(* inventory that the server loaded when it started, and accept no host     *)
(* keys.  Almost every other tool writes its arguments into a command line  *)
(* and starts `codex-ssh`, which reads hosts.toml anew, parses the line     *)
(* with Go's flag package, and accepts keys.  Who serves the lines of the   *)
(* client is in Mcp.  ssh checks host keys strictly, as it does by default, *)
(* and no host needs a password: a tool could not ask for one.              *)
(***************************************************************************)
EXTENDS Naturals, Sequences, FiniteSets, Functions

CONSTANTS
    Aliases,      \* names that an inventory may define
    Addresses,    \* addresses of machines
    Calls,        \* the calls that the client makes
    BookHosts,    \* the hosts of the playbook, in order
    MaxCalls,     \* bound: calls of one client
    MaxSaves      \* bound: edits of hosts.toml

\* A call has the name of the tool and the arguments that matter to any of them: an
\* alias, an endpoint or nothing; a user; the days of a rotation, which are absent or a
\* number, "half" one between 0 and 1.
CallType == [tool : STRING, host : Aliases \cup Addresses \cup {""}, as : STRING,
             dry : BOOLEAN,
             max : {"", "-1", "0", "half", "7"}, delete : {"", "-1", "0", "half", "7"}]

\* Words that have a meaning of their own on a command line; no argument is one of them.
Dashed == {"--", "--sudo", "--su", "--dry-run", "--max-age", "--delete-age"}

ToolsAssumption ==
    /\ IsFiniteSet(Aliases) /\ BookHosts \in Seq(Range(BookHosts))
    /\ Calls \subseteq CallType /\ \A c \in Calls : {c.host, c.as} \cap Dashed = {}

VARIABLES
    file,         \* hosts.toml: its hosts, whether it decodes, how often it was saved
    copy,         \* the server's inventory
    known,        \* machines whose keys are in known_hosts
    asked,        \* the calls so far
    answers,      \* to all of them, or all but the last: an error? which inventory?
    server,       \* start, idle, busy with a tool, or ssh: with the ssh's effect
    child,        \* the codex-ssh process of a tool
    done          \* what has had an effect, on a machine or on the logs

vars == <<file, copy, known, asked, answers, server, child, done>>

Inventories == UNION {[A -> Addresses] : A \in SUBSET Aliases}
Nobody == [a \in {} |-> ""]

NoChild == [pc |-> "none", words |-> << >>, inv |-> [hosts |-> Nobody, ok |-> TRUE, stamp |-> 0],
            todo |-> << >>, exit |-> 0]

N == Len(asked)
Call == asked[Len(asked)]

-----------------------------------------------------------------------------
(* What a name means *)

\* resolveTarget of the CLI: an alias, or else an endpoint.
Target(inv, name) == IF name \in DOMAIN inv.hosts THEN inv.hosts[name] ELSE name

\* Variant: the endpoint only.
ServerTargetDirect(inv, name) == name

\* resolveHost of the server.
ServerTarget(inv, name) == IF name \in DOMAIN inv.hosts THEN inv.hosts[name] ELSE name

Effect(kind, host, machine, as, stamp, code) ==
    [n |-> N, kind |-> kind, host |-> host, machine |-> machine, as |-> as,
     stamp |-> stamp, code |-> code]

-----------------------------------------------------------------------------
(* From a call to a command line *)

\* Tools that need a host (for a discovery, a range), and say so without one.
HostTools == {"ssh_exec", "ssh_diagnose", "ssh_sudo_exec", "ssh_sftp_put", "ssh_sftp_get",
              "ssh_sftp_sync", "ssh_hosts_discover", "ssh_health_check"}
SshTools == {"ssh_exec", "ssh_diagnose"}
LocalTools == {"ssh_hosts_list", "ssh_audit"}
ChildTools == {"ssh_sudo_exec", "ssh_playbook_run", "ssh_audit_rotate", "ssh_playbook_check",
               "ssh_audit_stats", "ssh_health_check", "ssh_sftp_put", "ssh_sftp_get",
               "ssh_sftp_sync", "ssh_hosts_reload", "ssh_hosts_discover", "ssh_connections",
               "ssh_keys_list", "ssh_keys_check", "ssh_keys_agent"}

\* The number that is written for a JSON number is its integer part.
Truncated(d) == IF d = "half" THEN "0" ELSE d

\* Variant: the option stands behind the separator.
SudoWordsMixed(c) ==
    <<"exec", c.host, "--">> \o (IF c.as \in {"", "sudo"} THEN <<"--sudo">> ELSE <<"--su", c.as>>)
    \o <<"cmd">>

SudoWords(c) ==
    <<"exec", c.host>> \o (IF c.as \in {"", "sudo"} THEN <<"--sudo">> ELSE <<"--su", c.as>>)
    \o <<"--", "cmd">>

PlaybookWords(c) == <<"playbook", "run", "book">> \o (IF c.dry THEN <<"--dry-run">> ELSE << >>)

RotateWords(c) ==
    <<"audit", "rotate">>
    \o (IF c.max \in {"half", "7"} THEN <<"--max-age", Truncated(c.max)>> ELSE << >>)
    \o (IF c.delete \in {"0", "half", "7"} THEN <<"--delete-age", Truncated(c.delete)>> ELSE << >>)

Words(c) ==
    CASE c.tool = "ssh_sudo_exec" -> SudoWords(c)
      [] c.tool = "ssh_playbook_run" -> PlaybookWords(c)
      [] c.tool = "ssh_audit_rotate" -> RotateWords(c)
      [] c.tool = "ssh_playbook_check" -> <<"playbook", "check", "book">>
      [] c.tool = "ssh_audit_stats" -> <<"audit", "stats">>
      [] c.tool = "ssh_health_check" -> <<"health", "check", c.host>>
      [] c.tool = "ssh_sftp_put" -> <<"put", c.host, "a", "b">>
      [] c.tool = "ssh_sftp_get" -> <<"get", c.host, "a", "b">>
      [] c.tool = "ssh_sftp_sync" -> <<"sync", c.host, "a", "b">>
      [] c.tool = "ssh_hosts_reload" -> <<"hosts", "reload">>
      [] c.tool = "ssh_hosts_discover" -> <<"hosts", "discover", c.host>>
      [] c.tool = "ssh_connections" -> <<"connections">>
      [] c.tool = "ssh_keys_list" -> <<"keys", "list">>
      [] c.tool = "ssh_keys_check" -> <<"keys", "check">>
      [] c.tool = "ssh_keys_agent" -> <<"keys", "agent">>

\* Go's flag package: options end at the first word that is none, or behind "--"; an
\* option that was not declared is an error.
ParseFlags(words, bools, valued) ==
    LET End[i \in 1..(Len(words) + 2)] ==
            IF i > Len(words) \/ words[i] \notin Dashed THEN i
            ELSE IF words[i] = "--" THEN i + 1
            ELSE IF words[i] \in bools THEN End[i + 1]
            ELSE IF words[i] \in valued /\ i < Len(words) THEN End[i + 2]
            ELSE 0
        end == End[1]
    IN [ok |-> end # 0,
        flags |-> {i \in 1..(end - 1) : words[i] \in bools \cup valued},
        rest |-> SubSeq(words, end, Len(words))]

Given(words, p, f) == \E i \in p.flags : words[i] = f
Value(words, p, f, default) ==
    IF Given(words, p, f) THEN words[1 + CHOOSE i \in p.flags : words[i] = f] ELSE default

-----------------------------------------------------------------------------
(* The server *)

Answers(error, inv) ==
    /\ answers' = Append(answers, [error |-> error, inv |-> inv])
    /\ server' = [pc |-> "idle", todo |-> << >>]

\* Somebody edits hosts.toml, and perhaps leaves it so that it does not decode.
Saves ==
    /\ file.stamp < MaxSaves
    /\ \E hosts \in Inventories, ok \in BOOLEAN :
          file' = [hosts |-> hosts, ok |-> ok, stamp |-> file.stamp + 1]
    /\ UNCHANGED <<copy, known, asked, answers, server, child, done>>

\* loadContext: an inventory that does not load is reported and is empty from then on.
ServerLoads ==
    /\ server.pc = "start"
    /\ copy' = IF file.ok THEN file ELSE [file EXCEPT !.hosts = Nobody]
    /\ server' = [server EXCEPT !.pc = "idle"]
    /\ UNCHANGED <<file, known, asked, answers, child, done>>

Asks(c) ==
    /\ server.pc = "idle" /\ N < MaxCalls
    /\ asked' = Append(asked, c)
    /\ server' = [server EXCEPT !.pc = "busy"]
    /\ UNCHANGED <<file, copy, known, answers, child, done>>

\* A tool that does not exist, or that lacks its host.
Refused(c) == \/ c.tool \notin SshTools \cup LocalTools \cup ChildTools
              \/ c.tool \in HostTools /\ c.host = ""

RefusesCall ==
    /\ server.pc = "busy" /\ Refused(Call)
    /\ Answers(TRUE, copy)
    /\ UNCHANGED <<file, copy, known, asked, child, done>>

\* toolHostsList and toolAudit answer from the server's own copy and its own logger.
AnswersItself ==
    /\ server.pc = "busy" /\ Call.tool \in LocalTools
    /\ \E error \in {FALSE, Call.tool = "ssh_audit"} : Answers(error, copy)
    /\ UNCHANGED <<file, copy, known, asked, child, done>>

\* toolExec and toolDiagnose, up to ssh.
StartsSsh ==
    /\ server.pc = "busy" /\ Call.tool \in SshTools /\ ~Refused(Call)
    /\ server' = [pc |-> "ssh",
                  todo |-> <<Effect("command", Call.host, ServerTarget(copy, Call.host), "login",
                                    copy.stamp, 0)>>]
    /\ UNCHANGED <<file, copy, known, asked, answers, child, done>>

\* ssh knows the machine and the command ran, with a status; or it did not run.
Runs(e, code) ==
    /\ e.machine \in known
    /\ done' = Append(done, [e EXCEPT !.code = code])

ServerSshEnds ==
    /\ server.pc = "ssh"
    /\ \/ \E code \in {0, 1} : Runs(Head(server.todo), code) /\ Answers(code # 0, copy)
       \/ Answers(TRUE, copy) /\ UNCHANGED done
    /\ UNCHANGED <<file, copy, known, asked, child>>

\* exec.Command, which may not find the program.
Spawns ==
    /\ server.pc = "busy" /\ Call.tool \in ChildTools /\ ~Refused(Call)
    /\ \/ /\ child' = [pc |-> "load", words |-> Words(Call), inv |-> file, todo |-> << >>,
                       exit |-> 0]
          /\ server' = [server EXCEPT !.pc = "child"] /\ UNCHANGED answers
       \/ Answers(TRUE, copy) /\ UNCHANGED child
    /\ UNCHANGED <<file, copy, known, asked, done>>

\* The output of the child, with an error unless its status is 0.
Reaps ==
    /\ server.pc = "child" /\ child.pc = "exited"
    /\ Answers(child.exit # 0, child.inv)
    /\ child' = NoChild
    /\ UNCHANGED <<file, copy, known, asked, done>>

-----------------------------------------------------------------------------
(* The child: App.Run *)

InChild(pc) == server.pc = "child" /\ child.pc = pc
Command == child.words[1]
Exits(code) == child' = [child EXCEPT !.pc = "exited", !.exit = code]
Plans(effects) == child' = [child EXCEPT !.pc = "work", !.todo = effects]
ChildOnly == UNCHANGED <<file, copy, known, asked, answers, server>>

\* loadContext: here an inventory that does not load ends the process.
ChildLoads ==
    /\ InChild("load")
    /\ child' = [child EXCEPT !.inv = file, !.pc = IF file.ok THEN "run" ELSE "exited",
                              !.exit = IF file.ok THEN 0 ELSE 1]
    /\ UNCHANGED done /\ ChildOnly

\* splitRemoteCommandArgs: the first "--".
Separator(args) == CHOOSE i \in DOMAIN args : args[i] = "--" /\ \A k \in 1..(i - 1) : args[k] # "--"

\* runExec as far as the target: what is in front of "--" is the alias and options.
PlansExec ==
    /\ InChild("run") /\ Command = "exec"
    /\ LET args == Tail(child.words)
           opts == SubSeq(args, 2, Separator(args) - 1)
           p == ParseFlags(opts, {"--sudo"}, {"--su"})
           sudo == Given(opts, p, "--sudo")
           su == Value(opts, p, "--su", "")
           as == IF sudo THEN "root" ELSE IF su # "" THEN su ELSE "login"
       IN IF ~p.ok \/ (sudo /\ su # "") THEN Exits(2)
          ELSE Plans(<<Effect("command", args[1], Target(child.inv, args[1]), as,
                              child.inv.stamp, 0)>>)
    /\ UNCHANGED done /\ ChildOnly

\* runPlaybookRun: Parse stops in front of the file, so what follows it is no option.
PlansPlaybook ==
    /\ InChild("run") /\ Command = "playbook" /\ child.words[2] = "run"
    /\ LET args == SubSeq(child.words, 3, Len(child.words))
           p == ParseFlags(args, {"--dry-run"}, {})
       IN IF ~p.ok THEN Exits(2)
          ELSE IF p.rest = << >> THEN Exits(2)
          ELSE IF ~(Range(BookHosts) \subseteq DOMAIN child.inv.hosts) THEN Exits(1)
          ELSE IF Given(args, p, "--dry-run") THEN Exits(0)
          ELSE Plans([i \in DOMAIN BookHosts |->
                        Effect("step", BookHosts[i], Target(child.inv, BookHosts[i]), "login",
                               child.inv.stamp, 0)])
    /\ UNCHANGED done /\ ChildOnly

\* runAuditRotateEnhanced.
PlansRotation ==
    /\ InChild("run") /\ Command = "audit" /\ child.words[2] = "rotate"
    /\ LET args == SubSeq(child.words, 3, Len(child.words))
           p == ParseFlags(args, {}, {"--max-age", "--delete-age"})
           delete == Value(args, p, "--delete-age", "365")
       IN IF ~p.ok THEN Exits(2)
          ELSE Plans(<<Effect("compress", "", "", Value(args, p, "--max-age", "30"), 0, 0)>>
                     \o (IF delete = "0" THEN << >>
                         ELSE <<Effect("delete", "", "", delete, 0, 0)>>))
    /\ UNCHANGED done /\ ChildOnly

\* runHealth never looks at the words: every host of the inventory, in some order.
PlansHealth ==
    /\ InChild("run") /\ Command = "health"
    /\ IF DOMAIN child.inv.hosts = {} THEN Exits(1)
       ELSE LET hosts == DOMAIN child.inv.hosts
            IN \E order \in Bijection(1..Cardinality(hosts), hosts) :
               Plans([i \in DOMAIN order |-> Effect("probe", order[i], "", "login", 0, 0)])
    /\ UNCHANGED done /\ ChildOnly

\* loadInventoryForSFTP makes an inventory of its own, and without a key or a password
\* no transfer connects.
FailsTransfer ==
    /\ InChild("run") /\ Command \in {"put", "get", "sync"}
    /\ Exits(1)
    /\ UNCHANGED done /\ ChildOnly

\* hosts reload loads the file once more.
Reloads ==
    /\ InChild("run") /\ Command = "hosts" /\ child.words[2] = "reload"
    /\ child' = [child EXCEPT !.pc = "exited", !.inv = IF file.ok THEN file ELSE @,
                              !.exit = IF file.ok THEN 0 ELSE 1]
    /\ UNCHANGED done /\ ChildOnly

\* Commands that only read, with success or without.
Readers == {<<"connections">>, <<"keys", "list">>, <<"keys", "check">>, <<"keys", "agent">>,
            <<"audit", "stats">>, <<"hosts", "discover">>, <<"playbook", "check">>}

ReadsOnly ==
    /\ InChild("run")
    /\ \E r \in Readers : \A i \in DOMAIN r : i <= Len(child.words) /\ child.words[i] = r[i]
    /\ \E code \in {0, 1} : Exits(code)
    /\ UNCHANGED done /\ ChildOnly

Doing(kinds) == InChild("work") /\ child.todo # << >> /\ Head(child.todo).kind \in kinds
GoesOn == child' = [child EXCEPT !.todo = Tail(@)]

\* ensureKnownHosts in exec.
AcceptsKey ==
    /\ Doing({"command"}) /\ Head(child.todo).machine \notin known
    /\ \/ known' = known \cup {Head(child.todo).machine} /\ UNCHANGED child
       \/ Exits(1) /\ UNCHANGED known
    /\ UNCHANGED <<file, copy, asked, answers, server, done>>

\* svc.Exec, of exec and of each step of a playbook; a failure is the end of either.
ChildSshEnds ==
    /\ Doing({"command", "step"})
    /\ \/ \E code \in {0, 1} : Runs(Head(child.todo), code)
                              /\ IF code = 0 THEN GoesOn ELSE Exits(1)
       \/ Exits(1) /\ UNCHANGED done
    /\ ChildOnly

\* CheckHost: `codex-ssh exec`, with its own reading of hosts.toml.  There is one of these
\* per reading; one step stands for all that reached the host, by the reading of one of
\* them.  One host that cannot be reached or is in a bad state makes the exit status 1.
Probes ==
    /\ Doing({"probe"})
    /\ LET e == Head(child.todo)
           machine == Target(file, e.host)
       IN \/ /\ file.ok
             /\ known' = known \cup {machine}
             /\ done' = Append(done, [e EXCEPT !.machine = machine, !.stamp = file.stamp])
             /\ \E worst \in {child.exit, 1} :
                   child' = [child EXCEPT !.todo = Tail(@), !.exit = worst]
          \/ /\ child' = [child EXCEPT !.todo = Tail(@), !.exit = 1]
             /\ UNCHANGED <<known, done>>
    /\ UNCHANGED <<file, copy, asked, answers, server>>

\* Rotate, whose failure is the end; DeleteOld, whose failure is not looked at.
Rotates ==
    /\ Doing({"compress", "delete"})
    /\ \/ done' = Append(done, Head(child.todo)) /\ GoesOn
       \/ /\ IF Head(child.todo).kind = "compress" THEN Exits(1) ELSE GoesOn
          /\ UNCHANGED done
    /\ ChildOnly

ExitsAtEnd ==
    /\ InChild("work") /\ child.todo = << >>
    /\ Exits(child.exit)
    /\ UNCHANGED done /\ ChildOnly

-----------------------------------------------------------------------------
(* Specification *)

\* Bound: at first no machine is known, or every one.
Init ==
    /\ file \in [hosts : Inventories, ok : BOOLEAN, stamp : {0}]
    /\ copy = [hosts |-> Nobody, ok |-> TRUE, stamp |-> 0]
    /\ known \in {{}, Addresses \cup Aliases}
    /\ asked = << >> /\ answers = << >> /\ done = << >>
    /\ server = [pc |-> "start", todo |-> << >>]
    /\ child = NoChild

ServerActs == ServerLoads \/ RefusesCall \/ AnswersItself \/ StartsSsh \/ ServerSshEnds
              \/ Spawns \/ Reaps

ChildActs == ChildLoads \/ PlansExec \/ PlansPlaybook \/ PlansRotation \/ PlansHealth
             \/ FailsTransfer \/ Reloads \/ ReadsOnly \/ AcceptsKey \/ ChildSshEnds
             \/ Probes \/ Rotates \/ ExitsAtEnd

Next == Saves \/ (\E c \in Calls : Asks(c)) \/ ServerActs \/ ChildActs

Spec == Init /\ [][Next]_vars

-----------------------------------------------------------------------------
(* Properties *)

TypeOK ==
    /\ asked \in Seq(CallType) /\ Len(asked) - Len(answers) \in {0, 1}
    /\ server.pc \in {"start", "idle", "busy", "ssh", "child"}
    /\ child.pc \in {"none", "load", "run", "work", "exited"} /\ child.exit \in {0, 1, 2}
    /\ known \subseteq Addresses \cup Aliases

Did(n, kind, host) == \E i \in DOMAIN done :
    done[i].n = n /\ done[i].kind = kind /\ done[i].host = host /\ done[i].code = 0

\* Did as that user: root, another one, or the one who logs in.
DidAs(n, as) == Did(n, "command", asked[n].host) /\ \E i \in DOMAIN done :
    done[i].n = n /\ done[i].as = as

\* The age that a number asks for, in whole days; a negative one asks for none.
Days(d, default) == IF d \in {"", "-1"} THEN default ELSE Truncated(d)

\* An answer without an error means that what was asked has been done: the command
\* ended with status 0 on the host that was named, as the user who was named; the
\* playbook ran on each of its hosts, unless nothing was to be executed; the logs were
\* compressed from the age that was named, or from 30 days where none was; an alias that
\* was to be checked was.  And no log is deleted from another age than the one named, or
\* when that is none.  Ages count in whole days, as 0.5 is written down as 0.  One case is
\* excepted: for max_age_days 0, which server.go:449 allows ("Compress logs older than N
\* days"), the tool writes no --max-age (server.go:1058); the logs are then compressed
\* from 30 days, and the answer is no error.
\* Between the arguments and the effect are the words of a command line.
OkMeansDone ==
    /\ TypeOK
    /\ \A n \in DOMAIN answers :
          ~answers[n].error =>
             CASE asked[n].tool \in SshTools -> DidAs(n, "login")
               [] asked[n].tool = "ssh_sudo_exec" ->
                     DidAs(n, IF asked[n].as \in {"", "sudo"} THEN "root" ELSE asked[n].as)
               [] asked[n].tool = "ssh_playbook_run" ->
                     ~asked[n].dry => \A h \in Range(BookHosts) : Did(n, "step", h)
               [] asked[n].tool = "ssh_audit_rotate" ->
                     \E i \in DOMAIN done :
                        /\ done[i].n = n /\ done[i].kind = "compress"
                        /\ asked[n].max # "0" => done[i].as = Days(asked[n].max, "30")
               [] asked[n].tool = "ssh_health_check" ->
                     asked[n].host \in DOMAIN answers[n].inv.hosts =>
                        Did(n, "probe", asked[n].host)
               [] OTHER -> asked[n].tool \in LocalTools \cup ChildTools
    /\ \A i \in DOMAIN done : done[i].kind = "delete" =>
          done[i].as = Days(asked[done[i].n].delete, "365") /\ done[i].as # "0"

\* On a machine, and not on the logs.
Reaches(e) == e.kind \notin {"compress", "delete"}

\* Two tools that are given one name reach one machine if nobody has edited hosts.toml
\* between their readings of it, whether the server or a child resolves the name and
\* whether it is an alias or not.
SameMachine ==
    \A i, j \in DOMAIN done :
        (/\ Reaches(done[i]) /\ Reaches(done[j])
         /\ done[i].host = done[j].host /\ done[i].stamp = done[j].stamp) =>
            done[i].machine = done[j].machine

\* The description of ssh_playbook_run says of dry_run: "Preview commands without
\* executing".
DryRunExecutesNothing ==
    \A i \in DOMAIN done : done[i].kind = "step" => ~asked[done[i].n].dry
=============================================================================
