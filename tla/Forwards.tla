------------------------------ MODULE Forwards ------------------------------
(***************************************************************************)
(* Port forwards (internal/tunnel, internal/proxy): `tunnel` and `proxy`    *)
(* start an ssh process that listens on a local port, in the foreground or  *)
(* in the background; a background one is recorded in a JSON file, and      *)
(* `stop` and `list` work from these files.  The PID in it is always -1:     *)
(* OSRunner.Start reads it after Process.Release, which has set it to that. *)
(* Tunnels and proxies follow one protocol in two directories; a forward    *)
(* here is either.  The CLI processes share the directories, the ports and  *)
(* the PID space of one machine and synchronise on nothing.                 *)
(***************************************************************************)
EXTENDS Naturals

CONSTANTS
    Forwards,     \* forward ids; each is started by exactly one CLI process
    Proxies,      \* the forwards started by `proxy`; the others are tunnels
    Ports,        \* local ports
    Clients,      \* CLI processes that stop or list
    TtlFlags,     \* values of --ttl: "unset", "invalid", "negative", "zero", "positive"
    DefaultTtl,   \* default_tunnel_ttl of the configuration, or "unset"
    Environments  \* the sets of faults that a behaviour may have to face, of Faults

\* A process, a save, a connection fails.
Faults == {"crash", "save", "ssh"}

ASSUME ForwardsAssumption ==
    /\ Proxies \subseteq Forwards
    /\ TtlFlags \subseteq {"unset", "invalid", "negative", "zero", "positive"}
    /\ DefaultTtl \in {"unset", "invalid", "negative", "zero", "positive"}
    /\ Environments \subseteq SUBSET Faults

VARIABLES
    request,      \* what the user asked for: port, background, password auth, --ttl
    starter,      \* control point of the CLI process that starts a forward
    ssh,          \* the ssh process of a forward
    file,         \* the record of a forward
    client,       \* the stopping and listing processes
    faults        \* the faults of this behaviour; it never changes

vars == <<request, starter, ssh, file, client, faults>>

-----------------------------------------------------------------------------
(* State *)

Requests == [port : Ports, background : BOOLEAN, password : BOOLEAN, ttl : TtlFlags]

StarterPcs == {"cli", "check", "probe", "start", "waiting", "save", "saveWrite",
               "started", "returned", "failed", "crashed"}
SshStates == {"none", "starting", "listening", "exited"}

FileStates == {"absent", "empty", "saved"}

ClientPcs == {"idle", "load", "kill", "remove", "stopped", "read", "listed"}
Idle == [pc |-> "idle", todo |-> {}, shown |-> {}]

\* Processes and connections do not fail.
Reliable == faults \cap {"crash", "ssh"} = {}

Running(f) == ssh[f] \in {"starting", "listening"}

\* Variant: the listener of the port check is closed only when Start returns.
PortTakenUntilReturn(p) ==
    \E f \in Forwards : /\ request[f].port = p
                        /\ \/ ssh[f] = "listening"
                           \/ starter[f] \in {"probe", "start", "waiting", "save", "saveWrite"}

\* Somebody listens on the port: an ssh, or a CLI process that checks the port.
PortTaken(p) ==
    \E f \in Forwards : /\ request[f].port = p
                        /\ ssh[f] = "listening" \/ starter[f] = "probe"

\* resolveTunnelTTL: the flag, else the configured default; "zero" disables.  A
\* proxy has no time to live.
Ttl(f) == CASE f \in Proxies -> "zero"
            [] f \notin Proxies /\ request[f].ttl = "unset" -> DefaultTtl
            [] OTHER -> request[f].ttl

\* The checks of runTunnel and runProxy that end the command before anything has
\* happened.
Rejected(f) ==
    \/ request[f].background /\ request[f].password
    \/ Ttl(f) \in {"invalid", "negative"}

StarterGoes(f, pc) == starter' = [starter EXCEPT ![f] = pc]

-----------------------------------------------------------------------------
(* Starting a forward *)

CliChecks(f) ==
    /\ starter[f] = "cli"
    /\ StarterGoes(f, IF Rejected(f) THEN "failed" ELSE "check")
    /\ UNCHANGED <<request, ssh, file, client>>

\* EnsurePortAvailable listens on the port and closes the listener again: while it
\* does, nobody else can have the port, not even for a check.
ChecksPort(f) ==
    /\ starter[f] = "check"
    /\ StarterGoes(f, IF PortTaken(request[f].port) THEN "failed" ELSE "probe")
    /\ UNCHANGED <<request, ssh, file, client>>

FreesPort(f) ==
    /\ starter[f] = "probe"
    /\ StarterGoes(f, "start")
    /\ UNCHANGED <<request, ssh, file, client>>

\* Variant: the record is saved before the process is started.
StartsSshAfterRecord(f) ==
    /\ starter[f] = "start"
    /\ IF request[f].background /\ file[f] = "absent"
       THEN file' = [file EXCEPT ![f] = "saved"] /\ UNCHANGED <<starter, ssh>>
       ELSE /\ ssh' = [ssh EXCEPT ![f] = "starting"]
            /\ StarterGoes(f, IF request[f].background THEN "started" ELSE "waiting")
            /\ UNCHANGED file
    /\ UNCHANGED <<request, client>>

\* Runner.Start for a background forward, Runner.Run for a foreground one.
StartsSsh(f) ==
    /\ starter[f] = "start"
    /\ \/ /\ ssh' = [ssh EXCEPT ![f] = "starting"]
          /\ StarterGoes(f, IF request[f].background THEN "save" ELSE "waiting")
       \/ "ssh" \in faults /\ StarterGoes(f, "failed") /\ UNCHANGED ssh
    /\ UNCHANGED <<request, file, client>>

\* SaveState truncates the record and writes it; an error returns, and the ssh
\* process that was started goes on.
RecordTruncates(f) ==
    /\ starter[f] = "save"
    /\ \/ file' = [file EXCEPT ![f] = "empty"] /\ StarterGoes(f, "saveWrite")
       \/ "save" \in faults /\ StarterGoes(f, "failed") /\ UNCHANGED file
    /\ UNCHANGED <<request, ssh, client>>

RecordWrites(f) ==
    /\ starter[f] = "saveWrite"
    /\ \/ file' = [file EXCEPT ![f] = "saved"] /\ StarterGoes(f, "started")
       \/ "save" \in faults /\ StarterGoes(f, "failed") /\ UNCHANGED file
    /\ UNCHANGED <<request, ssh, client>>

\* A foreground command returns when its ssh has ended.
ForegroundReturns(f) ==
    /\ starter[f] = "waiting"
    /\ ssh[f] = "exited"
    /\ StarterGoes(f, "returned")
    /\ UNCHANGED <<request, ssh, file, client>>

\* The context's timeout kills ssh.  runTunnel sets it only in the foreground.
TtlFires(f) ==
    /\ starter[f] = "waiting"
    /\ Ttl(f) = "positive"
    /\ Running(f)
    /\ ssh' = [ssh EXCEPT ![f] = "exited"]
    /\ UNCHANGED <<request, starter, file, client>>

StarterCrashes(f) ==
    /\ "crash" \in faults
    /\ starter[f] \in {"probe", "start", "save", "saveWrite", "waiting"}
    /\ StarterGoes(f, "crashed")
    /\ UNCHANGED <<request, ssh, file, client>>

-----------------------------------------------------------------------------
(* ssh and the operating system *)

SshEnds(f) ==
    /\ ssh' = [ssh EXCEPT ![f] = "exited"]
    /\ UNCHANGED <<request, starter, file, client>>

\* ssh binds the port once it is connected; ExitOnForwardFailure ends it if the
\* port has been taken in the meantime.
SshBinds(f) ==
    /\ ssh[f] = "starting"
    /\ IF PortTaken(request[f].port) THEN SshEnds(f)
       ELSE /\ ssh' = [ssh EXCEPT ![f] = "listening"]
            /\ UNCHANGED <<request, starter, file, client>>

\* ssh cannot connect, or loses its connection.
SshFails(f) ==
    /\ "ssh" \in faults
    /\ Running(f)
    /\ SshEnds(f)

-----------------------------------------------------------------------------
(* stop *)

ClientIs(p, c) == client' = [client EXCEPT ![p] = c]

InvokeStop(p, f) ==
    /\ client[p].pc = "idle"
    /\ ClientIs(p, [Idle EXCEPT !.pc = "load", !.todo = {f}])
    /\ UNCHANGED <<request, starter, ssh, file>>

StopLoads(p, f) ==
    /\ client[p].pc = "load" /\ f \in client[p].todo
    /\ IF file[f] = "saved" THEN ClientIs(p, [client[p] EXCEPT !.pc = "kill"])
                            ELSE ClientIs(p, Idle)
    /\ UNCHANGED <<request, starter, ssh, file>>

\* Variant: a record without a usable PID is an error.
StopNeedsPid(p, f) ==
    /\ client[p].pc = "kill" /\ f \in client[p].todo
    /\ ClientIs(p, Idle)
    /\ UNCHANGED <<request, starter, ssh, file>>

\* Stop signals the process group, else the process, but only if the recorded PID is
\* positive, and it is -1: nobody is signalled.
StopSignals(p, f) ==
    /\ client[p].pc = "kill" /\ f \in client[p].todo
    /\ ClientIs(p, [client[p] EXCEPT !.pc = "remove"])
    /\ UNCHANGED <<request, starter, ssh, file>>

\* RemoveState; success is reported as "stopped tunnel <id>".
StopRemoves(p, f) ==
    /\ client[p].pc = "remove" /\ f \in client[p].todo
    /\ IF file[f] = "absent" THEN ClientIs(p, Idle) /\ UNCHANGED file
       ELSE /\ file' = [file EXCEPT ![f] = "absent"]
            /\ ClientIs(p, [client[p] EXCEPT !.pc = "stopped"])
    /\ UNCHANGED <<request, starter, ssh>>

-----------------------------------------------------------------------------
(* list *)

\* ListStatePaths of the tunnels' or of the proxies' directory.
InvokeList(p) ==
    /\ client[p].pc = "idle"
    /\ \E dir \in {Proxies, Forwards \ Proxies} :
          ClientIs(p, [pc |-> "read", shown |-> {},
                       todo |-> {f \in dir : file[f] # "absent"}])
    /\ UNCHANGED <<request, starter, ssh, file>>

\* LoadState of one path; one record that cannot be read fails the whole list.
ListReads(p, f) ==
    /\ client[p].pc = "read" /\ f \in client[p].todo
    /\ IF file[f] = "saved"
       THEN ClientIs(p, [client[p] EXCEPT !.todo = @ \ {f}, !.shown = @ \cup {f}])
       ELSE ClientIs(p, Idle)
    /\ UNCHANGED <<request, starter, ssh, file>>

ListEnds(p) ==
    /\ client[p].pc = "read" /\ client[p].todo = {}
    /\ ClientIs(p, [client[p] EXCEPT !.pc = "listed"])
    /\ UNCHANGED <<request, starter, ssh, file>>

ClientExits(p) ==
    /\ client[p].pc \in {"stopped", "listed"}
    /\ ClientIs(p, Idle)
    /\ UNCHANGED <<request, starter, ssh, file>>

ClientCrashes(p) ==
    /\ "crash" \in faults
    /\ client[p].pc # "idle"
    /\ ClientIs(p, Idle)
    /\ UNCHANGED <<request, starter, ssh, file>>

-----------------------------------------------------------------------------
(* Specification *)

Init ==
    /\ request \in [Forwards -> Requests]
    /\ starter = [f \in Forwards |-> "cli"]
    /\ ssh = [f \in Forwards |-> "none"]
    /\ file = [f \in Forwards |-> "absent"]
    /\ client = [p \in Clients |-> Idle]
    /\ faults \in Environments

StarterStep(f) ==
    \/ CliChecks(f) \/ ChecksPort(f) \/ FreesPort(f) \/ StartsSsh(f) \/ RecordTruncates(f)
    \/ RecordWrites(f) \/ ForegroundReturns(f)

ClientStep(p) ==
    \/ \E f \in Forwards :
          StopLoads(p, f) \/ StopSignals(p, f) \/ StopRemoves(p, f) \/ ListReads(p, f)
    \/ ListEnds(p) \/ ClientExits(p)

Next ==
    /\ \/ \E f \in Forwards : StarterStep(f) \/ SshBinds(f) \/ TtlFires(f)
                              \/ StarterCrashes(f) \/ SshFails(f)
       \/ \E p \in Clients : ClientStep(p) \/ InvokeList(p) \/ ClientCrashes(p)
       \/ \E p \in Clients, f \in Forwards : InvokeStop(p, f)
    /\ UNCHANGED faults

Spec == Init /\ [][Next]_vars

\* A stop or list that was started is scheduled.  No user has to invoke anything.
FairSpec == Spec /\ \A p \in Clients : WF_vars(ClientStep(p) /\ UNCHANGED faults)

-----------------------------------------------------------------------------
(* Properties *)

TypeOK ==
    /\ request \in [Forwards -> Requests]
    /\ starter \in [Forwards -> StarterPcs]
    /\ ssh \in [Forwards -> SshStates]
    /\ file \in [Forwards -> FileStates]
    /\ client \in [Clients -> [pc : ClientPcs, todo : SUBSET Forwards,
                               shown : SUBSET Forwards]]
    /\ faults \in Environments

\* `list` shows only background forwards whose ssh process was really started,
\* whatever starts, stops and crashes happen while it reads the directory; and the
\* state is well typed.
ListShowsStarted ==
    /\ TypeOK
    /\ \A p \in Clients : \A f \in client[p].shown :
          ssh[f] # "none" /\ request[f].background

\* Racing starts on one port never all lose, although a check for the port takes
\* the port away from an ssh that is about to bind it: when every command that
\* got past its check has settled, one of them has the port, unless a lost
\* connection, a crash or the end of its time took it from its holder.
PortServed ==
    Reliable =>
    \A p \in Ports :
        LET Wanting == {f \in Forwards : request[f].port = p} IN
        (/\ \A f \in Wanting : /\ starter[f] \notin {"probe", "start"}
                               /\ ssh[f] # "starting"
                               /\ Ttl(f) = "positive" => request[f].background
         /\ \E f \in Wanting : ssh[f] # "none")
            => \E f \in Wanting : ssh[f] = "listening"

\* A stop of a recorded forward ends with the record gone, also when other stops
\* of the same forward interleave, if nothing fails.
StopRemovesRecord ==
    \A p \in Clients, f \in Forwards :
        (/\ Reliable
         /\ client[p].pc = "load" /\ f \in client[p].todo /\ file[f] = "saved")
            ~> file[f] = "absent"

\* app.go:614 reports "stopped tunnel <id>".
ReportedStopIsStopped ==
    \A p \in Clients : client[p].pc = "stopped" => \A f \in client[p].todo : ~Running(f)
=============================================================================
