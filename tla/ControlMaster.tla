---------------------------- MODULE ControlMaster ----------------------------
(***************************************************************************)
(* Shared connections (internal/sshargs and internal/executor): every ssh   *)
(* is given a control path.  The first one becomes the master of it, later  *)
(* ones run their commands through that master.  codex-ssh looks whether    *)
(* the path answers before it starts ssh, removes it if it does not, and    *)
(* runs ssh a second time when the first run failed on the control socket.  *)
(***************************************************************************)
EXTENDS Naturals, SequencesExt

CONSTANTS
    Calls,        \* executions of ssh by codex-ssh processes
    Targets,      \* [server, via, auth]: where a call is to run and how it logs in
    Codes,        \* exit statuses of the command; ssh reports its own failures as 255
    MaxMasters,   \* bound: masters that are ever started
    MaxDeaths,    \* bound: masters that end
    Environments  \* the sets of faults that a behaviour may have to face: "network", a
                  \* connection fails; "remove", os.Remove fails

ASSUME ControlMasterAssumption ==
    /\ \A t \in Targets : DOMAIN t = {"server", "via", "auth"}
    /\ Codes \subseteq 0..255
    /\ {MaxMasters, MaxDeaths} \subseteq Nat
    /\ Environments \subseteq SUBSET {"network", "remove"}

VARIABLES
    path,         \* what is at each control path
    master,       \* the masters: live or dead, and what they are connected to
    deaths,       \* masters that have ended
    call,         \* the calls
    faults        \* the faults of this behaviour; they never change

vars == <<path, master, deaths, call, faults>>

-----------------------------------------------------------------------------
(* State *)

\* Variant: the path depends on the server only.
KeyOfServer(t) == <<t.server, "direct">>

\* controlSocketKey: user, host, port and jump hosts, but not the authentication.
Key(t) == <<t.server, t.via>>

Keys == {Key(t) : t \in Targets} \cup {KeyOfServer(t) : t \in Targets}

\* A path holds nothing, a file that is no socket, or the socket of a master.
Nothing == 0
Junk == MaxMasters + 1
At(c) == path[Key(call[c].target)]

Alive(m) == m \in DOMAIN master /\ master[m].live
Goes(c, pc) == call' = [call EXCEPT ![c] = [@ EXCEPT !.pc = pc]]
Held(p) == p \in DOMAIN master

\* Leaves the name to nobody, whoever has it.
Unlink(k) == path' = [path EXCEPT ![k] = Nothing]

-----------------------------------------------------------------------------
(* controlSocketExists *)

Stats(c) ==
    /\ call[c].pc = "stat"
    /\ \/ At(c) = Nothing /\ call' = [call EXCEPT ![c] = [@ EXCEPT !.pc = "ssh", !.arg = "auto"]]
       \/ At(c) = Junk /\ Goes(c, "unlink")
       \/ Held(At(c)) /\ Goes(c, "dial")
    /\ UNCHANGED <<path, master, deaths>>

\* A master that is busy may miss the 200 milliseconds.
Dials(c) ==
    /\ call[c].pc = "dial"
    /\ \/ Alive(At(c)) /\ call' = [call EXCEPT ![c] = [@ EXCEPT !.pc = "ssh", !.arg = "no"]]
       \/ Goes(c, "unlink")
    /\ UNCHANGED <<path, master, deaths>>

\* os.Remove: of what is there by now; that it fails is not looked at.
Unlinks(c) ==
    /\ call[c].pc = "unlink"
    /\ Unlink(Key(call[c].target)) \/ ("remove" \in faults /\ UNCHANGED path)
    /\ call' = [call EXCEPT ![c] = [@ EXCEPT !.pc = "ssh", !.arg = "auto"]]
    /\ UNCHANGED <<master, deaths>>

-----------------------------------------------------------------------------
(* ssh *)

\* ssh connects to the socket.  If nobody listens there, one that may become master
\* removes it and one that may not complains; both then connect by themselves.
SshLooks(c) ==
    /\ call[c].pc = "ssh"
    /\ \/ Alive(At(c)) /\ call' = [call EXCEPT ![c] = [@ EXCEPT !.pc = "mux", !.through = At(c)]]
                       /\ UNCHANGED path
       \/ At(c) = Nothing /\ Goes(c, "direct") /\ UNCHANGED path
       \/ At(c) # Nothing /\ ~Alive(At(c)) /\ call[c].arg = "auto"
          /\ Goes(c, "direct") /\ Unlink(Key(call[c].target))
       \/ At(c) # Nothing /\ ~Alive(At(c)) /\ call[c].arg = "no"
          /\ call' = [call EXCEPT ![c] = [@ EXCEPT !.pc = "direct", !.noise = TRUE]] /\ UNCHANGED path
    /\ UNCHANGED <<master, deaths>>

Exits(c, code, runs) ==
    call' = [call EXCEPT ![c] = [@ EXCEPT !.pc = "exited", !.code = code, !.runs = runs]]

\* The command was executed, up to its end or until it was cut off.
ExitsHavingRun(c, code) == Exits(c, code, Append(call[c].runs, code))

\* It connects and becomes the master, unless the path is taken or it may not.
SshConnects(c) ==
    /\ call[c].pc = "direct"
    /\ \/ /\ Goes(c, "session")
          /\ \/ /\ call[c].arg = "auto" /\ At(c) = Nothing /\ Len(master) < MaxMasters
                /\ master' = Append(master, [live |-> TRUE, target |-> call[c].target])
                /\ path' = [path EXCEPT ![Key(call[c].target)] = Len(master) + 1]
             \/ /\ call[c].arg = "no" \/ At(c) # Nothing \/ Len(master) = MaxMasters
                /\ UNCHANGED <<path, master>>
       \/ "network" \in faults /\ Exits(c, 255, call[c].runs) /\ UNCHANGED <<path, master>>
    /\ UNCHANGED deaths

SessionEnds(c) ==
    /\ call[c].pc = "session"
    /\ \E code \in Codes : ExitsHavingRun(c, code)
    /\ UNCHANGED <<path, master, deaths>>

\* Through a master the command runs, or is cut off when the master dies; if that
\* happens before the session is open ssh complains and gives up.
MuxEnds(c) ==
    /\ call[c].pc = "mux"
    /\ \/ \E code \in Codes : Alive(call[c].through) /\ ExitsHavingRun(c, code)
       \/ ~Alive(call[c].through) /\ ExitsHavingRun(c, 255)
       \/ /\ ~Alive(call[c].through)
          /\ call' = [call EXCEPT ![c] =
                          [@ EXCEPT !.pc = "exited", !.code = 255, !.noise = TRUE]]
    /\ UNCHANGED <<path, master, deaths>>

\* ControlPersist runs out, which removes the path, or the process is killed.
MasterEnds(m) ==
    /\ Alive(m) /\ deaths < MaxDeaths
    /\ master' = [master EXCEPT ![m] = [@ EXCEPT !.live = FALSE]]
    /\ deaths' = deaths + 1
    /\ Unlink(Key(master[m].target)) \/ UNCHANGED path
    /\ UNCHANGED call

-----------------------------------------------------------------------------
(* runSSHWithRetry *)

\* Variant: any failure that mentions the control socket is tried again.
NoiseOnly(c) == call[c].noise

\* Variant: never.
NoRetry(c) == FALSE

\* shouldRetryAfterControlSocketFailure: status 255 and the words in its output.
ShouldRetry(c) == call[c].code = 255 /\ call[c].noise

Concludes(c) ==
    /\ call[c].pc = "exited"
    /\ Goes(c, IF ShouldRetry(c) /\ call[c].tries = 1 THEN "remove" ELSE "done")
    /\ UNCHANGED <<path, master, deaths>>

\* removeControlSocket, and then ssh again with the arguments of the first run.
Retries(c) ==
    /\ call[c].pc = "remove"
    /\ \/ /\ Unlink(Key(call[c].target))
          /\ call' = [call EXCEPT ![c] =
                          [@ EXCEPT !.pc = "ssh", !.tries = 2, !.noise = FALSE]]
       \/ "remove" \in faults /\ Goes(c, "done") /\ UNCHANGED path
    /\ UNCHANGED <<master, deaths>>

-----------------------------------------------------------------------------
(* Specification *)

\* A path may hold what an earlier run has left: a socket of a dead master is the
\* same to a call as one of the masters below once it has died.
Init ==
    /\ path \in [Keys -> {Nothing, Junk}]
    /\ master = << >> /\ deaths = 0
    /\ call \in [Calls -> [pc : {"stat"}, target : Targets, arg : {"auto"}, through : {0},
                           noise : {FALSE}, tries : {1}, code : {0}, runs : {<< >>}]]
    /\ faults \in Environments

Step(c) ==
    \/ Stats(c) \/ Dials(c) \/ Unlinks(c)
    \/ SshLooks(c) \/ SshConnects(c) \/ SessionEnds(c) \/ MuxEnds(c)
    \/ Concludes(c) \/ Retries(c)

Next ==
    /\ (\E c \in Calls : Step(c)) \/ (\E m \in 1..MaxMasters : MasterEnds(m))
    /\ UNCHANGED faults

Spec == Init /\ [][Next]_vars

-----------------------------------------------------------------------------
(* Properties *)

\* A path never leads to the master of another path.
TypeOK ==
    /\ path \in [Keys -> 0..(MaxMasters + 1)]
    /\ \A k \in Keys : Held(path[k]) => Key(master[path[k]].target) = k
    /\ deaths \in 0..MaxDeaths /\ Len(master) <= MaxMasters
    /\ \A c \in Calls : call[c].tries \in 1..2 /\ call[c].noise \in BOOLEAN

\* A call whose command went through a master ran it on the server it was meant for,
\* over the jump hosts it was meant to take; and the state is well typed.
MasterOfOwnRoute ==
    /\ TypeOK
    /\ \A c \in Calls : call[c].pc = "mux" =>
          LET reached == master[call[c].through].target IN
          /\ reached.server = call[c].target.server
          /\ reached.via = call[c].target.via

\* If no connection fails, one master that dies, at any moment, leaves no call with
\* the failure of its control socket: the status reported is that of the command.
StaleSocketSurvived ==
    faults = {} /\ deaths <= 1 =>
    \A c \in Calls : call[c].pc = "done" =>
        call[c].runs # << >> /\ Last(call[c].runs) = call[c].code

\* A command is executed a second time only if its first run was cut off or ended
\* with 255 itself, and never a third time.
NoSecondRunAfterStatus ==
    \A c \in Calls : Len(call[c].runs) > 1 => call[c].runs[1] = 255 /\ Len(call[c].runs) = 2
=============================================================================
