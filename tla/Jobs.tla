-------------------------------- MODULE Jobs --------------------------------
(***************************************************************************)
(* Remote jobs (internal/jobs): `job run` starts a command on a remote     *)
(* host inside tmux or nohup and keeps a JSON record of it in the local    *)
(* jobs directory; `job stop`, `job status`, `job logs` and `job attach`   *)
(* find the remote command again through that record.                      *)
(*                                                                         *)
(* Every CLI invocation is an operating-system process of its own and the  *)
(* record is an ordinary file that nobody locks, so a Run and any number   *)
(* of Stops interleave at every system call.  os.WriteFile truncates the   *)
(* file and then writes it: SaveState is two steps here, and a process can *)
(* fail or die between them.                                               *)
(***************************************************************************)
EXTENDS Naturals

CONSTANTS
    Jobs,            \* job ids; each is the target of exactly one `job run`
    Clients,         \* CLI processes that stop or query a job, one at a time each
    Hints,           \* values given to --mode
    Environments     \* the sets of faults that a behaviour may have to face:
                     \* which of "crash", "save", "ssh" happen there

ASSUME JobsAssumption ==
    /\ Jobs # {}
    /\ Hints \subseteq {"auto", "tmux", "nohup", "other"}
    /\ Environments \subseteq SUBSET {"crash", "save", "ssh"}

VARIABLES
    file,            \* the record of a job as the bytes on disk read back
    run,             \* the process of `job run`: control point and its JobState
    client,          \* the other CLI processes
    work,            \* the remote command itself
    pid,             \* nohup only: what the PID in the remote .pid file denotes
    remoteDir,       \* does ~/.codex-ssh/jobs exist on the remote host?
    tmuxInstalled,   \* is tmux on the remote host?
    faults           \* the faults of this behaviour; it never changes

vars == <<file, run, client, work, pid, remoteDir, tmuxInstalled, faults>>

-----------------------------------------------------------------------------
(* Records *)

Statuses == {"starting", "started", "stopping", "stopped"}
Unreadable == {"absent", "empty", "garbled"}
Modes == {"auto", "tmux", "nohup", "other", "none"}

\* JobState: handle stands for SessionName, or RemotePIDFile and RemoteLogFile.
\* A status in Unreadable says what LoadState finds instead of a JobState.
JobState == [mode : Modes, status : Statuses \cup Unreadable, handle : BOOLEAN]

Blank(s) == [mode |-> "none", status |-> s, handle |-> FALSE]

\* LoadState succeeds: the file is there and its bytes are one JSON document.
Readable(f) == f.status \in Statuses

\* Length of the marshalled document, as far as it can differ between two saves
\* of one job: the handle fields are omitempty, and two of the four status
\* names are one letter longer.  Garbled bytes are as long as the longest.
Size(f) == CASE f.status \in {"absent", "empty"} -> 0
             [] f.status = "garbled" -> 4
             [] OTHER -> (IF f.handle THEN 3 ELSE 1)
                         + (IF f.status \in {"starting", "stopping"} THEN 1 ELSE 0)

\* A writer that truncated the file earlier writes from offset 0 over whatever
\* others have written since: a shorter document leaves their tail behind.
Overlay(f, rec) == IF Size(f) <= Size(rec) THEN rec ELSE Blank("garbled")

\* The two halves of SaveState.
Truncates(j) == file' = [file EXCEPT ![j] = Blank("empty")]
Writes(j, rec) == file' = [file EXCEPT ![j] = Overlay(file[j], rec)]

-----------------------------------------------------------------------------
(* The remote host *)

Works == {"none", "running", "ended"}

\* "nofile": no .pid file.  "live", "dead": the process $! named, which in bash is
\* the background subshell of `mkdir && nohup ...` that waits for the job.
\* "foreign": the PID was recycled for another process; "hit": that was killed.
Pids == {"nofile", "live", "dead", "foreign", "hit"}

\* The workload ends by itself; the process that waits for it ends with it.
WorkEnds(j) ==
    /\ work[j] = "running"
    /\ work' = [work EXCEPT ![j] = "ended"]
    /\ pid' = [pid EXCEPT ![j] = IF @ = "live" THEN "dead" ELSE @]
    /\ UNCHANGED <<file, run, client, remoteDir, tmuxInstalled>>

\* The remote kernel gives the PID of a dead process to a new one.
PidRecycled(j) ==
    /\ pid[j] = "dead"
    /\ pid' = [pid EXCEPT ![j] = "foreign"]
    /\ UNCHANGED <<file, run, client, work, remoteDir, tmuxInstalled>>

\* buildStopCommand: does the remote command exit with 0?  Without a handle its
\* argument is empty: `tmux kill-session -t` and a `kill` with no PID both fail.
StopSucceeds(rec, j) ==
    /\ rec.handle
    /\ IF rec.mode = "tmux" THEN work[j] = "running"
                            ELSE pid[j] \in {"nofile", "live", "foreign"}

\* What a successful stop command does: tmux ends the session's command, kill
\* ends the process with the recorded PID and nothing that process started.
Kill(rec, j) ==
    IF rec.mode = "tmux"
    THEN /\ work' = [work EXCEPT ![j] = "ended"]
         /\ UNCHANGED pid
    ELSE /\ pid' = [pid EXCEPT ![j] = CASE @ = "live" -> "dead"
                                        [] @ = "foreign" -> "hit"
                                        [] OTHER -> @]
         /\ UNCHANGED work

-----------------------------------------------------------------------------
(* job run *)

RunPcs == {"create", "createWrite", "pick", "launch", "final", "finalWrite",
           "done", "failed", "finalFailed", "crashed"}

RunGoes(j, pc) == run' = [run EXCEPT ![j].pc = pc]

\* Variant: an error of the initial save is ignored.
RunCreatesAnyhow(j) ==
    /\ run[j].pc = "create"
    /\ \/ Truncates(j) /\ RunGoes(j, "createWrite")
       \/ "save" \in faults /\ RunGoes(j, "pick") /\ UNCHANGED file
    /\ UNCHANGED <<client, work, pid, remoteDir, tmuxInstalled>>

\* SaveState of the initial record, "starting"; an error returns at once.
RunCreates(j) ==
    /\ run[j].pc = "create"
    /\ \/ Truncates(j) /\ RunGoes(j, "createWrite")
       \/ "save" \in faults /\ RunGoes(j, "failed") /\ UNCHANGED file
    /\ UNCHANGED <<client, work, pid, remoteDir, tmuxInstalled>>

RunCreateWrites(j) ==
    /\ run[j].pc = "createWrite"
    /\ \/ Writes(j, run[j].rec) /\ RunGoes(j, "pick")
       \/ "save" \in faults /\ RunGoes(j, "failed") /\ UNCHANGED file
    /\ UNCHANGED <<client, work, pid, remoteDir, tmuxInstalled>>

\* The mode pickMode may return: a probe that fails counts as "no tmux".
Picks(hint) ==
    IF hint # "auto" THEN {hint}
    ELSE (IF tmuxInstalled THEN {"tmux"} ELSE {"nohup"})
         \cup (IF "ssh" \in faults THEN {"nohup"} ELSE {})

\* Variant: the session name is saved as soon as it is known.
RunPicksModeAndSaves(j) ==
    /\ run[j].pc = "pick"
    /\ \E m \in Picks(run[j].rec.mode) \cap {"tmux", "nohup"} :
          LET rec == [mode |-> m, status |-> "starting", handle |-> TRUE] IN
          /\ run' = [run EXCEPT ![j] = [pc |-> "launch", rec |-> rec]]
          /\ file' = [file EXCEPT ![j] = rec]
    /\ UNCHANGED <<client, work, pid, remoteDir, tmuxInstalled>>

\* pickMode, then the switch that names the session or the remote files.  An
\* unsupported mode returns, leaving the record "starting".
RunPicksMode(j) ==
    /\ run[j].pc = "pick"
    /\ \E m \in Picks(run[j].rec.mode) :
          run' = [run EXCEPT ![j] =
                    IF m \in {"tmux", "nohup"}
                    THEN [pc |-> "launch",
                          rec |-> [mode |-> m, status |-> "starting", handle |-> TRUE]]
                    ELSE [@ EXCEPT !.pc = "failed"]]
    /\ UNCHANGED <<file, client, work, pid, remoteDir, tmuxInstalled>>

\* What executing the remote command does, in the `bash -lc` of every remote
\* command.  BuildNohupRunCommand backgrounds its
\* mkdir with the job, so the first job on a host may find no directory for the
\* .pid file: the job runs, the command exits with 1.
LaunchEffect(j, pidWritten) ==
    /\ work' = [work EXCEPT ![j] = "running"]
    /\ IF run[j].rec.mode = "tmux"
       THEN tmuxInstalled /\ pidWritten /\ UNCHANGED <<pid, remoteDir>>
       ELSE /\ pidWritten \/ ~remoteDir
            /\ pid' = [pid EXCEPT ![j] = IF pidWritten THEN "live" ELSE "nofile"]
            /\ remoteDir' = TRUE

\* Variant: the result of the launch is not looked at.
RunLaunchesBlindly(j) ==
    /\ run[j].pc = "launch"
    /\ RunGoes(j, "final")
    /\ \/ LaunchEffect(j, TRUE)
       \/ "ssh" \in faults /\ UNCHANGED <<work, pid, remoteDir>>
    /\ UNCHANGED <<file, client, tmuxInstalled>>

\* The launch over ssh: executed and answered; executed, but the answer is an
\* error or lost; not executed.  Any error returns with the record untouched.
RunLaunches(j) ==
    /\ run[j].pc = "launch"
    /\ \/ LaunchEffect(j, TRUE) /\ RunGoes(j, "final")
       \/ LaunchEffect(j, FALSE) /\ RunGoes(j, "failed")
       \/ "ssh" \in faults /\ LaunchEffect(j, TRUE) /\ RunGoes(j, "failed")
       \/ /\ "ssh" \in faults \/ (run[j].rec.mode = "tmux" /\ ~tmuxInstalled)
          /\ RunGoes(j, "failed")
          /\ UNCHANGED <<work, pid, remoteDir>>
    /\ UNCHANGED <<file, client, tmuxInstalled>>

\* The final SaveState, "started"; its failure has an error text of its own.
RunFinalTruncates(j) ==
    /\ run[j].pc = "final"
    /\ \/ /\ Truncates(j)
          /\ run' = [run EXCEPT ![j].pc = "finalWrite", ![j].rec.status = "started"]
       \/ "save" \in faults /\ RunGoes(j, "finalFailed") /\ UNCHANGED file
    /\ UNCHANGED <<client, work, pid, remoteDir, tmuxInstalled>>

RunFinalWrites(j) ==
    /\ run[j].pc = "finalWrite"
    /\ \/ Writes(j, run[j].rec) /\ RunGoes(j, "done")
       \/ "save" \in faults /\ RunGoes(j, "finalFailed") /\ UNCHANGED file
    /\ UNCHANGED <<client, work, pid, remoteDir, tmuxInstalled>>

RunCrashes(j) ==
    /\ "crash" \in faults
    /\ run[j].pc \in {"createWrite", "pick", "launch", "final", "finalWrite"}
    /\ RunGoes(j, "crashed")
    /\ UNCHANGED <<file, client, work, pid, remoteDir, tmuxInstalled>>

-----------------------------------------------------------------------------
(* job stop and the queries *)

Ops == {"stop", "attach", "status"}

ClientPcs == {"idle", "load", "query", "stopping", "stoppingWrite", "kill",
              "stopped", "stoppedWrite", "reported"}

\* A process that exits takes its memory with it.
Idle == [pc |-> "idle", op |-> "status", job |-> CHOOSE j \in Jobs : TRUE,
         rec |-> Blank("absent")]

ClientGoes(p, pc) == client' = [client EXCEPT ![p].pc = pc]
ClientExits(p) == client' = [client EXCEPT ![p] = Idle]

\* loadJobStateAndHost: the CLI reads the record once for the host to contact;
\* if it cannot be read the command fails here.
Invoke(p, op, j) ==
    /\ client[p].pc = "idle"
    /\ Readable(file[j])
    /\ client' = [client EXCEPT ![p] = [pc |-> "load", op |-> op, job |-> j,
                                        rec |-> Blank("absent")]]
    /\ UNCHANGED <<file, run, work, pid, remoteDir, tmuxInstalled>>

\* The service reads the record again: this copy is the one it works with.
ClientLoads(p) ==
    LET c == client[p]  f == file[c.job] IN
    /\ c.pc = "load"
    /\ IF ~Readable(f) \/ (c.op = "attach" /\ f.mode # "tmux")
       THEN ClientExits(p)
       ELSE client' = [client EXCEPT
                ![p].pc = IF c.op = "stop" THEN "stopping" ELSE "query",
                ![p].rec = IF c.op = "stop" THEN [f EXCEPT !.status = "stopping"] ELSE f]
    /\ UNCHANGED <<file, run, work, pid, remoteDir, tmuxInstalled>>

\* Status, Logs and Attach run one remote command that changes nothing we keep.
ClientQueries(p) ==
    /\ client[p].pc = "query"
    /\ ClientExits(p)
    /\ UNCHANGED <<file, run, work, pid, remoteDir, tmuxInstalled>>

\* SaveState of "stopping"; no remote command is sent unless it succeeds.
StopTruncates(p) ==
    /\ client[p].pc = "stopping"
    /\ \/ Truncates(client[p].job) /\ ClientGoes(p, "stoppingWrite")
       \/ "save" \in faults /\ ClientExits(p) /\ UNCHANGED file
    /\ UNCHANGED <<run, work, pid, remoteDir, tmuxInstalled>>

\* Variant: Stop saves a record it built itself, without the handle.
StopWritesAnew(p) ==
    /\ client[p].pc = "stoppingWrite"
    /\ Writes(client[p].job, [client[p].rec EXCEPT !.handle = FALSE])
    /\ ClientGoes(p, "kill")
    /\ UNCHANGED <<run, work, pid, remoteDir, tmuxInstalled>>

\* Variant: Stop goes on to the final save without a remote command.
StopWritesOnly(p) ==
    /\ client[p].pc = "stoppingWrite"
    /\ Writes(client[p].job, client[p].rec)
    /\ client' = [client EXCEPT ![p].pc = "stopped", ![p].rec.status = "stopped"]
    /\ UNCHANGED <<run, work, pid, remoteDir, tmuxInstalled>>

StopWrites(p) ==
    /\ client[p].pc = "stoppingWrite"
    /\ \/ Writes(client[p].job, client[p].rec) /\ ClientGoes(p, "kill")
       \/ "save" \in faults /\ ClientExits(p) /\ UNCHANGED file
    /\ UNCHANGED <<run, work, pid, remoteDir, tmuxInstalled>>

\* Variant: the exit status of the stop command is ignored.
StopKillsBlindly(p) ==
    LET c == client[p] IN
    /\ c.pc = "kill"
    /\ client' = [client EXCEPT ![p].pc = "stopped", ![p].rec.status = "stopped"]
    /\ IF StopSucceeds(c.rec, c.job) THEN Kill(c.rec, c.job) ELSE UNCHANGED <<work, pid>>
    /\ UNCHANGED <<file, run, remoteDir, tmuxInstalled>>

\* The stop command over ssh: answered with 0; executed but the answer is lost;
\* failed or never executed.  An error returns with the record at "stopping".
StopKills(p) ==
    LET c == client[p] IN
    /\ c.pc = "kill"
    /\ \/ /\ StopSucceeds(c.rec, c.job)
          /\ Kill(c.rec, c.job)
          /\ client' = [client EXCEPT ![p].pc = "stopped", ![p].rec.status = "stopped"]
       \/ /\ "ssh" \in faults
          /\ StopSucceeds(c.rec, c.job)
          /\ Kill(c.rec, c.job)
          /\ ClientExits(p)
       \/ /\ "ssh" \in faults \/ ~StopSucceeds(c.rec, c.job)
          /\ ClientExits(p)
          /\ UNCHANGED <<work, pid>>
    /\ UNCHANGED <<file, run, remoteDir, tmuxInstalled>>

StopFinalTruncates(p) ==
    /\ client[p].pc = "stopped"
    /\ \/ Truncates(client[p].job) /\ ClientGoes(p, "stoppedWrite")
       \/ "save" \in faults /\ ClientExits(p) /\ UNCHANGED file
    /\ UNCHANGED <<run, work, pid, remoteDir, tmuxInstalled>>

\* On success the CLI prints "job <id> stopped".
StopFinalWrites(p) ==
    /\ client[p].pc = "stoppedWrite"
    /\ \/ Writes(client[p].job, client[p].rec) /\ ClientGoes(p, "reported")
       \/ "save" \in faults /\ ClientExits(p) /\ UNCHANGED file
    /\ UNCHANGED <<run, work, pid, remoteDir, tmuxInstalled>>

StopReturns(p) ==
    /\ client[p].pc = "reported"
    /\ ClientExits(p)
    /\ UNCHANGED <<file, run, work, pid, remoteDir, tmuxInstalled>>

ClientCrashes(p) ==
    /\ "crash" \in faults
    /\ client[p].pc # "idle"
    /\ ClientExits(p)
    /\ UNCHANGED <<file, run, work, pid, remoteDir, tmuxInstalled>>

-----------------------------------------------------------------------------
(* Specification *)

Init ==
    /\ file = [j \in Jobs |-> Blank("absent")]
    /\ run \in [Jobs -> {[pc |-> "create",
                          rec |-> [mode |-> h, status |-> "starting", handle |-> FALSE]]
                            : h \in Hints}]
    /\ client = [p \in Clients |-> Idle]
    /\ work = [j \in Jobs |-> "none"]
    /\ pid = [j \in Jobs |-> "nofile"]
    /\ remoteDir \in BOOLEAN
    /\ tmuxInstalled \in BOOLEAN
    /\ faults \in Environments

RunStep(j) ==
    \/ RunCreates(j) \/ RunCreateWrites(j) \/ RunPicksMode(j) \/ RunLaunches(j)
    \/ RunFinalTruncates(j) \/ RunFinalWrites(j)

ClientStep(p) ==
    \/ ClientLoads(p) \/ ClientQueries(p) \/ StopTruncates(p) \/ StopWrites(p)
    \/ StopKills(p) \/ StopFinalTruncates(p) \/ StopFinalWrites(p) \/ StopReturns(p)

Next ==
    /\ \/ \E j \in Jobs : RunStep(j) \/ RunCrashes(j) \/ WorkEnds(j) \/ PidRecycled(j)
       \/ \E p \in Clients : ClientStep(p) \/ ClientCrashes(p)
       \/ \E p \in Clients, op \in Ops, j \in Jobs : Invoke(p, op, j)
    /\ UNCHANGED faults

Spec == Init /\ [][Next]_vars

\* A CLI process that has been started runs on: the operating system schedules
\* it.  Nothing makes a user invoke a command or the remote command end.
FairSpec ==
    /\ Spec
    /\ \A j \in Jobs : WF_vars(RunStep(j) /\ UNCHANGED faults)
    /\ \A p \in Clients : WF_vars(ClientStep(p) /\ UNCHANGED faults)

-----------------------------------------------------------------------------
(* Properties *)

TypeOK ==
    /\ file \in [Jobs -> JobState]
    /\ run \in [Jobs -> [pc : RunPcs, rec : JobState]]
    /\ client \in [Clients -> [pc : ClientPcs, op : Ops, job : Jobs, rec : JobState]]
    /\ work \in [Jobs -> Works]
    /\ pid \in [Jobs -> Pids]
    /\ remoteDir \in BOOLEAN
    /\ tmuxInstalled \in BOOLEAN

\* Run writes ahead: a command runs on a remote host only if this machine has
\* a record file for it, whatever failed or crashed in between.
WriteAhead == \A j \in Jobs : work[j] # "none" => file[j].status # "absent"

\* Whoever sees a handle, on disk or in a loaded copy, sees the handle of a
\* command that was really started, in the mode it was started in; a nohup
\* handle then leads to a .pid file.
HandleIsReal ==
    LET Real(rec, j) ==
            rec.handle => /\ work[j] # "none"
                          /\ rec.mode = run[j].rec.mode
                          /\ rec.mode = "nohup" => pid[j] # "nofile"
    IN  /\ \A j \in Jobs : Real(file[j], j)
        /\ \A p \in Clients : Real(client[p].rec, client[p].job)

\* A record says "stopped" only when what its handle names is gone, whatever
\* Runs, Stops and lost answers raced with each other: the command of a tmux
\* session, the process of a .pid file.
Gone(rec, j) == IF rec.mode = "tmux" THEN work[j] = "ended"
                                     ELSE pid[j] \in {"dead", "foreign", "hit"}

StoppedIsGone ==
    \A j \in Jobs : file[j].status = "stopped" => Gone(file[j], j)

\* The final save of Run cannot bring a stopped job back to "started": by the
\* time any process knows enough to stop the job, Run has written its last byte.
NoResurrection ==
    \A j \in Jobs :
        \/ run[j].pc = "done"
        \/ /\ file[j].status # "stopped"
           /\ \A p \in Clients : client[p].job = j => client[p].rec.status # "stopped"

\* Processes that have truncated the record and not yet written it.
Saving(j) == {p \in Clients : /\ client[p].job = j
                              /\ client[p].pc \in {"stoppingWrite", "stoppedWrite"}}

\* Run has finished, every copy in memory has the handle, and so has the record, or
\* somebody is about to write it there.
HandleHeld(j) ==
    /\ run[j].pc = "done"
    /\ \A p \in Clients : client[p].job = j /\ client[p].pc \notin {"idle", "load"}
                              => client[p].rec.handle
    /\ file[j].handle \/ (file[j].status = "empty" /\ Saving(j) # {})

\* The only process that is saving the record ends halfway, with the file empty.
StopsHalfway(j) ==
    /\ file[j].status = "empty"
    /\ \E p \in Clients : Saving(j) = {p} /\ client'[p].pc = "idle"

\* Two saves overlap: the later write is the shorter one, and does not cover the other.
Overlap(j) ==
    \E p \in Saving(j) : /\ Size(client[p].rec) < Size(file[j])
                         /\ client'[p].pc \in {"kill", "reported"}

\* Once a handle is held it is held for ever, whatever any number of stops and queries
\* do, but for the two ways of os.WriteFile to lose it: a save that ends between the
\* truncation and the write, and two saves of different length that overlap.  (A copy
\* without the handle, loaded before Run had put it there, loses it too: then it is
\* not held.)  And the state is well typed.
HandleIsKept ==
    /\ []TypeOK
    /\ [][\A j \in Jobs :
            HandleHeld(j) => HandleHeld(j)' \/ StopsHalfway(j) \/ Overlap(j)]_vars

\* A Stop that starts when Run has finished, and that no other process holding a
\* handle-less copy disturbs, ends a tmux job if nothing fails.
StopEndsJob ==
    \A p \in Clients, j \in Jobs :
        (/\ faults = {}
         /\ client[p].pc = "load" /\ client[p].op = "stop" /\ client[p].job = j
         /\ run[j].pc = "done" /\ file[j].handle /\ file[j].mode = "tmux"
         /\ \A q \in Clients \ {p} :
               client[q].job = j /\ client[q].pc \notin {"idle", "load"}
                   => client[q].rec.handle)
        ~> work[j] = "ended"

-----------------------------------------------------------------------------
(* Refinement *)

\* The ledger a user of the jobs directory may rely on.
Ledger == INSTANCE JobLedger WITH
    recorded <- [j \in Jobs |-> file[j].status # "absent"],
    stopped  <- [j \in Jobs |-> file[j].status = "stopped" /\ file[j].mode = "tmux"]

\* Runs, Stops, crashes and torn writes implement the ledger, which reads
\* "stopped" where the record of a tmux job does.
ImplementsLedger == Ledger!Spec
=============================================================================
