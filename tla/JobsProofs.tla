----------------------------- MODULE JobsProofs -----------------------------
(***************************************************************************)
(* Proofs about Jobs, for every set of jobs, clients, mode hints and        *)
(* faults.  The inductive invariant IInv is TypeOK and, for each job, what  *)
(* the control point of its Run says about everything else: nobody can hold *)
(* a handle before Run has saved it, and nobody can have recorded "stopped" *)
(* without a handle and a stop command that worked.                         *)
(***************************************************************************)
EXTENDS Jobs, TLAPS

BeforeLaunch == {"create", "createWrite", "pick", "launch"}
AfterLaunch == {"final", "finalWrite", "done"}

\* Before its Run creates the record nothing else exists.
Fresh(j) == run[j].pc = "create" => file[j].status = "absent"

\* Before the launch the remote host knows nothing of the job.
NotLaunched(j) ==
    run[j].pc \in BeforeLaunch => work[j] = "none" /\ pid[j] = "nofile"

\* Run makes up its handle when it knows the mode, after the record is created.
HandleChosen(j) ==
    /\ run[j].pc \in {"create", "createWrite"} => ~run[j].rec.handle
    /\ run[j].pc = "launch" => run[j].rec.handle /\ run[j].rec.mode \in {"tmux", "nohup"}

\* After a launch that was answered Run holds a handle that leads somewhere.
Launched(j) ==
    run[j].pc \in AfterLaunch =>
        /\ work[j] # "none"
        /\ run[j].rec.handle
        /\ run[j].rec.mode \in {"tmux", "nohup"}
        /\ run[j].rec.mode = "nohup" => pid[j] # "nofile"

\* Only Run's last write hands the handle to others.
HandleFromRun(j, rec) ==
    rec.handle => run[j].pc = "done" /\ rec.mode = run[j].rec.mode

\* A record that says "stopped" has a handle, and what it leads to is over.
StoppedRec(j, rec) ==
    rec.status = "stopped" => rec.handle /\ Gone(rec, j)

\* Run never writes "stopped".
RunStatus(j) == run[j].rec.status \in {"starting", "started"}

JobInv(j) ==
    /\ Fresh(j) /\ HandleChosen(j) /\ NotLaunched(j) /\ Launched(j) /\ RunStatus(j)
    /\ HandleFromRun(j, file[j])
    /\ StoppedRec(j, file[j])
    /\ work[j] # "none" => file[j].status # "absent"
    /\ run[j].pc \notin {"create", "failed", "crashed"} => file[j].status # "absent"

ClientInv(p) ==
    LET c == client[p] IN
    /\ c.pc # "idle" => file[c.job].status # "absent"
    /\ HandleFromRun(c.job, c.rec)
    /\ StoppedRec(c.job, c.rec)
    /\ c.pc \in {"stoppingWrite", "kill", "stopping"} => c.rec.status = "stopping"
    /\ c.pc \in {"stopped", "stoppedWrite", "reported"} => c.rec.status = "stopped"

IInv ==
    /\ TypeOK
    /\ \A j \in Jobs : JobInv(j)
    /\ \A p \in Clients : ClientInv(p)

-----------------------------------------------------------------------------
(* Lemmas on the data *)

\* The memory of an exited process is well typed.
LEMMA IdleType == /\ Idle \in [pc : ClientPcs, op : Ops, job : Jobs, rec : JobState]
                  /\ Idle.pc = "idle" /\ Idle.rec = Blank("absent")
<1>1. (CHOOSE j \in Jobs : TRUE) \in Jobs
  BY JobsAssumption
<1>2. Blank("absent") \in JobState
  BY DEF Blank, JobState, Modes, Statuses, Unreadable
<1>. QED
  BY <1>1, <1>2 DEF Idle, ClientPcs, Ops

\* The two unreadable contents a save can leave are records without a handle.
LEMMA BlankFacts ==
    \A s \in Unreadable : /\ Blank(s) \in JobState
                          /\ ~Blank(s).handle
                          /\ Blank(s).status = s
BY DEF Blank, JobState, Modes, Statuses, Unreadable

\* Writing over a record yields the new record or garbage.
LEMMA OverlayFacts ==
    \A f, rec \in JobState : Overlay(f, rec) \in {rec, Blank("garbled")}
BY DEF Overlay

-----------------------------------------------------------------------------
(* Type correctness *)

LEMMA InitTypeOK == Init => TypeOK
<1>. SUFFICES ASSUME Init PROVE TypeOK
  OBVIOUS
<1>1. file \in [Jobs -> JobState]
  BY BlankFacts DEF Init, Unreadable
<1>2. run \in [Jobs -> [pc : RunPcs, rec : JobState]]
  <2>1. ASSUME NEW h \in Hints
        PROVE  [pc |-> "create",
                rec |-> [mode |-> h, status |-> "starting", handle |-> FALSE]]
                 \in [pc : RunPcs, rec : JobState]
    <3>1. h \in Modes
      BY JobsAssumption DEF Modes
    <3>. QED
      BY <3>1 DEF RunPcs, JobState, Statuses
  <2>. QED
    BY <2>1 DEF Init
<1>3. client \in [Clients -> [pc : ClientPcs, op : Ops, job : Jobs, rec : JobState]]
  BY IdleType DEF Init
<1>4. work \in [Jobs -> Works] /\ pid \in [Jobs -> Pids]
  BY DEF Init, Works, Pids
<1>. QED
  BY <1>1, <1>2, <1>3, <1>4 DEF Init, TypeOK

\* The two halves of SaveState keep every file a record.
LEMMA TruncatesType ==
    ASSUME TypeOK, NEW j \in Jobs, Truncates(j)
    PROVE  file' \in [Jobs -> JobState]
BY BlankFacts DEF TypeOK, Truncates, Unreadable

LEMMA WritesType ==
    ASSUME TypeOK, NEW j \in Jobs, NEW rec \in JobState, Writes(j, rec)
    PROVE  file' \in [Jobs -> JobState]
<1>1. Overlay(file[j], rec) \in JobState
  BY OverlayFacts, BlankFacts DEF TypeOK, Unreadable
<1>. QED
  BY <1>1 DEF TypeOK, Writes

\* Changing the control point, the copy or the status of a process.
LEMMA RunType ==
    ASSUME TypeOK, NEW j \in Jobs, NEW pc \in RunPcs, RunGoes(j, pc)
    PROVE  run' \in [Jobs -> [pc : RunPcs, rec : JobState]]
BY DEF TypeOK, RunGoes

LEMMA ClientType ==
    ASSUME TypeOK, NEW p \in Clients, NEW pc \in ClientPcs, ClientGoes(p, pc)
    PROVE  client' \in [Clients -> [pc : ClientPcs, op : Ops, job : Jobs, rec : JobState]]
BY DEF TypeOK, ClientGoes

LEMMA ExitType ==
    ASSUME TypeOK, NEW p \in Clients, ClientExits(p)
    PROVE  client' \in [Clients -> [pc : ClientPcs, op : Ops, job : Jobs, rec : JobState]]
BY IdleType DEF TypeOK, ClientExits

LEMMA KillType ==
    ASSUME TypeOK, NEW j \in Jobs, NEW rec \in JobState, Kill(rec, j)
    PROVE  work' \in [Jobs -> Works] /\ pid' \in [Jobs -> Pids]
BY DEF TypeOK, Kill, Works, Pids

LEMMA RunStepTypeOK ==
    ASSUME TypeOK, NEW j \in Jobs, RunStep(j) \/ RunCrashes(j)
    PROVE  TypeOK'
<1>1. CASE RunCreates(j)
  BY <1>1, TruncatesType, RunType DEF RunCreates, TypeOK, RunPcs
<1>2. CASE RunCreateWrites(j)
  BY <1>2, WritesType, RunType DEF RunCreateWrites, TypeOK, RunPcs
<1>3. CASE RunPicksMode(j)
  <2>1. PICK m \in Picks(run[j].rec.mode) :
          run' = [run EXCEPT ![j] =
                    IF m \in {"tmux", "nohup"}
                    THEN [pc |-> "launch",
                          rec |-> [mode |-> m, status |-> "starting", handle |-> TRUE]]
                    ELSE [@ EXCEPT !.pc = "failed"]]
    BY <1>3 DEF RunPicksMode
  <2>2. CASE m \in {"tmux", "nohup"}
    <3>1. [mode |-> m, status |-> "starting", handle |-> TRUE] \in JobState
      BY <2>2 DEF JobState, Modes, Statuses
    <3>2. run' \in [Jobs -> [pc : RunPcs, rec : JobState]]
      BY <2>1, <2>2, <3>1 DEF TypeOK, RunPcs
    <3>. QED
      BY <1>3, <3>2 DEF RunPicksMode, TypeOK
  <2>3. CASE m \notin {"tmux", "nohup"}
    <3>1. run' \in [Jobs -> [pc : RunPcs, rec : JobState]]
      BY <2>1, <2>3 DEF TypeOK, RunPcs
    <3>. QED
      BY <1>3, <3>1 DEF RunPicksMode, TypeOK
  <2>. QED
    BY <2>2, <2>3
<1>4. CASE RunLaunches(j)
  <2>1. run' \in [Jobs -> [pc : RunPcs, rec : JobState]]
    BY <1>4, RunType DEF RunLaunches, RunPcs
  <2>2. work' \in [Jobs -> Works] /\ pid' \in [Jobs -> Pids] /\ remoteDir' \in BOOLEAN
    BY <1>4 DEF RunLaunches, LaunchEffect, TypeOK, Works, Pids
  <2>. QED
    BY <1>4, <2>1, <2>2 DEF RunLaunches, TypeOK
<1>5. CASE RunFinalTruncates(j)
  <2>1. run' \in [Jobs -> [pc : RunPcs, rec : JobState]]
    BY <1>5, RunType, SMTT(30) DEF RunFinalTruncates, RunPcs, TypeOK, JobState, Statuses
  <2>. QED
    BY <1>5, <2>1, TruncatesType DEF RunFinalTruncates, TypeOK
<1>6. CASE RunFinalWrites(j)
  BY <1>6, WritesType, RunType DEF RunFinalWrites, TypeOK, RunPcs
<1>7. CASE RunCrashes(j)
  BY <1>7, RunType DEF RunCrashes, TypeOK, RunPcs
<1>. QED
  BY <1>1, <1>2, <1>3, <1>4, <1>5, <1>6, <1>7 DEF RunStep

LEMMA ClientStepTypeOK ==
    ASSUME TypeOK, NEW p \in Clients, ClientStep(p) \/ ClientCrashes(p)
    PROVE  TypeOK'
<1>0. client[p].job \in Jobs /\ client[p].rec \in JobState
  BY DEF TypeOK
<1>1. CASE ClientLoads(p)
  <2>1. CASE ClientExits(p)
    BY <1>1, <2>1, ExitType DEF ClientLoads, TypeOK
  <2>2. CASE ~ClientExits(p)
    <3> DEFINE pc2 == IF client[p].op = "stop" THEN "stopping" ELSE "query"
               rec2 == IF client[p].op = "stop"
                       THEN [file[client[p].job] EXCEPT !.status = "stopping"]
                       ELSE file[client[p].job]
    <3>1. client' = [client EXCEPT ![p].pc = pc2, ![p].rec = rec2]
      BY <1>1, <2>2 DEF ClientLoads
    <3>2. pc2 \in ClientPcs /\ rec2 \in JobState
      BY <1>0 DEF TypeOK, ClientPcs, JobState, Statuses
    <3> HIDE DEF pc2, rec2
    <3>3. client' \in [Clients -> [pc : ClientPcs, op : Ops, job : Jobs, rec : JobState]]
      BY <3>1, <3>2 DEF TypeOK
    <3>. QED
      BY <1>1, <3>3 DEF ClientLoads, TypeOK
  <2>. QED
    BY <2>1, <2>2
<1>2. CASE ClientQueries(p)
  BY <1>2, ExitType DEF ClientQueries, TypeOK
<1>3. CASE StopTruncates(p)
  BY <1>0, <1>3, ExitType, ClientType, TruncatesType DEF StopTruncates, TypeOK, ClientPcs
<1>4. CASE StopWrites(p)
  BY <1>0, <1>4, ExitType, ClientType, WritesType DEF StopWrites, TypeOK, ClientPcs
<1>5. CASE StopKills(p)
  <2>1. client' \in [Clients -> [pc : ClientPcs, op : Ops, job : Jobs, rec : JobState]]
    <3>1. CASE ClientExits(p)
      BY <3>1, ExitType
    <3>2. CASE ~ClientExits(p)
      <4> DEFINE rec2 == [client[p].rec EXCEPT !.status = "stopped"]
      <4>1. client' = [client EXCEPT ![p].pc = "stopped", ![p].rec = rec2]
        BY <1>5, <3>2 DEF StopKills
      <4>2. rec2 \in JobState
        BY <1>0 DEF JobState, Statuses
      <4> HIDE DEF rec2
      <4>. QED
        BY <4>1, <4>2, ZenonT(30) DEF TypeOK, ClientPcs
    <3>. QED
      BY <3>1, <3>2
  <2>2. work' \in [Jobs -> Works] /\ pid' \in [Jobs -> Pids]
    BY <1>0, <1>5, KillType DEF StopKills, TypeOK
  <2>. QED
    BY <1>5, <2>1, <2>2 DEF StopKills, TypeOK
<1>6. CASE StopFinalTruncates(p)
  BY <1>0, <1>6, ExitType, ClientType, TruncatesType DEF StopFinalTruncates, TypeOK, ClientPcs
<1>7. CASE StopFinalWrites(p)
  BY <1>0, <1>7, ExitType, ClientType, WritesType DEF StopFinalWrites, TypeOK, ClientPcs
<1>8. CASE StopReturns(p)
  BY <1>8, ExitType DEF StopReturns, TypeOK
<1>9. CASE ClientCrashes(p)
  BY <1>9, ExitType DEF ClientCrashes, TypeOK
<1>. QED
  BY <1>1, <1>2, <1>3, <1>4, <1>5, <1>6, <1>7, <1>8, <1>9 DEF ClientStep

LEMMA NextTypeOK == TypeOK /\ [Next]_vars => TypeOK'
<1>. SUFFICES ASSUME TypeOK, [Next]_vars PROVE TypeOK'
  OBVIOUS
<1>1. ASSUME NEW j \in Jobs, RunStep(j) \/ RunCrashes(j) PROVE TypeOK'
  BY <1>1, RunStepTypeOK
<1>2. ASSUME NEW j \in Jobs, WorkEnds(j) PROVE TypeOK'
  BY <1>2 DEF WorkEnds, TypeOK, Works, Pids
<1>3. ASSUME NEW j \in Jobs, PidRecycled(j) PROVE TypeOK'
  BY <1>3 DEF PidRecycled, TypeOK, Pids
<1>4. ASSUME NEW p \in Clients, ClientStep(p) \/ ClientCrashes(p) PROVE TypeOK'
  BY <1>4, ClientStepTypeOK
<1>5. ASSUME NEW p \in Clients, NEW op \in Ops, NEW j \in Jobs, Invoke(p, op, j)
      PROVE  TypeOK'
  BY <1>5, BlankFacts DEF Invoke, TypeOK, ClientPcs, Unreadable
<1>6. CASE UNCHANGED vars
  BY <1>6 DEF vars, TypeOK
<1>. QED
  BY <1>1, <1>2, <1>3, <1>4, <1>5, <1>6 DEF Next

\* Every variable of the job registry keeps its type, in every instance.
THEOREM TypeCorrect == Spec => []TypeOK
BY InitTypeOK, NextTypeOK, PTL DEF Spec

-----------------------------------------------------------------------------
(* The inductive invariant *)

\* What no step takes back: a record file stays, a finished Run stays as it is,
\* and an ended command stays ended.
Keeps(j) ==
    /\ file[j].status # "absent" => file'[j].status # "absent"
    /\ run[j].pc = "done" => run'[j] = run[j]
    /\ work[j] = "ended" => work'[j] = "ended"
    /\ pid[j] \in {"dead", "foreign", "hit"} => pid'[j] \in {"dead", "foreign", "hit"}

\* A process that does not move keeps its invariant through other processes' steps.
LEMMA ClientFrame ==
    ASSUME NEW p \in Clients, ClientInv(p), client'[p] = client[p],
           Keeps(client[p].job)
    PROVE  ClientInv(p)'
BY DEF ClientInv, Keeps, HandleFromRun, StoppedRec, Gone

\* A job nobody touches keeps its invariant.
LEMMA JobFrame ==
    ASSUME NEW j \in Jobs, JobInv(j), file'[j] = file[j], run'[j] = run[j],
           work'[j] = work[j], pid'[j] = pid[j]
    PROVE  JobInv(j)'
BY DEF JobInv, Fresh, HandleChosen, NotLaunched, Launched, RunStatus, HandleFromRun,
       StoppedRec, Gone

LEMMA InitIInv == Init => IInv
<1>. SUFFICES ASSUME Init PROVE IInv
  OBVIOUS
<1>1. TypeOK
  BY InitTypeOK
<1>2. ASSUME NEW j \in Jobs PROVE JobInv(j)
  <2>1. /\ run[j].pc = "create" /\ run[j].rec.status = "starting"
        /\ ~run[j].rec.handle
    BY DEF Init
  <2>2. file[j] = Blank("absent") /\ work[j] = "none" /\ pid[j] = "nofile"
    BY DEF Init
  <2>. QED
    BY <2>1, <2>2 DEF JobInv, Fresh, HandleChosen, NotLaunched, Launched, RunStatus,
                      HandleFromRun, StoppedRec, Blank, AfterLaunch
<1>3. ASSUME NEW p \in Clients PROVE ClientInv(p)
  BY IdleType DEF Init, ClientInv, HandleFromRun, StoppedRec, Blank
<1>. QED
  BY <1>1, <1>2, <1>3 DEF IInv

\* What the two halves of SaveState leave in the file.
LEMMA TruncatesGives ==
    ASSUME TypeOK, NEW j \in Jobs, Truncates(j)
    PROVE  /\ file'[j] = Blank("empty")
           /\ \A k \in Jobs : k # j => file'[k] = file[k]
BY DEF TypeOK, Truncates

LEMMA WritesGives ==
    ASSUME TypeOK, NEW j \in Jobs, NEW rec \in JobState, Writes(j, rec)
    PROVE  /\ file'[j] \in {rec, Blank("garbled")}
           /\ \A k \in Jobs : k # j => file'[k] = file[k]
BY OverlayFacts DEF TypeOK, Writes

\* A step of `job run`: only its own job changes.
LEMMA RunStepIInv ==
    ASSUME IInv, NEW j \in Jobs, RunStep(j) \/ RunCrashes(j)
    PROVE  IInv'
<1> USE DEF BeforeLaunch, AfterLaunch
<1>0. TypeOK /\ JobInv(j) /\ run[j].rec \in JobState
  BY DEF IInv, TypeOK
<1>t. TypeOK'
  BY <1>0, RunStepTypeOK
<1>1. /\ client' = client
      /\ \A k \in Jobs : k # j => /\ file'[k] = file[k] /\ run'[k] = run[k]
                                  /\ work'[k] = work[k] /\ pid'[k] = pid[k]
  BY <1>0, TruncatesGives, WritesGives
     DEF RunStep, RunCreates, RunCreateWrites, RunPicksMode, RunLaunches, LaunchEffect,
         RunFinalTruncates, RunFinalWrites, RunCrashes, RunGoes, TypeOK
<1>2. JobInv(j)' /\ Keeps(j)
  <2> USE DEF JobInv, Fresh, HandleChosen, NotLaunched, Launched, RunStatus, HandleFromRun,
              StoppedRec, Keeps
  <2>1. CASE RunCreates(j)
    BY <1>0, <2>1, TruncatesGives, BlankFacts DEF RunCreates, RunGoes, TypeOK, Unreadable, Gone
  <2>2. CASE RunCreateWrites(j)
    BY <1>0, <2>2, WritesGives, BlankFacts DEF RunCreateWrites, RunGoes, TypeOK, Unreadable
  <2>3. CASE RunPicksMode(j)
    BY <1>0, <2>3 DEF RunPicksMode, TypeOK
  <2>4. CASE RunLaunches(j)
    BY <1>0, <2>4 DEF RunLaunches, LaunchEffect, RunGoes, TypeOK
  <2>5. CASE RunFinalTruncates(j)
    BY <1>0, <2>5, TruncatesGives, BlankFacts DEF RunFinalTruncates, RunGoes, TypeOK, Unreadable
  <2>6. CASE RunFinalWrites(j)
    BY <1>0, <2>6, WritesGives, BlankFacts DEF RunFinalWrites, RunGoes, TypeOK, Unreadable
  <2>7. CASE RunCrashes(j)
    BY <1>0, <2>7 DEF RunCrashes, RunGoes, TypeOK
  <2>. QED
    BY <2>1, <2>2, <2>3, <2>4, <2>5, <2>6, <2>7 DEF RunStep
<1>3. ASSUME NEW k \in Jobs PROVE JobInv(k)' /\ Keeps(k)
  <2>1. CASE k = j
    BY <1>2, <2>1
  <2>2. CASE k # j
    BY <1>1, <2>2, JobFrame DEF IInv, Keeps
  <2>. QED
    BY <2>1, <2>2
<1>4. ASSUME NEW p \in Clients PROVE ClientInv(p)'
  BY <1>0, <1>1, <1>3, ClientFrame DEF IInv, TypeOK
<1>. QED
  BY <1>t, <1>3, <1>4 DEF IInv

\* A step of another CLI process: Run keeps its state, only the process and the
\* job it works on change.
LEMMA ClientStepIInv ==
    ASSUME IInv, NEW p \in Clients, ClientStep(p) \/ ClientCrashes(p)
    PROVE  IInv'
<1>. PICK j \in Jobs : j = client[p].job
  BY DEF IInv, TypeOK
<1>0. /\ TypeOK /\ j = client[p].job /\ client[p].rec \in JobState
      /\ JobInv(j) /\ ClientInv(p)
  BY DEF IInv, TypeOK
<1>t. TypeOK'
  BY <1>0, ClientStepTypeOK
<1>1. /\ run' = run
      /\ \A k \in Jobs : k # j => /\ file'[k] = file[k]
                                  /\ work'[k] = work[k] /\ pid'[k] = pid[k]
      /\ \A q \in Clients : q # p => client'[q] = client[q]
  BY <1>0, TruncatesGives, WritesGives, SMTT(30)
     DEF ClientStep, ClientLoads, ClientQueries, StopTruncates, StopWrites, StopKills,
         StopFinalTruncates, StopFinalWrites, StopReturns, ClientCrashes, ClientGoes,
         ClientExits, Kill, TypeOK
<1>2. JobInv(j)' /\ Keeps(j) /\ ClientInv(p)'
  <2>i. ASSUME ClientExits(p) PROVE ClientInv(p)'
    BY <1>0, <2>i, IdleType, BlankFacts, SMTT(30)
       DEF ClientExits, ClientInv, HandleFromRun, StoppedRec, TypeOK, Unreadable
  <2> USE DEF JobInv, Fresh, HandleChosen, NotLaunched, Launched, RunStatus,
              HandleFromRun, StoppedRec, Keeps
  <2>1. CASE ClientLoads(p)
    <3>1. JobInv(j)' /\ Keeps(j)
      BY <1>0, <1>1, <2>1, JobFrame, SMTT(30) DEF ClientLoads
    <3>2. CASE ~ClientExits(p)
      <4>1. /\ client'[p].job = j
            /\ \/ client'[p].pc = "stopping" /\ client'[p].rec = [file[j] EXCEPT !.status = "stopping"]
               \/ client'[p].pc = "query" /\ client'[p].rec = file[j]
        BY <1>0, <2>1, <3>2 DEF ClientLoads, TypeOK
      <4>2. Readable(file[j]) /\ file' = file /\ run' = run /\ work' = work
        BY <1>0, <2>1, <3>2 DEF ClientLoads
      <4>3. /\ client'[p].rec.handle = file[j].handle /\ client'[p].rec.mode = file[j].mode
            /\ client'[p].pc = "stopping" => client'[p].rec.status = "stopping"
            /\ client'[p].pc = "query" => client'[p].rec.status = file[j].status
        BY <1>0, <4>1 DEF TypeOK, JobState
      <4>4. /\ HandleFromRun(j, file[j]) /\ StoppedRec(j, file[j])
            /\ file[j].status # "absent"
        BY <1>0, <4>2, SMTT(30) DEF Readable, Statuses
      <4>. QED
        BY <3>1, <4>1, <4>2, <4>3, <4>4, ZenonT(30) DEF ClientInv, Gone
    <3>. QED
      BY <3>1, <3>2, <2>i, SMTT(30)
  <2>2. CASE ClientQueries(p) \/ StopReturns(p) \/ ClientCrashes(p)
    BY <1>0, <1>1, <2>2, <2>i, JobFrame, SMTT(30) DEF ClientQueries, StopReturns, ClientCrashes
  <2>3. CASE StopTruncates(p) \/ StopFinalTruncates(p)
    <3>1. CASE ClientExits(p) /\ file' = file
      BY <1>0, <1>1, <2>3, <3>1, <2>i, JobFrame, SMTT(30) DEF StopTruncates, StopFinalTruncates
    <3>2. CASE Truncates(j) /\ (ClientGoes(p, "stoppingWrite") \/ ClientGoes(p, "stoppedWrite"))
      <4>1. JobInv(j)' /\ Keeps(j)
        BY <1>0, <1>1, <2>3, <3>2, TruncatesGives, BlankFacts
           DEF StopTruncates, StopFinalTruncates, Unreadable, ClientInv
      <4>2. ClientInv(p)'
        <5>1. /\ client'[p].job = j /\ client'[p].rec = client[p].rec
              /\ \/ client[p].pc = "stopping" /\ client'[p].pc = "stoppingWrite"
                 \/ client[p].pc = "stopped" /\ client'[p].pc = "stoppedWrite"
          BY <1>0, <2>3, <3>2, IdleType DEF StopTruncates, StopFinalTruncates, ClientGoes, ClientExits, TypeOK
        <5>2. file'[j].status = "empty"
          BY <1>0, <3>2, TruncatesGives, BlankFacts, SMTT(30) DEF Unreadable
        <5>. QED
          BY <1>0, <1>1, <4>1, <5>1, <5>2 DEF ClientInv, Gone
      <4>. QED
        BY <4>1, <4>2
    <3>. HIDE DEF JobInv, Fresh, HandleChosen, NotLaunched, Launched, RunStatus,
                  HandleFromRun, StoppedRec, Keeps
    <3>. QED
      BY <1>0, <2>3, <3>1, <3>2, Zenon DEF StopTruncates, StopFinalTruncates
  <2>4. CASE StopWrites(p) \/ StopFinalWrites(p)
    <3>1. CASE ClientExits(p) /\ file' = file
      BY <1>0, <1>1, <2>4, <3>1, <2>i, JobFrame DEF StopWrites, StopFinalWrites
    <3>2. CASE Writes(j, client[p].rec) /\ (ClientGoes(p, "kill") \/ ClientGoes(p, "reported"))
      <4>1. file'[j] \in {client[p].rec, Blank("garbled")}
        BY <1>0, <3>2, WritesGives, SMTT(30)
      <4>2. JobInv(j)' /\ Keeps(j)
        BY <1>0, <1>1, <2>4, <4>1, BlankFacts, SMTT(30)
           DEF StopWrites, StopFinalWrites, Unreadable, ClientInv, Gone
      <4>3. ClientInv(p)'
        <5>1. /\ client'[p].job = j /\ client'[p].rec = client[p].rec
              /\ \/ client[p].pc = "stoppingWrite" /\ client'[p].pc = "kill"
                 \/ client[p].pc = "stoppedWrite" /\ client'[p].pc = "reported"
          BY <1>0, <2>4, <3>2, IdleType, SMTT(30) DEF StopWrites, StopFinalWrites, ClientGoes, ClientExits, TypeOK
        <5>. QED
          BY <1>0, <1>1, <4>2, <5>1 DEF ClientInv, Gone
      <4>. QED
        BY <4>2, <4>3
    <3>. HIDE DEF JobInv, Fresh, HandleChosen, NotLaunched, Launched, RunStatus,
                  HandleFromRun, StoppedRec, Keeps
    <3>. QED
      BY <1>0, <2>4, <3>1, <3>2, Zenon DEF StopWrites, StopFinalWrites
  <2>5. CASE StopKills(p)
    <3>1. CASE ClientExits(p) /\ UNCHANGED <<work, pid>>
      BY <1>0, <1>1, <2>5, <3>1, <2>i, JobFrame DEF StopKills
    <3>2. CASE StopSucceeds(client[p].rec, j) /\ Kill(client[p].rec, j)
      <4>1. /\ run[j].pc = "done" /\ client[p].rec.mode = run[j].rec.mode
            /\ client[p].rec.handle
        BY <1>0, <3>2 DEF StopSucceeds, ClientInv
      <4>2. IF client[p].rec.mode = "tmux" THEN work'[j] = "ended"
                                           ELSE pid'[j] \in {"dead", "foreign", "hit"}
        BY <1>0, <3>2, <4>1, SMTT(30) DEF StopSucceeds, Kill, Gone, TypeOK, AfterLaunch
      <4>3. JobInv(j)' /\ Keeps(j)
        BY <1>0, <1>1, <2>5, <3>2, <4>1, SMTT(30)
           DEF StopKills, StopSucceeds, Kill, Gone, TypeOK, AfterLaunch, BeforeLaunch, Works
      <4>4. CASE ~ClientExits(p)
        <5>1. /\ client'[p].job = j /\ client'[p].pc = "stopped"
              /\ client'[p].rec = [client[p].rec EXCEPT !.status = "stopped"]
          BY <1>0, <2>5, <4>4 DEF StopKills, TypeOK
        <5>2. /\ client'[p].rec.handle /\ client'[p].rec.mode = client[p].rec.mode
              /\ client'[p].rec.status = "stopped"
          BY <1>0, <4>1, <5>1 DEF JobState
        <5>. QED
          BY <1>0, <1>1, <4>1, <4>2, <4>3, <5>1, <5>2 DEF ClientInv, Gone
      <4>. QED
        BY <4>3, <4>4, <2>i
    <3>. HIDE DEF JobInv, Fresh, HandleChosen, NotLaunched, Launched, RunStatus,
                  HandleFromRun, StoppedRec, Keeps
    <3>3. \/ ClientExits(p) /\ UNCHANGED <<work, pid>>
          \/ StopSucceeds(client[p].rec, j) /\ Kill(client[p].rec, j)
      BY <1>0, <2>5, Zenon DEF StopKills
    <3>. QED
      BY <3>1, <3>2, <3>3, ZenonT(30)
  <2>. HIDE DEF JobInv, Fresh, HandleChosen, NotLaunched, Launched, RunStatus,
                HandleFromRun, StoppedRec, Keeps
  <2>. QED
    BY <1>0, <2>1, <2>2, <2>3, <2>4, <2>5, Zenon DEF ClientStep
<1>3. ASSUME NEW k \in Jobs PROVE JobInv(k)' /\ Keeps(k)
  <2>1. CASE k = j
    BY <1>2, <2>1
  <2>2. CASE k # j
    BY <1>1, <2>2, JobFrame DEF IInv, Keeps
  <2>. QED
    BY <2>1, <2>2
<1>4. ASSUME NEW q \in Clients PROVE ClientInv(q)'
  BY <1>0, <1>1, <1>2, <1>3, ClientFrame DEF IInv, TypeOK
<1>. QED
  BY <1>t, <1>3, <1>4 DEF IInv

LEMMA NextIInv == IInv /\ [Next]_vars => IInv'
<1>. SUFFICES ASSUME IInv, [Next]_vars PROVE IInv'
  OBVIOUS
<1>0. TypeOK /\ TypeOK'
  BY NextTypeOK DEF IInv
<1>1. ASSUME NEW j \in Jobs, RunStep(j) \/ RunCrashes(j) PROVE IInv'
  BY <1>1, RunStepIInv
<1>2. ASSUME NEW j \in Jobs, WorkEnds(j) \/ PidRecycled(j) PROVE IInv'
  <2>1. /\ file' = file /\ run' = run /\ client' = client
        /\ \A k \in Jobs : k # j => work'[k] = work[k] /\ pid'[k] = pid[k]
    BY <1>0, <1>2 DEF WorkEnds, PidRecycled, TypeOK
  <2>2. JobInv(j)' /\ Keeps(j)
    BY <1>0, <1>2, <2>1
       DEF WorkEnds, PidRecycled, IInv, TypeOK, JobInv, Fresh, HandleChosen, NotLaunched,
           Launched, RunStatus, HandleFromRun, StoppedRec, Keeps, Gone,
           BeforeLaunch, AfterLaunch
  <2>3. ASSUME NEW k \in Jobs PROVE JobInv(k)' /\ Keeps(k)
    <3>1. CASE k = j
      BY <2>2, <3>1
    <3>2. CASE k # j
      BY <2>1, <3>2, JobFrame DEF IInv, Keeps
    <3>. QED
      BY <3>1, <3>2
  <2>. QED
    BY <1>0, <2>1, <2>3, ClientFrame DEF IInv, TypeOK
<1>3. ASSUME NEW p \in Clients, ClientStep(p) \/ ClientCrashes(p) PROVE IInv'
  BY <1>3, ClientStepIInv
<1>4. ASSUME NEW p \in Clients, NEW op \in Ops, NEW j \in Jobs, Invoke(p, op, j)
      PROVE  IInv'
  <2>1. \A k \in Jobs : JobInv(k)' /\ Keeps(k)
    BY <1>4, JobFrame DEF Invoke, IInv, Keeps
  <2>2. ClientInv(p)'
    BY <1>0, <1>4, BlankFacts
       DEF Invoke, IInv, TypeOK, ClientInv, HandleFromRun, StoppedRec, Readable,
           Statuses, Unreadable
  <2>3. \A q \in Clients : q # p => client'[q] = client[q]
    BY <1>0, <1>4 DEF Invoke, TypeOK
  <2>. QED
    BY <1>0, <2>1, <2>2, <2>3, ClientFrame DEF IInv, TypeOK
<1>5. CASE UNCHANGED vars
  <2>1. \A k \in Jobs : JobInv(k)' /\ Keeps(k)
    BY <1>5, JobFrame DEF vars, IInv, Keeps
  <2>. QED
    BY <1>0, <1>5, <2>1, ClientFrame DEF vars, IInv, TypeOK
<1>. QED
  BY <1>1, <1>2, <1>3, <1>4, <1>5 DEF Next

LEMMA Inductive == Spec => []IInv
BY InitIInv, NextIInv, PTL DEF Spec

-----------------------------------------------------------------------------
(* Safety *)

\* A remote command has a local record, whatever failed or crashed.
THEOREM RunWritesAhead == Spec => []WriteAhead
<1>1. IInv => WriteAhead
  BY DEF IInv, JobInv, WriteAhead
<1>. QED
  BY <1>1, Inductive, PTL

\* A handle, wherever it is seen, leads to a command that was started.
THEOREM HandlesAreReal == Spec => []HandleIsReal
<1>1. IInv => HandleIsReal
  BY DEF IInv, TypeOK, JobInv, ClientInv, HandleFromRun, Launched, AfterLaunch, HandleIsReal
<1>. QED
  BY <1>1, Inductive, PTL

\* A record reads "stopped" only when what its handle names is gone.
THEOREM StoppedIsGoneAlways == Spec => []StoppedIsGone
<1>1. IInv => StoppedIsGone
  BY DEF IInv, JobInv, StoppedRec, StoppedIsGone
<1>. QED
  BY <1>1, Inductive, PTL

\* Run's last write never overwrites a "stopped".
THEOREM RunNeverResurrects == Spec => []NoResurrection
<1>1. IInv => NoResurrection
  BY DEF IInv, JobInv, ClientInv, StoppedRec, HandleFromRun, NoResurrection
<1>. QED
  BY <1>1, Inductive, PTL

-----------------------------------------------------------------------------
(* Refinement *)

\* Truncating a file that is not there yet is the ledger's Record.
LEMMA CreateRefines ==
    ASSUME NEW j \in Jobs, work' = work, file[j].status = "absent",
           file'[j].status = "empty", \A k \in Jobs : k # j => file'[k] = file[k]
    PROVE  Ledger!Record(j)
BY DEF Ledger!Record

\* Rewriting a record that is there is the ledger's Note.
LEMMA SaveRefines ==
    ASSUME IInv', NEW j \in Jobs, work' = work, file[j].status # "absent",
           file'[j].status # "absent", \A k \in Jobs : k # j => file'[k] = file[k]
    PROVE  Ledger!Note(j)
<1>. DEFINE b == file'[j].status = "stopped"
                  /\ file'[j].mode = "tmux"
<1>1. b => work[j] = "ended"
  BY DEF IInv, JobInv, StoppedRec, Gone
<1>3. [k \in Jobs |-> file[k].status = "stopped" /\ file[k].mode = "tmux"]'
        = [[k \in Jobs |-> file[k].status = "stopped" /\ file[k].mode = "tmux"] EXCEPT ![j] = b]
  OBVIOUS
<1>4. [k \in Jobs |-> file[k].status # "absent"]' = [k \in Jobs |-> file[k].status # "absent"]
  OBVIOUS
<1>5. b \in BOOLEAN
  OBVIOUS
<1>. HIDE DEF b
<1>. QED
  BY <1>1, <1>3, <1>4, <1>5 DEF Ledger!Note

\* The remote command of a recorded job starts or ends.
LEMMA WorkRefines ==
    ASSUME IInv, NEW j \in Jobs, file' = file,
           \/ /\ work[j] = "none" /\ file[j].status # "absent"
              /\ work' = [work EXCEPT ![j] = "running"]
           \/ work[j] = "running" /\ work' = [work EXCEPT ![j] = "ended"]
    PROVE  Ledger!Next
<1>1. UNCHANGED [k \in Jobs |-> file[k].status # "absent"]
  OBVIOUS
<1>2. UNCHANGED [k \in Jobs |-> file[k].status = "stopped" /\ file[k].mode = "tmux"]
  OBVIOUS
<1>3. Ledger!Start(j) \/ Ledger!End(j)
  BY <1>1, <1>2 DEF Ledger!Start, Ledger!End
<1>. QED
  BY <1>3 DEF Ledger!Next

\* A step that touches neither files nor commands is invisible in the ledger.
LEMMA InvisibleStep ==
    ASSUME file' = file, work' = work
    PROVE  UNCHANGED Ledger!vars
<1>1. UNCHANGED [k \in Jobs |-> file[k].status # "absent"]
  OBVIOUS
<1>2. UNCHANGED [k \in Jobs |-> file[k].status = "stopped" /\ file[k].mode = "tmux"]
  OBVIOUS
<1>. QED
  BY <1>1, <1>2 DEF Ledger!vars

LEMMA RunStepRefines ==
    ASSUME IInv, IInv', NEW j \in Jobs, RunStep(j) \/ RunCrashes(j)
    PROVE  [Ledger!Next]_Ledger!vars
<1>0. TypeOK /\ JobInv(j) /\ run[j].rec \in JobState
  BY DEF IInv, TypeOK
<1>1. CASE file' = file /\ work' = work
  BY <1>1, InvisibleStep
<1>2. CASE RunCreates(j) /\ Truncates(j)
  <2>1. file[j].status = "absent" /\ work' = work /\ file'[j].status = "empty"
    BY <1>0, <1>2, TruncatesGives, BlankFacts DEF RunCreates, JobInv, Fresh, Unreadable
  <2>. QED
    BY <1>0, <1>2, <2>1, TruncatesGives, CreateRefines DEF Ledger!Next
<1>3. CASE RunFinalTruncates(j) /\ Truncates(j)
  <2>1. file[j].status # "absent" /\ work' = work /\ file'[j].status = "empty"
    BY <1>0, <1>3, TruncatesGives, BlankFacts DEF RunFinalTruncates, JobInv, Unreadable
  <2>. QED
    BY <1>0, <1>3, <2>1, TruncatesGives, SaveRefines DEF Ledger!Next
<1>4. CASE (RunCreateWrites(j) \/ RunFinalWrites(j)) /\ Writes(j, run[j].rec)
  <2>1. file[j].status # "absent" /\ work' = work
    BY <1>0, <1>4 DEF RunCreateWrites, RunFinalWrites, JobInv
  <2>2. file'[j].status # "absent"
    BY <1>0, <1>4, WritesGives, BlankFacts DEF JobInv, RunStatus, Unreadable
  <2>. QED
    BY <1>0, <1>4, <2>1, <2>2, WritesGives, SaveRefines DEF Ledger!Next
<1>5. CASE RunLaunches(j) /\ work' # work
  <2>1. /\ work[j] = "none" /\ file[j].status # "absent" /\ file' = file
        /\ work' = [work EXCEPT ![j] = "running"]
    BY <1>0, <1>5 DEF RunLaunches, LaunchEffect, JobInv, NotLaunched, BeforeLaunch
  <2>. QED
    BY <2>1, WorkRefines
<1>. QED
  BY <1>1, <1>2, <1>3, <1>4, <1>5
     DEF RunStep, RunCreates, RunCreateWrites, RunPicksMode, RunLaunches,
         RunFinalTruncates, RunFinalWrites, RunCrashes

LEMMA ClientStepRefines ==
    ASSUME IInv, IInv', NEW p \in Clients, ClientStep(p) \/ ClientCrashes(p)
    PROVE  [Ledger!Next]_Ledger!vars
<1>. PICK j \in Jobs : j = client[p].job
  BY DEF IInv, TypeOK
<1>0. /\ TypeOK /\ j = client[p].job /\ client[p].rec \in JobState
      /\ JobInv(j) /\ ClientInv(p)
  BY DEF IInv, TypeOK
<1>1. CASE file' = file /\ work' = work
  BY <1>1, InvisibleStep
<1>2. CASE (StopTruncates(p) \/ StopFinalTruncates(p)) /\ Truncates(j)
  <2>1. file[j].status # "absent" /\ work' = work /\ file'[j].status = "empty"
    BY <1>0, <1>2, TruncatesGives, BlankFacts
       DEF StopTruncates, StopFinalTruncates, ClientInv, Unreadable
  <2>. QED
    BY <1>0, <1>2, <2>1, TruncatesGives, SaveRefines DEF Ledger!Next
<1>3. CASE (StopWrites(p) \/ StopFinalWrites(p)) /\ Writes(j, client[p].rec)
  <2>1. file[j].status # "absent" /\ work' = work
    BY <1>0, <1>3 DEF StopWrites, StopFinalWrites, ClientInv
  <2>2. client[p].rec.status \in {"stopping", "stopped"}
    BY <1>0, <1>3 DEF StopWrites, StopFinalWrites, ClientInv
  <2>3. file'[j].status # "absent"
    BY <1>0, <1>3, <2>2, WritesGives, BlankFacts DEF Unreadable
  <2>. QED
    BY <1>0, <1>3, <2>1, <2>3, WritesGives, SaveRefines DEF Ledger!Next
<1>4. CASE StopKills(p) /\ work' # work
  <2>1. StopSucceeds(client[p].rec, j) /\ Kill(client[p].rec, j) /\ file' = file
    BY <1>0, <1>4 DEF StopKills
  <2>2. work' = [work EXCEPT ![j] = "ended"]
    BY <1>4, <2>1 DEF Kill
  <2>3. run[j].pc = "done"
    BY <1>0, <2>1 DEF StopSucceeds, ClientInv, HandleFromRun
  <2>4. work[j] = "running"
    BY <1>0, <1>4, <2>2, <2>3 DEF JobInv, Launched, AfterLaunch, TypeOK, Works
  <2>. QED
    BY <2>1, <2>2, <2>4, WorkRefines
<1>. QED
  BY <1>0, <1>1, <1>2, <1>3, <1>4
     DEF ClientStep, ClientLoads, ClientQueries, StopTruncates, StopWrites, StopKills,
         StopFinalTruncates, StopFinalWrites, StopReturns, ClientCrashes

\* The processes, files, faults and races of Jobs implement the ledger: an entry
\* before its command, one start, no return, and no false "stopped".
THEOREM JobsRefineLedger == Spec => ImplementsLedger
<1>1. Init => Ledger!Init
  <2>. SUFFICES ASSUME Init PROVE Ledger!Init
    OBVIOUS
  <2>1. \A j \in Jobs : file[j].status = "absent"
    BY BlankFacts DEF Init, Unreadable
  <2>. QED
    BY <2>1 DEF Init, Ledger!Init
<1>2. IInv /\ IInv' /\ [Next]_vars => [Ledger!Next]_Ledger!vars
  <2>. SUFFICES ASSUME IInv, IInv', [Next]_vars PROVE [Ledger!Next]_Ledger!vars
    OBVIOUS
  <2>1. ASSUME NEW j \in Jobs, RunStep(j) \/ RunCrashes(j)
        PROVE  [Ledger!Next]_Ledger!vars
    BY <2>1, RunStepRefines
  <2>2. ASSUME NEW j \in Jobs, WorkEnds(j)
        PROVE  [Ledger!Next]_Ledger!vars
    BY <2>2, WorkRefines DEF WorkEnds
  <2>3. ASSUME NEW p \in Clients, ClientStep(p) \/ ClientCrashes(p)
        PROVE  [Ledger!Next]_Ledger!vars
    BY <2>3, ClientStepRefines
  <2>4. ASSUME file' = file, work' = work
        PROVE  [Ledger!Next]_Ledger!vars
    BY <2>4, InvisibleStep
  <2>. QED
    BY <2>1, <2>2, <2>3, <2>4 DEF Next, PidRecycled, Invoke, vars
<1>. QED
  BY <1>1, <1>2, Inductive, PTL DEF Spec, ImplementsLedger, Ledger!Spec
-----------------------------------------------------------------------------
(* What becomes of a handle *)

\* A document has a length; one written over an empty file is what is found there.
LEMMA SizeFacts ==
    /\ \A rec \in JobState : Size(rec) \in Nat
    /\ \A f, rec \in JobState : f.status = "empty" => Overlay(f, rec) = rec
<1>1. ASSUME NEW rec \in JobState PROVE Size(rec) \in Nat
  BY DEF Size, JobState
<1>2. ASSUME NEW f \in JobState, NEW rec \in JobState, f.status = "empty"
      PROVE  Overlay(f, rec) = rec
  <2>1. Size(f) = 0
    BY <1>2 DEF Size
  <2>. QED
    BY <1>1, <2>1 DEF Overlay
<1>. QED
  BY <1>1, <1>2

Kept(j) == HandleHeld(j)' \/ StopsHalfway(j) \/ Overlap(j)

\* A step that leaves the record and its savers alone, and loads no copy without a handle.
LEMMA QuietStepKeepsHandle ==
    ASSUME IInv, NEW j \in Jobs, HandleHeld(j), run'[j] = run[j],
           file'[j] = file[j],
           \A p \in Clients :
              /\ p \in Saving(j) => client'[p] = client[p]
              /\ client'[p].job = j /\ client'[p].pc \notin {"idle", "load"} =>
                    client'[p].rec.handle
    PROVE  Kept(j)
<1>1. Saving(j) \subseteq Saving(j)'
  BY DEF Saving
<1>. QED
  BY <1>1 DEF Kept, HandleHeld

\* A step of one process, whose copy is the one it had.
LEMMA OneMoves ==
    ASSUME IInv, NEW j \in Jobs, HandleHeld(j), NEW p \in Clients, NEW c,
           client' = [client EXCEPT ![p] = c],
           c.job = j /\ c.pc \notin {"idle", "load"} => c.rec.handle
    PROVE  /\ client'[p] = c
           /\ \A q \in Clients \ {p} : client'[q] = client[q]
           /\ \A q \in Clients : client'[q].job = j /\ client'[q].pc \notin {"idle", "load"} =>
                 client'[q].rec.handle
<1>1. client'[p] = c /\ \A q \in Clients \ {p} : client'[q] = client[q]
  BY DEF IInv, TypeOK
<1>. QED
  BY <1>1 DEF HandleHeld

LEMMA RunStepKeepsHandle ==
    ASSUME IInv, NEW j \in Jobs, HandleHeld(j), NEW k \in Jobs, RunStep(k) \/ RunCrashes(k)
    PROVE  Kept(j)
<1>1. k # j /\ UNCHANGED client
  BY DEF HandleHeld, RunStep, RunCreates, RunCreateWrites, RunPicksMode, RunLaunches,
         RunFinalTruncates, RunFinalWrites, RunCrashes
<1>2. file' = file \/ Truncates(k) \/ Writes(k, run[k].rec)
  BY DEF RunStep, RunCreates, RunCreateWrites, RunPicksMode, RunLaunches,
         RunFinalTruncates, RunFinalWrites, RunCrashes
<1>3. file'[j] = file[j]
  BY <1>1, <1>2 DEF Truncates, Writes, IInv, TypeOK
<1>4. run'[j] = run[j]
  BY <1>1 DEF RunStep, RunCreates, RunCreateWrites, RunPicksMode, RunLaunches,
         RunFinalTruncates, RunFinalWrites, RunCrashes, RunGoes, IInv, TypeOK
<1>. QED
  BY <1>1, <1>3, <1>4, QuietStepKeepsHandle DEF HandleHeld

\* A process that exits, or ends a save without a write.
LEMMA ExitKeepsHandle ==
    ASSUME IInv, NEW j \in Jobs, HandleHeld(j), NEW p \in Clients, ClientExits(p),
           UNCHANGED <<file, run>>
    PROVE  Kept(j)
<1>1. /\ client'[p] = Idle
      /\ \A q \in Clients \ {p} : client'[q] = client[q]
      /\ \A q \in Clients : client'[q].job = j /\ client'[q].pc \notin {"idle", "load"} =>
            client'[q].rec.handle
  BY IdleType, OneMoves DEF ClientExits
<1>2. CASE p \notin Saving(j)
  BY <1>1, <1>2, QuietStepKeepsHandle
<1>3. CASE p \in Saving(j)
  <2>1. CASE file[j].handle
    BY <1>1, <2>1 DEF Kept, HandleHeld
  <2>2. CASE file[j].status = "empty" /\ Saving(j) = {p}
    BY <1>1, <2>2, IdleType DEF Kept, StopsHalfway
  <2>3. CASE file[j].status = "empty" /\ Saving(j) # {p}
    <3>1. PICK q \in Saving(j) : q # p
      BY <1>3, <2>3
    <3>2. q \in Saving(j)'
      BY <1>1, <3>1 DEF Saving
    <3>. QED
      BY <1>1, <2>3, <3>2 DEF Kept, HandleHeld
  <2>. QED
    BY <2>1, <2>2, <2>3 DEF HandleHeld
<1>. QED
  BY <1>2, <1>3

\* A process that truncates the record is going to write its copy there.
LEMMA TruncationKeepsHandle ==
    ASSUME IInv, NEW j \in Jobs, HandleHeld(j), NEW p \in Clients, UNCHANGED run,
           Truncates(client[p].job), NEW pc \in {"stoppingWrite", "stoppedWrite"},
           client[p].pc \in {"stopping", "stopped"}, ClientGoes(p, pc)
    PROVE  Kept(j)
<1>. DEFINE c == [client[p] EXCEPT !.pc = pc]
<1>1. client[p] \in [pc : ClientPcs, op : Ops, job : Jobs, rec : JobState]
  BY DEF IInv, TypeOK
<1>2. c.pc = pc /\ c.job = client[p].job /\ c.rec = client[p].rec
  BY <1>1
<1>3. client' = [client EXCEPT ![p] = c]
  BY DEF ClientGoes
<1>4. c.job = j => c.rec.handle
  BY <1>2 DEF HandleHeld
<1>. HIDE DEF c
<1>5. /\ client'[p] = c
      /\ \A q \in Clients \ {p} : client'[q] = client[q]
      /\ \A q \in Clients : client'[q].job = j /\ client'[q].pc \notin {"idle", "load"} =>
            client'[q].rec.handle
  BY <1>3, <1>4, OneMoves
<1>6. CASE client[p].job # j
  <2>1. p \notin Saving(j) /\ file'[j] = file[j]
    BY <1>6 DEF Saving, Truncates, IInv, TypeOK
  <2>. QED
    BY <1>5, <2>1, QuietStepKeepsHandle
<1>7. CASE client[p].job = j
  <2>1. file'[j].status = "empty"
    BY <1>7, BlankFacts DEF Truncates, IInv, TypeOK, Unreadable
  <2>2. p \in Saving(j)'
    BY <1>2, <1>5, <1>7 DEF Saving
  <2>. QED
    BY <1>5, <2>1, <2>2 DEF Kept, HandleHeld
<1>. QED
  BY <1>6, <1>7

\* A write from a copy that has the handle leaves the handle, if it covers what is there.
LEMMA WriteKeepsHandle ==
    ASSUME IInv, NEW j \in Jobs, HandleHeld(j), NEW p \in Clients, UNCHANGED run,
           Writes(client[p].job, client[p].rec), NEW pc \in {"kill", "reported"},
           client[p].pc \in {"stoppingWrite", "stoppedWrite"}, ClientGoes(p, pc)
    PROVE  Kept(j)
<1>. DEFINE c == [client[p] EXCEPT !.pc = pc]
<1>1. client[p] \in [pc : ClientPcs, op : Ops, job : Jobs, rec : JobState]
  BY DEF IInv, TypeOK
<1>2. c.pc = pc /\ c.job = client[p].job /\ c.rec = client[p].rec
  BY <1>1
<1>3. client' = [client EXCEPT ![p] = c]
  BY DEF ClientGoes
<1>4. client[p].job = j => client[p].rec.handle
  BY DEF HandleHeld
<1>. HIDE DEF c
<1>5. /\ client'[p] = c
      /\ \A q \in Clients \ {p} : client'[q] = client[q]
      /\ \A q \in Clients : client'[q].job = j /\ client'[q].pc \notin {"idle", "load"} =>
            client'[q].rec.handle
  BY <1>2, <1>3, <1>4, OneMoves
<1>6. CASE client[p].job # j
  <2>1. p \notin Saving(j) /\ file'[j] = file[j]
    BY <1>1, <1>6 DEF Saving, Writes, IInv, TypeOK
  <2>. QED
    BY <1>5, <2>1, QuietStepKeepsHandle
<1>7. CASE client[p].job = j
  <2>1. p \in Saving(j) /\ file[j] \in JobState /\ client[p].rec \in JobState
    BY <1>1, <1>7 DEF Saving, IInv, TypeOK
  <2>2. file'[j] = Overlay(file[j], client[p].rec)
    BY <1>7 DEF Writes, IInv, TypeOK
  <2>3. CASE Size(file[j]) <= Size(client[p].rec)
    BY <1>4, <1>5, <1>7, <2>2, <2>3 DEF Overlay, Kept, HandleHeld
  <2>4. CASE Size(client[p].rec) < Size(file[j])
    BY <1>2, <1>5, <2>1, <2>4 DEF Kept, Overlap
  <2>. QED
    BY <2>1, <2>3, <2>4, SizeFacts
<1>. QED
  BY <1>6, <1>7

LEMMA ClientStepKeepsHandle ==
    ASSUME IInv, NEW j \in Jobs, HandleHeld(j), NEW p \in Clients,
           ClientStep(p) \/ ClientCrashes(p)
    PROVE  Kept(j)
<1>0. client[p] \in [pc : ClientPcs, op : Ops, job : Jobs, rec : JobState] /\ UNCHANGED run
  BY DEF IInv, TypeOK, ClientStep, ClientLoads, ClientQueries, StopTruncates, StopWrites,
         StopKills, StopFinalTruncates, StopFinalWrites, StopReturns, ClientCrashes
<1>1. CASE ClientExits(p) /\ file' = file
  BY <1>0, <1>1, ExitKeepsHandle
<1>2. CASE (StopTruncates(p) \/ StopFinalTruncates(p)) /\ Truncates(client[p].job)
  <2>1. \/ client[p].pc = "stopping" /\ ClientGoes(p, "stoppingWrite")
        \/ client[p].pc = "stopped" /\ ClientGoes(p, "stoppedWrite")
        \/ ClientExits(p) /\ file' = file
    BY <1>2 DEF StopTruncates, StopFinalTruncates
  <2>. QED
    BY <1>0, <1>1, <1>2, <2>1, TruncationKeepsHandle
<1>3. CASE (StopWrites(p) \/ StopFinalWrites(p)) /\ ~(ClientExits(p) /\ file' = file)
  <2>1. /\ Writes(client[p].job, client[p].rec)
        /\ \/ client[p].pc = "stoppingWrite" /\ ClientGoes(p, "kill")
           \/ client[p].pc = "stoppedWrite" /\ ClientGoes(p, "reported")
    BY <1>3 DEF StopWrites, StopFinalWrites
  <2>. QED
    BY <1>0, <2>1, WriteKeepsHandle
<1>4. CASE ClientLoads(p) /\ ~ClientExits(p)
  <2>. DEFINE f == file[client[p].job]
              c == [client[p] EXCEPT
                      !.pc = IF client[p].op = "stop" THEN "stopping" ELSE "query",
                      !.rec = IF client[p].op = "stop" THEN [f EXCEPT !.status = "stopping"]
                                                       ELSE f]
  <2>1. /\ file' = file /\ client[p].pc = "load" /\ Readable(f)
        /\ client' = [client EXCEPT ![p] = c]
    BY <1>4 DEF ClientLoads
  <2>2. f \in JobState
    BY <1>0 DEF IInv, TypeOK
  <2>3. c.job = client[p].job /\ c.rec.handle = f.handle
    BY <1>0, <2>2 DEF JobState
  <2>4. client[p].job = j => f.handle
    BY <2>1 DEF HandleHeld, Readable, Statuses
  <2>. HIDE DEF c
  <2>5. /\ \A q \in Clients \ {p} : client'[q] = client[q]
        /\ \A q \in Clients : client'[q].job = j /\ client'[q].pc \notin {"idle", "load"} =>
              client'[q].rec.handle
    BY <2>1, <2>3, <2>4, OneMoves
  <2>6. p \notin Saving(j)
    BY <2>1 DEF Saving
  <2>. QED
    BY <1>0, <2>1, <2>5, <2>6, QuietStepKeepsHandle
<1>5. CASE StopKills(p) /\ ~ClientExits(p)
  <2>. DEFINE c == [client[p] EXCEPT !.pc = "stopped", !.rec.status = "stopped"]
  <2>1. file' = file /\ client[p].pc = "kill" /\ client' = [client EXCEPT ![p] = c]
    BY <1>5 DEF StopKills
  <2>2. c.job = client[p].job /\ c.rec.handle = client[p].rec.handle
    BY <1>0 DEF JobState
  <2>3. client[p].job = j => client[p].rec.handle
    BY <2>1 DEF HandleHeld
  <2>. HIDE DEF c
  <2>4. /\ \A q \in Clients \ {p} : client'[q] = client[q]
        /\ \A q \in Clients : client'[q].job = j /\ client'[q].pc \notin {"idle", "load"} =>
              client'[q].rec.handle
    BY <2>1, <2>2, <2>3, OneMoves
  <2>5. p \notin Saving(j)
    BY <2>1 DEF Saving
  <2>. QED
    BY <1>0, <2>1, <2>4, <2>5, QuietStepKeepsHandle
<1>. QED
  BY <1>1, <1>2, <1>3, <1>4, <1>5
     DEF ClientStep, ClientLoads, ClientQueries, StopTruncates, StopWrites, StopKills,
         StopFinalTruncates, StopFinalWrites, StopReturns, ClientCrashes

LEMMA InvokeKeepsHandle ==
    ASSUME IInv, NEW j \in Jobs, HandleHeld(j), NEW p \in Clients, NEW op \in Ops,
           NEW k \in Jobs, Invoke(p, op, k)
    PROVE  Kept(j)
<1>. DEFINE c == [pc |-> "load", op |-> op, job |-> k, rec |-> Blank("absent")]
<1>1. client[p].pc = "idle" /\ client' = [client EXCEPT ![p] = c] /\ UNCHANGED <<file, run>>
  BY DEF Invoke
<1>. c.pc = "load"
  OBVIOUS
<1>. HIDE DEF c
<1>2. /\ \A q \in Clients \ {p} : client'[q] = client[q]
      /\ \A q \in Clients : client'[q].job = j /\ client'[q].pc \notin {"idle", "load"} =>
            client'[q].rec.handle
  BY <1>1, OneMoves
<1>3. p \notin Saving(j)
  BY <1>1 DEF Saving
<1>. QED
  BY <1>1, <1>2, <1>3, QuietStepKeepsHandle

\* Once Run has put the handle of a job on disk and nobody works from an older copy, no
\* number of stops and queries loses it, unless a save ends between truncation and write,
\* or two saves of different length overlap; and the records are well typed.
THEOREM HandlesAreKept == Spec => HandleIsKept
<1>1. ASSUME IInv, [Next]_vars, NEW j \in Jobs, HandleHeld(j) PROVE Kept(j)
  <2>1. CASE UNCHANGED <<file, run, client>>
    <3>1. \A p \in Clients : client[p].job = j /\ client[p].pc \notin {"idle", "load"} =>
            client[p].rec.handle
      BY <1>1 DEF HandleHeld
    <3>. QED
      BY <1>1, <2>1, <3>1, QuietStepKeepsHandle
  <2>. QED
    BY <1>1, <2>1, RunStepKeepsHandle, ClientStepKeepsHandle, InvokeKeepsHandle
       DEF Next, WorkEnds, PidRecycled, vars
<1>2. IInv /\ [Next]_vars =>
        [\A j \in Jobs : HandleHeld(j) => HandleHeld(j)' \/ StopsHalfway(j) \/ Overlap(j)]_vars
  BY <1>1 DEF Kept
<1>3. Spec => [][\A j \in Jobs : HandleHeld(j) => HandleHeld(j)' \/ StopsHalfway(j)
                                                 \/ Overlap(j)]_vars
  BY <1>2, Inductive, PTL DEF Spec
<1>. QED
  BY <1>3, TypeCorrect, PTL DEF HandleIsKept
=============================================================================
