---------------------------- MODULE ForwardsProofs ----------------------------
(***************************************************************************)
(* Proofs about Forwards, for any tunnels, proxies, ports, clients, times   *)
(* to live and faults.  Neither of the invariants is inductive.  ForwardOK   *)
(* ties the record and the process of a forward to how far its command has  *)
(* come, ClientOK says what a stop or a list that is under way can rely on, *)
(* and PortOK that a port, once an ssh was started for it, always has       *)
(* somebody who has it or is about to.                                      *)
(***************************************************************************)
EXTENDS Forwards, TLAPS

Client == [pc : ClientPcs, todo : SUBSET Forwards, shown : SUBSET Forwards]

\* How the process and the record of a forward depend on each other.
ForwardOK(f) ==
    /\ ssh[f] # "none" => starter[f] \notin {"cli", "check", "probe", "start"}
    /\ starter[f] = "waiting" => ~request[f].background
    /\ starter[f] \in {"save", "saveWrite"} => request[f].background /\ ssh[f] # "none"
    /\ file[f] # "absent" => request[f].background /\ ssh[f] # "none"

\* A stop is about one forward, whose ssh was started if its record was loaded; what a
\* list shows was started in the background.
ClientOK(p) ==
    /\ client[p].pc \in {"load", "kill", "remove"} => \A f, g \in client[p].todo : f = g
    /\ client[p].pc \in {"kill", "remove"} => \A f \in client[p].todo : ssh[f] # "none"
    /\ \A f \in client[p].shown : ssh[f] # "none" /\ request[f].background

Wanting(p) == {f \in Forwards : request[f].port = p}

\* Nobody who wants the port has a time to live.
Patient(p) == \A f \in Wanting(p) : Ttl(f) = "positive" => request[f].background

\* A forward that has the port, or will bind it or fail because another one has it.
Busy(f) == Running(f) \/ starter[f] \in {"probe", "start"}

PortOK(p) ==
    Reliable /\ Patient(p) =>
        ((\E f \in Wanting(p) : ssh[f] # "none") => \E f \in Wanting(p) : Busy(f))

IInv ==
    /\ TypeOK
    /\ \A f \in Forwards : ForwardOK(f)
    /\ \A p \in Clients : ClientOK(p)
    /\ \A p \in Ports : PortOK(p)

-----------------------------------------------------------------------------
(* The initial state *)

LEMMA InitIInv == Init => IInv
<1>. SUFFICES ASSUME Init PROVE IInv
  OBVIOUS
<1>1. Idle \in Client
  BY DEF Idle, Client, ClientPcs
<1>2. TypeOK
  BY <1>1 DEF Init, TypeOK, StarterPcs, SshStates, FileStates, Client
<1>3. \A f \in Forwards : ForwardOK(f)
  BY DEF Init, ForwardOK, Running
<1>4. \A p \in Clients : ClientOK(p)
  BY DEF Init, ClientOK, Idle
<1>5. \A p \in Ports : PortOK(p)
  BY DEF Init, PortOK, Wanting
<1>. QED
  BY <1>2, <1>3, <1>4, <1>5 DEF IInv

-----------------------------------------------------------------------------
(* What a step leaves alone *)

\* No process that was started is forgotten.
Goes(f) == ssh[f] # "none" => ssh'[f] # "none"

LEMMA ClientsStay ==
    ASSUME IInv, UNCHANGED <<request, faults>>, \A f \in Forwards : Goes(f),
           NEW p \in Clients, client'[p] = client[p]
    PROVE  ClientOK(p)'
<1>1. client[p].todo \subseteq Forwards /\ client[p].shown \subseteq Forwards
  BY DEF IInv, TypeOK
<1>. QED
  BY <1>1 DEF IInv, ClientOK, Goes

\* A step of forward f keeps IInv if it keeps what IInv says of f, takes no process away
\* from the clients, and leaves the port of f to somebody.
LEMMA StepOfForward ==
    ASSUME IInv, NEW f \in Forwards, UNCHANGED <<request, client, faults>>, TypeOK',
           \A g \in Forwards \ {f} : /\ starter'[g] = starter[g] /\ ssh'[g] = ssh[g]
                                     /\ file'[g] = file[g],
           ForwardOK(f)', Goes(f),
           Reliable /\ Patient(request[f].port) =>
              \/ Busy(f)'
              \/ ssh'[f] = ssh[f] /\ ~Busy(f)
              \/ \E g \in Wanting(request[f].port) \ {f} : Busy(g)
    PROVE  IInv'
<1>1. ASSUME NEW g \in Forwards PROVE ForwardOK(g)' /\ Goes(g)
  BY DEF IInv, ForwardOK, Running, Goes
<1>2. ASSUME NEW p \in Clients PROVE ClientOK(p)'
  BY <1>1, ClientsStay
<1>3. ASSUME NEW p \in Ports PROVE PortOK(p)'
  <2>1. Wanting(p)' = Wanting(p) /\ (Patient(p)' <=> Patient(p))
    BY DEF Wanting, Patient, Ttl
  <2>2. \A g \in Forwards \ {f} : Busy(g)' <=> Busy(g)
    BY DEF Busy, Running
  <2>3. Reliable' <=> Reliable
    BY DEF Reliable
  <2>4. Wanting(p) \subseteq Forwards /\ (f \in Wanting(p) => request[f].port = p)
    BY DEF Wanting
  <2>5. CASE f \notin Wanting(p)
    BY <2>1, <2>2, <2>3, <2>4, <2>5 DEF IInv, PortOK
  <2>6. CASE f \in Wanting(p)
    BY <2>1, <2>2, <2>3, <2>4, <2>6 DEF IInv, PortOK
  <2>. QED
    BY <2>5, <2>6
<1>. QED
  BY <1>1, <1>2, <1>3 DEF IInv

\* A step of a client that leaves the forwards alone but for the record of a forward.
LEMMA StepOfClient ==
    ASSUME IInv, NEW p \in Clients, UNCHANGED <<request, starter, ssh, faults>>,
           NEW f \in Forwards, file' = [file EXCEPT ![f] = "absent"],
           NEW c \in Client, ClientIs(p, c), ClientOK(p)'
    PROVE  IInv'
<1>1. TypeOK'
  BY DEF IInv, TypeOK, Client, ClientIs, FileStates
<1>2. ASSUME NEW g \in Forwards PROVE ForwardOK(g)' /\ Goes(g)
  <2>1. file'[g] = file[g] \/ file'[g] = "absent"
    BY DEF IInv, TypeOK
  <2>. QED
    BY <2>1 DEF IInv, ForwardOK, Goes
<1>3. ASSUME NEW q \in Clients PROVE ClientOK(q)'
  <2>1. CASE q = p
    BY <2>1
  <2>2. CASE q # p
    <3>1. client'[q] = client[q]
      BY <2>2 DEF ClientIs, IInv, TypeOK
    <3>. QED
      BY <1>2, <3>1, ClientsStay
  <2>. QED
    BY <2>1, <2>2
<1>4. \A q \in Ports : PortOK(q)'
  BY DEF IInv, PortOK, Wanting, Patient, Ttl, Reliable, Busy, Running
<1>. QED
  BY <1>1, <1>2, <1>3, <1>4 DEF IInv

-----------------------------------------------------------------------------
(* The steps of a forward *)

\* A command that only goes on to pc.
LEMMA StarterGoesOn ==
    ASSUME IInv, NEW f \in Forwards, NEW pc \in StarterPcs, StarterGoes(f, pc),
           UNCHANGED <<request, ssh, file, client, faults>>
    PROVE  /\ TypeOK' /\ starter'[f] = pc /\ Goes(f)
           /\ \A g \in Forwards \ {f} : starter'[g] = starter[g]
BY DEF IInv, TypeOK, StarterGoes, Goes

LEMMA CliChecksKeeps ==
    ASSUME IInv, NEW f \in Forwards, CliChecks(f), UNCHANGED faults PROVE IInv'
<1>1. PICK pc \in {"failed", "check"} : StarterGoes(f, pc)
  BY DEF CliChecks
<1>2. starter[f] = "cli" /\ UNCHANGED <<request, ssh, file, client>> /\ pc \in StarterPcs
  BY DEF CliChecks, StarterPcs
<1>3. /\ TypeOK' /\ starter'[f] = pc /\ Goes(f)
      /\ \A g \in Forwards \ {f} : starter'[g] = starter[g]
  BY <1>1, <1>2, StarterGoesOn
<1>4. ForwardOK(f)' /\ ssh[f] = "none"
  BY <1>2, <1>3 DEF IInv, ForwardOK, Running
<1>. QED
  BY <1>2, <1>3, <1>4, StepOfForward DEF Busy, Running

LEMMA ChecksPortKeeps ==
    ASSUME IInv, NEW f \in Forwards, ChecksPort(f), UNCHANGED faults PROVE IInv'
<1>1. PICK pc \in {"failed", "probe"} : StarterGoes(f, pc)
  BY DEF ChecksPort
<1>2. starter[f] = "check" /\ UNCHANGED <<request, ssh, file, client>> /\ pc \in StarterPcs
  BY DEF ChecksPort, StarterPcs
<1>3. /\ TypeOK' /\ starter'[f] = pc /\ Goes(f)
      /\ \A g \in Forwards \ {f} : starter'[g] = starter[g]
  BY <1>1, <1>2, StarterGoesOn
<1>4. ForwardOK(f)' /\ ssh[f] = "none"
  BY <1>2, <1>3 DEF IInv, ForwardOK, Running
<1>. QED
  BY <1>2, <1>3, <1>4, StepOfForward DEF Busy, Running

LEMMA FreesPortKeeps ==
    ASSUME IInv, NEW f \in Forwards, FreesPort(f), UNCHANGED faults PROVE IInv'
<1>1. /\ starter[f] = "probe" /\ StarterGoes(f, "start") /\ "start" \in StarterPcs
      /\ UNCHANGED <<request, ssh, file, client>>
  BY DEF FreesPort, StarterPcs
<1>2. /\ TypeOK' /\ starter'[f] = "start" /\ Goes(f)
      /\ \A g \in Forwards \ {f} : starter'[g] = starter[g]
  BY <1>1, StarterGoesOn
<1>3. ForwardOK(f)' /\ Busy(f)'
  BY <1>1, <1>2 DEF IInv, ForwardOK, Running, Busy
<1>. QED
  BY <1>1, <1>2, <1>3, StepOfForward

LEMMA StartsSshKeeps ==
    ASSUME IInv, NEW f \in Forwards, StartsSsh(f), UNCHANGED faults PROVE IInv'
<1>1. starter[f] = "start" /\ ssh[f] = "none" /\ UNCHANGED <<request, file, client>>
  BY DEF StartsSsh, IInv, ForwardOK
<1>2. CASE ssh' = [ssh EXCEPT ![f] = "starting"]
           /\ StarterGoes(f, IF request[f].background THEN "save" ELSE "waiting")
  <2>1. PICK pc \in StarterPcs : pc = IF request[f].background THEN "save" ELSE "waiting"
    BY DEF StarterPcs
  <2>2. /\ TypeOK' /\ ssh'[f] = "starting" /\ starter'[f] = pc
        /\ \A g \in Forwards \ {f} : starter'[g] = starter[g] /\ ssh'[g] = ssh[g]
    BY <1>1, <1>2, <2>1 DEF IInv, TypeOK, StarterGoes, SshStates
  <2>3. ForwardOK(f)' /\ Goes(f) /\ Busy(f)'
    BY <1>1, <2>1, <2>2 DEF IInv, ForwardOK, Running, Busy, Goes
  <2>. QED
    BY <1>1, <2>2, <2>3, StepOfForward
<1>3. CASE "ssh" \in faults /\ StarterGoes(f, "failed") /\ UNCHANGED ssh
  <2>1. /\ TypeOK' /\ starter'[f] = "failed" /\ Goes(f)
        /\ \A g \in Forwards \ {f} : starter'[g] = starter[g]
    BY <1>1, <1>3, StarterGoesOn DEF StarterPcs
  <2>2. ForwardOK(f)' /\ ~Reliable
    BY <1>1, <1>3, <2>1 DEF IInv, ForwardOK, Running, Reliable
  <2>. QED
    BY <1>1, <1>3, <2>1, <2>2, StepOfForward
<1>. QED
  BY <1>2, <1>3 DEF StartsSsh

\* The two halves of SaveState: a record that is opened, and one that is written.
LEMMA RecordKeeps ==
    ASSUME IInv, NEW f \in Forwards, UNCHANGED <<request, ssh, client, faults>>,
           starter[f] \in {"save", "saveWrite"}, NEW pc \in {"saveWrite", "started", "failed"},
           StarterGoes(f, pc), NEW s \in FileStates, file' = [file EXCEPT ![f] = s],
           pc = "started" => s = "saved", s # "absent" \/ s = file[f]
    PROVE  IInv'
<1>1. /\ TypeOK' /\ starter'[f] = pc /\ file'[f] = s
      /\ \A g \in Forwards \ {f} : starter'[g] = starter[g] /\ file'[g] = file[g]
  BY DEF IInv, TypeOK, StarterGoes, StarterPcs
<1>2. ForwardOK(f)' /\ Goes(f)
  BY <1>1 DEF IInv, ForwardOK, Running, Goes
<1>3. Busy(f)' \/ ~Busy(f)
  BY <1>1 DEF Busy, Running
<1>. QED
  BY <1>1, <1>2, <1>3, StepOfForward

LEMMA RecordTruncatesKeeps ==
    ASSUME IInv, NEW f \in Forwards, RecordTruncates(f), UNCHANGED faults PROVE IInv'
<1>1. file[f] \in FileStates /\ file = [file EXCEPT ![f] = file[f]] /\ "empty" \in FileStates
  BY DEF IInv, TypeOK, FileStates
<1>. QED
  BY <1>1, RecordKeeps DEF RecordTruncates

LEMMA RecordWritesKeeps ==
    ASSUME IInv, NEW f \in Forwards, RecordWrites(f), UNCHANGED faults PROVE IInv'
<1>1. file[f] \in FileStates /\ file = [file EXCEPT ![f] = file[f]] /\ "saved" \in FileStates
  BY DEF IInv, TypeOK, FileStates
<1>. QED
  BY <1>1, RecordKeeps DEF RecordWrites

LEMMA ForegroundReturnsKeeps ==
    ASSUME IInv, NEW f \in Forwards, ForegroundReturns(f), UNCHANGED faults PROVE IInv'
<1>1. /\ starter[f] = "waiting" /\ ssh[f] = "exited" /\ StarterGoes(f, "returned")
      /\ UNCHANGED <<request, ssh, file, client>> /\ "returned" \in StarterPcs
  BY DEF ForegroundReturns, StarterPcs
<1>2. /\ TypeOK' /\ starter'[f] = "returned" /\ Goes(f)
      /\ \A g \in Forwards \ {f} : starter'[g] = starter[g]
  BY <1>1, StarterGoesOn
<1>3. ForwardOK(f)' /\ ~Busy(f)
  BY <1>1, <1>2 DEF IInv, ForwardOK, Running, Busy
<1>. QED
  BY <1>1, <1>2, <1>3, StepOfForward

LEMMA StarterCrashesKeeps ==
    ASSUME IInv, NEW f \in Forwards, StarterCrashes(f), UNCHANGED faults PROVE IInv'
<1>1. /\ StarterGoes(f, "crashed") /\ UNCHANGED <<request, ssh, file, client>>
      /\ "crashed" \in StarterPcs
      /\ starter[f] \in {"probe", "start", "save", "saveWrite", "waiting"}
  BY DEF StarterCrashes, StarterPcs
<1>2. /\ TypeOK' /\ starter'[f] = "crashed" /\ Goes(f)
      /\ \A g \in Forwards \ {f} : starter'[g] = starter[g]
  BY <1>1, StarterGoesOn
<1>3. ForwardOK(f)' /\ ~Reliable
  BY <1>1, <1>2 DEF IInv, ForwardOK, Running, Reliable, StarterCrashes
<1>. QED
  BY <1>1, <1>2, <1>3, StepOfForward

\* The end of an ssh that runs or is told to.
LEMMA SshEndsKeeps ==
    ASSUME IInv, NEW f \in Forwards, UNCHANGED <<request, starter, file, client, faults>>,
           ssh' = [ssh EXCEPT ![f] = "exited"],
           ssh[f] # "none",
           Reliable /\ Patient(request[f].port) =>
              \E g \in Wanting(request[f].port) \ {f} : Busy(g)
    PROVE  IInv'
<1>1. /\ TypeOK' /\ ssh'[f] = "exited"
      /\ \A g \in Forwards \ {f} : ssh'[g] = ssh[g]
  BY DEF IInv, TypeOK, SshStates
<1>2. ForwardOK(f)' /\ Goes(f)
  BY <1>1 DEF IInv, ForwardOK, Running, Goes
<1>. QED
  BY <1>1, <1>2, StepOfForward

LEMMA TtlFiresKeeps ==
    ASSUME IInv, NEW f \in Forwards, TtlFires(f), UNCHANGED faults PROVE IInv'
<1>1. /\ UNCHANGED <<request, starter, file, client>> /\ ssh[f] # "none"
      /\ ssh' = [ssh EXCEPT ![f] = "exited"]
  BY DEF TtlFires, Running
<1>2. ~Patient(request[f].port)
  <2>1. Ttl(f) = "positive" /\ ~request[f].background /\ f \in Wanting(request[f].port)
    BY DEF TtlFires, IInv, ForwardOK, Wanting
  <2>. QED
    BY <2>1 DEF Patient
<1>. QED
  BY <1>1, <1>2, SshEndsKeeps

LEMMA SshBindsKeeps ==
    ASSUME IInv, NEW f \in Forwards, SshBinds(f), UNCHANGED faults PROVE IInv'
<1>1. ssh[f] = "starting"
  BY DEF SshBinds
<1>2. CASE PortTaken(request[f].port)
  <2>1. PICK g \in Forwards : /\ request[g].port = request[f].port
                              /\ ssh[g] = "listening" \/ starter[g] = "probe"
    BY <1>2 DEF PortTaken
  <2>2. g # f /\ g \in Wanting(request[f].port) /\ Busy(g)
    BY <1>1, <2>1 DEF IInv, ForwardOK, Wanting, Busy, Running
  <2>. QED
    BY <1>1, <1>2, <2>2, SshEndsKeeps DEF SshBinds, SshEnds
<1>3. CASE ~PortTaken(request[f].port)
  <2>1. /\ ssh' = [ssh EXCEPT ![f] = "listening"]
        /\ UNCHANGED <<request, starter, file, client>>
    BY <1>3 DEF SshBinds
  <2>2. /\ TypeOK' /\ ssh'[f] = "listening" /\ \A g \in Forwards \ {f} : ssh'[g] = ssh[g]
    BY <2>1 DEF IInv, TypeOK, SshStates
  <2>3. ForwardOK(f)' /\ Goes(f) /\ Busy(f)'
    BY <1>1, <2>1, <2>2 DEF IInv, ForwardOK, Running, Goes, Busy
  <2>. QED
    BY <2>1, <2>2, <2>3, StepOfForward
<1>. QED
  BY <1>2, <1>3

LEMMA SshFailsKeeps ==
    ASSUME IInv, NEW f \in Forwards, SshFails(f), UNCHANGED faults PROVE IInv'
<1>1. ~Reliable /\ ssh[f] # "none"
  BY DEF SshFails, Reliable, Running
<1>. QED
  BY <1>1, SshEndsKeeps DEF SshFails, SshEnds

-----------------------------------------------------------------------------
(* The steps of a client *)

\* A step of a client that touches no forward.
LEMMA ClientOnly ==
    ASSUME IInv, NEW p \in Clients, UNCHANGED <<request, starter, ssh, file, faults>>,
           NEW c \in Client, ClientIs(p, c), ClientOK(p)'
    PROVE  IInv'
<1>1. TypeOK'
  BY DEF IInv, TypeOK, Client, ClientIs
<1>2. \A g \in Forwards : ForwardOK(g)' /\ Goes(g)
  BY DEF IInv, ForwardOK, Running, Goes
<1>3. ASSUME NEW q \in Clients PROVE ClientOK(q)'
  <2>1. CASE q = p
    BY <2>1
  <2>2. CASE q # p
    <3>1. client'[q] = client[q]
      BY <2>2 DEF ClientIs, IInv, TypeOK
    <3>. QED
      BY <1>2, <3>1, ClientsStay
  <2>. QED
    BY <2>1, <2>2
<1>4. \A q \in Ports : PortOK(q)'
  BY DEF IInv, PortOK, Wanting, Patient, Ttl, Reliable, Busy, Running
<1>. QED
  BY <1>1, <1>2, <1>3, <1>4 DEF IInv

LEMMA BecomesIdle ==
    ASSUME IInv, NEW p \in Clients, ClientIs(p, Idle)
    PROVE  Idle \in Client /\ ClientOK(p)'
<1>1. Idle \in Client /\ client'[p] = Idle
  BY DEF ClientIs, IInv, TypeOK, Idle, Client, ClientPcs
<1>. QED
  BY <1>1 DEF ClientOK, Idle

\* A client that goes on to pc with what it has.
LEMMA ClientGoesOn ==
    ASSUME IInv, NEW p \in Clients, NEW pc \in ClientPcs,
           ClientIs(p, [client[p] EXCEPT !.pc = pc])
    PROVE  /\ [client[p] EXCEPT !.pc = pc] \in Client
           /\ client'[p].pc = pc /\ client'[p].todo = client[p].todo
           /\ client'[p].shown = client[p].shown
<1>1. client[p] \in Client
  BY DEF IInv, TypeOK, Client
<1>. QED
  BY <1>1 DEF ClientIs, IInv, TypeOK, Client

LEMMA InvokeStopKeeps ==
    ASSUME IInv, NEW p \in Clients, NEW f \in Forwards, InvokeStop(p, f), UNCHANGED faults
    PROVE  IInv'
<1>. DEFINE c == [Idle EXCEPT !.pc = "load", !.todo = {f}]
<1>1. c \in Client /\ c.pc = "load" /\ c.todo = {f} /\ c.shown = {}
  BY DEF Idle, Client, ClientPcs
<1>2. ClientIs(p, c) /\ UNCHANGED <<request, starter, ssh, file>>
  BY DEF InvokeStop
<1>3. client'[p] = c
  BY <1>2 DEF ClientIs, IInv, TypeOK
<1>4. ClientOK(p)'
  BY <1>1, <1>3 DEF ClientOK
<1>. QED
  BY <1>1, <1>2, <1>4, ClientOnly

LEMMA StopLoadsKeeps ==
    ASSUME IInv, NEW p \in Clients, NEW f \in Forwards, StopLoads(p, f), UNCHANGED faults
    PROVE  IInv'
<1>1. UNCHANGED <<request, starter, ssh, file>> /\ client[p].pc = "load"
  BY DEF StopLoads
<1>2. CASE ClientIs(p, Idle)
  BY <1>1, <1>2, BecomesIdle, ClientOnly
<1>3. CASE file[f] = "saved" /\ ClientIs(p, [client[p] EXCEPT !.pc = "kill"])
  <2>1. /\ [client[p] EXCEPT !.pc = "kill"] \in Client
        /\ client'[p].pc = "kill" /\ client'[p].todo = client[p].todo
        /\ client'[p].shown = client[p].shown
    BY <1>3, ClientGoesOn DEF ClientPcs
  <2>2. ClientOK(p)'
    BY <1>1, <1>3, <2>1 DEF IInv, ClientOK, ForwardOK, StopLoads
  <2>. QED
    BY <1>1, <1>3, <2>1, <2>2, ClientOnly
<1>. QED
  BY <1>2, <1>3 DEF StopLoads

LEMMA StopSignalsKeeps ==
    ASSUME IInv, NEW p \in Clients, NEW f \in Forwards, StopSignals(p, f), UNCHANGED faults
    PROVE  IInv'
<1>1. /\ UNCHANGED <<request, starter, ssh, file>> /\ client[p].pc = "kill"
      /\ ClientIs(p, [client[p] EXCEPT !.pc = "remove"])
  BY DEF StopSignals
<1>2. /\ [client[p] EXCEPT !.pc = "remove"] \in Client
      /\ client'[p].pc = "remove" /\ client'[p].todo = client[p].todo
      /\ client'[p].shown = client[p].shown
  BY <1>1, ClientGoesOn DEF ClientPcs
<1>3. ClientOK(p)'
  BY <1>1, <1>2 DEF IInv, ClientOK
<1>. QED
  BY <1>1, <1>2, <1>3, ClientOnly

LEMMA StopRemovesKeeps ==
    ASSUME IInv, NEW p \in Clients, NEW f \in Forwards, StopRemoves(p, f), UNCHANGED faults
    PROVE  IInv'
<1>1. /\ UNCHANGED <<request, starter, ssh>> /\ client[p].pc = "remove"
      /\ f \in client[p].todo
  BY DEF StopRemoves, IInv, ClientOK, Running
<1>2. CASE ClientIs(p, Idle) /\ UNCHANGED file
  BY <1>1, <1>2, BecomesIdle, ClientOnly
<1>3. CASE /\ file' = [file EXCEPT ![f] = "absent"]
           /\ ClientIs(p, [client[p] EXCEPT !.pc = "stopped"])
  <2>1. /\ [client[p] EXCEPT !.pc = "stopped"] \in Client
        /\ client'[p].pc = "stopped" /\ client'[p].todo = client[p].todo
        /\ client'[p].shown = client[p].shown
    BY <1>3, ClientGoesOn DEF ClientPcs
  <2>2. ClientOK(p)'
    BY <1>1, <2>1 DEF IInv, ClientOK
  <2>. QED
    BY <1>1, <1>3, <2>1, <2>2, StepOfClient
<1>. QED
  BY <1>2, <1>3 DEF StopRemoves

LEMMA InvokeListKeeps ==
    ASSUME IInv, NEW p \in Clients, InvokeList(p), UNCHANGED faults PROVE IInv'
<1>1. UNCHANGED <<request, starter, ssh, file>>
  BY DEF InvokeList
<1>2. PICK dir \in {Proxies, Forwards \ Proxies} :
        ClientIs(p, [pc |-> "read", shown |-> {}, todo |-> {f \in dir : file[f] # "absent"}])
  BY DEF InvokeList
<1>. DEFINE c == [pc |-> "read", shown |-> {}, todo |-> {f \in dir : file[f] # "absent"}]
<1>3. c \in Client
  BY ForwardsAssumption DEF Client, ClientPcs
<1>4. client'[p] = c
  BY <1>2 DEF ClientIs, IInv, TypeOK
<1>5. ClientOK(p)'
  BY <1>4 DEF ClientOK
<1>. QED
  BY <1>1, <1>2, <1>3, <1>5, ClientOnly

LEMMA ListReadsKeeps ==
    ASSUME IInv, NEW p \in Clients, NEW f \in Forwards, ListReads(p, f), UNCHANGED faults
    PROVE  IInv'
<1>1. UNCHANGED <<request, starter, ssh, file>> /\ client[p].pc = "read"
  BY DEF ListReads
<1>2. CASE ClientIs(p, Idle)
  BY <1>1, <1>2, BecomesIdle, ClientOnly
<1>3. CASE /\ file[f] = "saved"
           /\ ClientIs(p, [client[p] EXCEPT !.todo = @ \ {f}, !.shown = @ \cup {f}])
  <2>. DEFINE c == [client[p] EXCEPT !.todo = @ \ {f}, !.shown = @ \cup {f}]
  <2>1. client[p] \in Client
    BY DEF IInv, TypeOK, Client
  <2>2. c \in Client /\ c.pc = "read" /\ c.shown = client[p].shown \cup {f}
    BY <1>1, <2>1 DEF Client
  <2>3. client'[p] = c
    BY <1>3 DEF ClientIs, IInv, TypeOK
  <2>. HIDE DEF c
  <2>4. ssh[f] # "none" /\ request[f].background
    BY <1>3 DEF IInv, ForwardOK
  <2>5. ClientOK(p)'
    BY <1>1, <2>2, <2>3, <2>4 DEF IInv, ClientOK
  <2>. QED
    BY <1>1, <1>3, <2>2, <2>5, ClientOnly DEF c
<1>. QED
  BY <1>2, <1>3 DEF ListReads

LEMMA ListEndsKeeps ==
    ASSUME IInv, NEW p \in Clients, ListEnds(p), UNCHANGED faults PROVE IInv'
<1>1. /\ UNCHANGED <<request, starter, ssh, file>> /\ "listed" \in ClientPcs
      /\ ClientIs(p, [client[p] EXCEPT !.pc = "listed"])
  BY DEF ListEnds, ClientPcs
<1>2. /\ [client[p] EXCEPT !.pc = "listed"] \in Client
      /\ client'[p].pc = "listed" /\ client'[p].todo = client[p].todo
      /\ client'[p].shown = client[p].shown
  BY <1>1, ClientGoesOn
<1>3. ClientOK(p)'
  BY <1>1, <1>2 DEF IInv, ClientOK
<1>. QED
  BY <1>1, <1>2, <1>3, ClientOnly

LEMMA ClientExitsKeeps ==
    ASSUME IInv, NEW p \in Clients, ClientExits(p) \/ ClientCrashes(p), UNCHANGED faults
    PROVE  IInv'
BY BecomesIdle, ClientOnly DEF ClientExits, ClientCrashes

LEMMA NextIInv == IInv /\ [Next]_vars => IInv'
<1>1. ASSUME IInv, NEW f \in Forwards, UNCHANGED faults,
             StarterStep(f) \/ SshBinds(f) \/ TtlFires(f) \/ StarterCrashes(f) \/ SshFails(f)
      PROVE  IInv'
  BY <1>1, CliChecksKeeps, ChecksPortKeeps, FreesPortKeeps, StartsSshKeeps,
     RecordTruncatesKeeps, RecordWritesKeeps, ForegroundReturnsKeeps, SshBindsKeeps,
     TtlFiresKeeps, StarterCrashesKeeps, SshFailsKeeps DEF StarterStep
<1>2. ASSUME IInv, NEW p \in Clients, UNCHANGED faults,
             ClientStep(p) \/ InvokeList(p) \/ ClientCrashes(p)
             \/ \E f \in Forwards : InvokeStop(p, f)
      PROVE  IInv'
  BY <1>2, StopLoadsKeeps, StopSignalsKeeps, StopRemovesKeeps, ListReadsKeeps, ListEndsKeeps,
     ClientExitsKeeps, InvokeListKeeps, InvokeStopKeeps DEF ClientStep
<1>3. ASSUME IInv, UNCHANGED vars PROVE IInv'
  <2>1. UNCHANGED <<request, starter, ssh, file, client, faults>>
    BY <1>3 DEF vars
  <2>2. TypeOK'
    BY <1>3, <2>1 DEF IInv, TypeOK
  <2>3. \A g \in Forwards : ForwardOK(g)'
    BY <1>3, <2>1 DEF IInv, ForwardOK, Running
  <2>4. \A q \in Clients : ClientOK(q)'
    BY <1>3, <2>1 DEF IInv, ClientOK
  <2>5. \A q \in Ports : PortOK(q)'
    BY <1>3, <2>1 DEF IInv, PortOK, Wanting, Patient, Ttl, Reliable, Busy, Running
  <2>. QED
    BY <2>2, <2>3, <2>4, <2>5 DEF IInv
<1>. QED
  BY <1>1, <1>2, <1>3 DEF Next

LEMMA Inductive == Spec => []IInv
BY InitIInv, NextIInv, PTL DEF Spec

-----------------------------------------------------------------------------
(* Theorems *)

\* List of internal/tunnel and internal/proxy shows nothing but background forwards whose
\* ssh was really started, for any number of starts, stops and lists in any order.
THEOREM ShownWasStarted == Spec => []ListShowsStarted
<1>1. IInv => ListShowsStarted
  BY DEF IInv, ListShowsStarted, ClientOK
<1>. QED
  BY <1>1, Inductive, PTL

\* EnsurePortAvailable may take the port from an ssh that is about to bind it, but with
\* any number of starts racing for a port one of them gets it.
THEOREM PortIsServed == Spec => []PortServed
<1>1. IInv => PortServed
  <2>. SUFFICES ASSUME IInv, Reliable, NEW p \in Ports,
                       \A f \in Wanting(p) : /\ starter[f] \notin {"probe", "start"}
                                             /\ ssh[f] # "starting"
                                             /\ Ttl(f) = "positive" => request[f].background,
                       \E f \in Wanting(p) : ssh[f] # "none"
                PROVE  \E f \in Wanting(p) : ssh[f] = "listening"
    BY DEF PortServed, Wanting
  <2>1. PICK f \in Wanting(p) : Busy(f)
    BY DEF IInv, PortOK, Patient
  <2>. QED
    BY <2>1 DEF Busy, Running
<1>. QED
  BY <1>1, Inductive, PTL
=============================================================================
