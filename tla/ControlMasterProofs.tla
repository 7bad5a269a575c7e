------------------------- MODULE ControlMasterProofs -------------------------
(***************************************************************************)
(* Proofs about ControlMaster, for any calls, targets, exit codes, bounds   *)
(* and faults.  TypeOK is not inductive: it does not exclude that a path    *)
(* holds the number of a master that does not exist yet, which would be a   *)
(* master of any route once it does.  IInv excludes that (PathInv), says    *)
(* what a call that goes through a master can count on (Attached), and what *)
(* its attempts have executed so far (Attempts).  SInv, on top of it, says   *)
(* what is known of a call that complains or tries again: a master has died. *)
(***************************************************************************)
EXTENDS ControlMaster, SequenceTheorems, TLAPS

Pcs == {"stat", "dial", "unlink", "ssh", "mux", "direct", "session", "exited",
        "remove", "done"}
Status == 0..255

Call == [pc : Pcs, target : Targets, arg : {"auto", "no"}, through : Nat,
         noise : BOOLEAN, tries : 1..2, code : Status, runs : Seq(Status)]

CallType == call \in [Calls -> Call]

Master == [live : BOOLEAN, target : Targets]

MasterType == master \in Seq(Master) /\ Len(master) <= MaxMasters

\* A path holds nothing, junk, or one of the masters there have been, of its own key.
PathInv ==
    /\ path \in [Keys -> 0..(MaxMasters + 1)]
    /\ \A k \in Keys : path[k] \in {Nothing, Junk} \cup (1..Len(master))
    /\ \A k \in Keys : Held(path[k]) => Key(master[path[k]].target) = k

\* A call that goes through a master goes through one of its own key.
Attached(c) ==
    call[c].pc = "mux" =>
        /\ call[c].through \in 1..Len(master)
        /\ Key(master[call[c].through].target) = Key(call[c].target)

\* The first attempt has executed nothing until it ends, and then what it reports; the
\* second one follows a first one that was not executed or reported 255.
Attempts(c) ==
    LET pc == call[c].pc
        runs == call[c].runs IN
    /\ pc \in {"stat", "dial", "unlink", "remove"} => call[c].tries = 1
    /\ pc = "remove" => call[c].code = 255
    /\ call[c].tries = 1 =>
          IF pc \in {"exited", "remove", "done"}
          THEN Len(runs) <= 1 /\ (Len(runs) = 1 => runs[1] = call[c].code)
          ELSE Len(runs) = 0
    /\ call[c].tries = 2 =>
          IF pc \in {"exited", "done"}
          THEN Len(runs) <= 2 /\ (Len(runs) = 2 => runs[1] = 255)
          ELSE Len(runs) <= 1 /\ (Len(runs) = 1 => runs[1] = 255)

IInv ==
    /\ CallType /\ MasterType /\ PathInv /\ deaths \in 0..MaxDeaths
    /\ \A c \in Calls : Attached(c) /\ Attempts(c)

-----------------------------------------------------------------------------
(* The initial state *)

LEMMA KeyInKeys == \A t \in Targets : Key(t) \in Keys
BY DEF Keys

LEMMA InitIInv == Init => IInv
<1>. SUFFICES ASSUME Init PROVE IInv
  OBVIOUS
<1>1. CallType
  <2>1. << >> \in Seq(Status) /\ 0 \in Status /\ 0 \in Nat /\ 1 \in 1..2
    BY DEF Status
  <2>. QED
    BY <2>1 DEF Init, CallType, Call, Pcs
<1>2. MasterType /\ deaths \in 0..MaxDeaths
  BY ControlMasterAssumption DEF Init, MasterType, Master
<1>3. PathInv
  BY ControlMasterAssumption DEF Init, PathInv, Nothing, Junk, Held
<1>4. ASSUME NEW c \in Calls PROVE Attached(c) /\ Attempts(c)
  <2>1. call[c].pc = "stat" /\ call[c].tries = 1 /\ call[c].runs = << >>
    BY DEF Init
  <2>. QED
    BY <2>1 DEF Attached, Attempts
<1>. QED
  BY <1>1, <1>2, <1>3, <1>4 DEF IInv

-----------------------------------------------------------------------------
(* The steps *)

\* Removing a path keeps PathInv.
LEMMA UnlinkKeeps ==
    ASSUME PathInv, MasterType, NEW k \in Keys, Unlink(k), UNCHANGED master
    PROVE  PathInv'
<1>1. path' \in [Keys -> 0..(MaxMasters + 1)]
  BY ControlMasterAssumption DEF PathInv, Unlink, Nothing
<1>2. ASSUME NEW l \in Keys
      PROVE  path'[l] = path[l] \/ path'[l] = Nothing
  BY DEF PathInv, Unlink
<1>3. 0 \notin DOMAIN master
  BY DEF MasterType, Master
<1>. QED
  BY <1>1, <1>2, <1>3 DEF PathInv, Held, Nothing, Junk

\* A step of c that leaves the masters alone, and of the paths removes at most its own,
\* keeps IInv if it keeps what IInv says of c.
LEMMA StepOfCall ==
    ASSUME IInv, NEW c \in Calls, UNCHANGED <<master, deaths>>,
           UNCHANGED path \/ Unlink(Key(call[c].target)),
           CallType', \A d \in Calls \ {c} : call'[d] = call[d],
           Attached(c)', Attempts(c)'
    PROVE  IInv'
<1>1. CallType' /\ MasterType' /\ (deaths \in 0..MaxDeaths)'
  BY DEF IInv, MasterType, Master
<1>2. PathInv'
  <2>1. Key(call[c].target) \in Keys
    BY KeyInKeys DEF IInv, CallType, Call
  <2>2. CASE UNCHANGED path
    BY <2>2 DEF IInv, PathInv, Held, Nothing, Junk
  <2>3. CASE Unlink(Key(call[c].target))
    BY <2>1, <2>3, UnlinkKeeps DEF IInv
  <2>. QED
    BY <2>2, <2>3
<1>3. ASSUME NEW d \in Calls PROVE Attached(d)' /\ Attempts(d)'
  <2>1. CASE d = c
    BY <2>1
  <2>2. CASE d # c
    <3>1. call'[d] = call[d]
      BY <2>2
    <3>. QED
      BY <3>1 DEF IInv, Attached, Attempts
  <2>. QED
    BY <2>1, <2>2
<1>. QED
  BY <1>1, <1>2, <1>3 DEF IInv

\* A call that becomes r.
LEMMA Becomes ==
    ASSUME IInv, NEW c \in Calls, NEW r \in Call, call' = [call EXCEPT ![c] = r]
    PROVE  CallType' /\ call'[c] = r /\ \A d \in Calls \ {c} : call'[d] = call[d]
BY DEF IInv, CallType

\* A call that only goes on to pc.
LEMMA GoesOn ==
    ASSUME IInv, NEW c \in Calls, NEW pc \in Pcs, Goes(c, pc)
    PROVE  /\ CallType' /\ \A d \in Calls \ {c} : call'[d] = call[d]
           /\ call'[c].pc = pc /\ call'[c].target = call[c].target
           /\ call'[c].through = call[c].through /\ call'[c].code = call[c].code
           /\ call'[c].tries = call[c].tries /\ call'[c].runs = call[c].runs
           /\ call'[c].arg = call[c].arg /\ call'[c].noise = call[c].noise
<1>. DEFINE r == [call[c] EXCEPT !.pc = pc]
<1>1. call[c] \in Call
  BY DEF IInv, CallType
<1>2. \A s \in Call : [s EXCEPT !.pc = pc] \in Call
  BY DEF Call
<1>3. CallType' /\ call'[c] = r /\ \A d \in Calls \ {c} : call'[d] = call[d]
  BY <1>1, <1>2, Becomes DEF Goes
<1>. QED
  BY <1>1, <1>3 DEF Call

\* What the steps make of the record r of a call.
LEMMA GivesUp ==
    ASSUME NEW r \in Call
    PROVE  LET s == [r EXCEPT !.pc = "exited", !.code = 255, !.noise = TRUE] IN
           /\ s \in Call /\ s.pc = "exited" /\ s.code = 255 /\ s.noise
           /\ s.runs = r.runs /\ s.tries = r.tries /\ s.target = r.target /\ s.arg = r.arg
<1>1. "exited" \in Pcs /\ 255 \in Status
  BY DEF Pcs, Status
<1>. QED
  BY <1>1 DEF Call

LEMMA StartsWith ==
    ASSUME NEW r \in Call, NEW arg \in {"auto", "no"}
    PROVE  LET s == [r EXCEPT !.pc = "ssh", !.arg = arg] IN
           /\ s \in Call /\ s.pc = "ssh" /\ s.arg = arg /\ s.noise = r.noise
           /\ s.runs = r.runs /\ s.tries = r.tries /\ s.target = r.target
<1>1. "ssh" \in Pcs
  BY DEF Pcs
<1>. QED
  BY <1>1 DEF Call

LEMMA GoesThrough ==
    ASSUME NEW r \in Call, NEW m \in Nat
    PROVE  LET s == [r EXCEPT !.pc = "mux", !.through = m] IN
           /\ s \in Call /\ s.pc = "mux" /\ s.through = m /\ s.target = r.target
           /\ s.runs = r.runs /\ s.tries = r.tries /\ s.arg = r.arg /\ s.noise = r.noise
<1>1. "mux" \in Pcs
  BY DEF Pcs
<1>. QED
  BY <1>1 DEF Call

LEMMA Complains ==
    ASSUME NEW r \in Call
    PROVE  LET s == [r EXCEPT !.pc = "direct", !.noise = TRUE] IN
           /\ s \in Call /\ s.pc = "direct" /\ s.noise /\ s.arg = r.arg
           /\ s.runs = r.runs /\ s.tries = r.tries /\ s.target = r.target
<1>1. "direct" \in Pcs
  BY DEF Pcs
<1>. QED
  BY <1>1 DEF Call

LEMMA TriesAgain ==
    ASSUME NEW r \in Call
    PROVE  LET s == [r EXCEPT !.pc = "ssh", !.tries = 2, !.noise = FALSE] IN
           /\ s \in Call /\ s.pc = "ssh" /\ s.runs = r.runs /\ s.tries = 2
           /\ ~s.noise /\ s.arg = r.arg /\ s.target = r.target
<1>1. "ssh" \in Pcs /\ 2 \in 1..2
  BY DEF Pcs
<1>. QED
  BY <1>1 DEF Call

LEMMA StatsKeeps == ASSUME IInv, NEW c \in Calls, Stats(c) PROVE IInv'
<1>1. call[c].pc = "stat" /\ UNCHANGED <<path, master, deaths>>
  BY DEF Stats
<1>2. CASE call' = [call EXCEPT ![c] = [@ EXCEPT !.pc = "ssh", !.arg = "auto"]]
  <2>. DEFINE r == [call[c] EXCEPT !.pc = "ssh", !.arg = "auto"]
  <2>0. r \in Call /\ r.pc = "ssh" /\ r.runs = call[c].runs /\ r.tries = call[c].tries
    <3>1. call[c] \in Call
      BY DEF IInv, CallType
    <3>. QED
      BY <3>1, StartsWith
  <2>1. CallType' /\ call'[c] = r /\ \A d \in Calls \ {c} : call'[d] = call[d]
    BY <1>2, <2>0, Becomes
  <2>. HIDE DEF r
  <2>2. Attached(c)' /\ Attempts(c)'
    BY <1>1, <2>0, <2>1 DEF IInv, Attached, Attempts
  <2>. QED
    BY <1>1, <2>1, <2>2, StepOfCall, SMTT(30)
<1>3. CASE Goes(c, "unlink")
  <2>1. "unlink" \in Pcs
    BY DEF Pcs
  <2>2. Attached(c)' /\ Attempts(c)'
    BY <1>1, <1>3, <2>1, GoesOn DEF IInv, Attached, Attempts
  <2>. QED
    BY <1>1, <1>3, <2>1, <2>2, GoesOn, StepOfCall
<1>4. CASE Goes(c, "dial")
  <2>1. "dial" \in Pcs
    BY DEF Pcs
  <2>2. Attached(c)' /\ Attempts(c)'
    BY <1>1, <1>4, <2>1, GoesOn DEF IInv, Attached, Attempts
  <2>. QED
    BY <1>1, <1>4, <2>1, <2>2, GoesOn, StepOfCall
<1>. QED
  BY <1>2, <1>3, <1>4 DEF Stats

LEMMA DialsKeeps == ASSUME IInv, NEW c \in Calls, Dials(c) PROVE IInv'
<1>1. call[c].pc = "dial" /\ UNCHANGED <<path, master, deaths>>
  BY DEF Dials
<1>2. CASE call' = [call EXCEPT ![c] = [@ EXCEPT !.pc = "ssh", !.arg = "no"]]
  <2>. DEFINE r == [call[c] EXCEPT !.pc = "ssh", !.arg = "no"]
  <2>0. r \in Call /\ r.pc = "ssh" /\ r.runs = call[c].runs /\ r.tries = call[c].tries
    <3>1. call[c] \in Call
      BY DEF IInv, CallType
    <3>. QED
      BY <3>1, StartsWith
  <2>1. CallType' /\ call'[c] = r /\ \A d \in Calls \ {c} : call'[d] = call[d]
    BY <1>2, <2>0, Becomes
  <2>. HIDE DEF r
  <2>2. Attached(c)' /\ Attempts(c)'
    BY <1>1, <2>0, <2>1 DEF IInv, Attached, Attempts
  <2>. QED
    BY <1>1, <2>1, <2>2, StepOfCall, SMTT(30)
<1>3. CASE Goes(c, "unlink")
  <2>1. "unlink" \in Pcs
    BY DEF Pcs
  <2>2. Attached(c)' /\ Attempts(c)'
    BY <1>1, <1>3, <2>1, GoesOn DEF IInv, Attached, Attempts
  <2>. QED
    BY <1>1, <1>3, <2>1, <2>2, GoesOn, StepOfCall
<1>. QED
  BY <1>2, <1>3 DEF Dials

LEMMA UnlinksKeeps == ASSUME IInv, NEW c \in Calls, Unlinks(c) PROVE IInv'
<1>1. /\ call[c].pc = "unlink" /\ UNCHANGED <<master, deaths>>
      /\ UNCHANGED path \/ Unlink(Key(call[c].target))
      /\ call' = [call EXCEPT ![c] = [@ EXCEPT !.pc = "ssh", !.arg = "auto"]]
  BY DEF Unlinks
<1>. DEFINE r == [call[c] EXCEPT !.pc = "ssh", !.arg = "auto"]
<1>2. r \in Call /\ r.pc = "ssh" /\ r.runs = call[c].runs /\ r.tries = call[c].tries
  <2>1. call[c] \in Call
    BY DEF IInv, CallType
  <2>. QED
    BY <2>1, StartsWith
<1>3. CallType' /\ call'[c] = r /\ \A d \in Calls \ {c} : call'[d] = call[d]
  BY <1>1, <1>2, Becomes
<1>. HIDE DEF r
<1>4. Attached(c)' /\ Attempts(c)'
  BY <1>1, <1>2, <1>3 DEF IInv, Attached, Attempts
<1>. QED
  BY <1>1, <1>3, <1>4, StepOfCall

LEMMA SshLooksKeeps == ASSUME IInv, NEW c \in Calls, SshLooks(c) PROVE IInv'
<1>1. /\ call[c].pc = "ssh" /\ UNCHANGED <<master, deaths>>
      /\ UNCHANGED path \/ Unlink(Key(call[c].target))
  BY DEF SshLooks
<1>2. CASE Alive(At(c)) /\ call' = [call EXCEPT ![c] = [@ EXCEPT !.pc = "mux", !.through = At(c)]]
  <2>1. /\ At(c) \in 1..Len(master)
        /\ Key(master[At(c)].target) = Key(call[c].target)
    BY <1>2, KeyInKeys DEF IInv, CallType, Call, MasterType, Master, PathInv, At, Alive, Held
  <2>. DEFINE r == [call[c] EXCEPT !.pc = "mux", !.through = At(c)]
  <2>2. /\ r \in Call /\ r.pc = "mux" /\ r.through = At(c) /\ r.target = call[c].target
        /\ r.runs = call[c].runs /\ r.tries = call[c].tries
    <3>1. At(c) \in Nat
      BY <2>1 DEF IInv, MasterType
    <3>2. call[c] \in Call
      BY DEF IInv, CallType
    <3>. QED
      BY <3>1, <3>2, GoesThrough
  <2>3. CallType' /\ call'[c] = r /\ \A d \in Calls \ {c} : call'[d] = call[d]
    BY <1>2, <2>2, Becomes
  <2>. HIDE DEF r
  <2>4. Attached(c)'
    BY <1>1, <2>1, <2>2, <2>3 DEF Attached
  <2>5. Attempts(c)'
    BY <1>1, <2>2, <2>3 DEF IInv, Attempts
  <2>. QED
    BY <1>1, <2>3, <2>4, <2>5, StepOfCall
<1>3. CASE Goes(c, "direct")
  <2>1. "direct" \in Pcs
    BY DEF Pcs
  <2>2. Attached(c)' /\ Attempts(c)'
    BY <1>1, <1>3, <2>1, GoesOn DEF IInv, Attached, Attempts
  <2>. QED
    BY <1>1, <1>3, <2>1, <2>2, GoesOn, StepOfCall
<1>4. CASE call' = [call EXCEPT ![c] = [@ EXCEPT !.pc = "direct", !.noise = TRUE]]
  <2>. DEFINE r == [call[c] EXCEPT !.pc = "direct", !.noise = TRUE]
  <2>0. r \in Call /\ r.pc = "direct" /\ r.runs = call[c].runs /\ r.tries = call[c].tries
    <3>1. call[c] \in Call
      BY DEF IInv, CallType
    <3>. QED
      BY <3>1, Complains
  <2>1. CallType' /\ call'[c] = r /\ \A d \in Calls \ {c} : call'[d] = call[d]
    BY <1>4, <2>0, Becomes
  <2>. HIDE DEF r
  <2>2. Attached(c)' /\ Attempts(c)'
    BY <1>1, <2>0, <2>1 DEF IInv, Attached, Attempts
  <2>. QED
    BY <1>1, <2>1, <2>2, StepOfCall
<1>. QED
  BY <1>2, <1>3, <1>4 DEF SshLooks

\* What an attempt adds to the statuses of the executions.
LEMMA AddsStatus ==
    ASSUME NEW old \in Seq(Status), NEW code \in Status,
           NEW runs \in {old, Append(old, code)}
    PROVE  /\ runs \in Seq(Status)
           /\ Len(old) = 0 => Len(runs) <= 1 /\ (Len(runs) = 1 => runs[1] = code)
           /\ Len(old) <= 1 /\ (Len(old) = 1 => old[1] = 255) =>
                 Len(runs) <= 2 /\ (Len(runs) = 2 => runs[1] = 255)
<1>1. CASE runs = old
  BY <1>1
<1>2. CASE runs = Append(old, code)
  <2>1. runs \in Seq(Status) /\ Len(runs) = Len(old) + 1 /\ Len(old) \in Nat
    BY <1>2
  <2>2. Len(old) = 0 => runs[1] = code
    BY <1>2
  <2>3. Len(old) = 1 => runs[1] = old[1]
    BY <1>2
  <2>4. Len(old) = 0 => Len(runs) <= 1 /\ (Len(runs) = 1 => runs[1] = code)
    BY <2>1, <2>2
  <2>5. ASSUME Len(old) <= 1, Len(old) = 1 => old[1] = 255
        PROVE  Len(runs) <= 2 /\ (Len(runs) = 2 => runs[1] = 255)
    <3>1. Len(runs) <= 2
      BY <2>1, <2>5
    <3>2. Len(runs) = 2 => Len(old) = 1
      <4>1. \A n \in Nat : n + 1 = 2 => n = 1
        OBVIOUS
      <4>. QED
        BY <2>1, <4>1, Zenon
    <3>. QED
      BY <3>1, <3>2, <2>3, <2>5, Zenon
  <2>. QED
    BY <2>1, <2>4, <2>5
<1>. QED
  BY <1>1, <1>2

\* What the end of a run leaves.
LEMMA ExitsKeeps ==
    ASSUME IInv, NEW c \in Calls, UNCHANGED <<path, master, deaths>>,
           call[c].pc \in {"direct", "session", "mux"},
           NEW code \in Status, NEW runs, Exits(c, code, runs),
           runs \in {call[c].runs, Append(call[c].runs, code)}
    PROVE  IInv'
<1>1. call[c].runs \in Seq(Status) /\ call[c].tries \in 1..2
  BY DEF IInv, CallType, Call
<1>2. runs \in Seq(Status)
  BY <1>1, AddsStatus, SMTT(30)
<1>. DEFINE r == [call[c] EXCEPT !.pc = "exited", !.code = code, !.runs = runs]
<1>3. /\ r \in Call /\ r.pc = "exited" /\ r.code = code
      /\ r.runs = runs /\ r.tries = call[c].tries
  <2>1. call[c] \in Call
    BY DEF IInv, CallType
  <2>2. \A s \in Call :
           LET t == [s EXCEPT !.pc = "exited", !.code = code, !.runs = runs] IN
           /\ t \in Call /\ t.pc = "exited" /\ t.code = code
           /\ t.runs = runs /\ t.tries = s.tries
    BY <1>2 DEF Call, Pcs
  <2>. QED
    BY <2>1, <2>2
<1>4. CallType' /\ call'[c] = r /\ \A d \in Calls \ {c} : call'[d] = call[d]
  BY <1>3, Becomes DEF Exits
<1>. HIDE DEF r
<1>5. /\ call[c].tries = 1 => Len(call[c].runs) = 0
      /\ call[c].tries = 2 => Len(call[c].runs) <= 1
                              /\ (Len(call[c].runs) = 1 => call[c].runs[1] = 255)
  BY DEF IInv, Attempts
<1>6. /\ call[c].tries = 1 => Len(runs) <= 1 /\ (Len(runs) = 1 => runs[1] = code)
      /\ call[c].tries = 2 => Len(runs) <= 2 /\ (Len(runs) = 2 => runs[1] = 255)
  BY <1>1, <1>5, AddsStatus, Zenon
<1>7. Attached(c)' /\ Attempts(c)'
  BY <1>1, <1>3, <1>4, <1>6 DEF Attached, Attempts
<1>. QED
  BY <1>4, <1>7, StepOfCall

LEMMA SessionEndsKeeps == ASSUME IInv, NEW c \in Calls, SessionEnds(c) PROVE IInv'
<1>1. PICK code \in Codes : ExitsHavingRun(c, code)
  BY DEF SessionEnds
<1>2. code \in Status
  BY ControlMasterAssumption DEF Status
<1>. QED
  BY <1>1, <1>2, ExitsKeeps DEF SessionEnds, ExitsHavingRun

LEMMA MuxEndsKeeps == ASSUME IInv, NEW c \in Calls, MuxEnds(c) PROVE IInv'
<1>1. call[c].pc = "mux" /\ UNCHANGED <<path, master, deaths>>
  BY DEF MuxEnds
<1>2. 255 \in Status
  BY DEF Status
<1>3. ASSUME NEW code \in Codes, ExitsHavingRun(c, code) PROVE IInv'
  <2>1. code \in Status
    BY ControlMasterAssumption DEF Status
  <2>. QED
    BY <1>1, <1>3, <2>1, ExitsKeeps DEF ExitsHavingRun
<1>4. CASE ExitsHavingRun(c, 255)
  BY <1>1, <1>2, <1>4, ExitsKeeps DEF ExitsHavingRun
<1>5. CASE call' = [call EXCEPT ![c] = [@ EXCEPT !.pc = "exited", !.code = 255, !.noise = TRUE]]
  <2>. DEFINE r == [call[c] EXCEPT !.pc = "exited", !.code = 255, !.noise = TRUE]
  <2>1. /\ r \in Call /\ r.pc = "exited"
        /\ r.runs = call[c].runs /\ r.tries = call[c].tries
    <3>1. call[c] \in Call
      BY DEF IInv, CallType
    <3>. QED
      BY <1>2, <3>1, GivesUp
  <2>2. CallType' /\ call'[c] = r /\ \A d \in Calls \ {c} : call'[d] = call[d]
    BY <1>5, <2>1, Becomes
  <2>. HIDE DEF r
  <2>3. Len(call[c].runs) \in Nat
    BY DEF IInv, CallType, Call
  <2>4. Attached(c)'
    BY <2>1, <2>2 DEF Attached
  <2>5. Attempts(c)'
    <3>1. /\ call[c].tries = 1 => Len(call[c].runs) = 0
          /\ call[c].tries = 2 => /\ Len(call[c].runs) <= 1
                                  /\ Len(call[c].runs) = 1 => call[c].runs[1] = 255
      BY <1>1 DEF IInv, Attempts
    <3>2. /\ call[c].tries = 1 => Len(call[c].runs) <= 1 /\ Len(call[c].runs) # 1
          /\ call[c].tries = 2 => Len(call[c].runs) <= 2 /\ Len(call[c].runs) # 2
      <4>1. \A n \in Nat : (n = 0 => n <= 1 /\ n # 1) /\ (n <= 1 => n <= 2 /\ n # 2)
        OBVIOUS
      <4>. QED
        BY <2>3, <3>1, <4>1, Zenon
    <3>. QED
      BY <2>1, <2>2, <3>2 DEF Attempts
  <2>. QED
    BY <1>1, <2>2, <2>4, <2>5, StepOfCall
<1>. QED
  BY <1>3, <1>4, <1>5 DEF MuxEnds

LEMMA ConcludesKeeps == ASSUME IInv, NEW c \in Calls, Concludes(c) PROVE IInv'
<1>1. call[c].pc = "exited" /\ UNCHANGED <<path, master, deaths>>
  BY DEF Concludes
<1>2. ASSUME NEW pc \in {"remove", "done"}, Goes(c, pc),
             pc = "remove" => call[c].code = 255 /\ call[c].tries = 1
      PROVE  IInv'
  <2>1. pc \in Pcs
    BY DEF Pcs
  <2>2. Attached(c)' /\ Attempts(c)'
    BY <1>1, <1>2, <2>1, GoesOn DEF IInv, Attached, Attempts
  <2>. QED
    BY <1>1, <1>2, <2>1, <2>2, GoesOn, StepOfCall
<1>. QED
  BY <1>2 DEF Concludes, ShouldRetry

LEMMA RetriesKeeps == ASSUME IInv, NEW c \in Calls, Retries(c) PROVE IInv'
<1>1. /\ call[c].pc = "remove" /\ UNCHANGED <<master, deaths>>
      /\ UNCHANGED path \/ Unlink(Key(call[c].target))
  BY DEF Retries
<1>2. call[c].tries = 1 /\ call[c].code = 255
  BY <1>1 DEF IInv, Attempts
<1>3. CASE call' = [call EXCEPT ![c] = [@ EXCEPT !.pc = "ssh", !.tries = 2, !.noise = FALSE]]
  <2>. DEFINE r == [call[c] EXCEPT !.pc = "ssh", !.tries = 2, !.noise = FALSE]
  <2>1. r \in Call /\ r.pc = "ssh" /\ r.runs = call[c].runs /\ r.tries = 2
    <3>1. call[c] \in Call
      BY DEF IInv, CallType
    <3>. QED
      BY <1>2, <3>1, TriesAgain
  <2>2. CallType' /\ call'[c] = r /\ \A d \in Calls \ {c} : call'[d] = call[d]
    BY <1>3, <2>1, Becomes
  <2>. HIDE DEF r
  <2>3. Attached(c)' /\ Attempts(c)'
    BY <1>1, <1>2, <2>1, <2>2 DEF IInv, Attached, Attempts
  <2>. QED
    BY <1>1, <2>2, <2>3, StepOfCall
<1>4. CASE Goes(c, "done")
  <2>1. "done" \in Pcs
    BY DEF Pcs
  <2>2. Attached(c)' /\ Attempts(c)'
    BY <1>1, <1>4, <2>1, GoesOn DEF IInv, Attached, Attempts
  <2>. QED
    BY <1>1, <1>4, <2>1, <2>2, GoesOn, StepOfCall
<1>. QED
  BY <1>3, <1>4 DEF Retries

\* A master that is started at an empty path belongs to the key of that path.
LEMMA SshConnectsKeeps == ASSUME IInv, NEW c \in Calls, SshConnects(c) PROVE IInv'
<1>. DEFINE t == call[c].target
<1>1. call[c].pc = "direct" /\ UNCHANGED deaths
  BY DEF SshConnects
<1>2. CASE Exits(c, 255, call[c].runs) /\ UNCHANGED <<path, master>>
  <2>1. 255 \in Status
    BY DEF Status
  <2>. QED
    BY <1>1, <1>2, <2>1, ExitsKeeps
<1>3. CASE Goes(c, "session")
  <2>1. "session" \in Pcs
    BY DEF Pcs
  <2>2. Attached(c)' /\ Attempts(c)'
    BY <1>1, <1>3, <2>1, GoesOn DEF IInv, Attached, Attempts
  <2>3. CASE UNCHANGED <<path, master>>
    BY <1>1, <1>3, <2>1, <2>2, <2>3, GoesOn, StepOfCall
  <2>4. CASE /\ Len(master) < MaxMasters
             /\ master' = Append(master, [live |-> TRUE, target |-> t])
             /\ path' = [path EXCEPT ![Key(t)] = Len(master) + 1]
    <3>1. t \in Targets /\ Key(t) \in Keys
      BY KeyInKeys DEF IInv, CallType, Call
    <3>2. /\ MasterType' /\ Len(master') = Len(master) + 1 /\ Len(master) \in Nat
          /\ master'[Len(master) + 1].target = t
          /\ \A m \in 1..Len(master) : master'[m] = master[m]
      BY <2>4, <3>1, ControlMasterAssumption DEF IInv, MasterType, Master
    <3>3. PathInv'
      <4>1. /\ path'[Key(t)] = Len(master) + 1
            /\ \A k \in Keys \ {Key(t)} : path'[k] = path[k]
        BY <2>4, <3>1 DEF IInv, PathInv
      <4>2. path' \in [Keys -> 0..(MaxMasters + 1)]
        BY <2>4, <3>1, <3>2, ControlMasterAssumption DEF IInv, PathInv
      <4>3. DOMAIN master' = 1..(Len(master) + 1) /\ DOMAIN master = 1..Len(master)
        BY <3>2 DEF IInv, MasterType, Master
      <4>4. \A k \in Keys : path'[k] \in {Nothing, Junk} \cup (1..Len(master'))
        BY <3>2, <4>1 DEF IInv, PathInv, Nothing, Junk
      <4>5. ASSUME NEW k \in Keys, Held(path[k])'
            PROVE  Key(master'[path'[k]].target) = k
        <5>1. CASE k = Key(t)
          BY <3>2, <4>1, <5>1
        <5>2. CASE k # Key(t)
          <6>1. path'[k] = path[k] /\ path[k] \in 1..Len(master)
            BY <2>4, <3>2, <4>1, <4>3, <4>5, <5>2, ControlMasterAssumption
               DEF IInv, PathInv, Held, Nothing, Junk
          <6>. QED
            BY <3>2, <4>3, <6>1 DEF IInv, PathInv, Held
        <5>. QED
          BY <5>1, <5>2
      <4>. QED
        BY <4>2, <4>4, <4>5 DEF PathInv
    <3>4. ASSUME NEW d \in Calls, d # c PROVE Attached(d)' /\ Attempts(d)'
      <4>1. call'[d] = call[d]
        BY <1>3, <2>1, <3>4, GoesOn
      <4>. QED
        BY <3>2, <4>1 DEF IInv, Attached, Attempts
    <3>. QED
      BY <1>1, <1>3, <2>1, <2>2, <3>2, <3>3, <3>4, GoesOn DEF IInv
  <2>. QED
    BY <1>3, <2>3, <2>4 DEF SshConnects
<1>. QED
  BY <1>2, <1>3 DEF SshConnects

\* The end of a master leaves the number of its masters and what they were for.
LEMMA MasterEndsKeeps == ASSUME IInv, NEW m \in 1..MaxMasters, MasterEnds(m) PROVE IInv'
<1>1. /\ m \in 1..Len(master) /\ deaths < MaxDeaths /\ deaths' = deaths + 1
      /\ master' = [master EXCEPT ![m] = [@ EXCEPT !.live = FALSE]] /\ UNCHANGED call
      /\ UNCHANGED path \/ Unlink(Key(master[m].target))
  BY DEF MasterEnds, Alive, IInv, MasterType, Master
<1>2. MasterType' /\ Len(master') = Len(master) /\ DOMAIN master' = DOMAIN master
  <2>1. \A r \in Master : [r EXCEPT !.live = FALSE] \in Master
    BY DEF Master
  <2>. QED
    BY <1>1, <2>1, ExceptSeq DEF IInv, MasterType
<1>3. \A n \in DOMAIN master : master'[n].target = master[n].target
  BY <1>1 DEF IInv, MasterType, Master
<1>4. (deaths \in 0..MaxDeaths)'
  BY <1>1, ControlMasterAssumption DEF IInv
<1>5. PathInv'
  <2>1. ASSUME NEW k \in Keys PROVE path'[k] = path[k] \/ path'[k] = Nothing
    BY <1>1 DEF IInv, PathInv, Unlink
  <2>2. path' \in [Keys -> 0..(MaxMasters + 1)]
    BY <1>1, ControlMasterAssumption DEF IInv, PathInv, Unlink, Nothing
  <2>3. 0 \notin DOMAIN master
    BY DEF IInv, MasterType, Master
  <2>. QED
    BY <1>2, <1>3, <2>1, <2>2, <2>3 DEF IInv, PathInv, Held, Nothing, Junk
<1>6. ASSUME NEW c \in Calls PROVE Attached(c)' /\ Attempts(c)'
  <2>1. DOMAIN master = 1..Len(master)
    BY DEF IInv, MasterType, Master
  <2>. QED
    BY <1>1, <1>2, <1>3, <2>1 DEF IInv, Attached, Attempts
<1>7. CallType'
  BY <1>1 DEF IInv, CallType, Call
<1>. QED
  BY <1>2, <1>4, <1>5, <1>6, <1>7 DEF IInv

-----------------------------------------------------------------------------
(* The theorems *)

LEMMA NextIInv == IInv /\ [Next]_vars => IInv'
<1>. SUFFICES ASSUME IInv, [Next]_vars PROVE IInv'
  OBVIOUS
<1>1. ASSUME NEW c \in Calls, Step(c) PROVE IInv'
  BY <1>1, StatsKeeps, DialsKeeps, UnlinksKeeps, SshLooksKeeps, SshConnectsKeeps,
     SessionEndsKeeps, MuxEndsKeeps, ConcludesKeeps, RetriesKeeps DEF Step
<1>2. ASSUME NEW m \in 1..MaxMasters, MasterEnds(m) PROVE IInv'
  BY <1>2, MasterEndsKeeps
<1>3. CASE UNCHANGED vars
  BY <1>3 DEF vars, IInv, CallType, Call, MasterType, Master, PathInv,
                 Attached, Attempts, Held, Nothing, Junk
<1>. QED
  BY <1>1, <1>2, <1>3 DEF Next

LEMMA Inductive == Spec => []IInv
BY InitIInv, NextIInv, PTL DEF Spec

\* Whatever the calls, targets and bounds: no call runs its command through a master
\* that is connected to another server, or over other jump hosts.
THEOREM MasterOnOwnRoute == Spec => []MasterOfOwnRoute
<1>1. IInv => MasterOfOwnRoute
  <2>. SUFFICES ASSUME IInv PROVE MasterOfOwnRoute
    OBVIOUS
  <2>1. TypeOK
    BY DEF IInv, CallType, Call, MasterType, Master, PathInv, TypeOK
  <2>2. ASSUME NEW c \in Calls, call[c].pc = "mux"
        PROVE  /\ master[call[c].through].target.server = call[c].target.server
               /\ master[call[c].through].target.via = call[c].target.via
    BY <2>2 DEF IInv, Attached, Key
  <2>. QED
    BY <2>1, <2>2 DEF MasterOfOwnRoute
<1>. QED
  BY <1>1, Inductive, PTL

\* However often ssh fails on its control socket, and whenever masters die: no command
\* is executed after a run of it that ended with another status than 255, or three times.
THEOREM NoSecondRun == Spec => []NoSecondRunAfterStatus
<1>1. IInv => NoSecondRunAfterStatus
  <2>. SUFFICES ASSUME IInv, NEW c \in Calls, Len(call[c].runs) > 1
                PROVE  call[c].runs[1] = 255 /\ Len(call[c].runs) = 2
    BY DEF NoSecondRunAfterStatus
  <2>1. Len(call[c].runs) \in Nat /\ call[c].tries \in 1..2
    BY DEF IInv, CallType, Call
  <2>. DEFINE n == Len(call[c].runs)
  <2>2. n <= 1 \/ (n <= 2 /\ (n = 2 => call[c].runs[1] = 255))
    BY <2>1 DEF IInv, Attempts
  <2>3. \A k \in Nat : k > 1 => ~(k <= 1) /\ (k <= 2 => k = 2)
    OBVIOUS
  <2>4. ~(n <= 1) /\ (n <= 2 => n = 2)
    BY <2>1, <2>3
  <2>. QED
    BY <2>2, <2>4
<1>. QED
  BY <1>1, Inductive, PTL

-----------------------------------------------------------------------------
(* A master that dies *)

Ran(c) == call[c].runs # << >> /\ Last(call[c].runs) = call[c].code

\* A call that may not become master has seen the path answer, so there is no junk; one
\* that complains of its socket, or has tried again, has met a master that has died.  If
\* that is the only one, then what it goes through now is alive, and an attempt that has
\* ended has executed the command or will be followed by another one.
Survives(c) ==
    /\ call[c].arg = "no" => At(c) # Junk
    /\ call[c].noise => deaths >= 1
    /\ call[c].pc = "remove" => call[c].noise
    /\ call[c].tries = 2 => deaths >= 1
    /\ faults = {} /\ deaths <= 1 =>
          /\ call[c].pc = "mux" /\ call[c].tries = 2 => Alive(call[c].through)
          /\ call[c].pc \in {"exited", "done"} =>
                Ran(c) \/ (call[c].pc = "exited" /\ call[c].tries = 1 /\ ShouldRetry(c))

\* Masters that have died have been counted.
Counted == \A m \in DOMAIN master : ~master[m].live => deaths >= 1

SInv == Counted /\ \A c \in Calls : Survives(c)

LEMMA InitSInv == Init => SInv
<1>. SUFFICES ASSUME Init PROVE SInv
  OBVIOUS
<1>1. Counted
  BY DEF Init, Counted
<1>2. ASSUME NEW c \in Calls PROVE Survives(c)
  <2>1. /\ call[c].arg = "auto" /\ call[c].noise = FALSE /\ call[c].pc = "stat"
        /\ call[c].tries = 1
    BY DEF Init
  <2>. QED
    BY <2>1 DEF Survives
<1>. QED
  BY <1>1, <1>2 DEF SInv

\* A step of c that buries no master and brings no junk keeps SInv if it keeps what SInv
\* says of c.
LEMMA SurvivingStep ==
    ASSUME IInv, SInv, NEW c \in Calls, UNCHANGED <<deaths, faults>>,
           \A d \in Calls \ {c} : call'[d] = call[d],
           \A k \in Keys : path'[k] \in {path[k]} \cup (0..MaxMasters),
           \A m \in DOMAIN master : m \in DOMAIN master' /\ master'[m] = master[m],
           \A m \in DOMAIN master' \ DOMAIN master : master'[m].live,
           Survives(c)'
    PROVE  SInv'
<1>1. Counted'
  BY DEF SInv, Counted
<1>2. ASSUME NEW d \in Calls, d # c PROVE Survives(d)'
  <2>1. call'[d] = call[d] /\ Key(call[d].target) \in Keys
    BY <1>2, KeyInKeys DEF IInv, CallType, Call
  <2>2. At(d)' = At(d) \/ At(d)' \in 0..MaxMasters
    BY <2>1 DEF At
  <2>3. At(d) # Junk => At(d)' # Junk'
    BY <2>2, ControlMasterAssumption DEF Junk
  <2>4. Alive(call[d].through) => Alive(call[d].through)'
    BY <2>1 DEF Alive
  <2>5. Survives(d)
    BY DEF SInv
  <2>6. (call'[d].arg = "no" => At(d)' # Junk')
    BY <2>1, <2>3, <2>5 DEF Survives
  <2>. QED
    BY <2>1, <2>4, <2>5, <2>6 DEF Survives, Ran, ShouldRetry
<1>. QED
  BY <1>1, <1>2 DEF SInv

\* The same for a step that leaves the masters alone and removes at most the path of c.
LEMMA QuietStep ==
    ASSUME IInv, SInv, NEW c \in Calls, UNCHANGED <<master, deaths, faults>>,
           UNCHANGED path \/ Unlink(Key(call[c].target)),
           \A d \in Calls \ {c} : call'[d] = call[d],
           Survives(c)'
    PROVE  SInv'
<1>1. \A k \in Keys : path'[k] \in {path[k]} \cup (0..MaxMasters)
  BY ControlMasterAssumption DEF Unlink, Nothing, IInv, PathInv
<1>. QED
  BY <1>1, SurvivingStep

\* What is at the path of c after such a step.
LEMMA QuietPath ==
    ASSUME IInv, NEW c \in Calls, UNCHANGED path \/ Unlink(Key(call[c].target)),
           call'[c].target = call[c].target, At(c) # Junk
    PROVE  At(c)' # Junk'
<1>1. Key(call[c].target) \in Keys
  BY KeyInKeys DEF IInv, CallType, Call
<1>2. At(c)' \in {At(c), Nothing}
  BY <1>1 DEF At, Unlink, IInv, PathInv
<1>. QED
  BY <1>2, ControlMasterAssumption DEF Junk, Nothing

\* A dead master that a call has met has been counted.
LEMMA DeadIsCounted ==
    ASSUME IInv, SInv, NEW m \in 1..Len(master), ~Alive(m)
    PROVE  deaths >= 1
<1>1. m \in DOMAIN master /\ ~master[m].live
  BY DEF Alive, IInv, MasterType
<1>. QED
  BY <1>1 DEF SInv, Counted

\* A call that goes on, or starts ssh, with nothing that Survives says more of.
LEMMA QuietGoing ==
    ASSUME IInv, SInv, NEW c \in Calls, UNCHANGED <<master, deaths, faults>>,
           UNCHANGED path \/ Unlink(Key(call[c].target)),
           \A d \in Calls \ {c} : call'[d] = call[d],
           call'[c].target = call[c].target, call'[c].tries = call[c].tries,
           call'[c].noise = call[c].noise,
           call'[c].arg = call[c].arg \/ call'[c].arg = "auto" \/ At(c) # Junk,
           call'[c].pc \notin {"mux", "remove", "exited", "done"}
    PROVE  SInv'
<1>1. Survives(c)
  BY DEF SInv
<1>2. call'[c].arg = "no" => At(c)' # Junk'
  BY <1>1, QuietPath DEF Survives
<1>3. Survives(c)'
  BY <1>1, <1>2 DEF Survives
<1>. QED
  BY <1>3, QuietStep

LEMMA StatsSurvives ==
    ASSUME IInv, SInv, NEW c \in Calls, Stats(c), UNCHANGED faults PROVE SInv'
<1>1. call[c] \in Call /\ UNCHANGED <<path, master, deaths>>
  BY DEF Stats, IInv, CallType
<1>2. CASE call' = [call EXCEPT ![c] = [@ EXCEPT !.pc = "ssh", !.arg = "auto"]]
  <2>. DEFINE r == [call[c] EXCEPT !.pc = "ssh", !.arg = "auto"]
  <2>1. /\ r \in Call /\ r.pc = "ssh" /\ r.arg = "auto" /\ r.noise = call[c].noise
        /\ r.tries = call[c].tries /\ r.target = call[c].target
    BY <1>1, StartsWith
  <2>2. call'[c] = r /\ \A d \in Calls \ {c} : call'[d] = call[d]
    BY <1>2, <2>1, Becomes
  <2>. HIDE DEF r
  <2>. QED
    BY <1>1, <2>1, <2>2, QuietGoing, SMTT(30)
<1>3. CASE Goes(c, "unlink") \/ Goes(c, "dial")
  BY <1>1, <1>3, GoesOn, QuietGoing DEF Pcs
<1>. QED
  BY <1>2, <1>3 DEF Stats

LEMMA DialsSurvives ==
    ASSUME IInv, SInv, NEW c \in Calls, Dials(c), UNCHANGED faults PROVE SInv'
<1>1. call[c] \in Call /\ UNCHANGED <<path, master, deaths>>
  BY DEF Dials, IInv, CallType
<1>2. CASE Alive(At(c)) /\ call' = [call EXCEPT ![c] = [@ EXCEPT !.pc = "ssh", !.arg = "no"]]
  <2>. DEFINE r == [call[c] EXCEPT !.pc = "ssh", !.arg = "no"]
  <2>1. /\ r \in Call /\ r.pc = "ssh" /\ r.noise = call[c].noise
        /\ r.tries = call[c].tries /\ r.target = call[c].target
    BY <1>1, StartsWith
  <2>2. call'[c] = r /\ \A d \in Calls \ {c} : call'[d] = call[d]
    BY <1>2, <2>1, Becomes
  <2>3. At(c) # Junk
    BY <1>2, ControlMasterAssumption DEF Alive, Junk, IInv, MasterType
  <2>. HIDE DEF r
  <2>. QED
    BY <1>1, <2>1, <2>2, <2>3, QuietGoing, SMTT(30)
<1>3. CASE Goes(c, "unlink")
  BY <1>1, <1>3, GoesOn, QuietGoing DEF Pcs
<1>. QED
  BY <1>2, <1>3 DEF Dials

LEMMA UnlinksSurvives ==
    ASSUME IInv, SInv, NEW c \in Calls, Unlinks(c), UNCHANGED faults PROVE SInv'
<1>1. /\ call[c] \in Call /\ UNCHANGED <<master, deaths>>
      /\ UNCHANGED path \/ Unlink(Key(call[c].target))
      /\ call' = [call EXCEPT ![c] = [@ EXCEPT !.pc = "ssh", !.arg = "auto"]]
  BY SMTT(30) DEF Unlinks, IInv, CallType
<1>. DEFINE r == [call[c] EXCEPT !.pc = "ssh", !.arg = "auto"]
<1>2. /\ r \in Call /\ r.pc = "ssh" /\ r.arg = "auto" /\ r.noise = call[c].noise
      /\ r.tries = call[c].tries /\ r.target = call[c].target
  BY <1>1, StartsWith
<1>3. call'[c] = r /\ \A d \in Calls \ {c} : call'[d] = call[d]
  BY <1>1, <1>2, Becomes
<1>. HIDE DEF r
<1>. QED
  BY <1>1, <1>2, <1>3, QuietGoing, SMTT(30)

LEMMA SshLooksSurvives ==
    ASSUME IInv, SInv, NEW c \in Calls, SshLooks(c), UNCHANGED faults PROVE SInv'
<1>1. /\ call[c] \in Call /\ UNCHANGED <<master, deaths>>
      /\ UNCHANGED path \/ Unlink(Key(call[c].target))
      /\ Key(call[c].target) \in Keys /\ Survives(c)
  BY KeyInKeys DEF SshLooks, IInv, CallType, Call, SInv
<1>2. CASE /\ Alive(At(c)) /\ UNCHANGED path
           /\ call' = [call EXCEPT ![c] = [@ EXCEPT !.pc = "mux", !.through = At(c)]]
  <2>. DEFINE r == [call[c] EXCEPT !.pc = "mux", !.through = At(c)]
  <2>1. At(c) \in Nat
    BY <1>1 DEF At, IInv, PathInv
  <2>2. /\ r \in Call /\ r.pc = "mux" /\ r.through = At(c) /\ r.noise = call[c].noise
        /\ r.tries = call[c].tries /\ r.target = call[c].target /\ r.arg = call[c].arg
    BY <1>1, <2>1, GoesThrough
  <2>3. call'[c] = r /\ \A d \in Calls \ {c} : call'[d] = call[d]
    BY <1>2, <2>2, Becomes
  <2>. HIDE DEF r
  <2>4. At(c)' = At(c) /\ Alive(call[c].through)' 
    BY <1>1, <1>2, <2>2, <2>3 DEF At, Alive
  <2>5. Survives(c)'
    BY <1>1, <2>2, <2>3, <2>4 DEF Survives, Junk
  <2>. QED
    BY <1>1, <2>3, <2>5, QuietStep
<1>3. CASE Goes(c, "direct")
  BY <1>1, <1>3, GoesOn, QuietGoing DEF Pcs
<1>4. CASE /\ At(c) # Nothing /\ ~Alive(At(c)) /\ call[c].arg = "no" /\ UNCHANGED path
           /\ call' = [call EXCEPT ![c] = [@ EXCEPT !.pc = "direct", !.noise = TRUE]]
  <2>. DEFINE r == [call[c] EXCEPT !.pc = "direct", !.noise = TRUE]
  <2>1. /\ r \in Call /\ r.pc = "direct" /\ r.noise
        /\ r.tries = call[c].tries /\ r.target = call[c].target /\ r.arg = call[c].arg
    BY <1>1, Complains
  <2>2. call'[c] = r /\ \A d \in Calls \ {c} : call'[d] = call[d]
    BY <1>4, <2>1, Becomes
  <2>. HIDE DEF r
  <2>3. At(c) \in 1..Len(master)
    BY <1>1, <1>4 DEF Survives, At, IInv, PathInv
  <2>4. deaths >= 1
    BY <1>4, <2>3, DeadIsCounted
  <2>5. At(c)' = At(c)
    BY <1>4, <2>1, <2>2 DEF At
  <2>6. Survives(c)'
    BY <1>1, <2>1, <2>2, <2>4, <2>5 DEF Survives, Junk
  <2>. QED
    BY <1>1, <2>2, <2>6, QuietStep
<1>. QED
  BY <1>2, <1>3, <1>4 DEF SshLooks

\* An attempt that ends: it has executed the command, or has complained of a dead master.
LEMMA EndingSurvives ==
    ASSUME IInv, SInv, NEW c \in Calls, UNCHANGED <<path, master, deaths, faults>>,
           \A d \in Calls \ {c} : call'[d] = call[d],
           call'[c].target = call[c].target, call'[c].tries = call[c].tries,
           call'[c].arg = call[c].arg, call'[c].pc = "exited",
           call'[c].noise => call[c].noise \/ deaths >= 1,
           faults = {} /\ deaths <= 1 =>
              Ran(c)' \/ (call[c].tries = 1 /\ call'[c].code = 255 /\ call'[c].noise)
    PROVE  SInv'
<1>1. Survives(c)
  BY DEF SInv
<1>2. call'[c].arg = "no" => At(c)' # Junk'
  BY <1>1, QuietPath DEF Survives
<1>3. Survives(c)'
  BY <1>1, <1>2 DEF Survives, ShouldRetry
<1>. QED
  BY <1>3, QuietStep

LEMMA HavingRunSurvives ==
    ASSUME IInv, SInv, NEW c \in Calls, UNCHANGED <<path, master, deaths, faults>>,
           NEW code \in Status, ExitsHavingRun(c, code)
    PROVE  SInv'
<1>. DEFINE runs == Append(call[c].runs, code)
            r == [call[c] EXCEPT !.pc = "exited", !.code = code, !.runs = runs]
<1>1. call[c] \in Call /\ call[c].runs \in Seq(Status)
  BY DEF IInv, CallType, Call
<1>2. runs \in Seq(Status) /\ runs # << >> /\ Last(runs) = code
  BY <1>1, AppendProperties DEF Last
<1>. HIDE DEF runs
<1>3. /\ r \in Call /\ r.pc = "exited" /\ r.code = code /\ r.runs = runs
      /\ r.tries = call[c].tries /\ r.target = call[c].target /\ r.arg = call[c].arg
      /\ r.noise = call[c].noise
  BY <1>1, <1>2 DEF Call, Pcs
<1>4. call'[c] = r /\ \A d \in Calls \ {c} : call'[d] = call[d]
  BY <1>3, Becomes DEF ExitsHavingRun, Exits, runs
<1>. HIDE DEF r
<1>5. Ran(c)'
  BY <1>2, <1>3, <1>4 DEF Ran
<1>. QED
  BY <1>3, <1>4, <1>5, EndingSurvives

LEMMA SessionEndsSurvives ==
    ASSUME IInv, SInv, NEW c \in Calls, SessionEnds(c), UNCHANGED faults PROVE SInv'
<1>1. Codes \subseteq Status
  BY ControlMasterAssumption DEF Status
<1>. QED
  BY <1>1, HavingRunSurvives DEF SessionEnds

LEMMA MuxEndsSurvives ==
    ASSUME IInv, SInv, NEW c \in Calls, MuxEnds(c), UNCHANGED faults PROVE SInv'
<1>1. call[c] \in Call /\ call[c].pc = "mux" /\ UNCHANGED <<path, master, deaths>>
  BY DEF MuxEnds, IInv, CallType
<1>2. Codes \subseteq Status /\ 255 \in Status
  BY ControlMasterAssumption DEF Status
<1>3. ASSUME NEW code \in Status, ExitsHavingRun(c, code) PROVE SInv'
  BY <1>1, <1>3, HavingRunSurvives
<1>4. CASE /\ ~Alive(call[c].through)
           /\ call' = [call EXCEPT ![c] = [@ EXCEPT !.pc = "exited", !.code = 255, !.noise = TRUE]]
  <2>. DEFINE r == [call[c] EXCEPT !.pc = "exited", !.code = 255, !.noise = TRUE]
  <2>1. /\ r \in Call /\ r.pc = "exited" /\ r.code = 255 /\ r.noise
        /\ r.tries = call[c].tries /\ r.target = call[c].target /\ r.arg = call[c].arg
    BY <1>1, GivesUp
  <2>2. call'[c] = r /\ \A d \in Calls \ {c} : call'[d] = call[d]
    BY <1>4, <2>1, Becomes
  <2>. HIDE DEF r
  <2>3. deaths >= 1
    BY <1>1, <1>4, DeadIsCounted DEF IInv, Attached
  <2>4. faults = {} /\ deaths <= 1 => call[c].tries = 1
    BY <1>1, <1>4 DEF SInv, Survives, Call
  <2>. QED
    BY <1>1, <2>1, <2>2, <2>3, <2>4, EndingSurvives
<1>. QED
  BY <1>2, <1>3, <1>4 DEF MuxEnds

LEMMA ConcludesSurvives ==
    ASSUME IInv, SInv, NEW c \in Calls, Concludes(c), UNCHANGED faults PROVE SInv'
<1>1. /\ call[c] \in Call /\ call[c].pc = "exited" /\ UNCHANGED <<path, master, deaths>>
      /\ Survives(c)
  BY DEF Concludes, IInv, CallType, SInv
<1>2. ASSUME NEW pc \in {"remove", "done"}, Goes(c, pc),
             pc = "remove" => ShouldRetry(c) /\ call[c].tries = 1,
             pc = "done" => ~(ShouldRetry(c) /\ call[c].tries = 1)
      PROVE  SInv'
  <2>1. pc \in Pcs
    BY DEF Pcs
  <2>2. /\ \A d \in Calls \ {c} : call'[d] = call[d]
        /\ call'[c].pc = pc /\ call'[c].target = call[c].target
        /\ call'[c].code = call[c].code /\ call'[c].tries = call[c].tries
        /\ call'[c].runs = call[c].runs /\ call'[c].arg = call[c].arg
        /\ call'[c].noise = call[c].noise
    BY <1>2, <2>1, GoesOn
  <2>3. call'[c].arg = "no" => At(c)' # Junk'
    BY <1>1, <2>2, QuietPath DEF Survives
  <2>4. Survives(c)'
    BY <1>1, <1>2, <2>2, <2>3 DEF Survives, ShouldRetry, Ran
  <2>. QED
    BY <1>1, <2>2, <2>4, QuietStep
<1>. QED
  BY <1>2 DEF Concludes

LEMMA RetriesSurvives ==
    ASSUME IInv, SInv, NEW c \in Calls, Retries(c), UNCHANGED faults PROVE SInv'
<1>1. /\ call[c] \in Call /\ call[c].pc = "remove" /\ UNCHANGED <<master, deaths>>
      /\ UNCHANGED path \/ Unlink(Key(call[c].target))
      /\ Survives(c)
  BY DEF Retries, IInv, CallType, SInv
<1>2. Survives(c) /\ deaths >= 1
  BY <1>1 DEF SInv, Survives
<1>3. CASE call' = [call EXCEPT ![c] = [@ EXCEPT !.pc = "ssh", !.tries = 2, !.noise = FALSE]]
  <2>. DEFINE r == [call[c] EXCEPT !.pc = "ssh", !.tries = 2, !.noise = FALSE]
  <2>1. /\ r \in Call /\ r.pc = "ssh" /\ ~r.noise /\ r.target = call[c].target
        /\ r.arg = call[c].arg
    BY <1>1, TriesAgain
  <2>2. call'[c] = r /\ \A d \in Calls \ {c} : call'[d] = call[d]
    BY <1>3, <2>1, Becomes
  <2>. HIDE DEF r
  <2>3. call'[c].arg = "no" => At(c)' # Junk'
    BY <1>1, <1>2, <2>1, <2>2, QuietPath DEF Survives
  <2>4. Survives(c)'
    BY <1>1, <1>2, <2>1, <2>2, <2>3 DEF Survives
  <2>. QED
    BY <1>1, <2>2, <2>4, QuietStep
<1>4. CASE "remove" \in faults /\ Goes(c, "done")
  <2>1. /\ \A d \in Calls \ {c} : call'[d] = call[d]
        /\ call'[c].pc = "done" /\ call'[c].target = call[c].target
        /\ call'[c].tries = call[c].tries /\ call'[c].arg = call[c].arg
        /\ call'[c].noise = call[c].noise
    BY <1>4, GoesOn DEF Pcs
  <2>2. call'[c].arg = "no" => At(c)' # Junk'
    BY <1>1, <1>2, <2>1, QuietPath DEF Survives
  <2>3. Survives(c)'
    BY <1>1, <1>2, <1>4, <2>1, <2>2 DEF Survives
  <2>. QED
    BY <1>1, <2>1, <2>3, QuietStep
<1>. QED
  BY <1>3, <1>4 DEF Retries

LEMMA SshConnectsSurvives ==
    ASSUME IInv, SInv, NEW c \in Calls, SshConnects(c), UNCHANGED faults PROVE SInv'
<1>. DEFINE t == call[c].target
<1>1. /\ call[c] \in Call /\ UNCHANGED deaths /\ Survives(c)
      /\ Key(t) \in Keys
  BY KeyInKeys DEF SshConnects, IInv, CallType, Call, SInv
<1>2. CASE "network" \in faults /\ Exits(c, 255, call[c].runs) /\ UNCHANGED <<path, master>>
  <2>. PICK runs \in Seq(Status) : runs = call[c].runs
    BY <1>1 DEF Call
  <2>. DEFINE r == [call[c] EXCEPT !.pc = "exited", !.code = 255, !.runs = runs]
  <2>1. /\ r \in Call /\ r.pc = "exited" /\ r.tries = call[c].tries /\ r.target = t
        /\ r.arg = call[c].arg /\ r.noise = call[c].noise
    <3>1. 255 \in Status
      BY DEF Status
    <3>. QED
      BY <1>1, <3>1 DEF Call, Pcs
  <2>2. call'[c] = r /\ \A d \in Calls \ {c} : call'[d] = call[d]
    BY <1>2, <2>1, Becomes DEF Exits
  <2>. HIDE DEF r
  <2>. QED
    BY <1>1, <1>2, <2>1, <2>2, EndingSurvives
<1>3. CASE Goes(c, "session") /\ UNCHANGED <<path, master>>
  BY <1>1, <1>3, GoesOn, QuietGoing DEF Pcs
<1>4. CASE /\ Goes(c, "session") /\ Len(master) < MaxMasters
           /\ master' = Append(master, [live |-> TRUE, target |-> t])
           /\ path' = [path EXCEPT ![Key(t)] = Len(master) + 1]
  <2>1. /\ \A d \in Calls \ {c} : call'[d] = call[d]
        /\ call'[c].pc = "session" /\ call'[c].target = t
        /\ call'[c].tries = call[c].tries /\ call'[c].arg = call[c].arg
        /\ call'[c].noise = call[c].noise
    BY <1>4, GoesOn DEF Pcs
  <2>2. /\ DOMAIN master = 1..Len(master) /\ DOMAIN master' = 1..(Len(master) + 1)
        /\ \A m \in 1..Len(master) : master'[m] = master[m]
        /\ master'[Len(master) + 1].live /\ Len(master) \in Nat
    BY <1>4 DEF IInv, MasterType, Master
  <2>3. /\ \A m \in DOMAIN master : m \in DOMAIN master' /\ master'[m] = master[m]
        /\ \A m \in DOMAIN master' \ DOMAIN master : master'[m].live
    BY <2>2
  <2>4. /\ \A k \in Keys : path'[k] \in {path[k]} \cup (0..MaxMasters)
        /\ At(c)' = Len(master) + 1
    BY <1>1, <1>4, <2>1, <2>2, ControlMasterAssumption DEF IInv, PathInv, At
  <2>5. At(c)' # Junk'
    BY <1>4, <2>2, <2>4, ControlMasterAssumption DEF Junk
  <2>6. Survives(c)'
    BY <1>1, <2>1, <2>5 DEF Survives
  <2>. QED
    BY <1>1, <2>1, <2>3, <2>4, <2>6, SurvivingStep
<1>. QED
  BY <1>2, <1>3, <1>4 DEF SshConnects

\* A second death takes the premise away; before the first no call has tried again.
LEMMA MasterEndsSurvives ==
    ASSUME IInv, SInv, NEW m \in 1..MaxMasters, MasterEnds(m), UNCHANGED faults PROVE SInv'
<1>1. deaths' = deaths + 1 /\ deaths \in Nat /\ UNCHANGED call
  BY DEF MasterEnds, IInv
<1>2. \A k \in Keys : path'[k] \in {path[k], Nothing}
  BY DEF MasterEnds, Unlink, IInv, PathInv
<1>3. ASSUME NEW c \in Calls PROVE Survives(c)'
  <2>1. Survives(c) /\ Key(call[c].target) \in Keys
    BY KeyInKeys DEF SInv, IInv, CallType, Call
  <2>2. call'[c].arg = "no" => At(c)' # Junk'
    BY <1>1, <1>2, <2>1, ControlMasterAssumption DEF Survives, At, Junk, Nothing
  <2>3. deaths' <= 1 => deaths <= 1 /\ call[c].tries # 2
    BY <1>1, <2>1 DEF Survives
  <2>. QED
    BY <1>1, <2>1, <2>2, <2>3 DEF Survives, Ran, ShouldRetry
<1>. QED
  BY <1>1, <1>3 DEF SInv, Counted

LEMMA NextSInv == IInv /\ SInv /\ [Next]_vars => SInv'
<1>1. ASSUME IInv, SInv, NEW c \in Calls, Step(c), UNCHANGED faults PROVE SInv'
  BY <1>1, StatsSurvives, DialsSurvives, UnlinksSurvives, SshLooksSurvives,
     SshConnectsSurvives, SessionEndsSurvives, MuxEndsSurvives, ConcludesSurvives,
     RetriesSurvives DEF Step
<1>2. ASSUME IInv, SInv, UNCHANGED vars PROVE SInv'
  BY <1>2 DEF vars, SInv, Counted, Survives, Ran, ShouldRetry, At, Junk, Alive
<1>. QED
  BY <1>1, <1>2, MasterEndsSurvives DEF Next

\* shouldRetryAfterControlSocketFailure is enough for one dead master, for any number of
\* calls and targets and whenever it dies: no call ends with the failure of its control
\* socket, and the status it reports is that of the command's last execution.
THEOREM StaleSocketAlwaysSurvived == Spec => []StaleSocketSurvived
<1>1. SInv => StaleSocketSurvived
  BY DEF SInv, StaleSocketSurvived, Survives, Ran
<1>. QED
  BY <1>1, InitSInv, NextSInv, Inductive, PTL DEF Spec
=============================================================================
