---------------------------- MODULE AuditLogProofs ----------------------------
(***************************************************************************)
(* Proofs about AuditLog, for any processes, ages, bounds and conditions.   *)
(* They assume that an append ends before a rotation takes up its file      *)
(* (ShortStall): a process stopped for days inside Append writes to a file  *)
(* that was compressed and removed meanwhile.  From there the name of a     *)
(* file of a closed day is never given to another inode (Steady); so a .gz  *)
(* file holds no more than its plain file does, and rotations that overlap  *)
(* compress the same lines.  In a behaviour without a full disk, and        *)
(* without a rotation that dies during another, every logged event is in    *)
(* the plain file of its day, in its .gz file, or about to be copied there  *)
(* (Kept).                                                                  *)
(***************************************************************************)
EXTENDS AuditLog, WellFoundedInduction, TLAPS

ShortStall == MaxStall <= (MaxAge - 1) * Slots + Offset

\* The dates of a range are read in UTC, the names of the files are local dates: a
\* query agrees with itself in UTC, or if it is given no range.
SameClock == Offset = 0 \/ Bounds = {}

EventDay(e) == LocalDay(stamp[e])
LoggerDay(l) == EventDay(logger[l].event)
Lines(d) == IF plain[d] = 0 THEN {} ELSE data[plain[d]].lines

\* Old enough to be rotated, or deleted.
Closed(d) == Midnight(d) + MaxAge * Slots <= now
Dead(d) == DeleteAge # 0 /\ Midnight(d) < now - DeleteAge * Slots

Working == {"create", "copy", "remove"}
On(r, d) == rotator[r].pc \in Working /\ rotator[r].day = d

Log == [pc : {"idle", "open", "write"}, event : 0..Len(stamp), inode : 0..Len(data)]
Rotation == [pc : {"idle", "rotate", "create", "copy", "remove", "delete", "done"},
             todo : SUBSET Days, cutoff : Int, day : Days, inode : 0..Len(data)]
QueryState == [pc : {"idle", "glob", "read", "done"},
          since : Bounds \cup {Unset}, until : Bounds \cup {Unset},
          plain : SUBSET Days, gz : SUBSET Days, found : SUBSET Events]
Gzipped == [state : {"absent", "partial", "whole"}, events : SUBSET Events]
File == [lines : SUBSET Events, torn : BOOLEAN]

Shape ==
    /\ now \in 0..MaxTime
    /\ stamp \in Seq(0..MaxTime) /\ Len(stamp) <= MaxEvents
    /\ logged \subseteq Events
    /\ data \in Seq(File)
    /\ plain \in [Days -> 0..Len(data)]
    /\ gz \in [Days -> Gzipped]
    /\ logger \in [Loggers -> Log]
    /\ rotator \in [Rotators -> Rotation]
    /\ reader \in [Readers -> QueryState]

Typed == Shape /\ due \in [Readers -> SUBSET Events] /\ faults \in Environments

\* A process inside Append has an event, and has not been there for long; what it
\* has opened is an inode.
InAppend ==
    \A l \in Loggers : logger[l].pc # "idle" =>
        /\ logger[l].event # 0
        /\ now - stamp[logger[l].event] <= MaxStall
        /\ logger[l].pc = "write" => logger[l].inode # 0

\* A cutoff was computed from a time that has been.
Cutoffs ==
    \A r \in Rotators :
        /\ rotator[r].pc \in {"rotate"} \cup Working =>
              rotator[r].cutoff <= now - MaxAge * Slots
        /\ rotator[r].pc = "delete" =>
              DeleteAge # 0 /\ rotator[r].cutoff <= now - DeleteAge * Slots
        /\ rotator[r].pc \in Working => Closed(rotator[r].day) /\ rotator[r].inode # 0

\* Every inode has been the file of one day.
Filed(own) ==
    /\ \A i \in DOMAIN data : \A e \in data[i].lines : EventDay(e) = own[i]
    /\ \A d \in Days : plain[d] # 0 => own[plain[d]] = d
    /\ \A d \in Days : \A e \in gz[d].events : EventDay(e) = d
    /\ \A l \in Loggers : logger[l].pc = "write" => own[logger[l].inode] = LoggerDay(l)
    /\ \A r \in Rotators : rotator[r].pc \in Working => own[rotator[r].inode] = rotator[r].day

Filing == \E own \in [DOMAIN data -> Days] : Filed(own)

\* Once its day is closed the name of a file is not given to another inode.
Steady ==
    \A d \in Days :
        /\ gz[d].state # "absent" => Closed(d)
        /\ gz[d].state # "whole" => gz[d].events = {}
        /\ plain[d] # 0 => gz[d].events \subseteq Lines(d)
        /\ \A r \in Rotators : On(r, d) =>
              /\ plain[d] \in {0, rotator[r].inode}
              /\ gz[d].events \subseteq data[rotator[r].inode].lines
              /\ \A s \in Rotators : On(s, d) => rotator[s].inode = rotator[r].inode

\* Without "overlap" one rotation runs at a time, and the file it is at has its name.
Alone ==
    "overlap" \notin faults =>
        \A r \in Rotators :
            /\ rotator[r].pc # "idle" =>
                  \A s \in Rotators : rotator[s].pc # "idle" => s = r
            /\ rotator[r].pc \in Working => plain[rotator[r].day] = rotator[r].inode

Sound == "full" \notin faults /\ ~({"crash", "overlap"} \subseteq faults)

Compressing(d) == \E s \in Rotators : On(s, d) /\ rotator[s].pc = "copy"

\* Where a logged event of a day that is kept can be.
Held(e) ==
    LET d == EventDay(e) IN
    /\ plain[d] # 0 => e \in Lines(d)
    /\ plain[d] = 0 => Closed(d) /\ (e \in gz[d].events \/ Compressing(d))
    /\ \A r \in Rotators : On(r, d) =>
          /\ e \in data[rotator[r].inode].lines
          /\ rotator[r].pc = "remove" => e \in gz[d].events \/ Compressing(d)

Kept ==
    Sound =>
        /\ \A i \in DOMAIN data : ~data[i].torn
        /\ \A l \in Loggers : logger[l].pc = "write" /\ ~Dead(LoggerDay(l)) =>
              plain[LoggerDay(l)] = logger[l].inode
        /\ \A e \in logged : ~Dead(EventDay(e)) => Held(e)

IInv == Typed /\ InAppend /\ Cutoffs /\ Filing /\ Steady /\ Alone /\ Kept

\* What a query owes can be read now, was globbed where it is now, and is found
\* once that file has been read.
Wanted(q, e) == Matches(e, reader[q].since, reader[q].until)

Owed ==
    \A q \in Readers :
        /\ reader[q].pc = "idle" => due[q] = {}
        /\ due[q] \subseteq Readable
        /\ \A e \in due[q] :
             LET d == EventDay(e) IN
             /\ reader[q].pc = "glob" => d \in reader[q].plain \/ plain[d] = 0
             /\ reader[q].pc = "read" /\ Wanted(q, e) =>
                  \/ e \in reader[q].found
                  \/ d \in reader[q].plain
                  \/ plain[d] = 0 /\ d \in reader[q].gz
             /\ reader[q].pc = "done" /\ Wanted(q, e) => e \in reader[q].found

-----------------------------------------------------------------------------
(* Time and days *)

\* The slots before a local day ends, and before it begins.
LEMMA DayFacts ==
    \A t \in 0..MaxTime :
        /\ LocalDay(t) \in Days
        /\ LocalDay(t) * Slots <= t + Slots + Offset
        /\ t + Slots + Offset < (LocalDay(t) + 1) * Slots
<1>. SUFFICES ASSUME NEW t \in 0..MaxTime
     PROVE  /\ LocalDay(t) \in Days
            /\ LocalDay(t) * Slots <= t + Slots + Offset
            /\ t + Slots + Offset < (LocalDay(t) + 1) * Slots
  OBVIOUS
<1>0. Slots \in Nat /\ Slots > 0 /\ Offset \in Int /\ Offset > -Slots /\ MaxTime \in Nat
  BY AuditLogAssumption
<1>1. ASSUME NEW x \in Nat
      PROVE  /\ x \div Slots \in Nat
             /\ (x \div Slots) * Slots <= x /\ x < ((x \div Slots) + 1) * Slots
  BY <1>0
<1>2. ASSUME NEW x \in Nat, NEW y \in Nat, x <= y
      PROVE  x \div Slots <= y \div Slots
  <2>. DEFINE a == x \div Slots
              b == y \div Slots
  <2>1. a \in Nat /\ b \in Nat /\ a * Slots <= x /\ y < (b + 1) * Slots
    BY <1>1
  <2>. HIDE DEF a, b
  <2>2. a * Slots < (b + 1) * Slots
    BY <2>1, <1>0, <1>2
  <2>3. ASSUME a >= b + 1 PROVE FALSE
    <3>1. PICK k \in Nat : a = b + 1 + k
      BY <2>1, <2>3
    <3>2. a * Slots = (b + 1) * Slots + k * Slots /\ k * Slots \in Nat
      BY <3>1, <2>1, <1>0
    <3>3. (b + 1) * Slots \in Nat
      BY <2>1, <1>0
    <3>. QED
      BY <3>2, <3>3, <2>2
  <2>. QED
    BY <2>1, <2>3 DEF a, b
<1>3. t + Slots + Offset \in Nat /\ MaxTime + Slots + Offset \in Nat
      /\ t + Slots + Offset <= MaxTime + Slots + Offset
  BY <1>0
<1>. QED
  BY <1>1, <1>2, <1>3 DEF LocalDay, Days, FirstDay, LastDay

LEMMA DayTypes ==
    /\ LastDay \in Nat /\ 0 \in Days /\ Days \subseteq Nat /\ Unset \in Nat
    /\ \A d \in Days : Midnight(d) \in Int
    /\ MaxAge * Slots \in Nat /\ DeleteAge * Slots \in Nat /\ MaxTime \in Nat
    /\ MaxEvents \in Nat /\ MaxStall \in Nat /\ Slots \in Nat /\ Slots > 0
<1>1. LastDay \in Nat
  BY DayFacts, AuditLogAssumption DEF LastDay, Days, FirstDay
<1>. QED
  BY <1>1, AuditLogAssumption DEF Days, FirstDay, Midnight, Unset

\* The day of an event is not closed while its append is allowed to take.
LEMMA OpenDay ==
    ASSUME ShortStall, NEW t \in 0..MaxTime, NEW m \in Int, m - t <= MaxStall
    PROVE  Midnight(LocalDay(t)) + MaxAge * Slots > m
<1>. DEFINE d == LocalDay(t)
<1>1. d \in Nat /\ t + Slots + Offset < (d + 1) * Slots
  BY DayFacts, DayTypes
<1>. HIDE DEF d
<1>2. Slots \in Nat /\ MaxAge \in Nat /\ Offset \in Int /\ MaxStall \in Nat
  BY AuditLogAssumption
<1>3. MaxStall <= MaxAge * Slots - Slots + Offset
  BY <1>2 DEF ShortStall
<1>4. (d + 1) * Slots = d * Slots + Slots /\ (d - 1) * Slots = d * Slots - Slots
  BY <1>1, <1>2
<1>5. d * Slots \in Int /\ MaxAge * Slots \in Int
  BY <1>1, <1>2
<1>6. d * Slots - Slots + MaxAge * Slots > m
  BY <1>1, <1>2, <1>3, <1>4, <1>5
<1>. QED
  BY <1>4, <1>6 DEF Midnight, d

-----------------------------------------------------------------------------
(* Types *)

LEMMA SeqMono ==
    ASSUME NEW S, NEW T, S \subseteq T, NEW s \in Seq(S) PROVE s \in Seq(T)
OBVIOUS

LEMMA ElementOfSeq ==
    ASSUME NEW S, NEW s \in Seq(S), NEW i \in 1..Len(s) PROVE s[i] \in S
OBVIOUS

LEMMA ReplaceInSeq ==
    ASSUME NEW S, NEW s \in Seq(S), NEW i \in 1..Len(s), NEW x \in S
    PROVE  [s EXCEPT ![i] = x] \in Seq(S) /\ Len([s EXCEPT ![i] = x]) = Len(s)
OBVIOUS

LEMMA Records ==
    /\ NoLog \in Log
    /\ NoRotation \in Rotation
    /\ NoQuery \in QueryState
    /\ Absent \in Gzipped /\ Partial \in Gzipped
    /\ \A es \in SUBSET Events : Whole(es) \in Gzipped
<1>1. NoRotation \in Rotation
  BY DayTypes DEF NoRotation, Rotation
<1>2. NoLog \in Log
  BY DEF NoLog, Log
<1>3. NoQuery \in QueryState
  BY DEF NoQuery, QueryState
<1>. QED
  BY <1>1, <1>2, <1>3 DEF Absent, Partial, Whole, Gzipped

\* What is written, globbed or compressed has the right type.
LEMMA Pieces ==
    ASSUME Shape
    PROVE  /\ \A r \in Rotators : /\ rotator[r] \in Rotation
                                  /\ rotator[r].todo \subseteq Days
                                  /\ rotator[r].day \in Days /\ rotator[r].inode \in 0..Len(data)
                                  /\ rotator[r].cutoff \in Int
           /\ \A l \in Loggers : /\ logger[l] \in Log
                                 /\ logger[l].event \in 0..Len(stamp)
                                 /\ logger[l].inode \in 0..Len(data)
           /\ \A q \in Readers : /\ reader[q] \in QueryState
                                 /\ reader[q].found \subseteq Events
                                 /\ reader[q].plain \subseteq Days /\ reader[q].gz \subseteq Days
           /\ \A d \in Days : gz[d] \in Gzipped /\ gz[d].events \subseteq Events
                              /\ plain[d] \in 0..Len(data)
           /\ Len(data) \in Nat /\ Len(stamp) \in Nat
           /\ DOMAIN data = 1..Len(data) /\ Events = 1..Len(stamp)
           /\ \A i \in 1..Len(data) : data[i] \in File /\ data[i].lines \subseteq Events
                                      /\ data[i].torn \in BOOLEAN
           /\ \A e \in Events : stamp[e] \in 0..MaxTime /\ EventDay(e) \in Days
<1>1. /\ rotator \in [Rotators -> Rotation] /\ logger \in [Loggers -> Log]
      /\ reader \in [Readers -> QueryState] /\ gz \in [Days -> Gzipped]
      /\ plain \in [Days -> 0..Len(data)] /\ data \in Seq(File) /\ stamp \in Seq(0..MaxTime)
  BY DEF Shape
<1>2. \A r \in Rotators : /\ rotator[r] \in Rotation
                          /\ rotator[r].todo \subseteq Days
                          /\ rotator[r].day \in Days /\ rotator[r].inode \in 0..Len(data)
                          /\ rotator[r].cutoff \in Int
  BY <1>1 DEF Rotation
<1>3. \A l \in Loggers : /\ logger[l] \in Log
                         /\ logger[l].event \in 0..Len(stamp)
                         /\ logger[l].inode \in 0..Len(data)
  BY <1>1 DEF Log
<1>4. \A q \in Readers : /\ reader[q] \in QueryState
                         /\ reader[q].found \subseteq Events
                         /\ reader[q].plain \subseteq Days /\ reader[q].gz \subseteq Days
  BY <1>1 DEF QueryState
<1>5. \A d \in Days : gz[d] \in Gzipped /\ gz[d].events \subseteq Events
                      /\ plain[d] \in 0..Len(data)
  BY <1>1 DEF Gzipped
<1>6. /\ Len(data) \in Nat /\ Len(stamp) \in Nat
      /\ DOMAIN data = 1..Len(data) /\ Events = 1..Len(stamp)
  BY <1>1 DEF Events
<1>7. \A i \in 1..Len(data) : data[i] \in File
  BY <1>1, <1>6
<1>8. \A i \in 1..Len(data) : data[i].lines \subseteq Events /\ data[i].torn \in BOOLEAN
  BY <1>7 DEF File
<1>9. \A e \in Events : stamp[e] \in 0..MaxTime
  BY <1>1, <1>6, ElementOfSeq
<1>10. \A e \in Events : EventDay(e) \in Days
  BY <1>9, DayFacts DEF EventDay
<1>. QED
  BY <1>2, <1>3, <1>4, <1>5, <1>6, <1>7, <1>8, <1>9, <1>10

\* The events and the inodes grow.
LEMMA ShapeGrows ==
    ASSUME Shape, stamp' = stamp \/ stamp' = Append(stamp, now)
    PROVE  /\ Events \subseteq Events' /\ logged \subseteq Events'
           /\ data \in Seq(File') /\ gz \in [Days -> Gzipped'] /\ reader \in [Readers -> QueryState']
           /\ Len(stamp)' \in Nat /\ Len(stamp) <= Len(stamp)'
           /\ \A e \in Events : stamp'[e] = stamp[e] /\ EventDay(e)' = EventDay(e)
<1>1. stamp \in Seq(0..MaxTime) /\ logged \subseteq Events /\ data \in Seq(File)
      /\ gz \in [Days -> Gzipped] /\ reader \in [Readers -> QueryState] /\ now \in 0..MaxTime
  BY DEF Shape
<1>2. /\ Len(stamp)' \in Nat /\ Len(stamp) <= Len(stamp)' /\ Events \subseteq Events'
      /\ \A e \in Events : stamp'[e] = stamp[e]
  <2>1. CASE stamp' = stamp
    BY <2>1, <1>1 DEF Events
  <2>2. CASE stamp' = Append(stamp, now)
    BY <2>2, <1>1 DEF Events
  <2>. QED
    BY <2>1, <2>2
<1>3. File \subseteq File' /\ Gzipped \subseteq Gzipped' /\ QueryState \subseteq QueryState'
  BY <1>2 DEF File, Gzipped, QueryState
<1>4. data \in Seq(File')
  BY <1>1, <1>3, SeqMono
<1>5. gz \in [Days -> Gzipped'] /\ reader \in [Readers -> QueryState']
  BY <1>1, <1>3
<1>. QED
  BY <1>1, <1>2, <1>4, <1>5 DEF EventDay

LEMMA TickShape ==
    ASSUME Shape, Tick PROVE Shape'
<1>1. now' \in 0..MaxTime
  BY DayTypes DEF Shape, Tick
<1>2. UNCHANGED <<stamp, logged, data, plain, gz, logger, rotator, reader>>
  BY DEF Tick
<1>. QED
  BY <1>1, <1>2 DEF Shape, Events, Gzipped, File, Log, Rotation, QueryState

\* The actions of a process inside Append.
LEMMA LoggerShape ==
    ASSUME Shape, InAppend, NEW l \in Loggers,
           LogBegins(l) \/ LogOpens(l) \/ LogWrites(l) \/ LoggerCrashes(l)
    PROVE  Shape'
<1>0. /\ logger \in [Loggers -> Log] /\ plain \in [Days -> 0..Len(data)] /\ data \in Seq(File)
      /\ rotator \in [Rotators -> Rotation] /\ Len(data) \in Nat /\ Len(stamp) \in Nat
      /\ stamp \in Seq(0..MaxTime) /\ now \in 0..MaxTime /\ Len(stamp) <= MaxEvents
      /\ gz \in [Days -> Gzipped] /\ reader \in [Readers -> QueryState] /\ logged \subseteq Events
  BY Pieces DEF Shape
<1>1. CASE LogBegins(l)
  <2>1. stamp' = Append(stamp, now) /\ Len(stamp) < MaxEvents
        /\ logger' = [logger EXCEPT ![l] = [pc |-> "open", event |-> Len(stamp) + 1, inode |-> 0]]
        /\ UNCHANGED <<now, logged, data, plain, gz, rotator, reader>>
    BY <1>1 DEF LogBegins
  <2>2. stamp' \in Seq(0..MaxTime) /\ Len(stamp)' = Len(stamp) + 1 /\ Len(stamp)' <= MaxEvents
    BY <2>1, <1>0, DayTypes
  <2>3. Log \subseteq Log'
    BY <2>1, <2>2, <1>0 DEF Log
  <2>4. [pc |-> "open", event |-> Len(stamp) + 1, inode |-> 0] \in Log'
    BY <2>1, <2>2, <1>0 DEF Log
  <2>5. logger' \in [Loggers -> Log']
    BY <2>1, <2>3, <2>4, <1>0
  <2>6. /\ logged' \subseteq Events' /\ data' \in Seq(File') /\ gz' \in [Days -> Gzipped']
        /\ reader' \in [Readers -> QueryState']
    BY <2>1, ShapeGrows
  <2>7. rotator' \in [Rotators -> Rotation']
    BY <2>1, <1>0 DEF Rotation
  <2>. QED
    BY <2>1, <2>2, <2>5, <2>6, <2>7, <1>0 DEF Shape
<1>2. CASE LogOpens(l)
  <2>. DEFINE d == LocalDay(stamp[logger[l].event])
              f == [lines |-> {}, torn |-> FALSE]
  <2>0. UNCHANGED <<now, stamp, logged, gz, rotator, reader>> /\ UNCHANGED Events
    BY <1>2 DEF LogOpens, Events
  <2>1. d \in Days
    BY <1>2, Pieces DEF LogOpens, InAppend, EventDay
  <2>2. plain[d] \in 0..Len(data)
    BY <2>1, Pieces
  <2>3. CASE plain[d] # 0
    <3>1. /\ logger' = [logger EXCEPT ![l].pc = "write", ![l].inode = plain[d]]
          /\ UNCHANGED <<data, plain>>
      BY <1>2, <2>3 DEF LogOpens
    <3>2. logger' \in [Loggers -> Log]
      BY <3>1, <2>2, <1>0 DEF Log
    <3>. QED
      BY <3>1, <3>2, <2>0, <1>0 DEF Shape, Log, Rotation, Gzipped, QueryState, File
  <2>4. CASE plain[d] = 0
    <3>1. /\ data' = Append(data, f)
          /\ plain' = [plain EXCEPT ![d] = Len(data) + 1]
          /\ logger' = [logger EXCEPT ![l].pc = "write", ![l].inode = Len(data) + 1]
      BY <1>2, <2>4 DEF LogOpens
    <3>2. f \in File
      BY DEF File
    <3>3. data' \in Seq(File) /\ Len(data)' = Len(data) + 1
      BY <3>1, <3>2, <1>0
    <3>4. Log \subseteq Log' /\ Rotation \subseteq Rotation'
      BY <3>3, <2>0, <1>0 DEF Log, Rotation
    <3>5. logger[l] \in Log' /\ Len(data) + 1 \in 0..Len(data)'
      BY <3>3, <3>4, <1>0
    <3>6. [logger[l] EXCEPT !.pc = "write", !.inode = Len(data) + 1] \in Log'
      BY <3>5 DEF Log
    <3>7. logger' \in [Loggers -> Log'] /\ rotator' \in [Rotators -> Rotation']
      BY <3>1, <3>4, <3>6, <2>0, <1>0
    <3>8. plain' \in [Days -> 0..Len(data)']
      <4>1. \A x \in Days : plain[x] \in 0..Len(data)' /\ Len(data) + 1 \in 0..Len(data)'
        BY <3>3, <1>0
      <4>. QED
        BY <4>1, <3>1, <1>0
    <3>9. data' \in Seq(File') /\ gz' \in [Days -> Gzipped'] /\ reader' \in [Readers -> QueryState']
          /\ logged' \subseteq Events'
      BY <3>3, <2>0, <1>0 DEF File, Gzipped, QueryState
    <3>. QED
      BY <3>7, <3>8, <3>9, <2>0, <1>0 DEF Shape
  <2>. QED
    BY <2>3, <2>4
<1>3. CASE LogWrites(l)
  <2>. DEFINE i == logger[l].inode
              e == logger[l].event
              fs == {data, [data EXCEPT ![i].torn = TRUE],
                     [data EXCEPT ![i] = [lines |-> IF @.torn THEN @.lines ELSE @.lines \cup {e},
                                          torn |-> FALSE]]}
  <2>1. e \in Events /\ i \in 1..Len(data)
    BY <1>3, Pieces DEF LogWrites, InAppend
  <2>2. data[i] \in File /\ data[i].lines \subseteq Events
    BY <2>1, Pieces
  <2>3. data' \in fs /\ logged' \in {logged, logged \cup {e}}
        /\ logger' = [logger EXCEPT ![l] = NoLog]
        /\ UNCHANGED <<now, stamp, plain, gz, rotator, reader>>
    BY <1>3 DEF LogWrites
  <2>4. [lines |-> IF data[i].torn THEN data[i].lines ELSE data[i].lines \cup {e},
         torn |-> FALSE] \in File
        /\ [data[i] EXCEPT !.torn = TRUE] \in File
    BY <2>1, <2>2 DEF File
  <2>5. data' \in Seq(File) /\ Len(data)' = Len(data)
    <3>. DEFINE a == [data[i] EXCEPT !.torn = TRUE]
                b == [lines |-> IF data[i].torn THEN data[i].lines ELSE data[i].lines \cup {e},
                      torn |-> FALSE]
    <3>0. fs = {data, [data EXCEPT ![i] = a], [data EXCEPT ![i] = b]}
      OBVIOUS
    <3>1. a \in File /\ b \in File
      BY <2>4
    <3>. HIDE DEF a, b, fs, i
    <3>2. \A x \in File : [data EXCEPT ![i] = x] \in Seq(File) /\ Len([data EXCEPT ![i] = x]) = Len(data)
      BY <2>1, <1>0, ReplaceInSeq
    <3>3. \A g \in fs : g \in Seq(File) /\ Len(g) = Len(data)
      BY <3>0, <3>1, <3>2, <1>0
    <3>. QED
      BY <3>3, <2>3
  <2>6. logger' \in [Loggers -> Log]
    BY <2>3, <1>0, Records
  <2>7. logged' \subseteq Events
    BY <2>1, <2>3, <1>0
  <2>8. UNCHANGED <<Events, Log, Rotation, Gzipped, QueryState, File>>
    BY <2>3, <2>5 DEF Events, Log, Rotation, Gzipped, QueryState, File
  <2>. QED
    BY <2>3, <2>5, <2>6, <2>7, <2>8, <1>0 DEF Shape
<1>4. CASE LoggerCrashes(l)
  <2>1. logger' = [logger EXCEPT ![l] = NoLog]
        /\ UNCHANGED <<now, stamp, logged, data, plain, gz, rotator, reader>>
    BY <1>4 DEF LoggerCrashes
  <2>2. logger' \in [Loggers -> Log]
    BY <2>1, <1>0, Records
  <2>. QED
    BY <2>1, <2>2, <1>0 DEF Shape, Events, Log, Rotation, Gzipped, QueryState, File
<1>. QED
  BY <1>1, <1>2, <1>3, <1>4

\* The earliest of the files that are left.
LEMMA EarliestIn ==
    ASSUME NEW ds \in SUBSET Days, ds # {} PROVE Earliest(ds) \in ds
<1>1. ds \subseteq Nat
  BY DayTypes
<1>2. PICK m \in ds : \A k \in ds : <<k, m>> \notin OpToRel(<, Nat)
  BY <1>1, NatLessThanWellFounded, WFMin
<1>3. ASSUME NEW k \in ds PROVE m <= k
  <2>1. k \in Nat /\ m \in Nat /\ ~(k < m)
    BY <1>1, <1>2 DEF OpToRel
  <2>. QED
    BY <2>1
<1>. QED
  BY <1>3 DEF Earliest

RotatorStep(r) ==
    \/ RotateBegins(r) \/ RotateOpens(r) \/ RotateCreates(r) \/ RotateCopies(r)
    \/ RotateRemoves(r) \/ DeleteBegins(r) \/ DeleteRemoves(r) \/ DeleteEnds(r)
    \/ RotatorExits(r) \/ RotatorCrashes(r)

\* What a step of rotation r does to its own state, to the names and to the .gz files.
Moves(r, x) == x \in Rotation /\ rotator' = [rotator EXCEPT ![r] = x]
FilesStay == plain' = plain /\ gz' = gz
RotatorFrame == UNCHANGED <<now, stamp, logged, data, logger, reader>>

LEMMA Begins ==
    ASSUME Shape, NEW r \in Rotators, RotateBegins(r)
    PROVE  /\ RotatorFrame /\ FilesStay /\ rotator[r].pc = "idle"
           /\ "overlap" \in faults \/ \A s \in Rotators : rotator[s].pc = "idle"
           /\ \E x : Moves(r, x) /\ x.pc = "rotate" /\ x.cutoff = now - MaxAge * Slots
<1>. DEFINE x == [NoRotation EXCEPT !.pc = "rotate", !.cutoff = now - MaxAge * Slots,
                                    !.todo = {d \in Days : plain[d] # 0}]
<1>1. now - MaxAge * Slots \in Int
  BY DayTypes DEF Shape
<1>2. x \in Rotation /\ x.pc = "rotate" /\ x.cutoff = now - MaxAge * Slots
  BY <1>1, Records DEF Rotation, NoRotation
<1>3. rotator' = [rotator EXCEPT ![r] = x]
  BY DEF RotateBegins
<1>. HIDE DEF x
<1>. QED
  BY <1>2, <1>3 DEF RotateBegins, RotatorFrame, FilesStay, Moves

LEMMA Opens ==
    ASSUME Shape, NEW r \in Rotators, RotateOpens(r)
    PROVE  /\ RotatorFrame /\ FilesStay /\ rotator[r].pc = "rotate"
           /\ \E x : /\ Moves(r, x) /\ x.cutoff = rotator[r].cutoff
                     /\ \/ x.pc = "rotate"
                        \/ /\ x.pc = "create" /\ x.day \in Days
                           /\ Midnight(x.day) <= rotator[r].cutoff
                           /\ plain[x.day] # 0 /\ x.inode = plain[x.day]
<1>. DEFINE d == Earliest(rotator[r].todo)
            rest == rotator[r].todo \ {d}
            x == [rotator[r] EXCEPT !.todo = rest]
            y == [rotator[r] EXCEPT !.pc = "create", !.todo = rest, !.day = d,
                                    !.inode = plain[d]]
<1>1. d \in Days
  BY EarliestIn, Pieces DEF RotateOpens
<1>0. rotator \in [Rotators -> Rotation]
  BY DEF Shape
<1>2. rotator[r] \in Rotation /\ rotator[r].cutoff \in Int /\ Midnight(d) \in Int
      /\ plain[d] \in 0..Len(data)
  BY <1>1, Pieces, DayTypes
<1>3. x \in Rotation /\ x.pc = rotator[r].pc /\ x.cutoff = rotator[r].cutoff
  BY <1>2 DEF Rotation
<1>4. y \in Rotation /\ y.pc = "create" /\ y.cutoff = rotator[r].cutoff /\ y.day = d
      /\ y.inode = plain[d]
  BY <1>1, <1>2 DEF Rotation
<1>5. rotator' = [rotator EXCEPT ![r] =
            IF Midnight(d) > rotator[r].cutoff \/ plain[d] = 0 THEN x ELSE y]
  BY <1>0 DEF RotateOpens
<1>6. RotatorFrame /\ FilesStay /\ rotator[r].pc = "rotate"
  BY DEF RotateOpens, RotatorFrame, FilesStay
<1>. HIDE DEF x, y, d
<1>7. CASE Midnight(d) > rotator[r].cutoff \/ plain[d] = 0
  BY <1>3, <1>5, <1>6, <1>7 DEF Moves
<1>8. CASE ~(Midnight(d) > rotator[r].cutoff \/ plain[d] = 0)
  <2>1. Moves(r, y)
    BY <1>4, <1>5, <1>8 DEF Moves
  <2>2. Midnight(d) <= rotator[r].cutoff /\ plain[d] # 0
    BY <1>2, <1>8
  <2>. QED
    BY <1>1, <1>4, <1>6, <2>1, <2>2
<1>. QED
  BY <1>7, <1>8

\* The same rotation, at another point.
At(r, pc) == [rotator[r] EXCEPT !.pc = pc]

LEMMA AtFacts ==
    ASSUME Shape, NEW r \in Rotators,
           NEW pc \in {"idle", "rotate", "create", "copy", "remove", "delete", "done"}
    PROVE  /\ At(r, pc) \in Rotation /\ At(r, pc).pc = pc
           /\ At(r, pc).todo = rotator[r].todo /\ At(r, pc).cutoff = rotator[r].cutoff
           /\ At(r, pc).day = rotator[r].day /\ At(r, pc).inode = rotator[r].inode
           /\ Goes(r, pc) => Moves(r, At(r, pc))
<1>1. rotator \in [Rotators -> Rotation] /\ rotator[r] \in Rotation
  BY Pieces DEF Shape
<1>2. At(r, pc) \in Rotation /\ At(r, pc).pc = pc
      /\ At(r, pc).todo = rotator[r].todo /\ At(r, pc).cutoff = rotator[r].cutoff
      /\ At(r, pc).day = rotator[r].day /\ At(r, pc).inode = rotator[r].inode
  BY <1>1 DEF At, Rotation
<1>3. Goes(r, pc) => rotator' = [rotator EXCEPT ![r] = At(r, pc)]
  BY <1>1 DEF Goes, At
<1>. QED
  BY <1>2, <1>3 DEF Moves

LEMMA Creates ==
    ASSUME Shape, NEW r \in Rotators, RotateCreates(r)
    PROVE  /\ RotatorFrame /\ rotator[r].pc = "create" /\ plain' = plain
           /\ \/ Moves(r, At(r, "copy")) /\ gz' = [gz EXCEPT ![rotator[r].day] = Partial]
              \/ Moves(r, At(r, "rotate")) /\ gz' = gz
BY AtFacts DEF RotateCreates, RotatorFrame

LEMMA Copies ==
    ASSUME Shape, NEW r \in Rotators, RotateCopies(r)
    PROVE  /\ RotatorFrame /\ rotator[r].pc = "copy" /\ plain' = plain
           /\ \/ /\ Moves(r, At(r, "remove"))
                 /\ gz' = [gz EXCEPT ![rotator[r].day] =
                              Compressed(gz[rotator[r].day], data[rotator[r].inode].lines)]
              \/ /\ "full" \in faults /\ gz' = gz
                 /\ Moves(r, At(r, "remove")) \/ Moves(r, At(r, "rotate"))
BY AtFacts DEF RotateCopies, RotatorFrame

LEMMA Removes ==
    ASSUME Shape, NEW r \in Rotators, RotateRemoves(r)
    PROVE  /\ RotatorFrame /\ rotator[r].pc = "remove" /\ gz' = gz
           /\ plain' = [plain EXCEPT ![rotator[r].day] = 0] /\ Moves(r, At(r, "rotate"))
BY AtFacts DEF RotateRemoves, RotatorFrame

LEMMA BeginsDeletion ==
    ASSUME Shape, NEW r \in Rotators, DeleteBegins(r)
    PROVE  /\ RotatorFrame /\ FilesStay /\ rotator[r].pc = "rotate"
           /\ \E x : /\ Moves(r, x)
                     /\ \/ x.pc = "done"
                        \/ /\ x.pc = "delete" /\ DeleteAge # 0
                           /\ x.cutoff = now - DeleteAge * Slots
<1>. DEFINE x == [NoRotation EXCEPT !.pc = "done"]
            y == [NoRotation EXCEPT !.pc = "delete", !.cutoff = now - DeleteAge * Slots,
                                    !.todo = {d \in Days : plain[d] # 0}]
<1>1. now - DeleteAge * Slots \in Int
  BY DayTypes DEF Shape
<1>2. /\ x \in Rotation /\ x.pc = "done"
      /\ y \in Rotation /\ y.pc = "delete" /\ y.cutoff = now - DeleteAge * Slots
  BY <1>1, Records DEF Rotation, NoRotation
<1>3. rotator' = [rotator EXCEPT ![r] = IF DeleteAge = 0 THEN x ELSE y]
  BY DEF DeleteBegins
<1>4. RotatorFrame /\ FilesStay /\ rotator[r].pc = "rotate"
  BY DEF DeleteBegins, RotatorFrame, FilesStay
<1>. HIDE DEF x, y
<1>5. CASE DeleteAge = 0
  BY <1>2, <1>3, <1>4, <1>5 DEF Moves
<1>6. CASE DeleteAge # 0
  BY <1>2, <1>3, <1>4, <1>6 DEF Moves
<1>. QED
  BY <1>5, <1>6

LEMMA Deletes ==
    ASSUME Shape, NEW r \in Rotators, DeleteRemoves(r)
    PROVE  /\ RotatorFrame /\ gz' = gz /\ rotator[r].pc = "delete"
           /\ \E x : Moves(r, x) /\ x.pc = "delete" /\ x.cutoff = rotator[r].cutoff
           /\ \/ plain' = plain
              \/ \E d \in Days : /\ Midnight(d) < rotator[r].cutoff
                                 /\ plain' = [plain EXCEPT ![d] = 0]
<1>. DEFINE d == Earliest(rotator[r].todo)
            x == [rotator[r] EXCEPT !.todo = @ \ {d}]
<1>1. d \in Days
  BY EarliestIn, Pieces DEF DeleteRemoves
<1>2. rotator[r] \in Rotation
  BY Pieces
<1>3. x \in Rotation /\ x.pc = rotator[r].pc /\ x.cutoff = rotator[r].cutoff
  BY <1>2 DEF Rotation
<1>4. rotator' = [rotator EXCEPT ![r] = x]
  BY DEF DeleteRemoves, Shape
<1>5. RotatorFrame /\ gz' = gz /\ rotator[r].pc = "delete"
  BY DEF DeleteRemoves, RotatorFrame
<1>6. \/ plain' = plain
      \/ Midnight(d) < rotator[r].cutoff /\ plain' = [plain EXCEPT ![d] = 0]
  BY DEF DeleteRemoves
<1>. HIDE DEF x, d
<1>. QED
  BY <1>1, <1>3, <1>4, <1>5, <1>6 DEF Moves

\* The steps that touch no file and leave the rotation idle, or about to be.
LEMMA Leaves ==
    ASSUME Shape, NEW r \in Rotators, DeleteEnds(r) \/ RotatorExits(r) \/ RotatorCrashes(r)
    PROVE  /\ RotatorFrame /\ FilesStay /\ rotator[r].pc # "idle"
           /\ RotatorCrashes(r) => "crash" \in faults
           /\ \E x : Moves(r, x) /\ x.pc \in {"idle", "done"}
<1>1. NoRotation \in Rotation /\ NoRotation.pc = "idle"
  BY Records DEF NoRotation
<1>2. CASE DeleteEnds(r)
  <2>1. Moves(r, At(r, "done")) /\ At(r, "done").pc = "done"
    BY <1>2, AtFacts DEF DeleteEnds
  <2>. QED
    BY <1>2, <2>1 DEF DeleteEnds, RotatorCrashes, RotatorFrame, FilesStay
<1>3. CASE RotatorExits(r)
  <2>1. Moves(r, NoRotation)
    BY <1>1, <1>3 DEF RotatorExits, Moves
  <2>. QED
    BY <1>1, <1>3, <2>1 DEF RotatorExits, RotatorCrashes, RotatorFrame, FilesStay
<1>4. CASE RotatorCrashes(r)
  <2>1. Moves(r, NoRotation)
    BY <1>1, <1>4 DEF RotatorCrashes, Moves
  <2>. QED
    BY <1>1, <1>4, <2>1 DEF RotatorCrashes, RotatorFrame, FilesStay
<1>. QED
  BY <1>2, <1>3, <1>4

LEMMA RotatorFrameShape ==
    ASSUME Shape, RotatorFrame, NEW r \in Rotators, NEW x, Moves(r, x),
           plain' \in [Days -> 0..Len(data)], gz' \in [Days -> Gzipped]
    PROVE  Shape'
<1>1. rotator' \in [Rotators -> Rotation]
  BY DEF Shape, Moves
<1>2. UNCHANGED <<now, stamp, logged, data, logger, reader>>
  BY DEF RotatorFrame
<1>3. UNCHANGED <<Events, Log, Rotation, Gzipped, QueryState, File>>
  BY <1>2 DEF Events, Log, Rotation, Gzipped, QueryState, File
<1>. QED
  BY <1>1, <1>2, <1>3 DEF Shape

LEMMA RotatorShape ==
    ASSUME Shape, Cutoffs, NEW r \in Rotators, RotatorStep(r)
    PROVE  Shape'
<1>0. plain \in [Days -> 0..Len(data)] /\ gz \in [Days -> Gzipped]
  BY DEF Shape
<1>1. ASSUME NEW d \in Days
      PROVE  [plain EXCEPT ![d] = 0] \in [Days -> 0..Len(data)]
  <2>1. 0 \in 0..Len(data)
    BY Pieces
  <2>. QED
    BY <1>0, <2>1
<1>2. CASE FilesStay /\ RotatorFrame /\ \E x : Moves(r, x)
  BY <1>0, <1>2, RotatorFrameShape DEF FilesStay
<1>3. CASE RotateBegins(r) \/ RotateOpens(r) \/ DeleteBegins(r) \/ DeleteEnds(r)
           \/ RotatorExits(r) \/ RotatorCrashes(r)
  <2>1. FilesStay /\ RotatorFrame /\ \E x : Moves(r, x)
    BY <1>3, Begins, Opens, BeginsDeletion, Leaves
  <2>. QED
    BY <1>2, <2>1
<1>4. CASE RotateCreates(r)
  <2>1. [gz EXCEPT ![rotator[r].day] = Partial] \in [Days -> Gzipped]
    BY <1>0, Records
  <2>2. gz' \in [Days -> Gzipped] /\ plain' \in [Days -> 0..Len(data)]
        /\ \E x : Moves(r, x)
    BY <1>0, <1>4, <2>1, Creates
  <2>. QED
    BY <1>4, <2>2, Creates, RotatorFrameShape
<1>5. CASE RotateCopies(r)
  <2>1. rotator[r].inode \in 1..Len(data)
    BY <1>5, Pieces, Copies DEF Cutoffs, Working
  <2>2. ASSUME NEW old PROVE Compressed(old, data[rotator[r].inode].lines) \in Gzipped
    BY <2>1, Records, Pieces DEF Compressed
  <2>3. gz' \in [Days -> Gzipped] /\ plain' \in [Days -> 0..Len(data)] /\ \E x : Moves(r, x)
    BY <1>0, <1>5, <2>2, Copies
  <2>. QED
    BY <1>5, <2>3, Copies, RotatorFrameShape
<1>6. CASE RotateRemoves(r)
  <2>1. plain' \in [Days -> 0..Len(data)] /\ gz' \in [Days -> Gzipped] /\ \E x : Moves(r, x)
    BY <1>0, <1>1, <1>6, Removes, Pieces, SMTT(30)
  <2>. QED
    BY <1>6, <2>1, Removes, RotatorFrameShape
<1>7. CASE DeleteRemoves(r)
  <2>1. plain' \in [Days -> 0..Len(data)] /\ gz' \in [Days -> Gzipped] /\ \E x : Moves(r, x)
    BY <1>0, <1>1, <1>7, Deletes
  <2>. QED
    BY <1>7, <2>1, Deletes, RotatorFrameShape
<1>. QED
  BY <1>3, <1>4, <1>5, <1>6, <1>7 DEF RotatorStep

\* What a step of a query does to its own state, and what it leaves alone.
ReaderStep(q) ==
    \/ \E since, until \in Bounds \cup {Unset} : QueryGlobs(q, since, until)
    \/ QueryGlobsGz(q) \/ QueryReads(q) \/ QueryEnds(q) \/ ReaderExits(q)

ReaderFrame == UNCHANGED <<now, stamp, logged, data, plain, gz, logger, rotator>>

LEMMA ReaderFrames ==
    ASSUME NEW q, ReaderStep(q) PROVE ReaderFrame
BY DEF ReaderStep, QueryGlobs, QueryGlobsGz, QueryReads, QueryEnds, ReaderExits, ReaderFrame

\* What a query reads next.
NextFile(q) == Earliest(reader[q].plain \cup reader[q].gz)

LEMMA Reads ==
    ASSUME Shape, NEW q \in Readers, QueryReads(q)
    PROVE  LET d == NextFile(q) IN
           /\ reader[q].pc = "read" /\ d \in reader[q].plain \cup reader[q].gz
           /\ \E x \in QueryState :
                /\ reader' = [reader EXCEPT ![q] = x]
                /\ \/ x = NoQuery
                   \/ /\ x.pc = "read"
                      /\ x.since = reader[q].since /\ x.until = reader[q].until
                      /\ \/ /\ d \in reader[q].plain /\ plain[d] # 0
                            /\ x.plain = reader[q].plain \ {d} /\ x.gz = reader[q].gz
                            /\ x.found = Finds(q, data[plain[d]].lines)
                         \/ /\ d \notin reader[q].plain
                            /\ x.plain = reader[q].plain /\ x.gz = reader[q].gz \ {d}
                            /\ x.found = Finds(q, gz[d].events)
<1>. DEFINE d == NextFile(q)
            x == [reader[q] EXCEPT !.plain = reader[q].plain \ {d},
                                   !.found = Finds(q, data[plain[d]].lines)]
            y == [reader[q] EXCEPT !.gz = reader[q].gz \ {d}, !.found = Finds(q, gz[d].events)]
<1>0. reader \in [Readers -> QueryState] /\ reader[q] \in QueryState /\ reader[q].pc = "read"
  BY Pieces DEF Shape, QueryReads
<1>1. d \in reader[q].plain \cup reader[q].gz /\ d \in Days
  BY EarliestIn, Pieces DEF QueryReads, NextFile
<1>2. Finds(q, gz[d].events) \subseteq Events
  BY <1>1, Pieces DEF Finds
<1>3. ASSUME plain[d] # 0
      PROVE  Finds(q, data[plain[d]].lines) \subseteq Events
  BY <1>1, <1>3, Pieces DEF Finds
<1>4. ASSUME plain[d] # 0
      PROVE  /\ x \in QueryState /\ x.pc = "read" /\ x.since = reader[q].since
             /\ x.until = reader[q].until
             /\ x.plain = reader[q].plain \ {d} /\ x.gz = reader[q].gz
             /\ x.found = Finds(q, data[plain[d]].lines)
  <2>. DEFINE f == Finds(q, data[plain[d]].lines)
  <2>1. f \subseteq Events
    BY <1>3, <1>4
  <2>. HIDE DEF f
  <2>. QED
    BY <1>0, <2>1 DEF QueryState, f
<1>5. /\ y \in QueryState /\ y.pc = "read" /\ y.since = reader[q].since
      /\ y.until = reader[q].until
      /\ y.plain = reader[q].plain /\ y.gz = reader[q].gz \ {d}
      /\ y.found = Finds(q, gz[d].events)
  <2>. DEFINE f == Finds(q, gz[d].events)
  <2>. HIDE DEF f
  <2>. QED
    BY <1>0, <1>2 DEF QueryState, f
<1>6. reader' = [reader EXCEPT ![q] =
            CASE d \in reader[q].plain /\ plain[d] # 0 -> x
              [] d \notin reader[q].plain /\ gz[d].state = "whole" -> y
              [] OTHER -> NoQuery]
  BY DEF QueryReads, NextFile
<1>. HIDE DEF x, y, d
<1>7. CASE d \in reader[q].plain /\ plain[d] # 0
  <2>1. reader' = [reader EXCEPT ![q] = x]
    BY <1>6, <1>7
  <2>. QED
    BY <1>0, <1>1, <1>4, <1>7, <2>1 DEF d
<1>8. CASE d \notin reader[q].plain /\ gz[d].state = "whole"
  <2>1. reader' = [reader EXCEPT ![q] = y]
    BY <1>6, <1>8
  <2>. QED
    BY <1>0, <1>1, <1>5, <1>8, <2>1 DEF d
<1>9. CASE ~(d \in reader[q].plain /\ plain[d] # 0) /\ ~(d \notin reader[q].plain /\ gz[d].state = "whole")
  <2>1. reader' = [reader EXCEPT ![q] = NoQuery]
    BY <1>6, <1>9
  <2>. QED
    BY <1>0, <1>1, <1>9, <2>1, Records DEF d
<1>. QED
  BY <1>7, <1>8, <1>9

LEMMA ReaderShape ==
    ASSUME Shape, NEW q \in Readers, ReaderStep(q) PROVE Shape'
<1>0. reader \in [Readers -> QueryState] /\ reader[q] \in QueryState
  BY Pieces DEF Shape
<1>1. reader' \in [Readers -> QueryState]
  <2>1. ASSUME NEW since \in Bounds \cup {Unset}, NEW until \in Bounds \cup {Unset},
               QueryGlobs(q, since, until)
        PROVE  reader' \in [Readers -> QueryState]
    <3>. DEFINE g == {d \in Days : plain[d] # 0}
                x == [NoQuery EXCEPT !.pc = "glob", !.since = since, !.until = until, !.plain = g]
    <3>1. g \subseteq Days
      OBVIOUS
    <3>2. reader' = [reader EXCEPT ![q] = x]
      BY <2>1 DEF QueryGlobs
    <3>. HIDE DEF g
    <3>3. x \in QueryState
      BY <3>1 DEF QueryState, NoQuery
    <3>. QED
      BY <1>0, <3>2, <3>3
  <2>2. CASE QueryGlobsGz(q)
    <3>. DEFINE p == {d \in reader[q].plain : Relevant(d, reader[q].since, reader[q].until)}
                g == {d \in Days : gz[d].state # "absent"}
    <3>1. p \subseteq Days /\ g \subseteq Days
      BY Pieces
    <3>2. reader' = [reader EXCEPT ![q].pc = "read", ![q].plain = p, ![q].gz = g]
      BY <2>2 DEF QueryGlobsGz
    <3>. HIDE DEF p, g
    <3>. QED
      BY <1>0, <3>1, <3>2 DEF QueryState
  <2>3. CASE QueryReads(q)
    BY <1>0, <2>3, Reads
  <2>4. CASE QueryEnds(q)
    BY <1>0, <2>4 DEF QueryEnds, QueryState
  <2>5. CASE ReaderExits(q)
    BY <1>0, <2>5, Records DEF ReaderExits
  <2>. QED
    BY <2>1, <2>2, <2>3, <2>4, <2>5 DEF ReaderStep
<1>2. UNCHANGED <<now, stamp, logged, data, plain, gz, logger, rotator>>
  BY ReaderFrames DEF ReaderFrame
<1>. QED
  BY <1>1, <1>2 DEF Shape, Events, Log, Rotation, Gzipped, QueryState, File

LEMMA StepShape ==
    ASSUME Shape, InAppend, Cutoffs, Step PROVE Shape'
<1>1. CASE Tick
  BY <1>1, TickShape
<1>2. ASSUME NEW l \in Loggers, LogBegins(l) \/ LogOpens(l) \/ LogWrites(l) \/ LoggerCrashes(l)
      PROVE  Shape'
  BY <1>2, LoggerShape
<1>3. ASSUME NEW r \in Rotators, RotatorStep(r) PROVE Shape'
  BY <1>3, RotatorShape
<1>4. ASSUME NEW q \in Readers, ReaderStep(q) PROVE Shape'
  BY <1>4, ReaderShape
<1>. QED
  BY <1>1, <1>2, <1>3, <1>4 DEF Step, RotatorStep, ReaderStep

\* What can be read is in the file of some day, plain or compressed.
LEMMA ReadableFrom ==
    \A e : e \in Readable <=> \E d \in Days : e \in Lines(d) \/ e \in gz[d].events
<1>. SUFFICES ASSUME NEW e
              PROVE  e \in Readable <=> \E d \in Days : e \in Lines(d) \/ e \in gz[d].events
  OBVIOUS
<1>. DEFINE A == UNION {Lines(d) : d \in Days}
            B == UNION {gz[d].events : d \in Days}
<1>1. Readable = A \cup B
  BY DEF Readable, Lines
<1>2. e \in A <=> \E d \in Days : e \in Lines(d)
  OBVIOUS
<1>3. e \in B <=> \E d \in Days : e \in gz[d].events
  OBVIOUS
<1>. HIDE DEF A, B
<1>. QED
  BY <1>1, <1>2, <1>3

LEMMA ReadableTyped == Shape => Readable \subseteq Events
<1>. SUFFICES ASSUME Shape, NEW e \in Readable PROVE e \in Events
  OBVIOUS
<1>1. PICK d \in Days : e \in Lines(d) \/ e \in gz[d].events
  BY ReadableFrom
<1>. QED
  BY <1>1, Pieces DEF Lines

LEMMA TypedNext ==
    ASSUME Typed, InAppend, Cutoffs, [Next]_vars PROVE Typed'
<1>1. CASE UNCHANGED vars
  <2>1. UNCHANGED <<now, stamp, logged, data, plain, gz, logger, rotator, reader, due, faults>>
    BY <1>1 DEF vars
  <2>2. UNCHANGED <<Events, Log, Rotation, Gzipped, QueryState, File>>
    BY <2>1 DEF Events, Log, Rotation, Gzipped, QueryState, File
  <2>. QED
    BY <2>1, <2>2 DEF Typed, Shape
<1>2. CASE Next
  <2>1. Shape'
    BY <1>2, StepShape DEF Next, Typed
  <2>2. Shape' => (Readable \subseteq Events)'
    BY ReadableTyped, PTL
  <2>3. Readable' \subseteq Events'
    BY <2>1, <2>2
  <2>4. due \in [Readers -> SUBSET Events] /\ faults \in Environments /\ faults' = faults /\ Owes
    BY <1>2 DEF Next, Typed
  <2>5. due' \in [Readers -> SUBSET Events']
    BY <2>3, <2>4 DEF Owes
  <2>. QED
    BY <2>1, <2>4, <2>5 DEF Typed
<1>. QED
  BY <1>1, <1>2

-----------------------------------------------------------------------------
(* Appends and cutoffs *)

\* Time does not go back, and what was logged keeps its time.
LEMMA Onwards ==
    ASSUME Shape, InAppend, Cutoffs, Step
    PROVE  /\ now' \in Int /\ now <= now' /\ (~Tick => now' = now)
           /\ stamp' = stamp \/ stamp' = Append(stamp, now)
           /\ \A e \in Events : stamp'[e] = stamp[e] /\ EventDay(e)' = EventDay(e)
           /\ \A d \in Days : (Closed(d) => Closed(d)') /\ (Dead(d) => Dead(d)')
<1>1. now \in 0..MaxTime /\ MaxAge * Slots \in Nat /\ DeleteAge * Slots \in Nat
      /\ \A d \in Days : Midnight(d) \in Int
  BY DayTypes DEF Shape
<1>2. /\ now' \in Int /\ now <= now' /\ (~Tick => now' = now)
      /\ stamp' = stamp \/ stamp' = Append(stamp, now)
  <2>1. CASE Tick
    BY <1>1, <2>1 DEF Tick
  <2>2. ASSUME NEW l \in Loggers, LogBegins(l) \/ LogOpens(l) \/ LogWrites(l) \/ LoggerCrashes(l)
        PROVE  now' = now /\ stamp' \in {stamp, Append(stamp, now)}
    BY <2>2 DEF LogBegins, LogOpens, LogWrites, LoggerCrashes
  <2>3. ASSUME NEW r \in Rotators, RotatorStep(r) PROVE now' = now /\ stamp' = stamp
    BY <2>3 DEF RotatorStep, RotateBegins, RotateOpens, RotateCreates, RotateCopies,
                RotateRemoves, DeleteBegins, DeleteRemoves, DeleteEnds, RotatorExits, RotatorCrashes
  <2>4. ASSUME NEW q \in Readers, ReaderStep(q) PROVE now' = now /\ stamp' = stamp
    BY <2>4, ReaderFrames DEF ReaderFrame
  <2>5. Tick \/ (now' = now /\ stamp' \in {stamp, Append(stamp, now)})
    BY <2>2, <2>3, <2>4 DEF Step, RotatorStep, ReaderStep
  <2>. QED
    BY <2>1, <2>5, <1>1
<1>3. \A d \in Days : (Closed(d) => Closed(d)') /\ (Dead(d) => Dead(d)')
  BY <1>1, <1>2 DEF Closed, Dead
<1>4. \A e \in Events : stamp'[e] = stamp[e] /\ EventDay(e)' = EventDay(e)
  BY <1>2, ShapeGrows
<1>. QED
  BY <1>2, <1>3, <1>4

\* An append whose process is inside it is of a day that is not closed.
LEMMA AppendsOpen ==
    ASSUME ShortStall, Shape, InAppend, NEW l \in Loggers, logger[l].pc # "idle"
    PROVE  /\ logger[l].event \in Events /\ LoggerDay(l) \in Days
           /\ ~Closed(LoggerDay(l))
<1>1. logger[l].event \in Events /\ now - stamp[logger[l].event] <= MaxStall
  BY Pieces DEF InAppend
<1>2. stamp[logger[l].event] \in 0..MaxTime /\ now \in Int
  BY <1>1, Pieces DEF Shape
<1>3. Midnight(LoggerDay(l)) + MaxAge * Slots > now
  BY <1>1, <1>2, OpenDay DEF LoggerDay, EventDay
<1>4. LoggerDay(l) \in Days
  BY <1>1, Pieces DEF LoggerDay
<1>5. Midnight(LoggerDay(l)) \in Int /\ MaxAge * Slots \in Int
  <2>1. \A d \in Days : Midnight(d) \in Int
    BY DayTypes
  <2>2. MaxAge * Slots \in Nat
    BY DayTypes
  <2>. QED
    BY <1>4, <2>1, <2>2
<1>. HIDE DEF LoggerDay
<1>6. ~Closed(LoggerDay(l))
  BY <1>2, <1>3, <1>5 DEF Closed
<1>. QED
  BY <1>1, <1>4, <1>6

LEMMA InAppendNext ==
    ASSUME Shape, InAppend, Cutoffs, Step PROVE InAppend'
<1>. SUFFICES ASSUME NEW m \in Loggers, logger'[m].pc # "idle"
              PROVE  /\ logger'[m].event # 0
                     /\ now' - stamp'[logger'[m].event] <= MaxStall
                     /\ logger'[m].pc = "write" => logger'[m].inode # 0
  BY DEF InAppend
<1>0. logger \in [Loggers -> Log] /\ now \in 0..MaxTime /\ stamp \in Seq(0..MaxTime)
      /\ MaxStall \in Nat
  BY DayTypes DEF Shape
<1>. DEFINE Before == /\ logger[m].event \in Events
                      /\ now - stamp[logger[m].event] <= MaxStall
                      /\ logger[m].pc = "write" => logger[m].inode # 0
<1>1. logger[m].pc # "idle" => Before
  BY Pieces DEF InAppend
<1>2. CASE logger'[m] = logger[m] /\ now' = now
  BY <1>1, <1>2, Onwards, Pieces
<1>3. CASE Tick
  <2>1. logger' = logger /\ stamp' = stamp /\ now' = now + 1
    BY <1>3 DEF Tick
  <2>2. now + 1 - stamp[logger[m].event] <= MaxStall
    BY <1>3, <2>1 DEF Tick
  <2>3. Before /\ (logger[m].event \in Events => logger[m].event # 0)
    BY <1>1, <2>1, Pieces
  <2>4. now' - stamp'[logger'[m].event] <= MaxStall
    BY <1>0, <2>1, <2>2, <2>3, Pieces
  <2>. QED
    BY <2>1, <2>3, <2>4
<1>4. ASSUME LogBegins(m) PROVE /\ logger'[m].event # 0
                                /\ now' - stamp'[logger'[m].event] <= MaxStall
                                /\ logger'[m].pc = "write" => logger'[m].inode # 0
  <2>1. stamp' = Append(stamp, now) /\ now' = now
        /\ logger' = [logger EXCEPT ![m] = [pc |-> "open", event |-> Len(stamp) + 1, inode |-> 0]]
    BY <1>4 DEF LogBegins
  <2>2. logger'[m] = [pc |-> "open", event |-> Len(stamp) + 1, inode |-> 0]
    BY <2>1, <1>0
  <2>3. Len(stamp) \in Nat /\ stamp'[Len(stamp) + 1] = now
    BY <2>1, <1>0
  <2>. QED
    BY <2>1, <2>2, <2>3, <1>0
<1>5. ASSUME LogOpens(m) PROVE /\ logger'[m].event # 0
                               /\ now' - stamp'[logger'[m].event] <= MaxStall
                               /\ logger'[m].pc = "write" => logger'[m].inode # 0
  <2>1. stamp' = stamp /\ now' = now /\ logger[m].pc = "open"
    BY <1>5 DEF LogOpens
  <2>2. logger'[m].event = logger[m].event /\ logger'[m].inode # 0
    BY <1>5, <1>0, Pieces DEF LogOpens, Log
  <2>3. Before /\ (logger[m].event \in Events => logger[m].event # 0)
    BY <1>1, <2>1, Pieces
  <2>. QED
    BY <2>1, <2>2, <2>3
<1>6. ASSUME LogWrites(m) \/ LoggerCrashes(m) PROVE logger'[m].pc = "idle"
  BY <1>6, <1>0 DEF LogWrites, LoggerCrashes, NoLog
<1>7. ASSUME NEW l \in Loggers, LogBegins(l) \/ LogOpens(l) \/ LogWrites(l) \/ LoggerCrashes(l), l # m
      PROVE  logger'[m] = logger[m] /\ now' = now
  BY <1>7, <1>0 DEF LogBegins, LogOpens, LogWrites, LoggerCrashes
<1>8. ASSUME NEW r \in Rotators, RotatorStep(r) PROVE logger'[m] = logger[m] /\ now' = now
  BY <1>8 DEF RotatorStep, RotateBegins, RotateOpens, RotateCreates, RotateCopies,
              RotateRemoves, DeleteBegins, DeleteRemoves, DeleteEnds, RotatorExits, RotatorCrashes
<1>9. ASSUME NEW q \in Readers, ReaderStep(q) PROVE logger'[m] = logger[m] /\ now' = now
  BY <1>9, ReaderFrames DEF ReaderFrame
<1>10. \/ Tick \/ LogBegins(m) \/ LogOpens(m) \/ LogWrites(m) \/ LoggerCrashes(m)
       \/ logger'[m] = logger[m] /\ now' = now
  BY <1>7, <1>8, <1>9 DEF Step, RotatorStep, ReaderStep
<1>. QED
  BY <1>2, <1>3, <1>4, <1>5, <1>6, <1>10

LEMMA CutoffsNext ==
    ASSUME Shape, InAppend, Cutoffs, Step PROVE Cutoffs'
<1>0. now \in Int /\ now' \in Int /\ now <= now' /\ MaxAge * Slots \in Nat /\ DeleteAge * Slots \in Nat
      /\ \A d \in Days : Midnight(d) \in Int /\ (Closed(d) => Closed(d)')
  BY DayTypes, Onwards DEF Shape
<1>. DEFINE Good(x) ==
        /\ x.pc \in {"rotate"} \cup Working => x.cutoff <= now - MaxAge * Slots
        /\ x.pc = "delete" => DeleteAge # 0 /\ x.cutoff <= now - DeleteAge * Slots
        /\ x.pc \in Working => Closed(x.day) /\ x.inode # 0
<1>1. \A s \in Rotators : Good(rotator[s])
  BY DEF Cutoffs
<1>2. ASSUME NEW s \in Rotators, rotator'[s] \in Rotation, Good(rotator'[s])
      PROVE  /\ rotator'[s].pc \in {"rotate"} \cup Working =>
                    rotator'[s].cutoff <= now' - MaxAge * Slots
             /\ rotator'[s].pc = "delete" =>
                    DeleteAge # 0 /\ rotator'[s].cutoff <= now' - DeleteAge * Slots
             /\ rotator'[s].pc \in Working => Closed(rotator[s].day)' /\ rotator'[s].inode # 0
  <2>1. rotator'[s].cutoff \in Int /\ rotator'[s].day \in Days
    BY <1>2 DEF Rotation
  <2>2. \A d \in Days : d = rotator'[s].day => (Closed(d)' <=> Closed(rotator[s].day)')
    BY DEF Closed
  <2>3. rotator'[s].pc \in Working => Closed(rotator[s].day)' /\ rotator'[s].inode # 0
    BY <1>0, <1>2, <2>1, <2>2
  <2>. QED
    BY <1>0, <1>2, <2>1, <2>3
<1>3. ASSUME NEW r \in Rotators, RotatorStep(r)
      PROVE  \E x : Moves(r, x) /\ Good(x)
  <2>1. Good(rotator[r]) /\ rotator[r].cutoff \in Int
    BY <1>1, Pieces
  <2>2. ASSUME RotateBegins(r) PROVE \E x : Moves(r, x) /\ Good(x)
    BY <1>0, <2>2, Begins DEF Working
  <2>3. ASSUME RotateOpens(r) PROVE \E x : Moves(r, x) /\ Good(x)
    <3>1. PICK x : /\ Moves(r, x) /\ x.cutoff = rotator[r].cutoff
                   /\ \/ x.pc = "rotate"
                      \/ /\ x.pc = "create" /\ x.day \in Days
                         /\ Midnight(x.day) <= rotator[r].cutoff
                         /\ plain[x.day] # 0 /\ x.inode = plain[x.day]
      BY <2>3, Opens
    <3>2. x.cutoff <= now - MaxAge * Slots
      BY <2>1, <2>3, <3>1, Opens
    <3>3. x.pc = "create" => Closed(x.day) /\ x.inode # 0
      BY <1>0, <3>1, <3>2, <2>1 DEF Closed
    <3>. QED
      BY <3>1, <3>2, <3>3 DEF Working
  <2>4. ASSUME RotateCreates(r) PROVE \E x : Moves(r, x) /\ Good(x)
    <3>1. Good(At(r, "copy")) /\ Good(At(r, "rotate"))
      BY <2>1, <2>4, Creates, AtFacts DEF Working
    <3>. QED
      BY <3>1, <2>4, Creates
  <2>5. ASSUME RotateCopies(r) PROVE \E x : Moves(r, x) /\ Good(x)
    <3>1. Good(At(r, "remove")) /\ Good(At(r, "rotate"))
      BY <2>1, <2>5, Copies, AtFacts DEF Working
    <3>. QED
      BY <3>1, <2>5, Copies
  <2>6. ASSUME RotateRemoves(r) PROVE \E x : Moves(r, x) /\ Good(x)
    <3>1. Good(At(r, "rotate"))
      BY <2>1, <2>6, Removes, AtFacts DEF Working
    <3>. QED
      BY <3>1, <2>6, Removes
  <2>7. ASSUME DeleteBegins(r) PROVE \E x : Moves(r, x) /\ Good(x)
    BY <1>0, <2>7, BeginsDeletion DEF Working
  <2>8. ASSUME DeleteRemoves(r) PROVE \E x : Moves(r, x) /\ Good(x)
    BY <2>1, <2>8, Deletes DEF Working
  <2>9. ASSUME DeleteEnds(r) \/ RotatorExits(r) \/ RotatorCrashes(r)
        PROVE  \E x : Moves(r, x) /\ Good(x)
    BY <2>9, Leaves DEF Working
  <2>. QED
    BY <1>3, <2>2, <2>3, <2>4, <2>5, <2>6, <2>7, <2>8, <2>9 DEF RotatorStep
<1>4. rotator \in [Rotators -> Rotation]
  BY DEF Shape
<1>5. rotator' = rotator \/ \E r \in Rotators : \E x : Moves(r, x) /\ Good(x)
  <2>1. CASE Tick
    BY <2>1 DEF Tick
  <2>2. ASSUME NEW l \in Loggers, LogBegins(l) \/ LogOpens(l) \/ LogWrites(l) \/ LoggerCrashes(l)
        PROVE  rotator' = rotator
    BY <2>2 DEF LogBegins, LogOpens, LogWrites, LoggerCrashes
  <2>3. ASSUME NEW q \in Readers, ReaderStep(q) PROVE rotator' = rotator
    BY <2>3, ReaderFrames DEF ReaderFrame
  <2>. QED
    BY <1>3, <2>1, <2>2, <2>3 DEF Step, RotatorStep, ReaderStep
<1>6. \A s \in Rotators : rotator'[s] \in Rotation /\ Good(rotator'[s])
  <2>1. ASSUME NEW r \in Rotators, NEW x, Moves(r, x), Good(x)
        PROVE  \A s \in Rotators : rotator'[s] \in Rotation /\ Good(rotator'[s])
    <3>. HIDE DEF Good
    <3>1. x \in Rotation /\ \A s \in Rotators : rotator'[s] = IF s = r THEN x ELSE rotator[s]
      BY <1>4, <2>1 DEF Moves
    <3>. QED
      BY <1>1, <1>4, <2>1, <3>1
  <2>2. CASE rotator' = rotator
    BY <1>1, <1>4, <2>2
  <2>. QED
    BY <1>5, <2>1, <2>2
<1>. QED
  BY <1>2, <1>6 DEF Cutoffs

-----------------------------------------------------------------------------
(* What the steps of a logger and of a rotation do to the files *)

\* Lines are added, and a name is given to a new inode only on a day that is open.
LEMMA LoggerSummary ==
    ASSUME ShortStall, Shape, InAppend, NEW l \in Loggers,
           LogBegins(l) \/ LogOpens(l) \/ LogWrites(l) \/ LoggerCrashes(l)
    PROVE  /\ UNCHANGED <<now, gz, rotator, reader>>
           /\ Len(data)' \in Nat /\ Len(data) <= Len(data)' /\ DOMAIN data' = 1..Len(data)'
           /\ \A i \in 1..Len(data) : data[i].lines \subseteq data'[i].lines
           /\ \A d \in Days : plain'[d] = plain[d] \/ (plain[d] = 0 /\ ~Closed(d))
<1>0. plain \in [Days -> 0..Len(data)] /\ data \in Seq(File) /\ Len(data) \in Nat
  BY Pieces DEF Shape
<1>1. CASE LogBegins(l) \/ LoggerCrashes(l)
  <2>1. UNCHANGED <<now, gz, rotator, reader, data, plain>>
    BY <1>1 DEF LogBegins, LoggerCrashes
  <2>. QED
    BY <2>1, <1>0
<1>2. CASE LogOpens(l)
  <2>1. UNCHANGED <<now, gz, rotator, reader>> /\ logger[l].pc = "open"
    BY <1>2 DEF LogOpens
  <2>2. LoggerDay(l) \in Days /\ ~Closed(LoggerDay(l))
    BY <2>1, AppendsOpen
  <2>3. \/ UNCHANGED <<data, plain>>
        \/ /\ plain[LoggerDay(l)] = 0
           /\ data' = Append(data, [lines |-> {}, torn |-> FALSE])
           /\ plain' = [plain EXCEPT ![LoggerDay(l)] = Len(data) + 1]
    BY <1>2 DEF LogOpens, LoggerDay, EventDay
  <2>4. CASE UNCHANGED <<data, plain>>
    BY <2>1, <2>4, <1>0
  <2>5. CASE /\ plain[LoggerDay(l)] = 0
             /\ data' = Append(data, [lines |-> {}, torn |-> FALSE])
             /\ plain' = [plain EXCEPT ![LoggerDay(l)] = Len(data) + 1]
    <3>1. Len(data)' = Len(data) + 1 /\ DOMAIN data' = 1..(Len(data) + 1)
          /\ \A i \in 1..Len(data) : data'[i] = data[i]
      BY <2>5, <1>0
    <3>. HIDE DEF LoggerDay
    <3>2. \A d \in Days : plain'[d] = plain[d] \/ (plain[d] = 0 /\ ~Closed(d))
      BY <2>2, <2>5, <1>0
    <3>. QED
      BY <2>1, <3>1, <3>2, <1>0
  <2>. QED
    BY <2>3, <2>4, <2>5
<1>3. CASE LogWrites(l)
  <2>1. UNCHANGED <<now, gz, rotator, reader, plain>>
    BY <1>3 DEF LogWrites
  <2>2. logger[l].inode \in 1..Len(data)
    BY <1>3, Pieces DEF LogWrites, InAppend
  <2>3. PICK i, f :
               /\ i \in 1..Len(data) /\ data[i].lines \subseteq f.lines
               /\ data' = data \/ data' = [data EXCEPT ![i] = f]
    <3>. DEFINE i == logger[l].inode
                f == [data[i] EXCEPT !.torn = TRUE]
                g == [lines |-> IF data[i].torn THEN data[i].lines
                                ELSE data[i].lines \cup {logger[l].event},
                      torn |-> FALSE]
    <3>1. data' = data \/ data' = [data EXCEPT ![i] = f] \/ data' = [data EXCEPT ![i] = g]
      BY <1>3 DEF LogWrites
    <3>2. data[i] \in File
      BY <2>2, Pieces
    <3>3. data[i].lines \subseteq f.lines /\ data[i].lines \subseteq g.lines
      BY <3>2 DEF File
    <3>. HIDE DEF f, g
    <3>. QED
      BY <2>2, <3>1, <3>3
  <2>4. Len(data)' = Len(data) /\ DOMAIN data' = 1..Len(data)
        /\ \A j \in 1..Len(data) : data[j].lines \subseteq data'[j].lines
    BY <2>3, <1>0
  <2>. QED
    BY <2>1, <2>4, <1>0
<1>. QED
  BY <1>1, <1>2, <1>3

\* A rotation takes up the inode that has the name, empties or fills the .gz file of
\* the day it is at, and takes names away.
LEMMA RotatorSummary ==
    ASSUME Shape, Cutoffs, NEW r \in Rotators, RotatorStep(r)
    PROVE  /\ RotatorFrame
           /\ \A s \in Rotators : s # r => rotator'[s] = rotator[s]
           /\ rotator'[r].pc \in Working =>
                 \/ /\ rotator[r].pc \in Working
                    /\ rotator'[r].day = rotator[r].day /\ rotator'[r].inode = rotator[r].inode
                 \/ /\ rotator[r].pc = "rotate" /\ rotator'[r].pc = "create" /\ FilesStay
                    /\ rotator'[r].day \in Days /\ Closed(rotator'[r].day)
                    /\ rotator'[r].inode # 0 /\ plain[rotator'[r].day] = rotator'[r].inode
           /\ \A d \in Days : plain'[d] \in {0, plain[d]}
           /\ \A d \in Days :
                 \/ gz'[d] = gz[d]
                 \/ /\ On(r, d)
                    /\ \/ gz'[d] = Partial
                       \/ gz'[d] = Compressed(gz[d], data[rotator[r].inode].lines)
<1>0. /\ rotator \in [Rotators -> Rotation] /\ gz \in [Days -> Gzipped]
      /\ plain \in [Days -> 0..Len(data)]
      /\ rotator[r].day \in Days
      /\ now \in Int /\ MaxAge * Slots \in Int /\ \A d \in Days : Midnight(d) \in Int
  <2>1. MaxAge * Slots \in Nat /\ \A d \in Days : Midnight(d) \in Int
    BY DayTypes
  <2>. QED
    BY <2>1, Pieces DEF Shape
<1>1. \A x : Moves(r, x) => /\ rotator'[r] = x
                            /\ \A s \in Rotators : s # r => rotator'[s] = rotator[s]
  BY <1>0 DEF Moves
<1>2. CASE RotateBegins(r) \/ DeleteBegins(r) \/ DeleteEnds(r) \/ RotatorExits(r) \/ RotatorCrashes(r)
  <2>1. /\ RotatorFrame /\ FilesStay
        /\ \E x : Moves(r, x) /\ x.pc \notin Working
    BY <1>2, Begins, BeginsDeletion, Leaves DEF Working
  <2>. QED
    BY <1>1, <2>1 DEF FilesStay
<1>3. CASE RotateOpens(r)
  <2>1. rotator[r].cutoff <= now - MaxAge * Slots /\ rotator[r].cutoff \in Int
    BY <1>3, Opens, Pieces DEF Cutoffs
  <2>2. PICK x : /\ Moves(r, x) /\ x.cutoff = rotator[r].cutoff
                 /\ \/ x.pc = "rotate"
                    \/ /\ x.pc = "create" /\ x.day \in Days
                       /\ Midnight(x.day) <= rotator[r].cutoff
                       /\ plain[x.day] # 0 /\ x.inode = plain[x.day]
    BY <1>3, Opens
  <2>3. x.pc = "create" => Closed(x.day)
    BY <1>0, <2>1, <2>2 DEF Closed
  <2>4. RotatorFrame /\ FilesStay /\ rotator[r].pc = "rotate"
    BY <1>3, Opens
  <2>5. rotator'[r] = x
    BY <1>1, <2>2
  <2>6. Closed(x.day) => \A d : d = rotator'[r].day => Closed(d)
    BY <2>5
  <2>. QED
    BY <1>1, <2>2, <2>3, <2>4, <2>5, <2>6 DEF FilesStay, Working
<1>4. CASE RotateCreates(r)
  <2>1. RotatorFrame /\ rotator[r].pc = "create" /\ plain' = plain
    BY <1>4, Creates
  <2>2. \A d \in Days : gz'[d] = gz[d] \/ (d = rotator[r].day /\ gz'[d] = Partial)
    BY <1>0, <1>4, Creates
  <2>3. PICK pc \in {"copy", "rotate"} : Moves(r, At(r, pc))
    BY <1>4, Creates
  <2>4. rotator'[r].day = rotator[r].day /\ rotator'[r].inode = rotator[r].inode
    BY <1>1, <2>3, AtFacts
  <2>. QED
    BY <1>1, <2>1, <2>2, <2>3, <2>4 DEF On, Working
<1>5. CASE RotateCopies(r)
  <2>1. RotatorFrame /\ rotator[r].pc = "copy" /\ plain' = plain
    BY <1>5, Copies
  <2>2. \A d \in Days :
            \/ gz'[d] = gz[d]
            \/ d = rotator[r].day /\ gz'[d] = Compressed(gz[d], data[rotator[r].inode].lines)
    BY <1>0, <1>5, Copies
  <2>3. PICK pc \in {"remove", "rotate"} : Moves(r, At(r, pc))
    BY <1>5, Copies
  <2>4. rotator'[r].day = rotator[r].day /\ rotator'[r].inode = rotator[r].inode
    BY <1>1, <2>3, AtFacts
  <2>. QED
    BY <1>1, <2>1, <2>2, <2>3, <2>4 DEF On, Working
<1>6. CASE RotateRemoves(r)
  <2>1. RotatorFrame /\ gz' = gz /\ Moves(r, At(r, "rotate")) /\ At(r, "rotate").pc = "rotate"
    BY <1>6, Removes, AtFacts
  <2>2. \A d \in Days : plain'[d] \in {0, plain[d]}
    BY <1>0, <1>6, Removes
  <2>. QED
    BY <1>1, <2>1, <2>2 DEF Working
<1>7. CASE DeleteRemoves(r)
  <2>1. RotatorFrame /\ gz' = gz /\ \E x : Moves(r, x) /\ x.pc = "delete"
    BY <1>7, Deletes
  <2>2. \A d \in Days : plain'[d] \in {0, plain[d]}
    BY <1>0, <1>7, Deletes
  <2>. QED
    BY <1>1, <2>1, <2>2 DEF Working
<1>. QED
  BY <1>2, <1>3, <1>4, <1>5, <1>6, <1>7 DEF RotatorStep

-----------------------------------------------------------------------------
(* Every name keeps its inode once its day is closed *)

LEMMA SteadyFrame ==
    ASSUME Shape, Steady, Cutoffs, UNCHANGED <<gz, rotator>>,
           \A i \in 1..Len(data) : data[i].lines \subseteq data'[i].lines,
           \A d \in Days : plain'[d] = plain[d] \/ (plain[d] = 0 /\ ~Closed(d)),
           \A d \in Days : Closed(d) => Closed(d)'
    PROVE  Steady'
<1>. SUFFICES ASSUME NEW d \in Days
     PROVE  /\ gz'[d].state # "absent" => Closed(d)'
            /\ gz'[d].state # "whole" => gz'[d].events = {}
            /\ plain'[d] # 0 => gz'[d].events \subseteq Lines(d)'
            /\ \A r \in Rotators : On(r, d)' =>
                  /\ plain'[d] \in {0, rotator'[r].inode}
                  /\ gz'[d].events \subseteq data'[rotator'[r].inode].lines
                  /\ \A s \in Rotators : On(s, d)' => rotator'[s].inode = rotator'[r].inode
  BY DEF Steady
<1>1. gz'[d] = gz[d] /\ \A r \in Rotators : On(r, d)' <=> On(r, d)
  BY DEF On
<1>2. gz'[d].state # "absent" => Closed(d)'
  BY <1>1 DEF Steady
<1>3. gz'[d].state # "whole" => gz'[d].events = {}
  BY <1>1 DEF Steady
<1>4. plain'[d] # 0 => gz'[d].events \subseteq Lines(d)'
  <2>1. CASE plain'[d] = plain[d]
    BY <1>1, <2>1, Pieces DEF Lines, Steady
  <2>2. CASE plain[d] = 0 /\ ~Closed(d)
    <3>1. gz[d].state = "absent" /\ gz[d].events = {}
      BY <2>2 DEF Steady
    <3>. QED
      BY <1>1, <3>1
  <2>. QED
    BY <2>1, <2>2
<1>5. ASSUME NEW r \in Rotators, On(r, d)
      PROVE  /\ plain'[d] \in {0, rotator[r].inode}
             /\ gz[d].events \subseteq data'[rotator[r].inode].lines
             /\ \A s \in Rotators : On(s, d) => rotator[s].inode = rotator[r].inode
  <2>1. Closed(d) /\ rotator[r].inode \in 1..Len(data)
    BY <1>5, Pieces DEF Cutoffs, On
  <2>. QED
    BY <1>5, <2>1 DEF Steady
<1>. QED
  BY <1>1, <1>2, <1>3, <1>4, <1>5

LEMMA SteadyRotator ==
    ASSUME Shape, Steady, Cutoffs, NEW r \in Rotators, RotatorStep(r)
    PROVE  Steady'
<1>. SUFFICES ASSUME NEW d \in Days
     PROVE  /\ gz'[d].state # "absent" => Closed(d)'
            /\ gz'[d].state # "whole" => gz'[d].events = {}
            /\ plain'[d] # 0 => gz'[d].events \subseteq Lines(d)'
            /\ \A s \in Rotators : On(s, d)' =>
                  /\ plain'[d] \in {0, rotator'[s].inode}
                  /\ gz'[d].events \subseteq data'[rotator'[s].inode].lines
                  /\ \A t \in Rotators : On(t, d)' => rotator'[t].inode = rotator'[s].inode
  BY DEF Steady
<1>1. UNCHANGED <<now, data>> /\ (Closed(d)' <=> Closed(d)) /\ plain'[d] \in {0, plain[d]}
  BY RotatorSummary DEF RotatorFrame, Closed
<1>2. /\ gz[d].state # "absent" => Closed(d)
      /\ gz[d].state # "whole" => gz[d].events = {}
      /\ plain[d] # 0 => gz[d].events \subseteq Lines(d)
      /\ \A s \in Rotators : On(s, d) =>
            /\ plain[d] \in {0, rotator[s].inode}
            /\ gz[d].events \subseteq data[rotator[s].inode].lines
            /\ \A t \in Rotators : On(t, d) => rotator[t].inode = rotator[s].inode
            /\ Closed(d) /\ rotator[s].inode # 0
  BY DEF Steady, On, Cutoffs
<1>3. \/ gz'[d] = gz[d]
      \/ /\ On(r, d) /\ gz'[d].events \subseteq data[rotator[r].inode].lines
         /\ gz'[d].state # "whole" => gz'[d].events = {}
  <2>1. /\ Partial.events = {} /\ Partial.state = "partial"
        /\ \A es : Whole(es).events = es /\ Whole(es).state = "whole"
    BY DEF Partial, Whole
  <2>. QED
    BY <2>1, RotatorSummary DEF Compressed
<1>4. ASSUME NEW s \in Rotators, On(s, d)'
      PROVE  /\ rotator'[s].inode # 0 /\ plain[d] \in {0, rotator'[s].inode}
             /\ Closed(d)
             /\ \/ On(s, d) /\ rotator'[s].inode = rotator[s].inode
                \/ s = r /\ FilesStay /\ plain[d] = rotator'[s].inode
  <2>1. rotator'[s].pc \in Working /\ rotator'[s].day = d
    BY <1>4 DEF On
  <2>. QED
    BY <1>2, <2>1, RotatorSummary DEF On
<1>5. gz'[d].state # "absent" => Closed(d)'
  BY <1>1, <1>2, <1>3
<1>6. gz'[d].state # "whole" => gz'[d].events = {}
  BY <1>2, <1>3
<1>7. plain'[d] # 0 => gz'[d].events \subseteq Lines(d)'
  BY <1>1, <1>2, <1>3 DEF Lines
<1>8. ASSUME NEW s \in Rotators, On(s, d)'
      PROVE  /\ plain'[d] \in {0, rotator'[s].inode}
             /\ gz'[d].events \subseteq data'[rotator'[s].inode].lines
             /\ \A t \in Rotators : On(t, d)' => rotator'[t].inode = rotator'[s].inode
  <2>1. plain'[d] \in {0, rotator'[s].inode}
    BY <1>1, <1>4, <1>8
  <2>2. gz'[d].events \subseteq data'[rotator'[s].inode].lines
    <3>1. CASE On(s, d) /\ rotator'[s].inode = rotator[s].inode
      BY <1>1, <1>2, <1>3, <3>1
    <3>2. CASE s = r /\ FilesStay /\ plain[d] = rotator'[s].inode
      BY <1>1, <1>2, <1>4, <1>8, <3>2 DEF FilesStay, Lines
    <3>. QED
      BY <1>4, <1>8, <3>1, <3>2
  <2>3. ASSUME NEW t \in Rotators, On(t, d)' PROVE rotator'[t].inode = rotator'[s].inode
    BY <1>2, <1>4, <1>8, <2>3
  <2>. QED
    BY <2>1, <2>2, <2>3
<1>. QED
  BY <1>5, <1>6, <1>7, <1>8

LEMMA SteadyNext ==
    ASSUME ShortStall, Shape, InAppend, Cutoffs, Steady, Step PROVE Steady'
<1>0. \A d \in Days : Closed(d) => Closed(d)'
  BY Onwards
<1>1. CASE Tick
  BY <1>0, <1>1, SteadyFrame DEF Tick
<1>2. ASSUME NEW l \in Loggers, LogBegins(l) \/ LogOpens(l) \/ LogWrites(l) \/ LoggerCrashes(l)
      PROVE  Steady'
  BY <1>0, <1>2, LoggerSummary, SteadyFrame
<1>3. ASSUME NEW r \in Rotators, RotatorStep(r) PROVE Steady'
  BY <1>3, SteadyRotator
<1>4. ASSUME NEW q \in Readers, ReaderStep(q) PROVE Steady'
  BY <1>0, <1>4, ReaderFrames, SteadyFrame DEF ReaderFrame
<1>. QED
  BY <1>1, <1>2, <1>3, <1>4 DEF Step, RotatorStep, ReaderStep

-----------------------------------------------------------------------------
(* An inode is the file of one day *)

LEMMA FilingFrame ==
    ASSUME Shape, InAppend, Cutoffs, Filing, NEW r,
           data' = data, \A e \in Events : EventDay(e)' = EventDay(e),
           \A d \in Days : plain'[d] \in {0, plain[d]},
           \A d \in Days :
              \/ gz'[d].events \subseteq gz[d].events
              \/ /\ r \in Rotators /\ On(r, d)
                 /\ gz'[d].events \subseteq data[rotator[r].inode].lines,
           \A l \in Loggers : logger'[l].pc = "write" => logger'[l] = logger[l],
           \A s \in Rotators : rotator'[s].pc \in Working =>
              \/ /\ rotator[s].pc \in Working
                 /\ rotator'[s].day = rotator[s].day /\ rotator'[s].inode = rotator[s].inode
              \/ /\ rotator'[s].day \in Days /\ rotator'[s].inode # 0
                 /\ plain[rotator'[s].day] = rotator'[s].inode
    PROVE  Filing'
<1>. PICK own \in [DOMAIN data -> Days] : Filed(own)
  BY DEF Filing
<1>1. \A i \in DOMAIN data' : \A e \in data'[i].lines : EventDay(e)' = own[i]
  BY Pieces DEF Filed
<1>2. \A d \in Days : plain'[d] # 0 => own[plain'[d]] = d
  BY DEF Filed
<1>3. ASSUME NEW d \in Days, NEW e \in gz'[d].events PROVE EventDay(e)' = d
  <2>1. CASE e \in gz[d].events
    BY <2>1, Pieces DEF Filed
  <2>2. CASE r \in Rotators /\ On(r, d) /\ e \in data[rotator[r].inode].lines
    <3>1. rotator[r].inode \in DOMAIN data /\ own[rotator[r].inode] = d
      BY <2>2, Pieces DEF Cutoffs, On, Filed
    <3>. QED
      BY <2>2, <3>1, Pieces DEF Filed
  <2>. QED
    BY <1>3, <2>1, <2>2
<1>4. ASSUME NEW l \in Loggers, logger'[l].pc = "write"
      PROVE  own[logger'[l].inode] = LoggerDay(l)'
  <2>1. logger'[l] = logger[l] /\ logger[l].event \in Events
    BY <1>4, Pieces DEF InAppend
  <2>2. LoggerDay(l)' = LoggerDay(l)
    BY <2>1 DEF LoggerDay, EventDay
  <2>. QED
    BY <1>4, <2>1, <2>2 DEF Filed
<1>5. \A s \in Rotators : rotator'[s].pc \in Working => own[rotator'[s].inode] = rotator'[s].day
  BY DEF Filed
<1>. QED
  BY <1>1, <1>2, <1>3, <1>4, <1>5 DEF Filing, Filed

LEMMA FilingOpens ==
    ASSUME Shape, InAppend, Cutoffs, Filing, NEW l \in Loggers, LogOpens(l)
    PROVE  Filing'
<1>. DEFINE d == LoggerDay(l)
<1>0. /\ logger \in [Loggers -> Log] /\ plain \in [Days -> 0..Len(data)] /\ data \in Seq(File)
      /\ DOMAIN data = 1..Len(data) /\ Len(data) \in Nat /\ logger[l].pc = "open"
      /\ UNCHANGED <<now, stamp, logged, gz, rotator, reader>> /\ d \in Days
      /\ \A e : EventDay(e)' = EventDay(e)
  BY Pieces DEF Shape, LogOpens, EventDay, InAppend, LoggerDay
<1>. PICK own \in [DOMAIN data -> Days] : Filed(own)
  BY DEF Filing
<1>1. \A m \in Loggers \ {l} : logger'[m] = logger[m]
  BY <1>0 DEF LogOpens
<1>2. logger'[l].event = logger[l].event
  BY <1>0 DEF LogOpens, Log
<1>3. \A m \in Loggers : LoggerDay(m)' = LoggerDay(m)
  BY <1>0, <1>1, <1>2 DEF LoggerDay, EventDay
<1>. HIDE DEF d
<1>4. CASE plain[d] # 0
  <2>1. UNCHANGED <<data, plain>> /\ logger'[l].inode = plain[d]
    BY <1>0, <1>4 DEF LogOpens, d, LoggerDay, EventDay, Log
  <2>2. \A m \in Loggers : logger'[m].pc = "write" => own[logger'[m].inode] = LoggerDay(m)'
    BY <1>0, <1>1, <1>3, <1>4, <2>1 DEF Filed, d
  <2>3. Filed(own)'
    BY <1>0, <2>1, <2>2 DEF Filed
  <2>. QED
    BY <2>1, <2>3 DEF Filing
<1>5. CASE plain[d] = 0
  <2>. DEFINE n == Len(data) + 1
              new == [i \in 1..n |-> IF i = n THEN d ELSE own[i]]
  <2>1. /\ data' = Append(data, [lines |-> {}, torn |-> FALSE])
        /\ plain' = [plain EXCEPT ![d] = n] /\ logger'[l].inode = n
    BY <1>0, <1>5 DEF LogOpens, d, LoggerDay, EventDay, Log
  <2>2. /\ n \in Nat /\ DOMAIN data' = 1..n /\ data'[n] = [lines |-> {}, torn |-> FALSE]
        /\ \A i \in 1..Len(data) : data'[i] = data[i] /\ i # n /\ i \in 1..n
        /\ 1..n = (1..Len(data)) \cup {n}
    BY <2>1, <1>0
  <2>3. new \in [1..n -> Days] /\ new[n] = d /\ \A i \in 1..Len(data) : new[i] = own[i]
    BY <1>0, <2>2
  <2>. HIDE DEF n, new
  <2>4. \A i \in 1..n : \A e \in data'[i].lines : EventDay(e)' = new[i]
    <3>1. data'[n].lines = {}
      BY <2>2
    <3>. QED
      BY <3>1, <1>0, <2>2, <2>3 DEF Filed
  <2>5. \A x \in Days : plain'[x] # 0 => new[plain'[x]] = x
    <3>1. \A x \in Days : x # d /\ plain[x] # 0 => plain[x] \in 1..Len(data) /\ new[plain[x]] = x
      BY <1>0, <2>3 DEF Filed
    <3>. QED
      BY <3>1, <1>0, <2>1, <2>3
  <2>6. \A x \in Days : \A e \in gz'[x].events : EventDay(e)' = x
    BY <1>0 DEF Filed
  <2>7. ASSUME NEW m \in Loggers, logger'[m].pc = "write"
        PROVE  new[logger'[m].inode] = LoggerDay(m)'
    <3>1. CASE m = l
      BY <3>1, <1>3, <2>1, <2>3 DEF d
    <3>2. CASE m # l
      <4>1. logger'[m] = logger[m] /\ logger[m].inode \in 1..Len(data)
        BY <3>2, <2>7, <1>1, Pieces DEF InAppend
      <4>. QED
        BY <4>1, <2>3, <2>7, <1>3 DEF Filed
    <3>. QED
      BY <3>1, <3>2
  <2>8. ASSUME NEW s \in Rotators, rotator'[s].pc \in Working
        PROVE  new[rotator'[s].inode] = rotator'[s].day
    <3>1. rotator' = rotator /\ rotator[s].inode \in 1..Len(data)
      BY <2>8, <1>0, Pieces DEF Cutoffs
    <3>. QED
      BY <3>1, <2>3, <2>8 DEF Filed
  <2>9. new \in [DOMAIN data' -> Days]
        /\ \A i \in DOMAIN data' : \A e \in data'[i].lines : EventDay(e)' = new[i]
    BY <2>2, <2>3, <2>4
  <2>10. PICK g : g = new
    OBVIOUS
  <2>11. Filed(g)'
    BY <2>5, <2>6, <2>7, <2>8, <2>9, <2>10 DEF Filed
  <2>. QED
    BY <2>9, <2>10, <2>11 DEF Filing
<1>. QED
  BY <1>4, <1>5

LEMMA FilingWrites ==
    ASSUME Shape, InAppend, Cutoffs, Filing, NEW l \in Loggers, LogWrites(l)
    PROVE  Filing'
<1>. DEFINE n == logger[l].inode
            e == logger[l].event
<1>0. /\ logger \in [Loggers -> Log] /\ data \in Seq(File) /\ DOMAIN data = 1..Len(data)
      /\ n \in 1..Len(data) /\ e \in Events /\ logger[l].pc = "write"
      /\ UNCHANGED <<now, stamp, plain, gz, rotator, reader>>
      /\ logger' = [logger EXCEPT ![l] = NoLog]
      /\ \A x : EventDay(x)' = EventDay(x)
  BY Pieces DEF Shape, LogWrites, EventDay, InAppend
<1>. PICK own \in [DOMAIN data -> Days] : Filed(own)
  BY DEF Filing
<1>1. \A m \in Loggers : logger'[m].pc = "write" => logger'[m] = logger[m]
  BY <1>0 DEF NoLog
<1>2. DOMAIN data' = DOMAIN data
      /\ \A i \in DOMAIN data : data'[i].lines \subseteq data[i].lines \cup (IF i = n THEN {e} ELSE {})
  <2>. DEFINE f == [data[n] EXCEPT !.torn = TRUE]
              g == [lines |-> IF data[n].torn THEN data[n].lines ELSE data[n].lines \cup {e},
                    torn |-> FALSE]
  <2>1. data' = data \/ data' = [data EXCEPT ![n] = f] \/ data' = [data EXCEPT ![n] = g]
    BY DEF LogWrites
  <2>2. data[n] \in File
    BY <1>0, Pieces
  <2>3. f.lines \subseteq data[n].lines \cup {e} /\ g.lines \subseteq data[n].lines \cup {e}
    BY <2>2 DEF File
  <2>. HIDE DEF f, g, n, e
  <2>. QED
    BY <1>0, <2>1, <2>3
<1>3. own[n] = EventDay(e)
  BY <1>0 DEF Filed, LoggerDay
<1>4. \A m \in Loggers : LoggerDay(m)' = EventDay(logger'[m].event)
  BY <1>0 DEF LoggerDay, EventDay
<1>5. \A i \in DOMAIN data' : \A x \in data'[i].lines : EventDay(x)' = own[i]
  BY <1>0, <1>2, <1>3 DEF Filed
<1>6. \A m \in Loggers : logger'[m].pc = "write" => own[logger'[m].inode] = LoggerDay(m)'
  BY <1>1, <1>4 DEF Filed, LoggerDay
<1>. QED
  BY <1>0, <1>2, <1>5, <1>6, SMTT(30) DEF Filing, Filed

LEMMA FilingNext ==
    ASSUME Shape, InAppend, Cutoffs, Filing, Step PROVE Filing'
<1>0. \A e \in Events : EventDay(e)' = EventDay(e)
  BY Onwards
<1>1. CASE Tick
  BY <1>0, <1>1, FilingFrame DEF Tick
<1>2. ASSUME NEW l \in Loggers, LogBegins(l) \/ LoggerCrashes(l) PROVE Filing'
  <2>1. UNCHANGED <<data, plain, gz, rotator>>
    BY <1>2 DEF LogBegins, LoggerCrashes
  <2>2. \A m \in Loggers : logger'[m].pc = "write" => logger'[m] = logger[m]
    BY <1>2 DEF LogBegins, LoggerCrashes, NoLog, Shape
  <2>. QED
    BY <1>0, <2>1, <2>2, FilingFrame
<1>3. ASSUME NEW l \in Loggers, LogOpens(l) \/ LogWrites(l) PROVE Filing'
  BY <1>3, FilingOpens, FilingWrites
<1>4. ASSUME NEW r \in Rotators, RotatorStep(r) PROVE Filing'
  <2>1. UNCHANGED <<data, logger>>
    BY <1>4, RotatorSummary DEF RotatorFrame
  <2>2. \A d \in Days : plain'[d] \in {0, plain[d]}
    BY <1>4, RotatorSummary
  <2>3. \A s \in Rotators : rotator'[s].pc \in Working =>
              \/ /\ rotator[s].pc \in Working
                 /\ rotator'[s].day = rotator[s].day /\ rotator'[s].inode = rotator[s].inode
              \/ /\ rotator'[s].day \in Days /\ rotator'[s].inode # 0
                 /\ plain[rotator'[s].day] = rotator'[s].inode
    BY <1>4, RotatorSummary
  <2>4. \A d \in Days :
              \/ gz'[d].events \subseteq gz[d].events
              \/ /\ r \in Rotators /\ On(r, d)
                 /\ gz'[d].events \subseteq data[rotator[r].inode].lines
    <3>1. /\ Partial.events = {}
          /\ \A old, es : Compressed(old, es).events \subseteq es
      BY DEF Compressed, Partial, Whole
    <3>. QED
      BY <3>1, <1>4, RotatorSummary
  <2>. QED
    BY <1>0, <2>1, <2>2, <2>3, <2>4, FilingFrame
<1>5. ASSUME NEW q \in Readers, ReaderStep(q) PROVE Filing'
  <2>1. ReaderFrame
    BY <1>5, ReaderFrames
  <2>. QED
    BY <1>0, <2>1, FilingFrame DEF ReaderFrame
<1>. QED
  BY <1>1, <1>2, <1>3, <1>4, <1>5 DEF Step, RotatorStep, ReaderStep

-----------------------------------------------------------------------------
(* Rotations one at a time *)

\* A name is taken away by the rotation at its day, which then leaves it, or because
\* the day is older than --delete-age.
LEMMA Unlinks ==
    ASSUME Shape, Cutoffs, NEW r \in Rotators, RotatorStep(r)
    PROVE  /\ rotator'[r].pc \in Working => plain' = plain
           /\ rotator[r].pc = "idle" =>
                "overlap" \in faults \/ \A s \in Rotators : rotator[s].pc = "idle"
           /\ \A d \in Days : plain'[d] # plain[d] =>
                 \/ On(r, d) /\ rotator[r].pc = "remove" /\ rotator'[r].pc = "rotate" /\ gz' = gz
                 \/ Dead(d)
<1>0. /\ rotator \in [Rotators -> Rotation] /\ plain \in [Days -> 0..Len(data)]
      /\ rotator[r].cutoff \in Int /\ now \in Int
  BY Pieces DEF Shape
<1>1. \A x : Moves(r, x) => rotator'[r] = x
  BY <1>0 DEF Moves
<1>2. CASE RotateBegins(r)
  BY <1>2, Begins DEF FilesStay
<1>3. CASE RotateOpens(r) \/ DeleteBegins(r) \/ DeleteEnds(r) \/ RotatorExits(r) \/ RotatorCrashes(r)
  BY <1>3, Opens, BeginsDeletion, Leaves DEF FilesStay
<1>4. CASE RotateCreates(r) \/ RotateCopies(r)
  BY <1>4, Creates, Copies
<1>5. CASE RotateRemoves(r)
  <2>1. /\ rotator[r].pc = "remove" /\ gz' = gz /\ rotator'[r].pc = "rotate"
        /\ plain' = [plain EXCEPT ![rotator[r].day] = 0]
    BY <1>1, <1>5, Removes, AtFacts
  <2>2. \A d \in Days : plain'[d] # plain[d] => On(r, d)
    BY <1>0, <2>1 DEF On, Working
  <2>. QED
    BY <2>1, <2>2 DEF Working
<1>6. CASE DeleteRemoves(r)
  <2>1. rotator[r].pc = "delete" /\ rotator'[r].pc = "delete"
    BY <1>1, <1>6, Deletes
  <2>2. DeleteAge # 0 /\ rotator[r].cutoff <= now - DeleteAge * Slots
    BY <2>1 DEF Cutoffs
  <2>3. \A d \in Days : Midnight(d) < rotator[r].cutoff => Dead(d)
    <3>1. DeleteAge * Slots \in Nat /\ \A d \in Days : Midnight(d) \in Int
      BY DayTypes
    <3>. QED
      BY <1>0, <2>2, <3>1 DEF Dead
  <2>4. \A d \in Days : plain'[d] # plain[d] => Dead(d)
    BY <1>0, <1>6, <2>3, Deletes
  <2>. QED
    BY <2>1, <2>4 DEF Working
<1>. QED
  BY <1>2, <1>3, <1>4, <1>5, <1>6 DEF RotatorStep

LEMMA AloneNext ==
    ASSUME ShortStall, Shape, InAppend, Cutoffs, Alone, Step, faults' = faults PROVE Alone'
<1>. SUFFICES ASSUME "overlap" \notin faults, NEW r \in Rotators
              PROVE  /\ rotator'[r].pc # "idle" =>
                           \A s \in Rotators : rotator'[s].pc # "idle" => s = r
                     /\ rotator'[r].pc \in Working => plain'[rotator'[r].day] = rotator'[r].inode
  BY DEF Alone
<1>0. \A s \in Rotators : /\ rotator[s].pc # "idle" =>
                               \A t \in Rotators : rotator[t].pc # "idle" => t = s
                          /\ rotator[s].pc \in Working =>
                               /\ plain[rotator[s].day] = rotator[s].inode
                               /\ rotator[s].day \in Days /\ rotator[s].inode # 0
  BY Pieces DEF Alone, Cutoffs
<1>1. CASE Tick
  BY <1>0, <1>1 DEF Tick
<1>2. ASSUME NEW l \in Loggers, LogBegins(l) \/ LogOpens(l) \/ LogWrites(l) \/ LoggerCrashes(l)
      PROVE  rotator' = rotator /\ \A d \in Days : plain'[d] = plain[d] \/ plain[d] = 0
  BY <1>2, LoggerSummary
<1>3. ASSUME NEW q \in Readers, ReaderStep(q) PROVE rotator' = rotator /\ plain' = plain
  BY <1>3, ReaderFrames DEF ReaderFrame
<1>4. ASSUME NEW x \in Rotators, RotatorStep(x)
      PROVE  /\ rotator'[r].pc # "idle" => \A s \in Rotators : rotator'[s].pc # "idle" => s = r
             /\ rotator'[r].pc \in Working => plain'[rotator'[r].day] = rotator'[r].inode
  <2>1. \A s \in Rotators : s # x => rotator[s].pc = "idle" /\ rotator'[s].pc = "idle"
    BY <1>0, <1>4, Unlinks, RotatorSummary
  <2>2. rotator'[x].pc \in Working => plain'[rotator'[x].day] = rotator'[x].inode
    BY <1>0, <1>4, Unlinks, RotatorSummary
  <2>3. "idle" \notin Working
    BY DEF Working
  <2>. QED
    BY <2>1, <2>2, <2>3
<1>5. CASE rotator' = rotator /\ \A d \in Days : plain'[d] = plain[d] \/ plain[d] = 0
  BY <1>0, <1>5
<1>. QED
  BY <1>1, <1>2, <1>3, <1>4, <1>5 DEF Step, RotatorStep, ReaderStep

-----------------------------------------------------------------------------
(* Nothing is lost *)

\* An event that is compressed, or about to be, stays so, except if a rotation dies
\* while it copies.
LEMMA StaysCompressed ==
    ASSUME Shape, Cutoffs, Steady, Sound, NEW r \in Rotators, RotatorStep(r),
           NEW d \in Days, NEW e, e \in gz[d].events \/ Compressing(d),
           \A s \in Rotators : On(s, d) => e \in data[rotator[s].inode].lines,
           ~(RotatorCrashes(r) /\ On(r, d) /\ rotator[r].pc = "copy")
    PROVE  e \in gz'[d].events \/ Compressing(d)'
<1>0. /\ rotator \in [Rotators -> Rotation] /\ gz \in [Days -> Gzipped]
      /\ rotator[r].day \in Days
  BY Pieces DEF Shape
<1>1. \A x : Moves(r, x) => rotator'[r] = x
  BY <1>0 DEF Moves
<1>2. \A s \in Rotators : s # r => rotator'[s] = rotator[s]
  BY RotatorSummary
<1>3. CASE gz'[d] = gz[d] /\ ~(On(r, d) /\ rotator[r].pc = "copy")
  BY <1>2, <1>3 DEF Compressing, On
<1>4. CASE RotateCreates(r)
  <2>1. CASE Moves(r, At(r, "copy"))
    <3>1. rotator'[r].pc = "copy" /\ rotator'[r].day = rotator[r].day
      BY <1>1, <2>1, AtFacts
    <3>2. rotator[r].day = d => Compressing(d)'
      BY <3>1 DEF Compressing, On, Working
    <3>3. rotator[r].day # d => gz'[d] = gz[d]
      BY <1>0, <1>4, Creates
    <3>. QED
      BY <1>3, <3>2, <3>3 DEF On
  <2>2. CASE gz' = gz
    BY <1>3, <1>4, <2>2, Creates DEF On
  <2>. QED
    BY <1>4, <2>1, <2>2, Creates
<1>5. CASE RotateCopies(r)
  <2>1. gz' = [gz EXCEPT ![rotator[r].day] =
                  Compressed(gz[rotator[r].day], data[rotator[r].inode].lines)]
    BY <1>5, Copies DEF Sound
  <2>2. CASE rotator[r].day = d
    <3>1. On(r, d)
      BY <1>5, <2>2, Copies DEF On, Working
    <3>2. gz[d].events \subseteq data[rotator[r].inode].lines /\ e \in data[rotator[r].inode].lines
      BY <3>1 DEF Steady
    <3>3. gz'[d] = Whole(data[rotator[r].inode].lines)
      BY <1>0, <2>1, <2>2, <3>2 DEF Compressed
    <3>. QED
      BY <3>2, <3>3 DEF Whole
  <2>3. CASE rotator[r].day # d
    BY <1>0, <1>3, <2>1, <2>3 DEF On
  <2>. QED
    BY <2>2, <2>3
<1>6. CASE ~RotateCreates(r) /\ ~RotateCopies(r)
  <2>1. gz' = gz
    BY <1>6, Begins, Opens, Removes, BeginsDeletion, Deletes, Leaves DEF RotatorStep, FilesStay
  <2>2. On(r, d) => rotator[r].pc # "copy"
    BY <1>6, Begins, Opens, Removes, BeginsDeletion, Deletes DEF RotatorStep, DeleteEnds, RotatorExits
  <2>. QED
    BY <1>3, <2>1, <2>2
<1>. QED
  BY <1>4, <1>5, <1>6

LEMMA KeptRotator ==
    ASSUME ShortStall, Shape, InAppend, Cutoffs, Steady, Alone, Kept,
           NEW r \in Rotators, RotatorStep(r), faults' = faults
    PROVE  Kept'
<1>. SUFFICES ASSUME Sound PROVE
        /\ \A i \in DOMAIN data' : ~data'[i].torn
        /\ \A l \in Loggers : logger'[l].pc = "write" /\ ~Dead(LoggerDay(l))' =>
              plain'[LoggerDay(l)'] = logger'[l].inode
        /\ \A e \in logged' : ~Dead(EventDay(e))' => Held(e)'
  BY DEF Kept, Sound
<1>0. /\ UNCHANGED <<now, stamp, logged, data, logger, reader>>
      /\ \A e : EventDay(e)' = EventDay(e)
      /\ \A d : (Dead(d)' <=> Dead(d)) /\ (Closed(d)' <=> Closed(d))
  BY RotatorSummary DEF RotatorFrame, EventDay, Dead, Closed
<1>1. \A i \in DOMAIN data' : ~data'[i].torn
  BY <1>0 DEF Kept
<1>2. ASSUME NEW l \in Loggers, logger[l].pc = "write", ~Dead(LoggerDay(l))
      PROVE  plain'[LoggerDay(l)] = logger[l].inode
  <2>1. LoggerDay(l) \in Days /\ ~Closed(LoggerDay(l)) /\ plain[LoggerDay(l)] = logger[l].inode
    BY <1>2, AppendsOpen DEF Kept
  <2>2. ~On(r, LoggerDay(l))
    BY <2>1 DEF On, Cutoffs
  <2>. QED
    BY <1>2, <2>1, <2>2, Unlinks
<1>3. \A l \in Loggers : logger'[l].pc = "write" /\ ~Dead(LoggerDay(l))' =>
              plain'[LoggerDay(l)'] = logger'[l].inode
  BY <1>0, <1>2 DEF LoggerDay, EventDay, Dead
<1>4. ASSUME NEW e \in logged, NEW d \in Days, d = EventDay(e), ~Dead(d)
      PROVE  /\ plain'[d] # 0 => e \in Lines(d)'
             /\ plain'[d] = 0 => Closed(d)' /\ (e \in gz'[d].events \/ Compressing(d)')
             /\ \A s \in Rotators : On(s, d)' =>
                   /\ e \in data'[rotator'[s].inode].lines
                   /\ rotator'[s].pc = "remove" => e \in gz'[d].events \/ Compressing(d)'
  <2>0. /\ plain[d] # 0 => e \in Lines(d)
        /\ plain[d] = 0 => Closed(d) /\ (e \in gz[d].events \/ Compressing(d))
        /\ \A s \in Rotators : On(s, d) =>
              /\ e \in data[rotator[s].inode].lines
              /\ rotator[s].pc = "remove" => e \in gz[d].events \/ Compressing(d)
              /\ Closed(d)
              /\ rotator[s].inode # 0
    BY <1>4 DEF Kept, Held, On, Cutoffs
  <2>1. plain'[d] # 0 => e \in Lines(d)'
    BY <1>0, <2>0, RotatorSummary DEF Lines
  \* A rotation that may die is alone, and the file it copies has its name still.
  <2>2. ASSUME RotatorCrashes(r), On(r, d)
        PROVE  plain[d] # 0 /\ \A s \in Rotators \ {r} : ~On(s, d)
    <3>1. "overlap" \notin faults
      BY <2>2, Leaves DEF Sound
    <3>. QED
      BY <2>0, <2>2, <3>1 DEF Alone, On, Working
  <2>3. plain'[d] = 0 => Closed(d)' /\ (e \in gz'[d].events \/ Compressing(d)')
    <3>1. CASE plain[d] = 0
      <4>1. ~(RotatorCrashes(r) /\ On(r, d) /\ rotator[r].pc = "copy")
        BY <2>2, <3>1
      <4>. QED
        BY <1>0, <2>0, <3>1, <4>1, StaysCompressed
    <3>2. CASE plain[d] # 0 /\ plain'[d] = 0
      <4>1. On(r, d) /\ rotator[r].pc = "remove"
        BY <1>4, <3>2, Unlinks
      <4>2. Closed(d) /\ (e \in gz[d].events \/ Compressing(d))
        BY <2>0, <4>1
      <4>. QED
        BY <1>0, <2>0, <4>1, <4>2, StaysCompressed
    <3>. QED
      BY <3>1, <3>2
  <2>4. ASSUME NEW s \in Rotators, On(s, d)'
        PROVE  e \in data'[rotator'[s].inode].lines
    <3>1. \/ On(s, d) /\ rotator'[s].inode = rotator[s].inode
          \/ rotator'[s].inode # 0 /\ plain[d] = rotator'[s].inode
      BY <2>4, RotatorSummary DEF On
    <3>. QED
      BY <1>0, <2>0, <3>1 DEF Lines
  <2>5. ASSUME NEW s \in Rotators, On(s, d)', rotator'[s].pc = "remove"
        PROVE  e \in gz'[d].events \/ Compressing(d)'
    <3>1. CASE s = r
      <4>1. RotateCopies(r)
        <5>1. rotator \in [Rotators -> Rotation] /\ \A x : Moves(r, x) => rotator'[r] = x
          BY DEF Shape, Moves
        <5>2. ~RotateBegins(r) /\ ~RotateOpens(r) /\ ~DeleteBegins(r) /\ ~DeleteRemoves(r)
          BY <2>5, <3>1, <5>1, Begins, Opens, BeginsDeletion, Deletes
        <5>3. ~DeleteEnds(r) /\ ~RotatorExits(r) /\ ~RotatorCrashes(r)
          BY <2>5, <3>1, <5>1, Leaves
        <5>4. ~RotateCreates(r) /\ ~RotateRemoves(r)
          BY <2>5, <3>1, <5>1, Creates, Removes, AtFacts
        <5>. QED
          BY <5>2, <5>3, <5>4 DEF RotatorStep
      <4>2. rotator[r].pc = "copy" /\ On(r, d)
        BY <2>5, <3>1, <4>1, Copies, RotatorSummary DEF On, Working
      <4>3. Compressing(d) /\ ~RotatorCrashes(r)
        <5>1. ~RotatorCrashes(r)
          <6>1. RotatorCrashes(r) => rotator'[r].pc = "idle"
            BY DEF RotatorCrashes, NoRotation, Shape
          <6>. QED
            BY <6>1, <2>5, <3>1
        <5>. QED
          BY <4>2, <5>1 DEF Compressing
      <4>. QED
        BY <2>0, <4>3, StaysCompressed
    <3>2. CASE s # r
      <4>1. rotator'[s] = rotator[s] /\ On(s, d)
        BY <2>5, <3>2, RotatorSummary DEF On
      <4>2. ~(RotatorCrashes(r) /\ On(r, d))
        BY <2>2, <3>2, <4>1
      <4>. QED
        BY <2>0, <2>5, <4>1, <4>2, StaysCompressed
    <3>. QED
      BY <3>1, <3>2
  <2>. QED
    BY <2>1, <2>3, <2>4, <2>5
<1>5. \A e \in logged : EventDay(e) \in Days
  BY Pieces DEF Shape
<1>6. ASSUME NEW e \in logged, ~Dead(EventDay(e)) PROVE Held(e)'
  <2>1. PICK d \in Days : d = EventDay(e)
    BY <1>5
  <2>2. d = EventDay(e)'
    BY <1>0, <2>1
  <2>. QED
    BY <1>4, <1>6, <2>1, <2>2 DEF Held
<1>7. \A e \in logged' : ~Dead(EventDay(e))' => Held(e)'
  BY <1>0, <1>6 DEF Dead
<1>. QED
  BY <1>1, <1>3, <1>7

\* The other steps take no name away and empty no file.
LEMMA HeldFrame ==
    ASSUME Shape, Cutoffs, NEW e \in Events, EventDay(e) \in Days, Held(e),
           EventDay(e)' = EventDay(e), UNCHANGED <<gz, rotator>>,
           \A i \in 1..Len(data) : data[i].lines \subseteq data'[i].lines,
           \A d \in Days : plain'[d] = plain[d] \/ (plain[d] = 0 /\ ~Closed(d)),
           \A d \in Days : Closed(d) => Closed(d)'
    PROVE  Held(e)'
<1>1. PICK d \in Days : d = EventDay(e)
  OBVIOUS
<1>2. plain'[d] = plain[d] /\ (plain[d] = 0 => Closed(d)')
  BY <1>1 DEF Held
<1>3. plain'[d] # 0 => e \in Lines(d)'
  BY <1>1, <1>2, Pieces DEF Held, Lines
<1>4. plain'[d] = 0 => Closed(d)' /\ (e \in gz'[d].events \/ Compressing(d)')
  BY <1>1, <1>2 DEF Held, Compressing, On
<1>5. ASSUME NEW s \in Rotators, On(s, d)'
      PROVE  /\ e \in data'[rotator'[s].inode].lines
             /\ rotator'[s].pc = "remove" => e \in gz'[d].events \/ Compressing(d)'
  <2>1. On(s, d) /\ rotator[s].inode \in 1..Len(data)
    BY <1>5, Pieces DEF On, Cutoffs
  <2>. QED
    BY <1>1, <2>1 DEF Held, Compressing, On
<1>6. d = EventDay(e)'
  BY <1>1
<1>. QED
  BY <1>3, <1>4, <1>5, <1>6 DEF Held

LEMMA KeptFrame ==
    ASSUME Shape, Cutoffs, Kept, UNCHANGED <<gz, rotator, data, plain, logged, faults>>,
           \A e \in Events : EventDay(e)' = EventDay(e),
           \A l \in Loggers : logger'[l].pc = "write" =>
                logger'[l] = logger[l] /\ logger[l].event \in Events,
           \A d \in Days : (Closed(d) => Closed(d)') /\ (Dead(d) => Dead(d)')
    PROVE  Kept'
<1>. SUFFICES ASSUME Sound PROVE
        /\ \A i \in DOMAIN data' : ~data'[i].torn
        /\ \A l \in Loggers : logger'[l].pc = "write" /\ ~Dead(LoggerDay(l))' =>
              plain'[LoggerDay(l)'] = logger'[l].inode
        /\ \A e \in logged' : ~Dead(EventDay(e))' => Held(e)'
  BY DEF Kept, Sound
<1>0. \A e \in Events : EventDay(e) \in Days
  BY Pieces
<1>1. \A i \in DOMAIN data' : ~data'[i].torn
  BY DEF Kept
<1>2. ASSUME NEW l \in Loggers, logger'[l].pc = "write", ~Dead(LoggerDay(l))'
      PROVE  plain'[LoggerDay(l)'] = logger'[l].inode
  <2>1. PICK d \in Days : d = LoggerDay(l)
    BY <1>0, <1>2 DEF LoggerDay
  <2>2. d = LoggerDay(l)'
    BY <1>2, <2>1 DEF LoggerDay, EventDay
  <2>3. ~Dead(d)
    BY <1>2, <2>2 DEF Dead
  <2>. QED
    BY <1>2, <2>1, <2>2, <2>3 DEF Kept
<1>3. ASSUME NEW e \in logged, ~Dead(EventDay(e))' PROVE Held(e)'
  <2>1. e \in Events
    BY DEF Shape
  <2>2. PICK d \in Days : d = EventDay(e) /\ d = EventDay(e)'
    BY <1>0, <2>1
  <2>3. ~Dead(d)
    BY <1>3, <2>2 DEF Dead
  <2>4. Held(e)
    BY <2>2, <2>3 DEF Kept
  <2>. QED
    BY <1>0, <2>1, <2>4, HeldFrame
<1>. QED
  BY <1>1, <1>2, <1>3

LEMMA KeptOpens ==
    ASSUME ShortStall, Shape, InAppend, Cutoffs, Kept, NEW l \in Loggers, LogOpens(l),
           faults' = faults
    PROVE  Kept'
<1>. SUFFICES ASSUME Sound PROVE
        /\ \A i \in DOMAIN data' : ~data'[i].torn
        /\ \A m \in Loggers : logger'[m].pc = "write" /\ ~Dead(LoggerDay(m))' =>
              plain'[LoggerDay(m)'] = logger'[m].inode
        /\ \A e \in logged' : ~Dead(EventDay(e))' => Held(e)'
  BY DEF Kept, Sound
<1>. DEFINE d == LoggerDay(l)
<1>0. /\ logger \in [Loggers -> Log] /\ plain \in [Days -> 0..Len(data)] /\ data \in Seq(File)
      /\ DOMAIN data = 1..Len(data) /\ Len(data) \in Nat /\ logger[l].pc = "open"
      /\ UNCHANGED <<now, stamp, logged, gz, rotator, reader>> /\ d \in Days
      /\ \A e : EventDay(e)' = EventDay(e)
      /\ \A x : (Dead(x)' <=> Dead(x)) /\ (Closed(x)' <=> Closed(x))
  BY Pieces DEF Shape, LogOpens, EventDay, InAppend, LoggerDay, Dead, Closed
<1>1. \A m \in Loggers \ {l} : logger'[m] = logger[m]
  BY <1>0 DEF LogOpens
<1>2. logger'[l].event = logger[l].event
  BY <1>0 DEF LogOpens, Log
<1>3. \A m \in Loggers : LoggerDay(m)' = LoggerDay(m)
  BY <1>0, <1>1, <1>2 DEF LoggerDay, EventDay
<1>4. \/ UNCHANGED <<data, plain>> /\ logger'[l].inode = plain[d] /\ plain[d] # 0
      \/ /\ plain[d] = 0 /\ data' = Append(data, [lines |-> {}, torn |-> FALSE])
         /\ plain' = [plain EXCEPT ![d] = Len(data) + 1]
         /\ logger'[l].inode = Len(data) + 1
  BY <1>0 DEF LogOpens, LoggerDay, EventDay, Log
<1>. HIDE DEF d
<1>5. \A i \in DOMAIN data' : ~data'[i].torn
  <2>1. \A i \in 1..Len(data) : ~data[i].torn
    BY <1>0 DEF Kept
  <2>2. CASE UNCHANGED data
    BY <1>0, <2>1, <2>2
  <2>3. CASE data' = Append(data, [lines |-> {}, torn |-> FALSE])
    <3>1. DOMAIN data' = 1..(Len(data) + 1) /\ \A i \in 1..Len(data) : data'[i] = data[i]
      BY <1>0, <2>3
    <3>2. data'[Len(data) + 1] = [lines |-> {}, torn |-> FALSE]
      BY <1>0, <2>3
    <3>3. ~data'[Len(data) + 1].torn
      BY <3>2
    <3>. QED
      BY <1>0, <2>1, <3>1, <3>3
  <2>. QED
    BY <1>4, <2>2, <2>3
<1>6. plain'[d] = logger'[l].inode /\ \A x \in Days : plain[x] # 0 => plain'[x] = plain[x]
  BY <1>0, <1>4
<1>7. ASSUME NEW m \in Loggers, logger'[m].pc = "write", ~Dead(LoggerDay(m))'
      PROVE  plain'[LoggerDay(m)'] = logger'[m].inode
  <2>1. CASE m = l
    BY <1>3, <1>6, <2>1 DEF d
  <2>2. CASE m # l
    <3>1. logger[m].pc = "write" /\ logger[m].inode # 0 /\ logger[m].event \in Events
      BY <1>1, <1>7, <2>2, Pieces DEF InAppend
    <3>2. PICK x \in Days : x = LoggerDay(m)
      BY <3>1, Pieces DEF LoggerDay
    <3>3. ~Dead(x)
      BY <1>0, <1>3, <1>7, <3>2 DEF Dead
    <3>4. plain[x] = logger[m].inode
      BY <3>1, <3>2, <3>3 DEF Kept
    <3>. QED
      BY <1>1, <1>3, <1>6, <2>2, <3>1, <3>2, <3>4
  <2>. QED
    BY <2>1, <2>2
<1>8. ASSUME NEW e \in logged, ~Dead(EventDay(e))' PROVE Held(e)'
  <2>1. e \in Events /\ EventDay(e) \in Days
    BY Pieces DEF Shape
  <2>2. Held(e)
    BY <1>0, <1>8, <2>1 DEF Kept, Dead
  <2>. QED
    BY <1>0, <2>1, <2>2, HeldFrame, LoggerSummary
<1>. QED
  BY <1>0, <1>5, <1>7, <1>8

LEMMA KeptWrites ==
    ASSUME ShortStall, Shape, InAppend, Cutoffs, Kept, NEW l \in Loggers, LogWrites(l),
           faults' = faults
    PROVE  Kept'
<1>. SUFFICES ASSUME Sound PROVE
        /\ \A i \in DOMAIN data' : ~data'[i].torn
        /\ \A m \in Loggers : logger'[m].pc = "write" /\ ~Dead(LoggerDay(m))' =>
              plain'[LoggerDay(m)'] = logger'[m].inode
        /\ \A e \in logged' : ~Dead(EventDay(e))' => Held(e)'
  BY DEF Kept, Sound
<1>. DEFINE n == logger[l].inode
            w == logger[l].event
            g == [lines |-> data[n].lines \cup {w}, torn |-> FALSE]
<1>0. /\ logger \in [Loggers -> Log] /\ data \in Seq(File) /\ DOMAIN data = 1..Len(data)
      /\ n \in 1..Len(data) /\ w \in Events /\ logger[l].pc = "write"
      /\ UNCHANGED <<now, stamp, plain, gz, rotator, reader>>
      /\ logger' = [logger EXCEPT ![l] = NoLog]
      /\ \A x : EventDay(x)' = EventDay(x)
      /\ \A x : (Dead(x)' <=> Dead(x)) /\ (Closed(x)' <=> Closed(x))
  BY Pieces DEF Shape, LogWrites, EventDay, InAppend, Dead, Closed
<1>1. data' = [data EXCEPT ![n] = g] /\ logged' = logged \cup {w}
  <2>1. ~data[n].torn
    BY <1>0 DEF Kept
  <2>. QED
    BY <2>1 DEF LogWrites, Sound
<1>2. g.lines = data[n].lines \cup {w} /\ g.torn = FALSE
  OBVIOUS
<1>. HIDE DEF g
<1>3. \A i \in DOMAIN data' : ~data'[i].torn
  BY <1>0, <1>1, <1>2 DEF Kept
<1>4. ASSUME NEW m \in Loggers, logger'[m].pc = "write", ~Dead(LoggerDay(m))'
      PROVE  plain'[LoggerDay(m)'] = logger'[m].inode
  <2>1. logger'[m] = logger[m]
    BY <1>0, <1>4 DEF NoLog
  <2>2. LoggerDay(m)' = LoggerDay(m)
    BY <1>0, <2>1 DEF LoggerDay, EventDay
  <2>3. ~Dead(LoggerDay(m))
    BY <1>0, <1>4, <2>2 DEF Dead
  <2>. QED
    BY <1>0, <1>4, <2>1, <2>2, <2>3 DEF Kept
<1>5. ASSUME NEW e \in logged, ~Dead(EventDay(e))' PROVE Held(e)'
  <2>1. e \in Events /\ EventDay(e) \in Days
    BY Pieces DEF Shape
  <2>2. Held(e)
    BY <1>0, <1>5, <2>1 DEF Kept, Dead
  <2>. QED
    BY <1>0, <2>1, <2>2, HeldFrame, LoggerSummary
<1>6. ASSUME NEW e, e = w, ~Dead(EventDay(e))' PROVE Held(e)'
  <2>1. PICK d \in Days : d = LoggerDay(l)
    BY <1>0, Pieces DEF LoggerDay
  <2>2. ~Closed(d) /\ d = EventDay(e) /\ d = EventDay(e)'
    <3>1. EventDay(e)' = EventDay(e) /\ d = EventDay(e)
      BY <1>0, <1>6, <2>1 DEF LoggerDay
    <3>. QED
      BY <1>0, <2>1, <3>1, AppendsOpen
  <2>3. plain[d] = n
    BY <1>0, <1>6, <2>1, <2>2 DEF Kept, Dead
  <2>4. plain'[d] = n /\ n # 0 /\ e \in data'[n].lines
    BY <1>0, <1>1, <1>2, <1>6, <2>3
  <2>6. plain'[d] # 0 /\ e \in Lines(d)'
    BY <2>4 DEF Lines
  <2>5. \A r \in Rotators : ~On(r, d)'
    BY <1>0, <2>2 DEF On, Cutoffs
  <2>. QED
    BY <2>2, <2>5, <2>6 DEF Held
<1>7. \A e \in logged' : ~Dead(EventDay(e))' => Held(e)'
  BY <1>1, <1>5, <1>6
<1>. QED
  BY <1>3, <1>4, <1>7

LEMMA KeptNext ==
    ASSUME ShortStall, Shape, InAppend, Cutoffs, Steady, Alone, Kept, Step, faults' = faults
    PROVE  Kept'
<1>0. /\ \A e \in Events : EventDay(e)' = EventDay(e)
      /\ \A d \in Days : (Closed(d) => Closed(d)') /\ (Dead(d) => Dead(d)')
      /\ \A l \in Loggers : logger[l].pc = "write" => logger[l].event \in Events
  BY Onwards, Pieces DEF InAppend
<1>1. CASE Tick
  BY <1>0, <1>1, KeptFrame DEF Tick
<1>2. ASSUME NEW l \in Loggers, LogBegins(l) \/ LoggerCrashes(l) PROVE Kept'
  <2>1. UNCHANGED <<data, plain, gz, rotator, logged>>
    BY <1>2 DEF LogBegins, LoggerCrashes
  <2>2. \A m \in Loggers : logger'[m].pc = "write" => logger'[m] = logger[m]
    BY <1>2 DEF LogBegins, LoggerCrashes, NoLog, Shape
  <2>. QED
    BY <1>0, <2>1, <2>2, KeptFrame
<1>3. ASSUME NEW l \in Loggers, LogOpens(l) \/ LogWrites(l) PROVE Kept'
  BY <1>3, KeptOpens, KeptWrites
<1>4. ASSUME NEW r \in Rotators, RotatorStep(r) PROVE Kept'
  BY <1>4, KeptRotator
<1>5. ASSUME NEW q \in Readers, ReaderStep(q) PROVE Kept'
  <2>1. ReaderFrame
    BY <1>5, ReaderFrames
  <2>2. UNCHANGED logged
    BY <2>1 DEF ReaderFrame
  <2>. QED
    BY <1>0, <2>1, <2>2, KeptFrame DEF ReaderFrame
<1>. QED
  BY <1>1, <1>2, <1>3, <1>4, <1>5 DEF Step, RotatorStep, ReaderStep

-----------------------------------------------------------------------------
(* Queries *)

\* What can be read is in the plain file of its day, or if that has no name, in its
\* .gz file; then the day is closed.
LEMMA ReadableWhere ==
    ASSUME Shape, Filing, Steady, NEW e \in Readable
    PROVE  /\ e \in Events /\ EventDay(e) \in Days
           /\ plain[EventDay(e)] # 0 => e \in Lines(EventDay(e))
           /\ plain[EventDay(e)] = 0 => /\ e \in gz[EventDay(e)].events
                                        /\ gz[EventDay(e)].state # "absent"
                                        /\ Closed(EventDay(e))
<1>1. e \in Events /\ EventDay(e) \in Days
  BY ReadableTyped, Pieces
<1>2. PICK own \in [DOMAIN data -> Days] : Filed(own)
  BY DEF Filing
<1>3. PICK d \in Days : e \in Lines(d) \/ e \in gz[d].events
  BY ReadableFrom
<1>4. d = EventDay(e)
  <2>1. CASE e \in Lines(d)
    <3>1. plain[d] \in 1..Len(data) /\ e \in data[plain[d]].lines
      BY <2>1, Pieces DEF Lines
    <3>. QED
      BY <1>2, <3>1, Pieces DEF Filed
  <2>2. CASE e \in gz[d].events
    BY <1>2, <2>2 DEF Filed
  <2>. QED
    BY <1>3, <2>1, <2>2
<1>5. /\ plain[d] # 0 => e \in Lines(d)
      /\ plain[d] = 0 => e \in gz[d].events /\ gz[d].state # "absent" /\ Closed(d)
  <2>1. plain[d] = 0 => Lines(d) = {}
    BY DEF Lines
  <2>2. gz[d].events # {} => gz[d].state # "absent" /\ Closed(d)
    BY DEF Steady
  <2>. QED
    BY <1>3, <2>1, <2>2 DEF Steady
<1>. QED
  BY <1>1, <1>4, <1>5

\* Where dates are read as they are written, a file of an event in the range is in it.
LEMMA RangeOfFile ==
    ASSUME Shape, SameClock, NEW e \in Events,
           NEW since \in Bounds \cup {Unset}, NEW until \in Bounds \cup {Unset},
           Matches(e, since, until)
    PROVE  Relevant(EventDay(e), since, until)
<1>. DEFINE d == EventDay(e)
            t == stamp[e]
<1>0. CASE Bounds = {}
  BY <1>0 DEF Relevant
<1>. SUFFICES ASSUME Offset = 0 PROVE Relevant(d, since, until)
  BY <1>0 DEF SameClock
<1>1. t \in 0..MaxTime /\ d = LocalDay(t) /\ Slots \in Nat /\ Slots > 0
      /\ since \in Nat /\ until \in Nat
  <2>1. Bounds \subseteq Nat
    BY AuditLogAssumption
  <2>. QED
    BY <2>1, Pieces, DayTypes DEF EventDay
<1>2. d \in Nat /\ d * Slots <= t + Slots /\ t + Slots < (d + 1) * Slots
  <2>1. d * Slots <= t + Slots + Offset /\ t + Slots + Offset < (d + 1) * Slots /\ d \in Days
    BY <1>1, DayFacts
  <2>2. t + Slots + Offset = t + Slots
    BY <1>1
  <2>. QED
    BY <2>1, <2>2, DayTypes
<1>. HIDE DEF d, t
<1>3. ASSUME NEW a \in Nat, NEW b \in Nat, a * Slots < (b + 1) * Slots PROVE a <= b
  <2>1. ASSUME a >= b + 1 PROVE FALSE
    <3>1. PICK k \in Nat : a = b + 1 + k
      BY <2>1
    <3>2. a * Slots = (b + 1) * Slots + k * Slots /\ k * Slots \in Nat /\ (b + 1) * Slots \in Nat
      BY <3>1, <1>1
    <3>. QED
      BY <3>2, <1>3
  <2>. QED
    BY <2>1
<1>4. ASSUME since # Unset PROVE d >= since
  <2>1. t >= (since - 1) * Slots
    BY <1>4 DEF Matches, Midnight, t
  <2>2. (since - 1) * Slots = since * Slots - Slots /\ since * Slots \in Nat
    BY <1>1
  <2>3. since * Slots <= t + Slots /\ t + Slots \in Nat
    BY <1>1, <2>1, <2>2
  <2>4. since * Slots < (d + 1) * Slots
    <3>1. (d + 1) * Slots \in Nat
      BY <1>1, <1>2
    <3>. QED
      BY <1>2, <2>2, <2>3, <3>1
  <2>. QED
    BY <1>1, <1>2, <1>3, <2>4
<1>5. ASSUME until # Unset PROVE d <= until
  <2>1. t < (until - 1) * Slots + Slots
    BY <1>5 DEF Matches, Midnight, t
  <2>2. (until - 1) * Slots = until * Slots - Slots /\ until * Slots \in Nat
        /\ (until + 1) * Slots = until * Slots + Slots
    BY <1>1
  <2>3. t < until * Slots
    BY <1>1, <2>1, <2>2
  <2>4. d * Slots < (until + 1) * Slots
    <3>1. d * Slots \in Nat
      BY <1>1, <1>2
    <3>. QED
      BY <1>1, <1>2, <2>2, <2>3, <3>1
  <2>. QED
    BY <1>1, <1>2, <1>3, <2>4
<1>. QED
  BY <1>4, <1>5 DEF Relevant, d

\* The name of a file that is gone from a closed day does not come back.
LEMMA StaysGone ==
    ASSUME ShortStall, Shape, InAppend, Cutoffs, Step, NEW d \in Days, plain[d] = 0, Closed(d)
    PROVE  plain'[d] = 0
<1>1. CASE Tick
  BY <1>1 DEF Tick
<1>2. ASSUME NEW l \in Loggers, LogBegins(l) \/ LogOpens(l) \/ LogWrites(l) \/ LoggerCrashes(l)
      PROVE  plain'[d] = 0
  BY <1>2, LoggerSummary
<1>3. ASSUME NEW r \in Rotators, RotatorStep(r) PROVE plain'[d] = 0
  BY <1>3, RotatorSummary
<1>4. ASSUME NEW q \in Readers, ReaderStep(q) PROVE plain'[d] = 0
  BY <1>4, ReaderFrames DEF ReaderFrame
<1>. QED
  BY <1>1, <1>2, <1>3, <1>4 DEF Step, RotatorStep, ReaderStep

\* The place that Owed gives event e of query q.
Place(q, e, d) ==
    /\ reader[q].pc = "glob" => d \in reader[q].plain \/ plain[d] = 0
    /\ reader[q].pc = "read" /\ Wanted(q, e) =>
          \/ e \in reader[q].found
          \/ d \in reader[q].plain
          \/ plain[d] = 0 /\ d \in reader[q].gz
    /\ reader[q].pc = "done" /\ Wanted(q, e) => e \in reader[q].found

LEMMA PlaceOfGlob ==
    ASSUME Shape, Filing, Steady, NEW q \in Readers,
           NEW since \in Bounds \cup {Unset}, NEW until \in Bounds \cup {Unset},
           QueryGlobs(q, since, until), NEW e, NEW d \in Days
    PROVE  Place(q, e, d)'
<1>1. reader'[q].pc = "glob" /\ reader'[q].plain = {x \in Days : plain[x] # 0} /\ plain' = plain
  BY DEF QueryGlobs, NoQuery, Shape
<1>. QED
  BY <1>1 DEF Place

LEMMA PlaceOfGlobGz ==
    ASSUME SameClock, Shape, Filing, Steady, NEW q \in Readers, QueryGlobsGz(q),
           NEW e \in Readable, NEW d \in Days, d = EventDay(e), Place(q, e, d)
    PROVE  Place(q, e, d)'
<1>. DEFINE p == {x \in reader[q].plain : Relevant(x, reader[q].since, reader[q].until)}
            g == {x \in Days : gz[x].state # "absent"}
<1>1. reader[q].pc = "glob" /\ UNCHANGED <<stamp, plain>>
      /\ reader' = [reader EXCEPT ![q].pc = "read", ![q].plain = p, ![q].gz = g]
  BY DEF QueryGlobsGz
<1>2. reader[q] \in QueryState /\ reader \in [Readers -> QueryState]
  BY Pieces DEF Shape
<1>. HIDE DEF p, g
<1>3. /\ reader'[q].pc = "read" /\ reader'[q].plain = p /\ reader'[q].gz = g
      /\ reader'[q].since = reader[q].since /\ reader'[q].until = reader[q].until
      /\ reader'[q].found = reader[q].found
  BY <1>1, <1>2 DEF QueryState
<1>4. ASSUME Wanted(q, e)' PROVE d \in p \/ (plain[d] = 0 /\ d \in g)
  <2>1. Matches(e, reader[q].since, reader[q].until)
    BY <1>1, <1>3, <1>4 DEF Wanted, Matches
  <2>2. reader[q].since \in Bounds \cup {Unset} /\ reader[q].until \in Bounds \cup {Unset}
    BY <1>2 DEF QueryState
  <2>3. Relevant(d, reader[q].since, reader[q].until)
    BY <2>1, <2>2, RangeOfFile, ReadableWhere
  <2>4. CASE d \in reader[q].plain
    BY <2>3, <2>4 DEF p
  <2>5. CASE plain[d] = 0
    BY <2>5, ReadableWhere DEF g
  <2>. QED
    BY <1>1, <2>4, <2>5 DEF Place
<1>. QED
  BY <1>1, <1>3, <1>4 DEF Place

LEMMA PlaceOfRead ==
    ASSUME Shape, Filing, Steady, NEW q \in Readers, QueryReads(q), reader'[q].pc # "idle",
           NEW e \in Readable, NEW d \in Days, d = EventDay(e), Place(q, e, d)
    PROVE  Place(q, e, d)'
<1>1. PICK n \in Days : n = NextFile(q) /\ n \in reader[q].plain \cup reader[q].gz
  BY Reads, Pieces
<1>2. PICK x : /\ reader' = [reader EXCEPT ![q] = x]
               /\ \/ x = NoQuery
                  \/ /\ x.pc = "read"
                     /\ x.since = reader[q].since /\ x.until = reader[q].until
                     /\ \/ /\ n \in reader[q].plain /\ plain[n] # 0
                           /\ x.plain = reader[q].plain \ {n} /\ x.gz = reader[q].gz
                           /\ x.found = Finds(q, data[plain[n]].lines)
                        \/ /\ n \notin reader[q].plain
                           /\ x.plain = reader[q].plain /\ x.gz = reader[q].gz \ {n}
                           /\ x.found = Finds(q, gz[n].events)
  BY <1>1, Reads
<1>3. reader[q].pc = "read" /\ reader'[q] = x /\ x # NoQuery /\ UNCHANGED <<stamp, plain>>
  <2>1. reader'[q] = x
    BY <1>2 DEF Shape
  <2>2. NoQuery.pc = "idle"
    BY DEF NoQuery
  <2>. QED
    BY <2>1, <2>2 DEF QueryReads
<1>4. ASSUME Wanted(q, e)'
      PROVE  e \in x.found \/ d \in x.plain \/ (plain[d] = 0 /\ d \in x.gz)
  <2>1. Wanted(q, e)
    BY <1>2, <1>3, <1>4 DEF Wanted, Matches
  <2>2. \/ e \in reader[q].found
        \/ d \in reader[q].plain
        \/ plain[d] = 0 /\ d \in reader[q].gz
    BY <1>3, <2>1 DEF Place
  <2>3. /\ plain[d] # 0 => e \in data[plain[d]].lines
        /\ plain[d] = 0 => e \in gz[d].events
    BY ReadableWhere DEF Lines
  <2>4. \A es : reader[q].found \subseteq Finds(q, es) /\ (e \in es => e \in Finds(q, es))
    BY <2>1 DEF Finds, Wanted
  <2>. QED
    BY <1>2, <1>3, <2>2, <2>3, <2>4
<1>. QED
  BY <1>2, <1>3, <1>4 DEF Place

LEMMA PlaceOfEnd ==
    ASSUME Shape, NEW q \in Readers, QueryEnds(q), NEW e, NEW d \in Days, Place(q, e, d)
    PROVE  Place(q, e, d)'
<1>1. /\ reader[q].pc = "read" /\ reader[q].plain = {} /\ reader[q].gz = {}
      /\ reader' = [reader EXCEPT ![q].pc = "done"] /\ UNCHANGED <<stamp, plain>>
  BY DEF QueryEnds
<1>2. /\ reader'[q].pc = "done" /\ reader'[q].found = reader[q].found
      /\ reader'[q].since = reader[q].since /\ reader'[q].until = reader[q].until
  BY <1>1, Pieces DEF Shape, QueryState
<1>. QED
  BY <1>1, <1>2 DEF Place, Wanted, Matches

\* A query that does not move finds the files where they were.
LEMMA PlaceStays ==
    ASSUME ShortStall, Shape, InAppend, Cutoffs, Filing, Steady, Step, NEW q \in Readers,
           reader'[q] = reader[q], NEW e \in Readable, NEW d \in Days, d = EventDay(e),
           Place(q, e, d)
    PROVE  Place(q, e, d)'
<1>1. stamp'[e] = stamp[e]
  BY Onwards, ReadableWhere
<1>2. Wanted(q, e)' <=> Wanted(q, e)
  BY <1>1 DEF Wanted, Matches
<1>3. plain[d] = 0 => plain'[d] = 0
  BY ReadableWhere, StaysGone
<1>. QED
  BY <1>2, <1>3 DEF Place

\* The steps that move query q, by where it is.
LEMMA QueryMoves ==
    ASSUME Shape, InAppend, Cutoffs, ShortStall, Step, NEW q \in Readers, reader'[q].pc # "idle"
    PROVE  /\ reader[q].pc = "idle" =>
                \E since, until \in Bounds \cup {Unset} : QueryGlobs(q, since, until)
           /\ reader[q].pc # "idle" =>
                reader'[q] = reader[q] \/ QueryGlobsGz(q) \/ QueryReads(q) \/ QueryEnds(q)
<1>0. reader \in [Readers -> QueryState]
  BY DEF Shape
<1>1. CASE Tick
  BY <1>1, SMTT(30) DEF Tick
<1>2. ASSUME NEW l \in Loggers, LogBegins(l) \/ LogOpens(l) \/ LogWrites(l) \/ LoggerCrashes(l)
      PROVE  reader' = reader
  BY <1>2, LoggerSummary
<1>3. ASSUME NEW r \in Rotators, RotatorStep(r) PROVE reader' = reader
  BY <1>3, RotatorSummary DEF RotatorFrame
<1>4. ASSUME NEW p \in Readers, ReaderStep(p), p # q PROVE reader'[q] = reader[q]
  BY <1>0, <1>4 DEF ReaderStep, QueryGlobs, QueryGlobsGz, QueryReads, QueryEnds, ReaderExits
<1>5. CASE ReaderStep(q)
  <2>1. ~ReaderExits(q)
    BY <1>0, SMTT(30) DEF ReaderExits, NoQuery
  <2>2. CASE \E since, until \in Bounds \cup {Unset} : QueryGlobs(q, since, until)
    BY <2>2 DEF QueryGlobs
  <2>3. CASE QueryGlobsGz(q) \/ QueryReads(q) \/ QueryEnds(q)
    BY <2>3 DEF QueryGlobsGz, QueryReads, QueryEnds
  <2>. QED
    BY <1>5, <2>1, <2>2, <2>3, SMTT(30) DEF ReaderStep
<1>6. ReaderStep(q) \/ reader'[q] = reader[q]
  BY <1>1, <1>2, <1>3, <1>4 DEF Step, RotatorStep, ReaderStep, Tick
<1>7. CASE reader'[q] = reader[q]
  BY <1>7
<1>. QED
  BY <1>5, <1>6, <1>7

LEMMA OwedNext ==
    ASSUME ShortStall, SameClock, Shape, InAppend, Cutoffs, Filing, Steady, Owed, Step, Owes,
           Shape'
    PROVE  Owed'
<1>. SUFFICES ASSUME NEW q \in Readers
     PROVE  /\ reader'[q].pc = "idle" => due'[q] = {}
            /\ due'[q] \subseteq Readable'
            /\ \A e \in due'[q] : \A d : d = EventDay(e)' => Place(q, e, d)'
  BY DEF Owed, Place
<1>1. due'[q] = CASE reader'[q].pc = "idle" -> {}
                  [] reader[q].pc = "idle" /\ reader'[q].pc # "idle" -> Readable'
                  [] OTHER -> due[q] \cap Readable'
  BY DEF Owes
<1>2. (reader'[q].pc = "idle" => due'[q] = {}) /\ due'[q] \subseteq Readable'
  BY <1>1
<1>3. ASSUME NEW e \in due'[q], NEW d, d = EventDay(e)'
      PROVE  Place(q, e, d)'
  <2>1. reader'[q].pc # "idle"
    BY <1>2, <1>3
  <2>2. CASE reader[q].pc = "idle"
    <3>1. PICK since, until \in Bounds \cup {Unset} : QueryGlobs(q, since, until)
      BY <2>1, <2>2, QueryMoves
    <3>2. e \in Events' /\ stamp' = stamp
      <4>1. Shape' => (Readable \subseteq Events)'
        BY ReadableTyped, PTL
      <4>. QED
        BY <1>2, <1>3, <3>1, <4>1 DEF QueryGlobs
    <3>3. d \in Days
      BY <1>3, <3>2, Pieces DEF Events, EventDay
    <3>. QED
      BY <3>1, <3>3, PlaceOfGlob
  <2>3. CASE reader[q].pc # "idle"
    <3>1. e \in due[q] /\ e \in Readable
      BY <1>1, <1>3, <2>1, <2>3 DEF Owed
    <3>2. e \in Events /\ EventDay(e) \in Days
      BY <3>1, ReadableWhere
    <3>3. d = EventDay(e) /\ d \in Days
      BY <1>3, <3>2, Onwards
    <3>4. Place(q, e, d)
      BY <3>1, <3>3 DEF Owed, Place
    <3>5. CASE reader'[q] = reader[q]
      BY <3>1, <3>3, <3>4, <3>5, PlaceStays
    <3>6. CASE QueryGlobsGz(q) \/ QueryReads(q) \/ QueryEnds(q)
      BY <2>1, <3>1, <3>3, <3>4, <3>6, PlaceOfGlobGz, PlaceOfRead, PlaceOfEnd
    <3>. QED
      BY <2>1, <2>3, <3>5, <3>6, QueryMoves
  <2>. QED
    BY <2>2, <2>3
<1>. QED
  BY <1>2, <1>3

-----------------------------------------------------------------------------
(* The inductive invariant, and what follows *)

LEMMA InitIInv == Init => IInv /\ Owed
<1>. SUFFICES ASSUME Init PROVE IInv /\ Owed
  OBVIOUS
<1>0. /\ now = 0 /\ stamp = << >> /\ logged = {} /\ data = << >>
      /\ plain = [d \in Days |-> 0] /\ gz = [d \in Days |-> Absent]
      /\ logger = [l \in Loggers |-> NoLog] /\ rotator = [r \in Rotators |-> NoRotation]
      /\ reader = [q \in Readers |-> NoQuery] /\ due = [q \in Readers |-> {}]
      /\ faults \in Environments
  BY DEF Init
<1>1. /\ Len(data) = 0 /\ DOMAIN data = {} /\ Len(stamp) = 0
  BY <1>0
<1>2. Shape
  <2>1. now \in 0..MaxTime
    BY <1>0, DayTypes
  <2>2. stamp \in Seq(0..MaxTime) /\ Len(stamp) <= MaxEvents /\ data \in Seq(File)
    BY <1>0, <1>1, DayTypes
  <2>3. plain \in [Days -> 0..Len(data)] /\ gz \in [Days -> Gzipped]
    BY <1>0, <1>1, Records
  <2>4. logger \in [Loggers -> Log] /\ rotator \in [Rotators -> Rotation]
        /\ reader \in [Readers -> QueryState]
    BY <1>0, Records
  <2>. QED
    BY <1>0, <2>1, <2>2, <2>3, <2>4 DEF Shape
<1>3. Typed
  BY <1>0, <1>2 DEF Typed
<1>4. /\ \A l \in Loggers : logger[l].pc = "idle"
      /\ \A r \in Rotators : rotator[r].pc = "idle"
      /\ \A q \in Readers : reader[q].pc = "idle" /\ due[q] = {}
      /\ \A d \in Days : plain[d] = 0 /\ gz[d].state = "absent" /\ gz[d].events = {}
  BY <1>0 DEF NoLog, NoRotation, NoQuery, Absent
<1>5. \A r \in Rotators : rotator[r].pc \notin Working
  BY <1>4 DEF Working
<1>6. InAppend /\ Cutoffs /\ Alone
  BY <1>4, <1>5 DEF InAppend, Cutoffs, Alone
<1>7. Filing
  <2>. DEFINE own == [i \in {} |-> 0]
  <2>1. own \in [DOMAIN data -> Days]
    BY <1>1
  <2>2. Filed(own)
    BY <1>1, <1>4, <1>5 DEF Filed
  <2>. QED
    BY <2>1, <2>2 DEF Filing
<1>8. Steady
  BY <1>4, <1>5 DEF Steady, On
<1>9. Kept
  BY <1>0, <1>1, <1>4 DEF Kept
<1>10. Owed
  BY <1>4 DEF Owed
<1>. QED
  BY <1>3, <1>6, <1>7, <1>8, <1>9, <1>10 DEF IInv

LEMMA StutterIInv ==
    ASSUME UNCHANGED vars
    PROVE  (IInv => IInv') /\ (Owed => Owed')
<1>1. UNCHANGED <<now, stamp, logged, data, plain, gz, logger, rotator, reader, due, faults>>
  BY DEF vars
<1>2. UNCHANGED <<Events, Log, Rotation, Gzipped, QueryState, File, Readable>>
  BY <1>1 DEF Events, Log, Rotation, Gzipped, QueryState, File, Readable
<1>3. Typed => Typed'
  BY <1>1, <1>2 DEF Typed, Shape
<1>4. (InAppend => InAppend') /\ (Cutoffs => Cutoffs') /\ (Alone => Alone')
  BY <1>1 DEF InAppend, Cutoffs, Alone, Closed
<1>5. Filing => Filing'
  BY <1>1 DEF Filing, Filed, EventDay, LoggerDay
<1>6. Steady => Steady'
  BY <1>1 DEF Steady, Closed, Lines, On
<1>7. Kept => Kept'
  BY <1>1 DEF Kept, Sound, Dead, LoggerDay, EventDay, Held, Closed, Compressing, On, Lines
<1>8. Owed => Owed'
  BY <1>1, <1>2 DEF Owed, Wanted, Matches, EventDay
<1>. QED
  BY <1>3, <1>4, <1>5, <1>6, <1>7, <1>8 DEF IInv

LEMMA NextIInv ==
    ASSUME ShortStall, IInv, Next PROVE IInv'
<1>1. Typed /\ Shape /\ InAppend /\ Cutoffs /\ Filing /\ Steady /\ Alone /\ Kept
  BY DEF IInv, Typed
<1>2. Step /\ Owes /\ faults' = faults
  BY DEF Next
<1>3. Typed'
  BY <1>1, TypedNext
<1>. QED
  BY <1>1, <1>2, <1>3, InAppendNext, CutoffsNext, FilingNext, SteadyNext, AloneNext, KeptNext
     DEF IInv

\* An append that does not take days keeps the files of the log in order.
LEMMA Inductive == ASSUME ShortStall PROVE Spec => []IInv
<1>1. Init => IInv
  BY InitIInv
<1>2. IInv /\ [Next]_vars => IInv'
  BY NextIInv, StutterIInv
<1>. QED
  BY <1>1, <1>2, PTL DEF Spec

\* No event is lost: see NoEventLost.  Rotate, DeleteOld and Append of
\* internal/audit, when an append does not take days.
THEOREM LogLosesNothing == ASSUME ShortStall PROVE Spec => []NoEventLost
<1>1. IInv => NoEventLost
  <2>. SUFFICES ASSUME IInv PROVE NoEventLost
    OBVIOUS
  <2>1. Shape /\ Steady /\ Filing /\ Typed /\ Kept /\ Cutoffs
    BY DEF IInv, Typed
  <2>2. FiledByDay
    <3>1. PICK own \in [DOMAIN data -> Days] : Filed(own)
      BY <2>1 DEF Filing
    <3>2. \A d \in Days : plain[d] # 0 =>
             \A e \in data[plain[d]].lines : LocalDay(stamp[e]) = d
      BY <2>1, <3>1, Pieces DEF Filed, EventDay
    <3>3. \A d \in Days : \A e \in gz[d].events : LocalDay(stamp[e]) = d
      BY <3>1 DEF Filed, EventDay
    <3>. QED
      BY <3>2, <3>3 DEF FiledByDay
  <2>3. TypeOK
    BY <2>1, <2>2 DEF TypeOK, Typed, Shape, Log, Rotation, QueryState, Gzipped, File
  <2>4. ASSUME Sound, NEW e \in logged, ~(DeleteAge # 0 /\ Expired(e))
        PROVE  \/ e \in Readable
               \/ \E r \in Rotators : rotator[r].pc = "copy" /\ e \in data[rotator[r].inode].lines
    <3>1. PICK d \in Days : d = EventDay(e)
      BY <2>1, Pieces DEF Shape
    <3>2. Held(e)
      BY <2>1, <2>4, <3>1 DEF Kept, Dead, Expired, EventDay
    <3>3. CASE plain[d] # 0
      BY <3>1, <3>2, <3>3, ReadableFrom DEF Held
    <3>4. CASE e \in gz[d].events
      BY <3>4, ReadableFrom
    <3>5. CASE Compressing(d)
      <4>1. PICK s \in Rotators : On(s, d) /\ rotator[s].pc = "copy"
        BY <3>5 DEF Compressing
      <4>2. e \in data[rotator[s].inode].lines
        BY <3>1, <3>2, <4>1 DEF Held
      <4>. QED
        BY <4>1, <4>2
    <3>. QED
      BY <3>1, <3>2, <3>3, <3>4, <3>5 DEF Held
  <2>. QED
    BY <2>3, <2>4 DEF NoEventLost, Sound
<1>. QED
  BY <1>1, Inductive, PTL

\* Every query is complete: see QueryComplete.  Query of internal/audit, in UTC or
\* without a range.
THEOREM QueriesAreComplete ==
    ASSUME ShortStall, SameClock PROVE Spec => []QueryComplete
<1>1. Init => IInv /\ Owed
  BY InitIInv
<1>2. IInv /\ Owed /\ [Next]_vars => (IInv /\ Owed)'
  <2>1. ASSUME IInv, Owed, Next PROVE Owed' /\ IInv'
    <3>1. Shape /\ InAppend /\ Cutoffs /\ Filing /\ Steady
      BY <2>1 DEF IInv, Typed
    <3>2. IInv' /\ Shape'
      BY <2>1, NextIInv DEF IInv, Typed
    <3>. QED
      BY <2>1, <3>1, <3>2, OwedNext DEF Next
  <2>. QED
    BY <2>1, StutterIInv
<1>3. Owed => QueryComplete
  BY DEF Owed, QueryComplete, Wanted
<1>. QED
  BY <1>1, <1>2, <1>3, PTL DEF Spec
=============================================================================
