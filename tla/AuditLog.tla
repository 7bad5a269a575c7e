------------------------------ MODULE AuditLog ------------------------------
(***************************************************************************)
(* The audit log (internal/audit): every CLI process appends its events to  *)
(* the JSON-lines file of the local day, `audit rotate` compresses files    *)
(* older than --max-age and deletes files older than --delete-age, `audit   *)
(* query` and `audit stats` read them all.  The processes share nothing but *)
(* the directory.  A plain file is a name for an inode, because a process   *)
(* keeps the inode it has opened when the name is removed.                  *)
(***************************************************************************)
EXTENDS Integers, Sequences, FiniteSets

CONSTANTS
    Loggers,      \* CLI processes that append events, one after the other
    Rotators,     \* processes of `audit rotate`
    Readers,      \* processes of `audit query` and `audit stats`
    Slots,        \* moments in a day
    Offset,       \* the local time zone: moments it is ahead of UTC
    MaxAge,       \* --max-age, days
    DeleteAge,    \* --delete-age, days; 0 skips the deletion
    Bounds,       \* days given as --since or --until
    MaxStall,     \* moments that an append may take
    MaxTime,      \* bound: the last moment
    MaxEvents,    \* bound: events ever appended
    Environments  \* the sets of conditions that a behaviour may have to face: of "crash",
                  \* "full" (the disk), "overlap" (a rotation begins during another)

ASSUME AuditLogAssumption ==
    /\ Slots \in Nat \ {0}
    /\ Offset \in (1 - Slots)..(Slots - 1)
    /\ MaxAge \in Nat \ {0}
    /\ Bounds \subseteq Nat
    /\ {DeleteAge, MaxStall, MaxTime, MaxEvents} \subseteq Nat
    /\ Environments \subseteq SUBSET {"crash", "full", "overlap"}

VARIABLES
    now,          \* the time, moments since a midnight UTC
    stamp,        \* Timestamp of every event, in the order of their creation
    logged,       \* events whose Append returned nil
    data,         \* inodes of plain files: their well-formed lines, and a torn last one
    plain,        \* the inode of a day's .jsonl file; 0 if there is none
    gz,           \* a day's .jsonl.gz file
    logger,       \* processes inside Append
    rotator,      \* processes inside Rotate or DeleteOld
    reader,       \* processes inside Query
    due,          \* history: events that were readable ever since a Query began
    faults        \* the conditions of this behaviour; they never change

vars == <<now, stamp, logged, data, plain, gz, logger, rotator, reader, due, faults>>

-----------------------------------------------------------------------------
(* State *)

Events == DOMAIN stamp

\* The day in a file's name is the local date; day 0 is the one before moment 0.
LocalDay(t) == (t + Slots + Offset) \div Slots
FirstDay == 0
LastDay == LocalDay(MaxTime)
Days == FirstDay..LastDay
Unset == LastDay + 1                  \* --since or --until not given

\* time.Parse reads the date in a file's name, or of --since, as midnight UTC.
Midnight(d) == (d - 1) * Slots

NoLog == [pc |-> "idle", event |-> 0, inode |-> 0]
NoRotation == [pc |-> "idle", todo |-> {}, cutoff |-> 0, day |-> 0, inode |-> 0]
NoQuery == [pc |-> "idle", since |-> Unset, until |-> Unset, plain |-> {}, gz |-> {},
            found |-> {}]

Absent == [state |-> "absent", events |-> {}]
Partial == [state |-> "partial", events |-> {}]
Whole(es) == [state |-> "whole", events |-> es]

\* What a reader of the directory could find at this moment.
Readable ==
    (UNION {IF plain[d] = 0 THEN {} ELSE data[plain[d]].lines : d \in Days})
        \cup (UNION {gz[d].events : d \in Days})

-----------------------------------------------------------------------------
(* Append *)

\* A new event gets the time as its Timestamp, which names the file.
LogBegins(l) ==
    /\ logger[l].pc = "idle"
    /\ Len(stamp) < MaxEvents
    /\ stamp' = Append(stamp, now)
    /\ logger' = [logger EXCEPT ![l] = [pc |-> "open", event |-> Len(stamp) + 1, inode |-> 0]]
    /\ UNCHANGED <<now, logged, data, plain, gz, rotator, reader>>

\* O_CREATE|O_APPEND: the day's file is created if its name is not there.
LogOpens(l) ==
    LET d == LocalDay(stamp[logger[l].event]) IN
    /\ logger[l].pc = "open"
    /\ IF plain[d] # 0
       THEN /\ logger' = [logger EXCEPT ![l].pc = "write", ![l].inode = plain[d]]
            /\ UNCHANGED <<data, plain>>
       ELSE /\ data' = Append(data, [lines |-> {}, torn |-> FALSE])
            /\ plain' = [plain EXCEPT ![d] = Len(data) + 1]
            /\ logger' = [logger EXCEPT ![l].pc = "write", ![l].inode = Len(data) + 1]
    /\ UNCHANGED <<now, stamp, logged, gz, rotator, reader>>

\* One line in one write.  After a line that was cut short the next one begins
\* in the middle of a line: neither parses, and the readers skip them.
LogWrites(l) ==
    LET i == logger[l].inode  e == logger[l].event IN
    /\ logger[l].pc = "write"
    /\ \/ /\ data' = [data EXCEPT ![i] = [lines |-> IF @.torn THEN @.lines ELSE @.lines \cup {e},
                                          torn |-> FALSE]]
          /\ logged' = logged \cup {e}
       \/ /\ "full" \in faults
          /\ data' \in {data, [data EXCEPT ![i].torn = TRUE]}
          /\ UNCHANGED logged
    /\ logger' = [logger EXCEPT ![l] = NoLog]
    /\ UNCHANGED <<now, stamp, plain, gz, rotator, reader>>

-----------------------------------------------------------------------------
(* audit rotate: Rotate, then DeleteOld *)

Goes(r, pc) == rotator' = [rotator EXCEPT ![r].pc = pc]

\* The cutoff, then the glob of the plain files.
RotateBegins(r) ==
    /\ rotator[r].pc = "idle"
    /\ "overlap" \in faults \/ \A s \in Rotators : rotator[s].pc = "idle"
    /\ rotator' = [rotator EXCEPT ![r] = [NoRotation EXCEPT
            !.pc = "rotate", !.cutoff = now - MaxAge * Slots,
            !.todo = {d \in Days : plain[d] # 0}]]
    /\ UNCHANGED <<now, stamp, logged, data, plain, gz, logger, reader>>

Earliest(ds) == CHOOSE d \in ds : \A e \in ds : d <= e

\* Variant: the cutoff is not looked at.
RotateOpensAny(r) ==
    LET d == Earliest(rotator[r].todo) IN
    /\ rotator[r].pc = "rotate"
    /\ rotator[r].todo # {}
    /\ plain[d] # 0
    /\ rotator' = [rotator EXCEPT ![r].pc = "create", ![r].todo = @ \ {d},
                                  ![r].day = d, ![r].inode = plain[d]]
    /\ UNCHANGED <<now, stamp, logged, data, plain, gz, logger, reader>>

\* The next file: skipped if too recent, or if it cannot be opened any more.
RotateOpens(r) ==
    LET d == Earliest(rotator[r].todo)  rest == rotator[r].todo \ {d} IN
    /\ rotator[r].pc = "rotate"
    /\ rotator[r].todo # {}
    /\ rotator' = [rotator EXCEPT ![r] =
            IF Midnight(d) > rotator[r].cutoff \/ plain[d] = 0
            THEN [@ EXCEPT !.todo = rest]
            ELSE [@ EXCEPT !.pc = "create", !.todo = rest, !.day = d, !.inode = plain[d]]]
    /\ UNCHANGED <<now, stamp, logged, data, plain, gz, logger, reader>>

\* os.Create truncates a .gz file that exists.  An error goes on to the next file.
RotateCreates(r) ==
    /\ rotator[r].pc = "create"
    /\ \/ gz' = [gz EXCEPT ![rotator[r].day] = Partial] /\ Goes(r, "copy")
       \/ "full" \in faults /\ Goes(r, "rotate") /\ UNCHANGED gz
    /\ UNCHANGED <<now, stamp, logged, data, plain, logger, reader>>

\* Written from offset 0, over what an overlapping rotation has written meanwhile.
Compressed(old, es) ==
    IF old.state = "whole" /\ ~(old.events \subseteq es) THEN Partial ELSE Whole(es)

\* io.Copy and the deferred Close, which writes out what is buffered.  The error
\* of the copy is returned; that of Close is not looked at.
RotateCopies(r) ==
    LET d == rotator[r].day IN
    /\ rotator[r].pc = "copy"
    /\ \/ /\ gz' = [gz EXCEPT ![d] = Compressed(@, data[rotator[r].inode].lines)]
          /\ Goes(r, "remove")
       \/ "full" \in faults /\ Goes(r, "remove") /\ UNCHANGED gz
       \/ "full" \in faults /\ Goes(r, "rotate") /\ UNCHANGED gz
    /\ UNCHANGED <<now, stamp, logged, data, plain, logger, reader>>

\* os.Remove of the name, whatever it is the name of by now; the file counts as
\* rotated.
RotateRemoves(r) ==
    /\ rotator[r].pc = "remove"
    /\ plain' = [plain EXCEPT ![rotator[r].day] = 0]
    /\ Goes(r, "rotate")
    /\ UNCHANGED <<now, stamp, logged, data, gz, logger, reader>>

\* Rotate returns.  DeleteOld computes its cutoff and lists the files; of the
\* names it lists those that end in .jsonl.gz do not parse as a date.
DeleteBegins(r) ==
    /\ rotator[r].pc = "rotate"
    /\ rotator[r].todo = {}
    /\ rotator' = [rotator EXCEPT ![r] =
            IF DeleteAge = 0 THEN [NoRotation EXCEPT !.pc = "done"]
            ELSE [NoRotation EXCEPT !.pc = "delete", !.cutoff = now - DeleteAge * Slots,
                                    !.todo = {d \in Days : plain[d] # 0}]]
    /\ UNCHANGED <<now, stamp, logged, data, plain, gz, logger, reader>>

DeleteRemoves(r) ==
    LET d == Earliest(rotator[r].todo) IN
    /\ rotator[r].pc = "delete"
    /\ rotator[r].todo # {}
    /\ IF Midnight(d) < rotator[r].cutoff THEN plain' = [plain EXCEPT ![d] = 0]
                                          ELSE UNCHANGED plain
    /\ rotator' = [rotator EXCEPT ![r].todo = @ \ {d}]
    /\ UNCHANGED <<now, stamp, logged, data, gz, logger, reader>>

\* The cutoff is kept: it is what the report of the deletion is about.
DeleteEnds(r) ==
    /\ rotator[r].pc = "delete"
    /\ rotator[r].todo = {}
    /\ Goes(r, "done")
    /\ UNCHANGED <<now, stamp, logged, data, plain, gz, logger, reader>>

RotatorExits(r) ==
    /\ rotator[r].pc = "done"
    /\ rotator' = [rotator EXCEPT ![r] = NoRotation]
    /\ UNCHANGED <<now, stamp, logged, data, plain, gz, logger, reader>>

-----------------------------------------------------------------------------
(* audit query and audit stats *)

\* isFileRelevant for a plain file; the name of a .gz file never parses as a
\* date, and such a file is always read.
Relevant(d, since, until) ==
    /\ since = Unset \/ d >= since
    /\ until = Unset \/ d <= until

\* The time filter: from midnight UTC of --since to the last moment of --until.  That the
\* code ends it one second before midnight is finer than the moments of the model.
Matches(e, since, until) ==
    /\ since = Unset \/ stamp[e] >= Midnight(since)
    /\ until = Unset \/ stamp[e] < Midnight(until) + Slots

\* Query begins with the glob of the plain files.
QueryGlobs(q, since, until) ==
    /\ reader[q].pc = "idle"
    /\ reader' = [reader EXCEPT ![q] = [NoQuery EXCEPT
            !.pc = "glob", !.since = since, !.until = until,
            !.plain = {d \in Days : plain[d] # 0}]]
    /\ UNCHANGED <<now, stamp, logged, data, plain, gz, logger, rotator>>

\* The second pattern of getLogFiles; then the files of no interest are passed over.
QueryGlobsGz(q) ==
    /\ reader[q].pc = "glob"
    /\ reader' = [reader EXCEPT
            ![q].pc = "read",
            ![q].plain = {d \in @ : Relevant(d, reader[q].since, reader[q].until)},
            ![q].gz = {d \in Days : gz[d].state # "absent"}]
    /\ UNCHANGED <<now, stamp, logged, data, plain, gz, logger, rotator>>

Finds(q, es) ==
    reader[q].found \cup {e \in es : Matches(e, reader[q].since, reader[q].until)}

\* Variant: a file that is gone is passed over.
QueryReadsOn(q) ==
    LET d == Earliest(reader[q].plain \cup reader[q].gz) IN
    /\ reader[q].pc = "read"
    /\ reader[q].plain \cup reader[q].gz # {}
    /\ reader' = [reader EXCEPT ![q] =
            IF d \in reader[q].plain
            THEN [@ EXCEPT !.plain = reader[q].plain \ {d},
                           !.found = IF plain[d] = 0 THEN reader[q].found
                                     ELSE Finds(q, data[plain[d]].lines)]
            ELSE [@ EXCEPT !.gz = reader[q].gz \ {d}, !.found = Finds(q, gz[d].events)]]
    /\ UNCHANGED <<now, stamp, logged, data, plain, gz, logger, rotator>>

\* The files in the order of their names, D.jsonl before D.jsonl.gz.  A file that
\* cannot be opened or decompressed fails the whole query.
QueryReads(q) ==
    LET d == Earliest(reader[q].plain \cup reader[q].gz) IN
    /\ reader[q].pc = "read"
    /\ reader[q].plain \cup reader[q].gz # {}
    /\ reader' = [reader EXCEPT ![q] =
            CASE d \in reader[q].plain /\ plain[d] # 0 ->
                    [@ EXCEPT !.plain = reader[q].plain \ {d},
                              !.found = Finds(q, data[plain[d]].lines)]
              [] d \notin reader[q].plain /\ gz[d].state = "whole" ->
                    [@ EXCEPT !.gz = reader[q].gz \ {d}, !.found = Finds(q, gz[d].events)]
              [] OTHER -> NoQuery]
    /\ UNCHANGED <<now, stamp, logged, data, plain, gz, logger, rotator>>

QueryEnds(q) ==
    /\ reader[q].pc = "read"
    /\ reader[q].plain \cup reader[q].gz = {}
    /\ reader' = [reader EXCEPT ![q].pc = "done"]
    /\ UNCHANGED <<now, stamp, logged, data, plain, gz, logger, rotator>>

ReaderExits(q) ==
    /\ reader[q].pc = "done"
    /\ reader' = [reader EXCEPT ![q] = NoQuery]
    /\ UNCHANGED <<now, stamp, logged, data, plain, gz, logger, rotator>>

-----------------------------------------------------------------------------
(* Time and crashes *)

\* Time passes; no append is suspended for more than MaxStall moments.
Tick ==
    /\ now < MaxTime
    /\ \A l \in Loggers :
          logger[l].pc # "idle" => now + 1 - stamp[logger[l].event] <= MaxStall
    /\ now' = now + 1
    /\ UNCHANGED <<stamp, logged, data, plain, gz, logger, rotator, reader>>

\* A process dies.  One that dies inside Append has not logged its event.
LoggerCrashes(l) ==
    /\ "crash" \in faults
    /\ logger[l].pc # "idle"
    /\ logger' = [logger EXCEPT ![l] = NoLog]
    /\ UNCHANGED <<now, stamp, logged, data, plain, gz, rotator, reader>>

RotatorCrashes(r) ==
    /\ "crash" \in faults
    /\ rotator[r].pc # "idle"
    /\ rotator' = [rotator EXCEPT ![r] = NoRotation]
    /\ UNCHANGED <<now, stamp, logged, data, plain, gz, logger, reader>>

-----------------------------------------------------------------------------
(* Specification *)

Init ==
    /\ now = 0
    /\ stamp = << >>
    /\ logged = {}
    /\ data = << >>
    /\ plain = [d \in Days |-> 0]
    /\ gz = [d \in Days |-> Absent]
    /\ logger = [l \in Loggers |-> NoLog]
    /\ rotator = [r \in Rotators |-> NoRotation]
    /\ reader = [q \in Readers |-> NoQuery]
    /\ due = [q \in Readers |-> {}]
    /\ faults \in Environments

Step ==
    \/ Tick
    \/ \E l \in Loggers : LogBegins(l) \/ LogOpens(l) \/ LogWrites(l) \/ LoggerCrashes(l)
    \/ \E r \in Rotators :
          \/ RotateBegins(r) \/ RotateOpens(r) \/ RotateCreates(r) \/ RotateCopies(r)
          \/ RotateRemoves(r) \/ DeleteBegins(r) \/ DeleteRemoves(r) \/ DeleteEnds(r)
          \/ RotatorExits(r) \/ RotatorCrashes(r)
    \/ \E q \in Readers :
          \/ \E since, until \in Bounds \cup {Unset} : QueryGlobs(q, since, until)
          \/ QueryGlobsGz(q) \/ QueryReads(q) \/ QueryEnds(q) \/ ReaderExits(q)

\* History, not code: what a Query still owes its user.
Owes ==
    due' = [q \in Readers |-> CASE reader'[q].pc = "idle" -> {}
                                [] reader[q].pc = "idle" /\ reader'[q].pc # "idle" -> Readable'
                                [] OTHER -> due[q] \cap Readable']

Next == Step /\ Owes /\ UNCHANGED faults

Spec == Init /\ [][Next]_vars

-----------------------------------------------------------------------------
(* Properties *)

\* A file holds events of the day in its name only.
FiledByDay ==
    \A d \in Days :
        \A e \in gz[d].events \cup (IF plain[d] = 0 THEN {} ELSE data[plain[d]].lines) :
            LocalDay(stamp[e]) = d

TypeOK ==
    /\ now \in 0..MaxTime
    /\ stamp \in Seq(0..MaxTime) /\ Len(stamp) <= MaxEvents
    /\ logged \subseteq Events
    /\ data \in Seq([lines : SUBSET Events, torn : BOOLEAN])
    /\ plain \in [Days -> 0..Len(data)]
    /\ gz \in [Days -> [state : {"absent", "partial", "whole"}, events : SUBSET Events]]
    /\ logger \in [Loggers -> [pc : {"idle", "open", "write"}, event : 0..Len(stamp),
                               inode : 0..Len(data)]]
    /\ rotator \in [Rotators -> [pc : {"idle", "rotate", "create", "copy", "remove",
                                       "delete", "done"},
                                 todo : SUBSET Days, cutoff : Int, day : Days,
                                 inode : 0..Len(data)]]
    /\ reader \in [Readers -> [pc : {"idle", "glob", "read", "done"},
                               since : Bounds \cup {Unset}, until : Bounds \cup {Unset},
                               plain : SUBSET Days, gz : SUBSET Days, found : SUBSET Events]]
    /\ due \in [Readers -> SUBSET Events]
    /\ faults \in Environments
    /\ FiledByDay

\* A query that succeeds returns every event in its range that could be read ever
\* since it began, although rotations and deletions move the files under it.
QueryComplete ==
    \A q \in Readers :
        reader[q].pc = "done" =>
            {e \in due[q] : Matches(e, reader[q].since, reader[q].until)} \subseteq reader[q].found

\* An event that was logged can be read, or is in a file that a rotation is about
\* to write out, until its day is older than --delete-age: rotations that die
\* half-way lose nothing, nor do rotations that overlap, nor deletions.  (One that
\* dies while another runs does, and so does a full disk.)  And the state is well
\* typed, every event in the file of its day.
Expired(e) == Midnight(LocalDay(stamp[e])) < now - DeleteAge * Slots

NoEventLost ==
    /\ TypeOK
    /\ "full" \notin faults /\ ~({"crash", "overlap"} \subseteq faults) =>
       \A e \in logged :
          \/ e \in Readable
          \/ \E r \in Rotators : rotator[r].pc = "copy" /\ e \in data[rotator[r].inode].lines
          \/ DeleteAge # 0 /\ Expired(e)
=============================================================================
