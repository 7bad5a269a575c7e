------------------------------- MODULE Transfer -------------------------------
(***************************************************************************)
(* File transfer (internal/sftp): Put and Get of one file, and Sync of a    *)
(* directory, which may be run again after files have changed.  There is no *)
(* temporary file: the target is truncated and then written, and whatever   *)
(* goes wrong later finds it in that state.  The commands put, get and sync *)
(* fill in neither a password nor a key, so that none of them ever          *)
(* connects; the other credentials are those of a caller of the package.    *)
(***************************************************************************)
EXTENDS Naturals, Sequences, Functions

CONSTANTS
    Files,        \* the files of the directory, in the order of their names
    Contents,     \* what may be in a file
    Missing,      \* no file
    MaxRounds     \* bound: runs of sync

VARIABLES
    operation,    \* put, get or sync, and the credentials
    source,       \* the files here (for get: there)
    target,       \* the files there (for get: here)
    folder,       \* the target's directory exists
    link,         \* the connection: none, up or broken
    t,            \* the transfer: control point, file in hand, rounds
    tally,        \* files by what became of them, in this run
    before        \* history: the target as it was when the run began

TransferAssumption ==
    /\ Files # << >> /\ Files \in Seq(Range(Files)) /\ IsInjective(Files)
    /\ Missing \notin Contents
    /\ \A c \in Contents : c \in Seq(Range(c))
    /\ MaxRounds \in Nat \ {0}

vars == <<operation, source, target, folder, link, t, tally, before>>

FileStates == Contents \cup {Missing}
File == Files[t.file]
Syncing == operation.kind = "sync"
Goes(pc) == t' = [t EXCEPT !.pc = pc]
Counts(what, f) == tally' = [tally EXCEPT ![what] = @ \cup {f}]

SameSize(f) == IF Missing \in {source[f], target[f]} THEN FALSE
               ELSE Len(source[f]) = Len(target[f])

\* The next file of the walk, or the end of it.
NextFile == t' = IF t.file < Len(Files) THEN [t EXCEPT !.pc = "look", !.file = @ + 1]
                 ELSE [t EXCEPT !.pc = "ok"]

\* Put and Get return an error; Sync counts it and goes on.
Fails == IF Syncing THEN Counts("failed", File) /\ NextFile
         ELSE Goes("error") /\ UNCHANGED tally

-----------------------------------------------------------------------------
(* The steps *)

\* Put opens its file before it connects.
OpensFirst ==
    /\ t.pc = "start"
    /\ IF operation.kind = "put" /\ source[File] = Missing THEN Goes("error") ELSE Goes("connect")
    /\ UNCHANGED <<operation, source, target, folder, link, tally, before>>

\* connect, without a check of the host's key, and the start of sftp.
Connects ==
    /\ t.pc = "connect"
    /\ \/ operation.creds = "good" /\ link' = "up"
          /\ Goes(IF operation.kind = "get" THEN "open" ELSE "mkdir")
       \/ Goes("error") /\ UNCHANGED link
    /\ UNCHANGED <<operation, source, target, folder, tally, before>>

Usable == link = "up"

\* MkdirAll of the target's directory; Sync goes on without it.
MakesFolder ==
    /\ t.pc = "mkdir"
    /\ \/ /\ Usable \/ operation.kind = "get"
          /\ folder' = TRUE
          /\ Goes(IF Syncing THEN "look" ELSE "create") /\ UNCHANGED tally
       \/ /\ IF Syncing THEN Goes("look") /\ Counts("failed", "folder")
             ELSE Goes("error") /\ UNCHANGED tally
          /\ UNCHANGED folder
    /\ UNCHANGED <<operation, source, target, link, before>>

\* A file of the same size is taken for the same file.
SkipsSameSize ==
    /\ t.pc = "look" /\ Usable
    /\ SameSize(File)
    /\ Counts("skipped", File) /\ NextFile
    /\ UNCHANGED <<operation, source, target, folder, link, before>>

\* The walk does not see a file that is not there.
PassesOver ==
    /\ t.pc = "look" /\ source[File] = Missing
    /\ NextFile
    /\ UNCHANGED <<operation, source, target, folder, link, tally, before>>

\* Stat failed, or the size is another one: the file is to be copied.
LooksAgain ==
    /\ t.pc = "look" /\ source[File] # Missing
    /\ ~(Usable /\ SameSize(File))
    /\ Goes("open")
    /\ UNCHANGED <<operation, source, target, folder, link, tally, before>>

\* The source is opened: by Get over the connection, by Sync here.
OpensSource ==
    /\ t.pc = "open"
    /\ \/ /\ source[File] # Missing /\ (Syncing \/ Usable)
          /\ Goes(IF Syncing THEN "create" ELSE "mkdir") /\ UNCHANGED tally
       \/ Fails
    /\ UNCHANGED <<operation, source, target, folder, link, before>>

\* Variant: the file is opened for writing as it is.
CreatesOver ==
    /\ t.pc = "create"
    /\ \/ /\ (Usable \/ operation.kind = "get") /\ folder
          /\ target' = [target EXCEPT ![File] = IF @ = Missing THEN << >> ELSE @]
          /\ t' = [t EXCEPT !.pc = "copy", !.done = 0] /\ UNCHANGED tally
       \/ Fails /\ UNCHANGED target
    /\ UNCHANGED <<operation, source, folder, link, before>>

\* Create truncates.
Creates ==
    /\ t.pc = "create"
    /\ \/ /\ (Usable \/ operation.kind = "get") /\ folder
          /\ target' = [target EXCEPT ![File] = << >>]
          /\ t' = [t EXCEPT !.pc = "copy", !.done = 0] /\ UNCHANGED tally
       \/ Fails /\ UNCHANGED target
    /\ UNCHANGED <<operation, source, folder, link, before>>

\* io.Copy or copyWithProgress, one buffer.
CopiesBuffer ==
    /\ t.pc = "copy" /\ Usable /\ t.done < Len(source[File])
    /\ LET n == t.done + 1 IN
       /\ target' = [target EXCEPT ![File] =
                        IF n <= Len(@) THEN [target[File] EXCEPT ![n] = source[File][n]]
                        ELSE Append(@, source[File][n])]
       /\ t' = [t EXCEPT !.done = n]
    /\ UNCHANGED <<operation, source, folder, link, tally, before>>

\* The end of the source, which Get has to be told over the connection.
CopyEnds ==
    /\ t.pc = "copy" /\ t.done = Len(source[File]) /\ (operation.kind = "get" => Usable)
    /\ Counts("uploaded", File)
    /\ IF Syncing THEN NextFile ELSE Goes("ok")
    /\ UNCHANGED <<operation, source, target, folder, link, before>>

\* A write fails, or a read: on a full disk, or over a broken connection.
CopyBreaks ==
    /\ t.pc = "copy" /\ (t.done < Len(source[File]) \/ operation.kind = "get")
    /\ Fails
    /\ UNCHANGED <<operation, source, target, folder, link, before>>

LinkBreaks ==
    /\ link = "up" /\ t.pc \notin {"ok", "error"} /\ link' = "broken"
    /\ UNCHANGED <<operation, source, target, folder, t, tally, before>>

\* Somebody changes the files, and the same command is run once more.
RunsAgain ==
    /\ t.pc \in {"ok", "error"} /\ t.round < MaxRounds
    /\ \E files \in [Range(Files) -> FileStates] : source' = files
    /\ t' = [pc |-> "start", file |-> 1, done |-> 0, round |-> t.round + 1]
    /\ link' = "none" /\ before' = target
    /\ tally' = [what \in DOMAIN tally |-> {}]
    /\ UNCHANGED <<operation, target, folder>>

-----------------------------------------------------------------------------
(* Specification *)

Init ==
    /\ operation \in [kind : {"put", "get", "sync"}, creds : {"none", "good"}]
    /\ source \in [Range(Files) -> FileStates]
    /\ target \in [Range(Files) -> FileStates]
    /\ folder \in BOOLEAN /\ (~folder => \A f \in Range(Files) : target[f] = Missing)
    /\ link = "none" /\ before = target
    /\ t = [pc |-> "start", file |-> 1, done |-> 0, round |-> 1]
    /\ tally = [what \in {"uploaded", "skipped", "failed"} |-> {}]

Next ==
    \/ OpensFirst \/ Connects \/ MakesFolder \/ SkipsSameSize \/ PassesOver \/ LooksAgain
    \/ OpensSource \/ Creates \/ CopiesBuffer \/ CopyEnds \/ CopyBreaks \/ LinkBreaks \/ RunsAgain

Spec == Init /\ [][Next]_vars

-----------------------------------------------------------------------------
(* Properties *)

TypeOK ==
    /\ link \in {"none", "up", "broken"} /\ t.file \in DOMAIN Files /\ t.round \in 1..MaxRounds
    /\ t.pc \in {"start", "connect", "mkdir", "look", "open", "create", "copy", "ok", "error"}

\* At every moment each target is as it was, or a beginning of its source: nothing of
\* an older, longer file stays behind it.  What is counted as uploaded is whole, what is
\* counted as skipped has the size of its source, and a run of Sync without failures
\* leaves every file in one of the two states: so a run that nothing disturbs repairs
\* what an earlier one left behind, unless its size happens to be right.  Without
\* credentials nothing changes.
TransferTells ==
    /\ TypeOK
    /\ \A f \in Range(Files) :
          /\ \/ target[f] = before[f]
             \/ /\ source[f] # Missing
                /\ \E n \in 0..Len(source[f]) : target[f] = SubSeq(source[f], 1, n)
          /\ f \in tally["uploaded"] => target[f] = source[f]
          /\ f \in tally["skipped"] => target[f] = before[f] /\ Len(target[f]) = Len(source[f])
    /\ (Syncing /\ t.pc = "ok" /\ tally["failed"] = {}) =>
          \A f \in Range(Files) : source[f] # Missing =>
             f \in tally["uploaded"] \cup tally["skipped"]
    /\ (~Syncing /\ t.pc = "ok") => target[Files[1]] = source[Files[1]]
    /\ operation.creds = "none" => target = before /\ t.pc # "ok"
=============================================================================
