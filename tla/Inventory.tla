----------------------------- MODULE Inventory ------------------------------
(***************************************************************************)
(* The host inventory (internal/hosts, the `hosts` commands, internal/mcp): *)
(* hosts.toml is read at the start of every command and replaced as a whole *)
(* by `hosts set`, `remove` and `import-ssh-config`, through a synced       *)
(* temporary file and a rename.  Nobody locks it.  A long-lived MCP server  *)
(* reads it once and answers its client from that copy.                     *)
(***************************************************************************)
EXTENDS Naturals, FiniteSets

CONSTANTS
    Aliases,      \* host aliases
    Hosts,        \* contents of a host entry
    Editors,      \* CLI processes that change the inventory; each makes one change
    Servers,      \* MCP servers
    Environments  \* the sets of faults that a behaviour may have to face: of "crash",
                  \* "save", "power"

None == "none"    \* an alias that is not in the inventory

ASSUME InventoryAssumption ==
    /\ None \notin Hosts
    /\ Environments \subseteq SUBSET {"crash", "save", "power"}

VARIABLES
    file,         \* hosts.toml as processes see it
    stable,       \* hosts.toml as it would be after a power failure
    editor,       \* the editing processes: the change asked for, control point, loaded copy
    temp,         \* the temporary file of an editor
    server,       \* MCP servers: control point and s.inv
    behind,       \* history: <<g, e>>, where g had loaded the file when e saved it
    faults        \* the faults of this behaviour; they never change

vars == <<file, stable, editor, temp, server, behind, faults>>

-----------------------------------------------------------------------------
(* State *)

Inv == [Aliases -> Hosts \cup {None}]
Empty == [a \in Aliases |-> None]

\* What bytes on a disk read back as: a whole inventory, or not.
Torn == [whole |-> FALSE, inv |-> Empty]
Content(i) == [whole |-> TRUE, inv |-> i]
Contents == {Torn} \cup [whole : {TRUE}, inv : Inv]

\* A change: some aliases get a host each, or lose theirs.
Changes == {c \in [Aliases -> Hosts \cup {None, "kept"}] : \E a \in Aliases : c[a] # "kept"}
Sets == {c \in Changes : Cardinality({a \in Aliases : c[a] # "kept"}) = 1 /\ \A a \in Aliases : c[a] # None}
Removes == {c \in Changes : Cardinality({a \in Aliases : c[a] = None}) = 1
                            /\ \A a \in Aliases : c[a] \in {None, "kept"}}
Imports == {c \in Changes : \A a \in Aliases : c[a] # None}

Touches(c) == {a \in Aliases : c[a] # "kept"}

\* Variant: a change starts from nothing.
AppliesToNothing(c, i) == [a \in Aliases |-> IF c[a] = "kept" THEN None ELSE c[a]]

\* runHostsSet, `hosts remove` and sshconfig.Merge on the loaded copy.
Applies(c, i) == [a \in Aliases |-> IF c[a] = "kept" THEN i[a] ELSE c[a]]

EditorPcs == {"load", "create", "write", "sync", "rename", "saved", "failed", "crashed"}
EditorGoes(e, pc) == editor' = [editor EXCEPT ![e].pc = pc]

-----------------------------------------------------------------------------
(* hosts set, remove, import-ssh-config *)

\* loadContext, then the change in memory.  A file that does not decode ends the
\* command.
EditorLoads(e) ==
    /\ editor[e].pc = "load"
    /\ IF file.whole
       THEN editor' = [editor EXCEPT ![e].pc = "create",
                                     ![e].inv = Applies(editor[e].change, file.inv)]
       ELSE EditorGoes(e, "failed")
    /\ UNCHANGED <<file, stable, temp, server>>

\* os.CreateTemp, a name of the editor's own.
CreatesTemp(e) ==
    /\ editor[e].pc = "create"
    /\ \/ temp' = [temp EXCEPT ![e] = Torn] /\ EditorGoes(e, "write")
       \/ "save" \in faults /\ EditorGoes(e, "failed") /\ UNCHANGED temp
    /\ UNCHANGED <<file, stable, server>>

\* Encode.  On an error, and after the rename, the deferred Remove takes care of the
\* temporary file; only its content is kept here.
Encodes(e) ==
    /\ editor[e].pc = "write"
    /\ \/ temp' = [temp EXCEPT ![e] = Content(editor[e].inv)] /\ EditorGoes(e, "sync")
       \/ "save" \in faults /\ temp' = [temp EXCEPT ![e] = Torn] /\ EditorGoes(e, "failed")
    /\ UNCHANGED <<file, stable, server>>

\* Sync and Close.
Syncs(e) ==
    /\ editor[e].pc = "sync"
    /\ \/ EditorGoes(e, "rename")
       \/ "save" \in faults /\ EditorGoes(e, "failed")
    /\ UNCHANGED <<file, stable, temp, server>>

\* Variant: os.Rename of a file that was not synced; a power failure may find the
\* name without the bytes.
RenamesUnsynced(e) ==
    /\ editor[e].pc = "rename"
    /\ file' = temp[e]
    /\ stable' \in {stable, Torn}
    /\ EditorGoes(e, "saved")
    /\ UNCHANGED <<temp, server>>

\* os.Rename.  The bytes are on the disk; the name follows when the directory is
\* written, which nothing here waits for.
Renames(e) ==
    /\ editor[e].pc = "rename"
    /\ \/ file' = temp[e] /\ EditorGoes(e, "saved")
       \/ "save" \in faults /\ EditorGoes(e, "failed") /\ UNCHANGED file
    /\ UNCHANGED <<stable, temp, server>>

EditorCrashes(e) ==
    /\ "crash" \in faults
    /\ editor[e].pc \notin {"saved", "failed", "crashed"}
    /\ EditorGoes(e, "crashed")
    /\ UNCHANGED <<file, stable, temp, server>>

\* The kernel writes the directory.
DirectoryWritten ==
    /\ stable # file
    /\ stable' = file
    /\ UNCHANGED <<file, editor, temp, server>>

\* Every process dies, and hosts.toml is what the disk has.
PowerFails ==
    /\ "power" \in faults
    /\ file' = stable
    /\ editor' = [e \in Editors |->
            IF editor[e].pc \in {"load", "saved", "failed"} THEN editor[e]
            ELSE [editor[e] EXCEPT !.pc = "crashed"]]
    /\ server' = [s \in Servers |-> [server[s] EXCEPT !.pc = "off"]]
    /\ UNCHANGED <<stable, temp>>

-----------------------------------------------------------------------------
(* The MCP server *)

\* Run calls loadContext.  Its error is written to stderr and the server goes on
\* with an inventory without hosts.
ServerStarts(s) ==
    /\ server[s].pc = "off"
    /\ server' = [server EXCEPT ![s] =
            [pc |-> "ready", inv |-> IF file.whole THEN file.inv ELSE Empty]]
    /\ UNCHANGED <<file, stable, editor, temp>>

\* toolHostsReload starts `codex-ssh hosts reload`, a process of its own that
\* loads hosts.toml and prints how many hosts it has.
ReloadStarts(s) ==
    /\ server[s].pc = "ready"
    /\ server' = [server EXCEPT ![s].pc = "reloading"]
    /\ UNCHANGED <<file, stable, editor, temp>>

ReloadReports(s) ==
    /\ server[s].pc = "reloading"
    /\ server' = [server EXCEPT ![s].pc = "ready"]
    /\ UNCHANGED <<file, stable, editor, temp>>

-----------------------------------------------------------------------------
(* Specification *)

Init ==
    /\ file \in {Content(i) : i \in Inv}
    /\ stable = file
    /\ editor \in [Editors -> [change : Sets \cup Removes \cup Imports, pc : {"load"},
                               inv : {Empty}]]
    /\ temp = [e \in Editors |-> Torn]
    /\ server = [s \in Servers |-> [pc |-> "off", inv |-> Empty]]
    /\ behind = {}
    /\ faults \in Environments

Step ==
    \/ \E e \in Editors :
          EditorLoads(e) \/ CreatesTemp(e) \/ Encodes(e) \/ Syncs(e) \/ Renames(e)
          \/ EditorCrashes(e)
    \/ \E s \in Servers :
          ServerStarts(s) \/ ReloadStarts(s) \/ ReloadReports(s)
    \/ DirectoryWritten
    \/ PowerFails

\* History, not code: which edits were under way when one was saved.
Overtakes ==
    behind' = behind \cup
        {p \in Editors \X Editors :
            LET g == p[1]
                e == p[2] IN
            /\ g # e /\ editor[g].pc \in {"create", "write", "sync", "rename"}
            /\ editor[e].pc = "rename" /\ editor'[e].pc = "saved"}

Next == Step /\ Overtakes /\ UNCHANGED faults

Spec == Init /\ [][Next]_vars

-----------------------------------------------------------------------------
(* Properties *)

TypeOK ==
    /\ {file, stable} \subseteq Contents
    /\ editor \in [Editors -> [change : Changes, pc : EditorPcs, inv : Inv]]
    /\ temp \in [Editors -> Contents]
    /\ server \in [Servers -> [pc : {"off", "ready", "reloading"}, inv : Inv]]
    /\ behind \subseteq Editors \X Editors
    /\ faults \in Environments

\* Whatever dies at whatever moment, the inventory can be loaded again, also by the
\* first process after a power failure; and the state is well typed.
InventoryLoadable == TypeOK /\ file.whole /\ stable.whole

\* app.go:350 prints "saved host <alias>".  The host then is in the inventory until
\* somebody edits it again, except for one cause: another edit, which had loaded
\* the file before, is saved after it and silently undoes it.
SavedHostStays ==
    "power" \notin faults =>
    \A e \in Editors : \A a \in Touches(editor[e].change) :
        (/\ editor[e].pc = "saved"
         /\ \A g \in Editors \ {e} :
               editor[g].pc = "saved" => a \notin Touches(editor[g].change) /\ <<g, e>> \notin behind)
            => file.inv[a] = editor[e].change[a]
=============================================================================
