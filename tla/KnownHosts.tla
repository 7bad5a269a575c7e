----------------------------- MODULE KnownHosts -----------------------------
(***************************************************************************)
(* First contact with a host (internal/cli, ensureKnownHosts): before ssh   *)
(* runs, the host and its jump hosts are looked up in ~/.ssh/known_hosts,   *)
(* and the key of one that is not there is fetched and appended.  Several   *)
(* processes, and the goroutines of one `exec @tag`, do this at a time on   *)
(* one file that nobody locks.                                              *)
(***************************************************************************)
EXTENDS Naturals, SequencesExt, FiniteSets

CONSTANTS
    Clients,      \* calls of ensureKnownHosts
    Names,        \* host names
    OtherPorts,   \* ssh ports besides 22
    Keys,         \* host keys
    MaxHops,      \* bound: jump hosts of one target
    Environments  \* what a behaviour may have to face, a set of "rekey", "tools",
                  \* "partial" and "noise", or "off": keys are left to ssh

ASSUME KnownHostsAssumption ==
    /\ OtherPorts \subseteq Nat \ {0, 22}
    /\ MaxHops \in Nat
    /\ Environments \subseteq SUBSET {"rekey", "tools", "partial", "noise", "off"}

VARIABLES
    known,        \* known_hosts: its lines, and whether the last one lacks its newline
    serverKey,    \* the key that each server presents
    client,       \* the calls: hosts asked for, the one in hand, control point
    faults        \* what this behaviour has to face; it never changes

vars == <<known, serverKey, client, faults>>

-----------------------------------------------------------------------------
(* State *)

\* A host as the inventory gives it, port 0 for none, and the server it stands for.
Endpoints == Names \X ({0, 22} \cup OtherPorts)
Servers == Names \X ({22} \cup OtherPorts)

\* A line is a key of a server, or text that is no key.
Garbage == [of |-> <<>>, key |-> <<>>]
Lines == [of : Servers, key : Keys] \cup {Garbage}

Pcs == {"prepare", "lookup", "fetch", "last", "append", "ok", "failed"}
NoLine == Garbage

\* The hosts of a call, knownHostsTargets: the jump hosts and then the host itself.
TargetLists == {s \in BoundedSeq(Endpoints, MaxHops + 1) : s # << >>}

KeysOf(q) == {known.lines[i].key : i \in {j \in DOMAIN known.lines : known.lines[j].of = q}}
IsKnown(q) == KeysOf(q) # {}

-----------------------------------------------------------------------------
(* ensureKnownHosts *)

\* Variant: the query leaves the port out.
QueryByName(e) == <<e[1], 22>>

\* knownHostQuery: what a host is looked up by and written under.
Query(e) == IF e[2] \in {0, 22} THEN <<e[1], 22>> ELSE e

\* ssh-keyscan is asked for the port itself.
ServerOf(e) == <<e[1], IF e[2] = 0 THEN 22 ELSE e[2]>>

Host(c) == client[c].targets[client[c].at]
Goes(c, pc) == client' = [client EXCEPT ![c].pc = pc]

\* The next host of the loop whose query has not been seen, or the end.
Advances(c) ==
    LET ts == client[c].targets
        next == {i \in DOMAIN ts : /\ i > client[c].at
                                   /\ \A k \in 1..(i - 1) : Query(ts[k]) # Query(ts[i])} IN
    client' = [client EXCEPT
        ![c].pc = IF next = {} THEN "ok" ELSE "lookup",
        ![c].at = IF next = {} THEN client[c].at
                  ELSE CHOOSE i \in next : \A j \in next : i <= j]

\* Nothing is done if the configuration does not ask for strict checking against the
\* known_hosts of the system.  Otherwise ensureKnownHostsFile creates the file if it is
\* missing; an empty file and none are one state here.
Prepares(c) ==
    /\ client[c].pc = "prepare"
    /\ \/ Goes(c, IF "off" \in faults THEN "ok" ELSE "lookup")
       \/ "tools" \in faults /\ Goes(c, "failed")
    /\ UNCHANGED <<known, serverKey>>

\* Variant: the lookup reports every host as missing.
LooksUpNothing(c) ==
    /\ client[c].pc = "lookup"
    /\ \/ Goes(c, "fetch")
       \/ "tools" \in faults /\ Goes(c, "failed")
    /\ UNCHANGED <<known, serverKey>>

\* ssh-keygen -F.
LooksUp(c) ==
    /\ client[c].pc = "lookup"
    /\ \/ IF IsKnown(Query(Host(c))) THEN Advances(c) ELSE Goes(c, "fetch")
       \/ "tools" \in faults /\ Goes(c, "failed")
    /\ UNCHANGED <<known, serverKey>>

\* ssh-keyscan, from this machine and never through a jump host: it may fail, or print
\* nothing, which is an error as well.  What it says on standard error counts as its
\* output: one that finds no key, says so and ends with status 0 has found a line.
Found(c) == [of |-> ServerOf(Host(c)), key |-> serverKey[ServerOf(Host(c))]]

Fetches(c) ==
    /\ client[c].pc = "fetch"
    /\ \/ \E line \in {Found(c)} \cup (IF "noise" \in faults THEN {Garbage} ELSE {}) :
             client' = [client EXCEPT ![c].pc = "last", ![c].entry = line]
       \/ "tools" \in faults /\ Goes(c, "failed")
    /\ UNCHANGED <<known, serverKey>>

\* Variant: appendKnownHosts takes the file to end with a newline.
ReadsNoLast(c) ==
    /\ client[c].pc = "last"
    /\ client' = [client EXCEPT ![c].pc = "append", ![c].newline = FALSE]
    /\ UNCHANGED <<known, serverKey>>

\* appendKnownHosts reads the file for its last byte.
ReadsLast(c) ==
    /\ client[c].pc = "last"
    /\ client' = [client EXCEPT ![c].pc = "append", ![c].newline = known.open]
    /\ UNCHANGED <<known, serverKey>>

\* What is written: the line, all of it but its newline, or a part that is no key.  One
\* that does not start on a line of its own spoils the one it continues.
Written(line, newline, what) ==
    [lines |-> IF known.open /\ ~newline
               THEN Append(Front(known.lines), Garbage)
               ELSE Append(known.lines, IF what = "part" THEN Garbage ELSE line),
     open |-> what # "whole"]

\* A write that stops short, on a full disk: anywhere in the line, behind the newline
\* that was put before it, or between the lines if there are several keys.
StopsShort(c) ==
    \/ \E what \in {"whole", "bare", "part"} :
          known' = Written(client[c].entry, client[c].newline, what)
    \/ client[c].newline /\ known' = [lines |-> known.lines, open |-> FALSE]

\* One write with O_APPEND.
Appends(c) ==
    /\ client[c].pc = "append"
    /\ \/ known' = Written(client[c].entry, client[c].newline, "whole") /\ Advances(c)
       \/ "partial" \in faults /\ StopsShort(c) /\ Goes(c, "failed")
       \/ "tools" \in faults /\ Goes(c, "failed") /\ UNCHANGED known
    /\ UNCHANGED serverKey

\* A server is installed anew, or another one answers in its place.
Rekeys(q) ==
    /\ "rekey" \in faults
    /\ \E k \in Keys \ {serverKey[q]} : serverKey' = [serverKey EXCEPT ![q] = k]
    /\ UNCHANGED <<known, client>>

-----------------------------------------------------------------------------
(* Specification *)

Step(c) == Prepares(c) \/ LooksUp(c) \/ Fetches(c) \/ ReadsLast(c) \/ Appends(c)

\* known_hosts is empty or has a line, which an editor may have left without newline.
Init ==
    /\ known \in {[lines |-> << >>, open |-> FALSE]}
                 \cup [lines : {<<l>> : l \in [of : Servers, key : Keys]}, open : BOOLEAN]
    /\ serverKey \in [Servers -> Keys]
    /\ client \in [Clients -> [pc : {"prepare"}, targets : TargetLists, at : {1},
                               newline : {FALSE}, entry : {NoLine}]]
    /\ faults \in Environments

Next ==
    /\ \/ \E c \in Clients : Step(c)
       \/ \E q \in Servers : Rekeys(q)
    /\ UNCHANGED faults

Spec == Init /\ [][Next]_vars

-----------------------------------------------------------------------------
(* Properties *)

TypeOK ==
    /\ known.lines \in Seq(Lines) /\ known.open \in BOOLEAN
    /\ known.open => known.lines # << >>
    /\ serverKey \in [Servers -> Keys]
    /\ client \in [Clients -> [pc : Pcs, targets : TargetLists, at : 1..(MaxHops + 1),
                               newline : BOOLEAN, entry : Lines]]
    /\ \A c \in Clients : client[c].at \in DOMAIN client[c].targets

\* Nothing is promised if a write may stop short just before another one, if the text
\* of an error may pass for a key, or if the configuration does not ask for it.
Promises == faults \cap {"partial", "noise", "off"} = {}

\* When ensureKnownHosts returns without error, ssh finds a key of every server it
\* is going to contact, jump hosts included, whatever else was written meanwhile,
\* where that is promised; and the state is well typed.
EnsuredMeansKnown ==
    /\ TypeOK
    /\ Promises =>
       \A c \in Clients : client[c].pc = "ok" =>
          \A i \in DOMAIN client[c].targets : IsKnown(ServerOf(client[c].targets[i]))

\* Calls that have found q missing and not written it yet.
Pending(q) ==
    {c \in Clients : client[c].pc \in {"fetch", "last", "append"} /\ Query(Host(c)) = q}

Settled(q) == IsKnown(q) /\ Pending(q) = {}

\* Line i is about to be lost: the write of it stopped short of its newline, and its
\* call has returned an error; another call, which saw the file before that, is going
\* to write behind it.
CutOff(i) ==
    /\ "partial" \in faults /\ known.open /\ i = Len(known.lines)
    /\ \E c \in Clients : client[c].pc = "failed" /\ client[c].entry = known.lines[i]
    /\ \E c \in Clients : client[c].pc = "append" /\ ~client[c].newline

\* Trust on first use: once a server is known, by lines that are not cut off, and no call
\* is on its way to add it, none ever will be and the keys that ssh accepts from it never
\* change, whatever key it presents.
Pinned ==
    [][\A q \in Servers :
          Settled(q) /\ (\A i \in DOMAIN known.lines : known.lines[i].of = q => ~CutOff(i)) =>
              Settled(q)' /\ KeysOf(q)' = KeysOf(q)]_vars

\* No write, complete or cut short, costs the user a line that was there, the one
\* without newline that an editor may have left included.  Only a line that is cut off,
\* and whose user has been told so, may be spoilt.
LinesStay ==
    [][\A i \in DOMAIN known.lines :
          known.lines[i] # Garbage /\ ~CutOff(i) => /\ i \in DOMAIN known'.lines
                                                   /\ known'.lines[i] = known.lines[i]]_vars
=============================================================================
