------------------------------ MODULE JobLedger ------------------------------
(***************************************************************************)
(* What the jobs directory promises, without files, processes or ssh: an   *)
(* entry is made before its command starts, a command starts at most once  *)
(* and does not come back, and an entry reads "stopped" only while its     *)
(* command is over.                                                        *)
(***************************************************************************)
CONSTANT Jobs

VARIABLES
    recorded,   \* the jobs that have an entry
    work,       \* the remote commands
    stopped     \* the entries that read "stopped"

vars == <<recorded, work, stopped>>

Init ==
    /\ recorded = [j \in Jobs |-> FALSE]
    /\ work = [j \in Jobs |-> "none"]
    /\ stopped = [j \in Jobs |-> FALSE]

Record(j) ==
    /\ recorded' = [recorded EXCEPT ![j] = TRUE]
    /\ UNCHANGED <<work, stopped>>

Start(j) ==
    /\ recorded[j]
    /\ work[j] = "none"
    /\ work' = [work EXCEPT ![j] = "running"]
    /\ UNCHANGED <<recorded, stopped>>

End(j) ==
    /\ work[j] = "running"
    /\ work' = [work EXCEPT ![j] = "ended"]
    /\ UNCHANGED <<recorded, stopped>>

\* The entry may stop reading "stopped" while another process rewrites it.
Note(j) ==
    \E b \in BOOLEAN :
        /\ b => work[j] = "ended"
        /\ stopped' = [stopped EXCEPT ![j] = b]
        /\ UNCHANGED <<recorded, work>>

Next == \E j \in Jobs : Record(j) \/ Start(j) \/ End(j) \/ Note(j)

Spec == Init /\ [][Next]_vars
=============================================================================
