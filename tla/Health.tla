-------------------------------- MODULE Health --------------------------------
(***************************************************************************)
(* health (internal/health CheckHost, internal/cli runHealth): host by host *)
(* five checks, each of them a `codex-ssh exec` of its own, whose output is *)
(* read as a number.  The report of a host is raised by what its checks     *)
(* find, and the exit status tells whether a host is critical.              *)
(***************************************************************************)
EXTENDS Naturals, FiniteSets, Sequences

CONSTANTS
    Hosts,        \* hosts of the inventory
    Nohost        \* none of them

HealthAssumption == IsFiniteSet(Hosts) /\ Nohost \notin Hosts

Checks == <<"ssh", "cpu", "memory", "disk", "load">>

\* What the command of a check gives: a value by its thresholds, text that is no number,
\* or an error of ssh.  For the first check "low" is the answer that is expected.
Readings == {"low", "high", "over", "text", "lost"}

VARIABLES
    selected,     \* hosts to check
    left,         \* those that have not been started
    now,          \* host and check, or none
    verdict,      \* the status of the report so far
    counts,       \* hosts by status
    facts,        \* history: which hosts were found in trouble, or strained
    exitcode      \* of the process; 2 while it runs

vars == <<selected, left, now, verdict, counts, facts, exitcode>>

-----------------------------------------------------------------------------
(* One check *)

\* checkSSHConnectivity, then checkCPU to checkLoad.  Sscanf leaves 0 for text that is
\* no number, which is a low value; the output of ssh's errors is part of that text.
Status(check, reading) ==
    CASE check = "ssh" /\ reading = "lost" -> "critical"
      [] check = "ssh" /\ reading \notin {"low", "lost"} -> "degraded"
      [] check # "ssh" /\ reading = "over" -> "critical"
      [] check # "ssh" /\ reading = "high" -> "degraded"
      [] check # "ssh" /\ reading = "lost" -> "unknown"
      [] OTHER -> "healthy"

\* Variant: the later check decides.
RaisedAnew(check, status, sofar) ==
    CASE status = "critical" /\ check # "load" -> "critical"
      [] status = "degraded" /\ check \notin {"ssh", "cpu"} -> "degraded"
      [] OTHER -> sofar

\* What CheckHost makes of it: connectivity and the processor count only when they are
\* critical, the load only when it is not.
Raised(check, status, sofar) ==
    CASE status = "critical" /\ check # "load" -> "critical"
      [] status = "degraded" /\ check \notin {"ssh", "cpu"} /\ sofar = "healthy" -> "degraded"
      [] OTHER -> sofar

\* What a reading means to whoever asked.  A host in trouble is out of reach, or its
\* processor, memory or disk is over the limit; a load over the limit is printed as
\* critical and counts for nothing.
Found(check, reading) ==
    {w \in {"trouble"} : \/ check = "ssh" /\ reading = "lost"
                         \/ check \in {"cpu", "memory", "disk"} /\ reading = "over"}
    \cup {w \in {"strained"} : check \in {"memory", "disk", "load"} /\ reading = "high"}

-----------------------------------------------------------------------------
(* The process *)

Finishes(status) == counts' = [counts EXCEPT ![status] = @ + 1] /\ now' = [host |-> Nohost, check |-> 0]

\* The hosts of the inventory with the tag, if one is given; a map has no order.
StartsHost ==
    /\ exitcode = 2 /\ now.check = 0
    /\ \E h \in left : now' = [host |-> h, check |-> 1] /\ left' = left \ {h}
    /\ verdict' = "healthy"
    /\ UNCHANGED <<selected, counts, facts, exitcode>>

\* A host that cannot be reached is not checked any further.
Checked(reading) ==
    /\ now.check # 0
    /\ LET check == Checks[now.check]
           status == Status(check, reading)
           after == Raised(check, status, verdict)
       IN /\ verdict' = after
          /\ facts' = facts \cup ({now.host} \X Found(check, reading))
          /\ IF now.check = 5 \/ (check = "ssh" /\ status = "critical") THEN Finishes(after)
             ELSE now' = [now EXCEPT !.check = @ + 1] /\ UNCHANGED counts
    /\ UNCHANGED <<selected, left, exitcode>>

ExitsWithSummary ==
    /\ exitcode = 2 /\ now.check = 0 /\ left = {}
    /\ exitcode' = IF selected = {} \/ counts["critical"] > 0 THEN 1 ELSE 0
    /\ UNCHANGED <<selected, left, now, verdict, counts, facts>>

Init ==
    /\ selected \in SUBSET Hosts /\ left = selected
    /\ now = [host |-> Nohost, check |-> 0]
    /\ verdict = "healthy" /\ facts = {} /\ exitcode = 2
    /\ counts = [s \in {"healthy", "degraded", "critical"} |-> 0]

Next == StartsHost \/ (\E r \in Readings : Checked(r)) \/ ExitsWithSummary

Spec == Init /\ [][Next]_vars

-----------------------------------------------------------------------------
(* Properties *)

TypeOK ==
    /\ left \subseteq selected /\ now.check \in 0..5 /\ exitcode \in {0, 1, 2}
    /\ verdict \in {"healthy", "degraded", "critical"}

InTrouble(h) == <<h, "trouble">> \in facts
Strained(h) == <<h, "strained">> \in facts

\* Every selected host is counted once and under what was found on it, whatever its other
\* checks say and in whatever order the hosts come; and exit status 0 means that there
\* were hosts and that none of them is in trouble.
SummaryTells ==
    /\ TypeOK
    /\ exitcode # 2 =>
          /\ counts["critical"] = Cardinality({h \in selected : InTrouble(h)})
          /\ counts["degraded"] = Cardinality({h \in selected : Strained(h) /\ ~InTrouble(h)})
          /\ counts["healthy"] + counts["degraded"] + counts["critical"] = Cardinality(selected)
          /\ exitcode = 0 <=> selected # {} /\ \A h \in selected : ~InTrouble(h)
=============================================================================
