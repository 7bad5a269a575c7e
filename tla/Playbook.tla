------------------------------ MODULE Playbook ------------------------------
(***************************************************************************)
(* playbook run (internal/playbook, Run): step by step, and within a step   *)
(* host by host, one command at a time.  A step may be skipped by its       *)
(* `when`, tried again, declared failed by its `failed_when`, and forgiven  *)
(* by `ignore_errors`; any other failure ends the run.                      *)
(***************************************************************************)
EXTENDS Naturals, Sequences, FiniteSets

CONSTANTS
    Aliases,      \* hosts of the inventory
    Steps,        \* steps that a playbook may have
    MaxSteps,     \* bound: steps of a playbook
    MaxHosts,     \* bound: hosts of a playbook
    Codes         \* exit codes of commands

\* A step: how often it is tried, the hosts for which its `when` holds (a condition
\* the code does not know holds for all), and the exit codes that its `failed_when`
\* matches.
PlaybookAssumption ==
    /\ Steps \subseteq [retries : Nat, when : SUBSET Aliases, ignore : BOOLEAN,
                        failedWhen : SUBSET Codes]
    /\ Codes \subseteq Nat /\ 0 \in Codes
    /\ {MaxSteps, MaxHosts} \subseteq Nat

VARIABLES
    book,         \* the playbook: steps, hosts, and whether the run is a dry one
    broken,       \* hosts that do not resolve
    run,          \* Run: control point, step, position of the host, attempt
    ran,          \* the commands that were executed, in order
    result,       \* PlaybookResult
    exit          \* of the CLI

vars == <<book, broken, run, ran, result, exit>>

-----------------------------------------------------------------------------
(* Run *)

Step == book.steps[run.step]
Alias == book.hosts[run.host]
InStep(pc) == run.pc = pc /\ run.step <= Len(book.steps)

\* retries of 0 are one try.
Tries(s) == IF s.retries = 0 THEN 1 ELSE s.retries

\* Failed by its exit code or by failed_when.
Matches(s, code) == code \in s.failedWhen
IsFailed(s, code) == code # 0 \/ Matches(s, code)

Result(what, code) == [step |-> run.step, host |-> run.host, what |-> what, code |-> code]

\* The next host of the step, or the first one of the next step.
NextHost == run' = IF run.host < Len(book.hosts)
                   THEN [run EXCEPT !.pc = "host", !.host = @ + 1, !.attempt = 0]
                   ELSE [run EXCEPT !.pc = "host", !.step = @ + 1, !.host = 1, !.attempt = 0]

\* Variant: a skipped host ends its step.
NextStep == run' = [run EXCEPT !.pc = "host", !.step = @ + 1, !.host = 1, !.attempt = 0]

\* hosts.Resolve fails: Run returns no result, and the CLI reports none.
ResolveFails ==
    /\ InStep("host") /\ Alias \in broken
    /\ run' = [run EXCEPT !.pc = "error"]
    /\ exit' = 1
    /\ UNCHANGED <<book, broken, ran, result>>

\* Variant: break for continue.
SkipsStep ==
    /\ InStep("host") /\ Alias \notin broken /\ Alias \notin Step.when
    /\ result' = [result EXCEPT !.results = Append(@, Result("skipped", 0)), !.skipped = @ + 1]
    /\ NextStep
    /\ UNCHANGED <<book, broken, ran, exit>>

\* evaluateWhen.
Skips ==
    /\ InStep("host") /\ Alias \notin broken /\ Alias \notin Step.when
    /\ result' = [result EXCEPT !.results = Append(@, Result("skipped", 0)), !.skipped = @ + 1]
    /\ NextHost
    /\ UNCHANGED <<book, broken, ran, exit>>

\* A dry run goes on to the next host; what it leaves out is not counted.
PrintsOnly ==
    /\ InStep("host") /\ Alias \notin broken /\ Alias \in Step.when /\ book.dry
    /\ result' = [result EXCEPT !.results = Append(@, Result("skipped", 0))]
    /\ NextHost
    /\ UNCHANGED <<book, broken, ran, exit>>

Starts ==
    /\ InStep("host") /\ Alias \notin broken /\ Alias \in Step.when /\ ~book.dry
    /\ run' = [run EXCEPT !.pc = "attempt"]
    /\ UNCHANGED <<book, broken, ran, result, exit>>

\* The loop goes on unless failed_when matches or the command succeeds.
TriesAgain(code) == run.attempt + 1 < Tries(Step) /\ ~Matches(Step, code) /\ code # 0

\* svc.Exec.  Its error is not nil exactly when its exit code is not 0.
Attempts ==
    /\ InStep("attempt")
    /\ \E code \in Codes :
          /\ ran' = Append(ran, [step |-> run.step, host |-> run.host, code |-> code])
          /\ run' = IF TriesAgain(code) THEN [run EXCEPT !.attempt = @ + 1]
                    ELSE [run EXCEPT !.pc = "conclude"]
    /\ UNCHANGED <<book, broken, result, exit>>

Code == ran[Len(ran)].code

\* Variant: a failure is recorded and the run goes on.
FailsAndGoesOn ==
    /\ InStep("conclude") /\ IsFailed(Step, Code) /\ ~Step.ignore
    /\ result' = [result EXCEPT !.results = Append(@, Result("failed", Code)),
                                !.failed = TRUE, !.errors = @ + 1]
    /\ NextHost
    /\ UNCHANGED <<book, broken, ran, exit>>

\* A failure that is not to be ignored ends the run, for every host.
Fails ==
    /\ InStep("conclude") /\ IsFailed(Step, Code) /\ ~Step.ignore
    /\ result' = [result EXCEPT !.results = Append(@, Result("failed", Code)),
                                !.failed = TRUE, !.errors = @ + 1]
    /\ run' = [run EXCEPT !.pc = "report"]
    /\ UNCHANGED <<book, broken, ran, exit>>

IgnoresFailure ==
    /\ InStep("conclude") /\ IsFailed(Step, Code) /\ Step.ignore
    /\ result' = [result EXCEPT !.results = Append(@, Result("ignored", Code))]
    /\ NextHost
    /\ UNCHANGED <<book, broken, ran, exit>>

Succeeds ==
    /\ InStep("conclude") /\ ~IsFailed(Step, Code)
    /\ result' = [result EXCEPT !.results = Append(@, Result("ok", Code)),
                                !.changed = @ + 1]
    /\ NextHost
    /\ UNCHANGED <<book, broken, ran, exit>>

RunsOut ==
    /\ run.pc = "host" /\ run.step > Len(book.steps)
    /\ run' = [run EXCEPT !.pc = "report"]
    /\ UNCHANGED <<book, broken, ran, result, exit>>

\* runPlaybookRun prints one line per result and the counters.
ReportsRun ==
    /\ run.pc = "report"
    /\ run' = [run EXCEPT !.pc = "done"]
    /\ exit' = IF result.failed THEN 1 ELSE 0
    /\ UNCHANGED <<book, broken, ran, result>>

-----------------------------------------------------------------------------
(* Specification *)

\* A validated playbook, and its hosts as resolveHosts gives them: a list may name
\* a host twice, a tag gives every host once and in any order.
Init ==
    /\ book \in [steps : UNION {[1..n -> Steps] : n \in 1..MaxSteps},
                 hosts : UNION {[1..n -> Aliases] : n \in 1..MaxHosts}, dry : BOOLEAN]
    /\ broken \in SUBSET Aliases
    /\ run = [pc |-> "host", step |-> 1, host |-> 1, attempt |-> 0]
    /\ ran = << >>
    /\ result = [results |-> << >>, failed |-> FALSE, skipped |-> 0, changed |-> 0, errors |-> 0]
    /\ exit = 2

Next ==
    \/ ResolveFails \/ Skips \/ PrintsOnly \/ Starts \/ Attempts
    \/ Fails \/ IgnoresFailure \/ Succeeds \/ RunsOut \/ ReportsRun

Spec == Init /\ [][Next]_vars

-----------------------------------------------------------------------------
(* Properties *)

Place(r) == <<r.step, r.host>>
Before(p, q) == p[1] < q[1] \/ (p[1] = q[1] /\ p[2] < q[2])

\* The last attempt at its place.
Final(i) == IF i = Len(ran)
            THEN run.pc # "attempt" \/ Place(ran[i]) # <<run.step, run.host>>
            ELSE Place(ran[i]) # Place(ran[i + 1])

TypeOK ==
    /\ run.pc \in {"host", "attempt", "conclude", "report", "done", "error"}
    /\ run.step \in 1..(Len(book.steps) + 1) /\ run.host \in DOMAIN book.hosts
    /\ exit \in {0, 1, 2}

\* A step is started on no host before the step before it is finished on every host,
\* and a place that the run has left is not visited again.
InOrder ==
    \A i, j \in DOMAIN result.results :
        i < j => Before(Place(result.results[i]), Place(result.results[j]))

\* A command is executed a second time only after it has failed in a way that its
\* failed_when does not name, and never more often than its step allows.
RetriesOnlyFailures ==
    \A i \in DOMAIN ran :
        LET s == book.steps[ran[i].step]
            again == {j \in DOMAIN ran : j > i /\ Place(ran[j]) = Place(ran[i])} IN
        /\ again # {} => ran[i].code # 0 /\ ~Matches(s, ran[i].code)
        /\ Cardinality(again) < Tries(s)

\* A command runs after a failure only as a retry of it, no more often than its step
\* allows: after the failure of the last attempt, unless it is ignored, no command runs
\* on any host, and the exit status tells.
FailureIsLast ==
    /\ RetriesOnlyFailures
    /\ \A i \in DOMAIN ran :
          LET s == book.steps[ran[i].step] IN
          (Final(i) /\ IsFailed(s, ran[i].code) /\ ~s.ignore) =>
              i = Len(ran) /\ exit # 0

\* Exit status 0 means that every step was gone through on every host, and, unless
\* the run was dry or `when` said otherwise, executed there; always step by step, and
\* within a step host by host.
ZeroMeansAllSteps ==
    /\ TypeOK /\ InOrder
    /\ exit = 0 =>
          \A s \in DOMAIN book.steps, h \in DOMAIN book.hosts :
             /\ \E i \in DOMAIN result.results : Place(result.results[i]) = <<s, h>>
             /\ (\E i \in DOMAIN ran : Place(ran[i]) = <<s, h>>)
                   <=> (~book.dry /\ book.hosts[h] \in book.steps[s].when)
=============================================================================
