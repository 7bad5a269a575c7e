--------------------------- MODULE MultiExecProofs ---------------------------
(***************************************************************************)
(* Proofs about MultiExec, for any hosts, tags, arguments and faults of     *)
(* known_hosts.  What a goroutine does to known_hosts is a step of          *)
(* KnownHosts, so that its invariant (KHP!IInv) is taken over.  IInv adds   *)
(* which goroutines have been started and what the WaitGroup counts         *)
(* (Started, Typed), what is settled when runMultiExec has returned         *)
(* (Chosen), and that what a goroutine has in hand, what it has stored,     *)
(* what it has logged and what its host has done agree (Honest).            *)
(***************************************************************************)
EXTENDS MultiExec, SequenceTheorems, FiniteSetTheorems, TLAPS

GoPcs == {"none", "keys", "auth", "run", "running", "audit", "store", "cleanup",
          "leave", "done"}

Goroutines == [pc : GoPcs, ok : BOOLEAN, expired : BOOLEAN]
Results == [alias : Aliases \cup {JumpHost}, ok : BOOLEAN]

\* The goroutines that wg counts.
Active == {a \in Aliases : go[a].pc \notin {"none", "done"}}

Typed ==
    /\ main \in [pc : {"select", "spawn", "returned"}, order : Seq(Aliases),
                 next : Nat \ {0}, exit : {"none", "ok", "failed"}]
    /\ main.next <= Len(main.order) + 1
    /\ wg = Cardinality(Active)
    /\ go \in [Aliases -> Goroutines]
    /\ slot \in Seq(Results) /\ Len(slot) = Len(main.order)
    /\ remote \in [Aliases -> {"idle", "running", "ok", "bad"}]
    /\ askpass \subseteq Aliases
    /\ audit \in [Aliases -> Seq(BOOLEAN)]
    /\ log.failed \in BOOLEAN
    /\ log.torn \/ log.open # {} => log.failed

\* The hosts in order are the selected ones, each once, and all of them resolve.
Listed ==
    /\ \A i, j \in DOMAIN main.order : main.order[i] = main.order[j] => i = j
    /\ ToSet(main.order) = Selected
    /\ Selected # {} /\ Selected \cap broken = {}

\* Where runMultiExec is.
Chosen ==
    /\ main.pc = "select" => main.order = << >> /\ main.next = 1 /\ main.exit = "none"
    /\ main.pc = "spawn" => main.order # << >> /\ main.exit = "none"
    /\ main.order # << >> => Listed
    /\ main.pc = "returned" =>
          \/ main.order = << >> /\ main.exit = "failed"
          \/ /\ main.order # << >> /\ main.next = Len(main.order) + 1
             /\ Active = {}
             /\ main.exit = "ok" => \A i \in DOMAIN slot : slot[i].ok

\* The goroutines that have been started are those of the hosts passed in the order.
Started ==
    \A a \in Aliases : go[a].pc # "none" <=>
        \E i \in DOMAIN main.order : i < main.next /\ main.order[i] = a

\* One goroutine, its host, its place in the results, and its call of ensureKnownHosts.
HonestLog(a) ==
    /\ go[a].pc \in {"none", "keys", "auth", "run"} => remote[a] = "idle" /\ audit[a] = << >>
    /\ go[a].pc \in {"running", "audit"} => audit[a] = << >>
    /\ go[a].pc \in {"store", "cleanup", "leave", "done"} =>
          \/ audit[a] = <<go[a].ok>>
          \/ audit[a] = << >> /\ (remote[a] = "idle" \/ log.failed)

HonestResult(a) ==
    /\ go[a].pc \in {"cleanup", "leave", "done"} =>
          \A i \in DOMAIN main.order :
             main.order[i] = a => slot[i] = [alias |-> a, ok |-> go[a].ok]
    /\ go[a].ok => remote[a] = "ok"
    /\ a \in askpass => go[a].pc \in {"run", "running", "audit", "store", "cleanup"}

HonestKeys(a) ==
    /\ client[a].targets = Route(a)
    /\ go[a].pc \in {"auth", "run", "running", "audit"} \/ remote[a] # "idle" =>
          client[a].pc = "ok"

Honest == \A a \in Aliases : HonestLog(a) /\ HonestResult(a) /\ HonestKeys(a)

Own == Typed /\ Chosen /\ Started /\ Honest

-----------------------------------------------------------------------------
(* The calls of ensureKnownHosts *)

KHP == INSTANCE KnownHostsProofs WITH
        Clients <- Aliases, Names <- Aliases \cup {JumpHost}, OtherPorts <- {},
        Keys <- {HostKey}, MaxHops <- 1, Environments <- {KeyFaults},
        faults <- KeyFaults

IInv == Own /\ KHP!IInv

LEMMA KeysAssumption == KHP!KnownHostsAssumption
BY MultiExecAssumption DEF KHP!KnownHostsAssumption

LEMMA KeyStepSame == ASSUME NEW a PROVE KH!Step(a) => KHP!Step(a)
<1>1. KH!Prepares(a) => KHP!Prepares(a)
  BY SMTT(30) DEF KH!Prepares, KHP!Prepares, KH!Goes, KHP!Goes
<1>2. KH!LooksUp(a) => KHP!LooksUp(a)
  BY ZenonT(30) DEF KH!LooksUp, KHP!LooksUp, KH!Goes, KHP!Goes, KH!IsKnown, KHP!IsKnown, KH!KeysOf, KHP!KeysOf,
     KH!Advances, KHP!Advances, KH!Query, KHP!Query, KH!Host, KHP!Host
<1>3. KH!Fetches(a) => KHP!Fetches(a)
  BY DEF KH!Fetches, KHP!Fetches, KH!Found, KHP!Found, KH!Garbage, KHP!Garbage,
     KH!Goes, KHP!Goes, KH!ServerOf, KHP!ServerOf, KH!Host, KHP!Host
<1>4. KH!ReadsLast(a) => KHP!ReadsLast(a)
  BY DEF KH!ReadsLast, KHP!ReadsLast
<1>5. KH!Appends(a) => KHP!Appends(a)
  <2>1. KH!Advances(a) => KHP!Advances(a)
    BY DEF KH!Advances, KHP!Advances, KH!Query, KHP!Query
  <2>2. ASSUME NEW l, NEW n, NEW w PROVE KH!Written(l, n, w) = KHP!Written(l, n, w)
    BY DEF KH!Written, KHP!Written, KH!Garbage, KHP!Garbage, KH!Front, KHP!Front
  <2>. QED
    BY <2>1, <2>2, SMTT(30) DEF KH!Appends, KHP!Appends, KH!StopsShort, KHP!StopsShort, KH!Goes, KHP!Goes
<1>. QED
  BY <1>1, <1>2, <1>3, <1>4, <1>5 DEF KH!Step, KHP!Step

LEMMA KeyInv ==
    ASSUME KHP!IInv, NEW a \in Aliases, KH!Step(a)
    PROVE  KHP!IInv'
<1>1. KHP!KnownHostsAssumption => (KHP!IInv /\ [KHP!Next]_(KHP!vars) => KHP!IInv')
  BY KHP!NextIInv
<1>2. KHP!Next
  BY KeyStepSame DEF KHP!Next
<1>. QED
  BY <1>1, <1>2, KeysAssumption

LEMMA KeyRest ==
    ASSUME KHP!IInv, UNCHANGED keyVars
    PROVE  KHP!IInv'
<1>1. KHP!KnownHostsAssumption => (KHP!IInv /\ [KHP!Next]_(KHP!vars) => KHP!IInv')
  BY KHP!NextIInv
<1>2. UNCHANGED KHP!vars
  BY DEF KHP!vars, keyVars
<1>. QED
  BY <1>1, <1>2, KeysAssumption

-----------------------------------------------------------------------------
(* The hosts and the goroutines *)

\* While a goroutine runs, runMultiExec starts more of them or waits.
LEMMA Waiting ==
    ASSUME Own, NEW a \in Active
    PROVE  main.pc = "spawn" /\ main.exit = "none" /\ main.order # << >>
<1>1. a \in Aliases /\ go[a].pc # "none" /\ Active # {}
  BY DEF Active
<1>2. main.order # << >>
  <2>1. PICK i \in DOMAIN main.order : main.order[i] = a
    BY <1>1 DEF Own, Started
  <2>. QED
    BY <2>1
<1>3. main.pc \in {"select", "spawn", "returned"}
  BY DEF Own, Typed
<1>. QED
  BY <1>1, <1>2, <1>3 DEF Own, Chosen

\* There are finitely many goroutines.
LEMMA ActiveFinite == IsFiniteSet(Active)
<1>1. Active \subseteq Aliases
  BY DEF Active
<1>. QED
  BY <1>1, MultiExecAssumption, FS_Subset

\* What a step of goroutine a has to see to, if it touches nothing of the others.
LEMMA Moves ==
    ASSUME Own, NEW a \in Active,
           UNCHANGED <<tags, broken, spec, main>>,
           go' \in [Aliases -> Goroutines], go'[a].pc # "none",
           wg' = IF go'[a].pc = "done" THEN wg - 1 ELSE wg,
           slot' \in Seq(Results), Len(slot') = Len(slot),
           remote' \in [Aliases -> {"idle", "running", "ok", "bad"}],
           askpass' \subseteq Aliases, audit' \in [Aliases -> Seq(BOOLEAN)],
           UNCHANGED log \/ log'.failed = TRUE,
           \A b \in Aliases \ {a} :
               /\ go'[b] = go[b] /\ remote'[b] = remote[b]
               /\ audit'[b] = audit[b] \/ (audit'[b] = << >> /\ log'.failed)
               /\ b \in askpass' => b \in askpass
               /\ client'[b] = client[b]
               /\ \A i \in DOMAIN main.order : main.order[i] = b => slot'[i] = slot[i],
           HonestLog(a)', HonestResult(a)', HonestKeys(a)'
    PROVE  Own'
<1>1. a \in Aliases /\ go[a].pc \notin {"none", "done"}
  BY DEF Active
<1>2. main' = main /\ tags' = tags /\ broken' = broken /\ spec' = spec
  OBVIOUS
<1>3. wg' = Cardinality(Active')
  <2>1. CASE go'[a].pc = "done"
    <3>1. Active' = Active \ {a}
      BY <2>1, <1>1 DEF Active
    <3>2. wg' = Cardinality(Active) - 1
      BY <2>1 DEF Own, Typed
    <3>. QED
      BY <3>1, <3>2, ActiveFinite, FS_RemoveElement
  <2>2. CASE go'[a].pc # "done"
    <3>1. Active' = Active
      BY <2>2, <1>1 DEF Active
    <3>2. wg' = Cardinality(Active)
      BY <2>2 DEF Own, Typed
    <3>. QED
      BY <3>1, <3>2
  <2>. QED
    BY <2>1, <2>2
<1>4. Typed'
  BY <1>2, <1>3 DEF Own, Typed
<1>5. Chosen'
  <2>1. main.pc = "spawn" /\ main.exit = "none" /\ main.order # << >>
    BY Waiting
  <2>2. Listed
    BY <2>1 DEF Own, Chosen
  <2>3. Selected' = Selected
    BY <1>2 DEF Selected, Matches
  <2>4. Listed'
    BY <2>2, <2>3, <1>2 DEF Listed
  <2>. QED
    BY <2>1, <2>4, <1>2 DEF Chosen
<1>6. Started'
  <2>1. \A b \in Aliases : go'[b].pc # "none" <=> go[b].pc # "none"
    BY <1>1
  <2>. QED
    BY <2>1, <1>2 DEF Own, Started
<1>7. ASSUME NEW b \in Aliases \ {a}
      PROVE  HonestLog(b)' /\ HonestResult(b)' /\ HonestKeys(b)'
  <2>1. HonestLog(b) /\ HonestResult(b) /\ HonestKeys(b)
    BY DEF Own, Honest
  <2>2. HonestLog(b)'
    BY <2>1, <1>7 DEF HonestLog
  <2>3. HonestResult(b)'
    BY <2>1, <1>2, <1>7 DEF HonestResult
  <2>4. HonestKeys(b)'
    BY <2>1, <1>7 DEF HonestKeys, Route
  <2>. QED
    BY <2>2, <2>3, <2>4
<1>8. Honest'
  BY <1>7 DEF Honest
<1>. QED
  BY <1>4, <1>5, <1>6, <1>8 DEF Own

\* What is known of one goroutine.
LEMMA GoFacts ==
    ASSUME Own, NEW a \in Aliases
    PROVE  /\ go[a] \in Goroutines /\ remote[a] \in {"idle", "running", "ok", "bad"}
           /\ audit[a] \in Seq(BOOLEAN)
           /\ HonestLog(a) /\ HonestResult(a) /\ HonestKeys(a)
BY DEF Own, Typed, Honest

\* A goroutine moves to another control point.
LEMMA GoesFacts ==
    ASSUME Own, NEW a \in Aliases, NEW pc \in GoPcs, NEW ok,
           ok \in BOOLEAN, GoesWith(a, pc, ok)
    PROVE  /\ go' \in [Aliases -> Goroutines]
           /\ go'[a].pc = pc /\ go'[a].ok = ok
           /\ \A b \in Aliases \ {a} : go'[b] = go[b]
<1>1. go \in [Aliases -> Goroutines]
  BY DEF Own, Typed
<1>2. go' = [go EXCEPT ![a].pc = pc, ![a].ok = ok]
  BY DEF GoesWith
<1>3. go' \in [Aliases -> Goroutines]
  BY <1>1, <1>2 DEF Goroutines
<1>4. \A b \in Aliases \ {a} : go'[b] = go[b]
  BY <1>1, <1>2
<1>5. go'[a].pc = pc /\ go'[a].ok = ok
  BY <1>1, <1>2 DEF Goroutines
<1>. QED
  BY <1>3, <1>4, <1>5

\* It moves and keeps its outcome.
LEMMA GoesOnFacts ==
    ASSUME Own, NEW a \in Aliases, NEW pc \in GoPcs, Goes(a, pc)
    PROVE  /\ go' \in [Aliases -> Goroutines]
           /\ go'[a].pc = pc /\ go'[a].ok = go[a].ok
           /\ \A b \in Aliases \ {a} : go'[b] = go[b]
<1>1. go \in [Aliases -> Goroutines]
  BY DEF Own, Typed
<1>2. go' = [go EXCEPT ![a].pc = pc]
  BY DEF Goes
<1>3. go' = [b \in Aliases |-> IF b = a THEN [go[a] EXCEPT !.pc = pc] ELSE go[b]]
  BY <1>1, <1>2
<1>4. [go[a] EXCEPT !.pc = pc] = [pc |-> pc, ok |-> go[a].ok, expired |-> go[a].expired]
  BY <1>1 DEF Goroutines
<1>5. go[a].ok \in BOOLEAN /\ go[a].expired \in BOOLEAN
  BY <1>1 DEF Goroutines
<1>6. go'[a] = [pc |-> pc, ok |-> go[a].ok, expired |-> go[a].expired]
  BY <1>3, <1>4
<1>7. go'[a] \in Goroutines /\ go'[a].pc = pc /\ go'[a].ok = go[a].ok
  BY <1>5, <1>6 DEF Goroutines
<1>. QED
  BY <1>1, <1>3, <1>7

-----------------------------------------------------------------------------
(* The steps of a goroutine *)

\* What is left alone by a step of a keeps its type, and the others keep their own.
LEMMA Rest ==
    ASSUME Own
    PROVE  /\ slot \in Seq(Results) /\ Len(slot) = Len(main.order)
           /\ remote \in [Aliases -> {"idle", "running", "ok", "bad"}]
           /\ askpass \subseteq Aliases /\ audit \in [Aliases -> Seq(BOOLEAN)]
           /\ go \in [Aliases -> Goroutines]
BY DEF Own, Typed

LEMMA KeysEndKeeps ==
    ASSUME Own, NEW a \in Aliases, KeysEnd(a)
    PROVE  Own'
<1>1. /\ go[a].pc = "keys"
      /\ UNCHANGED <<tags, broken, spec, main, wg, slot, remote, askpass, audit, log, client>>
  BY DEF KeysEnd, keyVars
<1>2. a \in Active
  BY <1>1 DEF Active
<1>3. HonestLog(a) /\ HonestResult(a) /\ HonestKeys(a)
  BY GoFacts
<1>4. CASE client[a].pc = "ok" /\ Goes(a, "auth")
  <2>1. go' \in [Aliases -> Goroutines] /\ go'[a].pc = "auth" /\ go'[a].ok = go[a].ok
        /\ \A b \in Aliases \ {a} : go'[b] = go[b]
    BY <1>4, GoesOnFacts DEF GoPcs
  <2>2. HonestLog(a)' /\ HonestResult(a)' /\ HonestKeys(a)'
    BY <1>1, <1>3, <1>4, <2>1 DEF HonestLog, HonestResult, HonestKeys, Route
  <2>. QED
    BY <1>1, <1>2, <2>1, <2>2, Rest, Moves
<1>5. CASE client[a].pc = "failed" /\ GoesWith(a, "store", FALSE)
  <2>1. go' \in [Aliases -> Goroutines] /\ go'[a].pc = "store" /\ go'[a].ok = FALSE
        /\ \A b \in Aliases \ {a} : go'[b] = go[b]
    BY <1>5, GoesFacts DEF GoPcs
  <2>2. HonestLog(a)' /\ HonestResult(a)' /\ HonestKeys(a)'
    BY <1>1, <1>3, <1>5, <2>1 DEF HonestLog, HonestResult, HonestKeys, Route
  <2>. QED
    BY <1>1, <1>2, <2>1, <2>2, Rest, Moves
<1>. QED
  BY <1>4, <1>5 DEF KeysEnd

LEMMA AuthenticatesKeeps ==
    ASSUME Own, NEW a \in Aliases, Authenticates(a)
    PROVE  Own'
<1>1. /\ go[a].pc = "auth"
      /\ UNCHANGED <<tags, broken, spec, main, wg, slot, remote, audit, log, client>>
  BY DEF Authenticates, keyVars
<1>2. a \in Active
  BY <1>1 DEF Active
<1>3. HonestLog(a) /\ HonestResult(a) /\ HonestKeys(a)
  BY GoFacts
<1>4. ASSUME Goes(a, "run"), askpass' \in {askpass, askpass \cup {a}} PROVE Own'
  <2>1. go' \in [Aliases -> Goroutines] /\ go'[a].pc = "run" /\ go'[a].ok = go[a].ok
        /\ \A b \in Aliases \ {a} : go'[b] = go[b]
    BY <1>4, GoesOnFacts DEF GoPcs
  <2>2. HonestLog(a)' /\ HonestResult(a)' /\ HonestKeys(a)'
    BY <1>1, <1>3, <2>1 DEF HonestLog, HonestResult, HonestKeys, Route
  <2>3. askpass' \subseteq Aliases /\ \A b \in Aliases \ {a} : b \in askpass' => b \in askpass
    BY <1>4, Rest
  <2>. QED
    BY <1>1, <1>2, <2>1, <2>2, <2>3, Rest, Moves
<1>5. ASSUME GoesWith(a, "store", FALSE), UNCHANGED askpass PROVE Own'
  <2>1. go' \in [Aliases -> Goroutines] /\ go'[a].pc = "store" /\ go'[a].ok = FALSE
        /\ \A b \in Aliases \ {a} : go'[b] = go[b]
    BY <1>5, GoesFacts DEF GoPcs
  <2>2. HonestLog(a)' /\ HonestResult(a)' /\ HonestKeys(a)'
    BY <1>1, <1>3, <1>5, <2>1 DEF HonestLog, HonestResult, HonestKeys, Route
  <2>. QED
    BY <1>1, <1>2, <1>5, <2>1, <2>2, Rest, Moves
<1>. QED
  BY <1>4, <1>5 DEF Authenticates

LEMMA RunStartsKeeps ==
    ASSUME Own, NEW a \in Aliases, RunStarts(a)
    PROVE  Own'
<1>1. /\ go[a].pc = "run"
      /\ UNCHANGED <<tags, broken, spec, main, wg, slot, askpass, audit, log, client>>
  BY DEF RunStarts, keyVars
<1>2. a \in Active
  BY <1>1 DEF Active
<1>3. HonestLog(a) /\ HonestResult(a) /\ HonestKeys(a)
  BY GoFacts
<1>4. CASE Goes(a, "running") /\ remote' = [remote EXCEPT ![a] = "running"]
  <2>1. go' \in [Aliases -> Goroutines] /\ go'[a].pc = "running" /\ go'[a].ok = go[a].ok
        /\ \A b \in Aliases \ {a} : go'[b] = go[b]
    BY <1>4, GoesOnFacts DEF GoPcs
  <2>2. /\ remote' \in [Aliases -> {"idle", "running", "ok", "bad"}] /\ remote'[a] = "running"
        /\ \A b \in Aliases \ {a} : remote'[b] = remote[b]
    BY <1>4, Rest
  <2>3. ~go[a].ok
    BY <1>1, <1>3 DEF HonestLog, HonestResult
  <2>4. HonestLog(a)' /\ HonestResult(a)' /\ HonestKeys(a)'
    BY <1>1, <1>3, <2>1, <2>2, <2>3 DEF HonestLog, HonestResult, HonestKeys, Route
  <2>. QED
    BY <1>1, <1>2, <2>1, <2>2, <2>4, Rest, Moves
<1>5. CASE GoesWith(a, "audit", FALSE) /\ UNCHANGED remote
  <2>1. go' \in [Aliases -> Goroutines] /\ go'[a].pc = "audit" /\ go'[a].ok = FALSE
        /\ \A b \in Aliases \ {a} : go'[b] = go[b]
    BY <1>5, GoesFacts DEF GoPcs
  <2>2. HonestLog(a)' /\ HonestResult(a)' /\ HonestKeys(a)'
    BY <1>1, <1>3, <1>5, <2>1 DEF HonestLog, HonestResult, HonestKeys, Route
  <2>. QED
    BY <1>1, <1>2, <1>5, <2>1, <2>2, Rest, Moves
<1>. QED
  BY <1>4, <1>5 DEF RunStarts

LEMMA RunEndsKeeps ==
    ASSUME Own, NEW a \in Aliases, RunEnds(a)
    PROVE  Own'
<1>1. /\ go[a].pc = "running"
      /\ UNCHANGED <<tags, broken, spec, main, wg, slot, remote, askpass, audit, log, client>>
  BY DEF RunEnds, keyVars
<1>2. a \in Active
  BY <1>1 DEF Active
<1>3. HonestLog(a) /\ HonestResult(a) /\ HonestKeys(a)
  BY GoFacts
<1>4. ASSUME NEW ok, ok \in BOOLEAN, ok => remote[a] = "ok", GoesWith(a, "audit", ok)
      PROVE  Own'
  <2>1. go' \in [Aliases -> Goroutines] /\ go'[a].pc = "audit" /\ go'[a].ok = ok
        /\ \A b \in Aliases \ {a} : go'[b] = go[b]
    BY <1>4, GoesFacts DEF GoPcs
  <2>2. HonestLog(a)' /\ HonestResult(a)' /\ HonestKeys(a)'
    BY <1>1, <1>3, <1>4, <2>1 DEF HonestLog, HonestResult, HonestKeys, Route
  <2>. QED
    BY <1>1, <1>2, <2>1, <2>2, Rest, Moves
<1>5. PICK ok \in BOOLEAN : (ok => remote[a] = "ok") /\ GoesWith(a, "audit", ok)
  <2>1. CASE remote[a] = "ok" /\ GoesWith(a, "audit", TRUE)
    BY <2>1
  <2>2. CASE GoesWith(a, "audit", FALSE)
    BY <2>2
  <2>. QED
    BY <2>1, <2>2 DEF RunEnds, GoesWith
<1>. QED
  BY <1>4, <1>5

\* The event is added, or it is not and an append has failed; another one is spoilt
\* only in that case.
LEMMA AuditFacts ==
    ASSUME Own, NEW a \in Aliases, audit[a] = << >>, go[a].ok \in BOOLEAN,
           AppendsEvent(a) \/ SpoilsLine \/ AppendsNothing
    PROVE  /\ audit' \in [Aliases -> Seq(BOOLEAN)]
           /\ UNCHANGED log \/ log'.failed = TRUE
           /\ audit'[a] = <<go[a].ok>> \/ (audit'[a] = << >> /\ log'.failed)
           /\ \A b \in Aliases \ {a} :
                 audit'[b] = audit[b] \/ (audit'[b] = << >> /\ log'.failed)
<1>1. audit \in [Aliases -> Seq(BOOLEAN)] /\ << >> \in Seq(BOOLEAN)
  BY Rest
<1>2. ASSUME NEW torn, NEW open, Fails(torn, open) PROVE log'.failed = TRUE
  BY <1>2 DEF Fails
<1>3. ASSUME Adds(a)
      PROVE  /\ audit' \in [Aliases -> Seq(BOOLEAN)] /\ audit'[a] = <<go[a].ok>>
             /\ \A b \in Aliases \ {a} : audit'[b] = audit[b]
  <2>1. Append(audit[a], go[a].ok) = <<go[a].ok>> /\ <<go[a].ok>> \in Seq(BOOLEAN)
    OBVIOUS
  <2>. QED
    BY <1>1, <1>3, <2>1 DEF Adds
<1>4. CASE AppendsEvent(a)
  BY <1>1, <1>2, <1>3, <1>4 DEF AppendsEvent
<1>5. CASE SpoilsLine
  BY <1>1, <1>2, <1>5 DEF SpoilsLine
<1>6. CASE AppendsNothing
  BY <1>1, <1>2, <1>6 DEF AppendsNothing
<1>. QED
  BY <1>4, <1>5, <1>6

LEMMA AuditsKeeps ==
    ASSUME Own, NEW a \in Aliases, Audits(a)
    PROVE  Own'
<1>1. /\ go[a].pc = "audit" /\ Goes(a, "store")
      /\ AppendsEvent(a) \/ SpoilsLine \/ AppendsNothing
      /\ UNCHANGED <<tags, broken, spec, main, wg, slot, remote, askpass, client>>
  BY DEF Audits, keyVars
<1>2. a \in Active
  BY <1>1 DEF Active
<1>3. HonestLog(a) /\ HonestResult(a) /\ HonestKeys(a) /\ go[a].ok \in BOOLEAN
  BY GoFacts DEF Goroutines
<1>4. go' \in [Aliases -> Goroutines] /\ go'[a].pc = "store" /\ go'[a].ok = go[a].ok
      /\ \A b \in Aliases \ {a} : go'[b] = go[b]
  BY <1>1, GoesOnFacts DEF GoPcs
<1>5. audit[a] = << >>
  BY <1>1, <1>3 DEF HonestLog
<1>6. /\ audit' \in [Aliases -> Seq(BOOLEAN)]
      /\ UNCHANGED log \/ log'.failed = TRUE
      /\ audit'[a] = <<go[a].ok>> \/ (audit'[a] = << >> /\ log'.failed)
      /\ \A b \in Aliases \ {a} :
            audit'[b] = audit[b] \/ (audit'[b] = << >> /\ log'.failed)
  BY <1>1, <1>3, <1>5, AuditFacts
<1>7. HonestLog(a)' /\ HonestResult(a)' /\ HonestKeys(a)'
  BY <1>1, <1>3, <1>4, <1>6 DEF HonestLog, HonestResult, HonestKeys, Route
<1>. QED
  BY <1>1, <1>2, <1>4, <1>6, <1>7, Rest, Moves

LEMMA StoresKeeps ==
    ASSUME Own, NEW a \in Aliases, Stores(a)
    PROVE  Own'
<1>1. /\ go[a].pc = "store" /\ Goes(a, "cleanup")
      /\ UNCHANGED <<tags, broken, spec, main, wg, remote, askpass, audit, log, client>>
  BY DEF Stores, keyVars
<1>2. a \in Active
  BY <1>1 DEF Active
<1>3. HonestLog(a) /\ HonestResult(a) /\ HonestKeys(a) /\ go[a].ok \in BOOLEAN
  BY GoFacts DEF Goroutines
<1>4. go' \in [Aliases -> Goroutines] /\ go'[a].pc = "cleanup" /\ go'[a].ok = go[a].ok
      /\ \A b \in Aliases \ {a} : go'[b] = go[b]
  BY <1>1, GoesOnFacts DEF GoPcs
<1>5. PICK i \in DOMAIN main.order :
         main.order[i] = a /\ slot' = [slot EXCEPT ![i] = [alias |-> a, ok |-> go[a].ok]]
  BY DEF Stores
<1>6. \A k \in DOMAIN main.order : main.order[k] = a => k = i
  <2>1. main.order # << >>
    BY <1>2, Waiting
  <2>. QED
    BY <1>5, <2>1 DEF Own, Chosen, Listed
<1>7. main.order \in Seq(Aliases) /\ DOMAIN main.order = 1..Len(main.order)
      /\ Len(main.order) \in Nat
  BY DEF Own, Typed
<1>8. slot \in Seq(Results) /\ DOMAIN slot = DOMAIN main.order
  BY <1>7, Rest
<1>9. [alias |-> a, ok |-> go[a].ok] \in Results
  BY <1>3 DEF Results
<1>10. slot' \in Seq(Results) /\ Len(slot') = Len(slot)
  BY <1>5, <1>8, <1>9
<1>11. /\ slot'[i] = [alias |-> a, ok |-> go[a].ok]
       /\ \A k \in DOMAIN main.order : k # i => slot'[k] = slot[k]
  BY <1>5, <1>8
<1>12. \A b \in Aliases \ {a} : \A k \in DOMAIN main.order :
          main.order[k] = b => slot'[k] = slot[k]
  BY <1>5, <1>11
<1>13. HonestLog(a)' /\ HonestKeys(a)'
  BY <1>1, <1>3, <1>4 DEF HonestLog, HonestKeys, Route
<1>14. HonestResult(a)'
  BY <1>1, <1>3, <1>4, <1>6, <1>11 DEF HonestResult
<1>. QED
  BY <1>1, <1>2, <1>4, <1>10, <1>12, <1>13, <1>14, Rest, Moves

LEMMA CleansUpKeeps ==
    ASSUME Own, NEW a \in Aliases, CleansUp(a)
    PROVE  Own'
<1>1. /\ go[a].pc = "cleanup" /\ Goes(a, "leave") /\ askpass' = askpass \ {a}
      /\ UNCHANGED <<tags, broken, spec, main, wg, slot, remote, audit, log, client>>
  BY DEF CleansUp, keyVars
<1>2. a \in Active
  BY <1>1 DEF Active
<1>3. HonestLog(a) /\ HonestResult(a) /\ HonestKeys(a)
  BY GoFacts
<1>4. go' \in [Aliases -> Goroutines] /\ go'[a].pc = "leave" /\ go'[a].ok = go[a].ok
      /\ \A b \in Aliases \ {a} : go'[b] = go[b]
  BY <1>1, GoesOnFacts DEF GoPcs
<1>5. HonestLog(a)' /\ HonestResult(a)' /\ HonestKeys(a)'
  BY <1>1, <1>3, <1>4 DEF HonestLog, HonestResult, HonestKeys, Route
<1>. QED
  BY <1>1, <1>2, <1>4, <1>5, Rest, Moves

LEMMA DoneKeeps ==
    ASSUME Own, NEW a \in Aliases, Done(a)
    PROVE  Own'
<1>1. /\ go[a].pc = "leave" /\ Goes(a, "done") /\ wg' = wg - 1
      /\ UNCHANGED <<tags, broken, spec, main, slot, remote, askpass, audit, log, client>>
  BY DEF Done, keyVars
<1>2. a \in Active
  BY <1>1 DEF Active
<1>3. HonestLog(a) /\ HonestResult(a) /\ HonestKeys(a)
  BY GoFacts
<1>4. go' \in [Aliases -> Goroutines] /\ go'[a].pc = "done" /\ go'[a].ok = go[a].ok
      /\ \A b \in Aliases \ {a} : go'[b] = go[b]
  BY <1>1, GoesOnFacts DEF GoPcs
<1>5. HonestLog(a)' /\ HonestResult(a)' /\ HonestKeys(a)'
  BY <1>1, <1>3, <1>4 DEF HonestLog, HonestResult, HonestKeys, Route
<1>. QED
  BY <1>1, <1>2, <1>4, <1>5, Rest, Moves

LEMMA ExpiresKeeps ==
    ASSUME Own, NEW a \in Aliases, Expires(a)
    PROVE  Own'
<1>1. /\ go[a].pc \notin {"none", "done"}
      /\ go' = [go EXCEPT ![a].expired = TRUE]
      /\ UNCHANGED <<tags, broken, spec, main, wg, slot, remote, askpass, audit, log, client>>
  BY DEF Expires, keyVars
<1>2. a \in Active
  BY <1>1 DEF Active
<1>3. HonestLog(a) /\ HonestResult(a) /\ HonestKeys(a)
  BY GoFacts
<1>4. go' \in [Aliases -> Goroutines] /\ go'[a].pc = go[a].pc /\ go'[a].ok = go[a].ok
      /\ \A b \in Aliases \ {a} : go'[b] = go[b]
  <2>1. go \in [Aliases -> Goroutines]
    BY Rest
  <2>2. go' \in [Aliases -> Goroutines]
    BY <1>1, <2>1 DEF Goroutines
  <2>3. go'[a].pc = go[a].pc /\ go'[a].ok = go[a].ok
    BY <1>1, <2>1 DEF Goroutines
  <2>. QED
    BY <1>1, <2>1, <2>2, <2>3
<1>5. HonestLog(a)' /\ HonestResult(a)' /\ HonestKeys(a)'
  BY <1>1, <1>3, <1>4 DEF HonestLog, HonestResult, HonestKeys, Route
<1>. QED
  BY <1>1, <1>2, <1>4, <1>5, Rest, Moves

\* The command ends on a host, whatever has become of the goroutine.
LEMMA RemoteEndsKeeps ==
    ASSUME Own, NEW a \in Aliases, RemoteEnds(a)
    PROVE  Own'
<1>1. /\ remote[a] = "running"
      /\ UNCHANGED <<tags, broken, spec, main, wg, go, slot, askpass, audit, log, client>>
  BY DEF RemoteEnds, keyVars
<1>2. PICK how \in {"ok", "bad"} : remote' = [remote EXCEPT ![a] = how]
  BY DEF RemoteEnds
<1>3. /\ remote' \in [Aliases -> {"idle", "running", "ok", "bad"}]
      /\ remote'[a] \in {"ok", "bad"} /\ \A b \in Aliases \ {a} : remote'[b] = remote[b]
  BY <1>2, Rest
<1>4. Typed' /\ Started'
  <2>1. Active' = Active
    BY <1>1 DEF Active
  <2>2. Typed'
    BY <1>1, <1>3, <2>1 DEF Own, Typed
  <2>. QED
    BY <1>1, <2>2 DEF Own, Started
<1>5. Chosen'
  <2>1. Active' = Active /\ Selected' = Selected
    BY <1>1 DEF Active, Selected, Matches
  <2>2. Listed => Listed'
    BY <1>1, <2>1 DEF Listed
  <2>. QED
    BY <1>1, <2>1, <2>2 DEF Own, Chosen
<1>6. ASSUME NEW b \in Aliases PROVE (HonestLog(b) /\ HonestResult(b) /\ HonestKeys(b))'
  <2>1. HonestLog(b) /\ HonestResult(b) /\ HonestKeys(b)
    BY DEF Own, Honest
  <2>2. remote'[b] = "idle" <=> remote[b] = "idle"
    BY <1>1, <1>3
  <2>3. remote[b] = "ok" => remote'[b] = "ok"
    BY <1>1, <1>3
  <2>. QED
    BY <1>1, <2>1, <2>2, <2>3 DEF HonestLog, HonestResult, HonestKeys, Route
<1>. QED
  BY <1>4, <1>5, <1>6 DEF Own, Honest

\* A host is in the order exactly once, whatever the order.
LEMMA OrderFacts ==
    ASSUME NEW S \in SUBSET Aliases, NEW order \in SetToSeqs(S)
    PROVE  /\ order \in Seq(Aliases) /\ DOMAIN order = 1..Len(order) /\ Len(order) \in Nat
           /\ ToSet(order) = S
           /\ \A i, j \in DOMAIN order : order[i] = order[j] => i = j
<1>. DEFINE n == Cardinality(S)
<1>1. IsFiniteSet(S) /\ n \in Nat
  BY MultiExecAssumption, FS_Subset, FS_CardinalityType
<1>2. IsFiniteSet(1..n) /\ Cardinality(1..n) = n
  BY <1>1, FS_Interval
<1>. HIDE DEF n
<1>3. /\ order \in [1..n -> S]
      /\ \A i, j \in 1..n : i # j => order[i] # order[j]
  BY DEF SetToSeqs, n
<1>4. order \in Injection(1..n, S)
  BY <1>3 DEF Injection, IsInjective
<1>5. order \in Surjection(1..n, S)
  BY <1>1, <1>2, <1>4, FS_Injection DEF n
<1>6. ToSet(order) = S
  BY <1>3, <1>5 DEF ToSet, Surjection
<1>7. order \in Seq(S) /\ Len(order) = n /\ DOMAIN order = 1..n
  BY <1>1, <1>3
<1>8. order \in Seq(Aliases)
  BY <1>7
<1>. QED
  BY <1>1, <1>3, <1>6, <1>7, <1>8
\* ensureKnownHosts goes on for one goroutine.
LEMMA KeyStepKeeps ==
    ASSUME Own, KHP!IInv, NEW a \in Aliases, KeyStep(a)
    PROVE  Own'
<1>1. /\ go[a].pc = "keys" /\ KHP!Step(a)
      /\ UNCHANGED <<tags, broken, spec, main, wg, go, slot, remote, askpass, audit, log>>
  BY KeyStepSame DEF KeyStep
<1>2. a \in Active
  BY <1>1 DEF Active
<1>3. HonestLog(a) /\ HonestResult(a) /\ HonestKeys(a)
  BY GoFacts
<1>4. /\ \A b \in Aliases \ {a} : client'[b] = client[b]
      /\ client'[a].targets = client[a].targets
  <2>1. KHP!TypeOK
    BY DEF KHP!IInv
  <2>2. KHP!KnownHostsAssumption =>
           \A c \in Aliases : KHP!TypeOK /\ KHP!Step(c) =>
               /\ \A d \in Aliases \ {c} : client'[d] = client[d]
               /\ client'[c].targets = client[c].targets
    BY KHP!OneCallMoves
  <2>. QED
    BY <1>1, <2>1, <2>2, KeysAssumption
<1>5. HonestLog(a)' /\ HonestResult(a)' /\ HonestKeys(a)'
  BY <1>1, <1>3, <1>4 DEF HonestLog, HonestResult, HonestKeys, Route
<1>. QED
  BY <1>1, <1>2, <1>4, <1>5, Rest, Moves

-----------------------------------------------------------------------------
(* The steps of runMultiExec *)

\* Before the hosts are chosen there is no goroutine.
LEMMA NothingYet ==
    ASSUME Own, main.pc = "select"
    PROVE  /\ main.order = << >> /\ main.next = 1 /\ main.exit = "none"
           /\ \A a \in Aliases : go[a].pc = "none"
           /\ Active = {}
<1>1. main.order = << >> /\ main.next = 1 /\ main.exit = "none"
  BY DEF Own, Chosen
<1>2. \A a \in Aliases : go[a].pc = "none"
  BY <1>1 DEF Own, Started
<1>. QED
  BY <1>1, <1>2 DEF Active

LEMMA SelectsKeeps ==
    ASSUME Own, Selects
    PROVE  Own'
<1>1. /\ main.pc = "select"
      /\ UNCHANGED <<tags, broken, spec, wg, go, remote, askpass, audit, log, client>>
  BY DEF Selects, keyVars
<1>2. /\ main.order = << >> /\ main.next = 1 /\ main.exit = "none"
      /\ \A a \in Aliases : go[a].pc = "none"
      /\ Active = {}
  BY <1>1, NothingYet
<1>3. Active' = Active /\ Selected' = Selected
  BY <1>1 DEF Active, Selected, Matches
<1>4. /\ main \in [pc : {"select", "spawn", "returned"}, order : Seq(Aliases),
                   next : Nat \ {0}, exit : {"none", "ok", "failed"}]
      /\ wg = Cardinality(Active)
  BY DEF Own, Typed
<1>5. CASE Selected = {} \/ Selected \cap broken # {}
  <2>1. main' = [main EXCEPT !.pc = "returned", !.exit = "failed"] /\ slot' = slot
    BY <1>5 DEF Selects
  <2>2. /\ main' \in [pc : {"select", "spawn", "returned"}, order : Seq(Aliases),
                      next : Nat \ {0}, exit : {"none", "ok", "failed"}]
        /\ main'.pc = "returned" /\ main'.exit = "failed" /\ main'.order = main.order
        /\ main'.next = main.next
    BY <1>4, <2>1
  <2>3. Typed'
    BY <1>1, <1>3, <1>4, <2>1, <2>2 DEF Own, Typed
  <2>4. Chosen'
    BY <1>2, <2>2 DEF Chosen
  <2>5. Started'
    BY <1>1, <2>2 DEF Own, Started
  <2>6. Honest'
    <3>1. ASSUME NEW a \in Aliases PROVE (HonestLog(a) /\ HonestResult(a) /\ HonestKeys(a))'
      <4>1. HonestLog(a) /\ HonestResult(a) /\ HonestKeys(a)
        BY GoFacts
      <4>2. HonestLog(a)' /\ HonestKeys(a)'
        BY <1>1, <4>1 DEF HonestLog, HonestKeys, Route
      <4>3. HonestResult(a)'
        BY <1>1, <2>1, <2>2, <4>1 DEF HonestResult
      <4>. QED
        BY <4>2, <4>3
    <3>. QED
      BY <3>1 DEF Honest
  <2>. QED
    BY <2>3, <2>4, <2>5, <2>6 DEF Own
<1>6. CASE Selected # {} /\ Selected \cap broken = {}
  <2>1. PICK order \in SetToSeqs(Selected) :
           /\ main' = [main EXCEPT !.pc = "spawn", !.order = order]
           /\ slot' = [i \in DOMAIN order |-> Zero]
    BY <1>6 DEF Selects
  <2>2. /\ order \in Seq(Aliases) /\ DOMAIN order = 1..Len(order) /\ Len(order) \in Nat
        /\ ToSet(order) = Selected
        /\ \A i, j \in DOMAIN order : order[i] = order[j] => i = j
    <3>1. Selected \in SUBSET Aliases
      BY DEF Selected
    <3>. QED
      BY <2>1, <3>1, OrderFacts
  <2>3. order # << >>
    BY <1>6, <2>2 DEF ToSet
  <2>4. /\ main' \in [pc : {"select", "spawn", "returned"}, order : Seq(Aliases),
                      next : Nat \ {0}, exit : {"none", "ok", "failed"}]
        /\ main'.pc = "spawn" /\ main'.exit = "none" /\ main'.order = order /\ main'.next = 1
    BY <1>2, <1>4, <2>1, <2>2
  <2>5. slot' \in Seq(Results) /\ Len(slot') = Len(order)
    <3>1. Zero \in Results
      BY DEF Zero, Results
    <3>. QED
      BY <2>1, <2>2, <3>1
  <2>6. Typed'
    BY <1>1, <1>3, <1>4, <2>2, <2>4, <2>5 DEF Own, Typed
  <2>7. Chosen'
    <3>1. broken' = broken
      BY <1>1
    <3>. QED
      BY <3>1, <1>3, <1>6, <2>2, <2>3, <2>4 DEF Chosen, Listed
  <2>8. Started'
    BY <1>1, <1>2, <2>2, <2>4 DEF Started
  <2>9. Honest'
    BY <1>1, <1>2, <2>1, <2>4, ZenonT(30) DEF Own, Honest, HonestLog, HonestResult, HonestKeys, Route
  <2>. QED
    BY <2>6, <2>7, <2>8, <2>9 DEF Own
<1>. QED
  BY <1>5, <1>6

LEMMA SpawnsKeeps ==
    ASSUME Own, Spawns
    PROVE  Own'
<1>. DEFINE a == main.order[main.next]
<1>1. /\ main.pc = "spawn" /\ main.next <= Len(main.order) /\ wg' = wg + 1
      /\ go' = [go EXCEPT ![a].pc = "keys"]
      /\ main' = [main EXCEPT !.next = main.next + 1]
      /\ UNCHANGED <<tags, broken, spec, slot, remote, askpass, audit, log, client>>
  BY DEF Spawns, keyVars
<1>2. /\ main \in [pc : {"select", "spawn", "returned"}, order : Seq(Aliases),
                   next : Nat \ {0}, exit : {"none", "ok", "failed"}]
      /\ wg = Cardinality(Active) /\ go \in [Aliases -> Goroutines]
  BY DEF Own, Typed
<1>3. /\ main.order \in Seq(Aliases) /\ Len(main.order) \in Nat /\ main.next \in Nat \ {0}
      /\ DOMAIN main.order = 1..Len(main.order)
  BY <1>2
<1>4. main.next \in DOMAIN main.order /\ a \in Aliases
  BY <1>1, <1>3
<1>5. main.order # << >> /\ main.exit = "none" /\ Listed
  BY <1>1 DEF Own, Chosen
<1>6. go[a].pc = "none"
  <2>1. ASSUME NEW i \in DOMAIN main.order, i < main.next PROVE main.order[i] # a
    <3>1. i # main.next
      BY <2>1, <1>3
    <3>. QED
      BY <3>1, <1>4, <1>5 DEF Listed
  <2>. QED
    BY <2>1, <1>4 DEF Own, Started
<1>7. /\ main' \in [pc : {"select", "spawn", "returned"}, order : Seq(Aliases),
                    next : Nat \ {0}, exit : {"none", "ok", "failed"}]
      /\ main'.pc = main.pc /\ main'.order = main.order /\ main'.exit = main.exit
      /\ main'.next = main.next + 1
  BY <1>1, <1>2
<1>. HIDE DEF a
<1>8. /\ go' \in [Aliases -> Goroutines] /\ go'[a].pc = "keys" /\ go'[a].ok = go[a].ok
      /\ \A b \in Aliases \ {a} : go'[b] = go[b]
  <2>1. go' \in [Aliases -> Goroutines]
    BY <1>1, <1>2, <1>4 DEF Goroutines, GoPcs
  <2>2. go'[a].pc = "keys" /\ go'[a].ok = go[a].ok
    BY <1>1, <1>2, <1>4 DEF Goroutines
  <2>. QED
    BY <1>1, <1>2, <2>1, <2>2
<1>9. Typed'
  <2>1. Active' = Active \cup {a} /\ a \notin Active
    BY <1>4, <1>6, <1>8 DEF Active
  <2>2. wg' = Cardinality(Active')
    BY <1>1, <1>2, <2>1, ActiveFinite, FS_AddElement
  <2>3. main'.next <= Len(main'.order) + 1 /\ Len(slot') = Len(main'.order)
    BY <1>1, <1>3, <1>7, Rest
  <2>. QED
    BY <1>1, <1>7, <1>8, <2>2, <2>3 DEF Own, Typed
<1>10. Chosen'
  <2>1. Selected' = Selected
    BY <1>1 DEF Selected, Matches
  <2>2. Listed'
    BY <1>1, <1>5, <1>7, <2>1 DEF Listed
  <2>. QED
    BY <1>1, <1>5, <1>7, <2>2 DEF Chosen
<1>11. ASSUME NEW b \in Aliases
       PROVE  go'[b].pc # "none" <=>
                 \E i \in DOMAIN main'.order : i < main'.next /\ main'.order[i] = b
  <2>1. CASE b = a
    BY <2>1, <1>3, <1>4, <1>7, <1>8 DEF a
  <2>2. CASE b # a
    <3>1. go'[b].pc # "none" <=> \E i \in DOMAIN main.order : i < main.next /\ main.order[i] = b
      BY <2>2, <1>8 DEF Own, Started
    <3>2. ASSUME NEW i \in DOMAIN main.order, main.order[i] = b
          PROVE  i < main.next <=> i < main.next + 1
      <4>1. i # main.next
        BY <2>2, <3>2 DEF a
      <4>. QED
        BY <4>1, <1>3
    <3>. QED
      BY <3>1, <3>2, <1>7
  <2>. QED
    BY <2>1, <2>2
<1>12. ASSUME NEW b \in Aliases PROVE (HonestLog(b) /\ HonestResult(b) /\ HonestKeys(b))'
  <2>1. HonestLog(b) /\ HonestResult(b) /\ HonestKeys(b)
    BY GoFacts
  <2>2. \/ go'[b] = go[b]
        \/ go[b].pc = "none" /\ go'[b].pc = "keys" /\ go'[b].ok = go[b].ok
    BY <1>6, <1>8
  <2>3. HonestLog(b)'
    BY <1>1, <2>1, <2>2 DEF HonestLog
  <2>4. HonestResult(b)'
    BY <1>1, <1>7, <2>1, <2>2, ZenonT(30) DEF HonestResult
  <2>5. HonestKeys(b)'
    BY <1>1, <2>1, <2>2 DEF HonestKeys, Route
  <2>. QED
    BY <2>3, <2>4, <2>5
<1>. QED
  BY <1>9, <1>10, <1>11, <1>12 DEF Own, Started, Honest

LEMMA ReturnsKeeps ==
    ASSUME Own, Returns
    PROVE  Own'
<1>1. /\ main.pc = "spawn" /\ main.next > Len(main.order) /\ wg = 0
      /\ UNCHANGED <<tags, broken, spec, wg, go, slot, remote, askpass, audit, log, client>>
  BY DEF Returns, keyVars
<1>2. PICK exit \in {"ok", "failed"} :
         /\ main' = [main EXCEPT !.pc = "returned", !.exit = exit]
         /\ exit = "ok" => \A i \in DOMAIN slot : slot[i].ok
  <2>1. CASE \A i \in DOMAIN slot : slot[i].ok
    <3>1. main' = [main EXCEPT !.pc = "returned", !.exit = "ok"]
      BY <2>1 DEF Returns, Reports
    <3>. QED
      BY <2>1, <3>1
  <2>2. CASE ~\A i \in DOMAIN slot : slot[i].ok
    <3>1. main' = [main EXCEPT !.pc = "returned", !.exit = "failed"]
      BY <2>2 DEF Returns, Reports
    <3>. QED
      BY <3>1
  <2>. QED
    BY <2>1, <2>2
<1>3. /\ main \in [pc : {"select", "spawn", "returned"}, order : Seq(Aliases),
                   next : Nat \ {0}, exit : {"none", "ok", "failed"}]
      /\ main.next <= Len(main.order) + 1
      /\ wg = Cardinality(Active)
  BY DEF Own, Typed
<1>4. /\ main' \in [pc : {"select", "spawn", "returned"}, order : Seq(Aliases),
                    next : Nat \ {0}, exit : {"none", "ok", "failed"}]
      /\ main'.pc = "returned" /\ main'.order = main.order /\ main'.exit = exit
      /\ main'.next = main.next
  BY <1>2, <1>3
<1>5. main.order # << >> /\ Listed
  BY <1>1 DEF Own, Chosen
<1>6. Active' = {} /\ Active' = Active
  <2>1. Active = {}
    BY <1>1, <1>3, ActiveFinite, FS_EmptySet
  <2>. QED
    BY <1>1, <2>1 DEF Active
<1>7. Typed'
  BY <1>1, <1>4, <1>6 DEF Own, Typed
<1>8. Chosen'
  <2>1. Selected' = Selected
    BY <1>1 DEF Selected, Matches
  <2>2. Listed'
    BY <1>1, <1>4, <1>5, <2>1 DEF Listed
  <2>3. main.next = Len(main.order) + 1
    <3>1. Len(main.order) \in Nat /\ main.next \in Nat
      BY <1>3
    <3>. QED
      BY <3>1, <1>1, <1>3
  <2>. QED
    BY <1>1, <1>2, <1>4, <1>5, <1>6, <2>2, <2>3 DEF Chosen
<1>9. Started'
  BY <1>1, <1>4 DEF Own, Started
<1>10. ASSUME NEW b \in Aliases PROVE (HonestLog(b) /\ HonestResult(b) /\ HonestKeys(b))'
  <2>1. HonestLog(b) /\ HonestResult(b) /\ HonestKeys(b)
    BY GoFacts
  <2>. QED
    BY <1>1, <1>4, <2>1 DEF HonestLog, HonestResult, HonestKeys, Route
<1>. QED
  BY <1>7, <1>8, <1>9, <1>10 DEF Own, Honest

-----------------------------------------------------------------------------
(* The whole *)

\* The way to a host is one that KnownHosts takes.
LEMMA RouteFacts ==
    ASSUME NEW a \in Aliases
    PROVE  /\ Route(a) \in KHP!TargetLists
           /\ \A i \in DOMAIN Route(a) : Route(a)[i] = KHP!ServerOf(Route(a)[i])
<1>1. CASE a \in Behind
  <2>1. Route(a) = <<<<JumpHost, 22>>, <<a, 22>>>>
    <3>1. ASSUME NEW x, NEW y PROVE <<x>> \o <<y>> = <<x, y>>
      <4>. DEFINE l == <<x>>
                  r == <<y>>
      <4>1. /\ l \in Seq({x, y}) /\ Len(l) = 1 /\ l[1] = x
            /\ r \in Seq({x, y}) /\ Len(r) = 1 /\ r[1] = y
            /\ <<x, y>> \in Seq({x, y}) /\ Len(<<x, y>>) = 2
        OBVIOUS
      <4>. HIDE DEF l, r
      <4>2. /\ l \o r \in Seq({x, y}) /\ Len(l \o r) = Len(l) + Len(r)
            /\ \A i \in 1..(Len(l) + Len(r)) :
                  (l \o r)[i] = IF i <= Len(l) THEN l[i] ELSE r[i - Len(l)]
        BY ONLY <4>1, ConcatProperties
      <4>3. /\ l \o r \in Seq({x, y}) /\ Len(l \o r) = 2
            /\ (l \o r)[1] = x /\ (l \o r)[2] = y
        BY ONLY <4>1, <4>2
      <4>4. \A i \in 1..2 : (l \o r)[i] = <<x, y>>[i]
        BY <4>3
      <4>5. l \o r = <<x, y>>
        BY <4>1, <4>3, <4>4, SeqEqual
      <4>. QED
        BY <4>5 DEF l, r
    <3>2. Route(a) = <<<<JumpHost, 22>>>> \o <<<<a, 22>>>>
      BY <1>1 DEF Route
    <3>. QED
      BY ONLY <3>1, <3>2
  <2>2. Route(a) \in [1..2 -> KHP!Endpoints]
    BY <2>1 DEF KHP!Endpoints
  <2>3. Route(a) # << >>
    BY <2>1
  <2>4. Route(a) \in KHP!TargetLists
    BY <2>2, <2>3 DEF KHP!TargetLists, KHP!BoundedSeq, KHP!SeqOf
  <2>5. \A i \in 1..2 : Route(a)[i] = KHP!ServerOf(Route(a)[i])
    BY <2>1 DEF KHP!ServerOf
  <2>. QED
    BY <2>2, <2>4, <2>5
<1>2. CASE a \notin Behind
  <2>1. Route(a) = <<<<a, 22>>>>
    BY <1>2 DEF Route
  <2>2. Route(a) \in [1..1 -> KHP!Endpoints]
    BY <2>1 DEF KHP!Endpoints
  <2>3. Route(a) # << >>
    BY <2>1
  <2>4. Route(a) \in KHP!TargetLists
    BY <2>2, <2>3 DEF KHP!TargetLists, KHP!BoundedSeq, KHP!SeqOf
  <2>5. \A i \in 1..1 : Route(a)[i] = KHP!ServerOf(Route(a)[i])
    BY <2>1 DEF KHP!ServerOf
  <2>. QED
    BY <2>2, <2>4, <2>5
<1>. QED
  BY <1>1, <1>2

\* The goroutines' calls of ensureKnownHosts start as KnownHosts has them start.
LEMMA KeysInit == Init => KHP!IInv
<1>. SUFFICES ASSUME Init PROVE KHP!IInv
  OBVIOUS
<1>1. known \in {[lines |-> << >>, open |-> FALSE]}
  BY DEF Init
<1>2. serverKey \in [KHP!Servers -> {HostKey}]
  BY DEF Init, KH!Servers, KHP!Servers
<1>3. client \in [Aliases -> [pc : {"prepare"}, targets : KHP!TargetLists, at : {1},
                              newline : {FALSE}, entry : {KHP!NoLine}]]
  BY RouteFacts DEF Init, KH!NoLine, KHP!NoLine, KH!Garbage, KHP!Garbage
<1>4. KHP!Init
  BY <1>1, <1>2, <1>3 DEF KHP!Init
<1>5. KHP!KnownHostsAssumption => (KHP!Init => KHP!IInv)
  BY KHP!InitIInv
<1>. QED
  BY <1>4, <1>5, KeysAssumption

LEMMA InitOwn == Init => Own
<1>. SUFFICES ASSUME Init PROVE Own
  OBVIOUS
<1>1. /\ main = [pc |-> "select", order |-> << >>, next |-> 1, exit |-> "none"]
      /\ wg = 0 /\ slot = << >> /\ askpass = {}
      /\ go = [a \in Aliases |-> [pc |-> "none", ok |-> FALSE, expired |-> FALSE]]
      /\ remote = [a \in Aliases |-> "idle"] /\ audit = [a \in Aliases |-> << >>]
      /\ log \in {[failed |-> torn, torn |-> torn, open |-> {}] : torn \in BOOLEAN}
      /\ \A a \in Aliases : client[a].targets = Route(a)
  BY DEF Init
<1>2. Active = {}
  BY <1>1 DEF Active
<1>3. wg = Cardinality(Active)
  BY <1>1, <1>2, FS_EmptySet
<1>4. go \in [Aliases -> Goroutines]
  BY <1>1 DEF Goroutines, GoPcs
<1>5. main \in [pc : {"select", "spawn", "returned"}, order : Seq(Aliases),
                next : Nat \ {0}, exit : {"none", "ok", "failed"}]
  BY <1>1
<1>6. slot \in Seq(Results) /\ Len(slot) = Len(main.order) /\ main.next <= Len(main.order) + 1
  BY <1>1
<1>7. Typed
  BY <1>1, <1>3, <1>4, <1>5, <1>6 DEF Typed
<1>8. Chosen /\ Started
  BY <1>1 DEF Chosen, Started
<1>9. ASSUME NEW a \in Aliases PROVE HonestLog(a) /\ HonestResult(a) /\ HonestKeys(a)
  BY <1>1 DEF HonestLog, HonestResult, HonestKeys
<1>. QED
  BY <1>7, <1>8, <1>9 DEF Own, Honest

LEMMA StutterKeeps == ASSUME Own, UNCHANGED vars PROVE Own'
<1>1. UNCHANGED <<tags, broken, spec, main, wg, go, slot, remote, askpass, audit, log, client>>
  BY DEF vars, keyVars
<1>2. Typed' /\ Started'
  BY <1>1 DEF Own, Typed, Started, Active
<1>3. Chosen'
  BY <1>1 DEF Own, Chosen, Listed, Active, Selected, Matches
<1>4. ASSUME NEW a \in Aliases PROVE (HonestLog(a) /\ HonestResult(a) /\ HonestKeys(a))'
  BY <1>1, GoFacts DEF HonestLog, HonestResult, HonestKeys, Route
<1>. QED
  BY <1>2, <1>3, <1>4 DEF Own, Honest

LEMMA NextIInv == IInv /\ [Next]_vars => IInv'
<1>. SUFFICES ASSUME IInv, [Next]_vars PROVE IInv'
  OBVIOUS
<1>. USE DEF IInv
<1>1. CASE Main
  <2>1. Own'
    BY <1>1, SelectsKeeps, SpawnsKeeps, ReturnsKeeps, SMTT(30) DEF Main
  <2>2. UNCHANGED keyVars
    BY <1>1 DEF Main, Selects, Spawns, Returns
  <2>. QED
    BY <2>1, <2>2, KeyRest
<1>2. ASSUME NEW a \in Aliases, Goroutine(a) PROVE IInv'
  <2>1. CASE KeyStep(a)
    <3>1. KH!Step(a)
      BY <2>1 DEF KeyStep
    <3>. QED
      BY <2>1, <3>1, KeyStepKeeps, KeyInv
  <2>2. CASE \/ KeysEnd(a) \/ Authenticates(a) \/ RunStarts(a) \/ RunEnds(a)
             \/ Audits(a) \/ Stores(a) \/ CleansUp(a) \/ Done(a)
    <3>1. Own'
      BY <2>2, KeysEndKeeps, AuthenticatesKeeps, RunStartsKeeps, RunEndsKeeps,
         AuditsKeeps, StoresKeeps, CleansUpKeeps, DoneKeeps
    <3>2. UNCHANGED keyVars
      BY <2>2 DEF KeysEnd, Authenticates, RunStarts, RunEnds, Audits, Stores, CleansUp, Done
    <3>. QED
      BY <3>1, <3>2, KeyRest
  <2>. QED
    BY <1>2, <2>1, <2>2 DEF Goroutine
<1>3. ASSUME NEW a \in Aliases, Expires(a) \/ RemoteEnds(a) PROVE IInv'
  <2>1. Own'
    BY <1>3, ExpiresKeeps, RemoteEndsKeeps
  <2>2. UNCHANGED keyVars
    BY <1>3 DEF Expires, RemoteEnds
  <2>. QED
    BY <2>1, <2>2, KeyRest
<1>4. CASE UNCHANGED vars
  <2>1. UNCHANGED keyVars
    BY <1>4 DEF vars
  <2>. QED
    BY <1>4, <2>1, StutterKeeps, KeyRest
<1>. QED
  BY <1>1, <1>2, <1>3, <1>4 DEF Next

LEMMA Inductive == Spec => []IInv
<1>1. Init => IInv
  BY InitOwn, KeysInit DEF IInv
<1>. QED
  BY <1>1, NextIInv, PTL DEF Spec

-----------------------------------------------------------------------------
(* Theorems *)

\* Nobody runs a command on part of the hosts, or on one whose key ssh would still ask
\* for: the command starts on a host only after every selected host has been resolved
\* and known_hosts has a key for each hop of the way, whatever the other goroutines
\* write there, where ensureKnownHosts promises that.
THEOREM KeysComeFirst == Spec => []KeysBeforeCommand
<1>1. IInv => KeysBeforeCommand
  <2>. SUFFICES ASSUME IInv, NEW a \in Aliases, remote[a] # "idle"
                PROVE  /\ Selected \cap broken = {}
                       /\ KH!Promises => \A i \in DOMAIN Route(a) : KH!IsKnown(Route(a)[i])
    BY DEF KeysBeforeCommand
  <2>1. Own /\ HonestLog(a) /\ HonestKeys(a)
    BY GoFacts DEF IInv
  <2>2. Selected \cap broken = {}
    <3>1. go[a].pc # "none"
      BY <2>1 DEF HonestLog
    <3>2. PICK i \in DOMAIN main.order : main.order[i] = a
      BY <2>1, <3>1 DEF Own, Started
    <3>3. main.order # << >>
      BY <3>2
    <3>. QED
      BY <2>1, <3>3 DEF Own, Chosen, Listed
  <2>3. ASSUME KH!Promises, NEW i \in DOMAIN Route(a) PROVE KH!IsKnown(Route(a)[i])
    <3>1. client[a].pc = "ok" /\ client[a].targets = Route(a)
      BY <2>1 DEF HonestKeys
    <3>2. KHP!KnownHostsAssumption => (KHP!IInv => KHP!EnsuredMeansKnown)
      BY KHP!IInvEnsures
    <3>3. KHP!EnsuredMeansKnown
      BY <3>2, KeysAssumption DEF IInv
    <3>4. KHP!IsKnown(KHP!ServerOf(Route(a)[i]))
      BY <2>3, <3>1, <3>3 DEF KHP!EnsuredMeansKnown, KHP!Promises, KH!Promises
    <3>5. KHP!IsKnown(Route(a)[i])
      BY <3>4, RouteFacts
    <3>. QED
      BY <3>5 DEF KHP!IsKnown, KH!IsKnown, KHP!KeysOf, KH!KeysOf
  <2>. QED
    BY <2>2, <2>3
<1>. QED
  BY <1>1, Inductive, PTL

\* What a user and the audit log are told when exec @tag returns is true for any number
\* of hosts and any order in which their goroutines end: each selected host is reported
\* in its own place, exit status 0 means that the command was completed on all of them,
\* no event says anything else, one that is missing means that an append to the log has
\* failed, and no askpass script is left.
THEOREM ReportIsTrue == Spec => []ReportTells
<1>1. IInv => TypeOK
  <2>. SUFFICES ASSUME IInv PROVE TypeOK
    OBVIOUS
  <2>1. Typed
    BY DEF IInv, Own
  <2>2. /\ main.pc \in {"select", "spawn", "returned"} /\ main.exit \in {"none", "ok", "failed"}
        /\ Len(main.order) \in Nat /\ main.next \in Nat \ {0}
        /\ main.next <= Len(main.order) + 1
    BY <2>1 DEF Typed
  <2>3. main.next \in 1..(Len(main.order) + 1)
    BY <2>2
  <2>4. KH!TypeOK
    <3>1. KHP!TypeOK
      BY DEF IInv, KHP!IInv
    <3>. QED
      BY <3>1 DEF KHP!TypeOK, KH!TypeOK, KHP!Lines, KH!Lines, KHP!Garbage, KH!Garbage,
         KHP!Servers, KH!Servers, KHP!Pcs, KH!Pcs, KHP!TargetLists, KH!TargetLists,
         KHP!Endpoints, KH!Endpoints, KHP!BoundedSeq, KH!BoundedSeq, KHP!SeqOf, KH!SeqOf
  <2>. QED
    BY <2>1, <2>2, <2>3, <2>4 DEF Typed, TypeOK, Active
<1>2. ASSUME IInv, main.pc = "returned", main.order # << >>
      PROVE  /\ Listed /\ \A i \in DOMAIN main.order : main.order[i] \in Aliases
             /\ \A i \in DOMAIN main.order :
                   /\ go[main.order[i]].pc = "done"
                   /\ slot[i] = [alias |-> main.order[i], ok |-> go[main.order[i]].ok]
             /\ DOMAIN slot = DOMAIN main.order
             /\ main.exit = "ok" => \A i \in DOMAIN slot : slot[i].ok
  <2>1. Own /\ Listed /\ Active = {} /\ main.next = Len(main.order) + 1
        /\ (main.exit = "ok" => \A i \in DOMAIN slot : slot[i].ok)
    BY <1>2 DEF IInv, Own, Chosen
  <2>2. /\ main.order \in Seq(Aliases) /\ Len(main.order) \in Nat
        /\ slot \in Seq(Results) /\ Len(slot) = Len(main.order)
    BY <2>1 DEF Own, Typed
  <2>3. DOMAIN slot = DOMAIN main.order /\ DOMAIN main.order = 1..Len(main.order)
    BY <2>2
  <2>4. \A i \in DOMAIN main.order : main.order[i] \in Aliases
    BY <2>2
  <2>5. ASSUME NEW i \in DOMAIN main.order
        PROVE  /\ go[main.order[i]].pc = "done"
               /\ slot[i] = [alias |-> main.order[i], ok |-> go[main.order[i]].ok]
    <3>1. i < main.next
      BY <2>1, <2>2, <2>3
    <3>2. go[main.order[i]].pc # "none"
      BY <2>1, <2>4, <3>1 DEF Own, Started
    <3>3. go[main.order[i]].pc = "done"
      BY <2>1, <2>4, <3>2 DEF Active
    <3>. QED
      BY <2>1, <2>4, <3>3, GoFacts DEF HonestResult
  <2>. QED
    BY <2>1, <2>3, <2>4, <2>5
<1>3. IInv => EveryHostReported
  <2>. SUFFICES ASSUME IInv, main.pc = "returned", main.order # << >>
                PROVE  /\ ToSet(main.order) = Selected
                       /\ \A i \in DOMAIN main.order : slot[i].alias = main.order[i]
    BY <1>1 DEF EveryHostReported
  <2>1. \A i \in DOMAIN main.order :
           slot[i] = [alias |-> main.order[i], ok |-> go[main.order[i]].ok]
    BY <1>2
  <2>2. ToSet(main.order) = Selected
    BY <1>2 DEF Listed
  <2>3. ASSUME NEW i \in DOMAIN main.order PROVE slot[i].alias = main.order[i]
    <3>1. \A x, y : [alias |-> x, ok |-> y].alias = x
      OBVIOUS
    <3>2. slot[i] = [alias |-> main.order[i], ok |-> go[main.order[i]].ok]
      BY <2>1
    <3>. QED
      BY <3>1, <3>2
  <2>. QED
    BY <2>2, <2>3
<1>4. IInv => ZeroMeansDoneEverywhere
  <2>. SUFFICES ASSUME IInv, main.exit = "ok"
                PROVE  Selected # {} /\ \A a \in Selected : remote[a] = "ok"
    BY DEF ZeroMeansDoneEverywhere
  <2>1. main.pc = "returned" /\ main.order # << >>
    <3>1. main.pc \in {"select", "spawn", "returned"}
      BY DEF IInv, Own, Typed
    <3>. QED
      BY <3>1 DEF IInv, Own, Chosen
  <2>2. ASSUME NEW a \in Selected PROVE remote[a] = "ok"
    <3>1. PICK i \in DOMAIN main.order : main.order[i] = a
      BY <1>2, <2>1 DEF Listed, ToSet
    <3>2. slot[i].ok /\ slot[i] = [alias |-> a, ok |-> go[a].ok] /\ a \in Aliases
      BY <1>2, <2>1, <3>1
    <3>3. go[a].ok
      BY <3>2
    <3>. QED
      BY <3>2, <3>3, GoFacts DEF IInv, HonestResult
  <2>. QED
    BY <1>2, <2>1, <2>2 DEF Listed
<1>5. IInv => AuditAgrees
  <2>. SUFFICES ASSUME IInv, main.pc = "returned", NEW i \in DOMAIN main.order
                PROVE  LET a == main.order[i] IN
                       \/ audit[a] = <<slot[i].ok>>
                       \/ audit[a] = << >> /\ (remote[a] = "idle" \/ log.failed)
    BY DEF AuditAgrees
  <2>. DEFINE a == main.order[i]
  <2>1. main.order # << >>
    OBVIOUS
  <2>2. /\ a \in Aliases /\ go[a].pc = "done" /\ slot[i] = [alias |-> a, ok |-> go[a].ok]
    BY <1>2, <2>1
  <2>3. \/ audit[a] = <<go[a].ok>>
        \/ audit[a] = << >> /\ (remote[a] = "idle" \/ log.failed)
    BY <2>2, GoFacts DEF IInv, HonestLog
  <2>4. slot[i].ok = go[a].ok
    BY <2>2
  <2>. QED
    BY <2>3, <2>4
<1>6. IInv => NoScriptLeft
  <2>. SUFFICES ASSUME IInv, main.pc = "returned", NEW a \in askpass PROVE FALSE
    BY DEF NoScriptLeft
  <2>1. a \in Aliases /\ Own
    BY DEF IInv, Own, Typed
  <2>2. a \in Active
    BY <2>1, GoFacts DEF HonestResult, Active
  <2>. QED
    BY <2>1, <2>2, Waiting
<1>7. IInv => ReportTells
  BY <1>3, <1>4, <1>5, <1>6 DEF ReportTells
<1>. QED
  BY <1>7, Inductive, PTL
=============================================================================
