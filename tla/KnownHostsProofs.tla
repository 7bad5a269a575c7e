--------------------------- MODULE KnownHostsProofs ---------------------------
(***************************************************************************)
(* Proofs about KnownHosts, for any calls, names, ports, keys, number of    *)
(* jump hosts and faults.  The invariants of the runs are not inductive.    *)
(* IInv adds what a call has in hand when it is about to write (Entry),     *)
(* that a line is only ever spoilt when a write of it was cut short         *)
(* (Spoilt), and that a call has seen to the hosts behind it (Covered).     *)
(***************************************************************************)
EXTENDS KnownHosts, SequenceTheorems, WellFoundedInduction, TLAPS

\* The types, as the provers take them: target lists are sequences with a length.
Call == [pc : Pcs, targets : TargetLists, at : 1..(MaxHops + 1),
         newline : BOOLEAN, entry : Lines]

\* A call that has fetched a key holds it with the name its host is looked up by.
Entry(c) ==
    client[c].pc \in {"last", "append"} =>
        \/ client[c].entry \in [of : {Query(Host(c))}, key : Keys]
        \/ "noise" \in faults /\ client[c].entry = Garbage

\* The line at the end, if it is one, is that of a call which has returned an error.
CutShort ==
    \/ known.lines[Len(known.lines)] = Garbage
    \/ \E c \in Clients : /\ client[c].pc = "failed"
                          /\ client[c].entry = known.lines[Len(known.lines)]

\* A call takes the file to end with a newline when it does not only if a write has
\* stopped short since it looked.
Spoilt(c) ==
    client[c].pc = "append" /\ ~client[c].newline /\ known.open =>
        "partial" \in faults /\ CutShort

\* The hosts a call has left behind are known.
Covered(c) ==
    Promises =>
        \A i \in DOMAIN client[c].targets :
            i < client[c].at \/ client[c].pc = "ok" => IsKnown(Query(client[c].targets[i]))

IInv == TypeOK /\ \A c \in Clients : Entry(c) /\ Spoilt(c) /\ Covered(c)

-----------------------------------------------------------------------------
(* Numbers, hosts and lists of hosts *)

\* A nonempty set of naturals has a least element.
LEMMA Least ==
    ASSUME NEW S, S \subseteq Nat, S # {}
    PROVE  \E i \in S : \A j \in S : i <= j
<1>. DEFINE R == OpToRel(<, Nat)
<1>1. \E x \in S : \A y \in S : ~(<<y, x>> \in R)
  BY NatLessThanWellFounded, WFMin
<1>2. PICK x \in S : \A y \in S : ~(<<y, x>> \in R)
  BY <1>1
<1>3. ASSUME NEW y \in S PROVE x <= y
  <2>1. ~(y < x)
    BY <1>2 DEF OpToRel
  <2>. QED
    BY <2>1
<1>. QED
  BY <1>3

\* What a host is looked up by is the server it stands for.
LEMMA QueryIsServer == \A e \in Endpoints : Query(e) = ServerOf(e) /\ Query(e) \in Servers
BY KnownHostsAssumption DEF Query, ServerOf, Endpoints, Servers

LEMMA TargetFacts ==
    ASSUME NEW ts \in TargetLists
    PROVE  /\ ts \in Seq(Endpoints) /\ Len(ts) \in 1..(MaxHops + 1)
           /\ DOMAIN ts = 1..Len(ts) /\ \A i \in DOMAIN ts : ts[i] \in Endpoints
<1>1. PICK m \in 0..(MaxHops + 1) : ts \in [1..m -> Endpoints]
  BY DEF TargetLists, BoundedSeq, SeqOf
<1>2. ts \in Seq(Endpoints) /\ Len(ts) = m /\ ts # << >>
  BY <1>1, KnownHostsAssumption, SeqDef DEF TargetLists
<1>. QED
  BY <1>1, <1>2, KnownHostsAssumption

\* What the types say of a call and the host it has in hand.
LEMMA CallFacts ==
    ASSUME TypeOK, NEW c \in Clients
    PROVE  /\ client[c] \in Call
           /\ client[c].at \in 1..Len(client[c].targets)
           /\ Host(c) \in Endpoints
           /\ Query(Host(c)) = ServerOf(Host(c)) /\ Query(Host(c)) \in Servers
<1>1. client[c] \in Call /\ client[c].at \in DOMAIN client[c].targets
  BY DEF TypeOK, Call
<1>2. client[c].targets \in TargetLists
  BY <1>1 DEF Call
<1>3. Host(c) \in Endpoints /\ client[c].at \in 1..Len(client[c].targets)
  BY <1>1, <1>2, TargetFacts DEF Host
<1>. QED
  BY <1>1, <1>3, QueryIsServer

-----------------------------------------------------------------------------
(* The lines of the file *)

\* No server is written as text that is no key.
LEMMA GarbageOfNone == \A q \in Servers : Garbage.of # q
<1>. SUFFICES ASSUME NEW q \in Servers, << >> = q PROVE FALSE
  BY DEF Garbage
<1>1. PICK n \in Names, p \in {22} \cup OtherPorts : q = <<n, p>>
  BY DEF Servers
<1>2. Len(<<n, p>>) = 2 /\ Len(<< >>) = 0
  OBVIOUS
<1>. QED
  BY <1>1, <1>2

\* A write adds a line at the end, or spoils the last one; it touches nothing else.
LEMMA WrittenFacts ==
    ASSUME known.lines \in Seq(Lines), known.open => known.lines # << >>,
           NEW line \in Lines, NEW newline \in BOOLEAN, NEW what,
           NEW w, w = Written(line, newline, what),
           NEW new, new = IF what = "part" THEN Garbage ELSE line
    PROVE  /\ w.open \in BOOLEAN /\ (w.open => what # "whole")
           /\ w.lines \in Seq(Lines) /\ w.lines # << >>
           /\ known.open /\ ~newline =>
                 /\ Len(w.lines) = Len(known.lines)
                 /\ \A i \in 1..(Len(known.lines) - 1) : w.lines[i] = known.lines[i]
                 /\ w.lines[Len(known.lines)] = Garbage
           /\ ~(known.open /\ ~newline) => w.lines = Append(known.lines, new)
<1>1. Garbage \in Lines /\ new \in Lines
  BY DEF Lines
<1>2. CASE known.open /\ ~newline
  <2>1. w.lines = Append(Front(known.lines), Garbage) /\ w.open = (what # "whole")
    BY <1>2 DEF Written
  <2>2. Len(known.lines) \in Nat \ {0}
    BY <1>2, EmptySeq
  <2>3. /\ Front(known.lines) \in Seq(Lines)
        /\ Len(Front(known.lines)) = Len(known.lines) - 1
        /\ \A i \in 1..(Len(known.lines) - 1) : Front(known.lines)[i] = known.lines[i]
    BY <2>2 DEF Front
  <2>4. /\ w.lines \in Seq(Lines) /\ Len(w.lines) = Len(known.lines)
        /\ \A i \in 1..(Len(known.lines) - 1) : w.lines[i] = known.lines[i]
        /\ w.lines[Len(known.lines)] = Garbage
    BY <2>1, <2>2, <2>3, <1>1, AppendProperties, SMTT(30)
  <2>5. w.lines # << >>
    BY <2>2, <2>4
  <2>. QED
    BY <1>2, <2>1, <2>4, <2>5
<1>3. CASE ~(known.open /\ ~newline)
  <2>1. w.lines = Append(known.lines, new) /\ w.open = (what # "whole")
    BY <1>3 DEF Written
  <2>2. w.lines \in Seq(Lines) /\ w.lines # << >>
    BY <2>1, <1>1, AppendProperties
  <2>. QED
    BY <1>3, <2>1, <2>2
<1>. QED
  BY <1>2, <1>3

\* A line added at the end adds its key to the server it is of, and to no other.
LEMMA KeysGrow ==
    ASSUME known.lines \in Seq(Lines), NEW e \in Lines,
           known'.lines = Append(known.lines, e), NEW q \in Servers
    PROVE  KeysOf(q)' = KeysOf(q) \cup (IF e.of = q THEN {e.key} ELSE {})
<1>. DEFINE n == Len(known.lines)
<1>1. /\ n \in Nat /\ DOMAIN known.lines = 1..n /\ DOMAIN known'.lines = 1..(n + 1)
      /\ \A i \in 1..n : known'.lines[i] = known.lines[i]
      /\ known'.lines[n + 1] = e
  BY AppendProperties, LenProperties
<1>2. KeysOf(q) = {known.lines[i].key : i \in {j \in 1..n : known.lines[j].of = q}}
  BY <1>1 DEF KeysOf
<1>3. KeysOf(q)' = {known'.lines[i].key : i \in {j \in 1..(n + 1) : known'.lines[j].of = q}}
  BY <1>1 DEF KeysOf
<1>4. 1..(n + 1) = (1..n) \cup {n + 1}
  BY <1>1
<1>. HIDE DEF n
<1>5. KeysOf(q)' \subseteq KeysOf(q) \cup (IF e.of = q THEN {e.key} ELSE {})
  BY <1>1, <1>2, <1>3, <1>4
<1>6. KeysOf(q) \cup (IF e.of = q THEN {e.key} ELSE {}) \subseteq KeysOf(q)'
  BY <1>1, <1>2, <1>3, <1>4
<1>. QED
  BY <1>5, <1>6

-----------------------------------------------------------------------------
(* The loop over the hosts *)

\* A call that only goes on to pc.
LEMMA GoesOn ==
    ASSUME TypeOK, NEW c \in Clients, NEW pc \in Pcs, Goes(c, pc)
    PROVE  /\ client' \in [Clients -> Call]
           /\ \A d \in Clients \ {c} : client'[d] = client[d]
           /\ client'[c].pc = pc /\ client'[c].targets = client[c].targets
           /\ client'[c].at = client[c].at /\ client'[c].entry = client[c].entry
           /\ client'[c].newline = client[c].newline
BY SMTT(30) DEF TypeOK, Goes, Call

\* A call that advances has each host behind it, or every host once it is done, among
\* those it has dealt with, the one in hand included.
LEMMA AdvanceFacts ==
    ASSUME TypeOK, NEW c \in Clients, Advances(c)
    PROVE  /\ client' \in [Clients -> Call]
           /\ \A d \in Clients \ {c} : client'[d] = client[d]
           /\ client'[c].pc \in {"ok", "lookup"}
           /\ client'[c].targets = client[c].targets
           /\ client'[c].at \in DOMAIN client[c].targets
           /\ \A i \in DOMAIN client[c].targets :
                 i < client'[c].at \/ client'[c].pc = "ok" =>
                    \E k \in 1..client[c].at :
                        Query(client[c].targets[k]) = Query(client[c].targets[i])
<1>. DEFINE ts == client[c].targets
            at == client[c].at
            next == {i \in DOMAIN ts : /\ i > at
                                       /\ \A k \in 1..(i - 1) : Query(ts[k]) # Query(ts[i])}
            pcN == IF next = {} THEN "ok" ELSE "lookup"
            atN == IF next = {} THEN at ELSE CHOOSE i \in next : \A j \in next : i <= j
<1>1. /\ client[c] \in Call /\ ts \in TargetLists
      /\ Len(ts) \in 1..(MaxHops + 1) /\ DOMAIN ts = 1..Len(ts) /\ at \in 1..Len(ts)
  BY CallFacts, TargetFacts DEF Call
<1>2. next # {} => atN \in next /\ \A j \in next : atN <= j
  <2>1. next \subseteq Nat
    BY <1>1
  <2>. QED
    BY <2>1, Least
<1>3. atN \in DOMAIN ts
  BY <1>1, <1>2
<1>4. client' = [client EXCEPT ![c].pc = pcN, ![c].at = atN]
  BY DEF Advances
<1>5. [client[c] EXCEPT !.pc = pcN, !.at = atN] \in Call
  <2>1. pcN \in Pcs /\ atN \in 1..(MaxHops + 1)
    BY <1>1, <1>3, KnownHostsAssumption DEF Pcs
  <2>. QED
    BY <2>1, <1>1 DEF Call
<1>6. /\ client' \in [Clients -> Call]
      /\ \A d \in Clients \ {c} : client'[d] = client[d]
      /\ client'[c].pc = pcN /\ client'[c].targets = ts /\ client'[c].at = atN
  <2>. HIDE DEF pcN, atN
  <2>1. client \in [Clients -> Call]
    BY DEF TypeOK, Call
  <2>2. client'[c] = [client[c] EXCEPT !.pc = pcN, !.at = atN]
    BY <2>1, <1>4
  <2>3. /\ client' \in [Clients -> Call]
        /\ \A d \in Clients \ {c} : client'[d] = client[d]
    BY <2>1, <1>4, <1>5
  <2>4. /\ [client[c] EXCEPT !.pc = pcN, !.at = atN].pc = pcN
        /\ [client[c] EXCEPT !.pc = pcN, !.at = atN].targets = ts
        /\ [client[c] EXCEPT !.pc = pcN, !.at = atN].at = atN
    BY <1>1 DEF Call
  <2>. QED
    BY <2>2, <2>3, <2>4
<1>7. ASSUME NEW i \in DOMAIN ts, i < atN \/ pcN = "ok"
      PROVE  \E k \in 1..at : Query(ts[k]) = Query(ts[i])
  <2>. DEFINE same == {k \in DOMAIN ts : Query(ts[k]) = Query(ts[i])}
  <2>0. same \subseteq Nat /\ same # {}
    BY <1>1
  <2>1. PICK k \in same : \A j \in same : k <= j
    <3>. HIDE DEF same
    <3>. QED
      BY <2>0, Least
  <2>2. ASSUME k > at PROVE FALSE
    <3>1. k \in next
      BY <1>1, <2>1, <2>2, SMTT(30)
    <3>2. k <= i /\ atN <= k /\ pcN = "lookup"
      BY <2>1, <1>2, <3>1
    <3>. QED
      BY <1>7, <3>2, <1>1, <1>3, SMTT(30)
  <2>. QED
    BY <2>1, <2>2, <1>1
<1>. QED
  BY <1>3, <1>6, <1>7

\* A step of a call touches no other one, and never the hosts the call was made for.
LEMMA OneCallMoves ==
    \A c \in Clients : TypeOK /\ Step(c) =>
        /\ \A d \in Clients \ {c} : client'[d] = client[d]
        /\ client'[c].targets = client[c].targets
<1>. SUFFICES ASSUME NEW c \in Clients, TypeOK, Step(c)
              PROVE  /\ \A d \in Clients \ {c} : client'[d] = client[d]
                     /\ client'[c].targets = client[c].targets
  OBVIOUS
<1>1. client \in [Clients -> Call]
  BY DEF TypeOK, Call
<1>2. CASE \E pc \in Pcs : Goes(c, pc)
  BY <1>2, GoesOn
<1>3. CASE Advances(c)
  BY <1>3, AdvanceFacts
<1>4. CASE Fetches(c)
  <2>1. CASE \E e : client' = [client EXCEPT ![c].pc = "last", ![c].entry = e]
    BY <1>1, <2>1 DEF Call
  <2>2. CASE Goes(c, "failed")
    BY <1>2, <2>2 DEF Pcs
  <2>. QED
    BY <1>4, <2>1, <2>2 DEF Fetches
<1>5. CASE ReadsLast(c)
  <2>1. \E n : client' = [client EXCEPT ![c].pc = "append", ![c].newline = n]
    BY <1>5 DEF ReadsLast
  <2>. QED
    BY <1>1, <2>1 DEF Call
<1>6. CASE Prepares(c) \/ LooksUp(c) \/ Appends(c)
  BY <1>2, <1>3, <1>6 DEF Prepares, LooksUp, Appends, Pcs
<1>. QED
  BY <1>4, <1>5, <1>6 DEF Step

-----------------------------------------------------------------------------
(* The initial state *)

LEMMA InitIInv == Init => IInv
<1>. SUFFICES ASSUME Init PROVE IInv
  OBVIOUS
<1>1. /\ known.lines \in Seq(Lines) /\ known.open \in BOOLEAN
      /\ known.open => known.lines # << >>
  <2>1. ASSUME NEW l \in [of : Servers, key : Keys]
        PROVE  <<l>> \in Seq(Lines) /\ <<l>> # << >>
    BY DEF Lines
  <2>2. << >> \in Seq(Lines)
    OBVIOUS
  <2>3. CASE known = [lines |-> << >>, open |-> FALSE]
    BY <2>2, <2>3
  <2>4. CASE known \in [lines : {<<l>> : l \in [of : Servers, key : Keys]}, open : BOOLEAN]
    <3>1. PICK l \in [of : Servers, key : Keys] : known.lines = <<l>>
      BY <2>4
    <3>. QED
      BY <2>1, <2>4, <3>1
  <2>. QED
    BY <2>3, <2>4 DEF Init
<1>2. client \in [Clients -> Call]
  <2>1. "prepare" \in Pcs /\ 1 \in 1..(MaxHops + 1) /\ NoLine \in Lines
    BY KnownHostsAssumption DEF Pcs, Lines, NoLine
  <2>2. [pc : {"prepare"}, targets : TargetLists, at : {1}, newline : {FALSE},
         entry : {NoLine}] \subseteq Call
    BY <2>1 DEF Call
  <2>. QED
    BY <2>2 DEF Init
<1>3. ASSUME NEW c \in Clients
      PROVE  /\ client[c].pc = "prepare" /\ client[c].at = 1
             /\ client[c].targets \in TargetLists
  BY DEF Init
<1>4. \A c \in Clients : client[c].at \in DOMAIN client[c].targets
  BY <1>3, TargetFacts, KnownHostsAssumption
<1>5. TypeOK
  BY <1>1, <1>2, <1>4 DEF Init, TypeOK, Call
<1>6. ASSUME NEW c \in Clients PROVE Entry(c) /\ Spoilt(c) /\ Covered(c)
  <2>1. \A i \in DOMAIN client[c].targets : ~(i < 1)
    BY <1>3, TargetFacts, KnownHostsAssumption, SMTT(30)
  <2>. QED
    BY <1>3, <2>1 DEF Entry, Spoilt, Covered
<1>. QED
  BY <1>5, <1>6 DEF IInv

-----------------------------------------------------------------------------
(* The steps *)

\* What a call may find in the file after a write of c, complete or cut short.
Puts(c) ==
    \/ known' = Written(client[c].entry, client[c].newline, "whole")
    \/ "partial" \in faults /\ StopsShort(c)

\* Only lines of q that are neither new nor spoilt: the keys of q are what they were.
LEMMA SameKeys ==
    ASSUME known.lines \in Seq(Lines), known'.lines \in Seq(Lines),
           Len(known'.lines) = Len(known.lines), NEW q,
           \A i \in 1..Len(known.lines) :
              \/ known'.lines[i] = known.lines[i]
              \/ known.lines[i].of # q /\ known'.lines[i].of # q
    PROVE  KeysOf(q)' = KeysOf(q)
<1>1. DOMAIN known.lines = 1..Len(known.lines) /\ DOMAIN known'.lines = 1..Len(known.lines)
  OBVIOUS
<1>2. KeysOf(q) = {known.lines[i].key : i \in {j \in 1..Len(known.lines) : known.lines[j].of = q}}
  BY <1>1 DEF KeysOf
<1>3. KeysOf(q)' = {known'.lines[i].key : i \in {j \in 1..Len(known.lines) : known'.lines[j].of = q}}
  BY <1>1 DEF KeysOf
<1>. QED
  BY <1>2, <1>3

\* What a write of a call does to the file and to the keys that ssh finds there.
LEMMA AppendFacts ==
    ASSUME IInv, NEW c \in Clients, client[c].pc = "append", Puts(c)
    PROVE  /\ known'.lines \in Seq(Lines) /\ known'.open \in BOOLEAN
           /\ known'.open => /\ known'.lines # << >> /\ "partial" \in faults
                             /\ known'.lines[Len(known'.lines)] \in {Garbage, client[c].entry}
           /\ \A i \in DOMAIN known.lines :
                 \/ i \in DOMAIN known'.lines /\ known'.lines[i] = known.lines[i]
                 \/ known.lines[i] = Garbage
                 \/ CutOff(i)
           /\ \A q \in Servers :
                 /\ Promises => KeysOf(q) \subseteq KeysOf(q)'
                 /\ /\ q # Query(Host(c))
                    /\ \A i \in DOMAIN known.lines : known.lines[i].of = q => ~CutOff(i)
                    => KeysOf(q)' = KeysOf(q)
           /\ \A q \in Servers :
                 /\ Promises /\ q = Query(Host(c))
                 /\ known' = Written(client[c].entry, client[c].newline, "whole")
                 => KeysOf(q)' # {}
<1>1. PICK q0 \in Servers : q0 = Query(Host(c))
  BY CallFacts DEF IInv
<1>2. PICK l \in Lines : l = client[c].entry
  BY CallFacts DEF IInv, Call
<1>3. PICK newline \in BOOLEAN : newline = client[c].newline
  BY CallFacts DEF IInv, Call
<1>4. l \in [of : {q0}, key : Keys] \/ ("noise" \in faults /\ l = Garbage)
  BY <1>1, <1>2 DEF IInv, Entry
<1>5. known.lines \in Seq(Lines) /\ known.open \in BOOLEAN /\ (known.open => known.lines # << >>)
  BY DEF IInv, TypeOK
<1>6. known.open /\ ~newline => "partial" \in faults /\ CutShort
  BY <1>3 DEF IInv, Spoilt
<1>. DEFINE n == Len(known.lines)
<1>7. n \in Nat /\ DOMAIN known.lines = 1..n /\ (known.open => n > 0)
  BY <1>5, EmptySeq
<1>8. CASE newline /\ "partial" \in faults /\ known' = [lines |-> known.lines, open |-> FALSE]
  <2>1. known'.lines = known.lines /\ known'.open = FALSE
    BY <1>8
  <2>2. \A q \in Servers : KeysOf(q)' = KeysOf(q)
    BY <2>1 DEF KeysOf
  <2>3. ~Promises
    BY <1>8 DEF Promises
  <2>. QED
    BY <2>1, <2>2, <2>3, <1>5
<1>9. ASSUME NEW what, known' = Written(l, newline, what), what = "whole" \/ "partial" \in faults
      PROVE  /\ known'.lines \in Seq(Lines) /\ known'.open \in BOOLEAN
             /\ known'.open => /\ known'.lines # << >> /\ "partial" \in faults
                               /\ known'.lines[Len(known'.lines)] \in {Garbage, l}
             /\ \A i \in DOMAIN known.lines :
                   \/ i \in DOMAIN known'.lines /\ known'.lines[i] = known.lines[i]
                   \/ known.lines[i] = Garbage
                   \/ CutOff(i)
             /\ \A q \in Servers :
                   /\ Promises => KeysOf(q) \subseteq KeysOf(q)'
                   /\ /\ q # q0
                      /\ \A i \in DOMAIN known.lines : known.lines[i].of = q => ~CutOff(i)
                      => KeysOf(q)' = KeysOf(q)
             /\ Promises /\ what = "whole" => KeysOf(q0)' # {}
  <2>0. PICK w, new : w = Written(l, newline, what) /\ new = IF what = "part" THEN Garbage ELSE l
    OBVIOUS
  <2>1. /\ known'.open \in BOOLEAN /\ (known'.open => what # "whole")
        /\ known'.lines \in Seq(Lines) /\ known'.lines # << >>
        /\ known.open /\ ~newline =>
              /\ Len(known'.lines) = n
              /\ \A i \in 1..(n - 1) : known'.lines[i] = known.lines[i]
              /\ known'.lines[n] = Garbage
        /\ ~(known.open /\ ~newline) => known'.lines = Append(known.lines, new)
    <3>1. known' = w
      BY <1>9, <2>0
    <3>2. /\ w.open \in BOOLEAN /\ (w.open => what # "whole")
          /\ w.lines \in Seq(Lines) /\ w.lines # << >>
          /\ known.open /\ ~newline =>
                /\ Len(w.lines) = n
                /\ \A i \in 1..(n - 1) : w.lines[i] = known.lines[i]
                /\ w.lines[n] = Garbage
          /\ ~(known.open /\ ~newline) => w.lines = Append(known.lines, new)
      BY <1>5, <2>0, WrittenFacts
    <3>. QED
      BY <3>1, <3>2
  <2>2. new \in {Garbage, l} /\ new \in Lines /\ (what = "whole" => new = l)
    BY <2>0 DEF Lines
  <2>3. CASE known.open /\ ~newline
    <3>1. n > 0 /\ "partial" \in faults /\ CutShort /\ ~Promises
      BY <2>3, <1>6, <1>7 DEF Promises
    <3>2. known.lines[n] = Garbage \/ CutOff(n)
      BY <3>1, <2>3, <1>3 DEF CutOff, CutShort
    <3>3. \A i \in 1..n : i \in 1..(n - 1) \/ i = n
      BY <1>7
    <3>4. DOMAIN known'.lines = 1..n
      BY <2>1, <2>3
    <3>5. ASSUME NEW q \in Servers,
                 \A i \in DOMAIN known.lines : known.lines[i].of = q => ~CutOff(i)
          PROVE  KeysOf(q)' = KeysOf(q)
      <4>1. known.lines[n].of # q \/ known.lines[n] = Garbage
        BY <3>1, <3>2, <3>5, <1>7
      <4>2. Garbage.of # q
        BY GarbageOfNone
      <4>3. known'.lines[n].of # q
        BY <4>2, <2>1, <2>3
      <4>4. known.lines[n].of # q
        BY <4>1, <4>2
      <4>5. ASSUME NEW i \in 1..n
            PROVE  \/ known'.lines[i] = known.lines[i]
                   \/ known.lines[i].of # q /\ known'.lines[i].of # q
        <5>1. CASE i = n
          BY <4>3, <4>4, <5>1
        <5>2. CASE i \in 1..(n - 1)
          BY <5>2, <2>1, <2>3
        <5>. QED
          BY <3>3, <5>1, <5>2
      <4>. QED
        BY <4>5, <2>1, <2>3, <1>5, SameKeys
    <3>. QED
      BY <3>1, <3>2, <3>3, <3>4, <3>5, <2>1, <2>3, <1>7
  <2>4. CASE ~(known.open /\ ~newline)
    <3>1. known'.lines = Append(known.lines, new)
      BY <2>1, <2>4
    <3>2. /\ DOMAIN known'.lines = 1..(n + 1) /\ Len(known'.lines) = n + 1
          /\ known'.lines[n + 1] = new
          /\ \A i \in 1..n : known'.lines[i] = known.lines[i]
      BY <3>1, <2>2, <1>5, AppendProperties, LenProperties
    <3>3. ASSUME NEW q \in Servers
          PROVE  KeysOf(q)' = KeysOf(q) \cup (IF new.of = q THEN {new.key} ELSE {})
      BY <2>2, <1>5, <3>1, KeysGrow
    <3>4. new.of = q0 \/ new.of = Garbage.of
      BY <1>4, <2>2
    <3>5. ASSUME NEW q \in Servers, q # q0 PROVE KeysOf(q)' = KeysOf(q)
      BY <3>3, <3>4, <3>5, GarbageOfNone
    <3>6. Promises /\ what = "whole" => KeysOf(q0)' # {}
      <4>1. Promises => l.of = q0
        BY <1>4 DEF Promises
      <4>. QED
        BY <4>1, <3>3, <2>2
    <3>7. known'.open => "partial" \in faults /\ known'.lines[Len(known'.lines)] \in {Garbage, l}
      BY <2>1, <2>2, <1>9, <3>2
    <3>8. \A q \in Servers : KeysOf(q) \subseteq KeysOf(q)'
      BY <3>3
    <3>9. \A i \in DOMAIN known.lines : i \in DOMAIN known'.lines /\ known'.lines[i] = known.lines[i]
      BY <3>2, <1>7
    <3>. QED
      BY <2>1, <3>5, <3>6, <3>7, <3>8, <3>9
  <2>. QED
    BY <2>3, <2>4
<1>10. CASE \E what : known' = Written(l, newline, what) /\ (what = "whole" \/ "partial" \in faults)
  <2>1. PICK what : known' = Written(l, newline, what) /\ (what = "whole" \/ "partial" \in faults)
    BY <1>10
  <2>2. ASSUME known' = Written(l, newline, "whole"), Promises PROVE KeysOf(q0)' # {}
    BY <2>2, <1>9
  <2>. QED
    BY <2>1, <2>2, <1>1, <1>2, <1>3, <1>9
<1>. QED
  BY <1>2, <1>3, <1>8, <1>10 DEF Puts, StopsShort

\* A call that advances from a host that is known keeps Covered, and the rest of what
\* IInv says of it, if no key is lost meanwhile.
LEMMA AdvanceCovers ==
    ASSUME IInv, NEW c \in Clients, Advances(c), UNCHANGED faults,
           Promises => \A q \in Servers : KeysOf(q) \subseteq KeysOf(q)',
           Promises => \A q \in Servers : q = Query(Host(c)) => KeysOf(q)' # {},
           client[c].pc \in {"lookup", "append"}
    PROVE  Entry(c)' /\ Spoilt(c)' /\ Covered(c)'
<1>1. /\ client'[c].pc \in {"ok", "lookup"} /\ client'[c].targets = client[c].targets
      /\ \A i \in DOMAIN client[c].targets :
            i < client'[c].at \/ client'[c].pc = "ok" =>
               \E k \in 1..client[c].at :
                  Query(client[c].targets[k]) = Query(client[c].targets[i])
  BY AdvanceFacts DEF IInv
<1>2. /\ client[c].targets \in TargetLists /\ client[c].at \in 1..Len(client[c].targets)
      /\ DOMAIN client[c].targets = 1..Len(client[c].targets)
  BY CallFacts, TargetFacts DEF IInv, Call
<1>3. ASSUME Promises, NEW k \in 1..client[c].at,
             NEW q \in Servers, q = Query(client[c].targets[k])
      PROVE  KeysOf(q)' # {}
  <2>1. CASE k = client[c].at
    BY <1>3, <2>1 DEF Host
  <2>2. CASE k < client[c].at
    <3>1. k \in DOMAIN client[c].targets
      BY <1>2
    <3>2. KeysOf(q) # {}
      BY <1>3, <2>2, <3>1 DEF IInv, Covered, IsKnown
    <3>. QED
      BY <1>3, <3>2
  <2>. QED
    BY <1>2, <2>1, <2>2
<1>4. ASSUME Promises, NEW i \in DOMAIN client[c].targets,
             i < client'[c].at \/ client'[c].pc = "ok",
             NEW q \in Servers, q = Query(client'[c].targets[i])
      PROVE  KeysOf(q)' # {}
  BY <1>1, <1>3, <1>4
<1>5. Covered(c)'
  <2>1. \A i \in DOMAIN client[c].targets : Query(client'[c].targets[i]) \in Servers
    BY <1>1, <1>2, TargetFacts, QueryIsServer
  <2>2. Promises' => Promises
    BY DEF Promises
  <2>. QED
    BY <1>1, <1>4, <2>1, <2>2 DEF Covered, IsKnown
<1>. QED
  BY <1>1, <1>5 DEF Entry, Spoilt

\* A call that has returned an error stays where it is.
LEMMA CutShortStays ==
    ASSUME NEW c \in Clients, client[c].pc # "failed", UNCHANGED known,
           \A d \in Clients \ {c} : client'[d] = client[d], CutShort
    PROVE  CutShort'
<1>1. CASE known.lines[Len(known.lines)] = Garbage
  BY <1>1 DEF CutShort
<1>2. ASSUME NEW d \in Clients, client[d].pc = "failed",
             client[d].entry = known.lines[Len(known.lines)]
      PROVE  CutShort'
  <2>1. client'[d] = client[d]
    BY <1>2
  <2>. QED
    BY <1>2, <2>1 DEF CutShort
<1>. QED
  BY <1>1, <1>2 DEF CutShort

\* A step of c that leaves the file alone keeps IInv if it keeps what IInv says of c.
LEMMA StepOfCall ==
    ASSUME IInv, NEW c \in Clients, UNCHANGED <<known, serverKey, faults>>,
           client[c].pc # "failed",
           client' \in [Clients -> Call], \A d \in Clients \ {c} : client'[d] = client[d],
           client'[c].at \in DOMAIN client'[c].targets,
           Entry(c)', Spoilt(c)', Covered(c)'
    PROVE  IInv'
<1>1. ASSUME NEW d \in Clients, d # c
      PROVE  /\ client'[d].at \in DOMAIN client'[d].targets
             /\ Entry(d)' /\ Spoilt(d)' /\ Covered(d)'
  <2>1. client'[d] = client[d]
    BY <1>1
  <2>2. client'[d].at \in DOMAIN client'[d].targets
    BY <2>1 DEF IInv, TypeOK
  <2>3. Entry(d)'
    BY <2>1 DEF IInv, Entry, Host
  <2>4. Spoilt(d)'
    BY <2>1, CutShortStays DEF IInv, Spoilt
  <2>5. Covered(d)'
    BY <2>1 DEF IInv, Covered, IsKnown, KeysOf, Promises
  <2>. QED
    BY <2>2, <2>3, <2>4, <2>5
<1>2. TypeOK'
  BY <1>1 DEF IInv, TypeOK, Call
<1>. QED
  BY <1>1, <1>2 DEF IInv

\* So does one that only goes on, to nothing that IInv says more of.
LEMMA KeepsWhenGoing ==
    ASSUME IInv, NEW c \in Clients, UNCHANGED <<known, serverKey, faults>>,
           client[c].pc # "failed",
           NEW pc \in Pcs \ {"last", "append", "ok"}, Goes(c, pc)
    PROVE  IInv'
<1>1. /\ client' \in [Clients -> Call] /\ \A d \in Clients \ {c} : client'[d] = client[d]
      /\ client'[c].pc = pc /\ client'[c].targets = client[c].targets
      /\ client'[c].at = client[c].at
  BY GoesOn DEF IInv
<1>2. Entry(c)' /\ Spoilt(c)'
  BY <1>1 DEF Entry, Spoilt
<1>3. Covered(c)'
  BY <1>1 DEF IInv, Covered, IsKnown, KeysOf, Promises
<1>. QED
  BY <1>1, <1>2, <1>3, StepOfCall DEF IInv, TypeOK

LEMMA PreparesKeeps ==
    ASSUME IInv, NEW c \in Clients, Prepares(c), UNCHANGED faults PROVE IInv'
<1>1. UNCHANGED <<known, serverKey>> /\ client[c].pc = "prepare"
  BY DEF Prepares
<1>2. CASE Goes(c, "lookup") \/ Goes(c, "failed")
  <2>1. "lookup" \in Pcs /\ "failed" \in Pcs
    BY DEF Pcs
  <2>. QED
    BY <1>1, <1>2, <2>1, KeepsWhenGoing
<1>3. CASE "off" \in faults /\ Goes(c, "ok")
  <2>1. /\ client' \in [Clients -> Call] /\ \A d \in Clients \ {c} : client'[d] = client[d]
        /\ client'[c].pc = "ok" /\ client'[c].targets = client[c].targets
        /\ client'[c].at = client[c].at
    BY <1>3, GoesOn DEF IInv, Pcs
  <2>2. Entry(c)' /\ Spoilt(c)' /\ Covered(c)'
    BY <1>3, <2>1 DEF Entry, Spoilt, Covered, Promises
  <2>. QED
    BY <1>1, <2>1, <2>2, StepOfCall DEF IInv, TypeOK
<1>. QED
  BY <1>2, <1>3 DEF Prepares

LEMMA LooksUpKeeps ==
    ASSUME IInv, NEW c \in Clients, LooksUp(c), UNCHANGED faults PROVE IInv'
<1>1. UNCHANGED <<known, serverKey>> /\ client[c].pc = "lookup"
  BY DEF LooksUp
<1>2. CASE IsKnown(Query(Host(c))) /\ Advances(c)
  <2>1. \A q \in Servers : KeysOf(q)' = KeysOf(q)
    BY <1>1 DEF KeysOf
  <2>2. Entry(c)' /\ Spoilt(c)' /\ Covered(c)'
    BY <1>1, <1>2, <2>1, AdvanceCovers DEF IsKnown
  <2>. QED
    BY <1>1, <1>2, <2>2, AdvanceFacts, StepOfCall DEF IInv
<1>3. CASE Goes(c, "fetch") \/ Goes(c, "failed")
  <2>1. "fetch" \in Pcs /\ "failed" \in Pcs
    BY DEF Pcs
  <2>. QED
    BY <1>1, <1>3, <2>1, KeepsWhenGoing
<1>. QED
  BY <1>2, <1>3 DEF LooksUp

LEMMA FetchesKeeps ==
    ASSUME IInv, NEW c \in Clients, Fetches(c), UNCHANGED faults PROVE IInv'
<1>1. UNCHANGED <<known, serverKey>> /\ client[c].pc = "fetch"
  BY DEF Fetches
<1>2. CASE Goes(c, "failed")
  BY <1>1, <1>2, KeepsWhenGoing DEF Pcs
<1>3. ASSUME NEW e, e = Found(c) \/ ("noise" \in faults /\ e = Garbage),
             client' = [client EXCEPT ![c].pc = "last", ![c].entry = e]
      PROVE  IInv'
  <2>1. /\ e \in Lines
        /\ e \in [of : {Query(Host(c))}, key : Keys] \/ ("noise" \in faults /\ e = Garbage)
    <3>1. Found(c) \in [of : {Query(Host(c))}, key : Keys] /\ Found(c) \in Lines
      BY CallFacts DEF IInv, TypeOK, Lines, Found
    <3>. QED
      BY <1>3, <3>1 DEF Lines
  <2>2. "last" \in Pcs
    BY DEF Pcs
  <2>3. /\ client' \in [Clients -> Call] /\ \A d \in Clients \ {c} : client'[d] = client[d]
        /\ client'[c].pc = "last" /\ client'[c].targets = client[c].targets
        /\ client'[c].at = client[c].at /\ client'[c].entry = e
    BY <1>3, <2>1, <2>2 DEF IInv, TypeOK, Call
  <2>4. Entry(c)' /\ Spoilt(c)'
    BY <2>1, <2>3 DEF Entry, Spoilt, Host
  <2>5. Covered(c)'
    BY <1>1, <2>3 DEF IInv, Covered, IsKnown, KeysOf, Promises
  <2>. QED
    BY <1>1, <2>3, <2>4, <2>5, StepOfCall DEF IInv, TypeOK
<1>. QED
  BY <1>2, <1>3 DEF Fetches

LEMMA ReadsLastKeeps ==
    ASSUME IInv, NEW c \in Clients, ReadsLast(c), UNCHANGED faults PROVE IInv'
<1>1. UNCHANGED <<known, serverKey>> /\ client[c].pc = "last" /\ known.open \in BOOLEAN
  BY DEF ReadsLast, IInv, TypeOK
<1>2. "append" \in Pcs
  BY DEF Pcs
<1>3. /\ client' \in [Clients -> Call] /\ \A d \in Clients \ {c} : client'[d] = client[d]
      /\ client'[c].pc = "append" /\ client'[c].targets = client[c].targets
      /\ client'[c].at = client[c].at /\ client'[c].entry = client[c].entry
      /\ client'[c].newline = known.open
  BY <1>1, <1>2 DEF ReadsLast, IInv, TypeOK, Call
<1>4. Entry(c)' /\ Spoilt(c)'
  BY <1>1, <1>3 DEF IInv, Entry, Spoilt, Host
<1>5. Covered(c)'
  BY <1>1, <1>3 DEF IInv, Covered, IsKnown, KeysOf, Promises
<1>. QED
  BY <1>1, <1>3, <1>4, <1>5, StepOfCall DEF IInv, TypeOK

LEMMA AppendsKeeps ==
    ASSUME IInv, NEW c \in Clients, Appends(c), UNCHANGED faults PROVE IInv'
<1>1. UNCHANGED serverKey /\ client[c].pc = "append"
  BY DEF Appends
<1>2. CASE Goes(c, "failed") /\ UNCHANGED known
  BY <1>1, <1>2, KeepsWhenGoing DEF Pcs
<1>3. ASSUME Puts(c), NEW whole \in BOOLEAN,
             whole => known' = Written(client[c].entry, client[c].newline, "whole"),
             ~whole => "partial" \in faults,
             IF whole THEN Advances(c) ELSE Goes(c, "failed")
      PROVE  IInv'
  <2>1. /\ known'.lines \in Seq(Lines) /\ known'.open \in BOOLEAN
        /\ known'.open => /\ known'.lines # << >> /\ "partial" \in faults
                          /\ known'.lines[Len(known'.lines)] \in {Garbage, client[c].entry}
        /\ \A q \in Servers :
              /\ Promises => KeysOf(q) \subseteq KeysOf(q)'
              /\ Promises /\ q = Query(Host(c)) /\ whole => KeysOf(q)' # {}
    BY <1>1, <1>3, AppendFacts
  <2>2. /\ client' \in [Clients -> Call] /\ \A d \in Clients \ {c} : client'[d] = client[d]
        /\ client'[c].at \in DOMAIN client'[c].targets
    <3>1. CASE whole
      BY <1>3, <3>1, AdvanceFacts DEF IInv
    <3>2. CASE ~whole
      BY <1>3, <3>2, GoesOn DEF IInv, TypeOK, Pcs
    <3>. QED
      BY <3>1, <3>2
  <2>3. Entry(c)' /\ Spoilt(c)' /\ Covered(c)'
    <3>1. CASE whole
      <4>1. Promises => \A q \in Servers : KeysOf(q) \subseteq KeysOf(q)'
        BY <2>1
      <4>2. Promises => \A q \in Servers : q = Query(Host(c)) => KeysOf(q)' # {}
        BY <2>1, <3>1
      <4>. QED
        BY <1>1, <1>3, <3>1, <4>1, <4>2, AdvanceCovers
    <3>2. CASE ~whole
      <4>1. client'[c].pc = "failed"
        BY <1>3, <3>2, GoesOn DEF IInv, Pcs
      <4>. QED
        BY <1>3, <3>2, <4>1 DEF Entry, Spoilt, Covered, Promises
    <3>. QED
      BY <3>1, <3>2
  <2>4. known'.open => CutShort'
    <3>1. CASE whole
      <4>0. known' = Written(client[c].entry, client[c].newline, "whole")
        BY <1>3, <3>1
      <4>1. known'.open = ("whole" # "whole")
        BY <4>0 DEF Written
      <4>. QED
        BY <4>1
    <3>2. CASE ~whole
      <4>1. client'[c].pc = "failed" /\ client'[c].entry = client[c].entry
        BY <1>3, <3>2, GoesOn DEF IInv, Pcs
      <4>. QED
        BY <2>1, <4>1 DEF CutShort
    <3>. QED
      BY <3>1, <3>2
  <2>5. ASSUME NEW d \in Clients, d # c
        PROVE  /\ client'[d].at \in DOMAIN client'[d].targets
               /\ Entry(d)' /\ Spoilt(d)' /\ Covered(d)'
    <3>1. client'[d] = client[d]
      BY <2>2, <2>5
    <3>2. client'[d].at \in DOMAIN client'[d].targets
      BY <3>1 DEF IInv, TypeOK
    <3>3. Entry(d)'
      BY <3>1 DEF IInv, Entry, Host
    <3>4. Spoilt(d)'
      BY <2>1, <2>4 DEF Spoilt
    <3>5. Covered(d)'
      <4>1. \A i \in DOMAIN client[d].targets : Query(client[d].targets[i]) \in Servers
        BY CallFacts, TargetFacts, QueryIsServer DEF IInv, Call
      <4>2. Promises' => Promises
        BY DEF Promises
      <4>. QED
        BY <2>1, <3>1, <4>1, <4>2 DEF IInv, Covered, IsKnown
    <3>. QED
      BY <3>2, <3>3, <3>4, <3>5
  <2>. QED
    BY <1>1, <2>1, <2>2, <2>3, <2>5 DEF IInv, TypeOK, Call
<1>4. CASE known' = Written(client[c].entry, client[c].newline, "whole") /\ Advances(c)
  BY <1>3, <1>4 DEF Puts
<1>5. CASE "partial" \in faults /\ StopsShort(c) /\ Goes(c, "failed")
  BY <1>3, <1>5 DEF Puts
<1>. QED
  BY <1>2, <1>4, <1>5 DEF Appends

LEMMA RekeysKeeps ==
    ASSUME IInv, NEW q \in Servers, Rekeys(q), UNCHANGED faults PROVE IInv'
<1>1. serverKey' \in [Servers -> Keys] /\ UNCHANGED <<known, client>>
  BY DEF Rekeys, IInv, TypeOK
<1>2. ASSUME NEW c \in Clients PROVE Entry(c)' /\ Spoilt(c)' /\ Covered(c)'
  BY <1>1, SMTT(30) DEF IInv, Entry, Spoilt, CutShort, Covered, Promises, Host, IsKnown, KeysOf
<1>3. TypeOK'
  BY <1>1 DEF IInv, TypeOK
<1>. QED
  BY <1>2, <1>3 DEF IInv

LEMMA NextIInv == IInv /\ [Next]_vars => IInv'
<1>. SUFFICES ASSUME IInv, [Next]_vars PROVE IInv'
  OBVIOUS
<1>1. ASSUME NEW c \in Clients, Step(c), UNCHANGED faults PROVE IInv'
  BY <1>1, PreparesKeeps, LooksUpKeeps, FetchesKeeps, ReadsLastKeeps, AppendsKeeps DEF Step
<1>2. ASSUME NEW q \in Servers, Rekeys(q), UNCHANGED faults PROVE IInv'
  BY <1>2, RekeysKeeps
<1>3. CASE UNCHANGED vars
  <2>1. UNCHANGED <<known, serverKey, client, faults>>
    BY <1>3 DEF vars
  <2>2. TypeOK'
    BY <2>1 DEF IInv, TypeOK
  <2>3. ASSUME NEW c \in Clients PROVE Entry(c)' /\ Spoilt(c)' /\ Covered(c)'
    <3>1. CutShort' <=> CutShort
      BY <2>1 DEF CutShort
    <3>2. Covered(c)'
      BY <2>1 DEF IInv, Covered, Promises, IsKnown, KeysOf
    <3>. QED
      BY <2>1, <3>1, <3>2 DEF IInv, Entry, Spoilt, Host
  <2>. QED
    BY <2>2, <2>3 DEF IInv
<1>. QED
  BY <1>1, <1>2, <1>3 DEF Next

LEMMA Inductive == Spec => []IInv
BY InitIInv, NextIInv, PTL DEF Spec

-----------------------------------------------------------------------------
(* Theorems *)

\* A call that has returned without error leaves no host that ssh has no key of.
LEMMA IInvEnsures == IInv => EnsuredMeansKnown
<1>. SUFFICES ASSUME IInv, Promises,
                     NEW c \in Clients, client[c].pc = "ok",
                     NEW i \in DOMAIN client[c].targets
              PROVE  IsKnown(ServerOf(client[c].targets[i]))
  BY DEF EnsuredMeansKnown, IInv
<1>1. client[c].targets[i] \in Endpoints
  BY CallFacts, TargetFacts DEF IInv, Call
<1>. QED
  BY <1>1, QueryIsServer DEF IInv, Covered

\* ensureKnownHosts keeps what it promises whatever the other processes write to the
\* file and however long the chain of jump hosts: when it returns nil, ssh finds a key
\* of every server it is going to contact; and the state is well typed.
THEOREM EnsuredIsKnown == Spec => []EnsuredMeansKnown
BY IInvEnsures, Inductive, PTL

\* A step of c leaves no call on its way to add q if c is not on its way to after it.
LEMMA StaysSettled ==
    ASSUME IInv, NEW q \in Servers, Settled(q), KeysOf(q)' = KeysOf(q), NEW c \in Clients,
           \A d \in Clients \ {c} : client'[d] = client[d],
           client'[c].pc \in {"fetch", "last", "append"} => Query(Host(c))' # q
    PROVE  Settled(q)'
<1>1. ASSUME NEW d \in Clients PROVE d \notin Pending(q)'
  <2>1. CASE d = c
    BY <2>1 DEF Pending
  <2>2. CASE d # c
    <3>1. client'[d] = client[d] /\ d \notin Pending(q)
      BY <2>2 DEF Settled
    <3>. QED
      BY <3>1 DEF Pending, Host
  <2>. QED
    BY <2>1, <2>2
<1>. QED
  BY <1>1 DEF Settled, IsKnown, Pending

LEMMA SettledForGood ==
    ASSUME IInv, Next, NEW q \in Servers, Settled(q),
           \A i \in DOMAIN known.lines : known.lines[i].of = q => ~CutOff(i)
    PROVE  Settled(q)' /\ KeysOf(q)' = KeysOf(q)
<1>. DEFINE OnTheWay == {"fetch", "last", "append"}
<1>1. ASSUME UNCHANGED known PROVE KeysOf(q)' = KeysOf(q)
  BY <1>1 DEF KeysOf
<1>2. ASSUME NEW c \in Clients, client[c].pc \in OnTheWay PROVE Query(Host(c)) # q
  BY <1>2 DEF Settled, Pending
\* A call that goes on to pc.
<1>3. ASSUME NEW c \in Clients, NEW pc \in Pcs, Goes(c, pc), KeysOf(q)' = KeysOf(q),
             pc \in OnTheWay => Query(Host(c)) # q
      PROVE  Settled(q)'
  <2>1. /\ \A d \in Clients \ {c} : client'[d] = client[d]
        /\ client'[c].pc = pc /\ client'[c].targets = client[c].targets
        /\ client'[c].at = client[c].at
    BY <1>3, GoesOn DEF IInv
  <2>. QED
    BY <1>3, <2>1, StaysSettled DEF Host
\* A call that advances.
<1>4. ASSUME NEW c \in Clients, Advances(c), KeysOf(q)' = KeysOf(q)
      PROVE  Settled(q)'
  BY <1>4, AdvanceFacts, StaysSettled DEF IInv
<1>5. ASSUME NEW c \in Clients, Prepares(c) PROVE Settled(q)' /\ KeysOf(q)' = KeysOf(q)
  BY <1>1, <1>3, <1>5 DEF Prepares, Pcs
<1>6. ASSUME NEW c \in Clients, LooksUp(c) PROVE Settled(q)' /\ KeysOf(q)' = KeysOf(q)
  <2>1. KeysOf(q)' = KeysOf(q)
    BY <1>1, <1>6 DEF LooksUp
  <2>2. CASE IsKnown(Query(Host(c))) /\ Advances(c)
    BY <1>4, <2>1, <2>2
  <2>3. CASE ~IsKnown(Query(Host(c))) /\ Goes(c, "fetch")
    BY <1>3, <2>1, <2>3 DEF Settled, Pcs
  <2>4. CASE Goes(c, "failed")
    BY <1>3, <2>1, <2>4 DEF Pcs
  <2>. QED
    BY <1>6, <2>2, <2>3, <2>4 DEF LooksUp
<1>7. ASSUME NEW c \in Clients, Fetches(c) PROVE Settled(q)' /\ KeysOf(q)' = KeysOf(q)
  <2>1. KeysOf(q)' = KeysOf(q) /\ Query(Host(c)) # q
    BY <1>1, <1>2, <1>7 DEF Fetches
  <2>2. CASE Goes(c, "failed")
    BY <1>3, <2>1, <2>2 DEF Pcs
  <2>3. ASSUME NEW e, client' = [client EXCEPT ![c].pc = "last", ![c].entry = e]
        PROVE  Settled(q)'
    <3>1. /\ \A d \in Clients \ {c} : client'[d] = client[d]
          /\ client'[c].targets = client[c].targets /\ client'[c].at = client[c].at
      BY <2>3 DEF IInv, TypeOK
    <3>. QED
      BY <2>1, <3>1, StaysSettled DEF Host
  <2>. QED
    BY <1>7, <2>1, <2>2, <2>3 DEF Fetches
<1>8. ASSUME NEW c \in Clients, ReadsLast(c) PROVE Settled(q)' /\ KeysOf(q)' = KeysOf(q)
  <2>1. KeysOf(q)' = KeysOf(q) /\ Query(Host(c)) # q
    BY <1>1, <1>2, <1>8 DEF ReadsLast
  <2>2. /\ \A d \in Clients \ {c} : client'[d] = client[d]
        /\ client'[c].targets = client[c].targets /\ client'[c].at = client[c].at
    BY <1>8 DEF IInv, TypeOK, ReadsLast
  <2>. QED
    BY <2>1, <2>2, StaysSettled DEF Host
<1>9. ASSUME NEW c \in Clients, Appends(c) PROVE Settled(q)' /\ KeysOf(q)' = KeysOf(q)
  <2>1. Query(Host(c)) # q
    BY <1>2, <1>9 DEF Appends
  <2>2. KeysOf(q)' = KeysOf(q)
    BY <1>1, <1>9, <2>1, AppendFacts DEF Appends, Puts
  <2>. QED
    BY <1>3, <1>4, <1>9, <2>2 DEF Appends, Pcs
<1>10. ASSUME NEW s \in Servers, Rekeys(s) PROVE Settled(q)' /\ KeysOf(q)' = KeysOf(q)
  BY <1>1, <1>10 DEF Rekeys, Settled, IsKnown, Pending, Host
<1>. QED
  BY <1>5, <1>6, <1>7, <1>8, <1>9, <1>10 DEF Next, Step

\* Trust on first use holds whatever keys the servers present later and however many
\* processes append to the file: a server that is known, and that nobody is on the way
\* to add, keeps exactly the keys it has, unless the line of one is cut off.
THEOREM PinnedForGood == Spec => Pinned
<1>1. ASSUME IInv, [Next]_vars
      PROVE  [\A q \in Servers :
                Settled(q) /\ (\A i \in DOMAIN known.lines : known.lines[i].of = q => ~CutOff(i)) =>
                    Settled(q)' /\ KeysOf(q)' = KeysOf(q)]_vars
  BY <1>1, SettledForGood
<1>. QED
  BY <1>1, Inductive, PTL DEF Spec, Pinned

\* appendKnownHosts costs the user no line: whatever is left of the writes of the other
\* processes, a write adds to the end of the file, or to what is garbage already, or to
\* the one line whose own write stopped short of its newline and returned an error.
THEOREM LinesStayForGood == Spec => LinesStay
<1>. DEFINE Stay == \A i \in DOMAIN known.lines :
                       known.lines[i] # Garbage /\ ~CutOff(i) => /\ i \in DOMAIN known'.lines
                                                                /\ known'.lines[i] = known.lines[i]
<1>1. ASSUME IInv, Next PROVE Stay
  <2>1. CASE UNCHANGED known
    BY <2>1
  <2>2. ASSUME NEW c \in Clients, Appends(c) PROVE Stay
    BY <1>1, <2>1, <2>2, AppendFacts DEF Appends, Puts
  <2>. QED
    BY <1>1, <2>1, <2>2 DEF Next, Step, Prepares, LooksUp, Fetches, ReadsLast, Rekeys
<1>2. ASSUME IInv, [Next]_vars PROVE [Stay]_vars
  BY <1>1, <1>2
<1>. QED
  BY <1>2, Inductive, PTL DEF Spec, LinesStay
=============================================================================
