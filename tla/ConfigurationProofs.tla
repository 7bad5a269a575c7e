-------------------------- MODULE ConfigurationProofs --------------------------
(***************************************************************************)
(* Proofs about Configuration, for any constants.                           *)
(*                                                                          *)
(* Inventory, for any aliases, hosts, editors, MCP servers and faults: a    *)
(* temporary file is about to be renamed only when it holds all of its      *)
(* editor's inventory (Finished), so what is renamed is whole.  That a      *)
(* saved host stays follows from what an edit under way will write: its own *)
(* change (Intended) and, where it changes nothing and has loaded the file  *)
(* late enough, what is there already (Agrees).                             *)
(*                                                                          *)
(* JumpHosts, for any inventory: a host is resolved, with a given stack, if *)
(* and only if it is sound and needs nothing that is on the stack, by       *)
(* induction on what is not on it yet; and its hops do not depend on the    *)
(* stack.                                                                   *)
(*                                                                          *)
(* ShellQuote, for texts of any length: a shell reads a text in two parts   *)
(* as it reads it in one, so a quoted text is a word of what it held, and   *)
(* each shell hands on exactly what the one before it was given.            *)
(***************************************************************************)
EXTENDS Configuration, TLAPS, FiniteSetTheorems, SequenceTheorems

Editor == [change : Changes, pc : EditorPcs, inv : Inv]
Server == [pc : {"off", "ready", "reloading"}, inv : Inv]

\* An edit between its load and its end.
UnderWay(e) == editor[e].pc \in {"create", "write", "sync", "rename"}

\* A temporary file that is about to be renamed holds what its editor has in memory.
Finished(e) == editor[e].pc \in {"sync", "rename"} => temp[e] = Content(editor[e].inv)

\* What an editor has in memory is changed as it was asked.
Intended(e) ==
    UnderWay(e) => \A a \in Touches(editor[e].change) : editor[e].inv[a] = editor[e].change[a]

\* Edit e of alias a is saved, and no other edit has been that could have undone it.
Kept(e, a) ==
    /\ editor[e].pc = "saved"
    /\ \A g \in Editors \ {e} :
          editor[g].pc = "saved" => a \notin Touches(editor[g].change) /\ <<g, e>> \notin behind

\* Then the file agrees with e about a, and so does every edit under way that leaves a
\* alone and has not loaded the file before e was saved.
Agrees(e, a) ==
    /\ file.inv[a] = editor[e].change[a]
    /\ \A g \in Editors \ {e} :
          UnderWay(g) /\ a \notin Touches(editor[g].change) /\ <<g, e>> \notin behind
              => editor[g].inv[a] = editor[e].change[a]

IInv ==
    /\ TypeOK /\ file.whole /\ stable.whole
    /\ \A e \in Editors : Finished(e) /\ Intended(e)
    /\ "power" \notin faults =>
          \A e \in Editors : \A a \in Touches(editor[e].change) : Kept(e, a) => Agrees(e, a)

-----------------------------------------------------------------------------
(* Inventory: types *)

LEMMA InitIInv == Init => IInv
<1>. SUFFICES ASSUME Init PROVE IInv
  OBVIOUS
<1>1. Empty \in Inv
  BY DEF Empty, Inv
<1>2. \A i \in Inv : Content(i) \in Contents /\ Content(i).whole /\ Content(i).inv = i
  BY DEF Content, Contents
<1>3. Torn \in Contents
  BY DEF Contents
<1>4. file \in Contents /\ stable \in Contents /\ file.whole /\ stable.whole
  BY <1>2 DEF Init
<1>5. editor \in [Editors -> Editor]
  BY <1>1 DEF Init, Editor, Sets, Removes, Imports, EditorPcs
<1>6. \A e \in Editors : editor[e].pc = "load"
  BY DEF Init
<1>7. TypeOK
  BY <1>1, <1>3, <1>4, <1>5 DEF Init, TypeOK, Editor
<1>8. ASSUME NEW e \in Editors
      PROVE  Finished(e) /\ Intended(e) /\ \A a : ~Kept(e, a)
  BY <1>6 DEF Finished, Intended, UnderWay, Kept
<1>. QED
  BY <1>4, <1>7, <1>8 DEF IInv

\* A change is applied where it says so, and nowhere else.
LEMMA AppliesFacts ==
    ASSUME NEW c \in Changes, NEW i \in Inv
    PROVE  /\ Applies(c, i) \in Inv
           /\ \A a \in Touches(c) : Applies(c, i)[a] = c[a]
           /\ \A a \in Aliases \ Touches(c) : Applies(c, i)[a] = i[a]
BY DEF Applies, Changes, Touches, Inv

LEMMA TouchesAliases == \A e \in Editors : TypeOK => Touches(editor[e].change) \subseteq Aliases
BY DEF Touches

\* What a file that can be loaded holds is an inventory.
LEMMA LoadedInv == \A f \in Contents : f.whole => f.inv \in Inv
<1>1. ASSUME NEW f \in Contents, f # Torn PROVE f.inv \in Inv
  BY <1>1 DEF Contents
<1>2. ~Torn.whole
  BY DEF Torn
<1>. QED
  BY <1>1, <1>2

\* What the history records.
LEMMA Overtaken ==
    ASSUME TypeOK, Overtakes
    PROVE  /\ behind \subseteq behind' /\ behind' \subseteq Editors \X Editors
           /\ \A e \in Editors : \A g \in Editors \ {e} :
                 UnderWay(g) /\ editor[e].pc = "rename" /\ editor'[e].pc = "saved"
                     => <<g, e>> \in behind'
<1>1. behind \subseteq behind' /\ behind' \subseteq Editors \X Editors
  BY DEF TypeOK, Overtakes
<1>2. ASSUME NEW e \in Editors, NEW g \in Editors \ {e},
             UnderWay(g), editor[e].pc = "rename", editor'[e].pc = "saved"
      PROVE  <<g, e>> \in behind'
  <2>1. <<g, e>> \in Editors \X Editors /\ <<g, e>>[1] = g /\ <<g, e>>[2] = e
    OBVIOUS
  <2>. QED
    BY <1>2, <2>1 DEF Overtakes, UnderWay
<1>. QED
  BY <1>1, <1>2

\* An editor that only goes on to pc.
LEMMA GoesOn ==
    ASSUME TypeOK, NEW e \in Editors, NEW pc \in EditorPcs, EditorGoes(e, pc)
    PROVE  /\ editor' \in [Editors -> Editor]
           /\ \A d \in Editors \ {e} : editor'[d] = editor[d]
           /\ editor'[e].pc = pc /\ editor'[e].change = editor[e].change
           /\ editor'[e].inv = editor[e].inv
BY DEF TypeOK, EditorGoes, Editor

-----------------------------------------------------------------------------
(* Inventory: steps *)

\* What everything but a rename of e and a power failure does to the agreement: nothing.
LEMMA StillAgrees ==
    ASSUME IInv, "power" \notin faults, NEW e \in Editors, Overtakes, UNCHANGED file,
           \A d \in Editors \ {e} : editor'[d] = editor[d],
           editor'[e].change = editor[e].change,
           editor[e].pc # "saved" /\ editor'[e].pc # "saved",
           UnderWay(e)' =>
              \/ UnderWay(e) /\ editor'[e].inv = editor[e].inv
              \/ editor'[e].inv = Applies(editor[e].change, file.inv),
           NEW f \in Editors, NEW a \in Touches(editor[f].change), Kept(f, a)'
    PROVE  Agrees(f, a)'
<1>1. f # e /\ editor'[f] = editor[f] /\ behind \subseteq behind' /\ a \in Aliases
  BY Overtaken, TouchesAliases DEF Kept, IInv
<1>2. Kept(f, a)
  <2>1. ASSUME NEW g \in Editors \ {f}, editor[g].pc = "saved"
        PROVE  a \notin Touches(editor[g].change) /\ <<g, f>> \notin behind
    <3>1. editor'[g] = editor[g]
      BY <2>1
    <3>. QED
      BY <1>1, <2>1, <3>1 DEF Kept
  <2>. QED
    BY <1>1, <2>1 DEF Kept
<1>3. Agrees(f, a)
  BY <1>2 DEF IInv
<1>4. ASSUME NEW g \in Editors \ {f}, UnderWay(g)',
             a \notin Touches(editor'[g].change), <<g, f>> \notin behind'
      PROVE  editor'[g].inv[a] = editor[f].change[a]
  <2>1. <<g, f>> \notin behind
    BY <1>1, <1>4
  <2>2. CASE g # e
    <3>1. editor'[g] = editor[g]
      BY <2>2
    <3>. QED
      BY <1>3, <1>4, <2>1, <3>1 DEF Agrees, UnderWay
  <2>3. CASE g = e /\ UnderWay(e) /\ editor'[e].inv = editor[e].inv
    BY <1>3, <1>4, <2>1, <2>3 DEF Agrees
  <2>4. CASE g = e /\ editor'[e].inv = Applies(editor[e].change, file.inv)
    <3>1. editor[e].change \in Changes /\ file.inv \in Inv
      BY LoadedInv DEF IInv, TypeOK
    <3>2. editor'[e].inv[a] = file.inv[a]
      BY <1>1, <1>4, <2>4, <3>1, AppliesFacts
    <3>. QED
      BY <1>3, <2>4, <3>2 DEF Agrees
  <2>. QED
    BY <1>4, <2>2, <2>3, <2>4
<1>. QED
  BY <1>1, <1>3, <1>4 DEF Agrees

\* A step of e that leaves hosts.toml and the servers alone keeps IInv if it does not
\* save and keeps what IInv says of e.
LEMMA StepOfEditor ==
    ASSUME IInv, NEW e \in Editors, UNCHANGED <<file, stable, server, faults>>, Overtakes,
           editor' \in [Editors -> Editor], \A d \in Editors \ {e} : editor'[d] = editor[d],
           temp' \in [Editors -> Contents], \A d \in Editors \ {e} : temp'[d] = temp[d],
           editor'[e].change = editor[e].change,
           editor[e].pc # "saved" /\ editor'[e].pc # "saved",
           UnderWay(e)' =>
              \/ UnderWay(e) /\ editor'[e].inv = editor[e].inv
              \/ editor'[e].inv = Applies(editor[e].change, file.inv),
           Finished(e)'
    PROVE  IInv'
<1>1. TypeOK'
  BY Overtaken DEF IInv, TypeOK, Editor
<1>2. ASSUME NEW d \in Editors PROVE Finished(d)' /\ Intended(d)'
  <2>1. CASE d # e
    <3>1. editor'[d] = editor[d] /\ temp'[d] = temp[d]
      BY <2>1
    <3>. QED
      BY <3>1 DEF IInv, Finished, Intended, UnderWay
  <2>2. CASE d = e
    <3>1. editor[e].change \in Changes /\ file.inv \in Inv
      BY LoadedInv DEF IInv, TypeOK
    <3>2. Intended(e)'
      BY <3>1, AppliesFacts DEF IInv, Intended
    <3>. QED
      BY <2>2, <3>2
  <2>. QED
    BY <2>1, <2>2
<1>3. ASSUME "power" \notin faults, NEW f \in Editors, NEW a \in Touches(editor'[f].change),
             Kept(f, a)'
      PROVE  Agrees(f, a)'
  <2>1. a \in Touches(editor[f].change)
    BY <1>3
  <2>. QED
    BY <1>3, <2>1, StillAgrees
<1>. QED
  BY <1>1, <1>2, <1>3 DEF IInv

\* An editor that goes on with what it has, and does not save.
LEMMA KeepsWhenGoing ==
    ASSUME IInv, NEW e \in Editors, UNCHANGED <<file, stable, server, faults>>, Overtakes,
           NEW pc \in EditorPcs \ {"saved"}, EditorGoes(e, pc), editor[e].pc # "saved",
           pc \in {"create", "write", "sync", "rename"} => UnderWay(e),
           NEW t \in Contents, temp' = [temp EXCEPT ![e] = t],
           pc \in {"sync", "rename"} => t = Content(editor[e].inv)
    PROVE  IInv'
<1>1. /\ temp' \in [Editors -> Contents] /\ \A d \in Editors \ {e} : temp'[d] = temp[d]
      /\ temp'[e] = t
  BY DEF IInv, TypeOK
<1>2. /\ editor' \in [Editors -> Editor]
      /\ \A d \in Editors \ {e} : editor'[d] = editor[d]
      /\ editor'[e].pc = pc /\ editor'[e].change = editor[e].change
      /\ editor'[e].inv = editor[e].inv
  BY GoesOn DEF IInv
<1>3. Finished(e)' /\ (UnderWay(e)' => UnderWay(e))
  BY <1>1, <1>2 DEF Finished, UnderWay
<1>. QED
  BY <1>1, <1>2, <1>3, StepOfEditor

LEMMA LoadsKeeps ==
    ASSUME IInv, NEW e \in Editors, EditorLoads(e), Overtakes, UNCHANGED faults PROVE IInv'
<1>1. UNCHANGED <<file, stable, temp, server>> /\ editor[e].pc = "load" /\ file.whole
  BY DEF EditorLoads, IInv
<1>2. /\ editor[e].change \in Changes /\ file.inv \in Inv
      /\ Applies(editor[e].change, file.inv) \in Inv
  BY AppliesFacts, LoadedInv DEF IInv, TypeOK
<1>3. "create" \in EditorPcs
  BY DEF EditorPcs
<1>4. /\ editor' \in [Editors -> Editor] /\ \A d \in Editors \ {e} : editor'[d] = editor[d]
      /\ editor'[e].pc = "create" /\ editor'[e].change = editor[e].change
      /\ editor'[e].inv = Applies(editor[e].change, file.inv)
  BY <1>1, <1>2, <1>3 DEF EditorLoads, IInv, TypeOK, Editor
<1>5. Finished(e)'
  BY <1>4 DEF Finished
<1>. QED
  BY <1>1, <1>4, <1>5, StepOfEditor DEF IInv, TypeOK

LEMMA CreatesTempKeeps ==
    ASSUME IInv, NEW e \in Editors, CreatesTemp(e), Overtakes, UNCHANGED faults PROVE IInv'
<1>1. /\ UNCHANGED <<file, stable, server>> /\ editor[e].pc = "create" /\ UnderWay(e)
      /\ Torn \in Contents /\ temp[e] \in Contents /\ temp = [temp EXCEPT ![e] = temp[e]]
  BY DEF CreatesTemp, UnderWay, Contents, IInv, TypeOK
<1>2. CASE temp' = [temp EXCEPT ![e] = Torn] /\ EditorGoes(e, "write")
  <2>1. PICK t \in Contents : t = Torn
    BY <1>1
  <2>2. temp' = [temp EXCEPT ![e] = t]
    BY <1>2, <2>1
  <2>3. "write" \in EditorPcs \ {"saved"} /\ EditorGoes(e, "write")
    BY <1>2 DEF EditorPcs
  <2>. QED
    BY <1>1, <2>2, <2>3, KeepsWhenGoing
<1>3. CASE EditorGoes(e, "failed") /\ UNCHANGED temp
  BY <1>1, <1>3, KeepsWhenGoing DEF EditorPcs
<1>. QED
  BY <1>2, <1>3 DEF CreatesTemp

LEMMA EncodesKeeps ==
    ASSUME IInv, NEW e \in Editors, Encodes(e), Overtakes, UNCHANGED faults PROVE IInv'
<1>1. /\ UNCHANGED <<file, stable, server>> /\ editor[e].pc = "write" /\ UnderWay(e)
      /\ Torn \in Contents /\ Content(editor[e].inv) \in Contents
  BY DEF Encodes, UnderWay, Contents, Content, IInv, TypeOK
<1>2. CASE temp' = [temp EXCEPT ![e] = Content(editor[e].inv)] /\ EditorGoes(e, "sync")
  BY <1>1, <1>2, KeepsWhenGoing DEF EditorPcs
<1>3. CASE temp' = [temp EXCEPT ![e] = Torn] /\ EditorGoes(e, "failed")
  <2>1. PICK t \in Contents : t = Torn
    BY <1>1
  <2>2. temp' = [temp EXCEPT ![e] = t]
    BY <1>3, <2>1
  <2>3. "failed" \in EditorPcs \ {"saved"} /\ EditorGoes(e, "failed")
    BY <1>3 DEF EditorPcs
  <2>. QED
    BY <1>1, <2>2, <2>3, KeepsWhenGoing
<1>. QED
  BY <1>2, <1>3 DEF Encodes

LEMMA SyncsKeeps ==
    ASSUME IInv, NEW e \in Editors, Syncs(e), Overtakes, UNCHANGED faults PROVE IInv'
<1>1. /\ UNCHANGED <<file, stable, temp, server>> /\ editor[e].pc = "sync" /\ UnderWay(e)
      /\ temp[e] \in Contents /\ temp = [temp EXCEPT ![e] = temp[e]]
      /\ temp[e] = Content(editor[e].inv)
  BY DEF Syncs, UnderWay, IInv, TypeOK, Finished
<1>2. PICK pc \in {"rename", "failed"} : EditorGoes(e, pc)
  BY DEF Syncs
<1>. QED
  BY <1>1, <1>2, KeepsWhenGoing DEF EditorPcs

LEMMA EditorCrashesKeeps ==
    ASSUME IInv, NEW e \in Editors, EditorCrashes(e), Overtakes, UNCHANGED faults PROVE IInv'
<1>1. /\ UNCHANGED <<file, stable, temp, server>> /\ editor[e].pc # "saved"
      /\ temp[e] \in Contents /\ temp = [temp EXCEPT ![e] = temp[e]]
  BY DEF EditorCrashes, IInv, TypeOK
<1>. QED
  BY <1>1, KeepsWhenGoing DEF EditorCrashes, EditorPcs

LEMMA RenamesKeeps ==
    ASSUME IInv, NEW e \in Editors, Renames(e), Overtakes, UNCHANGED faults PROVE IInv'
<1>1. /\ UNCHANGED <<stable, temp, server>> /\ editor[e].pc = "rename" /\ UnderWay(e)
      /\ temp[e] \in Contents /\ temp = [temp EXCEPT ![e] = temp[e]]
      /\ temp[e] = Content(editor[e].inv)
  BY DEF Renames, UnderWay, IInv, TypeOK, Finished
<1>2. CASE EditorGoes(e, "failed") /\ UNCHANGED file
  BY <1>1, <1>2, KeepsWhenGoing DEF EditorPcs
<1>3. CASE file' = temp[e] /\ EditorGoes(e, "saved")
  <2>1. /\ editor' \in [Editors -> Editor]
        /\ \A d \in Editors \ {e} : editor'[d] = editor[d]
        /\ editor'[e].pc = "saved" /\ editor'[e].change = editor[e].change
        /\ editor'[e].inv = editor[e].inv
    BY <1>3, GoesOn DEF IInv, EditorPcs
  <2>2. file' \in Contents /\ file'.whole /\ file'.inv = editor[e].inv
    BY <1>1, <1>3 DEF Content
  <2>3. behind \subseteq behind' /\ behind' \subseteq Editors \X Editors
    BY Overtaken DEF IInv
  <2>4. TypeOK'
    BY <1>1, <2>1, <2>2, <2>3 DEF IInv, TypeOK, Editor
  <2>5. ASSUME NEW d \in Editors PROVE Finished(d)' /\ Intended(d)'
    <3>1. CASE d = e
      BY <2>1, <3>1 DEF Finished, Intended, UnderWay
    <3>2. CASE d # e
      <4>1. editor'[d] = editor[d] /\ temp'[d] = temp[d]
        BY <1>1, <2>1, <3>2
      <4>. QED
        BY <4>1 DEF IInv, Finished, Intended, UnderWay
    <3>. QED
      BY <3>1, <3>2
  <2>6. ASSUME "power" \notin faults, NEW f \in Editors, NEW a \in Touches(editor'[f].change),
               Kept(f, a)'
        PROVE  Agrees(f, a)'
    <3>1. CASE f = e
      <4>1. file'.inv[a] = editor'[f].change[a]
        BY <1>1, <2>1, <2>2, <2>6, <3>1 DEF IInv, Intended
      <4>2. ASSUME NEW g \in Editors \ {f}, UnderWay(g)' PROVE <<g, f>> \in behind'
        <5>1. UnderWay(g) /\ editor'[e].pc = "saved"
          BY <2>1, <3>1, <4>2 DEF UnderWay
        <5>. QED
          BY <1>1, <3>1, <5>1, Overtaken DEF IInv
      <4>. QED
        BY <4>1, <4>2 DEF Agrees
    <3>2. CASE f # e
      <4>1. /\ editor'[f] = editor[f] /\ a \in Touches(editor[f].change)
            /\ a \notin Touches(editor[e].change) /\ <<e, f>> \notin behind
        BY <2>1, <2>3, <2>6, <3>2 DEF Kept
      <4>2. Kept(f, a)
        <5>1. ASSUME NEW g \in Editors \ {f}, editor[g].pc = "saved"
              PROVE  a \notin Touches(editor[g].change) /\ <<g, f>> \notin behind
          <6>1. editor'[g] = editor[g]
            BY <1>1, <2>1, <5>1
          <6>. QED
            BY <2>3, <2>6, <5>1, <6>1 DEF Kept
        <5>. QED
          BY <2>6, <4>1, <5>1 DEF Kept
      <4>3. Agrees(f, a)
        BY <2>6, <4>1, <4>2 DEF IInv
      <4>4. file'.inv[a] = editor[f].change[a]
        BY <1>1, <2>2, <3>2, <4>1, <4>3 DEF Agrees
      <4>5. ASSUME NEW g \in Editors \ {f}, UnderWay(g)',
                   a \notin Touches(editor'[g].change), <<g, f>> \notin behind'
            PROVE  editor'[g].inv[a] = editor[f].change[a]
        <5>1. g # e
          BY <2>1, <4>5 DEF UnderWay
        <5>2. editor'[g] = editor[g]
          BY <2>1, <5>1
        <5>. QED
          BY <2>3, <4>3, <4>5, <5>2 DEF Agrees, UnderWay
      <4>. QED
        BY <4>1, <4>4, <4>5 DEF Agrees
    <3>. QED
      BY <3>1, <3>2
  <2>. QED
    BY <1>1, <2>2, <2>4, <2>5, <2>6 DEF IInv
<1>. QED
  BY <1>2, <1>3 DEF Renames

\* A step of a server or of the kernel, which no editor takes part in.
LEMMA OtherSteps ==
    ASSUME IInv, UNCHANGED <<file, editor, temp, faults>>, Overtakes,
           stable' \in {stable, file},
           server' \in [Servers -> Server]
    PROVE  IInv'
<1>1. behind \subseteq behind' /\ behind' \subseteq Editors \X Editors
  BY Overtaken DEF IInv
<1>2. TypeOK' /\ file'.whole /\ stable'.whole
  BY <1>1 DEF IInv, TypeOK, Server
<1>3. ASSUME NEW d \in Editors PROVE Finished(d)' /\ Intended(d)'
  BY DEF IInv, Finished, Intended, UnderWay
<1>4. ASSUME "power" \notin faults, NEW f \in Editors, NEW a \in Touches(editor[f].change),
             Kept(f, a)'
      PROVE  Agrees(f, a)'
  <2>1. Kept(f, a)
    BY <1>1, <1>4 DEF Kept
  <2>. QED
    BY <1>1, <1>4, <2>1 DEF IInv, Agrees, UnderWay
<1>. QED
  BY <1>2, <1>3, <1>4 DEF IInv

LEMMA ServerKeeps ==
    ASSUME IInv, NEW s \in Servers, ServerStarts(s) \/ ReloadStarts(s) \/ ReloadReports(s),
           Overtakes, UNCHANGED faults
    PROVE  IInv'
<1>1. Empty \in Inv /\ file.inv \in Inv
  BY LoadedInv DEF IInv, TypeOK, Empty, Inv
<1>2. server' \in [Servers -> Server]
  <2>1. CASE ServerStarts(s)
    BY <1>1, <2>1 DEF ServerStarts, IInv, TypeOK, Server
  <2>2. CASE ReloadStarts(s) \/ ReloadReports(s)
    BY <2>2, SMTT(30) DEF ReloadStarts, ReloadReports, IInv, TypeOK, Server
  <2>. QED
    BY <2>1, <2>2
<1>3. UNCHANGED <<file, stable, editor, temp>>
  BY DEF ServerStarts, ReloadStarts, ReloadReports
<1>. QED
  BY <1>2, <1>3, OtherSteps

LEMMA PowerFailsKeeps ==
    ASSUME IInv, PowerFails, Overtakes, UNCHANGED faults PROVE IInv'
<1>. DEFINE Died(r) == [r EXCEPT !.pc = "crashed"]
<1>1. /\ file' = stable /\ UNCHANGED <<stable, temp>> /\ "power" \in faults
      /\ editor' = [e \in Editors |->
              IF editor[e].pc \in {"load", "saved", "failed"} THEN editor[e]
              ELSE Died(editor[e])]
      /\ server' = [s \in Servers |-> [server[s] EXCEPT !.pc = "off"]]
  BY DEF PowerFails
<1>2. /\ editor' \in [Editors -> Editor]
      /\ \A e \in Editors : editor'[e].pc \in {"load", "saved", "failed", "crashed"}
  <2>1. \A r \in Editor : Died(r) \in Editor /\ Died(r).pc = "crashed"
    BY DEF Editor, EditorPcs
  <2>2. \A e \in Editors : editor[e] \in Editor
    BY DEF IInv, TypeOK, Editor
  <2>. HIDE DEF Died
  <2>. QED
    BY <1>1, <2>1, <2>2
<1>3. server' \in [Servers -> Server]
  BY <1>1 DEF IInv, TypeOK, Server
<1>4. TypeOK'
  BY <1>1, <1>2, <1>3, Overtaken DEF IInv, TypeOK, Editor, Server
<1>5. \A e \in Editors : Finished(e)' /\ Intended(e)'
  BY <1>2 DEF Finished, Intended, UnderWay
<1>. QED
  BY <1>1, <1>4, <1>5 DEF IInv

LEMMA NextIInv == IInv /\ [Next]_vars => IInv'
<1>1. ASSUME IInv, NEW e \in Editors, Overtakes, UNCHANGED faults,
             EditorLoads(e) \/ CreatesTemp(e) \/ Encodes(e) \/ Syncs(e) \/ Renames(e)
             \/ EditorCrashes(e)
      PROVE  IInv'
  BY <1>1, LoadsKeeps, CreatesTempKeeps, EncodesKeeps, SyncsKeeps, RenamesKeeps,
     EditorCrashesKeeps
<1>2. ASSUME IInv, DirectoryWritten, Overtakes, UNCHANGED faults PROVE IInv'
  BY <1>2, OtherSteps DEF DirectoryWritten, IInv, TypeOK, Server
<1>3. ASSUME IInv, UNCHANGED vars PROVE IInv'
  <2>1. UNCHANGED <<file, stable, editor, temp, server, behind, faults>>
    BY <1>3 DEF vars
  <2>2. TypeOK'
    BY <1>3, <2>1 DEF IInv, TypeOK
  <2>3. \A e \in Editors : Finished(e)' /\ Intended(e)'
    BY <1>3, <2>1 DEF IInv, Finished, Intended, UnderWay
  <2>4. \A e \in Editors : \A a : (Kept(e, a)' <=> Kept(e, a)) /\ (Agrees(e, a)' <=> Agrees(e, a))
    BY <2>1 DEF Kept, Agrees, UnderWay
  <2>. QED
    BY <1>3, <2>1, <2>2, <2>3, <2>4 DEF IInv
<1>. QED
  BY <1>1, <1>2, <1>3, ServerKeeps, PowerFailsKeeps DEF Next, Step

LEMMA Inductive == Spec => []IInv
BY InitIInv, NextIInv, PTL DEF Spec

-----------------------------------------------------------------------------
(* Inventory: theorems *)

\* Config.Save keeps hosts.toml loadable for any number of editors that crash, fail or
\* lose their power between any two of its steps: no process and no power failure ever
\* leaves a torn inventory behind; and the state is well typed.
THEOREM AlwaysLoadable == Spec => []InventoryLoadable
<1>1. IInv => InventoryLoadable
  BY DEF IInv, InventoryLoadable
<1>. QED
  BY <1>1, Inductive, PTL

\* "saved host" can be believed, for any number of editors: what undoes a change, short
\* of a later edit of the same alias, is an edit that had loaded the file before.
THEOREM SavedStays == Spec => []SavedHostStays
<1>1. IInv => SavedHostStays
  BY DEF IInv, SavedHostStays, Kept, Agrees
<1>. QED
  BY <1>1, Inductive, PTL

-----------------------------------------------------------------------------
(* Induction *)

\* Induction, for a property that is given as the set of numbers that have it.
LEMMA NatInduct ==
    ASSUME NEW S, 0 \in S, \A n \in Nat : n \in S => n + 1 \in S
    PROVE  Nat \subseteq S
<1>. DEFINE R == OpToRel(<, Nat)
            bad == Nat \ S
<1>. SUFFICES ASSUME bad # {} PROVE FALSE
  OBVIOUS
<1>1. PICK n \in bad : \A m \in bad : ~(<<m, n>> \in R)
  <2>1. bad \subseteq Nat
    OBVIOUS
  <2>. QED
    BY <2>1, NatLessThanWellFounded, WFMin
<1>2. n \in Nat /\ n # 0 /\ n - 1 \in Nat /\ n - 1 < n
  OBVIOUS
<1>3. n - 1 \in S
  BY <1>1, <1>2 DEF OpToRel
<1>4. (n - 1) + 1 \in S
  BY <1>2, <1>3
<1>. QED
  BY <1>2, <1>4

-----------------------------------------------------------------------------
(* JumpHosts: the loop *)

LEMMA RoundsAre ==
    ASSUME NEW list \in Seq(Jumps!Names), NEW h
    PROVE  Jumps!Rounds(list, h) = [i \in 0..Len(list) |->
               IF i = 0 THEN Jumps!Hops(<< >>)
               ELSE Jumps!Appends(Jumps!Rounds(list, h)[i - 1], list[i], h[list[i]])]
<1>. DEFINE Round(r, i) == IF i = 0 THEN Jumps!Hops(<< >>)
                          ELSE Jumps!Appends(r[i - 1], list[i], h[list[i]])
            Known(n) == \E r : r = [i \in 0..n |-> Round(r, i)]
            S == {n \in Nat : Known(n)}
<1>1. 0 \in S
  <2>. DEFINE r == [i \in 0..0 |-> Round(<< >>, 0)]
  <2>1. r = [i \in 0..0 |-> Round(r, i)]
    OBVIOUS
  <2>. QED
    BY <2>1
<1>2. ASSUME NEW n \in Nat, n \in S PROVE n + 1 \in S
  <2>1. PICK r : r = [i \in 0..n |-> Round(r, i)]
    BY <1>2
  <2>. DEFINE q == [i \in 0..(n + 1) |-> IF i \in 0..n THEN r[i] ELSE Round(r, i)]
  <2>2. \A i \in 0..(n + 1) : i # 0 => i - 1 \in 0..n /\ q[i - 1] = r[i - 1]
    OBVIOUS
  <2>3. \A i \in 0..(n + 1) : Round(q, i) = Round(r, i)
    BY <2>2
  <2>4. \A i \in 0..n : r[i] = Round(r, i)
    BY <2>1
  <2>5. q = [i \in 0..(n + 1) |-> Round(q, i)]
    BY <2>3, <2>4
  <2>. HIDE DEF Round, q
  <2>6. Known(n + 1) /\ n + 1 \in Nat
    BY <2>5
  <2>. QED
    BY <2>6
<1>3. Len(list) \in Nat
  OBVIOUS
<1>4. Known(Len(list))
  BY <1>1, <1>2, <1>3, NatInduct
<1>. QED
  BY <1>4 DEF Jumps!Rounds

-----------------------------------------------------------------------------
(* JumpHosts: resolve *)

\* The equation of Resolve, on stacks of any depth.
LEMMA ResolvesAre ==
    ASSUME IsFiniteSet(Jumps!Known)
    PROVE  Jumps!ResolvesFrom = [stack \in SUBSET Jumps!Known |->
               [a \in Jumps!Names |->
                   IF a \in stack THEN Jumps!Failed("cycle")
                   ELSE IF a \notin Jumps!Known THEN Jumps!Failed("missing")
                   ELSE Jumps!Flatten(via[a], Jumps!ResolvesFrom[stack \cup {a}])]]
<1>. DEFINE K == Jumps!Known
            Round(r, stack) == [a \in Jumps!Names |->
                IF a \in stack THEN Jumps!Failed("cycle")
                ELSE IF a \notin K THEN Jumps!Failed("missing")
                ELSE Jumps!Flatten(via[a], r[stack \cup {a}])]
            D(n) == {stack \in SUBSET K : Cardinality(K \ stack) <= n}
            Exists(n) == \E r : r = [stack \in D(n) |-> Round(r, stack)]
            S == {n \in Nat : Exists(n)}
<1>1. ASSUME NEW stack \in SUBSET K, NEW a \in K, a \notin stack
      PROVE  /\ stack \cup {a} \in SUBSET K
             /\ Cardinality(K \ stack) \in Nat /\ Cardinality(K \ (stack \cup {a})) \in Nat
             /\ Cardinality(K \ (stack \cup {a})) = Cardinality(K \ stack) - 1
  <2>1. IsFiniteSet(K \ stack) /\ IsFiniteSet(K \ (stack \cup {a}))
    BY FS_Subset
  <2>2. K \ stack = (K \ (stack \cup {a})) \cup {a}
    BY <1>1
  <2>3. Cardinality(K \ stack) = Cardinality(K \ (stack \cup {a})) + 1
    BY <2>1, <2>2, FS_AddElement
  <2>. QED
    BY <1>1, <2>1, <2>3, FS_CardinalityType
<1>2. ASSUME NEW n \in Nat, NEW stack \in D(n), NEW a \in K, a \notin stack
      PROVE  n # 0 /\ stack \cup {a} \in D(n - 1)
  BY <1>1, <1>2
<1>3. 0 \in S
  <2>. DEFINE r == [stack \in D(0) |-> Round(<< >>, stack)]
  <2>1. \A stack \in D(0) : \A a \in K : a \in stack
    BY <1>2
  <2>2. \A stack \in D(0) : Round(<< >>, stack) = Round(r, stack)
    BY <2>1
  <2>3. r = [stack \in D(0) |-> Round(r, stack)]
    BY <2>2
  <2>. HIDE DEF Round, r, D
  <2>. QED
    BY <2>3
<1>4. ASSUME NEW n \in Nat, n \in S PROVE n + 1 \in S
  <2>1. PICK r : r = [stack \in D(n) |-> Round(r, stack)]
    BY <1>4
  <2>. DEFINE q == [stack \in D(n + 1) |-> IF stack \in D(n) THEN r[stack] ELSE Round(r, stack)]
  <2>2. ASSUME NEW stack \in D(n + 1), NEW a \in K, a \notin stack
        PROVE  q[stack \cup {a}] = r[stack \cup {a}]
    <3>1. stack \cup {a} \in D(n + 1) /\ stack \cup {a} \in D(n)
      BY <1>1, <1>2, <2>2
    <3>. HIDE DEF D
    <3>. QED
      BY <3>1
  <2>3. \A stack \in D(n + 1) : Round(q, stack) = Round(r, stack)
    <3>. HIDE DEF q, D
    <3>. QED
      BY <2>2
  <2>4. \A stack \in D(n) : r[stack] = Round(r, stack)
    <3>. HIDE DEF Round, D
    <3>. QED
      BY <2>1
  <2>5. q = [stack \in D(n + 1) |-> Round(q, stack)]
    <3>. HIDE DEF Round, D
    <3>. QED
      BY <2>3, <2>4
  <2>. HIDE DEF Round, q, D
  <2>6. Exists(n + 1) /\ n + 1 \in Nat
    BY <2>5
  <2>. QED
    BY <2>6
<1>5. Cardinality(K) \in Nat /\ SUBSET K = D(Cardinality(K))
  <2>1. \A stack \in SUBSET K : IsFiniteSet(K \ stack) /\ Cardinality(K \ stack) <= Cardinality(K)
    BY FS_Subset
  <2>. QED
    BY <2>1, FS_CardinalityType
<1>6. Exists(Cardinality(K))
  <2>. HIDE DEF Exists
  <2>. QED
    BY <1>3, <1>4, <1>5, NatInduct
<1>7. \E r : r = [stack \in SUBSET K |-> Round(r, stack)]
  <2>. HIDE DEF Round, D
  <2>. QED
    BY <1>5, <1>6
<1>. QED
  BY <1>7 DEF Jumps!ResolvesFrom

\* What resolve returns: an error, or hops.
Results ==
    {Jumps!Failed("cycle"), Jumps!Failed("missing")} \cup {Jumps!Hops(hs) : hs \in Seq(Jumps!Names)}

LEMMA ResultFields ==
    /\ \A r \in Results : r.ok \in BOOLEAN /\ r.hops \in Seq(Jumps!Names)
    /\ \A r \in Results : r.ok => r = Jumps!Hops(r.hops)
    /\ \A hs \in Seq(Jumps!Names) :
          Jumps!Hops(hs) \in Results /\ Jumps!Hops(hs).ok /\ Jumps!Hops(hs).hops = hs
    /\ Jumps!Failed("cycle") \in Results /\ ~Jumps!Failed("cycle").ok
    /\ Jumps!Failed("missing") \in Results /\ ~Jumps!Failed("missing").ok
<1>1. << >> \in Seq(Jumps!Names)
  OBVIOUS
<1>2. \A hs : Jumps!Hops(hs).ok /\ Jumps!Hops(hs).hops = hs
  BY DEF Jumps!Hops
<1>3. \A why : Jumps!Failed(why).ok = FALSE /\ Jumps!Failed(why).hops = << >>
  BY DEF Jumps!Failed
<1>4. ASSUME NEW r \in Results
      PROVE  /\ r.ok \in BOOLEAN /\ r.hops \in Seq(Jumps!Names)
             /\ r.ok => r = Jumps!Hops(r.hops)
  <2>1. CASE r = Jumps!Failed("cycle") \/ r = Jumps!Failed("missing")
    BY <1>1, <1>3, <2>1
  <2>2. CASE \E hs \in Seq(Jumps!Names) : r = Jumps!Hops(hs)
    <3>1. PICK hs \in Seq(Jumps!Names) : r = Jumps!Hops(hs)
      BY <2>2
    <3>2. r.ok = TRUE
      BY <3>1 DEF Jumps!Hops
    <3>3. r.hops = hs
      BY <1>2, <3>1
    <3>. QED
      BY <3>1, <3>2, <3>3
  <2>. QED
    BY <2>1, <2>2 DEF Results
<1>. QED
  BY <1>2, <1>3, <1>4 DEF Results

LEMMA HopsGive ==
    ASSUME NEW r, NEW hs \in Seq(Jumps!Names), r = Jumps!Hops(hs)
    PROVE  r \in Results /\ r.ok /\ r.hops = hs
BY ResultFields

LEMMA RoundAt ==
    ASSUME NEW list \in Seq(Jumps!Names), NEW h
    PROVE  /\ Jumps!Rounds(list, h)[0] = Jumps!Hops(<< >>)
           /\ \A i \in 1..Len(list) :
                 Jumps!Rounds(list, h)[i]
                     = Jumps!Appends(Jumps!Rounds(list, h)[i - 1], list[i], h[list[i]])
<1>. DEFINE r == Jumps!Rounds(list, h)
<1>1. r = [i \in 0..Len(list) |->
              IF i = 0 THEN Jumps!Hops(<< >>) ELSE Jumps!Appends(r[i - 1], list[i], h[list[i]])]
  BY RoundsAre
<1>. HIDE DEF r
<1>2. r[0] = Jumps!Hops(<< >>)
  <2>1. 0 \in 0..Len(list)
    OBVIOUS
  <2>. QED
    BY <1>1, <2>1
<1>3. ASSUME NEW i \in 1..Len(list)
      PROVE  r[i] = Jumps!Appends(r[i - 1], list[i], h[list[i]])
  <2>1. i \in 0..Len(list) /\ i # 0
    OBVIOUS
  <2>. QED
    BY <1>1, <2>1
<1>. QED
  BY <1>2, <1>3 DEF r

\* A list of hosts is flattened when each of them is.
LEMMA FlattenIs ==
    ASSUME NEW list \in Seq(Jumps!Names), NEW h \in [Jumps!Names -> Results]
    PROVE  /\ Jumps!Flatten(list, h) \in Results
           /\ Jumps!Flatten(list, h).ok <=> \A i \in 1..Len(list) : h[list[i]].ok
<1>. DEFINE r == Jumps!Rounds(list, h)
            Good(n) == r[n] \in Results /\ (r[n].ok <=> \A i \in 1..n : h[list[i]].ok)
            S == {n \in Nat : n <= Len(list) => Good(n)}
<1>1. 0 \in S
  <2>1. << >> \in Seq(Jumps!Names)
    OBVIOUS
  <2>2. r[0] = Jumps!Hops(<< >>)
    BY RoundAt
  <2>3. r[0] \in Results /\ r[0].ok
    BY <2>1, <2>2, ResultFields
  <2>. HIDE DEF r
  <2>. QED
    BY <2>3
<1>2. ASSUME NEW n \in Nat, n \in S PROVE n + 1 \in S
  <2>. SUFFICES ASSUME n + 1 <= Len(list) PROVE Good(n + 1)
    OBVIOUS
  <2>1. Good(n) /\ n + 1 \in 1..Len(list) /\ (n + 1) - 1 = n
    BY <1>2
  <2>2. r[n + 1] = Jumps!Appends(r[n], list[n + 1], h[list[n + 1]])
    BY <2>1, RoundAt
  <2>3. list[n + 1] \in Jumps!Names /\ h[list[n + 1]] \in Results
    BY <2>1
  <2>. HIDE DEF r
  <2>4. (\A i \in 1..(n + 1) : h[list[i]].ok) <=> (\A i \in 1..n : h[list[i]].ok) /\ h[list[n + 1]].ok
    OBVIOUS
  <2>5. r[n].hops \o h[list[n + 1]].hops \o <<list[n + 1]>> \in Seq(Jumps!Names)
    BY <2>1, <2>3, ResultFields
  <2>6. CASE r[n].ok /\ h[list[n + 1]].ok
    <3>1. r[n + 1] = Jumps!Hops(r[n].hops \o h[list[n + 1]].hops \o <<list[n + 1]>>)
      BY <2>2, <2>6 DEF Jumps!Appends
    <3>2. r[n + 1] \in Results /\ r[n + 1].ok
      BY <2>5, <3>1, ResultFields
    <3>. QED
      BY <2>1, <2>4, <2>6, <3>2
  <2>7. CASE ~r[n].ok
    <3>1. r[n + 1] = r[n]
      BY <2>2, <2>7 DEF Jumps!Appends
    <3>. QED
      BY <2>1, <2>4, <2>7, <3>1
  <2>8. CASE r[n].ok /\ ~h[list[n + 1]].ok
    <3>1. r[n + 1] = h[list[n + 1]]
      BY <2>2, <2>8 DEF Jumps!Appends
    <3>. QED
      BY <2>3, <2>4, <2>8, <3>1
  <2>. QED
    BY <2>6, <2>7, <2>8
<1>3. Len(list) \in Nat
  OBVIOUS
<1>4. Good(Len(list))
  <2>. HIDE DEF Good
  <2>1. Nat \subseteq S
    BY <1>1, <1>2, NatInduct
  <2>. QED
    BY <1>3, <2>1
<1>. QED
  BY <1>4 DEF Jumps!Flatten

LEMMA FlattenSame ==
    ASSUME NEW list \in Seq(Jumps!Names), NEW h, NEW g,
           \A i \in 1..Len(list) : h[list[i]] = g[list[i]]
    PROVE  Jumps!Flatten(list, h) = Jumps!Flatten(list, g)
<1>. DEFINE r == Jumps!Rounds(list, h)
            q == Jumps!Rounds(list, g)
            S == {n \in Nat : n <= Len(list) => r[n] = q[n]}
<1>1. 0 \in S
  BY RoundAt
<1>2. ASSUME NEW n \in Nat, n \in S PROVE n + 1 \in S
  <2>. SUFFICES ASSUME n + 1 <= Len(list) PROVE r[n + 1] = q[n + 1]
    OBVIOUS
  <2>1. r[n] = q[n] /\ n + 1 \in 1..Len(list) /\ (n + 1) - 1 = n
    BY <1>2
  <2>2. r[n + 1] = Jumps!Appends(r[n], list[n + 1], h[list[n + 1]])
    BY <2>1, RoundAt
  <2>3. q[n + 1] = Jumps!Appends(q[n], list[n + 1], g[list[n + 1]])
    BY <2>1, RoundAt
  <2>. QED
    BY <2>1, <2>2, <2>3
<1>3. Len(list) \in Nat
  OBVIOUS
<1>4. r[Len(list)] = q[Len(list)]
  <2>. HIDE DEF r, q
  <2>1. Nat \subseteq S
    BY <1>1, <1>2, NatInduct
  <2>. QED
    BY <1>3, <2>1
<1>. QED
  BY <1>4 DEF Jumps!Flatten

-----------------------------------------------------------------------------
(* JumpHosts: what a host needs *)

Reached(a) == {a} \cup Jumps!Needed(a)

LEMMA NeededIs ==
    ASSUME Jumps!TypeOK, NEW a \in Jumps!Names
    PROVE  /\ Jumps!JumpsTo(a) \subseteq Jumps!Needed(a) /\ Jumps!Needed(a) \subseteq Jumps!Names
           /\ Jumps!Closed(Jumps!Needed(a))
           /\ \A b \in Jumps!Needed(a) : Jumps!Needed(b) \subseteq Jumps!Needed(a)
           /\ Jumps!Needed(a) = UNION {Reached(b) : b \in Jumps!JumpsTo(a)}
<1>1. \A b : Jumps!JumpsTo(b) \subseteq Jumps!Names
  BY DEF Jumps!JumpsTo, Jumps!TypeOK, Jumps!ToSet, Jumps!ViaLists, Jumps!BoundedSeq, Jumps!SeqOf
<1>2. ASSUME NEW b \in Jumps!Names
      PROVE  /\ Jumps!JumpsTo(b) \subseteq Jumps!Needed(b) /\ Jumps!Needed(b) \subseteq Jumps!Names
             /\ Jumps!Closed(Jumps!Needed(b))
  BY <1>1 DEF Jumps!Needed, Jumps!Closed
<1>3. ASSUME NEW S \in SUBSET Jumps!Names, NEW b \in Jumps!Names,
             Jumps!JumpsTo(b) \subseteq S, Jumps!Closed(S)
      PROVE  Jumps!Needed(b) \subseteq S
  BY <1>3 DEF Jumps!Needed
<1>4. ASSUME NEW b \in Jumps!Needed(a) PROVE Jumps!Needed(b) \subseteq Jumps!Needed(a)
  BY <1>2, <1>3 DEF Jumps!Closed
<1>. DEFINE U == UNION {Reached(b) : b \in Jumps!JumpsTo(a)}
<1>5. U \subseteq Jumps!Needed(a)
  BY <1>2, <1>4 DEF Reached
<1>6. Jumps!Needed(a) \subseteq U
  <2>1. Jumps!JumpsTo(a) \subseteq U /\ U \subseteq Jumps!Names
    BY <1>2, <1>5 DEF Reached
  <2>2. ASSUME NEW c \in U PROVE Jumps!JumpsTo(c) \subseteq U
    <3>1. PICK b \in Jumps!JumpsTo(a) : c \in Reached(b)
      OBVIOUS
    <3>2. b \in Jumps!Names
      BY <1>1
    <3>3. Jumps!JumpsTo(c) \subseteq Jumps!Needed(b)
      BY <1>2, <3>1, <3>2 DEF Reached, Jumps!Closed
    <3>. QED
      BY <3>1, <3>3 DEF Reached
  <2>3. Jumps!Closed(U)
    BY <2>2 DEF Jumps!Closed
  <2>. HIDE DEF U
  <2>. QED
    BY <1>3, <2>1, <2>3
<1>. QED
  BY <1>2, <1>4, <1>5, <1>6

-----------------------------------------------------------------------------
(* JumpHosts: which hosts can be resolved *)

\* Nothing that a needs, nor a, is missing or needs itself.
Sound(a) == \A b \in Reached(a) : b \in Jumps!Known /\ b \notin Jumps!Needed(b)

\* What is left to be put on the stack.
Left(stack) == Cardinality(Jumps!Known \ stack)

LEMMA LeftFalls ==
    ASSUME IsFiniteSet(Jumps!Known), NEW stack \in SUBSET Jumps!Known
    PROVE  /\ Left(stack) \in Nat
           /\ \A a \in Jumps!Known \ stack :
                 stack \cup {a} \in SUBSET Jumps!Known /\ Left(stack \cup {a}) = Left(stack) - 1
<1>1. ASSUME NEW a \in Jumps!Known \ stack PROVE Left(stack \cup {a}) = Left(stack) - 1
  <2>1. IsFiniteSet(Jumps!Known \ (stack \cup {a}))
    BY FS_Subset
  <2>2. Jumps!Known \ stack = (Jumps!Known \ (stack \cup {a})) \cup {a}
    OBVIOUS
  <2>3. Left(stack) = Left(stack \cup {a}) + 1
    BY <2>1, <2>2, FS_AddElement DEF Left
  <2>. QED
    BY <2>1, <2>3, FS_CardinalityType DEF Left
<1>. QED
  BY <1>1, FS_Subset, FS_CardinalityType DEF Left

LEMMA ViaTyped ==
    ASSUME Jumps!TypeOK, NEW a \in Jumps!Known
    PROVE  via[a] \in Seq(Jumps!Names) /\ Jumps!JumpsTo(a) = {via[a][i] : i \in 1..Len(via[a])}
<1>1. PICK n \in Nat : via[a] \in [1..n -> Jumps!Names]
  <2>1. via[a] \in Jumps!ViaLists
    BY DEF Jumps!TypeOK
  <2>. QED
    BY <2>1, ConfigurationAssumption
       DEF Jumps!ViaLists, Jumps!BoundedSeq, Jumps!SeqOf, Jumps!JumpHostsAssumption
<1>2. via[a] \in Seq(Jumps!Names)
  BY <1>1
<1>. QED
  BY <1>2 DEF Jumps!JumpsTo, Jumps!ToSet

\* The equation of Resolve for one host.
LEMMA ResolveOf ==
    ASSUME Jumps!TypeOK, IsFiniteSet(Jumps!Known), NEW stack \in SUBSET Jumps!Known
    PROVE  \A a \in Jumps!Names :
              Jumps!ResolvesFrom[stack][a] =
                  IF a \in stack THEN Jumps!Failed("cycle")
                  ELSE IF a \notin Jumps!Known THEN Jumps!Failed("missing")
                  ELSE Jumps!Flatten(via[a], Jumps!ResolvesFrom[stack \cup {a}])
<1>1. Jumps!ResolvesFrom[stack] =
          [a \in Jumps!Names |->
              IF a \in stack THEN Jumps!Failed("cycle")
              ELSE IF a \notin Jumps!Known THEN Jumps!Failed("missing")
              ELSE Jumps!Flatten(via[a], Jumps!ResolvesFrom[stack \cup {a}])]
  BY ResolvesAre
<1>. QED
  BY <1>1

\* A host is resolved when it is sound and needs nothing that is on the stack.
LEMMA ResolvedWhenSound ==
    ASSUME Jumps!TypeOK, IsFiniteSet(Jumps!Known)
    PROVE  \A stack \in SUBSET Jumps!Known :
              /\ Jumps!ResolvesFrom[stack] \in [Jumps!Names -> Results]
              /\ \A a \in Jumps!Names : Jumps!ResolvesFrom[stack][a].ok <=>
                    Sound(a) /\ Reached(a) \cap stack = {}
<1>. DEFINE R == Jumps!ResolvesFrom
            Right(stack) == /\ R[stack] \in [Jumps!Names -> Results]
                            /\ \A a \in Jumps!Names :
                                  R[stack][a].ok <=> Sound(a) /\ Reached(a) \cap stack = {}
            S == {n \in Nat : \A stack \in SUBSET Jumps!Known : Left(stack) < n => Right(stack)}
<1>1. 0 \in S
  BY LeftFalls
<1>2. ASSUME NEW n \in Nat, n \in S PROVE n + 1 \in S
  <2>. SUFFICES ASSUME NEW stack \in SUBSET Jumps!Known, Left(stack) < n + 1 PROVE Right(stack)
    OBVIOUS
  <2>1. ASSUME NEW a \in Jumps!Names
        PROVE  /\ R[stack][a] \in Results
               /\ R[stack][a].ok <=> Sound(a) /\ Reached(a) \cap stack = {}
    <3>1. CASE a \in stack
      <4>1. R[stack][a] = Jumps!Failed("cycle")
        BY <3>1, ResolveOf
      <4>. QED
        BY <3>1, <4>1, ResultFields DEF Reached
    <3>2. CASE a \notin Jumps!Known
      <4>1. R[stack][a] = Jumps!Failed("missing")
        BY <3>2, ResolveOf
      <4>. QED
        BY <3>2, <4>1, ResultFields DEF Reached, Sound
    <3>3. CASE a \in Jumps!Known \ stack
      <4>. DEFINE h == R[stack \cup {a}]
      <4>1. R[stack][a] = Jumps!Flatten(via[a], h)
        BY <3>3, ResolveOf
      <4>2. Right(stack \cup {a})
        <5>1. stack \cup {a} \in SUBSET Jumps!Known /\ Left(stack \cup {a}) < n
          BY <3>3, LeftFalls
        <5>. HIDE DEF Right
        <5>. QED
          BY <1>2, <5>1
      <4>3. /\ R[stack][a] \in Results
            /\ R[stack][a].ok <=> \A b \in Jumps!JumpsTo(a) : h[b].ok
        <5>1. /\ via[a] \in Seq(Jumps!Names)
              /\ Jumps!JumpsTo(a) = {via[a][i] : i \in 1..Len(via[a])}
          BY <3>3, ViaTyped
        <5>2. h \in [Jumps!Names -> Results]
          BY <4>2
        <5>. HIDE DEF R, h
        <5>3. /\ R[stack][a] \in Results
              /\ R[stack][a].ok <=> \A i \in 1..Len(via[a]) : h[via[a][i]].ok
          BY <4>1, <5>1, <5>2, FlattenIs
        <5>. QED
          BY <5>1, <5>3
      <4>4. \A b \in Jumps!JumpsTo(a) : b \in Jumps!Names
        BY <3>3, NeededIs
      <4>5. R[stack][a].ok <=> \A b \in Jumps!JumpsTo(a) :
                Sound(b) /\ Reached(b) \cap (stack \cup {a}) = {}
        BY <4>2, <4>3, <4>4
      <4>6. Jumps!Needed(a) = UNION {Reached(b) : b \in Jumps!JumpsTo(a)}
        BY NeededIs
      <4>. HIDE DEF R, h
      <4>7. (\A b \in Jumps!JumpsTo(a) : Sound(b) /\ Reached(b) \cap (stack \cup {a}) = {})
                <=> Sound(a) /\ Reached(a) \cap stack = {}
        <5>. DEFINE ok(c) == c \in Jumps!Known /\ c \notin Jumps!Needed(c)
        <5>1. (\A b \in Jumps!JumpsTo(a) : Sound(b)) <=> \A c \in Jumps!Needed(a) : ok(c)
          BY <4>6 DEF Sound
        <5>2. (\A b \in Jumps!JumpsTo(a) : Reached(b) \cap (stack \cup {a}) = {})
                  <=> Jumps!Needed(a) \cap (stack \cup {a}) = {}
          BY <4>6
        <5>3. Sound(a) <=> a \notin Jumps!Needed(a) /\ \A c \in Jumps!Needed(a) : ok(c)
          BY <3>3 DEF Sound, Reached
        <5>4. Reached(a) \cap stack = {} <=> Jumps!Needed(a) \cap stack = {}
          BY <3>3 DEF Reached
        <5>. HIDE DEF ok
        <5>. QED
          BY <5>1, <5>2, <5>3, <5>4
      <4>. QED
        BY <4>3, <4>5, <4>7
    <3>. QED
      BY <3>1, <3>2, <3>3
  <2>2. R[stack] = [a \in Jumps!Names |-> R[stack][a]]
    BY ResolvesAre
  <2>. QED
    BY <2>1, <2>2
<1>3. Nat \subseteq S
  <2>. HIDE DEF S
  <2>. QED
    BY <1>1, <1>2, NatInduct
<1>4. ASSUME NEW stack \in SUBSET Jumps!Known PROVE Right(stack)
  <2>1. Left(stack) \in Nat /\ Left(stack) + 1 \in Nat /\ Left(stack) < Left(stack) + 1
    BY LeftFalls
  <2>. QED
    BY <1>3, <2>1
<1>. QED
  BY <1>4

\* A host that is resolved on two stacks has the same hops on both.
LEMMA StackDoesNotMatter ==
    ASSUME Jumps!TypeOK, IsFiniteSet(Jumps!Known)
    PROVE  \A stack, other \in SUBSET Jumps!Known : \A a \in Jumps!Names :
              Jumps!ResolvesFrom[stack][a].ok /\ Jumps!ResolvesFrom[other][a].ok
                  => Jumps!ResolvesFrom[stack][a] = Jumps!ResolvesFrom[other][a]
<1>. DEFINE R == Jumps!ResolvesFrom
            Same(stack) == \A other \in SUBSET Jumps!Known : \A a \in Jumps!Names :
                              R[stack][a].ok /\ R[other][a].ok => R[stack][a] = R[other][a]
            S == {n \in Nat : \A stack \in SUBSET Jumps!Known : Left(stack) < n => Same(stack)}
<1>1. 0 \in S
  BY LeftFalls
<1>2. ASSUME NEW n \in Nat, n \in S PROVE n + 1 \in S
  <2>. SUFFICES ASSUME NEW stack \in SUBSET Jumps!Known, Left(stack) < n + 1,
                       NEW other \in SUBSET Jumps!Known, NEW a \in Jumps!Names,
                       R[stack][a].ok, R[other][a].ok
                PROVE  R[stack][a] = R[other][a]
    OBVIOUS
  <2>. DEFINE h == R[stack \cup {a}]
              g == R[other \cup {a}]
  <2>1. a \in Jumps!Known \ stack /\ a \notin other
    <3>1. Sound(a) /\ Reached(a) \cap stack = {} /\ Reached(a) \cap other = {}
      BY ResolvedWhenSound
    <3>. QED
      BY <3>1 DEF Sound, Reached
  <2>2. R[stack][a] = Jumps!Flatten(via[a], h) /\ R[other][a] = Jumps!Flatten(via[a], g)
    BY <2>1, ResolveOf
  <2>3. h \in [Jumps!Names -> Results] /\ g \in [Jumps!Names -> Results]
    <3>1. stack \cup {a} \in SUBSET Jumps!Known /\ other \cup {a} \in SUBSET Jumps!Known
      BY <2>1
    <3>. QED
      BY <3>1, ResolvedWhenSound
  <2>4. via[a] \in Seq(Jumps!Names)
    BY <2>1, ViaTyped
  <2>5. Same(stack \cup {a})
    <3>1. stack \cup {a} \in SUBSET Jumps!Known /\ Left(stack \cup {a}) < n
      BY <2>1, LeftFalls
    <3>. HIDE DEF Same
    <3>. QED
      BY <1>2, <3>1
  <2>6. other \cup {a} \in SUBSET Jumps!Known
    BY <2>1
  <2>. HIDE DEF R, h, g
  <2>7. \A i \in 1..Len(via[a]) : h[via[a][i]].ok /\ g[via[a][i]].ok /\ via[a][i] \in Jumps!Names
    BY <2>2, <2>3, <2>4, FlattenIs
  <2>8. \A i \in 1..Len(via[a]) : h[via[a][i]] = g[via[a][i]]
    BY <2>5, <2>6, <2>7 DEF h, g
  <2>. QED
    BY <2>2, <2>4, <2>8, FlattenSame
<1>3. Nat \subseteq S
  <2>. HIDE DEF S
  <2>. QED
    BY <1>1, <1>2, NatInduct
<1>4. ASSUME NEW stack \in SUBSET Jumps!Known PROVE Same(stack)
  <2>1. Left(stack) \in Nat /\ Left(stack) + 1 \in Nat /\ Left(stack) < Left(stack) + 1
    BY LeftFalls
  <2>. QED
    BY <1>3, <2>1
<1>. QED
  BY <1>4

\* So the hops of a host that is resolved are those that its list gives in the inventory.
LEMMA ResolvedIsFlat ==
    ASSUME Jumps!TypeOK, IsFiniteSet(Jumps!Known), NEW stack \in SUBSET Jumps!Known,
           NEW a \in Jumps!Names, Jumps!ResolvesFrom[stack][a].ok
    PROVE  /\ a \in Jumps!Known
           /\ \A i \in 1..Len(via[a]) : via[a][i] \in Jumps!Known /\ Jumps!Resolves[via[a][i]].ok
           /\ \A i \in 1..Len(via[a]) :
                 Jumps!ResolvesFrom[stack \cup {a}][via[a][i]] = Jumps!Resolves[via[a][i]]
           /\ Jumps!ResolvesFrom[stack][a] = Jumps!Flatten(via[a], Jumps!Resolves)
<1>. DEFINE R == Jumps!ResolvesFrom
            h == R[stack \cup {a}]
<1>1. a \in Jumps!Known \ stack /\ Sound(a)
  BY ResolvedWhenSound DEF Sound, Reached
<1>2. stack \cup {a} \in SUBSET Jumps!Known /\ {} \in SUBSET Jumps!Known
  BY <1>1
<1>3. R[stack][a] = Jumps!Flatten(via[a], h) /\ R[stack][a].ok
  BY <1>1, ResolveOf
<1>4. h \in [Jumps!Names -> Results] /\ Jumps!Resolves = R[{}]
  BY <1>2, ResolvedWhenSound DEF Jumps!Resolves
<1>5. via[a] \in Seq(Jumps!Names)
  BY <1>1, ViaTyped
<1>. HIDE DEF R, h
<1>6. \A i \in 1..Len(via[a]) : h[via[a][i]].ok /\ via[a][i] \in Jumps!Names
  <2>1. Jumps!Flatten(via[a], h).ok
    BY <1>3
  <2>2. h \in [Jumps!Names -> Results]
    BY <1>4
  <2>3. \A i \in 1..Len(via[a]) : h[via[a][i]].ok
    BY <1>5, <2>1, <2>2, FlattenIs
  <2>. QED
    BY <1>5, <2>3
<1>7. \A i \in 1..Len(via[a]) :
          via[a][i] \in Jumps!Known /\ Jumps!Resolves[via[a][i]].ok
  <2>1. ASSUME NEW i \in 1..Len(via[a]) PROVE Sound(via[a][i])
    BY <1>2, <1>6, ResolvedWhenSound DEF R, h
  <2>2. ASSUME NEW i \in 1..Len(via[a]) PROVE Jumps!Resolves[via[a][i]].ok
    BY <1>2, <1>4, <1>6, <2>1, ResolvedWhenSound DEF R
  <2>. QED
    BY <2>1, <2>2 DEF Sound, Reached
<1>8. ASSUME NEW i \in 1..Len(via[a]) PROVE h[via[a][i]] = Jumps!Resolves[via[a][i]]
  <2>1. h[via[a][i]].ok /\ via[a][i] \in Jumps!Names /\ Jumps!Resolves[via[a][i]].ok
    BY <1>6, <1>7
  <2>. QED
    BY <1>2, <1>4, <2>1, StackDoesNotMatter DEF R, h
<1>9. R[stack][a] = Jumps!Flatten(via[a], Jumps!Resolves)
  BY <1>3, <1>5, <1>8, FlattenSame
<1>. QED
  BY <1>1, <1>7, <1>8, <1>9 DEF R, h

-----------------------------------------------------------------------------
(* JumpHosts: in which order the hops are *)

Own(x) == Jumps!Resolves[x].hops

\* The hops of every hop are directly before it.
Ordered(hs) ==
    \A i \in 1..Len(hs) :
        /\ Own(hs[i]) \in Seq(Jumps!Names) /\ Len(Own(hs[i])) < i
        /\ \A k \in 1..Len(Own(hs[i])) : hs[i - Len(Own(hs[i])) - 1 + k] = Own(hs[i])[k]

LEMMA InThree ==
    ASSUME NEW m \in Nat, NEW n \in Nat, NEW i \in 1..(m + n + 1)
    PROVE  i \in 1..m \/ i \in (m + 1)..(m + n) \/ i = m + n + 1
OBVIOUS

\* The hops of a jump host and the jump host itself may be put behind.
LEMMA OrderedBehind ==
    ASSUME NEW s \in Seq(Jumps!Names), NEW x \in Jumps!Names, Own(x) \in Seq(Jumps!Names),
           Ordered(s), Ordered(Own(x))
    PROVE  Ordered(s \o Own(x) \o <<x>>)
<1>. DEFINE r == Own(x)
            u == s \o r \o <<x>>
<1>1. /\ u \in Seq(Jumps!Names) /\ Len(u) = Len(s) + Len(r) + 1
      /\ Len(s) \in Nat /\ Len(r) \in Nat
      /\ \A i \in 1..Len(s) : u[i] = s[i]
      /\ \A i \in 1..Len(r) : u[Len(s) + i] = r[i]
      /\ u[Len(s) + Len(r) + 1] = x
  OBVIOUS
<1>2. r = Own(x) /\ Ordered(r)
  OBVIOUS
<1>. HIDE DEF u, r
<1>3. ASSUME NEW i \in 1..Len(u)
      PROVE  /\ Own(u[i]) \in Seq(Jumps!Names) /\ Len(Own(u[i])) < i
             /\ \A k \in 1..Len(Own(u[i])) : u[i - Len(Own(u[i])) - 1 + k] = Own(u[i])[k]
  <2>1. CASE i \in 1..Len(s)
    <3>1. u[i] = s[i] /\ Own(s[i]) \in Seq(Jumps!Names) /\ Len(Own(s[i])) < i
      BY <1>1, <2>1 DEF Ordered
    <3>2. ASSUME NEW k \in 1..Len(Own(s[i]))
          PROVE  u[i - Len(Own(s[i])) - 1 + k] = Own(s[i])[k]
      <4>1. s[i - Len(Own(s[i])) - 1 + k] = Own(s[i])[k]
        BY <2>1 DEF Ordered
      <4>2. i - Len(Own(s[i])) - 1 + k \in 1..Len(s)
        <5>1. Len(Own(s[i])) \in Nat
          BY <3>1
        <5>. QED
          BY <1>1, <2>1, <3>1, <5>1
      <4>. QED
        BY <1>1, <4>1, <4>2
    <3>. QED
      BY <3>1, <3>2
  <2>2. CASE i \in (Len(s) + 1)..(Len(s) + Len(r))
    <3>. DEFINE j == i - Len(s)
    <3>1. j \in 1..Len(r) /\ i = Len(s) + j
      BY <1>1, <2>2
    <3>2. u[i] = r[j] /\ Own(r[j]) \in Seq(Jumps!Names) /\ Len(Own(r[j])) < j
      BY <1>1, <1>2, <3>1, ZenonT(30) DEF Ordered
    <3>3. ASSUME NEW k \in 1..Len(Own(r[j]))
          PROVE  u[i - Len(Own(r[j])) - 1 + k] = Own(r[j])[k]
      <4>1. r[j - Len(Own(r[j])) - 1 + k] = Own(r[j])[k]
        BY <1>2, <3>1 DEF Ordered
      <4>2. Len(Own(r[j])) \in Nat
        BY <3>2
      <4>3. /\ j - Len(Own(r[j])) - 1 + k \in 1..Len(r)
            /\ i - Len(Own(r[j])) - 1 + k = Len(s) + (j - Len(Own(r[j])) - 1 + k)
        BY <1>1, <3>1, <3>2, <4>2
      <4>. QED
        BY <1>1, <4>1, <4>3
    <3>. HIDE DEF j
    <3>4. Len(Own(r[j])) < i
      <4>1. Len(Own(r[j])) \in Nat
        BY <3>2
      <4>. QED
        BY <1>1, <3>1, <3>2, <4>1
    <3>. QED
      BY <3>2, <3>3, <3>4
  <2>3. CASE i = Len(s) + Len(r) + 1
    <3>1. u[i] = x /\ Len(r) < i
      BY <1>1, <2>3
    <3>2. ASSUME NEW k \in 1..Len(r) PROVE u[i - Len(r) - 1 + k] = r[k]
      <4>1. i - Len(r) - 1 + k = Len(s) + k
        BY <1>1, <2>3
      <4>. QED
        BY <1>1, <4>1
    <3>. QED
      BY <1>2, <3>1, <3>2
  <2>4. \/ i \in 1..Len(s) \/ i \in (Len(s) + 1)..(Len(s) + Len(r))
        \/ i = Len(s) + Len(r) + 1
    <3>1. i \in 1..(Len(s) + Len(r) + 1) /\ Len(s) \in Nat /\ Len(r) \in Nat
      BY <1>1
    <3>. QED
      BY <3>1, InThree
  <2>. QED
    BY <2>1, <2>2, <2>3, <2>4
<1>. QED
  BY <1>3 DEF Ordered, u, r

\* A list of hosts that are resolved is flattened in that order, into what they need.
LEMMA FlattenOrdered ==
    ASSUME NEW list \in Seq(Jumps!Names), NEW N,
           Jumps!Resolves \in [Jumps!Names -> Results],
           \A i \in 1..Len(list) :
              /\ Jumps!Resolves[list[i]].ok /\ Ordered(Own(list[i])) /\ list[i] \in N
              /\ \A k \in 1..Len(Own(list[i])) : Own(list[i])[k] \in N
    PROVE  LET hs == Jumps!Flatten(list, Jumps!Resolves).hops IN
           Ordered(hs) /\ \A k \in 1..Len(hs) : hs[k] \in N
<1>. DEFINE r == Jumps!Rounds(list, Jumps!Resolves)
            Within(q) == \A k \in 1..Len(q) : q[k] \in N
            Good(n) == /\ r[n] \in Results /\ r[n].ok
                       /\ Ordered(r[n].hops) /\ Within(r[n].hops)
            S == {n \in Nat : n <= Len(list) => Good(n)}
<1>1. 0 \in S
  <2>1. r[0] = Jumps!Hops(<< >>)
    BY RoundAt
  <2>2. << >> \in Seq(Jumps!Names)
    OBVIOUS
  <2>3. r[0] \in Results /\ r[0].ok /\ r[0].hops = << >>
    BY <2>1, <2>2, HopsGive
  <2>. HIDE DEF r
  <2>. QED
    BY <2>3 DEF Ordered
<1>2. ASSUME NEW n \in Nat, n \in S PROVE n + 1 \in S
  <2>. SUFFICES ASSUME n + 1 <= Len(list) PROVE Good(n + 1)
    OBVIOUS
  <2>. DEFINE x == list[n + 1]
  <2>1. Good(n) /\ n + 1 \in 1..Len(list) /\ (n + 1) - 1 = n
    BY <1>2
  <2>2. r[n + 1] = Jumps!Appends(r[n], x, Jumps!Resolves[x])
    BY <2>1, RoundAt
  <2>3. /\ x \in Jumps!Names /\ Jumps!Resolves[x].ok /\ Own(x) \in Seq(Jumps!Names)
        /\ Ordered(Own(x)) /\ x \in N /\ Within(Own(x))
    BY <2>1, ResultFields DEF Own
  <2>. HIDE DEF r, x
  <2>4. r[n].hops \in Seq(Jumps!Names) /\ r[n].ok
    BY <2>1, ResultFields
  <2>5. r[n + 1] = Jumps!Hops(r[n].hops \o Own(x) \o <<x>>)
    BY <2>2, <2>3, <2>4 DEF Jumps!Appends, Own
  <2>6. r[n].hops \o Own(x) \o <<x>> \in Seq(Jumps!Names)
    BY <2>3, <2>4
  <2>7. r[n + 1] \in Results /\ r[n + 1].ok /\ r[n + 1].hops = r[n].hops \o Own(x) \o <<x>>
    BY <2>5, <2>6, HopsGive
  <2>8. Ordered(r[n].hops \o Own(x) \o <<x>>)
    BY <2>1, <2>3, <2>4, OrderedBehind
  <2>9. Within(r[n].hops \o Own(x) \o <<x>>)
    BY <2>1, <2>3, <2>4, SMTT(30)
  <2>. QED
    BY <2>7, <2>8, <2>9
<1>3. Len(list) \in Nat
  OBVIOUS
<1>4. Good(Len(list))
  <2>. HIDE DEF Good
  <2>1. Nat \subseteq S
    BY <1>1, <1>2, NatInduct
  <2>. QED
    BY <1>3, <2>1
<1>. QED
  BY <1>4 DEF Jumps!Flatten

\* Whatever is resolved has its hops in order, and only hops that it needs.
LEMMA ResolvedInOrder ==
    ASSUME Jumps!TypeOK, IsFiniteSet(Jumps!Known)
    PROVE  \A a \in Jumps!Names : Jumps!Resolves[a].ok =>
              Ordered(Own(a)) /\ \A k \in 1..Len(Own(a)) : Own(a)[k] \in Jumps!Needed(a)
<1>. DEFINE R == Jumps!ResolvesFrom
            Good(hs, a) == Ordered(hs) /\ \A k \in 1..Len(hs) : hs[k] \in Jumps!Needed(a)
            Right(stack) == \A a \in Jumps!Names : R[stack][a].ok => Good(R[stack][a].hops, a)
            S == {n \in Nat : \A stack \in SUBSET Jumps!Known : Left(stack) < n => Right(stack)}
<1>1. 0 \in S
  BY LeftFalls
<1>2. Jumps!Resolves \in [Jumps!Names -> Results]
  BY ResolvedWhenSound DEF Jumps!Resolves
<1>3. ASSUME NEW n \in Nat, n \in S PROVE n + 1 \in S
  <2>. SUFFICES ASSUME NEW stack \in SUBSET Jumps!Known, Left(stack) < n + 1,
                       NEW a \in Jumps!Names, R[stack][a].ok
                PROVE  Good(R[stack][a].hops, a)
    OBVIOUS
  <2>1. /\ a \in Jumps!Known
        /\ \A i \in 1..Len(via[a]) : via[a][i] \in Jumps!Known /\ Jumps!Resolves[via[a][i]].ok
        /\ \A i \in 1..Len(via[a]) : R[stack \cup {a}][via[a][i]] = Jumps!Resolves[via[a][i]]
        /\ R[stack][a] = Jumps!Flatten(via[a], Jumps!Resolves)
    BY ResolvedIsFlat
  <2>2. a \notin stack
    BY ResolvedWhenSound DEF Reached
  <2>3. Right(stack \cup {a})
    <3>1. stack \cup {a} \in SUBSET Jumps!Known /\ Left(stack \cup {a}) < n
      BY <2>1, <2>2, LeftFalls
    <3>. HIDE DEF Right
    <3>. QED
      BY <1>3, <3>1
  <2>4. via[a] \in Seq(Jumps!Names) /\ Jumps!JumpsTo(a) = {via[a][i] : i \in 1..Len(via[a])}
    BY <2>1, ViaTyped
  <2>5. ASSUME NEW i \in 1..Len(via[a])
        PROVE  /\ Jumps!Resolves[via[a][i]].ok /\ Ordered(Own(via[a][i]))
               /\ via[a][i] \in Jumps!Needed(a)
               /\ \A k \in 1..Len(Own(via[a][i])) : Own(via[a][i])[k] \in Jumps!Needed(a)
    <3>. DEFINE b == via[a][i]
    <3>1. b \in Jumps!JumpsTo(a) /\ b \in Jumps!Names
      BY <2>4
    <3>2. b \in Jumps!Needed(a) /\ Jumps!Needed(b) \subseteq Jumps!Needed(a)
      BY <3>1, NeededIs
    <3>3. Jumps!Resolves[b].ok /\ R[stack \cup {a}][b] = Jumps!Resolves[b]
      BY <2>1
    <3>. HIDE DEF b
    <3>4. Good(Own(b), b)
      BY <2>3, <3>1, <3>3 DEF Own
    <3>. QED
      BY <3>2, <3>3, <3>4 DEF b
  <2>. HIDE DEF R
  <2>. QED
    BY <1>2, <2>1, <2>4, <2>5, FlattenOrdered
<1>4. Nat \subseteq S
  <2>. HIDE DEF S
  <2>. QED
    BY <1>1, <1>3, NatInduct
<1>5. {} \in SUBSET Jumps!Known /\ Left({}) \in Nat
  BY LeftFalls
<1>6. Right({})
  <2>1. Left({}) + 1 \in Nat /\ Left({}) < Left({}) + 1
    BY <1>5
  <2>. QED
    BY <1>4, <1>5, <2>1
<1>. QED
  BY <1>6 DEF Own, Jumps!Resolves

-----------------------------------------------------------------------------
(* JumpHosts: theorems *)

ViaInv == Jumps!TypeOK /\ IsFiniteSet(Jumps!Known)

LEMMA InitViaInv == Jumps!Init => ViaInv
<1>. SUFFICES ASSUME Jumps!Init PROVE ViaInv
  OBVIOUS
<1>1. Jumps!Known = {} /\ via \in [Jumps!Known -> Jumps!ViaLists]
  BY DEF Jumps!Init, Jumps!Known
<1>. QED
  BY <1>1, FS_EmptySet DEF ViaInv, Jumps!TypeOK

LEMMA NextViaInv == ViaInv /\ [Jumps!Next]_via => ViaInv'
<1>. SUFFICES ASSUME ViaInv, [Jumps!Next]_via PROVE ViaInv'
  OBVIOUS
<1>1. CASE UNCHANGED via
  BY <1>1 DEF ViaInv, Jumps!TypeOK, Jumps!Known
<1>2. ASSUME NEW a \in Aliases, NEW list \in Jumps!ViaLists, Jumps!SetHost(a, list)
      PROVE  ViaInv'
  <2>1. Jumps!Known' = Jumps!Known \cup {a}
    BY <1>2 DEF Jumps!SetHost, Jumps!Known
  <2>2. via' \in [Jumps!Known \cup {a} -> Jumps!ViaLists]
    BY <1>2 DEF Jumps!SetHost, ViaInv, Jumps!TypeOK
  <2>3. IsFiniteSet(Jumps!Known \cup {a})
    BY FS_AddElement DEF ViaInv
  <2>. QED
    BY <2>1, <2>2, <2>3 DEF ViaInv, Jumps!TypeOK, Jumps!ViaLists, Jumps!Names
<1>3. ASSUME NEW a \in Aliases, Jumps!RemoveHost(a) PROVE ViaInv'
  <2>1. Jumps!Known' = Jumps!Known \ {a}
    BY <1>3 DEF Jumps!RemoveHost, Jumps!Known
  <2>2. via' \in [Jumps!Known \ {a} -> Jumps!ViaLists]
    BY <1>3 DEF Jumps!RemoveHost, ViaInv, Jumps!TypeOK
  <2>3. IsFiniteSet(Jumps!Known \ {a})
    BY FS_Subset DEF ViaInv
  <2>. QED
    BY <2>1, <2>2, <2>3 DEF ViaInv, Jumps!TypeOK, Jumps!ViaLists, Jumps!Names
<1>. QED
  BY <1>1, <1>2, <1>3 DEF Jumps!Next

LEMMA ViaInductive == Jumps!Spec => []ViaInv
BY InitViaInv, NextViaInv, PTL DEF Jumps!Spec

\* resolve returns for every inventory, and fails for exactly the hosts that need a
\* host that is missing or that needs itself, however many hosts share their jumps.
THEOREM ResolveFailsIffBroken == Jumps!Spec => []FailsIffBroken
<1>1. ASSUME ViaInv PROVE FailsIffBroken
  <2>1. ASSUME NEW a \in Jumps!Known
        PROVE  Jumps!Resolves[a].ok <=>
                  \A b \in Jumps!Needed(a) : b \in Jumps!Known /\ b \notin Jumps!Needed(b)
    <3>1. a \in Jumps!Names
      BY <1>1 DEF ViaInv, Jumps!TypeOK, Jumps!Names
    <3>2. Jumps!Resolves[a].ok <=> Sound(a)
      BY <1>1, <3>1, ResolvedWhenSound DEF ViaInv, Jumps!Resolves
    <3>. QED
      BY <3>2 DEF Sound, Reached
  <2>. QED
    BY <1>1, <2>1 DEF ViaInv, FailsIffBroken, Jumps!FailsIffBroken
<1>. QED
  BY <1>1, ViaInductive, PTL

\* In the list of hops that Resolve gives to ssh -J, each hop comes directly behind the hops
\* of its own entry, and none of them is the host itself; and what --via makes of the list of
\* an entry is what the inventory makes of it.
THEOREM HopsAreInOrder == Jumps!Spec => []HopsInOrder
<1>1. ASSUME ViaInv, NEW a \in Jumps!Known, Jumps!Resolves[a].ok
      PROVE  /\ Jumps!ViaOverride(via[a]) = Jumps!Resolves[a]
             /\ a \notin Jumps!ToSet(Own(a))
             /\ Own(a) \in Seq(Jumps!Names) /\ Ordered(Own(a))
  <2>1. a \in Jumps!Names
    BY <1>1 DEF ViaInv, Jumps!TypeOK, Jumps!Names
  <2>2. Jumps!Resolves[a] \in Results /\ Own(a) \in Seq(Jumps!Names)
    BY <1>1, <2>1, ResolvedWhenSound, ResultFields DEF ViaInv, Jumps!Resolves, Own
  <2>3. Ordered(Own(a)) /\ \A k \in 1..Len(Own(a)) : Own(a)[k] \in Jumps!Needed(a)
    BY <1>1, <2>1, ResolvedInOrder DEF ViaInv
  <2>4. a \notin Jumps!Needed(a)
    <3>1. Sound(a)
      BY <1>1, <2>1, ResolvedWhenSound DEF ViaInv, Jumps!Resolves
    <3>. QED
      BY <3>1 DEF Sound, Reached
  <2>5. a \notin Jumps!ToSet(Own(a))
    BY <2>2, <2>3, <2>4 DEF Jumps!ToSet
  <2>6. /\ \A i \in 1..Len(via[a]) : via[a][i] \in Jumps!Known
        /\ Jumps!Resolves[a] = Jumps!Flatten(via[a], Jumps!Resolves)
    BY <1>1, <2>1, ResolvedIsFlat DEF ViaInv, Jumps!Resolves
  <2>7. via[a] \in Seq(Jumps!Names)
    BY <1>1, ViaTyped DEF ViaInv
  <2>. DEFINE h == [name \in Jumps!Names |-> Jumps!Target(name)]
  <2>8. \A i \in 1..Len(via[a]) : h[via[a][i]] = Jumps!Resolves[via[a][i]]
    BY <2>6, <2>7 DEF Jumps!Target
  <2>9. Jumps!Flatten(via[a], h) = Jumps!Flatten(via[a], Jumps!Resolves)
    <3>. HIDE DEF h
    <3>. QED
      BY <2>7, <2>8, FlattenSame
  <2>. QED
    BY <2>2, <2>3, <2>5, <2>6, <2>9 DEF Jumps!ViaOverride
<1>2. ASSUME ViaInv, NEW a \in Jumps!Known, ~Jumps!Resolves[a].ok PROVE Own(a) = << >>
  <2>1. a \in Jumps!Names
    BY <1>2 DEF ViaInv, Jumps!TypeOK, Jumps!Names
  <2>2. Jumps!Resolves[a] \in Results
    BY <1>2, <2>1, ResolvedWhenSound DEF ViaInv, Jumps!Resolves
  <2>3. \A r \in Results : r.ok \/ r.hops = << >>
    BY DEF Results, Jumps!Failed, Jumps!Hops
  <2>. QED
    BY <1>2, <2>2, <2>3 DEF Own
<1>3. ASSUME NEW hs \in Seq(Jumps!Names), Ordered(hs), NEW i \in 1..Len(hs)
      PROVE  /\ Len(Own(hs[i])) < i
             /\ SubSeq(hs, i - Len(Own(hs[i])), i - 1) = Own(hs[i])
  <2>. DEFINE own == Own(hs[i])
              n == Len(own)
  <2>1. /\ own \in Seq(Jumps!Names) /\ n \in Nat /\ n < i
        /\ \A k \in 1..n : hs[i - n - 1 + k] = own[k]
    BY <1>3 DEF Ordered
  <2>. HIDE DEF own, n
  <2>2. SubSeq(hs, i - n, i - 1) = own
    <3>1. i - n \in 1..Len(hs) /\ i - 1 \in Nat /\ i - 1 <= Len(hs) /\ i \in Nat
      BY <2>1
    <3>. DEFINE sub == SubSeq(hs, i - n, i - 1)
    <3>2. /\ sub \in Seq(Jumps!Names) /\ Len(sub) = n
          /\ \A k \in 1..n : sub[k] = hs[i - n - 1 + k]
      BY <2>1, <3>1
    <3>. HIDE DEF sub
    <3>3. Len(own) = n
      BY DEF n
    <3>. QED
      BY <2>1, <3>2, <3>3, SeqEqual DEF sub
  <2>. QED
    BY <2>1, <2>2 DEF own, n
<1>4. ASSUME ViaInv PROVE HopsInOrder
  <2>1. ASSUME NEW a \in Jumps!Known
        PROVE  /\ Jumps!Resolves[a].ok => Jumps!ViaOverride(via[a]) = Jumps!Resolves[a]
               /\ a \notin Jumps!ToSet(Own(a))
               /\ \A i \in DOMAIN Own(a) :
                     /\ Len(Own(Own(a)[i])) < i
                     /\ SubSeq(Own(a), i - Len(Own(Own(a)[i])), i - 1) = Own(Own(a)[i])
    <3>1. CASE Jumps!Resolves[a].ok
      <4>1. Own(a) \in Seq(Jumps!Names) /\ Ordered(Own(a))
        BY <1>1, <1>4, <3>1
      <4>2. DOMAIN Own(a) = 1..Len(Own(a))
        BY <4>1
      <4>. QED
        BY <1>1, <1>3, <1>4, <3>1, <4>1, <4>2
    <3>2. CASE ~Jumps!Resolves[a].ok
      <4>1. Own(a) = << >>
        BY <1>2, <1>4, <3>2
      <4>2. DOMAIN << >> = {} /\ Jumps!ToSet(<< >>) = {}
        BY DEF Jumps!ToSet
      <4>. QED
        BY <3>2, <4>1, <4>2
    <3>. QED
      BY <3>1, <3>2
  <2>. QED
    BY <2>1 DEF HopsInOrder, Jumps!HopsInOrder, Own
<1>. QED
  BY <1>4, ViaInductive, PTL

-----------------------------------------------------------------------------
(* ShellQuote: texts *)

\* A text in two parts.
LEMMA TwoParts ==
    ASSUME NEW S, NEW s \in Seq(S), NEW k \in 0..Len(s)
    PROVE  /\ SubSeq(s, 1, k) \in Seq(S) /\ Len(SubSeq(s, 1, k)) = k
           /\ SubSeq(s, k + 1, Len(s)) \in Seq(S) /\ Len(SubSeq(s, k + 1, Len(s))) = Len(s) - k
           /\ SubSeq(s, 1, k) \o SubSeq(s, k + 1, Len(s)) = s
<1>. DEFINE a == SubSeq(s, 1, k)
            b == SubSeq(s, k + 1, Len(s))
<1>1. Len(s) \in Nat /\ k \in Nat /\ k <= Len(s)
  OBVIOUS
<1>2. a \in Seq(S) /\ Len(a) = k /\ \A i \in 1..k : a[i] = s[i]
  <2>1. \A i \in 1..k : s[i] \in S
    BY <1>1
  <2>. QED
    BY <1>1, <2>1, SubSeqProperties
<1>3. b \in Seq(S) /\ Len(b) = Len(s) - k /\ \A i \in 1..(Len(s) - k) : b[i] = s[k + i]
  <2>1. \A i \in (k + 1)..Len(s) : s[i] \in S
    BY <1>1
  <2>2. k + 1 \in Int /\ Len(s) \in Int
    BY <1>1
  <2>. QED
    BY <1>1, <2>1, <2>2, SubSeqProperties
<1>. HIDE DEF a, b
<1>4. /\ a \o b \in Seq(S) /\ Len(a \o b) = Len(s)
      /\ \A i \in 1..Len(s) : (a \o b)[i] = s[i]
  <2>1. a \o b \in Seq(S) /\ Len(a \o b) = Len(s)
    <3>1. a \o b \in Seq(S) /\ Len(a \o b) = Len(a) + Len(b)
      BY <1>2, <1>3, ConcatProperties
    <3>2. k + (Len(s) - k) = Len(s)
      BY ONLY <1>1
    <3>. QED
      BY <1>2, <1>3, <3>1, <3>2
  <2>2. ASSUME NEW i \in 1..Len(s) PROVE (a \o b)[i] = s[i]
    <3>1. (a \o b)[i] = IF i <= k THEN a[i] ELSE b[i - k]
      BY <1>1, <1>2, <1>3, ConcatProperties
    <3>2. CASE i <= k
      BY <1>1, <1>2, <3>1, <3>2
    <3>3. CASE ~(i <= k)
      <4>1. i - k \in 1..(Len(s) - k) /\ k + (i - k) = i
        BY <1>1, <3>3
      <4>. QED
        BY <1>3, <3>1, <3>3, <4>1
    <3>. QED
      BY <3>2, <3>3
  <2>. QED
    BY <2>1, <2>2
<1>. QED
  BY <1>2, <1>3, <1>4, SeqEqual DEF a, b

LEMMA PartsOf ==
    ASSUME NEW S, NEW a \in Seq(S), NEW b \in Seq(S)
    PROVE  /\ SubSeq(a \o b, 1, Len(a)) = a
           /\ SubSeq(a \o b, Len(a) + 1, Len(a \o b)) = b
<1>. DEFINE s == a \o b
            p == SubSeq(s, 1, Len(a))
            q == SubSeq(s, Len(a) + 1, Len(s))
<1>1. s \in Seq(S) /\ Len(s) = Len(a) + Len(b) /\ Len(a) \in 0..Len(s) /\ Len(b) \in Nat
  BY ConcatProperties
<1>2. p \in Seq(S) /\ Len(p) = Len(a) /\ q \in Seq(S) /\ Len(q) = Len(b) /\ p \o q = a \o b
  <2>. HIDE DEF s
  <2>1. p \in Seq(S) /\ Len(p) = Len(a) /\ q \in Seq(S) /\ Len(q) = Len(s) - Len(a) /\ p \o q = s
    BY <1>1, TwoParts
  <2>2. Len(s) - Len(a) = Len(b)
    <3>1. \A m, n \in Nat : (m + n) - m = n
      OBVIOUS
    <3>. QED
      BY <1>1, <3>1
  <2>. QED
    BY <2>1, <2>2 DEF s
<1>. HIDE DEF p, q
<1>3. \A i \in 1..Len(a) : p[i] = a[i]
  <2>1. ASSUME NEW i \in 1..Len(a) PROVE p[i] = a[i]
    <3>1. (p \o q)[i] = p[i] /\ (a \o b)[i] = a[i]
      BY <1>1, <1>2, ConcatProperties
    <3>. QED
      BY <1>2, <3>1
  <2>. QED
    BY <2>1
<1>4. p = a
  BY <1>2, <1>3, SeqEqual
<1>5. q = b
  BY <1>2, <1>4, ConcatSimplifications
<1>. QED
  BY <1>4, <1>5 DEF p, q

-----------------------------------------------------------------------------
(* ShellQuote: the shell *)

Line == Seq(Quoting!LineChars)

Modes == {"between", "plain", "single", "double", "escaped", "escaped in double"}
WordLists == Seq(Seq(Quoting!LineChars \cup {"and"}))

\* Where a shell may be, and the parts of that.
LEMMA StatesAre ==
    /\ \A at \in Quoting!States : at.mode \in Modes /\ at.words \in WordLists /\ at.word \in Line
    /\ \A mode \in Modes, ws \in WordLists, w \in Line :
          LET at == Quoting!In(mode, ws, w) IN
          at \in Quoting!States /\ at.mode = mode /\ at.words = ws /\ at.word = w
BY DEF Quoting!States, Quoting!In, Modes, WordLists, Line

LEMMA ListsGrow ==
    /\ << >> \in Line /\ << >> \in WordLists
    /\ \A w, cs \in Line : w \o cs \in Line
    /\ \A ws \in WordLists : /\ \A w \in Line : Append(ws, w) \in WordLists
                             /\ Append(ws, <<"and">>) \in WordLists
<1>1. \A w \in Line : w \in Seq(Quoting!LineChars \cup {"and"})
  BY DEF Line
<1>2. <<"and">> \in Seq(Quoting!LineChars \cup {"and"})
  OBVIOUS
<1>3. \A ws \in WordLists : \A w \in Seq(Quoting!LineChars \cup {"and"}) : Append(ws, w) \in WordLists
  BY DEF WordLists
<1>4. << >> \in Line /\ << >> \in WordLists /\ \A w, cs \in Line : w \o cs \in Line
  BY DEF Line, WordLists
<1>. QED
  BY <1>1, <1>2, <1>3, <1>4

\* The six characters that a shell may take specially are different ones.
LEMMA Different ==
    /\ Quoting!SQ # Quoting!DQ /\ Quoting!SQ # Quoting!BS /\ Quoting!SQ # Quoting!SP
    /\ Quoting!SQ # Quoting!AND /\ Quoting!DQ # Quoting!BS /\ Quoting!DQ # Quoting!SP
    /\ Quoting!DQ # Quoting!AND /\ Quoting!BS # Quoting!SP /\ Quoting!BS # Quoting!AND
    /\ Quoting!SP # Quoting!AND
BY DEF Quoting!SQ, Quoting!DQ, Quoting!BS, Quoting!SP, Quoting!AND

LEMMA ReadsTyped ==
    ASSUME NEW at \in Quoting!States, NEW c \in Quoting!LineChars
    PROVE  Quoting!Reads(at, c) \in Quoting!States
<1>1. at.words \in WordLists /\ at.word \in Line /\ at.mode \in Modes
  BY StatesAre
<1>2. ASSUME NEW cs \in Line, NEW mode \in Modes
      PROVE  Quoting!Adds(at, cs, mode) \in Quoting!States
  BY <1>1, ListsGrow, StatesAre DEF Quoting!Adds
<1>3. ASSUME NEW mode \in Modes PROVE Quoting!Turns(at, mode) \in Quoting!States
  BY <1>1, StatesAre DEF Quoting!Turns
<1>4. "between" \in Modes /\ "plain" \in Modes /\ "single" \in Modes /\ "double" \in Modes
      /\ "escaped" \in Modes /\ "escaped in double" \in Modes
  BY DEF Modes
<1>5. Quoting!EndsWord(at) \in Quoting!States
  BY <1>1, <1>4, ListsGrow, StatesAre DEF Quoting!EndsWord
<1>6. Quoting!In("between", Append(Quoting!EndsWord(at).words, <<"and">>), << >>) \in Quoting!States
  BY <1>4, <1>5, ListsGrow, StatesAre
<1>7. <<c>> \in Line /\ <<Quoting!BS, c>> \in Line
  BY DEF Line, Quoting!LineChars, Quoting!Chars
<1>8. CASE at.mode \in {"between", "plain"}
  BY <1>2, <1>3, <1>4, <1>5, <1>6, <1>7, <1>8 DEF Quoting!Reads
<1>9. CASE at.mode = "escaped"
  BY <1>2, <1>4, <1>7, <1>9 DEF Quoting!Reads
<1>10. CASE at.mode = "single"
  BY <1>2, <1>3, <1>4, <1>7, <1>10 DEF Quoting!Reads
<1>11. CASE at.mode = "double"
  BY <1>2, <1>3, <1>4, <1>7, <1>11 DEF Quoting!Reads
<1>12. CASE at.mode = "escaped in double"
  BY <1>2, <1>4, <1>7, <1>12 DEF Quoting!Reads
<1>. QED
  BY <1>1, <1>8, <1>9, <1>10, <1>11, <1>12 DEF Modes

\* Where a text is halved.
Half(line) == Len(line) \div 2

LEMMA HalvesOf ==
    ASSUME NEW line \in Line, Len(line) > 1
    PROVE  /\ Half(line) \in 1..(Len(line) - 1)
           /\ SubSeq(line, 1, Half(line)) \in Line /\ SubSeq(line, Half(line) + 1, Len(line)) \in Line
           /\ Len(SubSeq(line, 1, Half(line))) = Half(line)
           /\ Len(SubSeq(line, Half(line) + 1, Len(line))) = Len(line) - Half(line)
<1>1. Half(line) \in 1..(Len(line) - 1)
  <2>1. \A n \in Nat : n > 1 => n \div 2 \in 1..(n - 1)
    OBVIOUS
  <2>. QED
    BY <2>1 DEF Half, Line
<1>2. Half(line) \in 0..Len(line)
  BY <1>1 DEF Line
<1>. QED
  BY <1>1, <1>2, TwoParts DEF Line

\* The equation of Reading, on texts of any length.
LEMMA ReadingIs ==
    Quoting!Reading = [line \in Line |-> [at \in Quoting!States |->
        CASE line = << >> -> at
          [] Len(line) = 1 -> Quoting!Reads(at, line[1])
          [] Len(line) > 1 ->
                Quoting!Reading[SubSeq(line, Half(line) + 1, Len(line))]
                               [Quoting!Reading[SubSeq(line, 1, Half(line))][at]]]]
<1>. DEFINE Round(r, line) == [at \in Quoting!States |->
                CASE line = << >> -> at
                  [] Len(line) = 1 -> Quoting!Reads(at, line[1])
                  [] Len(line) > 1 -> r[SubSeq(line, Half(line) + 1, Len(line))]
                                       [r[SubSeq(line, 1, Half(line))][at]]]
            D(n) == {line \in Line : Len(line) <= n}
            Exists(n) == \E r : r = [line \in D(n) |-> Round(r, line)]
            S == {n \in Nat : Exists(n)}
<1>1. \A line \in Line : Len(line) \in Nat /\ (Len(line) = 0 <=> line = << >>)
  BY DEF Line
<1>2. 0 \in S
  <2>. DEFINE r == [line \in D(0) |-> Round(<< >>, line)]
  <2>1. \A line \in D(0) : line = << >>
    BY <1>1
  <2>2. \A line \in D(0) : Round(<< >>, line) = Round(r, line)
    BY <2>1
  <2>3. r = [line \in D(0) |-> Round(r, line)]
    BY <2>2
  <2>. HIDE DEF Round, r, D
  <2>. QED
    BY <2>3
<1>3. ASSUME NEW n \in Nat, n \in S PROVE n + 1 \in S
  <2>1. PICK r : r = [line \in D(n) |-> Round(r, line)]
    BY <1>3
  <2>. DEFINE q == [line \in D(n + 1) |-> IF line \in D(n) THEN r[line] ELSE Round(r, line)]
  <2>2. ASSUME NEW line \in D(n + 1), Len(line) > 1
        PROVE  /\ q[SubSeq(line, 1, Half(line))] = r[SubSeq(line, 1, Half(line))]
               /\ q[SubSeq(line, Half(line) + 1, Len(line))] = r[SubSeq(line, Half(line) + 1, Len(line))]
    <3>. DEFINE a == SubSeq(line, 1, Half(line))
                b == SubSeq(line, Half(line) + 1, Len(line))
    <3>1. a \in Line /\ b \in Line /\ Len(a) <= n /\ Len(b) <= n
      <4>1. /\ Half(line) \in 1..(Len(line) - 1) /\ a \in Line /\ b \in Line
            /\ Len(a) = Half(line) /\ Len(b) = Len(line) - Half(line)
        BY <2>2, HalvesOf
      <4>2. Len(line) \in Nat /\ Len(line) <= n + 1
        BY <1>1, <2>2
      <4>. HIDE DEF a, b
      <4>. QED
        BY <4>1, <4>2
    <3>2. a \in D(n) /\ b \in D(n) /\ a \in D(n + 1) /\ b \in D(n + 1)
      <4>. HIDE DEF a, b
      <4>. QED
        BY <1>1, <3>1
    <3>. HIDE DEF D, a, b
    <3>3. q[a] = r[a] /\ q[b] = r[b]
      BY <3>2
    <3>. QED
      BY <3>3 DEF a, b
  <2>3. \A line \in D(n + 1) : Round(q, line) = Round(r, line)
    <3>. HIDE DEF q, D
    <3>. QED
      BY <2>2
  <2>4. \A line \in D(n) : r[line] = Round(r, line)
    <3>. HIDE DEF Round, D
    <3>. QED
      BY <2>1
  <2>5. q = [line \in D(n + 1) |-> Round(q, line)]
    <3>. HIDE DEF Round, D
    <3>. QED
      BY <2>3, <2>4
  <2>. HIDE DEF Round, q, D
  <2>6. Exists(n + 1) /\ n + 1 \in Nat
    BY <2>5
  <2>. QED
    BY <2>6
<1>4. \A n \in Nat : Exists(n)
  <2>. HIDE DEF Exists
  <2>. QED
    BY <1>2, <1>3, NatInduct
<1>. DEFINE R(n) == CHOOSE r : r = [line \in D(n) |-> Round(r, line)]
<1>5. ASSUME NEW n \in Nat PROVE \A line \in D(n) : R(n)[line] = Round(R(n), line)
  <2>. HIDE DEF Round, D
  <2>1. R(n) = [line \in D(n) |-> Round(R(n), line)]
    BY <1>4
  <2>. HIDE DEF R
  <2>. QED
    BY <2>1
<1>6. ASSUME NEW line \in Line, Len(line) > 1
      PROVE  /\ SubSeq(line, 1, Half(line)) \in Line
             /\ SubSeq(line, Half(line) + 1, Len(line)) \in Line
             /\ Len(SubSeq(line, 1, Half(line))) < Len(line)
             /\ Len(SubSeq(line, Half(line) + 1, Len(line))) < Len(line)
  <2>. DEFINE a == SubSeq(line, 1, Half(line))
              b == SubSeq(line, Half(line) + 1, Len(line))
  <2>1. /\ Half(line) \in 1..(Len(line) - 1) /\ a \in Line /\ b \in Line
        /\ Len(a) = Half(line) /\ Len(b) = Len(line) - Half(line) /\ Len(line) \in Nat
    BY <1>1, <1>6, HalvesOf
  <2>. HIDE DEF a, b
  <2>2. Len(a) < Len(line) /\ Len(b) < Len(line)
    BY <2>1
  <2>. QED
    BY <2>1, <2>2 DEF a, b
\* The functions for texts of up to n and of up to m characters agree.
<1>. DEFINE Agree(line) == \A m \in Nat : Len(line) <= m => R(m)[line] = R(Len(line))[line]
            T == {n \in Nat : \A line \in Line : Len(line) < n => Agree(line)}
<1>7. ASSUME NEW line \in Line, NEW m \in Nat, Len(line) <= m,
             Len(line) > 1 => /\ Agree(SubSeq(line, 1, Half(line)))
                              /\ Agree(SubSeq(line, Half(line) + 1, Len(line)))
      PROVE  R(m)[line] = R(Len(line))[line]
  <2>1. line \in D(m) /\ line \in D(Len(line)) /\ Len(line) \in Nat
    BY <1>1, <1>7
  <2>2. R(m)[line] = Round(R(m), line) /\ R(Len(line))[line] = Round(R(Len(line)), line)
    <3>. HIDE DEF R, D, Round
    <3>. QED
      BY <1>5, <2>1
  <2>3. ASSUME Len(line) > 1
        PROVE  /\ R(m)[SubSeq(line, 1, Half(line))] = R(Len(line))[SubSeq(line, 1, Half(line))]
               /\ R(m)[SubSeq(line, Half(line) + 1, Len(line))]
                     = R(Len(line))[SubSeq(line, Half(line) + 1, Len(line))]
    <3>. DEFINE a == SubSeq(line, 1, Half(line))
                b == SubSeq(line, Half(line) + 1, Len(line))
    <3>1. a \in Line /\ b \in Line /\ Len(a) < Len(line) /\ Len(b) < Len(line)
      BY <1>6, <2>3
    <3>2. Agree(a) /\ Agree(b)
      BY <1>7, <2>3
    <3>. HIDE DEF a, b, R
    <3>3. Len(a) <= m /\ Len(b) <= m /\ Len(a) <= Len(line) /\ Len(b) <= Len(line)
      BY <1>1, <1>7, <3>1
    <3>4. R(m)[a] = R(Len(line))[a] /\ R(m)[b] = R(Len(line))[b]
      BY <2>1, <3>2, <3>3
    <3>. QED
      BY <3>4 DEF a, b
  <2>4. Round(R(m), line) = Round(R(Len(line)), line)
    <3>. HIDE DEF R
    <3>. QED
      BY <2>3
  <2>. QED
    BY <2>2, <2>4
<1>8. 0 \in T
  BY <1>1
<1>9. ASSUME NEW n \in Nat, n \in T PROVE n + 1 \in T
  <2>. HIDE DEF R
  <2>1. ASSUME NEW line \in Line, Len(line) < n + 1 PROVE Agree(line)
    <3>. HIDE DEF Agree
    <3>1. Len(line) > 1 => /\ Agree(SubSeq(line, 1, Half(line)))
                           /\ Agree(SubSeq(line, Half(line) + 1, Len(line)))
      <4>. SUFFICES ASSUME Len(line) > 1
                    PROVE  /\ Agree(SubSeq(line, 1, Half(line)))
                           /\ Agree(SubSeq(line, Half(line) + 1, Len(line)))
        OBVIOUS
      <4>. DEFINE a == SubSeq(line, 1, Half(line))
                  b == SubSeq(line, Half(line) + 1, Len(line))
      <4>1. a \in Line /\ b \in Line /\ Len(a) < Len(line) /\ Len(b) < Len(line)
        BY <1>6
      <4>. HIDE DEF a, b
      <4>2. Len(a) < n /\ Len(b) < n
        BY <1>1, <2>1, <4>1
      <4>3. Agree(a) /\ Agree(b)
        BY <1>9, <4>1, <4>2
      <4>. QED
        BY <4>3 DEF a, b
    <3>. QED
      BY <1>7, <3>1 DEF Agree
  <2>. HIDE DEF Agree
  <2>. QED
    BY <2>1
<1>10. \A line \in Line : Agree(line)
  <2>. HIDE DEF Agree
  <2>1. Nat \subseteq T
    <3>. HIDE DEF T
    <3>. QED
      BY <1>8, <1>9, NatInduct
  <2>2. \A line \in Line : Len(line) + 1 \in Nat /\ Len(line) < Len(line) + 1
    BY <1>1
  <2>. QED
    BY <2>1, <2>2
<1>. DEFINE f == [line \in Line |-> R(Len(line))[line]]
<1>11. ASSUME NEW line \in Line PROVE f[line] = Round(f, line)
  <2>1. line \in D(Len(line)) /\ Len(line) \in Nat
    BY <1>1
  <2>2. f[line] = Round(R(Len(line)), line)
    <3>. HIDE DEF R, D, Round
    <3>. QED
      BY <1>5, <2>1
  <2>3. ASSUME Len(line) > 1
        PROVE  /\ f[SubSeq(line, 1, Half(line))] = R(Len(line))[SubSeq(line, 1, Half(line))]
               /\ f[SubSeq(line, Half(line) + 1, Len(line))]
                     = R(Len(line))[SubSeq(line, Half(line) + 1, Len(line))]
    <3>. DEFINE a == SubSeq(line, 1, Half(line))
                b == SubSeq(line, Half(line) + 1, Len(line))
    <3>1. a \in Line /\ b \in Line /\ Len(a) < Len(line) /\ Len(b) < Len(line)
      BY <1>6, <2>3
    <3>. HIDE DEF a, b, R
    <3>2. Agree(a) /\ Agree(b) /\ Len(a) <= Len(line) /\ Len(b) <= Len(line)
      BY <1>1, <1>10, <3>1
    <3>3. f[a] = R(Len(a))[a] /\ f[b] = R(Len(b))[b]
      BY <3>1
    <3>4. f[a] = R(Len(line))[a] /\ f[b] = R(Len(line))[b]
      BY <2>1, <3>2, <3>3
    <3>. QED
      BY <3>4 DEF a, b
  <2>4. Round(f, line) = Round(R(Len(line)), line)
    <3>. HIDE DEF R, f
    <3>. QED
      BY <2>3
  <2>. QED
    BY <2>2, <2>4
<1>12. f = [line \in Line |-> Round(f, line)]
  <2>. HIDE DEF Round, R
  <2>. QED
    BY <1>11
<1>13. \E r : r = [line \in Line |-> Round(r, line)]
  <2>. HIDE DEF Round, f
  <2>. QED
    BY <1>12
<1>. QED
  BY <1>13 DEF Quoting!Reading, Half, Line

\* The equation for one text.
LEMMA ReadingOf ==
    ASSUME NEW line \in Line, NEW at \in Quoting!States
    PROVE  /\ line = << >> => Quoting!Reading[line][at] = at
           /\ Len(line) = 1 => Quoting!Reading[line][at] = Quoting!Reads(at, line[1])
           /\ Len(line) > 1 =>
                 Quoting!Reading[line][at] =
                     Quoting!Reading[SubSeq(line, Half(line) + 1, Len(line))]
                                    [Quoting!Reading[SubSeq(line, 1, Half(line))][at]]
<1>. DEFINE to == CASE line = << >> -> at
                    [] Len(line) = 1 -> Quoting!Reads(at, line[1])
                    [] Len(line) > 1 -> Quoting!Reading[SubSeq(line, Half(line) + 1, Len(line))]
                                            [Quoting!Reading[SubSeq(line, 1, Half(line))][at]]
<1>1. Quoting!Reading[line][at] = to
  <2>1. Quoting!Reading[line] = [st \in Quoting!States |->
            CASE line = << >> -> st
              [] Len(line) = 1 -> Quoting!Reads(st, line[1])
              [] Len(line) > 1 -> Quoting!Reading[SubSeq(line, Half(line) + 1, Len(line))]
                                      [Quoting!Reading[SubSeq(line, 1, Half(line))][st]]]
    BY ReadingIs
  <2>. QED
    BY <2>1
<1>2. Len(line) \in Nat /\ (line = << >> <=> Len(line) = 0)
  BY DEF Line
<1>3. ASSUME line = << >> PROVE to = at
  BY <1>2, <1>3
<1>4. ASSUME Len(line) = 1 PROVE to = Quoting!Reads(at, line[1])
  BY <1>2, <1>4
<1>5. ASSUME Len(line) > 1
      PROVE  to = Quoting!Reading[SubSeq(line, Half(line) + 1, Len(line))]
                     [Quoting!Reading[SubSeq(line, 1, Half(line))][at]]
  BY <1>2, <1>5
<1>. HIDE DEF to
<1>. QED
  BY <1>1, <1>3, <1>4, <1>5

\* Induction on the length of a text, for a property given as the set of texts that
\* have it.
LEMMA LineInduct ==
    ASSUME NEW P, \A line \in Line : (\A l \in Line : Len(l) < Len(line) => l \in P) => line \in P
    PROVE  Line \subseteq P
<1>. DEFINE S == {n \in Nat : \A line \in Line : Len(line) < n => line \in P}
<1>1. \A line \in Line : Len(line) \in Nat
  BY DEF Line
<1>2. 0 \in S
  BY <1>1
<1>3. ASSUME NEW n \in Nat, n \in S PROVE n + 1 \in S
  <2>1. ASSUME NEW line \in Line, Len(line) < n + 1 PROVE line \in P
    <3>1. \A l \in Line : Len(l) < Len(line) => Len(l) < n
      BY <1>1, <2>1
    <3>. QED
      BY <1>3, <3>1
  <2>. QED
    BY <2>1
<1>4. Nat \subseteq S
  <2>. HIDE DEF S
  <2>. QED
    BY <1>2, <1>3, NatInduct
<1>5. \A line \in Line : Len(line) + 1 \in Nat /\ Len(line) < Len(line) + 1
  BY <1>1
<1>. QED
  BY <1>4, <1>5

LEMMA ReadingTyped ==
    \A line \in Line : \A at \in Quoting!States : Quoting!Reading[line][at] \in Quoting!States
<1>. DEFINE P == {line \in Line : \A at \in Quoting!States : Quoting!Reading[line][at] \in Quoting!States}
<1>1. ASSUME NEW line \in Line, \A l \in Line : Len(l) < Len(line) => l \in P PROVE line \in P
  <2>. SUFFICES ASSUME NEW at \in Quoting!States PROVE Quoting!Reading[line][at] \in Quoting!States
    OBVIOUS
  <2>1. CASE line = << >>
    BY <2>1, ReadingOf
  <2>2. CASE Len(line) = 1
    <3>1. line[1] \in Quoting!LineChars
      BY <2>2 DEF Line
    <3>. QED
      BY <2>2, <3>1, ReadingOf, ReadsTyped
  <2>3. CASE Len(line) > 1
    <3>. DEFINE a == SubSeq(line, 1, Half(line))
                b == SubSeq(line, Half(line) + 1, Len(line))
    <3>1. a \in Line /\ b \in Line /\ Len(a) < Len(line) /\ Len(b) < Len(line)
      <4>1. /\ Half(line) \in 1..(Len(line) - 1) /\ a \in Line /\ b \in Line
            /\ Len(a) = Half(line) /\ Len(b) = Len(line) - Half(line) /\ Len(line) \in Nat
        BY <2>3, HalvesOf DEF Line
      <4>. HIDE DEF a, b
      <4>. QED
        BY <4>1
    <3>2. a \in P /\ b \in P
      <4>. HIDE DEF P, a, b
      <4>. QED
        BY <1>1, <3>1
    <3>3. Quoting!Reading[line][at] = Quoting!Reading[b][Quoting!Reading[a][at]]
      BY <2>3, ReadingOf
    <3>. HIDE DEF a, b
    <3>. QED
      BY <3>2, <3>3
  <2>4. line = << >> \/ Len(line) = 1 \/ Len(line) > 1
    <3>1. Len(line) \in Nat /\ (line = << >> <=> Len(line) = 0)
      BY DEF Line
    <3>2. \A n \in Nat : n = 0 \/ n = 1 \/ n > 1
      OBVIOUS
    <3>. QED
      BY <3>1, <3>2
  <2>. QED
    BY <2>1, <2>2, <2>3, <2>4
<1>. HIDE DEF P
<1>2. Line \subseteq P
  BY <1>1, LineInduct
<1>. QED
  BY <1>2 DEF P

LEMMA LineConcat ==
    /\ \A s, t \in Line : s \o t \in Line /\ Len(s \o t) = Len(s) + Len(t)
    /\ \A s, t, u \in Line : (s \o t) \o u = s \o (t \o u)
BY ConcatProperties, ConcatAssociative DEF Line

\* A shell reads a text in two parts as it reads it in one.
LEMMA ReadingParts ==
    \A s, t \in Line : \A at \in Quoting!States :
        Quoting!Reading[s \o t][at] = Quoting!Reading[t][Quoting!Reading[s][at]]
<1>. DEFINE Parts(line) == \A s, t \in Line : line = s \o t =>
                \A at \in Quoting!States :
                    Quoting!Reading[line][at] = Quoting!Reading[t][Quoting!Reading[s][at]]
            P == {line \in Line : Parts(line)}
<1>1. ASSUME NEW line \in Line, \A l \in Line : Len(l) < Len(line) => l \in P,
             NEW s \in Line, NEW t \in Line, line = s \o t, NEW at \in Quoting!States
      PROVE  Quoting!Reading[line][at] = Quoting!Reading[t][Quoting!Reading[s][at]]
  <2>1. Quoting!Reading[s][at] \in Quoting!States
    BY ReadingTyped
  <2>2. CASE s = << >>
    <3>1. line = t
      BY <1>1, <2>2 DEF Line
    <3>. QED
      BY <2>2, <3>1, ReadingOf
  <2>3. CASE t = << >>
    <3>1. line = s
      BY <1>1, <2>3 DEF Line
    <3>. QED
      BY <2>1, <2>3, <3>1, ReadingOf
  <2>4. CASE s # << >> /\ t # << >>
    <3>1. /\ Len(line) = Len(s) + Len(t)
          /\ Len(s) \in Nat /\ Len(t) \in Nat /\ Len(s) > 0 /\ Len(t) > 0
      BY <1>1, <2>4, ConcatProperties DEF Line
    <3>2. Len(line) > 1 /\ Len(line) \in Nat
      BY <3>1
    <3>. DEFINE h == Half(line)
                a == SubSeq(line, 1, h)
                b == SubSeq(line, h + 1, Len(line))
    <3>3. h \in 1..(Len(line) - 1)
      BY <3>2, HalvesOf
    <3>4. Quoting!Reading[line][at] = Quoting!Reading[b][Quoting!Reading[a][at]]
      BY <3>2, ReadingOf
    <3>5. ASSUME NEW u \in Line, NEW v \in Line, Len(u) + Len(v) < Len(line), NEW q \in Quoting!States
          PROVE  Quoting!Reading[u \o v][q] = Quoting!Reading[v][Quoting!Reading[u][q]]
      <4>1. u \o v \in Line /\ Len(u \o v) < Len(line)
        BY <3>5, ConcatProperties DEF Line
      <4>2. u \o v \in P
        <5>. HIDE DEF P
        <5>. QED
          BY <1>1, <4>1
      <4>. QED
        BY <4>2, ZenonT(30)
    <3>. HIDE DEF P, h
    <3>6. CASE Len(s) <= h
      <4>. DEFINE k == h - Len(s)
                  t1 == SubSeq(t, 1, k)
                  t2 == SubSeq(t, k + 1, Len(t))
      <4>1. k \in 0..Len(t) /\ Len(s) + k = h
        BY <3>1, <3>2, <3>3, <3>6
      <4>2. t1 \in Line /\ t2 \in Line /\ Len(t1) = k /\ Len(t2) = Len(t) - k /\ t1 \o t2 = t
        <5>. HIDE DEF k
        <5>. QED
          BY <4>1, TwoParts DEF Line
      <4>. HIDE DEF t1, t2, k
      <4>3. a = s \o t1 /\ b = t2
        <5>1. line = (s \o t1) \o t2
          <6>1. (s \o t1) \o t2 = s \o (t1 \o t2)
            <7>1. t1 \in Line /\ t2 \in Line
              BY <4>2
            <7>. QED
              BY <7>1, LineConcat, ZenonT(30)
          <6>. QED
            BY <1>1, <4>2, <6>1
        <5>2. s \o t1 \in Line /\ Len(s \o t1) = h
          BY <4>1, <4>2, ConcatProperties DEF Line
        <5>. HIDE DEF Line
        <5>. QED
          BY <4>2, <5>1, <5>2, PartsOf DEF Line
      <4>4. Len(s) + Len(t1) < Len(line) /\ Len(t1) + Len(t2) < Len(line)
        BY <3>1, <3>2, <3>3, <4>1, <4>2
      <4>5. Quoting!Reading[s \o t1][at] = Quoting!Reading[t1][Quoting!Reading[s][at]]
        BY <3>5, <4>2, <4>4
      <4>6. Quoting!Reading[t1 \o t2][Quoting!Reading[s][at]]
                = Quoting!Reading[t2][Quoting!Reading[t1][Quoting!Reading[s][at]]]
        BY <2>1, <3>5, <4>2, <4>4, ZenonT(30)
      <4>. HIDE DEF a, b
      <4>. QED
        BY <3>4, <4>2, <4>3, <4>5, <4>6
    <3>7. CASE ~(Len(s) <= h)
      <4>. DEFINE s1 == SubSeq(s, 1, h)
                  s2 == SubSeq(s, h + 1, Len(s))
      <4>1. h \in 0..Len(s)
        BY <3>1, <3>2, <3>3, <3>7
      <4>2. s1 \in Line /\ s2 \in Line /\ Len(s1) = h /\ Len(s2) = Len(s) - h /\ s1 \o s2 = s
        BY <4>1, TwoParts DEF Line
      <4>. HIDE DEF s1, s2
      <4>3. a = s1 /\ b = s2 \o t
        <5>1. line = s1 \o (s2 \o t)
          <6>1. (s1 \o s2) \o t = s1 \o (s2 \o t)
            BY <4>2, LineConcat, ZenonT(30)
          <6>. QED
            BY <1>1, <4>2, <6>1
        <5>2. s2 \o t \in Line
          BY <4>2, ConcatProperties DEF Line
        <5>. QED
          BY <4>2, <5>1, <5>2, PartsOf, ZenonT(30) DEF Line
      <4>4. Len(s2) + Len(t) < Len(line) /\ Len(s1) + Len(s2) < Len(line)
        BY <3>1, <3>2, <3>3, <4>1, <4>2
      <4>5. Quoting!Reading[s1][at] \in Quoting!States
        BY <4>2, ReadingTyped
      <4>6. Quoting!Reading[s2 \o t][Quoting!Reading[s1][at]]
                = Quoting!Reading[t][Quoting!Reading[s2][Quoting!Reading[s1][at]]]
        BY <3>5, <4>2, <4>4, <4>5
      <4>7. Quoting!Reading[s1 \o s2][at] = Quoting!Reading[s2][Quoting!Reading[s1][at]]
        BY <3>5, <4>2, <4>4
      <4>. HIDE DEF a, b
      <4>. QED
        BY <3>4, <4>2, <4>3, <4>6, <4>7
    <3>. QED
      BY <3>6, <3>7
  <2>. QED
    BY <2>2, <2>3, <2>4
<1>2. Line \subseteq P
  <2>1. ASSUME NEW line \in Line, \A l \in Line : Len(l) < Len(line) => l \in P PROVE line \in P
    <3>1. Parts(line)
      <4>. HIDE DEF P
      <4>. QED
        BY <1>1, <2>1
    <3>. HIDE DEF Parts
    <3>. QED
      BY <3>1
  <2>. HIDE DEF P
  <2>. QED
    BY <2>1, LineInduct
<1>3. \A s, t \in Line : s \o t \in Line
  BY DEF Line
<1>. QED
  BY <1>2, <1>3, ZenonT(30)

-----------------------------------------------------------------------------
(* ShellQuote: pieces of a text *)

LEMMA ReadingOne ==
    ASSUME NEW c \in Quoting!LineChars, NEW at \in Quoting!States
    PROVE  <<c>> \in Line /\ Quoting!Reading[<<c>>][at] = Quoting!Reads(at, c)
<1>1. <<c>> \in Line /\ Len(<<c>>) = 1 /\ <<c>>[1] = c
  BY DEF Line
<1>. QED
  BY <1>1, ReadingOf

\* FlattenSeq of the community modules, one part after the other.
LEMMA FlattenSeqIs ==
    ASSUME NEW seqs, NEW n \in Nat, n = Len(seqs), n > 0
    PROVE  \E f : /\ f[1] = seqs[1] /\ \A i \in 1..(n - 1) : f[i + 1] = f[i] \o seqs[i + 1]
                  /\ Quoting!FlattenSeq(seqs) = f[n]
<1>. DEFINE Round(f, i) == IF i = 1 THEN seqs[i] ELSE f[i - 1] \o seqs[i]
            Exists(m) == \E f : f = [i \in 1..m |-> Round(f, i)]
            S == {m \in Nat : Exists(m)}
<1>1. 0 \in S
  <2>. DEFINE f == [i \in 1..0 |-> Round(<< >>, i)]
  <2>1. f = [i \in 1..0 |-> Round(f, i)]
    BY \A i \in 1..0 : FALSE
  <2>. QED
    BY <2>1
<1>2. ASSUME NEW m \in Nat, m \in S PROVE m + 1 \in S
  <2>1. PICK f : f = [i \in 1..m |-> Round(f, i)]
    BY <1>2
  <2>. DEFINE g == [i \in 1..(m + 1) |-> IF i \in 1..m THEN f[i] ELSE Round(f, i)]
  <2>2. \A i \in 1..(m + 1) : i # 1 => i - 1 \in 1..m /\ g[i - 1] = f[i - 1]
    OBVIOUS
  <2>3. \A i \in 1..(m + 1) : Round(g, i) = Round(f, i)
    BY <2>2
  <2>4. \A i \in 1..m : f[i] = Round(f, i)
    BY <2>1
  <2>5. g = [i \in 1..(m + 1) |-> Round(g, i)]
    BY <2>3, <2>4, ZenonT(30)
  <2>. HIDE DEF Round, g
  <2>6. Exists(m + 1) /\ m + 1 \in Nat
    BY <2>5
  <2>. QED
    BY <2>6
<1>3. Exists(n)
  <2>. HIDE DEF Exists
  <2>. QED
    BY <1>1, <1>2, NatInduct
<1>. DEFINE F == CHOOSE f : f = [i \in 1..n |-> Round(f, i)]
<1>4. F = [i \in 1..n |-> Round(F, i)]
  <2>. HIDE DEF Round
  <2>. QED
    BY <1>3
<1>5. Quoting!FlattenSeq(seqs) = F[n]
  BY DEF Quoting!FlattenSeq
<1>. HIDE DEF F
<1>6. \A i \in 1..n : F[i] = Round(F, i)
  <2>. HIDE DEF Round
  <2>. QED
    BY <1>4
<1>7. F[1] = seqs[1]
  <2>1. 1 \in 1..n
    OBVIOUS
  <2>. QED
    BY <1>6, <2>1
<1>8. ASSUME NEW i \in 1..(n - 1) PROVE F[i + 1] = F[i] \o seqs[i + 1]
  <2>1. i + 1 \in 1..n /\ i + 1 # 1 /\ (i + 1) - 1 = i
    OBVIOUS
  <2>. QED
    BY <1>6, <2>1
<1>. HIDE DEF Round
<1>. QED
  BY <1>5, <1>7, <1>8

\* The commands that the code puts together have three and four words.
LEMMA SaysThree ==
    ASSUME NEW u \in Line, NEW v \in Line, NEW w \in Line
    PROVE  Quoting!Say(<<u, v, w>>)
              = (u \o <<Quoting!SP>>) \o (v \o <<Quoting!SP>>) \o (w \o <<Quoting!SP>>)
<1>. DEFINE sp == <<Quoting!SP>>
            seqs == <<u \o sp, v \o sp, w \o sp>>
<1>1. sp \in Line
  BY DEF Line, Quoting!LineChars, Quoting!Chars
<1>2. u \o sp \in Line /\ v \o sp \in Line /\ w \o sp \in Line
  <2>. HIDE DEF sp
  <2>. QED
    BY <1>1, LineConcat
<1>3. Quoting!Say(<<u, v, w>>) = Quoting!FlattenSeq(seqs)
  <2>1. [i \in DOMAIN <<u, v, w>> |-> <<u, v, w>>[i] \o sp] = seqs
    <3>. HIDE DEF sp
    <3>. QED
      BY SMTT(30)
  <2>. QED
    BY <2>1 DEF Quoting!Say
<1>4. seqs \in Seq(Line) /\ Len(seqs) = 3
  <2>. HIDE DEF sp
  <2>. QED
    BY <1>2
<1>5. PICK f : /\ f[1] = seqs[1] /\ \A i \in 1..(3 - 1) : f[i + 1] = f[i] \o seqs[i + 1]
               /\ Quoting!FlattenSeq(seqs) = f[3]
  <2>. HIDE DEF seqs
  <2>1. 3 \in Nat /\ 3 > 0
    OBVIOUS
  <2>. QED
    BY <1>4, <2>1, FlattenSeqIs
<1>6. f[2] = f[1] \o seqs[2] /\ f[3] = f[2] \o seqs[3]
  <2>. HIDE DEF seqs
  <2>1. 1 \in 1..(3 - 1) /\ 1 + 1 = 2
    OBVIOUS
  <2>2. 2 \in 1..(3 - 1) /\ 2 + 1 = 3
    OBVIOUS
  <2>. QED
    BY <1>5, <2>1, <2>2
<1>7. seqs[1] = u \o sp /\ seqs[2] = v \o sp /\ seqs[3] = w \o sp
  OBVIOUS
<1>. HIDE DEF seqs, sp
<1>8. Quoting!Say(<<u, v, w>>) = f[3]
  BY <1>3, <1>5
<1>9. f[3] = (u \o sp) \o (v \o sp) \o (w \o sp)
  BY <1>5, <1>6, <1>7, Zenon
<1>. QED
  BY <1>8, <1>9 DEF sp

LEMMA SaysFour ==
    ASSUME NEW u \in Line, NEW v \in Line, NEW w \in Line, NEW x \in Line
    PROVE  Quoting!Say(<<u, v, w, x>>)
              = Quoting!Say(<<u, v, w>>) \o (x \o <<Quoting!SP>>)
<1>. DEFINE sp == <<Quoting!SP>>
            seqs == <<u \o sp, v \o sp, w \o sp, x \o sp>>
<1>1. sp \in Line
  BY DEF Line, Quoting!LineChars, Quoting!Chars
<1>2. u \o sp \in Line /\ v \o sp \in Line /\ w \o sp \in Line /\ x \o sp \in Line
  <2>. HIDE DEF sp
  <2>. QED
    BY <1>1, LineConcat
<1>3. Quoting!Say(<<u, v, w, x>>) = Quoting!FlattenSeq(seqs)
  <2>1. [i \in DOMAIN <<u, v, w, x>> |-> <<u, v, w, x>>[i] \o sp] = seqs
    <3>. DEFINE q == <<u, v, w, x>>
    <3>1. DOMAIN q = 1..4 /\ q[1] = u /\ q[2] = v /\ q[3] = w /\ q[4] = x
      OBVIOUS
    <3>2. /\ DOMAIN seqs = 1..4 /\ seqs[1] = u \o sp /\ seqs[2] = v \o sp
          /\ seqs[3] = w \o sp /\ seqs[4] = x \o sp
      OBVIOUS
    <3>3. seqs = [i \in 1..4 |-> seqs[i]]
      <4>. HIDE DEF sp
      <4>. QED
        OBVIOUS
    <3>. HIDE DEF sp, q, seqs
    <3>4. \A i \in 1..4 : i = 1 \/ i = 2 \/ i = 3 \/ i = 4
      OBVIOUS
    <3>5. \A i \in 1..4 : seqs[i] = q[i] \o sp
      BY <3>1, <3>2, <3>4
    <3>6. [i \in DOMAIN q |-> q[i] \o sp] = seqs
      BY <3>1, <3>3, <3>5
    <3>. QED
      BY <3>6 DEF q
  <2>. QED
    BY <2>1 DEF Quoting!Say
<1>4. seqs \in Seq(Line) /\ Len(seqs) = 4
  <2>. HIDE DEF sp
  <2>. QED
    BY <1>2
<1>5. PICK f : /\ f[1] = seqs[1] /\ \A i \in 1..(4 - 1) : f[i + 1] = f[i] \o seqs[i + 1]
               /\ Quoting!FlattenSeq(seqs) = f[4]
  <2>. HIDE DEF seqs
  <2>1. 4 \in Nat /\ 4 > 0
    OBVIOUS
  <2>. QED
    BY <1>4, <2>1, FlattenSeqIs
<1>6. f[2] = f[1] \o seqs[2] /\ f[3] = f[2] \o seqs[3] /\ f[4] = f[3] \o seqs[4]
  <2>. HIDE DEF seqs
  <2>1. 1 \in 1..(4 - 1) /\ 1 + 1 = 2
    OBVIOUS
  <2>2. 2 \in 1..(4 - 1) /\ 2 + 1 = 3
    OBVIOUS
  <2>3. 3 \in 1..(4 - 1) /\ 3 + 1 = 4
    OBVIOUS
  <2>. QED
    BY <1>5, <2>1, <2>2, <2>3
<1>7. seqs[1] = u \o sp /\ seqs[2] = v \o sp /\ seqs[3] = w \o sp /\ seqs[4] = x \o sp
  OBVIOUS
<1>. HIDE DEF seqs, sp
<1>8. Quoting!Say(<<u, v, w, x>>) = f[4]
  BY <1>3, <1>5
<1>9. f[4] = ((u \o sp) \o (v \o sp) \o (w \o sp)) \o (x \o sp)
  BY <1>5, <1>6, <1>7, Zenon
<1>10. Quoting!Say(<<u, v, w>>) = (u \o sp) \o (v \o sp) \o (w \o sp)
  BY SaysThree DEF sp
<1>11. Quoting!Say(<<u, v, w, x>>) = Quoting!Say(<<u, v, w>>) \o (x \o sp)
  BY <1>8, <1>9, <1>10, Zenon
<1>. QED
  BY <1>11 DEF sp

-----------------------------------------------------------------------------
(* ShellQuote: words *)

\* Behind words, in a word, and in quotes.
After(ws) == Quoting!In("between", ws, << >>)
Within(ws, w) == Quoting!In("plain", ws, w)
Quoted(ws, w) == Quoting!In("single", ws, w)

LEMMA InIs ==
    ASSUME NEW mode, NEW q, NEW v
    PROVE  /\ Quoting!In(mode, q, v).mode = mode /\ Quoting!In(mode, q, v).words = q
           /\ Quoting!In(mode, q, v).word = v
BY DEF Quoting!In

\* What one character does there.
LEMMA Moves ==
    ASSUME NEW ws \in WordLists, NEW w \in Line, NEW c \in Quoting!LineChars
    PROVE  /\ c \in {"x", "cd", "bash", "-lc", "nohup"} =>
                 Quoting!Reads(After(ws), c) = Within(ws, <<c>>)
           /\ c = Quoting!SP => /\ Quoting!Reads(Within(ws, w), c) = After(Append(ws, w))
                                /\ Quoting!Reads(After(ws), c) = After(ws)
           /\ c = Quoting!AND => Quoting!Reads(After(ws), c) = After(Append(ws, <<"and">>))
           /\ c = Quoting!SQ => /\ Quoting!Reads(After(ws), c) = Quoted(ws, << >>)
                                /\ Quoting!Reads(Within(ws, w), c) = Quoted(ws, w)
                                /\ Quoting!Reads(Quoted(ws, w), c) = Within(ws, w)
           /\ c # Quoting!SQ => Quoting!Reads(Quoted(ws, w), c) = Quoted(ws, w \o <<c>>)
           /\ c = Quoting!DQ =>
                 /\ Quoting!Reads(Within(ws, w), c) = Quoting!In("double", ws, w)
                 /\ Quoting!Reads(Quoting!In("double", ws, w), c) = Within(ws, w)
           /\ c = Quoting!SQ =>
                 Quoting!Reads(Quoting!In("double", ws, w), c) = Quoting!In("double", ws, w \o <<c>>)
<1>1. /\ After(ws).mode = "between" /\ After(ws).words = ws /\ After(ws).word = << >>
      /\ Within(ws, w).mode = "plain" /\ Within(ws, w).words = ws /\ Within(ws, w).word = w
      /\ Quoted(ws, w).mode = "single" /\ Quoted(ws, w).words = ws /\ Quoted(ws, w).word = w
  BY InIs DEF After, Within, Quoted
<1>. DEFINE double == Quoting!In("double", ws, w)
<1>2. double.mode = "double" /\ double.words = ws /\ double.word = w
  BY InIs
<1>. HIDE DEF double
<1>3. ASSUME c \in {"x", "cd", "bash", "-lc", "nohup"}
      PROVE  Quoting!Reads(After(ws), c) = Within(ws, <<c>>)
  <2>1. c # Quoting!SQ /\ c # Quoting!DQ /\ c # Quoting!BS /\ c # Quoting!SP /\ c # Quoting!AND
    BY <1>3 DEF Quoting!SQ, Quoting!DQ, Quoting!BS, Quoting!SP, Quoting!AND
  <2>2. Quoting!Reads(After(ws), c) = Quoting!Adds(After(ws), <<c>>, "plain")
    BY <1>1, <2>1 DEF Quoting!Reads
  <2>3. << >> \o <<c>> = <<c>>
    OBVIOUS
  <2>. QED
    BY <1>1, <2>2, <2>3 DEF Quoting!Adds, Within
<1>4. ASSUME c = Quoting!SP
      PROVE  /\ Quoting!Reads(Within(ws, w), c) = After(Append(ws, w))
             /\ Quoting!Reads(After(ws), c) = After(ws)
  <2>1. /\ Quoting!Reads(Within(ws, w), c) = Quoting!EndsWord(Within(ws, w))
        /\ Quoting!Reads(After(ws), c) = Quoting!EndsWord(After(ws))
    BY <1>1, <1>4, Different DEF Quoting!Reads
  <2>2. Quoting!EndsWord(After(ws)) = After(ws)
    BY <1>1 DEF Quoting!EndsWord
  <2>3. Quoting!EndsWord(Within(ws, w)) = After(Append(ws, w))
    BY <1>1 DEF Quoting!EndsWord, After
  <2>. QED
    BY <2>1, <2>2, <2>3
<1>5. ASSUME c = Quoting!AND PROVE Quoting!Reads(After(ws), c) = After(Append(ws, <<"and">>))
  <2>1. Quoting!EndsWord(After(ws)) = After(ws)
    BY <1>1 DEF Quoting!EndsWord
  <2>2. Quoting!Reads(After(ws), c)
            = Quoting!In("between", Append(Quoting!EndsWord(After(ws)).words, <<"and">>), << >>)
    BY <1>1, <1>5, Different DEF Quoting!Reads
  <2>3. Quoting!Reads(After(ws), c) = Quoting!In("between", Append(ws, <<"and">>), << >>)
    BY <1>1, <2>1, <2>2
  <2>. QED
    BY <2>3 DEF After
<1>6. ASSUME c = Quoting!SQ
      PROVE  /\ Quoting!Reads(After(ws), c) = Quoted(ws, << >>)
             /\ Quoting!Reads(Within(ws, w), c) = Quoted(ws, w)
             /\ Quoting!Reads(Quoted(ws, w), c) = Within(ws, w)
  <2>1. /\ Quoting!Reads(After(ws), c) = Quoting!Turns(After(ws), "single")
        /\ Quoting!Reads(Within(ws, w), c) = Quoting!Turns(Within(ws, w), "single")
        /\ Quoting!Reads(Quoted(ws, w), c) = Quoting!Turns(Quoted(ws, w), "plain")
    BY <1>1, <1>6, Different DEF Quoting!Reads
  <2>2. /\ Quoting!Turns(After(ws), "single") = Quoted(ws, << >>)
        /\ Quoting!Turns(Within(ws, w), "single") = Quoted(ws, w)
    BY <1>1 DEF Quoting!Turns, Quoted
  <2>3. Quoting!Turns(Quoted(ws, w), "plain") = Within(ws, w)
    BY <1>1 DEF Quoting!Turns, Within
  <2>. QED
    BY <2>1, <2>2, <2>3
<1>7. ASSUME c # Quoting!SQ PROVE Quoting!Reads(Quoted(ws, w), c) = Quoted(ws, w \o <<c>>)
  <2>1. Quoting!Reads(Quoted(ws, w), c) = Quoting!Adds(Quoted(ws, w), <<c>>, "single")
    BY <1>1, <1>7 DEF Quoting!Reads
  <2>. QED
    BY <1>1, <2>1 DEF Quoting!Adds, Quoted
<1>8. ASSUME c = Quoting!DQ
      PROVE  /\ Quoting!Reads(Within(ws, w), c) = double
             /\ Quoting!Reads(double, c) = Within(ws, w)
  <2>1. /\ Quoting!Reads(Within(ws, w), c) = Quoting!Turns(Within(ws, w), "double")
        /\ Quoting!Reads(double, c) = Quoting!Turns(double, "plain")
    BY <1>1, <1>2, <1>8, Different DEF Quoting!Reads
  <2>2. Quoting!Turns(Within(ws, w), "double") = double
    BY <1>1 DEF Quoting!Turns, double
  <2>3. Quoting!Turns(double, "plain") = Within(ws, w)
    BY <1>2 DEF Quoting!Turns, Within
  <2>. QED
    BY <2>1, <2>2, <2>3
<1>9. ASSUME c = Quoting!SQ
      PROVE  Quoting!Reads(double, c) = Quoting!In("double", ws, w \o <<c>>)
  <2>1. Quoting!Reads(double, c) = Quoting!Adds(double, <<c>>, "double")
    BY <1>2, <1>9, Different DEF Quoting!Reads
  <2>. QED
    BY <1>2, <2>1 DEF Quoting!Adds
<1>. QED
  BY <1>3, <1>4, <1>5, <1>6, <1>7, <1>8, <1>9 DEF double

LEMMA PlacesAre ==
    ASSUME NEW ws \in WordLists, NEW w \in Line
    PROVE  /\ After(ws) \in Quoting!States /\ Within(ws, w) \in Quoting!States
           /\ Quoted(ws, w) \in Quoting!States /\ Quoting!In("double", ws, w) \in Quoting!States
BY StatesAre, ListsGrow DEF After, Within, Quoted, Modes

\* shellQuote's piece for one character.
Piece(c) ==
    IF c = Quoting!SQ
    THEN <<Quoting!SQ, Quoting!DQ, Quoting!SQ, Quoting!DQ, Quoting!SQ>> ELSE <<c>>

\* Tuples, one element after the other.
LEMMA ThreeOnes ==
    ASSUME NEW x1, NEW x2, NEW x3
    PROVE  Append(Append(Append(<< >>, x1), x2), x3) = <<x1, x2, x3>>
<1>1. <<x1>> = Append(<< >>, x1)
  OBVIOUS
<1>2. <<x1, x2>> = Append(<<x1>>, x2)
  OBVIOUS
<1>3. <<x1, x2, x3>> = Append(<<x1, x2>>, x3)
  OBVIOUS
<1>. QED
  BY <1>1, <1>2, <1>3, Zenon

LEMMA FourOnes ==
    ASSUME NEW x1, NEW x2, NEW x3, NEW x4
    PROVE  Append(Append(Append(Append(<< >>, x1), x2), x3), x4) = <<x1, x2, x3, x4>>
<1>1. <<x1, x2, x3, x4>> = Append(<<x1, x2, x3>>, x4)
  OBVIOUS
<1>. QED
  BY <1>1, ThreeOnes, Zenon

LEMMA FiveOnes ==
    ASSUME NEW x1, NEW x2, NEW x3, NEW x4, NEW x5
    PROVE  <<x1, x2, x3, x4, x5>> = <<x1>> \o (<<x2>> \o (<<x3>> \o (<<x4>> \o <<x5>>)))
<1>1. <<x4, x5>> = <<x4>> \o <<x5>>
  <2>1. <<x4>> \in Seq({x4, x5}) /\ x5 \in {x4, x5}
    OBVIOUS
  <2>2. <<x4, x5>> = Append(<<x4>>, x5)
    OBVIOUS
  <2>. QED
    BY <2>1, <2>2, AppendIsConcat, Zenon
<1>2. <<x3, x4, x5>> = <<x3>> \o <<x4, x5>>
  OBVIOUS
<1>3. <<x2, x3, x4, x5>> = <<x2>> \o <<x3, x4, x5>>
  OBVIOUS
<1>4. <<x1, x2, x3, x4, x5>> = <<x1>> \o <<x2, x3, x4, x5>>
  OBVIOUS
<1>. QED
  BY <1>1, <1>2, <1>3, <1>4, Zenon

LEMMA ReadsPiece ==
    ASSUME NEW ws \in WordLists, NEW w \in Line, NEW c \in Quoting!LineChars
    PROVE  /\ Piece(c) \in Line
           /\ Quoting!Reading[Piece(c)][Quoted(ws, w)] = Quoted(ws, w \o <<c>>)
<1>1. w \o <<c>> \in Line
  BY DEF Line
<1>2. CASE c # Quoting!SQ
  BY <1>2, Moves, PlacesAre, ReadingOne DEF Piece
<1>3. CASE c = Quoting!SQ
  <2>. DEFINE sq == <<Quoting!SQ>>
              dq == <<Quoting!DQ>>
              u == w \o sq
              Double(v) == Quoting!In("double", ws, v)
  <2>1. Quoting!SQ \in Quoting!LineChars /\ Quoting!DQ \in Quoting!LineChars
    BY DEF Quoting!LineChars, Quoting!Chars
  <2>2. sq \in Line /\ dq \in Line /\ u \in Line
    BY <1>1, <1>3, <2>1, ReadingOne, PlacesAre
  <2>3. Piece(c) = sq \o (dq \o (sq \o (dq \o sq)))
    BY <1>3, FiveOnes DEF Piece
  <2>4. /\ Double(w) \in Quoting!States /\ Double(u) \in Quoting!States
        /\ Within(ws, w) \in Quoting!States /\ Within(ws, u) \in Quoting!States
        /\ Quoted(ws, w) \in Quoting!States
    BY <2>2, PlacesAre
  <2>5. /\ Quoting!Reading[sq][Quoted(ws, w)] = Within(ws, w)
        /\ Quoting!Reading[sq][Double(w)] = Double(u)
        /\ Quoting!Reading[sq][Within(ws, u)] = Quoted(ws, u)
    BY <2>1, <2>2, <2>4, Moves, ReadingOne
  <2>6. /\ Quoting!Reading[dq][Within(ws, w)] = Double(w)
        /\ Quoting!Reading[dq][Double(u)] = Within(ws, u)
    BY <2>1, <2>2, <2>4, Moves, ReadingOne
  <2>7. u = w \o <<c>>
    BY <1>3
  <2>. HIDE DEF sq, dq, Double, u
  <2>8. /\ dq \o sq \in Line /\ sq \o (dq \o sq) \in Line /\ dq \o (sq \o (dq \o sq)) \in Line
        /\ Piece(c) \in Line
    BY <2>2, <2>3, LineConcat
  <2>9. Quoting!Reading[dq \o sq][Double(u)] = Quoted(ws, u)
    BY <2>2, <2>4, <2>5, <2>6, ReadingParts
  <2>10. Quoting!Reading[sq \o (dq \o sq)][Double(w)] = Quoted(ws, u)
    BY <2>2, <2>4, <2>5, <2>8, <2>9, ReadingParts
  <2>11. Quoting!Reading[dq \o (sq \o (dq \o sq))][Within(ws, w)] = Quoted(ws, u)
    BY <2>2, <2>4, <2>6, <2>8, <2>10, ReadingParts
  <2>12. Quoting!Reading[Piece(c)][Quoted(ws, w)] = Quoted(ws, u)
    BY <2>2, <2>3, <2>4, <2>5, <2>8, <2>11, ReadingParts
  <2>. QED
    BY <2>7, <2>8, <2>12
<1>. QED
  BY <1>2, <1>3

-----------------------------------------------------------------------------
(* ShellQuote: quoted texts *)

\* Behind a word's text, a shell that was between words is in that word.
IsWord(u, a) ==
    /\ u \in Line /\ a \in Line
    /\ \A ws \in WordLists : Quoting!Reading[u][After(ws)] = Within(ws, a)

LEMMA OneCharMore ==
    ASSUME NEW t \in Line, NEW i \in Nat, i + 1 \in 1..Len(t)
    PROVE  SubSeq(t, 1, i + 1) = SubSeq(t, 1, i) \o <<t[i + 1]>>
<1>1. 1 \in 1..Len(t) /\ i + 1 \in 1..Len(t) /\ (i + 1) - 1 = i
  BY DEF Line
<1>. DEFINE n == i + 1
<1>. HIDE DEF n
<1>2. SubSeq(t, 1, n) = SubSeq(t, 1, n - 1) \o <<t[n]>>
  BY <1>1, SubSeqRecursiveSecond DEF Line, n
<1>. QED
  BY <1>1, <1>2 DEF n

\* The characters of a text between the outer quotes.
LEMMA QuotedChars ==
    ASSUME NEW t \in Line, NEW ws \in WordLists
    PROVE  LET body == Quoting!FlattenSeq([i \in DOMAIN t |-> Piece(t[i])]) IN
           /\ body \in Line
           /\ Quoting!Reading[body][Quoted(ws, << >>)] = Quoted(ws, t)
<1>. DEFINE seqs == [i \in DOMAIN t |-> Piece(t[i])]
            body == Quoting!FlattenSeq(seqs)
            n == Len(t)
<1>1. n \in Nat /\ DOMAIN t = 1..n /\ \A i \in 1..n : t[i] \in Quoting!LineChars
  BY DEF Line
<1>2. \A i \in 1..n : Piece(t[i]) \in Line
  BY <1>1, ReadsPiece, ListsGrow
<1>3. seqs \in Seq(Line) /\ Len(seqs) = n /\ \A i \in 1..n : seqs[i] = Piece(t[i])
  <2>. HIDE DEF n
  <2>. QED
    BY <1>1, <1>2
<1>4. << >> \in Line /\ Quoted(ws, << >>) \in Quoting!States
  BY ListsGrow, PlacesAre
<1>. HIDE DEF seqs
<1>5. CASE n = 0
  <2>1. seqs = << >> /\ t = << >>
    BY <1>1, <1>3, <1>5 DEF Line
  <2>2. body = << >>
    BY <2>1 DEF Quoting!FlattenSeq
  <2>. HIDE DEF body
  <2>3. Quoting!Reading[<< >>][Quoted(ws, << >>)] = Quoted(ws, << >>)
    BY <1>4, ReadingOf
  <2>4. body \in Line /\ Quoting!Reading[body][Quoted(ws, << >>)] = Quoted(ws, t)
    BY <1>4, <2>1, <2>2, <2>3
  <2>. QED
    BY <2>4 DEF body, seqs
<1>6. CASE n > 0
  <2>1. PICK f : /\ f[1] = seqs[1] /\ \A i \in 1..(n - 1) : f[i + 1] = f[i] \o seqs[i + 1]
                 /\ body = f[n]
    BY <1>1, <1>3, <1>6, FlattenSeqIs
  <2>. DEFINE Good(i) == /\ f[i] \in Line
                         /\ Quoting!Reading[f[i]][Quoted(ws, << >>)] = Quoted(ws, SubSeq(t, 1, i))
              S == {i \in Nat : i + 1 \in 1..n => Good(i + 1)}
  <2>. HIDE DEF body, n
  <2>2. ASSUME NEW i \in Nat, i + 1 \in 1..n
        PROVE  /\ SubSeq(t, 1, i) \in Line
               /\ Piece(t[i + 1]) \in Line
               /\ Quoting!Reading[Piece(t[i + 1])][Quoted(ws, SubSeq(t, 1, i))]
                     = Quoted(ws, SubSeq(t, 1, i + 1))
    <3>1. t[i + 1] \in Quoting!LineChars /\ i \in 0..n
      BY <1>1, <2>2
    <3>2. SubSeq(t, 1, i) \in Line
      BY <3>1, TwoParts DEF Line, n
    <3>3. SubSeq(t, 1, i + 1) = SubSeq(t, 1, i) \o <<t[i + 1]>>
      BY <2>2, OneCharMore DEF n
    <3>. DEFINE s == SubSeq(t, 1, i)
                c == t[i + 1]
    <3>. HIDE DEF s, c
    <3>4. c \in Quoting!LineChars /\ s \in Line /\ SubSeq(t, 1, i + 1) = s \o <<c>>
      BY <3>1, <3>2, <3>3 DEF s, c
    <3>5. Piece(c) \in Line /\ Quoting!Reading[Piece(c)][Quoted(ws, s)] = Quoted(ws, s \o <<c>>)
      BY <3>4, ReadsPiece
    <3>6. Quoting!Reading[Piece(c)][Quoted(ws, s)] = Quoted(ws, SubSeq(t, 1, i + 1))
      BY <3>4, <3>5, Zenon
    <3>. QED
      BY <3>2, <3>5, <3>6 DEF s, c
  <2>3. 0 \in S
    <3>1. 0 + 1 \in 1..n /\ 0 + 1 = 1
      BY <1>1, <1>6
    <3>2. f[1] = Piece(t[1])
      BY <1>3, <2>1, <3>1
    <3>3. SubSeq(t, 1, 0) = << >>
      BY DEF Line
    <3>4. Good(1)
      BY <2>2, <3>1, <3>2, <3>3
    <3>. HIDE DEF Good
    <3>. QED
      BY <3>4
  <2>4. ASSUME NEW i \in Nat, i \in S PROVE i + 1 \in S
    <3>. SUFFICES ASSUME (i + 1) + 1 \in 1..n PROVE Good((i + 1) + 1)
      <4>. HIDE DEF Good
      <4>. QED
        OBVIOUS
    <3>1. i + 1 \in Nat /\ i + 1 \in 1..n /\ i + 1 \in 1..(n - 1)
      BY <1>1
    <3>2. Good(i + 1)
      <4>. HIDE DEF Good
      <4>. QED
        BY <2>4, <3>1
    <3>. DEFINE j == i + 1
    <3>. HIDE DEF j
    <3>3. j \in Nat /\ j + 1 \in 1..n /\ j \in 1..n /\ j \in 1..(n - 1) /\ Good(j)
      <4>. HIDE DEF Good
      <4>. QED
        BY <3>1, <3>2 DEF j
    <3>4. f[j + 1] = f[j] \o Piece(t[j + 1])
      BY <1>3, <2>1, <3>3
    <3>5. Good(j + 1)
      <4>. DEFINE p == Piece(t[j + 1])
      <4>1. /\ p \in Line
            /\ Quoting!Reading[p][Quoted(ws, SubSeq(t, 1, j))] = Quoted(ws, SubSeq(t, 1, j + 1))
        BY <2>2, <3>3
      <4>. HIDE DEF p
      <4>2. f[j] \o p \in Line
        BY <3>3, <4>1, LineConcat
      <4>3. Quoting!Reading[f[j] \o p][Quoted(ws, << >>)]
                = Quoting!Reading[p][Quoting!Reading[f[j]][Quoted(ws, << >>)]]
        BY <1>4, <3>3, <4>1, ReadingParts
      <4>. QED
        BY <3>3, <3>4, <4>1, <4>2, <4>3 DEF p
    <3>. HIDE DEF Good
    <3>. QED
      BY <3>5 DEF j
  <2>5. Nat \subseteq S
    <3>. HIDE DEF S
    <3>. QED
      BY <2>3, <2>4, NatInduct
  <2>6. Good(n)
    <3>1. n - 1 \in Nat /\ (n - 1) + 1 \in 1..n /\ (n - 1) + 1 = n
      BY <1>1, <1>6
    <3>. HIDE DEF Good
    <3>. QED
      BY <2>5, <3>1
  <2>7. SubSeq(t, 1, n) = t
    BY SubSeqFull DEF Line, n
  <2>8. body \in Line /\ Quoting!Reading[body][Quoted(ws, << >>)] = Quoted(ws, t)
    BY <2>1, <2>6, <2>7
  <2>. QED
    BY <2>8 DEF body, seqs
<1>. QED
  BY <1>1, <1>5, <1>6

\* A quoted text is a word, and the shell that reads it has the text.
LEMMA QuoteIsWord ==
    ASSUME NEW t \in Line
    PROVE  IsWord(Quoting!Quote(t), t)
<1>. DEFINE body == Quoting!FlattenSeq([i \in DOMAIN t |-> Piece(t[i])])
            sq == <<Quoting!SQ>>
<1>1. Quoting!Quote(t) = (sq \o body) \o sq
  BY DEF Quoting!Quote, Piece
<1>2. << >> \in WordLists /\ << >> \in Line /\ Quoting!SQ \in Quoting!LineChars
  BY ListsGrow DEF Quoting!LineChars, Quoting!Chars
<1>3. body \in Line
  BY <1>2, QuotedChars
<1>4. sq \in Line
  BY <1>2, ReadingOne, PlacesAre
<1>. HIDE DEF body
<1>5. sq \o body \in Line /\ (sq \o body) \o sq \in Line
  BY <1>3, <1>4, LineConcat
<1>6. ASSUME NEW ws \in WordLists
      PROVE  Quoting!Reading[(sq \o body) \o sq][After(ws)] = Within(ws, t)
  <2>1. After(ws) \in Quoting!States /\ Quoted(ws, << >>) \in Quoting!States
        /\ Quoted(ws, t) \in Quoting!States
    BY <1>2, PlacesAre
  <2>2. Quoting!Reading[sq][After(ws)] = Quoted(ws, << >>)
    BY <1>2, <2>1, Moves, ReadingOne
  <2>3. Quoting!Reading[body][Quoted(ws, << >>)] = Quoted(ws, t)
    BY QuotedChars DEF body
  <2>4. Quoting!Reading[sq][Quoted(ws, t)] = Within(ws, t)
    BY <1>2, <2>1, Moves, ReadingOne
  <2>. HIDE DEF sq
  <2>5. Quoting!Reading[sq \o body][After(ws)] = Quoted(ws, t)
    BY <1>3, <1>4, <2>1, <2>2, <2>3, ReadingParts
  <2>. QED
    BY <1>4, <1>5, <2>1, <2>4, <2>5, ReadingParts
<1>. QED
  BY <1>1, <1>5, <1>6 DEF IsWord

\* The words of the commands that the code puts together are words.
LEMMA CharIsWord ==
    ASSUME NEW c \in {"x", "cd", "bash", "-lc", "nohup"}
    PROVE  IsWord(<<c>>, <<c>>)
<1>1. c \in Quoting!LineChars
  BY DEF Quoting!LineChars, Quoting!Chars
<1>2. << >> \in Line
  BY ListsGrow
<1>3. <<c>> \in Line
  BY <1>1, <1>2, ReadingOne, PlacesAre, ListsGrow
<1>4. ASSUME NEW ws \in WordLists
      PROVE  Quoting!Reading[<<c>>][After(ws)] = Within(ws, <<c>>)
  <2>1. After(ws) \in Quoting!States
    BY <1>2, PlacesAre
  <2>2. Quoting!Reading[<<c>>][After(ws)] = Quoting!Reads(After(ws), c)
    BY <1>1, <2>1, ReadingOne
  <2>3. Quoting!Reads(After(ws), c) = Within(ws, <<c>>)
    BY <1>1, <1>2, Moves
  <2>. QED
    BY <2>2, <2>3
<1>. QED
  BY <1>3, <1>4 DEF IsWord

\* A word and the space behind it.
LEMMA WordThenSpace ==
    ASSUME NEW u, NEW a, IsWord(u, a)
    PROVE  /\ u \o <<Quoting!SP>> \in Line
           /\ \A ws \in WordLists :
                 /\ Append(ws, a) \in WordLists
                 /\ Quoting!Reading[u \o <<Quoting!SP>>][After(ws)] = After(Append(ws, a))
<1>. DEFINE sp == <<Quoting!SP>>
<1>1. Quoting!SP \in Quoting!LineChars
  BY DEF Quoting!LineChars, Quoting!Chars
<1>2. u \in Line /\ a \in Line /\ sp \in Line /\ << >> \in Line
  BY <1>1, ReadingOne, PlacesAre, ListsGrow DEF IsWord
<1>3. ASSUME NEW ws \in WordLists
      PROVE  /\ Append(ws, a) \in WordLists
             /\ Quoting!Reading[u \o sp][After(ws)] = After(Append(ws, a))
  <2>1. After(ws) \in Quoting!States /\ Within(ws, a) \in Quoting!States
    BY <1>2, PlacesAre
  <2>2. Quoting!Reading[u][After(ws)] = Within(ws, a)
    BY DEF IsWord
  <2>3. Quoting!Reading[sp][Within(ws, a)] = After(Append(ws, a))
    BY <1>1, <1>2, <2>1, Moves, ReadingOne
  <2>4. Append(ws, a) \in WordLists
    BY <1>2, ListsGrow
  <2>. HIDE DEF sp
  <2>. QED
    BY <1>2, <2>1, <2>2, <2>3, <2>4, ReadingParts
<1>4. u \o sp \in Line
  <2>. HIDE DEF sp
  <2>. QED
    BY <1>2, LineConcat
<1>. QED
  BY <1>3, <1>4

\* A shell that is between words, behind a command of three or of four words.
LEMMA ThreeWords ==
    ASSUME NEW u, NEW v, NEW w, NEW a, NEW b, NEW c,
           IsWord(u, a), IsWord(v, b), IsWord(w, c)
    PROVE  /\ Quoting!Say(<<u, v, w>>) \in Line
           /\ \A ws \in WordLists :
                 Quoting!Reading[Quoting!Say(<<u, v, w>>)][After(ws)]
                    = After(Append(Append(Append(ws, a), b), c))
<1>. DEFINE p == u \o <<Quoting!SP>>
            q == v \o <<Quoting!SP>>
            r == w \o <<Quoting!SP>>
<1>1. u \in Line /\ v \in Line /\ w \in Line
  BY DEF IsWord
<1>2. Quoting!Say(<<u, v, w>>) = p \o q \o r
  BY <1>1, SaysThree
<1>3. p \in Line /\ q \in Line /\ r \in Line
  BY WordThenSpace
<1>4. \A ws \in WordLists :
         /\ Append(ws, a) \in WordLists /\ Append(ws, b) \in WordLists /\ Append(ws, c) \in WordLists
         /\ Quoting!Reading[p][After(ws)] = After(Append(ws, a))
         /\ Quoting!Reading[q][After(ws)] = After(Append(ws, b))
         /\ Quoting!Reading[r][After(ws)] = After(Append(ws, c))
  BY WordThenSpace
<1>. HIDE DEF p, q, r
<1>5. p \o q \in Line /\ p \o q \o r \in Line
  BY <1>3, LineConcat
<1>6. \A ws \in WordLists : After(ws) \in Quoting!States
  <2>1. << >> \in Line
    BY ListsGrow
  <2>. QED
    BY <2>1, PlacesAre
<1>7. ASSUME NEW ws \in WordLists
      PROVE  Quoting!Reading[p \o q \o r][After(ws)] = After(Append(Append(Append(ws, a), b), c))
  <2>. DEFINE one == Append(ws, a)
              two == Append(one, b)
  <2>1. one \in WordLists /\ Quoting!Reading[p][After(ws)] = After(one)
    BY <1>4
  <2>. HIDE DEF one
  <2>2. two \in WordLists /\ Quoting!Reading[q][After(one)] = After(two)
    BY <1>4, <2>1
  <2>. HIDE DEF two
  <2>3. Quoting!Reading[r][After(two)] = After(Append(two, c))
    BY <1>4, <2>2
  <2>4. After(ws) \in Quoting!States
    BY <1>6
  <2>5. Quoting!Reading[p \o q][After(ws)] = After(two)
    BY <1>3, <2>1, <2>2, <2>4, ReadingParts
  <2>6. Quoting!Reading[p \o q \o r][After(ws)] = After(Append(two, c))
    BY <1>3, <1>5, <2>3, <2>4, <2>5, ReadingParts
  <2>. QED
    BY <2>6 DEF one, two
<1>. QED
  BY <1>2, <1>5, <1>7

LEMMA FourWords ==
    ASSUME NEW u, NEW v, NEW w, NEW x, NEW a, NEW b, NEW c, NEW d,
           IsWord(u, a), IsWord(v, b), IsWord(w, c), IsWord(x, d)
    PROVE  /\ Quoting!Say(<<u, v, w, x>>) \in Line
           /\ \A ws \in WordLists :
                 Quoting!Reading[Quoting!Say(<<u, v, w, x>>)][After(ws)]
                    = After(Append(Append(Append(Append(ws, a), b), c), d))
<1>. DEFINE s == Quoting!Say(<<u, v, w>>)
            t == x \o <<Quoting!SP>>
<1>1. u \in Line /\ v \in Line /\ w \in Line /\ x \in Line
  BY DEF IsWord
<1>2. Quoting!Say(<<u, v, w, x>>) = s \o t
  <2>1. \A e, f, g, h \in Line :
           Quoting!Say(<<e, f, g, h>>) = Quoting!Say(<<e, f, g>>) \o (h \o <<Quoting!SP>>)
    BY SaysFour
  <2>2. \A f, g, h \in Line :
           Quoting!Say(<<u, f, g, h>>) = Quoting!Say(<<u, f, g>>) \o (h \o <<Quoting!SP>>)
    BY <1>1, <2>1, Zenon
  <2>3. \A g, h \in Line :
           Quoting!Say(<<u, v, g, h>>) = Quoting!Say(<<u, v, g>>) \o (h \o <<Quoting!SP>>)
    BY <1>1, <2>2, Zenon
  <2>. QED
    BY <1>1, <2>3, Zenon
<1>3. s \in Line
  BY ThreeWords
<1>4. t \in Line
  BY WordThenSpace
<1>. DEFINE more(ws) == Append(Append(Append(ws, a), b), c)
<1>5. ASSUME NEW ws \in WordLists
      PROVE  /\ more(ws) \in WordLists
             /\ Quoting!Reading[s][After(ws)] = After(more(ws))
             /\ Quoting!Reading[t][After(more(ws))] = After(Append(more(ws), d))
  <2>1. more(ws) \in WordLists
    BY WordThenSpace
  <2>2. Quoting!Reading[s][After(ws)] = After(more(ws))
    BY ThreeWords
  <2>. HIDE DEF more
  <2>3. Quoting!Reading[t][After(more(ws))] = After(Append(more(ws), d))
    BY <2>1, WordThenSpace
  <2>. QED
    BY <2>1, <2>2, <2>3
<1>. HIDE DEF s, t
<1>6. s \o t \in Line
  BY <1>3, <1>4, LineConcat
<1>7. ASSUME NEW ws \in WordLists
      PROVE  Quoting!Reading[s \o t][After(ws)] = After(Append(more(ws), d))
  <2>1. After(ws) \in Quoting!States
    BY ListsGrow, PlacesAre
  <2>. HIDE DEF more
  <2>. QED
    BY <1>3, <1>4, <1>5, <2>1, ReadingParts
<1>. QED
  BY <1>2, <1>6, <1>7

\* What a shell that starts with a line makes of it.
LEMMA WordsOf ==
    ASSUME NEW line
    PROVE  /\ \A ws : Quoting!Reading[line][After(<< >>)] = After(ws) => Quoting!Words(line) = ws
           /\ \A ws, w : Quoting!Reading[line][After(<< >>)] = Within(ws, w) =>
                            Quoting!Words(line) = Append(ws, w)
<1>1. Quoting!Start = After(<< >>)
  BY DEF Quoting!Start, After
<1>2. ASSUME NEW ws, Quoting!Reading[line][After(<< >>)] = After(ws)
      PROVE  Quoting!Words(line) = ws
  <2>1. After(ws).mode = "between" /\ After(ws).words = ws
    BY InIs DEF After
  <2>. QED
    BY <1>1, <1>2, <2>1 DEF Quoting!Words, Quoting!EndsWord
<1>3. ASSUME NEW ws, NEW w, Quoting!Reading[line][After(<< >>)] = Within(ws, w)
      PROVE  Quoting!Words(line) = Append(ws, w)
  <2>1. Within(ws, w).mode = "plain" /\ Within(ws, w).words = ws /\ Within(ws, w).word = w
    BY InIs DEF Within
  <2>2. Quoting!EndsWord(Within(ws, w)) = After(Append(ws, w))
    BY <2>1 DEF Quoting!EndsWord, After
  <2>3. After(Append(ws, w)).words = Append(ws, w)
    <3>. DEFINE q == Append(ws, w)
    <3>. HIDE DEF q
    <3>1. After(q).words = q
      BY InIs DEF After
    <3>. QED
      BY <3>1 DEF q
  <2>. QED
    BY <1>1, <1>3, <2>1, <2>2, <2>3 DEF Quoting!Words
<1>. QED
  BY <1>2, <1>3

LEMMA WordsOfThree ==
    ASSUME NEW u, NEW v, NEW w, NEW a, NEW b, NEW c,
           IsWord(u, a), IsWord(v, b), IsWord(w, c)
    PROVE  Quoting!Words(Quoting!Say(<<u, v, w>>)) = <<a, b, c>>
<1>1. << >> \in WordLists
  BY ListsGrow
<1>2. Append(Append(Append(<< >>, a), b), c) = <<a, b, c>>
  BY ThreeOnes, Zenon
<1>3. Quoting!Reading[Quoting!Say(<<u, v, w>>)][After(<< >>)] = After(<<a, b, c>>)
  <2>1. \A ws \in WordLists : Quoting!Reading[Quoting!Say(<<u, v, w>>)][After(ws)]
                                 = After(Append(Append(Append(ws, a), b), c))
    BY ThreeWords
  <2>. QED
    BY <1>1, <1>2, <2>1, Zenon
<1>. QED
  BY <1>3, WordsOf

LEMMA WordsOfFour ==
    ASSUME NEW u, NEW v, NEW w, NEW x, NEW a, NEW b, NEW c, NEW d,
           IsWord(u, a), IsWord(v, b), IsWord(w, c), IsWord(x, d)
    PROVE  Quoting!Words(Quoting!Say(<<u, v, w, x>>)) = <<a, b, c, d>>
<1>1. << >> \in WordLists
  BY ListsGrow
<1>2. Append(Append(Append(Append(<< >>, a), b), c), d) = <<a, b, c, d>>
  BY FourOnes, Zenon
<1>3. Quoting!Reading[Quoting!Say(<<u, v, w, x>>)][After(<< >>)] = After(<<a, b, c, d>>)
  <2>1. \A ws \in WordLists : Quoting!Reading[Quoting!Say(<<u, v, w, x>>)][After(ws)]
                                 = After(Append(Append(Append(Append(ws, a), b), c), d))
    BY FourWords
  <2>. QED
    BY <1>1, <1>2, <2>1, Zenon
<1>. QED
  BY <1>3, WordsOf

\* The command of a shell that changes to a directory and runs the command there.
LEMMA InDirectoryIs ==
    ASSUME NEW dir \in Line
    PROVE  /\ Quoting!InDirectory(dir, Quoting!Command) \in Line
           /\ Quoting!Words(Quoting!InDirectory(dir, Quoting!Command)) = Quoting!Changes(dir)
<1>. DEFINE x == <<"x">>
<1>1. IsWord(x, x) /\ IsWord(<<"cd">>, <<"cd">>) /\ IsWord(Quoting!Quote(dir), dir)
  BY CharIsWord, QuoteIsWord
<1>2. Quoting!Command = x
  BY DEF Quoting!Command
<1>3. << >> \in WordLists /\ << >> \in Line
  BY ListsGrow
<1>4. CASE dir = << >>
  <2>1. Quoting!InDirectory(dir, Quoting!Command) = x /\ Quoting!Changes(dir) = <<x>>
    BY <1>2, <1>4 DEF Quoting!InDirectory, Quoting!Changes
  <2>. HIDE DEF x
  <2>2. x \in Line /\ Quoting!Reading[x][After(<< >>)] = Within(<< >>, x)
    BY <1>1, <1>3 DEF IsWord
  <2>3. Quoting!Words(x) = Append(<< >>, x)
    BY <2>2, WordsOf
  <2>4. Append(<< >>, x) = <<x>>
    OBVIOUS
  <2>. QED
    BY <2>1, <2>2, <2>3, <2>4, Zenon
<1>5. CASE dir # << >>
  <2>. DEFINE and == <<Quoting!AND>>
              sp == <<Quoting!SP>>
              cd == <<"cd">>
              u == cd \o sp
              v == Quoting!Quote(dir) \o sp
              w == and \o sp
              is == <<"and">>
              one == Append(<< >>, cd)
              two == Append(one, dir)
              three == Append(two, is)
  <2>1. Quoting!AND \in Quoting!LineChars /\ Quoting!SP \in Quoting!LineChars
    BY DEF Quoting!LineChars, Quoting!Chars
  <2>2. and \in Line /\ sp \in Line
    BY <1>3, <2>1, ReadingOne, PlacesAre
  <2>3. cd \in Line /\ Quoting!Quote(dir) \in Line /\ x \in Line
    BY <1>1 DEF IsWord
  <2>4. /\ Quoting!InDirectory(dir, Quoting!Command) = Quoting!Say(<<cd, Quoting!Quote(dir), and>>) \o x
        /\ Quoting!Changes(dir) = <<cd, dir, is, x>>
    BY <1>2, <1>5 DEF Quoting!InDirectory, Quoting!Changes
  <2>5. Quoting!Say(<<cd, Quoting!Quote(dir), and>>) = u \o v \o w
    <3>. HIDE DEF and, cd
    <3>. QED
      BY <2>2, <2>3, SaysThree, ZenonT(30)
  <2>6. /\ u \in Line /\ v \in Line /\ one \in WordLists /\ two \in WordLists
        /\ Quoting!Reading[u][After(<< >>)] = After(one)
        /\ Quoting!Reading[v][After(one)] = After(two)
    <3>1. u \in Line /\ one \in WordLists /\ Quoting!Reading[u][After(<< >>)] = After(one)
      BY <1>1, <1>3, WordThenSpace
    <3>. HIDE DEF one
    <3>2. v \in Line /\ two \in WordLists /\ Quoting!Reading[v][After(one)] = After(two)
      BY <1>1, <3>1, WordThenSpace
    <3>. QED
      BY <3>1, <3>2
  <2>. HIDE DEF two
  <2>7. three \in WordLists
    BY <2>6, ListsGrow
  <2>8. /\ After(<< >>) \in Quoting!States /\ After(one) \in Quoting!States
        /\ After(two) \in Quoting!States /\ After(three) \in Quoting!States
    <3>. HIDE DEF one, three
    <3>. QED
      BY <1>3, <2>6, <2>7, PlacesAre
  <2>9. w \in Line /\ Quoting!Reading[w][After(two)] = After(three)
    <3>1. Quoting!Reading[and][After(two)] = After(three)
      <4>1. Quoting!Reading[and][After(two)] = Quoting!Reads(After(two), Quoting!AND)
        BY <2>1, <2>8, ReadingOne
      <4>2. Quoting!Reads(After(two), Quoting!AND) = After(Append(two, <<"and">>))
        BY <1>3, <2>1, <2>6, Moves
      <4>. QED
        BY <4>1, <4>2
    <3>. HIDE DEF three
    <3>2. Quoting!Reading[sp][After(three)] = After(three)
      <4>1. Quoting!Reading[sp][After(three)] = Quoting!Reads(After(three), Quoting!SP)
        BY <2>1, <2>8, ReadingOne
      <4>2. Quoting!Reads(After(three), Quoting!SP) = After(three)
        BY <1>3, <2>1, <2>7, Moves
      <4>. QED
        BY <4>1, <4>2
    <3>. HIDE DEF and, sp
    <3>3. Quoting!Reading[and \o sp][After(two)] = After(three)
      BY <2>2, <2>8, <3>1, <3>2, ReadingParts
    <3>4. and \o sp \in Line
      BY <2>2, LineConcat
    <3>. QED
      BY <3>3, <3>4
  <2>10. Quoting!Reading[x][After(three)] = Within(three, x)
    BY <1>1, <2>7 DEF IsWord
  <2>. HIDE DEF u, v, w, x
  <2>11. u \o v \in Line /\ u \o v \o w \in Line /\ u \o v \o w \o x \in Line
    BY <2>3, <2>6, <2>9, LineConcat
  <2>. HIDE DEF one, three, cd, is, and, sp
  <2>12. Quoting!Reading[u \o v][After(<< >>)] = After(two)
    BY <2>6, <2>8, ReadingParts
  <2>13. Quoting!Reading[u \o v \o w][After(<< >>)] = After(three)
    <3>1. Quoting!Reading[u \o v \o w][After(<< >>)]
             = Quoting!Reading[w][Quoting!Reading[u \o v][After(<< >>)]]
      BY <2>8, <2>9, <2>11, ReadingParts
    <3>. QED
      BY <2>9, <2>12, <3>1
  <2>14. Quoting!Reading[u \o v \o w \o x][After(<< >>)] = Within(three, x)
    <3>1. Quoting!Reading[u \o v \o w \o x][After(<< >>)]
             = Quoting!Reading[x][Quoting!Reading[u \o v \o w][After(<< >>)]]
      BY <2>3, <2>8, <2>11, ReadingParts
    <3>. QED
      BY <2>10, <2>13, <3>1
  <2>15. Quoting!Words(u \o v \o w \o x) = Append(three, x)
    BY <2>14, WordsOf
  <2>16. Append(three, x) = <<cd, dir, is, x>>
    BY FourOnes, Zenon DEF one, two, three
  <2>. QED
    BY <2>4, <2>5, <2>11, <2>15, <2>16, Zenon
<1>. QED
  BY <1>4, <1>5

-----------------------------------------------------------------------------
(* ShellQuote: the directory *)

LEMMA RemoteCommandIs ==
    ASSUME NEW dir \in Line, NEW command
    PROVE  LET line == Quoting!InDirectory(dir, command) IN
           line \in Line =>
              /\ Quoting!RemoteCommand(dir, command) \in Line
              /\ Quoting!Words(Quoting!RemoteCommand(dir, command)) = <<<<"bash">>, <<"-lc">>, line>>
              /\ Quoting!NohupCommand(dir, command) \in Line
              /\ Quoting!Words(Quoting!NohupCommand(dir, command))
                    = <<<<"nohup">>, <<"bash">>, <<"-lc">>, line>>
<1>. DEFINE line == Quoting!InDirectory(dir, command)
<1>. SUFFICES ASSUME line \in Line
              PROVE  /\ Quoting!RemoteCommand(dir, command) \in Line
                     /\ Quoting!Words(Quoting!RemoteCommand(dir, command))
                           = <<<<"bash">>, <<"-lc">>, line>>
                     /\ Quoting!NohupCommand(dir, command) \in Line
                     /\ Quoting!Words(Quoting!NohupCommand(dir, command))
                           = <<<<"nohup">>, <<"bash">>, <<"-lc">>, line>>
  OBVIOUS
<1>. DEFINE bash == <<"bash">>
            lc == <<"-lc">>
            nohup == <<"nohup">>
<1>1. IsWord(bash, bash) /\ IsWord(lc, lc) /\ IsWord(nohup, nohup)
  BY CharIsWord
<1>2. /\ Quoting!RemoteCommand(dir, command) = Quoting!Say(<<bash, lc, Quoting!Quote(line)>>)
      /\ Quoting!NohupCommand(dir, command)
            = Quoting!Say(<<nohup, bash, lc, Quoting!Quote(line)>>)
  BY DEF Quoting!RemoteCommand, Quoting!NohupCommand
<1>. HIDE DEF line, bash, lc, nohup
<1>3. IsWord(Quoting!Quote(line), line)
  BY QuoteIsWord
<1>4. << >> \in WordLists
  BY ListsGrow
<1>5. /\ Quoting!Say(<<bash, lc, Quoting!Quote(line)>>) \in Line
      /\ Quoting!Words(Quoting!Say(<<bash, lc, Quoting!Quote(line)>>)) = <<bash, lc, line>>
  BY <1>1, <1>3, ThreeWords, WordsOfThree
<1>6. /\ Quoting!Say(<<nohup, bash, lc, Quoting!Quote(line)>>) \in Line
      /\ Quoting!Words(Quoting!Say(<<nohup, bash, lc, Quoting!Quote(line)>>))
            = <<nohup, bash, lc, line>>
  BY <1>1, <1>3, FourWords, WordsOfFour
<1>. QED
  BY <1>2, <1>5, <1>6 DEF bash, lc, nohup

\* What DirectoryKept says, of every text.
LEMMA KeptFor ==
    ASSUME text \in Seq(Quoting!Chars)
    PROVE  Quoting!DirectoryKept
<1>1. text \in Line /\ << >> \in Line
  BY DEF Line, Quoting!LineChars
<1>. DEFINE inner == Quoting!InDirectory(text, Quoting!Command)
            exec == Quoting!Words(Quoting!RemoteCommand(text, Quoting!Command))
            nohup == Quoting!NohupCommand(text, Quoting!Command)
            login == Quoting!Words(Quoting!RemoteCommand(<< >>, nohup))
            bash == Quoting!Words(login[3])
<1>2. inner \in Line /\ Quoting!Words(inner) = Quoting!Changes(text)
  BY <1>1, InDirectoryIs
<1>3. /\ exec = <<<<"bash">>, <<"-lc">>, inner>>
      /\ nohup \in Line
      /\ Quoting!Words(nohup) = <<<<"nohup">>, <<"bash">>, <<"-lc">>, inner>>
  BY <1>1, <1>2, RemoteCommandIs
<1>4. Quoting!InDirectory(<< >>, nohup) = nohup
  BY DEF Quoting!InDirectory
<1>. HIDE DEF nohup, inner, exec
<1>5. login = <<<<"bash">>, <<"-lc">>, nohup>>
  BY <1>1, <1>3, <1>4, RemoteCommandIs
<1>. HIDE DEF login
<1>6. Len(login) = 3 /\ login[3] = nohup
  BY <1>5
<1>7. Len(exec) = 3 /\ exec[3] = inner
  BY <1>3
<1>8. Len(bash) = 4 /\ bash[4] = inner
  <2>1. bash = <<<<"nohup">>, <<"bash">>, <<"-lc">>, inner>>
    BY <1>3, <1>6
  <2>. HIDE DEF bash
  <2>. QED
    BY <2>1
<1>. HIDE DEF bash
<1>9. /\ Len(exec) = 3 /\ Quoting!Words(exec[3]) = Quoting!Changes(text)
      /\ Len(login) = 3 /\ Len(bash) = 4 /\ Quoting!Words(bash[4]) = Quoting!Changes(text)
  BY <1>2, <1>6, <1>7, <1>8
<1>. QED
  BY <1>9 DEF Quoting!DirectoryKept, exec, login, bash, nohup

\* exec and job run change to exactly the directory asked for, whatever characters its
\* name has and however long it is.
THEOREM DirectoryIsKept == Quoting!Spec => []DirectoryKept
<1>. DEFINE Texts == text \in Seq(Quoting!Chars)
<1>1. Quoting!Init => Texts
  BY DEF Quoting!Init
<1>2. Texts /\ [Quoting!Types]_text => Texts'
  <2>1. ASSUME Texts, Quoting!Types PROVE Texts'
    <3>1. PICK c \in Quoting!Chars : text' = Append(text, c)
      BY <2>1 DEF Quoting!Types
    <3>. QED
      BY <2>1, <3>1
  <2>2. ASSUME Texts, text' = text PROVE Texts'
    BY <2>2
  <2>. QED
    BY <2>1, <2>2
<1>3. Texts => DirectoryKept
  BY KeptFor DEF DirectoryKept
<1>. QED
  BY <1>1, <1>2, <1>3, PTL DEF Quoting!Spec
=============================================================================
