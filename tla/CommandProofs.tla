---------------------------- MODULE CommandProofs ----------------------------
(***************************************************************************)
(* Proofs about the parts of Commands, each for itself and for all of its   *)
(* constants.  A section has the inductive invariant of a part by its named *)
(* conjuncts (SecretInv, ServerInv, TransferInv, BookInv, HealthInv,        *)
(* KitInv, CallInv, ParserInv, ScanInv), a lemma per group of actions, and  *)
(* the theorems.                                                            *)
(***************************************************************************)
EXTENDS Commands, Integers, Functions, SequenceTheorems, FiniteSetTheorems,
        WellFoundedInduction, TLAPS

-----------------------------------------------------------------------------
(* Passwords *)

\* A password that is kept, or is about to be, without a secret_ref is under the account for
\* which it was typed.
OwnPassword ==
    /\ \A r \in DOMAIN keychain : keychain[r].byRef \/ keychain[r].account = r
    /\ setting.pc = "prompt" => setting.secret.byRef \/ setting.secret.account = setting.ref

SecretInv == Secrets!TypeOK /\ OwnPassword

LEMMA SecretInit == Secrets!Init => SecretInv
<1>. SUFFICES ASSUME Secrets!Init PROVE SecretInv
  OBVIOUS
<1>1. inv \in [{} -> Secrets!Entries] /\ {} \in SUBSET Aliases
  BY DEF Secrets!Init, Secrets!Nobody
<1>2. Secrets!TypeOK
  BY <1>1 DEF Secrets!Init, Secrets!Idle, Secrets!TypeOK
<1>3. OwnPassword
  BY DEF Secrets!Init, Secrets!Idle, OwnPassword
<1>. QED
  BY <1>2, <1>3 DEF SecretInv

LEMMA SecretNext == SecretInv /\ [Secrets!Next]_(Secrets!vars) => SecretInv'
<1>. SUFFICES ASSUME SecretInv, [Secrets!Next]_(Secrets!vars) PROVE SecretInv'
  OBVIOUS
<1>. USE DEF SecretInv
<1>1. ASSUME NEW a \in Aliases, Secrets!RemovesHost(a) PROVE SecretInv'
  <2>1. PICK A \in SUBSET Aliases : inv \in [A -> Secrets!Entries]
    BY DEF Secrets!TypeOK
  <2>2. inv' \in [A \ {a} -> Secrets!Entries] /\ A \ {a} \in SUBSET Aliases
    BY <1>1, <2>1 DEF Secrets!RemovesHost
  <2>. QED
    BY <1>1, <2>2 DEF Secrets!RemovesHost, Secrets!TypeOK, OwnPassword
<1>2. ASSUME NEW a \in Aliases, NEW e \in Secrets!Entries, Secrets!SetsHost(a, e)
      PROVE  SecretInv'
  <2>1. PICK A \in SUBSET Aliases : inv \in [A -> Secrets!Entries]
    BY DEF Secrets!TypeOK
  <2>2. inv' \in [A \cup {a} -> Secrets!Entries] /\ A \cup {a} \in SUBSET Aliases
    BY <1>2, <2>1 DEF Secrets!SetsHost
  <2>. QED
    BY <1>2, <2>2 DEF Secrets!SetsHost, Secrets!TypeOK, OwnPassword
<1>3. ASSUME NEW t, Secrets!SecretSetAsks(t) PROVE SecretInv'
  <2>. DEFINE r == Secrets!Resolved(t)
  <2>1. /\ setting' = [pc |-> "prompt", ref |-> Secrets!Ref(r), secret |-> Secrets!Typed(r)]
        /\ UNCHANGED <<inv, keychain>>
    BY <1>3 DEF Secrets!SecretSetAsks
  <2>2. Secrets!Typed(r).byRef \/ Secrets!Typed(r).account = Secrets!Ref(r)
    BY DEF Secrets!Typed, Secrets!Ref
  <2>. HIDE DEF r
  <2>3. OwnPassword'
    BY <2>1, <2>2 DEF OwnPassword
  <2>4. Secrets!TypeOK'
    BY <2>1 DEF Secrets!TypeOK
  <2>. QED
    BY <2>3, <2>4
<1>4. ASSUME Secrets!SecretSetStores PROVE SecretInv'
  <2>1. setting.pc = "prompt" /\ inv' = inv /\ setting'.pc = "idle"
    BY <1>4 DEF Secrets!SecretSetStores, Secrets!Idle
  <2>2. \A r \in DOMAIN keychain' : keychain'[r].byRef \/ keychain'[r].account = r
    BY <1>4, <2>1 DEF Secrets!SecretSetStores, Secrets!Keep, OwnPassword
  <2>. QED
    BY <2>1, <2>2 DEF OwnPassword, Secrets!TypeOK
<1>5. ASSUME NEW t, Secrets!SecretDeletes(t) PROVE SecretInv'
  BY <1>5 DEF Secrets!SecretDeletes, OwnPassword, Secrets!TypeOK
<1>6. CASE UNCHANGED Secrets!vars
  BY <1>6 DEF Secrets!vars, OwnPassword, Secrets!TypeOK
<1>. QED
  BY <1>1, <1>2, <1>3, <1>4, <1>5, <1>6 DEF Secrets!Next

LEMMA SecretInductive == Secrets!Spec => []SecretInv
BY SecretInit, SecretNext, PTL DEF Secrets!Spec

\* The password that a command takes is never one that was typed for another account,
\* however many hosts and secrets there are and whenever hosts.toml is edited, unless a
\* secret_ref is in use or was when it was stored; and the state is well typed.
THEOREM NoForeignPassword == Secrets!Spec => []PasswordOfAccount
<1>1. SecretInv => Secrets!PasswordOfAccount
  <2>. SUFFICES ASSUME SecretInv, NEW t \in Secrets!Targets,
                       Secrets!Ref(Secrets!Resolved(t)) \in DOMAIN keychain,
                       Secrets!Resolved(t).ref = None,
                       ~keychain[Secrets!Ref(Secrets!Resolved(t))].byRef
                PROVE  keychain[Secrets!Ref(Secrets!Resolved(t))].account
                          = Secrets!Account(Secrets!Resolved(t))
    BY DEF SecretInv, Secrets!PasswordOfAccount, Secrets!LookUp
  <2>1. Secrets!Ref(Secrets!Resolved(t)) = Secrets!Account(Secrets!Resolved(t))
    BY DEF Secrets!Ref
  <2>. QED
    BY <2>1 DEF SecretInv, OwnPassword
<1>. QED
  BY <1>1, SecretInductive, PTL DEF PasswordOfAccount

\* The `secret set` that a failed command suggests is always the right one, for any
\* names, defaults and inventory, ambiguous addresses aside.
THEOREM HintAlwaysLeads == Secrets!Spec => []HintLeads
<1>. Secrets!PasswordsAssumption
  BY CommandsAssumption
<1>1. SecretInv => Secrets!HintLeads
  <2>. SUFFICES ASSUME SecretInv, NEW t \in Secrets!Targets
                PROVE  LET r == Secrets!Resolved(t) hint == Secrets!Hint(t, r) IN
                       r.ok /\ (r.ref # None \/ ~Secrets!Ambiguous(r.host)) =>
                          Secrets!Resolved(hint).ok /\ Secrets!Ref(Secrets!Resolved(hint)) = Secrets!Ref(r)
    BY DEF Secrets!HintLeads, Secrets!LookUp
  <2>. DEFINE r == Secrets!Resolved(t)
              hint == Secrets!Hint(t, r)
  <2>. SUFFICES ASSUME r.ok, r.ref # None \/ ~Secrets!Ambiguous(r.host)
                PROVE  Secrets!Resolved(hint).ok /\ Secrets!Ref(Secrets!Resolved(hint)) = Secrets!Ref(r)
    OBVIOUS
  <2>1. r.user # None /\ r.port # None
    BY DEF Secrets!Resolved, Secrets!Or, Secrets!PasswordsAssumption
  <2>2. CASE r.ref # None
    <3>1. t.name \in DOMAIN inv /\ r.ref = inv[t.name].ref
      BY <2>2 DEF Secrets!Resolved
    <3>2. hint = [name |-> t.name, user |-> None, port |-> None]
      BY <2>2 DEF Secrets!Hint
    <3>3. Secrets!Resolved(hint).ok /\ Secrets!Resolved(hint).ref = r.ref
      BY <3>1, <3>2 DEF Secrets!Resolved
    <3>. QED
      BY <2>2, <3>3 DEF Secrets!Ref
  <2>3. CASE r.ref = None
    <3>1. hint = [name |-> r.host, user |-> r.user, port |-> r.port]
      BY <2>3 DEF Secrets!Hint
    <3>2. /\ r.host \notin Colons
          /\ r.host \in DOMAIN inv => inv[r.host].ref = None /\ inv[r.host].host = r.host
      BY <2>3 DEF Secrets!Ambiguous
    <3>3. \A x : Secrets!Or(r.user, x) = r.user /\ Secrets!Or(r.port, x) = r.port
      BY <2>1 DEF Secrets!Or
    <3>. HIDE DEF r, hint
    <3>4. /\ hint.name = r.host /\ hint.user = r.user /\ hint.port = r.port
      BY <3>1
    <3>5. /\ Secrets!Resolved(hint).ok /\ Secrets!Resolved(hint).ref = None
          /\ Secrets!Resolved(hint).host = r.host /\ Secrets!Resolved(hint).user = r.user
          /\ Secrets!Resolved(hint).port = r.port
      <4>1. CASE r.host \in DOMAIN inv
        BY <4>1, <3>2, <3>3, <3>4 DEF Secrets!Resolved
      <4>2. CASE r.host \notin DOMAIN inv
        BY <4>2, <3>2, <3>3, <3>4 DEF Secrets!Resolved
      <4>. QED
        BY <4>1, <4>2
    <3>. QED
      BY <2>3, <3>5 DEF Secrets!Ref, Secrets!Account
  <2>. QED
    BY <2>2, <2>3
<1>. QED
  BY <1>1, SecretInductive, PTL DEF HintLeads

-----------------------------------------------------------------------------
(* Sequences of rising numbers *)

Rising(q) == \A i, j \in DOMAIN q : i < j => q[i] < q[j]
Below(S, T) == \A x \in S, y \in T : x < y

LEMMA RisingTail ==
    ASSUME NEW q \in Seq(Nat), q # << >>, Rising(q)
    PROVE  /\ Head(q) \in Nat /\ Tail(q) \in Seq(Nat) /\ Rising(Tail(q))
           /\ Range(q) = {Head(q)} \cup Range(Tail(q))
           /\ Below({Head(q)}, Range(Tail(q)))
<1>. DEFINE r == Tail(q)
<1>1. /\ Len(q) \in Nat \ {0} /\ DOMAIN q = 1..Len(q) /\ Head(q) = q[1] /\ Head(q) \in Nat
      /\ r \in Seq(Nat) /\ Len(r) = Len(q) - 1 /\ DOMAIN r = 1..(Len(q) - 1)
      /\ \A i \in 1..(Len(q) - 1) : r[i] = q[i + 1]
  BY EmptySeq, HeadTailProperties
<1>. HIDE DEF r
<1>2. Rising(r)
  <2>1. ASSUME NEW i \in DOMAIN r, NEW j \in DOMAIN r, i < j PROVE r[i] < r[j]
    <3>1. i \in 1..(Len(q) - 1) /\ j \in 1..(Len(q) - 1) /\ Len(q) \in Nat
      BY <1>1
    <3>2. i + 1 \in 1..Len(q) /\ j + 1 \in 1..Len(q) /\ i + 1 < j + 1
      BY ONLY <2>1, <3>1, SMTT(30)
    <3>. QED
      BY <1>1, <3>1, <3>2 DEF Rising
  <2>. QED
    BY <2>1 DEF Rising
<1>3. Range(q) = {Head(q)} \cup Range(r)
  <2>1. ASSUME NEW i \in DOMAIN q, i # 1 PROVE i - 1 \in DOMAIN r /\ q[i] = r[i - 1]
    BY <1>1, <2>1, SMTT(30)
  <2>2. ASSUME NEW i \in DOMAIN r PROVE i + 1 \in DOMAIN q /\ r[i] = q[i + 1]
    BY <1>1, SMTT(30)
  <2>3. 1 \in DOMAIN q /\ q[1] = Head(q)
    BY <1>1
  <2>. QED
    BY <2>1, <2>2, <2>3 DEF Range
<1>4. ASSUME NEW i \in DOMAIN r PROVE Head(q) < r[i]
  <2>1. 1 \in DOMAIN q /\ i + 1 \in DOMAIN q /\ 1 < i + 1
    BY <1>1, SMTT(30)
  <2>. QED
    BY <1>1, <2>1 DEF Rising
<1>. QED
  BY <1>1, <1>2, <1>3, <1>4 DEF r, Range, Below

\* A place of what follows place k of n places.
LEMMA PlaceBehind ==
    \A n \in Nat : \A k \in 1..n : \A i \in 1..(n - k) :
        k + i \in 1..n /\ (k + 1) + i - 1 = k + i /\ \A j \in 1..k : j < k + i
OBVIOUS

LEMMA RisingParts ==
    ASSUME NEW q \in Seq(Nat), Rising(q), NEW k \in DOMAIN q
    PROVE  LET l == SubSeq(q, 1, k)
               r == SubSeq(q, k + 1, Len(q)) IN
           /\ l \in Seq(Nat) /\ r \in Seq(Nat) /\ Rising(l) /\ Rising(r)
           /\ Range(q) = Range(l) \cup Range(r) /\ Below(Range(l), Range(r))
<1>. DEFINE l == SubSeq(q, 1, k)
            r == SubSeq(q, k + 1, Len(q))
<1>1. Len(q) \in Nat /\ DOMAIN q = 1..Len(q) /\ k \in 1..Len(q) /\ \A i \in 1..Len(q) : q[i] \in Nat
  OBVIOUS
<1>2. /\ l \in Seq(Nat) /\ Len(l) = k /\ DOMAIN l = 1..k
      /\ \A i \in 1..k : l[i] = q[i]
  BY <1>1
<1>3. /\ r \in Seq(Nat) /\ Len(r) = Len(q) - k /\ DOMAIN r = 1..(Len(q) - k)
      /\ \A i \in 1..(Len(q) - k) : k + i \in 1..Len(q) /\ r[i] = q[k + i]
  <2>. PICK a : a = k + 1
    OBVIOUS
  <2>1. a \in Int /\ Len(q) \in Int /\ \A i \in a..Len(q) : q[i] \in Nat
    <3>1. a \in Nat /\ a >= 1 /\ Len(q) \in Nat
      BY ONLY <1>1, a = k + 1
    <3>. QED
      BY ONLY <1>1, <3>1
  <2>2. /\ SubSeq(q, a, Len(q)) \in Seq(Nat)
        /\ Len(SubSeq(q, a, Len(q))) = IF a <= Len(q) THEN Len(q) - a + 1 ELSE 0
        /\ \A i \in 1..(Len(q) - a + 1) : SubSeq(q, a, Len(q))[i] = q[a + i - 1]
    BY ONLY <2>1, SubSeqProperties
  <2>3. Len(q) - a + 1 = Len(q) - k /\ (~(a <= Len(q)) => Len(q) - k = 0)
    <3>1. Len(q) \in Nat /\ k \in Nat /\ k <= Len(q)
      BY <1>1
    <3>. QED
      BY ONLY <3>1, a = k + 1
  <2>4. r \in Seq(Nat) /\ Len(r) = Len(q) - k
    BY ONLY <2>2, <2>3, a = k + 1 DEF r
  <2>5. ASSUME NEW i \in 1..(Len(q) - k) PROVE k + i \in 1..Len(q) /\ r[i] = q[k + i]
    <3>1. k + i \in 1..Len(q) /\ a + i - 1 = k + i
      <4>1. Len(q) \in Nat /\ k \in 1..Len(q)
        BY <1>1
      <4>. QED
        BY ONLY <4>1, i \in 1..(Len(q) - k), a = k + 1, PlaceBehind
    <3>2. SubSeq(q, a, Len(q))[i] = q[a + i - 1]
      BY ONLY <2>2, <2>3, i \in 1..(Len(q) - k)
    <3>. QED
      BY ONLY <3>1, <3>2, a = k + 1 DEF r
  <2>6. DOMAIN r = 1..(Len(q) - k)
    BY ONLY <2>4
  <2>. QED
    BY ONLY <2>4, <2>5, <2>6
<1>. HIDE DEF l, r
<1>4. Rising(l)
  BY <1>1, <1>2 DEF Rising
<1>5. Rising(r)
  <2>1. ASSUME NEW i \in DOMAIN r, NEW j \in DOMAIN r, i < j PROVE r[i] < r[j]
    <3>1. k + i \in DOMAIN q /\ k + j \in DOMAIN q /\ k + i < k + j
      BY <1>1, <1>3, <2>1
    <3>. QED
      BY <1>3, <3>1 DEF Rising
  <2>. QED
    BY <2>1 DEF Rising
<1>6. Range(q) = Range(l) \cup Range(r)
  <2>1. ASSUME NEW i \in DOMAIN q
        PROVE  \/ i \in DOMAIN l /\ q[i] = l[i]
               \/ i - k \in DOMAIN r /\ q[i] = r[i - k]
    <3>1. CASE i <= k
      BY <1>1, <1>2, <3>1
    <3>2. CASE ~(i <= k)
      <4>1. i - k \in 1..(Len(q) - k) /\ k + (i - k) = i
        BY <1>1, <3>2
      <4>. QED
        BY <1>3, <4>1
    <3>. QED
      BY <3>1, <3>2
  <2>2. ASSUME NEW i \in DOMAIN l PROVE i \in DOMAIN q /\ l[i] = q[i]
    BY <1>1, <1>2
  <2>3. ASSUME NEW i \in DOMAIN r PROVE k + i \in DOMAIN q /\ r[i] = q[k + i]
    BY <1>1, <1>3
  <2>. QED
    BY <2>1, <2>2, <2>3 DEF Range
<1>7. ASSUME NEW i \in DOMAIN l, NEW j \in DOMAIN r PROVE l[i] < r[j]
  <2>1. i \in 1..Len(q) /\ k + j \in 1..Len(q) /\ i < k + j
    <3>1. i \in 1..k /\ j \in 1..(Len(q) - k)
      BY <1>2, <1>3
    <3>2. Len(q) \in Nat /\ k \in 1..Len(q)
      BY <1>1
    <3>3. k + j \in 1..Len(q) /\ i < k + j
      BY ONLY <3>1, <3>2, PlaceBehind
    <3>4. i \in 1..Len(q)
      BY ONLY <3>1, <3>2
    <3>. QED
      BY <3>3, <3>4
  <2>2. l[i] = q[i] /\ r[j] = q[k + j]
    BY <1>2, <1>3
  <2>. QED
    BY <1>1, <2>1, <2>2 DEF Rising
<1>. QED
  BY <1>2, <1>3, <1>4, <1>5, <1>6, <1>7 DEF l, r, Range, Below

LEMMA RisingAdd ==
    ASSUME NEW q \in Seq(Nat), Rising(q), NEW n \in Nat, Below(Range(q), {n})
    PROVE  /\ Append(q, n) \in Seq(Nat) /\ Rising(Append(q, n))
           /\ Range(Append(q, n)) = Range(q) \cup {n}
<1>. DEFINE r == Append(q, n)
<1>1. /\ Len(q) \in Nat /\ DOMAIN q = 1..Len(q)
      /\ r \in Seq(Nat) /\ DOMAIN r = 1..(Len(q) + 1)
      /\ \A i \in 1..Len(q) : r[i] = q[i] /\ r[Len(q) + 1] = n
  BY AppendProperties
<1>2. r[Len(q) + 1] = n
  BY AppendProperties
<1>. HIDE DEF r
<1>3. ASSUME NEW i \in DOMAIN q PROVE q[i] < n
  BY DEF Below, Range
<1>4. ASSUME NEW i \in DOMAIN r, NEW j \in DOMAIN r, i < j PROVE r[i] < r[j]
  <2>1. i \in 1..Len(q)
    BY <1>1, <1>4
  <2>2. CASE j = Len(q) + 1
    BY <1>1, <1>2, <1>3, <2>1, <2>2
  <2>3. CASE j # Len(q) + 1
    <3>1. j \in 1..Len(q)
      BY <1>1, <2>3
    <3>. QED
      BY <1>1, <1>4, <2>1, <3>1 DEF Rising
  <2>. QED
    BY <2>2, <2>3
<1>5. Range(r) = Range(q) \cup {n}
  <2>1. ASSUME NEW i \in DOMAIN r PROVE r[i] = n \/ (i \in DOMAIN q /\ r[i] = q[i])
    <3>1. i \in 1..Len(q) \/ i = Len(q) + 1
      BY <1>1
    <3>. QED
      BY <1>1, <1>2, <3>1
  <2>2. Len(q) + 1 \in DOMAIN r
    BY <1>1
  <2>3. \A i \in DOMAIN q : i \in DOMAIN r /\ r[i] = q[i]
    BY <1>1
  <2>. QED
    BY <1>2, <2>1, <2>2, <2>3 DEF Range
<1>. QED
  BY <1>1, <1>4, <1>5 DEF r, Rising

LEMMA RisingBoth ==
    ASSUME NEW p \in Seq(Nat), NEW q \in Seq(Nat), Rising(p), Rising(q),
           Below(Range(p), Range(q))
    PROVE  p \o q \in Seq(Nat) /\ Rising(p \o q) /\ Range(p \o q) = Range(p) \cup Range(q)
<1>. DEFINE r == p \o q
            m == Len(p)
            n == Len(q)
<1>1. /\ m \in Nat /\ n \in Nat /\ DOMAIN p = 1..m /\ DOMAIN q = 1..n
      /\ r \in Seq(Nat) /\ Len(r) = m + n
      /\ \A i \in 1..(m + n) : r[i] = IF i <= m THEN p[i] ELSE q[i - m]
  BY ConcatProperties
<1>2. DOMAIN r = 1..(m + n)
  BY <1>1
<1>3. \A i \in 1..m, j \in 1..n : p[i] < q[j]
  BY <1>1 DEF Below, Range
<1>. HIDE DEF r, m, n
<1>4. ASSUME NEW i \in DOMAIN r
      PROVE  \/ i \in 1..m /\ r[i] = p[i]
             \/ i - m \in 1..n /\ r[i] = q[i - m] /\ ~(i <= m)
  BY <1>1, <1>2
<1>5. ASSUME NEW i \in DOMAIN r, NEW j \in DOMAIN r, i < j PROVE r[i] < r[j]
  <2>1. CASE i <= m /\ j <= m
    BY <1>1, <1>2, <1>4, <1>5, <2>1 DEF Rising
  <2>2. CASE i <= m /\ ~(j <= m)
    BY <1>1, <1>2, <1>3, <1>4, <2>2
  <2>3. CASE ~(i <= m)
    <3>1. i - m \in 1..n /\ j - m \in 1..n /\ i - m < j - m /\ r[i] = q[i - m] /\ r[j] = q[j - m]
      BY <1>1, <1>2, <1>4, <1>5, <2>3, SMTT(30)
    <3>. QED
      BY <1>1, <3>1 DEF Rising
  <2>. QED
    BY <2>1, <2>2, <2>3
<1>6. Range(r) = Range(p) \cup Range(q)
  <2>1. \A i \in DOMAIN p : i \in DOMAIN r /\ r[i] = p[i]
    BY <1>1, <1>2
  <2>2. ASSUME NEW i \in DOMAIN q PROVE m + i \in DOMAIN r /\ r[m + i] = q[i]
    <3>1. m + i \in 1..(m + n) /\ ~(m + i <= m) /\ (m + i) - m = i
      BY <1>1
    <3>. QED
      BY <1>1, <1>2, <3>1
  <2>. QED
    BY <1>1, <1>4, <2>1, <2>2 DEF Range
<1>. QED
  BY <1>1, <1>5, <1>6 DEF r, Rising

-----------------------------------------------------------------------------
(* Mcp *)

\* The message in hand, and every place where a message may be.
Hand == {server.n} \ {0}
Queued == Range(out) \cup Hand \cup Range(buffer) \cup Range(pipe)

ServerTyped ==
    /\ sent \in Seq(Server!Messages) /\ closed \in BOOLEAN
    /\ server \in [pc : {"scan", "handle", "ssh", "ended"}, n : 0..Len(sent)]
    /\ server.n = 0 <=> server.pc \in {"scan", "ended"}
    /\ out \in Seq(Nat) /\ buffer \in Seq(Nat) /\ pipe \in Seq(Nat)
    /\ Queued \subseteq DOMAIN sent

\* No message overtakes another one.
InTurn ==
    /\ Rising(out) /\ Rising(buffer) /\ Rising(pipe)
    /\ Below(Range(out), Hand \cup Range(buffer) \cup Range(pipe))
    /\ Below(Hand, Range(buffer) \cup Range(pipe))
    /\ Below(Range(buffer), Range(pipe))

\* A notification has no id, and what is in hand has been decoded.
Decoded ==
    /\ \A n \in DOMAIN sent : sent[n].kind = "initialized" => sent[n].id = "none"
    /\ server.n # 0 => sent[server.n].kind \notin {"blank", "garbage", "long"}

\* The lines that nobody but the server reads.
Safe(n) == Server!Request(n) /\ \A k \in 1..(n - 1) : sent[k].kind # "ask"
NoneLost == \A n \in DOMAIN sent : Safe(n) => n \in Queued

ServerInv == ServerTyped /\ InTurn /\ Decoded /\ NoneLost

LEMMA ServerInit == Server!Init => ServerInv
<1>. SUFFICES ASSUME Server!Init PROVE ServerInv
  OBVIOUS
<1>1. /\ sent = << >> /\ closed = FALSE /\ pipe = << >> /\ buffer = << >> /\ out = << >>
      /\ server = [pc |-> "scan", n |-> 0]
  BY DEF Server!Init
<1>2. Range(<< >>) = {} /\ Rising(<< >>) /\ << >> \in Seq(Nat) /\ << >> \in Seq(Server!Messages)
  BY DEF Range, Rising
<1>3. Queued = {} /\ Hand = {}
  BY <1>1, <1>2 DEF Queued, Hand
<1>4. ServerTyped
  <2>1. server \in [pc : {"scan", "handle", "ssh", "ended"}, n : 0..Len(sent)]
        /\ server.n = 0 /\ server.pc = "scan"
    BY <1>1
  <2>2. Queued \subseteq DOMAIN sent
    BY <1>3
  <2>. QED
    BY <1>1, <1>2, <2>1, <2>2 DEF ServerTyped
<1>5. InTurn
  BY <1>1, <1>2, <1>3 DEF InTurn, Below
<1>. QED
  BY <1>1, <1>4, <1>5 DEF ServerInv, Decoded, NoneLost

\* What has been sent stays, and the places hold what they held but for what moves.
LEMMA ServerMoves ==
    ASSUME ServerInv, UNCHANGED sent, closed' \in BOOLEAN,
           server' \in [pc : {"scan", "handle", "ssh", "ended"}, n : 0..Len(sent)],
           server'.n = 0 <=> server'.pc \in {"scan", "ended"},
           out' \in Seq(Nat), buffer' \in Seq(Nat), pipe' \in Seq(Nat),
           Queued' \subseteq Queued,
           InTurn',
           server'.n # 0 => sent[server'.n].kind \notin {"blank", "garbage", "long"},
           \A n \in Queued \ Queued' : ~Safe(n)
    PROVE  ServerInv'
<1>1. ServerTyped'
  BY DEF ServerInv, ServerTyped
<1>2. Decoded'
  BY DEF ServerInv, Decoded
<1>3. \A n \in DOMAIN sent : Safe(n)' <=> Safe(n)
  BY DEF Safe, Server!Request, Server!Kind
<1>4. NoneLost'
  BY <1>3 DEF ServerInv, NoneLost
<1>. QED
  BY <1>1, <1>2, <1>4 DEF ServerInv

LEMMA SendsKeeps ==
    ASSUME ServerInv, NEW m \in Server!Messages, Server!Sends(m)
    PROVE  ServerInv'
<1>. DEFINE n == Len(sent) + 1
<1>1. /\ m.kind = "initialized" => m.id = "none"
      /\ sent' = Append(sent, m) /\ pipe' = Append(pipe, n)
      /\ UNCHANGED <<closed, buffer, server, out>>
  BY DEF Server!Sends
<1>2. /\ sent \in Seq(Server!Messages) /\ Len(sent) \in Nat /\ DOMAIN sent = 1..Len(sent)
      /\ n \in Nat
  BY DEF ServerInv, ServerTyped
<1>3. /\ sent' \in Seq(Server!Messages) /\ Len(sent') = n /\ DOMAIN sent' = 1..n
      /\ \A k \in DOMAIN sent : sent'[k] = sent[k]
      /\ sent'[n] = m
  BY <1>1, <1>2, AppendProperties
<1>4. /\ pipe \in Seq(Nat) /\ Rising(pipe) /\ Queued \subseteq 1..Len(sent)
      /\ \A x \in Queued : x < n
  <2>1. Queued \subseteq 1..Len(sent) /\ pipe \in Seq(Nat) /\ Rising(pipe)
    BY <1>2 DEF ServerInv, ServerTyped, InTurn
  <2>. QED
    BY <1>2, <2>1
<1>5. Below(Range(pipe), {n})
  BY <1>4 DEF Below, Queued
<1>. HIDE DEF n
<1>6. /\ pipe' \in Seq(Nat) /\ Rising(pipe') /\ Range(pipe') = Range(pipe) \cup {n}
  BY <1>1, <1>2, <1>4, <1>5, RisingAdd
<1>7. Hand' = Hand /\ Queued' = Queued \cup {n}
  BY <1>1, <1>6 DEF Hand, Queued
<1>8. Queued' \subseteq DOMAIN sent' /\ DOMAIN sent' = DOMAIN sent \cup {n}
  <2>1. 1..n = 1..Len(sent) \cup {n}
    BY <1>2 DEF n
  <2>. QED
    BY <1>2, <1>3, <1>4, <1>7, <2>1
<1>9. ServerTyped'
  <2>1. server' \in [pc : {"scan", "handle", "ssh", "ended"}, n : 0..Len(sent')]
    <3>1. 0..Len(sent) \subseteq 0..Len(sent')
      BY <1>2, <1>3 DEF n
    <3>. QED
      BY <1>1, <3>1 DEF ServerInv, ServerTyped
  <2>. QED
    BY <1>1, <1>3, <1>6, <1>8, <2>1 DEF ServerInv, ServerTyped
<1>10. InTurn'
  BY <1>1, <1>4, <1>6, <1>7 DEF ServerInv, InTurn, Below, Queued
<1>11. Decoded'
  <2>1. \A k \in DOMAIN sent' : sent'[k].kind = "initialized" => sent'[k].id = "none"
    BY <1>1, <1>3, <1>8 DEF ServerInv, Decoded
  <2>2. server.n # 0 => server.n \in DOMAIN sent
    BY <1>2 DEF ServerInv, ServerTyped
  <2>. QED
    BY <1>1, <1>3, <2>1, <2>2 DEF ServerInv, Decoded
<1>12. NoneLost'
  <2>1. ASSUME NEW k \in DOMAIN sent', Safe(k)' PROVE k \in Queued'
    <3>1. CASE k = n
      BY <1>7, <3>1
    <3>2. CASE k # n
      <4>1. k \in DOMAIN sent /\ \A j \in 1..(k - 1) : j \in DOMAIN sent
        BY <1>2, <1>8, <3>2
      <4>2. Safe(k)
        BY <1>3, <2>1, <4>1 DEF Safe, Server!Request, Server!Kind
      <4>. QED
        BY <1>7, <4>1, <4>2 DEF ServerInv, NoneLost
    <3>. QED
      BY <3>1, <3>2
  <2>. QED
    BY <2>1 DEF NoneLost
<1>. QED
  BY <1>9, <1>10, <1>11, <1>12 DEF ServerInv

LEMMA ReadsKeeps ==
    ASSUME ServerInv, Server!Reads
    PROVE  ServerInv'
<1>1. /\ buffer = << >> /\ pipe # << >>
      /\ UNCHANGED <<sent, closed, server, out>>
  BY DEF Server!Reads
<1>2. PICK k \in DOMAIN pipe : /\ buffer' = SubSeq(pipe, 1, k)
                               /\ pipe' = SubSeq(pipe, k + 1, Len(pipe))
  BY DEF Server!Reads
<1>3. /\ buffer' \in Seq(Nat) /\ pipe' \in Seq(Nat) /\ Rising(buffer') /\ Rising(pipe')
      /\ Range(pipe) = Range(buffer') \cup Range(pipe')
      /\ Below(Range(buffer'), Range(pipe'))
  BY <1>2, RisingParts DEF ServerInv, ServerTyped, InTurn
<1>4. Range(buffer) = {}
  BY <1>1 DEF Range
<1>5. Hand' = Hand /\ Queued' = Queued
  BY <1>1, <1>3, <1>4 DEF Hand, Queued
<1>6. InTurn'
  BY <1>1, <1>3, <1>4, <1>5 DEF ServerInv, InTurn, Below
<1>7. ServerTyped /\ Decoded
  BY DEF ServerInv
<1>. QED
  BY <1>1, <1>3, <1>5, <1>6, <1>7, ServerMoves DEF ServerTyped, Decoded

\* The message at the head of the buffer is taken off.
LEMMA TakenOff ==
    ASSUME ServerInv, server.pc = "scan", buffer # << >>, buffer' = Tail(buffer),
           UNCHANGED <<sent, closed, pipe, out>>
    PROVE  /\ buffer' \in Seq(Nat) /\ Rising(buffer')
           /\ Range(buffer) = {Head(buffer)} \cup Range(buffer')
           /\ Below({Head(buffer)}, Range(buffer'))
           /\ Head(buffer) \in DOMAIN sent
           /\ Hand = {}
<1>1. buffer \in Seq(Nat) /\ Rising(buffer)
  BY DEF ServerInv, ServerTyped, InTurn
<1>2. /\ buffer' \in Seq(Nat) /\ Rising(buffer')
      /\ Range(buffer) = {Head(buffer)} \cup Range(buffer')
      /\ Below({Head(buffer)}, Range(buffer'))
  BY <1>1, RisingTail
<1>3. Head(buffer) \in DOMAIN sent
  BY <1>2 DEF ServerInv, ServerTyped, Queued
<1>. QED
  BY <1>2, <1>3 DEF ServerInv, ServerTyped, Hand

LEMMA SkipsKeeps ==
    ASSUME ServerInv, Server!Skips
    PROVE  ServerInv'
<1>. DEFINE h == Head(buffer)
<1>1. /\ server.pc = "scan" /\ buffer # << >>
      /\ sent[h].kind \in {"blank", "garbage"} \/ sent[h].id = "string"
      /\ buffer' = Tail(buffer)
      /\ UNCHANGED <<sent, closed, pipe, server, out>>
  BY DEF Server!Skips, Server!Decodes, Server!Kind
<1>2. /\ buffer' \in Seq(Nat) /\ Rising(buffer') /\ Range(buffer) = {h} \cup Range(buffer')
      /\ Below({h}, Range(buffer')) /\ h \in DOMAIN sent /\ Hand = {}
  BY <1>1, TakenOff
<1>. HIDE DEF h
<1>3. Hand' = {} /\ Queued' \subseteq Queued /\ Queued \ Queued' \subseteq {h}
  BY <1>1, <1>2 DEF Hand, Queued
<1>4. InTurn'
  BY <1>1, <1>2, <1>3 DEF ServerInv, InTurn, Below
<1>5. ~Safe(h)
  BY <1>1 DEF Safe, Server!Request, Server!Kind
<1>6. ServerTyped /\ Decoded
  BY DEF ServerInv
<1>. QED
  BY <1>1, <1>2, <1>3, <1>4, <1>5, <1>6, ServerMoves DEF ServerTyped, Decoded

LEMMA TakesKeeps ==
    ASSUME ServerInv, Server!Takes
    PROVE  ServerInv'
<1>. DEFINE h == Head(buffer)
<1>1. /\ server.pc = "scan" /\ buffer # << >>
      /\ sent[h].kind \notin {"blank", "garbage", "long"}
      /\ buffer' = Tail(buffer) /\ server' = [pc |-> "handle", n |-> h]
      /\ UNCHANGED <<sent, closed, pipe, out>>
  BY DEF Server!Takes, Server!Decodes, Server!Kind, Server!Goes
<1>2. /\ buffer' \in Seq(Nat) /\ Rising(buffer') /\ Range(buffer) = {h} \cup Range(buffer')
      /\ Below({h}, Range(buffer')) /\ h \in DOMAIN sent /\ Hand = {}
  BY <1>1, TakenOff
<1>. HIDE DEF h
<1>3. h \in 1..Len(sent) /\ Len(sent) \in Nat
  BY <1>2 DEF ServerInv, ServerTyped
<1>4. Hand' = {h} /\ Queued' = Queued
  BY <1>1, <1>2, <1>3 DEF Hand, Queued
<1>5. InTurn'
  BY <1>1, <1>2, <1>4 DEF ServerInv, InTurn, Below
<1>6. /\ server' \in [pc : {"scan", "handle", "ssh", "ended"}, n : 0..Len(sent)]
      /\ server'.n = h /\ server'.pc = "handle" /\ h # 0
  BY <1>1, <1>3
<1>7. ServerTyped /\ Decoded
  BY DEF ServerInv
<1>. QED
  BY <1>1, <1>2, <1>4, <1>5, <1>6, <1>7, ServerMoves DEF ServerTyped

\* The message in hand is answered.
LEMMA AnsweredInTurn ==
    ASSUME ServerInv, server.n # 0, out' = Append(out, server.n),
           server' = [pc |-> "scan", n |-> 0],
           UNCHANGED <<sent, closed, pipe, buffer>>
    PROVE  ServerInv'
<1>1. out \in Seq(Nat) /\ Rising(out) /\ server.n \in Nat /\ Hand = {server.n}
  BY DEF ServerInv, ServerTyped, InTurn, Hand
<1>2. Below(Range(out), {server.n})
  BY <1>1 DEF ServerInv, InTurn, Below
<1>3. /\ out' \in Seq(Nat) /\ Rising(out') /\ Range(out') = Range(out) \cup {server.n}
  BY <1>1, <1>2, RisingAdd
<1>4. Hand' = {} /\ Queued' = Queued
  BY <1>1, <1>3 DEF Hand, Queued
<1>5. InTurn'
  BY <1>1, <1>3, <1>4 DEF ServerInv, InTurn, Below
<1>6. /\ server' \in [pc : {"scan", "handle", "ssh", "ended"}, n : 0..Len(sent)]
      /\ server'.n = 0 /\ server'.pc = "scan"
  BY DEF ServerInv, ServerTyped
<1>7. ServerTyped
  BY DEF ServerInv
<1>. QED
  BY <1>3, <1>4, <1>5, <1>6, <1>7, ServerMoves DEF ServerTyped

LEMMA HandlesKeeps ==
    ASSUME ServerInv, Server!Handles
    PROVE  ServerInv'
<1>1. server.pc = "handle" /\ UNCHANGED <<sent, closed, pipe, buffer>>
  BY DEF Server!Handles
<1>2. server.n # 0 /\ server.n \in DOMAIN sent /\ Hand = {server.n}
  BY <1>1 DEF ServerInv, ServerTyped, Hand
<1>3. CASE /\ sent[server.n].kind = "initialized"
           /\ server' = [pc |-> "scan", n |-> 0] /\ UNCHANGED out
  <2>1. Hand' = {} /\ Queued' \subseteq Queued /\ Queued \ Queued' \subseteq {server.n}
    BY <1>1, <1>2, <1>3 DEF Hand, Queued
  <2>2. ~Safe(server.n)
    BY <1>2, <1>3 DEF ServerInv, Decoded, Safe, Server!Request, Server!Kind
  <2>3. InTurn'
    BY <1>1, <1>3, <2>1 DEF ServerInv, InTurn, Below
  <2>4. /\ server' \in [pc : {"scan", "handle", "ssh", "ended"}, n : 0..Len(sent)]
        /\ server'.n = 0 /\ server'.pc = "scan"
    BY <1>3 DEF ServerInv, ServerTyped
  <2>5. ServerTyped
    BY DEF ServerInv
  <2>. QED
    BY <1>1, <1>3, <2>1, <2>2, <2>3, <2>4, <2>5, ServerMoves DEF ServerTyped
<1>4. CASE server' = [pc |-> "ssh", n |-> server.n] /\ UNCHANGED out
  <2>1. Hand' = Hand /\ Queued' = Queued
    BY <1>1, <1>4 DEF Hand, Queued
  <2>2. InTurn'
    BY <1>1, <1>4, <2>1 DEF ServerInv, InTurn, Below
  <2>3. /\ server' \in [pc : {"scan", "handle", "ssh", "ended"}, n : 0..Len(sent)]
        /\ server'.n = server.n /\ server'.pc = "ssh"
    BY <1>4 DEF ServerInv, ServerTyped
  <2>4. ServerTyped /\ Decoded
    BY DEF ServerInv
  <2>. QED
    BY <1>1, <1>2, <1>4, <2>1, <2>2, <2>3, <2>4, ServerMoves DEF ServerTyped, Decoded
<1>5. CASE server' = [pc |-> "scan", n |-> 0] /\ out' = Append(out, server.n)
  BY <1>1, <1>2, <1>5, AnsweredInTurn
<1>. QED
  BY <1>3, <1>4, <1>5 DEF Server!Handles, Server!Kind, Server!Goes

\* ssh takes a message that the client sent after one for a host with a password.
LEMMA SshReadsKeeps ==
    ASSUME ServerInv, Server!SshReads
    PROVE  ServerInv'
<1>. DEFINE h == Head(pipe)
<1>1. /\ server.pc = "ssh" /\ sent[server.n].kind = "ask" /\ pipe # << >>
      /\ pipe' = Tail(pipe)
      /\ UNCHANGED <<sent, closed, buffer, server, out>>
  BY DEF Server!SshReads, Server!Kind
<1>2. pipe \in Seq(Nat) /\ Rising(pipe)
  BY DEF ServerInv, ServerTyped, InTurn
<1>3. /\ pipe' \in Seq(Nat) /\ Rising(pipe') /\ Range(pipe) = {h} \cup Range(pipe')
      /\ Below({h}, Range(pipe')) /\ h \in Nat
  BY <1>1, <1>2, RisingTail
<1>. HIDE DEF h
<1>4. Hand' = Hand /\ Queued' \subseteq Queued /\ Queued \ Queued' \subseteq {h}
  BY <1>1, <1>3 DEF Hand, Queued
<1>5. InTurn'
  BY <1>1, <1>3, <1>4 DEF ServerInv, InTurn, Below
<1>6. ~Safe(h)
  <2>1. server.n # 0 /\ server.n \in Nat /\ Hand = {server.n}
    BY <1>1 DEF ServerInv, ServerTyped, Hand
  <2>2. server.n < h
    BY <1>3, <2>1 DEF ServerInv, InTurn, Below
  <2>3. server.n \in 1..(h - 1)
    BY <1>3, <2>1, <2>2
  <2>. QED
    BY <1>1, <2>3 DEF Safe
<1>7. ServerTyped /\ Decoded
  BY DEF ServerInv
<1>. QED
  BY <1>1, <1>3, <1>4, <1>5, <1>6, <1>7, ServerMoves DEF ServerTyped, Decoded

\* The server ends, and what it has not read stays where it is.
LEMMA EndsKeeps ==
    ASSUME ServerInv, Server!Chokes \/ Server!Ends
    PROVE  ServerInv'
<1>1. /\ server.pc = "scan" /\ server' = [pc |-> "ended", n |-> 0]
      /\ UNCHANGED <<sent, closed, pipe, buffer, out>>
  BY DEF Server!Chokes, Server!Ends, Server!Goes
<1>2. server.n = 0
  BY <1>1 DEF ServerInv, ServerTyped
<1>3. Hand' = Hand /\ Queued' = Queued
  BY <1>1, <1>2 DEF Hand, Queued
<1>4. InTurn'
  BY <1>1, <1>3 DEF ServerInv, InTurn, Below
<1>5. /\ server' \in [pc : {"scan", "handle", "ssh", "ended"}, n : 0..Len(sent)]
      /\ server'.n = 0 /\ server'.pc = "ended"
  BY <1>1 DEF ServerInv, ServerTyped
<1>6. ServerTyped
  BY DEF ServerInv
<1>. QED
  BY <1>1, <1>3, <1>4, <1>5, <1>6, ServerMoves DEF ServerTyped

LEMMA SshEndsKeeps ==
    ASSUME ServerInv, Server!SshEnds
    PROVE  ServerInv'
<1>1. /\ server.pc = "ssh" /\ out' = Append(out, server.n) /\ server' = [pc |-> "scan", n |-> 0]
      /\ UNCHANGED <<sent, closed, pipe, buffer>>
  BY DEF Server!SshEnds, Server!Goes
<1>2. server.n # 0
  BY <1>1 DEF ServerInv, ServerTyped
<1>. QED
  BY <1>1, <1>2, AnsweredInTurn

\* Nothing that the server deals with moves.
LEMMA ServerRests ==
    ASSUME ServerInv, closed' \in BOOLEAN, UNCHANGED <<sent, pipe, buffer, server, out>>
    PROVE  ServerInv'
<1>1. Hand' = Hand /\ Queued' = Queued
  BY DEF Hand, Queued
<1>2. InTurn'
  BY <1>1 DEF ServerInv, InTurn, Below
<1>3. ServerTyped /\ Decoded
  BY DEF ServerInv
<1>. QED
  BY <1>1, <1>2, <1>3, ServerMoves DEF ServerTyped, Decoded

LEMMA ServerNext == ServerInv /\ [Server!Next]_(Server!vars) => ServerInv'
<1>. SUFFICES ASSUME ServerInv, [Server!Next]_(Server!vars) PROVE ServerInv'
  OBVIOUS
<1>1. CASE \E m \in Server!Messages : Server!Sends(m)
  BY <1>1, SendsKeeps
<1>2. CASE Server!Closes
  BY <1>2, ServerRests DEF Server!Closes
<1>3. CASE Server!Serves
  BY <1>3, ReadsKeeps, SkipsKeeps, TakesKeeps, HandlesKeeps, EndsKeeps DEF Server!Serves
<1>4. CASE Server!SshEnds \/ Server!SshReads
  BY <1>4, SshEndsKeeps, SshReadsKeeps
<1>5. CASE UNCHANGED Server!vars
  <2>1. closed' \in BOOLEAN
    BY <1>5 DEF Server!vars, ServerInv, ServerTyped
  <2>. QED
    BY <1>5, <2>1, ServerRests DEF Server!vars
<1>. QED
  BY <1>1, <1>2, <1>3, <1>4, <1>5 DEF Server!Next

LEMMA ServerInductive == Server!Spec => []ServerInv
BY ServerInit, ServerNext, PTL DEF Server!Spec

\* The server answers in turn and loses nothing, for any number of messages in chunks
\* of any size: a request with a number is answered, in hand or waiting unless an earlier one asked
\* for a host with a password; no line is handled twice or out of order.
THEOREM RequestsStay == Server!Spec => []NoRequestLost
<1>1. ServerInv => Server!NoRequestLost
  <2>. SUFFICES ASSUME ServerInv PROVE Server!NoRequestLost
    OBVIOUS
  <2>. DEFINE hand == IF server.n = 0 THEN << >> ELSE <<server.n>>
  <2>1. Server!TypeOK
    BY DEF ServerInv, ServerTyped, Server!TypeOK
  <2>2. hand \in Seq(Nat) /\ Rising(hand) /\ Range(hand) = Hand
    <3>0. server.n \in Nat
      BY DEF ServerInv, ServerTyped
    <3>1. CASE server.n = 0
      BY <3>1 DEF Rising, Range, Hand
    <3>2. CASE server.n # 0
      <4>1. hand = <<server.n>>
        BY <3>2
      <4>2. \A x \in Nat : <<x>> \in Seq(Nat) /\ DOMAIN <<x>> = {1} /\ <<x>>[1] = x
        OBVIOUS
      <4>. QED
        BY <3>0, <3>2, <4>1, <4>2 DEF Rising, Range, Hand
    <3>. QED
      BY <3>1, <3>2
  <2>. HIDE DEF hand
  <2>3. /\ out \in Seq(Nat) /\ buffer \in Seq(Nat) /\ pipe \in Seq(Nat)
        /\ Rising(out) /\ Rising(buffer) /\ Rising(pipe)
        /\ Below(Range(out), Range(hand)) /\ Below(Range(out), Range(buffer))
        /\ Below(Range(out), Range(pipe)) /\ Below(Range(hand), Range(buffer))
        /\ Below(Range(hand), Range(pipe)) /\ Below(Range(buffer), Range(pipe))
    BY <2>2 DEF ServerInv, ServerTyped, InTurn, Below
  <2>4. /\ out \o hand \in Seq(Nat) /\ Rising(out \o hand)
        /\ Range(out \o hand) = Range(out) \cup Range(hand)
    BY <2>2, <2>3, RisingBoth
  <2>5. Below(Range(out \o hand), Range(buffer)) /\ Below(Range(out \o hand), Range(pipe))
    BY <2>3, <2>4 DEF Below
  <2>6. /\ (out \o hand) \o buffer \in Seq(Nat) /\ Rising((out \o hand) \o buffer)
        /\ Range((out \o hand) \o buffer) = Range(out \o hand) \cup Range(buffer)
    BY <2>3, <2>4, <2>5, RisingBoth
  <2>7. Below(Range((out \o hand) \o buffer), Range(pipe))
    BY <2>3, <2>5, <2>6 DEF Below
  <2>8. LET all == ((out \o hand) \o buffer) \o pipe IN
        Rising(all) /\ Range(all) = Range((out \o hand) \o buffer) \cup Range(pipe)
    BY <2>3, <2>6, <2>7, RisingBoth
  <2>9. Server!InOrder
    <3>1. Range(((out \o hand) \o buffer) \o pipe) \subseteq DOMAIN sent
      BY <2>2, <2>4, <2>6, <2>8 DEF ServerInv, ServerTyped, Queued
    <3>2. Server!InOrder <=>
             LET all == ((out \o hand) \o buffer) \o pipe IN
             Range(all) \subseteq DOMAIN sent /\ \A i, j \in DOMAIN all : i < j => all[i] < all[j]
      BY DEF Server!InOrder, hand, Server!Range, Range
    <3>. QED
      BY <2>8, <3>1, <3>2 DEF Rising
  <2>10. ASSUME NEW n \in DOMAIN sent, Server!Request(n),
                \A k \in 1..(n - 1) : Server!Kind(k) # "ask"
         PROVE  Server!Answered(n) \/ n = server.n \/ n \in Range(buffer) \cup Range(pipe)
    <3>1. n \in Queued
      BY <2>10 DEF ServerInv, NoneLost, Safe, Server!Kind
    <3>. QED
      BY <3>1 DEF Queued, Hand, Server!Answered, Range
  <2>. QED
    BY <2>1, <2>9, <2>10 DEF Server!NoRequestLost, Server!Range, Range
<1>. QED
  BY <1>1, ServerInductive, PTL DEF NoRequestLost

-----------------------------------------------------------------------------
(* Transfer *)

\* What files are made of.
Pieces == UNION {Range(c) : c \in Contents}

Prefix(p, q) ==
    /\ Len(p) <= Len(q)
    /\ \A i \in 1..Len(p) : p[i] = q[i]

TransferTyped ==
    /\ operation \in [kind : {"put", "get", "sync"}, creds : {"none", "good"}]
    /\ source \in [Range(Files) -> Contents \cup {None}]
    /\ target \in [Range(Files) -> Seq(Pieces) \cup {None}]
    /\ before \in [Range(Files) -> Seq(Pieces) \cup {None}]
    /\ folder \in BOOLEAN /\ link \in {"none", "up", "broken"}
    /\ transfer \in [pc : {"start", "connect", "mkdir", "look", "open", "create", "copy",
                           "ok", "error"},
                     file : DOMAIN Files, done : Nat, round : 1..MaxRounds]
    /\ tally \in [{"uploaded", "skipped", "failed"} -> SUBSET (Range(Files) \cup {"folder"})]

\* Where a transfer can be, and what it has in hand there.
Underway ==
    /\ transfer.pc \in {"start", "connect", "mkdir"} \/ ~Copy!Syncing => transfer.file = 1
    /\ transfer.pc = "look" => Copy!Syncing
    /\ (\/ transfer.pc \in {"create", "copy"}
        \/ transfer.pc = "mkdir" /\ ~Copy!Syncing
        \/ transfer.pc = "connect" /\ operation.kind = "put") => source[Copy!File] # None
    /\ transfer.pc = "copy" =>
          /\ target[Copy!File] \in Seq(Pieces) /\ Len(target[Copy!File]) = transfer.done
          /\ Prefix(target[Copy!File], source[Copy!File])
    /\ transfer.pc = "ok" /\ ~Copy!Syncing => Files[1] \in tally["uploaded"]
    /\ operation.creds = "none" =>
          transfer.pc \in {"start", "connect", "error"} /\ target = before

\* One file: untouched while it waits, then counted under what became of it.
FileKept(i) ==
    LET f == Files[i] IN
    /\ i > transfer.file \/ (i = transfer.file /\ transfer.pc \notin {"ok", "error"}) =>
          f \notin tally["uploaded"] \cup tally["skipped"]
    /\ i > transfer.file \/ (i = transfer.file /\ transfer.pc \notin {"copy", "ok", "error"}) =>
          target[f] = before[f]
    /\ \/ target[f] = before[f]
       \/ source[f] # None /\ target[f] \in Seq(Pieces) /\ Prefix(target[f], source[f])
    /\ f \in tally["uploaded"] => target[f] = source[f]
    /\ f \in tally["skipped"] => target[f] = before[f] /\ Len(target[f]) = Len(source[f])
    /\ (/\ Copy!Syncing /\ tally["failed"] = {}
        /\ i < transfer.file \/ transfer.pc = "ok"
        /\ source[f] # None) => f \in tally["uploaded"] \cup tally["skipped"]

TransferInv == TransferTyped /\ Underway /\ \A i \in DOMAIN Files : FileKept(i)

LEMMA ContentsAre ==
    ASSUME Copy!TransferAssumption
    PROVE  /\ Contents \subseteq Seq(Pieces) /\ None \notin Contents
           /\ MaxRounds \in Nat \ {0}
           /\ 1 \in DOMAIN Files /\ DOMAIN Files = 1..Len(Files) /\ Len(Files) \in Nat
           /\ \A i \in DOMAIN Files : Files[i] \in Range(Files)
           /\ \A f \in Range(Files) : \E i \in DOMAIN Files : f = Files[i]
           /\ \A i, j \in DOMAIN Files : Files[i] = Files[j] => i = j
<1>1. ASSUME NEW c \in Contents PROVE c \in Seq(Pieces)
  <2>1. c \in Seq(Range(c))
    BY DEF Copy!TransferAssumption, Copy!Range, Range
  <2>2. c \in [1..Len(c) -> Range(c)] /\ Len(c) \in Nat
    BY <2>1
  <2>3. \A i \in 1..Len(c) : c[i] \in Pieces
    BY <2>2 DEF Pieces
  <2>4. c \in [1..Len(c) -> Pieces]
    BY <2>2, <2>3
  <2>. QED
    BY <2>2, <2>4
<1>2. Files \in Seq(Range(Files)) /\ Files # << >>
  BY DEF Copy!TransferAssumption, Copy!Range, Range
<1>3. DOMAIN Files = 1..Len(Files) /\ Len(Files) \in Nat /\ 1 \in DOMAIN Files
  BY <1>2
<1>4. \A i, j \in DOMAIN Files : Files[i] = Files[j] => i = j
  BY SMTT(30) DEF Copy!TransferAssumption, Copy!IsInjective
<1>. QED
  BY <1>1, <1>3, <1>4 DEF Copy!TransferAssumption, Range

LEMMA PrefixIs ==
    ASSUME NEW p \in Seq(Pieces), NEW q \in Seq(Pieces), Prefix(p, q)
    PROVE  \E n \in 0..Len(q) : p = SubSeq(q, 1, n)
<1>1. Len(p) \in Nat /\ Len(q) \in Nat /\ Len(p) <= Len(q) /\ Len(p) \in 0..Len(q)
  BY DEF Prefix
<1>2. /\ SubSeq(q, 1, Len(p)) \in Seq(Pieces) /\ Len(SubSeq(q, 1, Len(p))) = Len(p)
      /\ \A i \in 1..Len(p) : SubSeq(q, 1, Len(p))[i] = q[i]
  BY <1>1, SubSeqProperties
<1>3. \A i \in 1..Len(p) : p[i] = q[i]
  BY <1>1 DEF Prefix
<1>4. p = SubSeq(q, 1, Len(p))
  BY <1>2, <1>3, SeqEqual
<1>. QED
  BY <1>1, <1>4

\* What the property says, from the invariant.
LEMMA TransferTrue ==
    ASSUME Copy!TransferAssumption, TransferInv
    PROVE  Copy!TransferTells
<1>. USE ContentsAre DEF TransferInv
<1>1. Copy!TypeOK
  BY DEF TransferTyped, Copy!TypeOK
<1>2. ASSUME NEW f \in Range(Files)
      PROVE  /\ \/ target[f] = before[f]
                \/ /\ source[f] # None
                   /\ \E n \in 0..Len(source[f]) : target[f] = SubSeq(source[f], 1, n)
             /\ f \in tally["uploaded"] => target[f] = source[f]
             /\ f \in tally["skipped"] => target[f] = before[f] /\ Len(target[f]) = Len(source[f])
             /\ (Copy!Syncing /\ transfer.pc = "ok" /\ tally["failed"] = {}) =>
                   (source[f] # None => f \in tally["uploaded"] \cup tally["skipped"])
  <2>1. PICK i \in DOMAIN Files : f = Files[i]
    OBVIOUS
  <2>2. FileKept(i)
    BY <2>1
  <2>3. source[f] # None => source[f] \in Seq(Pieces)
    BY DEF TransferTyped
  <2>4. source[f] # None /\ target[f] \in Seq(Pieces) /\ Prefix(target[f], source[f]) =>
           \E n \in 0..Len(source[f]) : target[f] = SubSeq(source[f], 1, n)
    BY <2>3, PrefixIs, SMTT(30)
  <2>. QED
    BY <2>1, <2>2, <2>4 DEF FileKept
<1>3. (~Copy!Syncing /\ transfer.pc = "ok") => target[Files[1]] = source[Files[1]]
  BY DEF Underway, FileKept
<1>4. operation.creds = "none" => target = before /\ transfer.pc # "ok"
  BY DEF Underway
<1>5. Range(Files) = Copy!Range(Files)
  BY DEF Range, Copy!Range
<1>. QED
  BY <1>1, <1>2, <1>3, <1>4, <1>5 DEF Copy!TransferTells

LEMMA TransferInit == Copy!TransferAssumption /\ Copy!Init => TransferInv
<1>. SUFFICES ASSUME Copy!TransferAssumption, Copy!Init PROVE TransferInv
  OBVIOUS
<1>. USE ContentsAre
<1>0. Copy!Range(Files) = Range(Files)
  BY DEF Range, Copy!Range
<1>1. TransferTyped
  BY <1>0 DEF Copy!Init, Copy!FileStates, TransferTyped
<1>2. Underway
  BY DEF Copy!Init, Underway, Copy!File, Copy!Syncing
<1>3. \A i \in DOMAIN Files : FileKept(i)
  BY DEF Copy!Init, FileKept
<1>. QED
  BY <1>1, <1>2, <1>3 DEF TransferInv

\* The record of the transfer after a step, one component at a time.
LEMMA TransferFields ==
    ASSUME TransferTyped
    PROVE  /\ \A q : Copy!Goes(q) =>
                 /\ transfer'.pc = q /\ transfer'.file = transfer.file
                 /\ transfer'.done = transfer.done /\ transfer'.round = transfer.round
                 /\ transfer' = [pc |-> q, file |-> transfer.file, done |-> transfer.done,
                                 round |-> transfer.round]
           /\ transfer.file \in DOMAIN Files /\ transfer.done \in Nat
           /\ transfer.round \in 1..MaxRounds
<1>1. transfer = [pc |-> transfer.pc, file |-> transfer.file, done |-> transfer.done,
                  round |-> transfer.round]
  BY DEF TransferTyped
<1>. QED
  BY <1>1 DEF Copy!Goes, TransferTyped

\* A step that touches no file and ends in the hands of the same one.
LEMMA Proceeds ==
    ASSUME Copy!TransferAssumption, TransferInv, NEW q, Copy!Goes(q),
           q \in {"connect", "mkdir", "look", "open", "create", "error"},
           q = "error" \/ transfer.pc \in {"start", "connect", "mkdir", "look", "open"},
           UNCHANGED <<operation, source, target, before>>,
           folder' \in BOOLEAN, link' \in {"none", "up", "broken"},
           tally' \in [{"uploaded", "skipped", "failed"} -> SUBSET (Range(Files) \cup {"folder"})],
           tally'["uploaded"] = tally["uploaded"], tally'["skipped"] = tally["skipped"],
           tally["failed"] # {} => tally'["failed"] # {},
           Underway'
    PROVE  TransferInv'
<1>. USE ContentsAre DEF TransferInv
<1>0. /\ transfer'.pc = q /\ transfer'.file = transfer.file
      /\ transfer' = [pc |-> q, file |-> transfer.file, done |-> transfer.done,
                      round |-> transfer.round]
      /\ transfer.file \in DOMAIN Files /\ transfer.done \in Nat
      /\ transfer.round \in 1..MaxRounds
  BY TransferFields
<1>1. TransferTyped'
  BY <1>0 DEF TransferTyped
<1>2. ASSUME NEW i \in DOMAIN Files PROVE FileKept(i)'
  <2>1. FileKept(i)
    OBVIOUS
  <2>. QED
    BY <2>1, <1>0 DEF FileKept, Copy!Syncing
<1>. QED
  BY <1>1, <1>2

\* Sync has done with a file, and goes on to the next one or ends.
LEMMA WalksOn ==
    ASSUME Copy!TransferAssumption, TransferInv, Copy!NextFile, Copy!Syncing,
           transfer.pc \in {"look", "open", "create", "copy"},
           UNCHANGED <<operation, source, target, before>>,
           folder' \in BOOLEAN, link' \in {"none", "up", "broken"},
           tally' \in [{"uploaded", "skipped", "failed"} -> SUBSET (Range(Files) \cup {"folder"})],
           \A f : f # Copy!File =>
              /\ f \in tally'["uploaded"] => f \in tally["uploaded"]
              /\ f \in tally'["skipped"] => f \in tally["skipped"],
           tally["uploaded"] \subseteq tally'["uploaded"],
           tally["skipped"] \subseteq tally'["skipped"],
           tally["failed"] # {} => tally'["failed"] # {},
           Copy!File \in tally'["uploaded"] => target[Copy!File] = source[Copy!File],
           Copy!File \in tally'["skipped"] =>
              /\ target[Copy!File] = before[Copy!File]
              /\ Len(target[Copy!File]) = Len(source[Copy!File]),
           \/ source[Copy!File] = None \/ tally'["failed"] # {}
           \/ Copy!File \in tally'["uploaded"] \cup tally'["skipped"]
    PROVE  TransferInv'
<1>. USE ContentsAre DEF TransferInv
<1>0. /\ transfer.file \in DOMAIN Files /\ transfer.done \in Nat
      /\ transfer.round \in 1..MaxRounds
      /\ transfer = [pc |-> transfer.pc, file |-> transfer.file, done |-> transfer.done,
                     round |-> transfer.round]
  BY DEF TransferTyped
<1>1. CASE transfer.file < Len(Files)
  <2>1. transfer' = [pc |-> "look", file |-> transfer.file + 1, done |-> transfer.done,
                     round |-> transfer.round]
    BY <1>0, <1>1 DEF Copy!NextFile
  <2>2. transfer.file + 1 \in DOMAIN Files
    BY <1>0, <1>1
  <2>3. TransferTyped'
    BY <1>0, <2>1, <2>2 DEF TransferTyped
  <2>4. Underway'
    BY <1>0, <2>1 DEF Underway, Copy!Syncing, TransferTyped
  <2>5. ASSUME NEW i \in DOMAIN Files PROVE FileKept(i)'
    <3>1. FileKept(i) /\ (i # transfer.file => Files[i] # Copy!File)
      BY <1>0 DEF Copy!File
    <3>2. CASE i = transfer.file
      BY <1>0, <2>1, <3>1, <3>2 DEF FileKept, Copy!Syncing, Copy!File
    <3>3. CASE i < transfer.file
      BY <1>0, <2>1, <3>1, <3>3 DEF FileKept, Copy!Syncing
    <3>4. CASE i > transfer.file
      BY <1>0, <2>1, <3>1, <3>4 DEF FileKept, Copy!Syncing
    <3>. QED
      BY <1>0, <3>2, <3>3, <3>4
  <2>. QED
    BY <2>3, <2>4, <2>5
<1>2. CASE ~(transfer.file < Len(Files))
  <2>1. transfer' = [pc |-> "ok", file |-> transfer.file, done |-> transfer.done,
                     round |-> transfer.round]
    BY <1>0, <1>2 DEF Copy!NextFile
  <2>2. TransferTyped'
    BY <1>0, <2>1 DEF TransferTyped
  <2>3. Underway'
    BY <1>0, <2>1 DEF Underway, Copy!Syncing, TransferTyped
  <2>4. ASSUME NEW i \in DOMAIN Files PROVE FileKept(i)'
    <3>1. FileKept(i) /\ (i # transfer.file => Files[i] # Copy!File)
      BY <1>0 DEF Copy!File
    <3>2. CASE i = transfer.file
      BY <1>0, <2>1, <3>1, <3>2 DEF FileKept, Copy!Syncing, Copy!File
    <3>3. CASE i < transfer.file
      BY <1>0, <2>1, <3>1, <3>3 DEF FileKept, Copy!Syncing
    <3>. QED
      BY <1>0, <1>2, <3>2, <3>3
  <2>. QED
    BY <2>2, <2>3, <2>4
<1>. QED
  BY <1>1, <1>2

\* A file counted as failed is not counted as anything else.
LEMMA CountsFailed ==
    ASSUME TransferTyped, NEW f \in Range(Files) \cup {"folder"}, Copy!Counts("failed", f)
    PROVE  /\ tally' \in [{"uploaded", "skipped", "failed"} -> SUBSET (Range(Files) \cup {"folder"})]
           /\ tally'["uploaded"] = tally["uploaded"] /\ tally'["skipped"] = tally["skipped"]
           /\ tally'["failed"] # {}
<1>1. tally \in [{"uploaded", "skipped", "failed"} -> SUBSET (Range(Files) \cup {"folder"})]
  BY DEF TransferTyped
<1>. QED
  BY <1>1 DEF Copy!Counts

\* Put and Get end with an error, Sync goes on.
LEMMA FailsKeeps ==
    ASSUME Copy!TransferAssumption, TransferInv, Copy!Fails,
           transfer.pc \in {"open", "create", "copy"},
           UNCHANGED <<operation, source, target, folder, link, before>>
    PROVE  TransferInv'
<1>. USE DEF TransferInv
<1>0. folder' \in BOOLEAN /\ link' \in {"none", "up", "broken"}
      /\ Copy!File \in Range(Files) /\ transfer.file \in DOMAIN Files
      /\ tally \in [{"uploaded", "skipped", "failed"} -> SUBSET (Range(Files) \cup {"folder"})]
  BY ContentsAre DEF TransferTyped, Copy!File
<1>1. CASE Copy!Syncing
  <2>1. Copy!Counts("failed", Copy!File) /\ Copy!NextFile
    BY <1>1 DEF Copy!Fails
  <2>2. /\ tally' \in [{"uploaded", "skipped", "failed"} -> SUBSET (Range(Files) \cup {"folder"})]
        /\ tally'["uploaded"] = tally["uploaded"] /\ tally'["skipped"] = tally["skipped"]
        /\ tally'["failed"] # {}
    BY <1>0, <2>1, CountsFailed
  <2>3. Copy!File \notin tally["uploaded"] \cup tally["skipped"]
    BY <1>0 DEF FileKept, Copy!File
  <2>. QED
    BY <1>0, <1>1, <2>1, <2>2, <2>3, WalksOn
<1>2. CASE ~Copy!Syncing
  <2>1. Copy!Goes("error") /\ tally' = tally
    BY <1>2 DEF Copy!Fails
  <2>2. transfer'.pc = "error" /\ transfer'.file = transfer.file
    BY <2>1, TransferFields
  <2>3. Underway'
    BY <1>2, <2>1, <2>2 DEF Underway, Copy!Syncing, Copy!File
  <2>. QED
    BY <1>0, <2>1, <2>3, Proceeds
<1>. QED
  BY <1>1, <1>2

LEMMA OpensFirstKeeps ==
    ASSUME Copy!TransferAssumption, TransferInv, Copy!OpensFirst PROVE TransferInv'
<1>. USE DEF TransferInv
<1>0. /\ folder' \in BOOLEAN /\ link' \in {"none", "up", "broken"}
      /\ tally' = tally /\ transfer.pc = "start"
      /\ UNCHANGED <<operation, source, target, before>>
      /\ tally' \in [{"uploaded", "skipped", "failed"} -> SUBSET (Range(Files) \cup {"folder"})]
  BY DEF Copy!OpensFirst, TransferTyped
<1>1. PICK q \in {"error", "connect"} :
         /\ Copy!Goes(q)
         /\ q = "connect" /\ operation.kind = "put" => source[Copy!File] # None
  BY DEF Copy!OpensFirst
<1>2. transfer'.pc = q /\ transfer'.file = transfer.file
  BY <1>1, TransferFields
<1>3. Underway'
  BY <1>0, <1>1, <1>2 DEF Underway, Copy!Syncing, Copy!File
<1>. QED
  BY <1>0, <1>1, <1>3, Proceeds

LEMMA ConnectsKeeps ==
    ASSUME Copy!TransferAssumption, TransferInv, Copy!Connects PROVE TransferInv'
<1>. USE DEF TransferInv
<1>0. /\ folder' \in BOOLEAN /\ link' \in {"none", "up", "broken"}
      /\ tally' = tally /\ transfer.pc = "connect"
      /\ UNCHANGED <<operation, source, target, before>>
      /\ operation.kind \in {"put", "get", "sync"} /\ operation.creds \in {"none", "good"}
      /\ tally' \in [{"uploaded", "skipped", "failed"} -> SUBSET (Range(Files) \cup {"folder"})]
  BY DEF Copy!Connects, TransferTyped
<1>1. PICK q \in {"error", "open", "mkdir"} :
         /\ Copy!Goes(q)
         /\ q # "error" => operation.creds = "good"
         /\ q = "mkdir" => operation.kind # "get"
  BY DEF Copy!Connects
<1>2. transfer'.pc = q /\ transfer'.file = transfer.file
  BY <1>1, TransferFields
<1>3. Underway'
  BY <1>0, <1>1, <1>2 DEF Underway, Copy!Syncing, Copy!File
<1>. QED
  BY <1>0, <1>1, <1>3, Proceeds

LEMMA MakesFolderKeeps ==
    ASSUME Copy!TransferAssumption, TransferInv, Copy!MakesFolder PROVE TransferInv'
<1>. USE DEF TransferInv
<1>0. /\ folder' \in BOOLEAN /\ link' \in {"none", "up", "broken"}
      /\ transfer.pc = "mkdir"
      /\ UNCHANGED <<operation, source, target, before>>
      /\ tally \in [{"uploaded", "skipped", "failed"} -> SUBSET (Range(Files) \cup {"folder"})]
  BY DEF Copy!MakesFolder, TransferTyped
<1>1. PICK q \in {"error", "look", "create"} :
         /\ Copy!Goes(q)
         /\ q = "look" => Copy!Syncing
         /\ q = "create" => ~Copy!Syncing
         /\ tally' = tally \/ Copy!Counts("failed", "folder")
  BY DEF Copy!MakesFolder
<1>2. /\ tally' \in [{"uploaded", "skipped", "failed"} -> SUBSET (Range(Files) \cup {"folder"})]
      /\ tally'["uploaded"] = tally["uploaded"] /\ tally'["skipped"] = tally["skipped"]
      /\ tally["failed"] # {} => tally'["failed"] # {}
  BY <1>0, <1>1, CountsFailed
<1>3. transfer'.pc = q /\ transfer'.file = transfer.file
  BY <1>1, TransferFields
<1>4. Underway'
  BY <1>0, <1>1, <1>3 DEF Underway, Copy!Syncing, Copy!File
<1>. QED
  BY <1>0, <1>1, <1>2, <1>4, Proceeds

LEMMA SkipsSameSizeKeeps ==
    ASSUME Copy!TransferAssumption, TransferInv, Copy!SkipsSameSize PROVE TransferInv'
<1>. USE DEF TransferInv
<1>0. /\ folder' \in BOOLEAN /\ link' \in {"none", "up", "broken"}
      /\ transfer.pc = "look" /\ Copy!Syncing /\ transfer.file \in DOMAIN Files
      /\ UNCHANGED <<operation, source, target, before>>
      /\ Copy!NextFile /\ Copy!Counts("skipped", Copy!File) /\ Copy!SameSize(Copy!File)
      /\ tally \in [{"uploaded", "skipped", "failed"} -> SUBSET (Range(Files) \cup {"folder"})]
  BY DEF Copy!SkipsSameSize, TransferTyped, Underway
<1>1. Copy!File \in Range(Files)
  BY <1>0, ContentsAre DEF Copy!File
<1>2. /\ tally' \in [{"uploaded", "skipped", "failed"} -> SUBSET (Range(Files) \cup {"folder"})]
      /\ tally'["uploaded"] = tally["uploaded"] /\ tally'["failed"] = tally["failed"]
      /\ tally'["skipped"] = tally["skipped"] \cup {Copy!File}
  BY <1>0, <1>1 DEF Copy!Counts
<1>3. target[Copy!File] = before[Copy!File] /\ Copy!File \notin tally["uploaded"]
  BY <1>0 DEF FileKept, Copy!File
<1>4. Len(target[Copy!File]) = Len(source[Copy!File])
  BY <1>0 DEF Copy!SameSize
<1>. QED
  BY <1>0, <1>2, <1>3, <1>4, WalksOn

LEMMA PassesOverKeeps ==
    ASSUME Copy!TransferAssumption, TransferInv, Copy!PassesOver PROVE TransferInv'
<1>. USE DEF TransferInv
<1>0. /\ folder' \in BOOLEAN /\ link' \in {"none", "up", "broken"}
      /\ transfer.pc = "look" /\ Copy!Syncing /\ transfer.file \in DOMAIN Files
      /\ UNCHANGED <<operation, source, target, before, tally>>
      /\ Copy!NextFile /\ source[Copy!File] = None
      /\ tally' \in [{"uploaded", "skipped", "failed"} -> SUBSET (Range(Files) \cup {"folder"})]
  BY DEF Copy!PassesOver, TransferTyped, Underway
<1>1. Copy!File \notin tally["uploaded"] \cup tally["skipped"]
  BY <1>0 DEF FileKept, Copy!File
<1>. QED
  BY <1>0, <1>1, WalksOn

LEMMA LooksAgainKeeps ==
    ASSUME Copy!TransferAssumption, TransferInv, Copy!LooksAgain PROVE TransferInv'
<1>. USE DEF TransferInv
<1>0. /\ folder' \in BOOLEAN /\ link' \in {"none", "up", "broken"}
      /\ tally' = tally /\ transfer.pc = "look" /\ Copy!Goes("open")
      /\ UNCHANGED <<operation, source, target, before>>
      /\ tally' \in [{"uploaded", "skipped", "failed"} -> SUBSET (Range(Files) \cup {"folder"})]
  BY DEF Copy!LooksAgain, TransferTyped
<1>1. transfer'.pc = "open" /\ transfer'.file = transfer.file
  BY <1>0, TransferFields
<1>2. Underway'
  BY <1>0, <1>1 DEF Underway, Copy!Syncing, Copy!File
<1>. QED
  BY <1>0, <1>2, Proceeds

LEMMA OpensSourceKeeps ==
    ASSUME Copy!TransferAssumption, TransferInv, Copy!OpensSource PROVE TransferInv'
<1>. USE DEF TransferInv
<1>0. /\ folder' \in BOOLEAN /\ link' \in {"none", "up", "broken"}
      /\ transfer.pc = "open" /\ UNCHANGED <<operation, source, target, folder, link, before>>
  BY DEF Copy!OpensSource, TransferTyped
<1>1. CASE Copy!Fails
  BY <1>0, <1>1, FailsKeeps
<1>2. ASSUME ~Copy!Fails PROVE TransferInv'
  <2>1. PICK q \in {"create", "mkdir"} :
           /\ Copy!Goes(q) /\ (q = "mkdir" => ~Copy!Syncing)
           /\ source[Copy!File] # None /\ tally' = tally
    BY <1>2 DEF Copy!OpensSource
  <2>2. transfer'.pc = q /\ transfer'.file = transfer.file
    BY <2>1, TransferFields
  <2>3. Underway'
    BY <1>0, <2>1, <2>2 DEF Underway, Copy!Syncing, Copy!File
  <2>4. tally' \in [{"uploaded", "skipped", "failed"} -> SUBSET (Range(Files) \cup {"folder"})]
    BY <2>1 DEF TransferTyped
  <2>. QED
    BY <1>0, <2>1, <2>3, <2>4, Proceeds
<1>. QED
  BY <1>1, <1>2

LEMMA CreatesKeeps ==
    ASSUME Copy!TransferAssumption, TransferInv, Copy!Creates PROVE TransferInv'
<1>. USE ContentsAre DEF TransferInv
<1>0. transfer.pc = "create" /\ UNCHANGED <<operation, source, folder, link, before>>
  BY DEF Copy!Creates
<1>1. CASE Copy!Fails /\ UNCHANGED target
  BY <1>0, <1>1, FailsKeeps
<1>2. CASE ~(Copy!Fails /\ UNCHANGED target)
  <2>1. /\ target' = [target EXCEPT ![Copy!File] = << >>] /\ UNCHANGED tally
        /\ transfer' = [transfer EXCEPT !.pc = "copy", !.done = 0]
    BY <1>2 DEF Copy!Creates
  <2>2. /\ transfer.file \in DOMAIN Files /\ transfer.round \in 1..MaxRounds
        /\ transfer' = [pc |-> "copy", file |-> transfer.file, done |-> 0,
                        round |-> transfer.round]
    BY <2>1 DEF TransferTyped
  <2>3. Copy!File \in Range(Files) /\ Copy!File' = Copy!File
    BY <2>2 DEF Copy!File
  <2>4. << >> \in Seq(Pieces) /\ Len(<< >>) = 0
    OBVIOUS
  <2>5. /\ target'[Copy!File] = << >>
        /\ \A f \in Range(Files) : f # Copy!File => target'[f] = target[f]
        /\ target' \in [Range(Files) -> Seq(Pieces) \cup {None}]
    BY <2>1, <2>3, <2>4 DEF TransferTyped
  <2>6. source[Copy!File] # None /\ source[Copy!File] \in Contents
    BY <1>0, <2>3 DEF Underway, TransferTyped
  <2>7. Prefix(<< >>, source[Copy!File])
    <3>1. source[Copy!File] \in Seq(Pieces)
      BY <2>6
    <3>2. Len(source[Copy!File]) \in Nat
      BY <3>1
    <3>. QED
      BY <2>4, <3>2 DEF Prefix
  <2>8. TransferTyped'
    BY <1>0, <2>1, <2>2, <2>5 DEF TransferTyped
  <2>9. operation.creds # "none"
    BY <1>0 DEF Underway
  <2>10. Underway'
    BY <1>0, <2>1, <2>2, <2>3, <2>4, <2>5, <2>6, <2>7, <2>9 DEF Underway, Copy!Syncing
  <2>11. ASSUME NEW i \in DOMAIN Files PROVE FileKept(i)'
    <3>1. FileKept(i) /\ Files[i] \in Range(Files)
      OBVIOUS
    <3>2. CASE i = transfer.file
      <4>1. Files[i] = Copy!File
        BY <3>2 DEF Copy!File
      <4>. QED
        BY <1>0, <2>1, <2>2, <2>4, <2>5, <2>6, <2>7, <3>1, <3>2, <4>1 DEF FileKept, Copy!Syncing
    <3>3. CASE i # transfer.file
      <4>1. Files[i] # Copy!File
        BY <2>2, <3>3 DEF Copy!File
      <4>. QED
        BY <1>0, <2>1, <2>2, <2>5, <3>1, <3>3, <4>1 DEF FileKept, Copy!Syncing
    <3>. QED
      BY <3>2, <3>3
  <2>. QED
    BY <2>8, <2>10, <2>11
<1>. QED
  BY <1>1, <1>2

LEMMA CopiesBufferKeeps ==
    ASSUME Copy!TransferAssumption, TransferInv, Copy!CopiesBuffer PROVE TransferInv'
<1>. USE ContentsAre DEF TransferInv
<1>. DEFINE n == transfer.done + 1
            s == source[Copy!File]
            p == target[Copy!File]
<1>1. /\ transfer.pc = "copy" /\ transfer.done < Len(s)
      /\ UNCHANGED <<operation, source, folder, link, tally, before>>
      /\ transfer' = [transfer EXCEPT !.done = n]
      /\ target' = [target EXCEPT ![Copy!File] = IF n <= Len(p) THEN [p EXCEPT ![n] = s[n]]
                                                 ELSE Append(p, s[n])]
  BY DEF Copy!CopiesBuffer
<1>2. /\ transfer.file \in DOMAIN Files /\ transfer.round \in 1..MaxRounds
      /\ transfer.done \in Nat
      /\ transfer' = [pc |-> "copy", file |-> transfer.file, done |-> n,
                      round |-> transfer.round]
  BY <1>1 DEF TransferTyped
<1>3. Copy!File \in Range(Files) /\ Copy!File' = Copy!File
  BY <1>2 DEF Copy!File
<1>4. /\ s # None /\ s \in Seq(Pieces)
      /\ p \in Seq(Pieces) /\ Len(p) = transfer.done /\ Prefix(p, s)
  BY <1>1, <1>3 DEF Underway, TransferTyped
<1>5. n \in 1..Len(s) /\ s[n] \in Pieces
  BY <1>1, <1>2, <1>4
<1>6. target' = [target EXCEPT ![Copy!File] = Append(p, s[n])]
  <2>1. ~(n <= Len(p))
    BY ONLY <1>2, <1>4 DEF n
  <2>. QED
    BY <1>1, <2>1
<1>7. /\ Append(p, s[n]) \in Seq(Pieces) /\ Len(Append(p, s[n])) = n
      /\ \A i \in 1..Len(p) : Append(p, s[n])[i] = p[i]
      /\ Append(p, s[n])[n] = s[n]
  BY <1>2, <1>4, <1>5, AppendProperties
<1>8. Prefix(Append(p, s[n]), s)
  <2>1. \A i \in 1..n : i \in 1..Len(p) \/ i = n
    BY <1>2, <1>4
  <2>2. \A i \in 1..n : Append(p, s[n])[i] = s[i]
    BY <1>4, <1>7, <2>1 DEF Prefix
  <2>3. n <= Len(s)
    BY <1>5
  <2>. QED
    BY <1>7, <2>2, <2>3 DEF Prefix
<1>9. /\ target'[Copy!File] = Append(p, s[n])
      /\ \A f \in Range(Files) : f # Copy!File => target'[f] = target[f]
      /\ target' \in [Range(Files) -> Seq(Pieces) \cup {None}]
  BY <1>3, <1>6, <1>7 DEF TransferTyped
<1>10. n \in Nat
  BY <1>2
<1>. HIDE DEF n
<1>11. TransferTyped'
  BY <1>1, <1>2, <1>9, <1>10 DEF TransferTyped
<1>12. operation.creds # "none"
  BY <1>1 DEF Underway
<1>13. Underway'
  BY <1>1, <1>2, <1>3, <1>4, <1>7, <1>8, <1>9, <1>12, SMTT(30) DEF Underway, Copy!Syncing
<1>14. ASSUME NEW i \in DOMAIN Files PROVE FileKept(i)'
  <2>1. FileKept(i) /\ Files[i] \in Range(Files)
    OBVIOUS
  <2>2. CASE i = transfer.file
    <3>1. Files[i] = Copy!File
      BY <2>2 DEF Copy!File
    <3>. QED
      BY <1>1, <1>2, <1>4, <1>7, <1>8, <1>9, <2>1, <2>2, <3>1, SMTT(30) DEF FileKept, Copy!Syncing
  <2>3. CASE i # transfer.file
    <3>1. Files[i] # Copy!File
      BY <1>2, <2>3 DEF Copy!File
    <3>. QED
      BY <1>1, <1>2, <1>9, <2>1, <2>3, <3>1 DEF FileKept, Copy!Syncing
  <2>. QED
    BY <2>2, <2>3
<1>. QED
  BY <1>11, <1>13, <1>14

LEMMA CopyEndsKeeps ==
    ASSUME Copy!TransferAssumption, TransferInv, Copy!CopyEnds PROVE TransferInv'
<1>. USE ContentsAre DEF TransferInv
<1>1. /\ transfer.pc = "copy" /\ transfer.done = Len(source[Copy!File])
      /\ UNCHANGED <<operation, source, target, folder, link, before>>
      /\ Copy!Counts("uploaded", Copy!File)
      /\ IF Copy!Syncing THEN Copy!NextFile ELSE Copy!Goes("ok")
  BY DEF Copy!CopyEnds
<1>2. /\ transfer.file \in DOMAIN Files /\ Copy!File \in Range(Files)
      /\ folder' \in BOOLEAN /\ link' \in {"none", "up", "broken"}
      /\ tally \in [{"uploaded", "skipped", "failed"} -> SUBSET (Range(Files) \cup {"folder"})]
  BY <1>1 DEF TransferTyped, Copy!File
<1>3. target[Copy!File] = source[Copy!File] /\ source[Copy!File] # None
  <2>1. /\ target[Copy!File] \in Seq(Pieces) /\ Len(target[Copy!File]) = transfer.done
        /\ Prefix(target[Copy!File], source[Copy!File])
        /\ source[Copy!File] \in Seq(Pieces) /\ source[Copy!File] # None
    BY <1>1, <1>2 DEF Underway, TransferTyped
  <2>. QED
    BY <1>1, <2>1, SeqEqual, SMTT(30) DEF Prefix
<1>4. /\ tally' \in [{"uploaded", "skipped", "failed"} -> SUBSET (Range(Files) \cup {"folder"})]
      /\ tally'["skipped"] = tally["skipped"] /\ tally'["failed"] = tally["failed"]
      /\ tally'["uploaded"] = tally["uploaded"] \cup {Copy!File}
  BY <1>1, <1>2 DEF Copy!Counts
<1>5. Copy!File \notin tally["skipped"]
  BY <1>1, <1>2 DEF FileKept, Copy!File
<1>6. CASE Copy!Syncing
  BY <1>1, <1>2, <1>3, <1>4, <1>5, <1>6, WalksOn
<1>7. CASE ~Copy!Syncing
  <2>1. Copy!Goes("ok") /\ transfer.file = 1
    BY <1>1, <1>7 DEF Underway
  <2>2. /\ transfer'.pc = "ok" /\ transfer'.file = 1
        /\ transfer' = [pc |-> "ok", file |-> 1, done |-> transfer.done,
                        round |-> transfer.round]
        /\ transfer.done \in Nat /\ transfer.round \in 1..MaxRounds
    BY <2>1, TransferFields
  <2>3. TransferTyped'
    BY <1>1, <1>2, <1>4, <2>2 DEF TransferTyped
  <2>4. Underway'
    BY <1>1, <1>4, <1>7, <2>1, <2>2 DEF Underway, Copy!Syncing, Copy!File
  <2>5. ASSUME NEW i \in DOMAIN Files PROVE FileKept(i)'
    <3>1. FileKept(i) /\ (i # transfer.file => Files[i] # Copy!File)
      BY <1>2 DEF Copy!File
    <3>2. CASE i = transfer.file
      <4>1. Files[i] = Copy!File
        BY <3>2 DEF Copy!File
      <4>. QED
        BY <1>1, <1>3, <1>4, <1>5, <1>7, <2>1, <2>2, <3>1, <3>2, <4>1 DEF FileKept, Copy!Syncing
    <3>3. CASE i # transfer.file
      BY <1>1, <1>4, <1>7, <2>1, <2>2, <3>1, <3>3 DEF FileKept, Copy!Syncing
    <3>. QED
      BY <3>2, <3>3
  <2>. QED
    BY <2>3, <2>4, <2>5
<1>. QED
  BY <1>6, <1>7

LEMMA CopyBreaksKeeps ==
    ASSUME Copy!TransferAssumption, TransferInv, Copy!CopyBreaks PROVE TransferInv'
  BY FailsKeeps DEF Copy!CopyBreaks

LEMMA LinkBreaksKeeps ==
    ASSUME Copy!TransferAssumption, TransferInv, Copy!LinkBreaks PROVE TransferInv'
<1>. USE DEF TransferInv
<1>0. UNCHANGED <<operation, source, target, folder, transfer, tally, before>> /\ link' = "broken"
  BY DEF Copy!LinkBreaks
<1>1. TransferTyped' /\ Underway'
  BY <1>0 DEF TransferTyped, Underway, Copy!Syncing, Copy!File
<1>2. ASSUME NEW i \in DOMAIN Files PROVE FileKept(i)'
  BY <1>0 DEF FileKept, Copy!Syncing
<1>. QED
  BY <1>1, <1>2

LEMMA RunsAgainKeeps ==
    ASSUME Copy!TransferAssumption, TransferInv, Copy!RunsAgain PROVE TransferInv'
<1>. USE ContentsAre DEF TransferInv
<1>0. Copy!Range(Files) = Range(Files)
  BY DEF Range, Copy!Range
<1>1. /\ source' \in [Range(Files) -> Contents \cup {None}]
      /\ link' = "none" /\ before' = target /\ UNCHANGED <<operation, target, folder>>
      /\ transfer' = [pc |-> "start", file |-> 1, done |-> 0, round |-> transfer.round + 1]
      /\ tally' = [what \in DOMAIN tally |-> {}] /\ transfer.round < MaxRounds
  BY <1>0 DEF Copy!RunsAgain, Copy!FileStates
<1>2. transfer.round + 1 \in 1..MaxRounds
  BY <1>1 DEF TransferTyped
<1>3. tally' = [what \in {"uploaded", "skipped", "failed"} |-> {}]
  BY <1>1 DEF TransferTyped
<1>4. TransferTyped'
  BY <1>1, <1>2, <1>3 DEF TransferTyped
<1>5. Underway'
  BY <1>1, <1>3 DEF Underway, Copy!Syncing, Copy!File
<1>6. ASSUME NEW i \in DOMAIN Files PROVE FileKept(i)'
  BY <1>1, <1>3 DEF FileKept
<1>. QED
  BY <1>4, <1>5, <1>6

LEMMA TransferRests ==
    ASSUME TransferInv, UNCHANGED Copy!vars PROVE TransferInv'
<1>. USE DEF TransferInv
<1>0. UNCHANGED <<operation, source, target, folder, link, transfer, tally, before>>
  BY DEF Copy!vars
<1>1. TransferTyped' /\ Underway'
  BY <1>0 DEF TransferTyped, Underway, Copy!Syncing, Copy!File
<1>2. ASSUME NEW i \in DOMAIN Files PROVE FileKept(i)'
  BY <1>0 DEF FileKept, Copy!Syncing
<1>. QED
  BY <1>1, <1>2

LEMMA TransferInductive == Copy!TransferAssumption /\ Copy!Spec => []TransferInv
<1>. SUFFICES ASSUME Copy!TransferAssumption PROVE Copy!Spec => []TransferInv
  OBVIOUS
<1>1. Copy!Init => TransferInv
  BY TransferInit
<1>2. TransferInv /\ [Copy!Next]_(Copy!vars) => TransferInv'
  BY OpensFirstKeeps, ConnectsKeeps, MakesFolderKeeps, SkipsSameSizeKeeps, PassesOverKeeps,
     LooksAgainKeeps, OpensSourceKeeps, CreatesKeeps, CopiesBufferKeeps, CopyEndsKeeps,
     CopyBreaksKeeps, LinkBreaksKeeps, RunsAgainKeeps, TransferRests DEF Copy!Next
<1>. QED
  BY <1>1, <1>2, PTL DEF Copy!Spec

\* At every moment each target is as it was or a beginning of its source; what is
\* counted as uploaded is whole, what is counted as skipped has its source's size, and
\* a run of Sync that counts no failure leaves no file out: for any directory, any
\* contents and any number of runs, wherever a write, a read or the connection breaks.
THEOREM TransferReportHolds == Copy!Spec => []TransferTells
<1>. Copy!TransferAssumption
  BY CommandsAssumption
<1>1. TransferInv => Copy!TransferTells
  BY TransferTrue
<1>. QED
  BY <1>1, TransferInductive, PTL DEF TransferTells

-----------------------------------------------------------------------------
(* Playbook *)

\* The place of an entry of the two histories, against that of the run or of another one.
At(r, s, h) == r.step = s /\ r.host = h
Earlier(r, s, h) == r.step < s \/ (r.step = s /\ r.host < h)

\* What has been executed does not stand in the way of going on.
Settled(r) ==
    ~Book!IsFailed(book.steps[r.step], r.code) \/ book.steps[r.step].ignore

Executed == [step : DOMAIN book.steps, host : DOMAIN book.hosts, code : Codes]
Outcomes == {"skipped", "ignored", "ok", "failed"}
Reported == [step : DOMAIN book.steps, host : DOMAIN book.hosts, what : Outcomes, code : Codes]

BookTyped ==
    /\ book \in [steps : Seq(Steps), hosts : Seq(Aliases), dry : BOOLEAN]
    /\ run \in [pc : {"host", "attempt", "conclude", "report", "done", "error"},
                step : 1..(Len(book.steps) + 1), host : DOMAIN book.hosts, attempt : Nat]
    /\ ran \in Seq(Executed)
    /\ result \in [results : Seq(Reported), failed : BOOLEAN, skipped : Nat, changed : Nat,
                   errors : Nat]
    /\ exit \in {0, 1, 2}

Running == run.pc \in {"host", "attempt", "conclude"}
Through == Running \/ (run.pc \in {"report", "done"} /\ ~result.failed)

\* Where the run can be, and what it knows there.
OnTheWay ==
    /\ run.pc = "host" => run.attempt = 0
    /\ run.pc \in {"attempt", "conclude"} =>
          run.step <= Len(book.steps) /\ ~book.dry /\ Book!Alias \in Book!Step.when
    /\ run.pc = "attempt" => run.attempt < Book!Tries(Book!Step)
    /\ run.pc = "conclude" => ran # << >> /\ At(ran[Len(ran)], run.step, run.host)
    /\ Running => ~result.failed
    /\ run.pc \in {"report", "done"} /\ ~result.failed => run.step = Len(book.steps) + 1
    /\ Running \/ run.pc = "report" => exit = 2
    /\ run.pc = "done" => exit = (IF result.failed THEN 1 ELSE 0)
    /\ run.pc = "error" => exit = 1

\* One command that was executed: no later place than the run's, tried again only after
\* a failure and as often as allowed, and settled once the run has left its place.
RanKept(i) ==
    LET r == ran[i]
        s == book.steps[r.step]
    IN /\ run.pc = "host" => Earlier(r, run.step, run.host)
       /\ Running => Earlier(r, run.step, run.host) \/ At(r, run.step, run.host)
       /\ run.pc = "attempt" /\ At(r, run.step, run.host) =>
             Len(ran) - i < run.attempt /\ r.code # 0 /\ ~Book!Matches(s, r.code)
       /\ \A j \in DOMAIN ran : j > i /\ At(ran[j], r.step, r.host) =>
             j - i < Book!Tries(s) /\ r.code # 0 /\ ~Book!Matches(s, r.code)
       /\ i < Len(ran) /\ ~At(ran[i + 1], r.step, r.host) => Settled(r)
       /\ i = Len(ran) /\ Through /\ (Running => run.pc = "host" \/ ~At(r, run.step, run.host)) =>
             Settled(r)

\* The results: in order, and all of them of places that the run has left.
ResultsKept ==
    /\ \A i, j \in DOMAIN result.results :
          i < j => Earlier(result.results[i], result.results[j].step, result.results[j].host)
    /\ Running => \A i \in DOMAIN result.results :
          Earlier(result.results[i], run.step, run.host)

\* A place that the run has left has its result, and was executed if it was to be.
PlaceKept(s, h) ==
    Through /\ (s < run.step \/ (s = run.step /\ h < run.host)) =>
        /\ \E i \in DOMAIN result.results : At(result.results[i], s, h)
        /\ (\E i \in DOMAIN ran : At(ran[i], s, h))
               <=> (~book.dry /\ book.hosts[h] \in book.steps[s].when)

BookInv ==
    /\ BookTyped /\ OnTheWay /\ ResultsKept
    /\ \A i \in DOMAIN ran : RanKept(i)
    /\ \A s \in DOMAIN book.steps, h \in DOMAIN book.hosts : PlaceKept(s, h)

LEMMA BookFacts ==
    ASSUME BookTyped
    PROVE  /\ DOMAIN book.steps = 1..Len(book.steps) /\ Len(book.steps) \in Nat
           /\ DOMAIN book.hosts = 1..Len(book.hosts) /\ Len(book.hosts) \in Nat
           /\ run.step \in 1..(Len(book.steps) + 1) /\ run.host \in 1..Len(book.hosts)
           /\ run.attempt \in Nat
           /\ run = [pc |-> run.pc, step |-> run.step, host |-> run.host,
                     attempt |-> run.attempt]
           /\ DOMAIN ran = 1..Len(ran) /\ Len(ran) \in Nat
           /\ \A i \in DOMAIN ran : ran[i] \in Executed
           /\ result.results \in Seq(Reported)
           /\ DOMAIN result.results = 1..Len(result.results) /\ Len(result.results) \in Nat
           /\ \A i \in DOMAIN result.results : result.results[i] \in Reported
           /\ \A r \in Executed \cup Reported : r.step \in Int /\ r.host \in Int
<1>1. book.steps \in Seq(Steps) /\ book.hosts \in Seq(Aliases)
  BY DEF BookTyped
<1>2. DOMAIN book.steps = 1..Len(book.steps) /\ Len(book.steps) \in Nat
      /\ DOMAIN book.hosts = 1..Len(book.hosts) /\ Len(book.hosts) \in Nat
  BY <1>1
<1>3. ran \in Seq(Executed) /\ result.results \in Seq(Reported)
  BY DEF BookTyped
<1>4. /\ DOMAIN ran = 1..Len(ran) /\ Len(ran) \in Nat
      /\ \A i \in DOMAIN ran : ran[i] \in Executed
      /\ DOMAIN result.results = 1..Len(result.results) /\ Len(result.results) \in Nat
      /\ \A i \in DOMAIN result.results : result.results[i] \in Reported
  BY <1>3
<1>5. \A r \in Executed \cup Reported : r.step \in DOMAIN book.steps /\ r.host \in DOMAIN book.hosts
  BY DEF Executed, Reported
<1>6. \A r \in Executed \cup Reported : r.step \in Int /\ r.host \in Int
  BY <1>2, <1>5
<1>7. run \in [pc : {"host", "attempt", "conclude", "report", "done", "error"},
               step : 1..(Len(book.steps) + 1), host : DOMAIN book.hosts, attempt : Nat]
  BY DEF BookTyped
<1>. QED
  BY <1>2, <1>3, <1>4, <1>6, <1>7

LEMMA BookInit == Book!PlaybookAssumption /\ Book!Init => BookInv
<1>. SUFFICES ASSUME Book!PlaybookAssumption, Book!Init PROVE BookInv
  OBVIOUS
<1>1. /\ book \in [steps : UNION {[1..n -> Steps] : n \in 1..MaxSteps},
                   hosts : UNION {[1..n -> Aliases] : n \in 1..MaxHosts}, dry : BOOLEAN]
      /\ run = [pc |-> "host", step |-> 1, host |-> 1, attempt |-> 0]
      /\ ran = << >> /\ exit = 2
      /\ result = [results |-> << >>, failed |-> FALSE, skipped |-> 0, changed |-> 0,
                   errors |-> 0]
  BY DEF Book!Init
<1>2. ASSUME NEW S, NEW m \in Nat, NEW s \in UNION {[1..n -> S] : n \in 1..m}
      PROVE  s \in Seq(S) /\ s # << >>
  <2>1. PICK n \in 1..m : s \in [1..n -> S]
    OBVIOUS
  <2>2. s \in Seq(S) /\ Len(s) = n
    BY <2>1
  <2>. QED
    BY <2>1, <2>2
<1>3. MaxSteps \in Nat /\ MaxHosts \in Nat
  BY DEF Book!PlaybookAssumption
<1>4. /\ book.steps \in Seq(Steps) /\ book.hosts \in Seq(Aliases)
      /\ book.steps # << >> /\ book.hosts # << >>
      /\ book \in [steps : Seq(Steps), hosts : Seq(Aliases), dry : BOOLEAN]
  BY <1>1, <1>2, <1>3
<1>5. 1 \in DOMAIN book.hosts /\ 1 \in 1..(Len(book.steps) + 1)
  BY <1>4
<1>6. << >> \in Seq(Executed) /\ << >> \in Seq(Reported)
  OBVIOUS
<1>7. BookTyped
  BY <1>1, <1>4, <1>5, <1>6 DEF BookTyped
<1>8. OnTheWay
  BY <1>1 DEF OnTheWay, Running
<1>9. ResultsKept
  BY <1>1 DEF ResultsKept
<1>10. \A i \in DOMAIN ran : RanKept(i)
  BY <1>1
<1>11. ASSUME NEW s \in DOMAIN book.steps, NEW h \in DOMAIN book.hosts PROVE PlaceKept(s, h)
  BY <1>1, <1>7, BookFacts DEF PlaceKept
<1>. QED
  BY <1>7, <1>8, <1>9, <1>10, <1>11 DEF BookInv

\* Where the run stands after NextHost: everything up to its place lies behind it.
LEMMA NextPlace ==
    ASSUME BookTyped, run.step <= Len(book.steps), Book!NextHost
    PROVE  /\ run'.pc = "host" /\ run'.attempt = 0
           /\ run'.step \in 1..(Len(book.steps) + 1) /\ run'.host \in DOMAIN book.hosts
           /\ run' \in [pc : {"host", "attempt", "conclude", "report", "done", "error"},
                        step : 1..(Len(book.steps) + 1), host : DOMAIN book.hosts,
                        attempt : Nat]
           /\ \A r : /\ r.step \in Int /\ r.host \in Int
                     /\ Earlier(r, run.step, run.host) \/ At(r, run.step, run.host)
                     => Earlier(r, run'.step, run'.host)
           /\ \A s \in DOMAIN book.steps, h \in DOMAIN book.hosts :
                 s < run'.step \/ (s = run'.step /\ h < run'.host) =>
                    \/ s < run.step \/ (s = run.step /\ h < run.host)
                    \/ s = run.step /\ h = run.host
<1>. USE BookFacts
<1>1. CASE run.host < Len(book.hosts)
  <2>1. run' = [pc |-> "host", step |-> run.step, host |-> run.host + 1, attempt |-> 0]
    BY <1>1 DEF Book!NextHost
  <2>. QED
    BY <1>1, <2>1, SMTT(30) DEF Earlier, At
<1>2. CASE ~(run.host < Len(book.hosts))
  <2>1. run' = [pc |-> "host", step |-> run.step + 1, host |-> 1, attempt |-> 0]
    BY <1>2 DEF Book!NextHost
  <2>. QED
    BY <1>2, <2>1, SMTT(30) DEF Earlier, At
<1>. QED
  BY <1>1, <1>2

\* A host of a step is done with: its result is added, and the next place is taken up.
LEMMA MovesOn ==
    ASSUME BookInv, NEW rr \in Reported, At(rr, run.step, run.host), Book!NextHost,
           run.step <= Len(book.steps), run.pc \in {"host", "conclude"},
           UNCHANGED <<book, ran, exit>>,
           result' \in [results : Seq(Reported), failed : BOOLEAN, skipped : Nat,
                        changed : Nat, errors : Nat],
           result'.results = Append(result.results, rr), result'.failed = result.failed,
           run.pc = "conclude" => Settled(ran[Len(ran)]),
           run.pc = "host" => ~(~book.dry /\ Book!Alias \in Book!Step.when)
    PROVE  BookInv'
<1>. DEFINE n == Len(result.results)
<1>1. BookTyped /\ OnTheWay /\ ResultsKept
  BY DEF BookInv
<1>2. /\ run'.pc = "host" /\ run'.attempt = 0
      /\ run'.step \in 1..(Len(book.steps) + 1) /\ run'.host \in DOMAIN book.hosts
      /\ run' \in [pc : {"host", "attempt", "conclude", "report", "done", "error"},
                   step : 1..(Len(book.steps) + 1), host : DOMAIN book.hosts,
                   attempt : Nat]
  BY <1>1, NextPlace
<1>3. \A r : /\ r.step \in Int /\ r.host \in Int
             /\ Earlier(r, run.step, run.host) \/ At(r, run.step, run.host)
             => Earlier(r, run'.step, run'.host)
  BY <1>1, NextPlace
<1>4. \A s \in DOMAIN book.steps, h \in DOMAIN book.hosts :
         s < run'.step \/ (s = run'.step /\ h < run'.host) =>
            \/ s < run.step \/ (s = run.step /\ h < run.host)
            \/ s = run.step /\ h = run.host
  BY <1>1, NextPlace
<1>5. Running /\ ~result.failed /\ exit = 2 /\ Through
  BY <1>1 DEF Running, OnTheWay, Through
<1>6. Running' /\ Through' /\ ~result'.failed
  BY <1>2, <1>5 DEF Running, Through
<1>7. /\ n \in Nat /\ DOMAIN result'.results = 1..(n + 1)
      /\ \A i \in 1..n : result'.results[i] = result.results[i]
      /\ result'.results[n + 1] = rr
  BY <1>1, BookFacts, AppendProperties
<1>8. BookTyped'
  BY <1>1, <1>2 DEF BookTyped, Executed, Reported
<1>9. OnTheWay'
  BY <1>2, <1>5, <1>6 DEF OnTheWay, Running
<1>10. ResultsKept'
  <2>1. \A i \in 1..n : Earlier(result.results[i], run.step, run.host)
    BY <1>1, <1>5, BookFacts DEF ResultsKept
  <2>2. rr.step \in Int /\ rr.host \in Int
        /\ \A i \in 1..n : result.results[i].step \in Int /\ result.results[i].host \in Int
    BY <1>1, BookFacts
  <2>3. \A i \in 1..n : Earlier(result.results[i], rr.step, rr.host)
    BY <2>1 DEF At
  <2>4. ASSUME NEW i \in 1..(n + 1)
        PROVE  Earlier(result'.results[i], run'.step, run'.host)
    <3>1. CASE i = n + 1
      BY <1>3, <1>7, <2>2, <3>1
    <3>2. CASE i \in 1..n
      BY <1>3, <1>7, <2>1, <2>2, <3>2
    <3>. QED
      BY <1>7, <3>1, <3>2
  <2>5. ASSUME NEW i \in 1..(n + 1), NEW j \in 1..(n + 1), i < j
        PROVE  Earlier(result'.results[i], result'.results[j].step, result'.results[j].host)
    <3>1. i \in 1..n
      BY <1>7, <2>5
    <3>2. CASE j = n + 1
      BY <1>7, <2>3, <3>1, <3>2
    <3>3. CASE j \in 1..n
      BY <1>1, <1>7, <2>5, <3>1, <3>3, BookFacts DEF ResultsKept
    <3>. QED
      BY <1>7, <3>2, <3>3
  <2>. QED
    BY <1>7, <2>4, <2>5 DEF ResultsKept
<1>11. ASSUME NEW i \in DOMAIN ran PROVE RanKept(i)'
  <2>1. RanKept(i)
    BY DEF BookInv
  <2>2. /\ ran[i].step \in Int /\ ran[i].host \in Int /\ Len(ran) \in DOMAIN ran
    BY <1>1, BookFacts
  <2>3. Earlier(ran[i], run'.step, run'.host)
    BY <1>3, <1>5, <2>1, <2>2 DEF RanKept
  <2>4. i = Len(ran) => Settled(ran[i])
    BY <1>5, <2>1 DEF RanKept
  <2>5. \A r : Settled(r)' <=> Settled(r)
    BY DEF Settled, Book!IsFailed, Book!Matches
  <2>. QED
    BY <1>2, <2>1, <2>3, <2>4, <2>5 DEF RanKept
<1>12. ASSUME NEW s \in DOMAIN book.steps, NEW h \in DOMAIN book.hosts PROVE PlaceKept(s, h)'
  <2>1. PlaceKept(s, h)
    BY DEF BookInv
  <2>2. SUFFICES ASSUME s < run'.step \/ (s = run'.step /\ h < run'.host)
                 PROVE  /\ \E i \in 1..(n + 1) : At(result'.results[i], s, h)
                        /\ (\E i \in DOMAIN ran : At(ran[i], s, h))
                               <=> (~book.dry /\ book.hosts[h] \in book.steps[s].when)
    BY <1>7 DEF PlaceKept, At
  <2>3. CASE s < run.step \/ (s = run.step /\ h < run.host)
    <3>1. PICK i \in 1..n : At(result.results[i], s, h)
      BY <1>1, <1>5, <2>1, <2>3, BookFacts DEF PlaceKept
    <3>2. i \in 1..(n + 1) /\ At(result'.results[i], s, h)
      BY <1>7, <3>1, SMTT(30) DEF At
    <3>. QED
      BY <1>5, <2>1, <2>3, <3>2 DEF PlaceKept
  <2>4. CASE s = run.step /\ h = run.host
    <3>1. n + 1 \in 1..(n + 1) /\ At(result'.results[n + 1], s, h)
      BY <1>7, <2>4 DEF At
    <3>2. CASE run.pc = "conclude"
      <4>1. Len(ran) \in DOMAIN ran /\ At(ran[Len(ran)], s, h)
        BY <1>1, <2>4, <3>2, BookFacts DEF OnTheWay, BookTyped
      <4>2. ~book.dry /\ book.hosts[h] \in book.steps[s].when
        BY <1>1, <2>4, <3>2 DEF OnTheWay, Book!Alias, Book!Step
      <4>. QED
        BY <3>1, <4>1, <4>2
    <3>3. CASE run.pc = "host"
      <4>1. ~(~book.dry /\ book.hosts[h] \in book.steps[s].when)
        BY <2>4, <3>3 DEF Book!Alias, Book!Step
      <4>2. ASSUME NEW i \in DOMAIN ran PROVE ~At(ran[i], s, h)
        <5>1. Earlier(ran[i], run.step, run.host) /\ ran[i].step \in Int /\ ran[i].host \in Int
          BY <1>1, <3>3, BookFacts DEF BookInv, RanKept
        <5>2. run.step \in Int /\ run.host \in Int
          BY <1>1, BookFacts
        <5>. QED
          BY <2>4, <5>1, <5>2 DEF Earlier, At
      <4>. QED
        BY <3>1, <4>1, <4>2
    <3>. QED
      BY <3>2, <3>3
  <2>. QED
    BY <1>4, <2>2, <2>3, <2>4
<1>13. (DOMAIN ran)' = DOMAIN ran /\ (DOMAIN book.steps)' = DOMAIN book.steps
       /\ (DOMAIN book.hosts)' = DOMAIN book.hosts
  OBVIOUS
<1>. QED
  BY <1>8, <1>9, <1>10, <1>11, <1>12, <1>13 DEF BookInv

LEMMA ResultIs ==
    \A R, rs, f, k, c, e :
       rs \in R /\ f \in BOOLEAN /\ k \in Nat /\ c \in Nat /\ e \in Nat =>
          [results |-> rs, failed |-> f, skipped |-> k, changed |-> c, errors |-> e]
             \in [results : R, failed : BOOLEAN, skipped : Nat, changed : Nat, errors : Nat]
  OBVIOUS

LEMMA ReportIs ==
    \A S, H, C, s, h, w, c :
       s \in S /\ h \in H /\ w \in Outcomes /\ c \in C =>
          /\ [step |-> s, host |-> h, what |-> w, code |-> c]
                \in [step : S, host : H, what : Outcomes, code : C]
          /\ [step |-> s, host |-> h, what |-> w, code |-> c].step = s
          /\ [step |-> s, host |-> h, what |-> w, code |-> c].host = h
  OBVIOUS

LEMMA SkipsHost ==
    ASSUME Book!PlaybookAssumption, BookInv, Book!Skips \/ Book!PrintsOnly
    PROVE  BookInv'
<1>. DEFINE rr == [step |-> run.step, host |-> run.host, what |-> "skipped", code |-> 0]
<1>1. /\ run.pc = "host" /\ run.step <= Len(book.steps)
      /\ UNCHANGED <<book, ran, exit>> /\ Book!NextHost
      /\ ~(~book.dry /\ Book!Alias \in Book!Step.when)
      /\ result'.results = Append(result.results, rr) /\ result'.failed = result.failed
      /\ result'.skipped \in {result.skipped, result.skipped + 1}
      /\ result' = [results |-> result'.results, failed |-> result'.failed,
                    skipped |-> result'.skipped, changed |-> result.changed,
                    errors |-> result.errors]
  BY DEF Book!Skips, Book!PrintsOnly, Book!InStep, Book!Result, BookInv, BookTyped
<1>2. rr \in Reported /\ At(rr, run.step, run.host)
  <2>1. run.step \in DOMAIN book.steps /\ run.host \in DOMAIN book.hosts
    <3>1. BookTyped
      BY DEF BookInv
    <3>. QED
      BY <1>1, <3>1, BookFacts
  <2>2. 0 \in Codes
    BY DEF Book!PlaybookAssumption
  <2>3. "skipped" \in Outcomes
    BY DEF Outcomes
  <2>4. rr \in Reported
    BY <2>1, <2>2, <2>3, ReportIs DEF Reported
  <2>. QED
    BY <2>4 DEF At
<1>3. Append(result.results, rr) \in Seq(Reported)
  BY <1>2, BookFacts, AppendProperties DEF BookInv
<1>4. result' \in [results : Seq(Reported), failed : BOOLEAN, skipped : Nat, changed : Nat,
                   errors : Nat]
  <2>1. /\ result.skipped \in Nat /\ result.changed \in Nat /\ result.errors \in Nat
        /\ result.failed \in BOOLEAN
    BY DEF BookInv, BookTyped
  <2>2. result.skipped + 1 \in Nat
    BY <2>1
  <2>3. /\ result'.results \in Seq(Reported) /\ result'.failed \in BOOLEAN
        /\ result'.skipped \in Nat /\ result'.changed \in Nat /\ result'.errors \in Nat
        /\ result' = [results |-> result'.results, failed |-> result'.failed,
                      skipped |-> result'.skipped, changed |-> result'.changed,
                      errors |-> result'.errors]
    BY <1>1, <1>3, <2>1, <2>2
  <2>. QED
    BY <2>3, ResultIs
<1>. HIDE DEF rr
<1>. QED
  BY <1>1, <1>2, <1>4, MovesOn

\* What the last command's exit code makes of its place.
LEMMA Concluding ==
    ASSUME BookInv, run.pc = "conclude"
    PROVE  /\ Len(ran) \in DOMAIN ran /\ ran[Len(ran)] \in Executed
           /\ Book!Code = ran[Len(ran)].code /\ Book!Code \in Codes
           /\ At(ran[Len(ran)], run.step, run.host)
           /\ run.step \in DOMAIN book.steps
           /\ Settled(ran[Len(ran)]) <=>
                 ~Book!IsFailed(Book!Step, Book!Code) \/ Book!Step.ignore
<1>1. BookTyped /\ ran # << >> /\ At(ran[Len(ran)], run.step, run.host)
      /\ run.step <= Len(book.steps)
  BY DEF BookInv, OnTheWay
<1>2. Len(ran) \in DOMAIN ran /\ ran[Len(ran)] \in Executed
  BY <1>1, BookFacts DEF BookTyped
<1>3. Book!Code = ran[Len(ran)].code
  BY DEF Book!Code
<1>4. run.step \in DOMAIN book.steps
  BY <1>1, BookFacts
<1>. QED
  BY <1>1, <1>2, <1>3, <1>4 DEF Executed, Settled, At, Book!Step

LEMMA ConcludesKeeps ==
    ASSUME Book!PlaybookAssumption, BookInv, Book!IgnoresFailure \/ Book!Succeeds
    PROVE  BookInv'
<1>1. PICK what \in {"ignored", "ok"} :
         /\ run.pc = "conclude" /\ run.step <= Len(book.steps)
         /\ UNCHANGED <<book, ran, exit>> /\ Book!NextHost
         /\ ~Book!IsFailed(Book!Step, Book!Code) \/ Book!Step.ignore
         /\ result'.results = Append(result.results, [step |-> run.step, host |-> run.host,
                                                      what |-> what, code |-> Book!Code])
         /\ result'.failed = result.failed
         /\ result'.changed \in {result.changed, result.changed + 1}
         /\ result' = [results |-> result'.results, failed |-> result'.failed,
                       skipped |-> result.skipped, changed |-> result'.changed,
                       errors |-> result.errors]
  <2>1. CASE Book!IgnoresFailure
    BY <2>1 DEF Book!IgnoresFailure, Book!InStep, Book!Result, BookInv, BookTyped
  <2>2. CASE Book!Succeeds
    BY <2>2 DEF Book!Succeeds, Book!InStep, Book!Result, BookInv, BookTyped
  <2>. QED
    BY <2>1, <2>2
<1>. DEFINE rr == [step |-> run.step, host |-> run.host, what |-> what, code |-> Book!Code]
<1>2. rr \in Reported /\ At(rr, run.step, run.host)
  <2>1. BookTyped
    BY DEF BookInv
  <2>2. run.step \in DOMAIN book.steps /\ run.host \in DOMAIN book.hosts
    BY <1>1, <2>1, BookFacts
  <2>3. Book!Code \in Codes
    BY <1>1, Concluding
  <2>4. what \in Outcomes
    BY <1>1 DEF Outcomes
  <2>5. rr \in Reported
    BY <2>2, <2>3, <2>4, ReportIs DEF Reported
  <2>. QED
    BY <2>5 DEF At
<1>3. Append(result.results, rr) \in Seq(Reported)
  BY <1>2, BookFacts, AppendProperties DEF BookInv
<1>4. result' \in [results : Seq(Reported), failed : BOOLEAN, skipped : Nat, changed : Nat,
                   errors : Nat]
  <2>1. /\ result.skipped \in Nat /\ result.changed \in Nat /\ result.errors \in Nat
        /\ result.failed \in BOOLEAN
    BY DEF BookInv, BookTyped
  <2>2. result.changed + 1 \in Nat /\ result.errors + 1 \in Nat
    BY <2>1
  <2>3. /\ result'.results \in Seq(Reported) /\ result'.failed \in BOOLEAN
        /\ result'.skipped \in Nat /\ result'.changed \in Nat /\ result'.errors \in Nat
        /\ result' = [results |-> result'.results, failed |-> result'.failed,
                      skipped |-> result'.skipped, changed |-> result'.changed,
                      errors |-> result'.errors]
    BY <1>1, <1>3, <2>1, <2>2
  <2>. QED
    BY <2>3, ResultIs
<1>5. Settled(ran[Len(ran)])
  BY <1>1, Concluding
<1>6. result'.results = Append(result.results, rr)
  BY <1>1
<1>. HIDE DEF rr
<1>. QED
  BY <1>1, <1>2, <1>4, <1>5, <1>6, MovesOn

\* The commands that were executed, when only the control point moves.
LEMMA RanStays ==
    ASSUME BookInv, UNCHANGED <<book, ran>>, run'.step = run.step, run'.host = run.host,
           run'.pc # "host", run'.pc # "attempt", ~Running', Through' => Through,
           Through' /\ run.pc # "host" => ~Running
    PROVE  \A i \in DOMAIN ran : RanKept(i)'
<1>1. ASSUME NEW i \in DOMAIN ran PROVE RanKept(i)'
  <2>1. RanKept(i)
    BY DEF BookInv
  <2>2. \A r : Settled(r)' <=> Settled(r)
    BY DEF Settled, Book!IsFailed, Book!Matches
  <2>. QED
    BY <2>1, <2>2 DEF RanKept
<1>. QED
  BY <1>1

LEMMA FailsKeepsBook ==
    ASSUME Book!PlaybookAssumption, BookInv, Book!Fails PROVE BookInv'
<1>. DEFINE rr == [step |-> run.step, host |-> run.host, what |-> "failed", code |-> Book!Code]
            n == Len(result.results)
<1>1. /\ run.pc = "conclude" /\ UNCHANGED <<book, ran, exit>> /\ run.step <= Len(book.steps)
      /\ run' = [run EXCEPT !.pc = "report"]
      /\ result'.results = Append(result.results, rr) /\ result'.failed = TRUE
      /\ result' = [results |-> result'.results, failed |-> TRUE, skipped |-> result.skipped,
                    changed |-> result.changed, errors |-> result.errors + 1]
  BY DEF Book!Fails, Book!InStep, Book!Result, BookInv, BookTyped
<1>2. rr \in Reported /\ At(rr, run.step, run.host)
  <2>1. BookTyped
    BY DEF BookInv
  <2>2. run.step \in DOMAIN book.steps /\ run.host \in DOMAIN book.hosts
    BY <1>1, <2>1, BookFacts
  <2>3. Book!Code \in Codes
    BY <1>1, Concluding
  <2>4. "failed" \in Outcomes
    BY DEF Outcomes
  <2>5. rr \in Reported
    BY <2>2, <2>3, <2>4, ReportIs DEF Reported
  <2>. QED
    BY <2>5 DEF At
<1>3. Append(result.results, rr) \in Seq(Reported)
  BY <1>2, BookFacts, AppendProperties DEF BookInv
<1>4. result' \in [results : Seq(Reported), failed : BOOLEAN, skipped : Nat, changed : Nat,
                   errors : Nat]
  <2>1. /\ result.skipped \in Nat /\ result.changed \in Nat /\ result.errors \in Nat
        /\ result.failed \in BOOLEAN
    BY DEF BookInv, BookTyped
  <2>2. result.changed + 1 \in Nat /\ result.errors + 1 \in Nat
    BY <2>1
  <2>3. result'.results \in Seq(Reported) /\ result'.failed \in BOOLEAN
    BY <1>1, <1>3
  <2>4. /\ result'.skipped = result.skipped /\ result'.changed = result.changed
        /\ result'.errors = result.errors + 1
    BY <1>1
  <2>5. result' = [results |-> result'.results, failed |-> result'.failed,
                   skipped |-> result'.skipped, changed |-> result'.changed,
                   errors |-> result'.errors]
    BY <1>1
  <2>. QED
    BY <2>1, <2>2, <2>3, <2>4, <2>5, ResultIs
<1>5. /\ run'.pc = "report" /\ run'.step = run.step /\ run'.host = run.host
      /\ run' = [pc |-> "report", step |-> run.step, host |-> run.host, attempt |-> run.attempt]
  BY <1>1, BookFacts DEF BookInv
<1>6. ~Running' /\ ~Through' /\ BookTyped
  BY <1>1, <1>5 DEF Running, Through, BookInv
<1>7. /\ n \in Nat /\ DOMAIN result'.results = 1..(n + 1)
      /\ \A i \in 1..n : result'.results[i] = result.results[i]
      /\ result'.results[n + 1] = rr
  BY <1>1, <1>2, BookFacts, AppendProperties DEF BookInv
<1>8. BookTyped'
  BY <1>1, <1>4, <1>5 DEF BookTyped, BookInv, Executed, Reported
<1>9. OnTheWay'
  BY <1>1, <1>5, <1>6 DEF OnTheWay, Running, BookInv
<1>10. ResultsKept'
  <2>1. ASSUME NEW i \in 1..(n + 1), NEW j \in 1..(n + 1), i < j
        PROVE  Earlier(result'.results[i], result'.results[j].step, result'.results[j].host)
    <3>1. i \in 1..n
      BY <1>7, <2>1
    <3>2. CASE j = n + 1
      BY <1>1, <1>2, <1>6, <1>7, <3>1, <3>2, BookFacts DEF ResultsKept, Running, BookInv, At
    <3>3. CASE j \in 1..n
      BY <1>6, <1>7, <2>1, <3>1, <3>3, BookFacts DEF ResultsKept, BookInv
    <3>. QED
      BY <1>7, <3>2, <3>3
  <2>. QED
    BY <1>6, <1>7, <2>1 DEF ResultsKept
<1>11. \A i \in DOMAIN ran : RanKept(i)'
  BY <1>1, <1>5, <1>6, RanStays
<1>12. \A s \in DOMAIN book.steps, h \in DOMAIN book.hosts : PlaceKept(s, h)'
  BY <1>6 DEF PlaceKept
<1>. QED
  BY <1>1, <1>8, <1>9, <1>10, <1>11, <1>12 DEF BookInv

\* Steps that move only the control point, to an end.
LEMMA EndsKeep ==
    ASSUME Book!PlaybookAssumption, BookInv,
           Book!ResolveFails \/ Book!RunsOut \/ Book!ReportsRun
    PROVE  BookInv'
<1>0. BookTyped /\ OnTheWay /\ ResultsKept
  BY DEF BookInv
<1>1. PICK q \in {"error", "report", "done"} :
         /\ run' = [run EXCEPT !.pc = q] /\ UNCHANGED <<book, ran, result>>
         /\ q = "error" => exit' = 1
         /\ q = "report" => /\ run.pc = "host" /\ run.step > Len(book.steps)
                            /\ exit' = exit
         /\ q = "done" => /\ run.pc = "report"
                          /\ exit' = IF result.failed THEN 1 ELSE 0
  BY DEF Book!ResolveFails, Book!RunsOut, Book!ReportsRun
<1>2. /\ run'.pc = q /\ run'.step = run.step /\ run'.host = run.host
      /\ run' = [pc |-> q, step |-> run.step, host |-> run.host, attempt |-> run.attempt]
  BY <1>0, <1>1, BookFacts
<1>3. ~Running' /\ (Through' => Through) /\ (Through' /\ run.pc # "host" => ~Running)
  BY <1>1, <1>2 DEF Running, Through
<1>4. BookTyped'
  BY <1>0, <1>1, <1>2 DEF BookTyped, Executed, Reported, OnTheWay
<1>5. OnTheWay'
  <2>1. run.step > Len(book.steps) => run.step = Len(book.steps) + 1
    BY <1>0, BookFacts
  <2>2. CASE q = "error"
    BY <1>1, <1>2, <2>2 DEF OnTheWay, Running
  <2>3. CASE q = "report"
    BY <1>0, <1>1, <1>2, <2>1, <2>3 DEF OnTheWay, Running
  <2>4. CASE q = "done"
    BY <1>0, <1>1, <1>2, <2>4 DEF OnTheWay, Running
  <2>. QED
    BY <2>2, <2>3, <2>4
<1>6. ResultsKept'
  BY <1>0, <1>1, <1>3 DEF ResultsKept
<1>7. \A i \in DOMAIN ran : RanKept(i)'
  BY <1>1, <1>2, <1>3, RanStays
<1>8. \A s \in DOMAIN book.steps, h \in DOMAIN book.hosts : PlaceKept(s, h)'
  BY <1>1, <1>2, <1>3 DEF PlaceKept, BookInv, At
<1>. QED
  BY <1>1, <1>4, <1>5, <1>6, <1>7, <1>8 DEF BookInv

\* A command is about to be tried on a host that the run has not touched in this step.
LEMMA StartsKeeps ==
    ASSUME Book!PlaybookAssumption, BookInv, Book!Starts PROVE BookInv'
<1>0. BookTyped /\ OnTheWay /\ ResultsKept
  BY DEF BookInv
<1>1. /\ run.pc = "host" /\ run.step <= Len(book.steps) /\ ~book.dry
      /\ Book!Alias \in Book!Step.when
      /\ run' = [run EXCEPT !.pc = "attempt"] /\ UNCHANGED <<book, ran, result, exit>>
  BY DEF Book!Starts, Book!InStep
<1>2. /\ run'.pc = "attempt" /\ run'.step = run.step /\ run'.host = run.host
      /\ run.attempt = 0 /\ run'.attempt = 0
      /\ run' = [pc |-> "attempt", step |-> run.step, host |-> run.host, attempt |-> 0]
  BY <1>0, <1>1, BookFacts DEF OnTheWay
<1>3. Running /\ Running' /\ Through /\ Through'
  BY <1>1, <1>2 DEF Running, Through
<1>4. BookTyped'
  BY <1>0, <1>1, <1>2 DEF BookTyped, Executed, Reported
<1>5. Book!Tries(Book!Step) > 0
  <2>1. run.step \in DOMAIN book.steps
    BY <1>0, <1>1, BookFacts
  <2>2. Book!Step \in Steps
    BY <1>0, <2>1 DEF BookTyped, Book!Step
  <2>3. Book!Step.retries \in Nat
    BY <2>2 DEF Book!PlaybookAssumption
  <2>. QED
    BY <2>3 DEF Book!Tries
<1>6. OnTheWay'
  BY <1>0, <1>1, <1>2, <1>3, <1>5 DEF OnTheWay, Running, Book!Alias, Book!Step, Book!Tries
<1>7. ResultsKept'
  BY <1>0, <1>1, <1>2, <1>3 DEF ResultsKept
<1>8. ASSUME NEW i \in DOMAIN ran PROVE RanKept(i)'
  <2>1. RanKept(i) /\ Earlier(ran[i], run.step, run.host)
    BY <1>1 DEF BookInv, RanKept
  <2>2. ~At(ran[i], run.step, run.host)
    <3>1. ran[i].step \in Int /\ ran[i].host \in Int /\ run.step \in Int /\ run.host \in Int
      BY <1>0, BookFacts
    <3>. QED
      BY <2>1, <3>1 DEF Earlier, At
  <2>3. \A r : Settled(r)' <=> Settled(r)
    BY <1>1 DEF Settled, Book!IsFailed, Book!Matches
  <2>. QED
    BY <1>1, <1>2, <1>3, <2>1, <2>2, <2>3 DEF RanKept
<1>9. \A s \in DOMAIN book.steps, h \in DOMAIN book.hosts : PlaceKept(s, h)'
  BY <1>1, <1>2, <1>3 DEF PlaceKept, BookInv, At
<1>. QED
  BY <1>1, <1>4, <1>6, <1>7, <1>8, <1>9 DEF BookInv

LEMMA ExecutedIs ==
    \A S, H, C, s, h, c :
       s \in S /\ h \in H /\ c \in C =>
          /\ [step |-> s, host |-> h, code |-> c] \in [step : S, host : H, code : C]
          /\ [step |-> s, host |-> h, code |-> c].step = s
          /\ [step |-> s, host |-> h, code |-> c].host = h
          /\ [step |-> s, host |-> h, code |-> c].code = c
  OBVIOUS

LEMMA AttemptsKeeps ==
    ASSUME Book!PlaybookAssumption, BookInv, Book!Attempts PROVE BookInv'
<1>0. BookTyped /\ OnTheWay /\ ResultsKept
  BY DEF BookInv
<1>1. PICK code \in Codes :
         /\ run.pc = "attempt" /\ run.step <= Len(book.steps)
         /\ ran' = Append(ran, [step |-> run.step, host |-> run.host, code |-> code])
         /\ run' = IF Book!TriesAgain(code) THEN [run EXCEPT !.attempt = @ + 1]
                   ELSE [run EXCEPT !.pc = "conclude"]
         /\ UNCHANGED <<book, result, exit>>
  BY DEF Book!Attempts, Book!InStep
<1>. DEFINE new == [step |-> run.step, host |-> run.host, code |-> code]
            n == Len(ran)
<1>2. run.step \in DOMAIN book.steps /\ run.host \in DOMAIN book.hosts /\ run.attempt \in Nat
  BY <1>0, <1>1, BookFacts
<1>3. /\ new \in Executed /\ new.step = run.step /\ new.host = run.host /\ new.code = code
      /\ At(new, run.step, run.host)
  BY <1>2, ExecutedIs DEF Executed, At
<1>4. ran' = Append(ran, new)
  BY <1>1
<1>. HIDE DEF new
<1>5. ran \in Seq(Executed)
  BY <1>0 DEF BookTyped
<1>6. /\ n \in Nat /\ ran' \in Seq(Executed) /\ Len(ran') = n + 1
      /\ DOMAIN ran = 1..n /\ DOMAIN ran' = 1..(n + 1)
      /\ \A i \in 1..n : ran'[i] = ran[i]
      /\ ran'[n + 1] = new
  BY <1>3, <1>4, <1>5, AppendProperties
<1>7. /\ run'.step = run.step /\ run'.host = run.host
      /\ \/ /\ run'.pc = "attempt" /\ run'.attempt = run.attempt + 1
            /\ run.attempt + 1 < Book!Tries(Book!Step)
            /\ ~Book!Matches(Book!Step, code) /\ code # 0
         \/ run'.pc = "conclude" /\ run'.attempt = run.attempt
      /\ run' = [pc |-> run'.pc, step |-> run.step, host |-> run.host,
                 attempt |-> run'.attempt]
  BY <1>0, <1>1, BookFacts DEF Book!TriesAgain
<1>8. Running /\ Running' /\ Through /\ Through'
  BY <1>1, <1>7 DEF Running, Through
<1>9. BookTyped'
  <2>1. run'.attempt \in Nat /\ run'.pc \in {"attempt", "conclude"}
    BY <1>2, <1>7
  <2>2. run' \in [pc : {"host", "attempt", "conclude", "report", "done", "error"},
                  step : 1..(Len(book.steps) + 1), host : DOMAIN book.hosts, attempt : Nat]
    BY <1>0, <1>2, <1>7, <2>1, BookFacts
  <2>. QED
    BY <1>0, <1>1, <1>6, <2>2 DEF BookTyped, Executed, Reported
<1>10. OnTheWay'
  <2>1. ran' # << >>
    BY <1>6
  <2>2. At(ran'[Len(ran')], run'.step, run'.host)
    BY <1>3, <1>6, <1>7
  <2>. QED
    BY <1>0, <1>1, <1>7, <1>8, <2>1, <2>2
       DEF OnTheWay, Running, Book!Alias, Book!Step, Book!Tries
<1>11. ResultsKept'
  BY <1>0, <1>1, <1>7, <1>8 DEF ResultsKept
<1>12. ASSUME NEW i \in 1..(n + 1) PROVE RanKept(i)'
  <2>0. \A r : Settled(r)' <=> Settled(r)
    BY <1>1 DEF Settled, Book!IsFailed, Book!Matches
  <2>1. CASE i = n + 1
    <3>1. \A j \in 1..(n + 1) : ~(j > i)
      BY <1>6, <2>1
    <3>2. n + 1 - i = 0 /\ 0 < run.attempt + 1
      BY <1>2, <1>6, <2>1
    <3>3. book.steps[new.step] = Book!Step
      BY <1>3 DEF Book!Step
    <3>4. ran'[i] = new /\ ~(i < n + 1)
      BY <1>6, <2>1
    <3>5. At(new, run'.step, run'.host)
      BY <1>3, <1>7
    <3>. QED
      BY <1>1, <1>3, <1>6, <1>7, <1>8, <3>1, <3>2, <3>3, <3>4, <3>5
         DEF RanKept, Book!Matches
  <2>2. CASE i \in 1..n
    <3>1. /\ RanKept(i) /\ ran[i] \in Executed /\ ran'[i] = ran[i]
      BY <1>6, <1>0, <2>2, BookFacts DEF BookInv
    <3>2. ran[i].step \in Int /\ ran[i].host \in Int /\ run.step \in Int /\ run.host \in Int
      BY <1>0, <1>6, <2>2, BookFacts
    <3>3. Earlier(ran[i], run.step, run.host) \/ At(ran[i], run.step, run.host)
      BY <1>8, <3>1 DEF RanKept
    <3>4. CASE At(ran[i], run.step, run.host)
      <4>1. /\ n - i < run.attempt /\ ran[i].code # 0
            /\ ~Book!Matches(book.steps[ran[i].step], ran[i].code)
            /\ book.steps[ran[i].step] = Book!Step
            /\ run.attempt < Book!Tries(Book!Step)
        BY <1>0, <1>1, <3>1, <3>4 DEF RanKept, OnTheWay, At, Book!Step
      <4>2. Book!Tries(Book!Step) \in Nat
        <5>1. Book!Step.retries \in Nat
          BY <1>0, <1>2, SMTT(30) DEF BookTyped, Book!Step, Book!PlaybookAssumption
        <5>. QED
          BY <5>1 DEF Book!Tries
      <4>3. n + 1 - i < run.attempt + 1 /\ n + 1 - i < Book!Tries(Book!Step)
        BY ONLY <1>2, <1>6, <2>2, <4>1, <4>2
      <4>4. \A j \in 1..(n + 1) : j \in 1..n \/ j = n + 1
        BY <1>6
      <4>5. ASSUME NEW j \in 1..(n + 1), j > i, At(ran'[j], ran[i].step, ran[i].host)
            PROVE  j - i < Book!Tries(book.steps[ran[i].step])
        <5>1. CASE j = n + 1
          BY <4>1, <4>3, <5>1
        <5>2. CASE j \in 1..n
          BY <1>6, <3>1, <4>5, <5>2 DEF RanKept
        <5>. QED
          BY <4>4, <5>1, <5>2
      <4>6. i < n => ran'[i + 1] = ran[i + 1]
        BY <1>6, <2>2
      <4>7. i = n => ran'[i + 1] = new
        BY <1>6
      <4>8. i # n + 1 /\ (i < n + 1 => i < n \/ i = n)
        <5>1. n \in Nat
          BY <1>6
        <5>. QED
          BY ONLY <2>2, <5>1
      <4>9. i < n + 1 /\ ~At(ran'[i + 1], ran[i].step, ran[i].host) => Settled(ran[i])
        BY <1>3, <3>1, <3>4, <4>6, <4>7, <4>8 DEF RanKept, At
      <4>10. run'.pc # "host"
        BY <1>7
      <4>11. run'.pc = "attempt" => Len(ran') - i < run'.attempt
        BY <1>6, <1>7, <4>3, SMTT(30)
      <4>. QED
        BY <1>1, <1>6, <1>7, <1>8, <2>0, <3>1, <3>3, <4>1, <4>5, <4>8, <4>9, <4>10, <4>11, SMTT(30)
           DEF RanKept, Book!Matches, Book!Tries
    <3>5. CASE ~At(ran[i], run.step, run.host)
      <4>1. \A j \in 1..(n + 1) : j \in 1..n \/ j = n + 1
        BY <1>6
      <4>2. ~At(new, ran[i].step, ran[i].host)
        BY <1>3, <3>5 DEF At
      <4>3. \A j \in 1..(n + 1) : j > i /\ At(ran'[j], ran[i].step, ran[i].host) =>
               /\ j - i < Book!Tries(book.steps[ran[i].step])
               /\ ran[i].code # 0 /\ ~Book!Matches(book.steps[ran[i].step], ran[i].code)
        BY <1>6, <3>1, <4>1, <4>2 DEF RanKept
      <4>4. i < n => ran'[i + 1] = ran[i + 1]
        BY <1>6, <2>2
      <4>5. i # n + 1 /\ (i < n + 1 => i < n \/ i = n)
        <5>1. n \in Nat
          BY <1>6
        <5>. HIDE DEF n
        <5>. QED
          BY ONLY <2>2, <5>1
      <4>6. i < n + 1 /\ ~At(ran'[i + 1], ran[i].step, ran[i].host) => Settled(ran[i])
        BY <1>1, <1>8, <3>1, <3>5, <4>4, <4>5 DEF RanKept
      <4>7. run'.pc # "host"
        BY <1>7
      <4>. QED
        BY <1>1, <1>6, <1>7, <1>8, <2>0, <3>1, <3>3, <3>5, <4>3, <4>5, <4>6, <4>7, SMTT(30)
           DEF RanKept, Book!Matches, Book!Tries
    <3>. QED
      BY <3>4, <3>5
  <2>. QED
    BY <1>6, <2>1, <2>2
<1>13. ASSUME NEW s \in DOMAIN book.steps, NEW h \in DOMAIN book.hosts PROVE PlaceKept(s, h)'
  <2>1. SUFFICES ASSUME s < run.step \/ (s = run.step /\ h < run.host)
                 PROVE  /\ \E i \in DOMAIN result.results : At(result.results[i], s, h)
                        /\ (\E i \in 1..(n + 1) : At(ran'[i], s, h))
                               <=> (~book.dry /\ book.hosts[h] \in book.steps[s].when)
    BY <1>1, <1>6, <1>7 DEF PlaceKept, At
  <2>2. PlaceKept(s, h)
    BY DEF BookInv
  <2>3. ~At(new, s, h)
    BY <1>0, <1>3, <2>1, BookFacts DEF At
  <2>4. (\E i \in 1..(n + 1) : At(ran'[i], s, h)) <=> (\E i \in 1..n : At(ran[i], s, h))
    <3>1. \A i \in 1..(n + 1) : i \in 1..n \/ i = n + 1
      BY <1>6
    <3>2. \A i \in 1..n : i \in 1..(n + 1)
      BY <1>6
    <3>. QED
      BY <1>6, <2>3, <3>1, <3>2 DEF At
  <2>. QED
    BY <1>6, <1>8, <2>1, <2>2, <2>4 DEF PlaceKept
<1>. QED
  BY <1>1, <1>6, <1>9, <1>10, <1>11, <1>12, <1>13 DEF BookInv

LEMMA BookRests == ASSUME BookInv, UNCHANGED Book!vars PROVE BookInv'
<1>0. BookTyped /\ OnTheWay /\ ResultsKept
  BY DEF BookInv
<1>1. UNCHANGED <<book, broken, run, ran, result, exit>>
  BY DEF Book!vars
<1>2. BookTyped' /\ ResultsKept'
  BY <1>0, <1>1 DEF BookTyped, ResultsKept, Running, Executed, Reported
<1>3. OnTheWay'
  BY <1>0, <1>1 DEF OnTheWay, Running, Book!Alias, Book!Step, Book!Tries
<1>4. ASSUME NEW i \in DOMAIN ran PROVE RanKept(i)'
  <2>1. \A r : Settled(r)' <=> Settled(r)
    BY <1>1 DEF Settled, Book!IsFailed, Book!Matches
  <2>. QED
    BY <1>1, <2>1 DEF BookInv, RanKept, Running, Through, Book!Tries, Book!Matches
<1>5. \A s \in DOMAIN book.steps, h \in DOMAIN book.hosts : PlaceKept(s, h)'
  BY <1>1 DEF BookInv, PlaceKept, Running, Through, At
<1>. QED
  BY <1>1, <1>2, <1>3, <1>4, <1>5 DEF BookInv

LEMMA BookInductive == Book!PlaybookAssumption /\ Book!Spec => []BookInv
<1>. SUFFICES ASSUME Book!PlaybookAssumption PROVE Book!Spec => []BookInv
  OBVIOUS
<1>1. Book!Init => BookInv
  BY BookInit
<1>2. BookInv /\ [Book!Next]_(Book!vars) => BookInv'
  BY SkipsHost, StartsKeeps, AttemptsKeeps, FailsKeepsBook, ConcludesKeeps, EndsKeep, BookRests
     DEF Book!Next
<1>. QED
  BY <1>1, <1>2, PTL DEF Book!Spec

LEMMA PlacesAre ==
    \A r, q : /\ (Book!Place(r) = Book!Place(q)) <=> At(r, q.step, q.host)
              /\ Book!Before(Book!Place(r), Book!Place(q)) <=> Earlier(r, q.step, q.host)
              /\ \A s, h : (Book!Place(r) = <<s, h>>) <=> At(r, s, h)
  BY DEF Book!Place, Book!Before, At, Earlier

\* No command runs after a failure except as a retry of it, as often as the step allows;
\* after the failure of a last attempt that is not ignored no command runs on any host,
\* and the exit status tells: for any steps, any hosts and any number of retries.
THEOREM FailureEndsRun == Book!Spec => []FailureIsLast
<1>. Book!PlaybookAssumption
  BY CommandsAssumption
<1>1. ASSUME BookInv PROVE Book!FailureIsLast
  <2>. USE <1>1
  <2>0. /\ BookTyped /\ OnTheWay /\ DOMAIN ran = 1..Len(ran) /\ Len(ran) \in Nat
        /\ \A i \in DOMAIN ran : ran[i] \in Executed
    BY BookFacts DEF BookInv
  <2>1. ASSUME NEW i \in DOMAIN ran
        PROVE  LET s == book.steps[ran[i].step]
                   again == {j \in DOMAIN ran : j > i /\ Book!Place(ran[j]) = Book!Place(ran[i])}
               IN /\ again # {} => ran[i].code # 0 /\ ~Book!Matches(s, ran[i].code)
                  /\ Cardinality(again) < Book!Tries(s)
    <3>. DEFINE s == book.steps[ran[i].step]
                again == {j \in DOMAIN ran : j > i /\ Book!Place(ran[j]) = Book!Place(ran[i])}
    <3>1. \A j \in again : /\ j \in 1..Len(ran) /\ j > i /\ j - i < Book!Tries(s)
                           /\ ran[i].code # 0 /\ ~Book!Matches(s, ran[i].code)
      BY <2>0, PlacesAre DEF BookInv, RanKept
    <3>2. Book!Tries(s) \in Nat \ {0}
      <4>1. ran[i].step \in DOMAIN book.steps
        BY <2>0 DEF Executed
      <4>2. s \in Steps
        BY <2>0, <4>1 DEF BookTyped
      <4>3. s.retries \in Nat
        BY <4>2 DEF Book!PlaybookAssumption
      <4>. QED
        BY <4>3 DEF Book!Tries
    <3>. HIDE DEF again, s
    <3>3. again \subseteq (i + 1)..(i + Book!Tries(s) - 1)
      BY <2>0, <3>1, <3>2
    <3>4. /\ IsFiniteSet((i + 1)..(i + Book!Tries(s) - 1))
          /\ Cardinality((i + 1)..(i + Book!Tries(s) - 1)) =
                IF i + 1 > i + Book!Tries(s) - 1 THEN 0
                ELSE (i + Book!Tries(s) - 1) - (i + 1) + 1
      <4>1. i + 1 \in Int /\ i + Book!Tries(s) - 1 \in Int
        BY <2>0, <3>2
      <4>. QED
        BY <4>1, FS_Interval
    <3>5. /\ Cardinality(again) <= Cardinality((i + 1)..(i + Book!Tries(s) - 1))
          /\ Cardinality(again) \in Nat
      BY <3>3, <3>4, FS_Subset, FS_CardinalityType
    <3>6. Cardinality(again) < Book!Tries(s)
      <4>1. i \in Nat
        BY <2>0
      <4>. QED
        BY ONLY <3>2, <3>4, <3>5, <4>1
    <3>. QED
      BY <3>1, <3>6 DEF again, s
  <2>2. Book!RetriesOnlyFailures
    BY <2>1 DEF Book!RetriesOnlyFailures, Book!Cardinality, Cardinality
  <2>3. ASSUME NEW i \in DOMAIN ran, Book!Final(i),
               Book!IsFailed(book.steps[ran[i].step], ran[i].code),
               ~book.steps[ran[i].step].ignore
        PROVE  i = Len(ran) /\ exit # 0
    <3>1. RanKept(i) /\ ~Settled(ran[i])
      BY <2>3 DEF BookInv, Settled
    <3>2. i = Len(ran)
      <4>1. SUFFICES ASSUME i # Len(ran) PROVE FALSE
        OBVIOUS
      <4>2. i < Len(ran)
        BY <2>0, <4>1
      <4>3. ~At(ran[i + 1], ran[i].step, ran[i].host)
        BY <2>3, <4>1, PlacesAre DEF Book!Final, At
      <4>. QED
        BY <3>1, <4>2, <4>3 DEF RanKept
    <3>3. run.pc # "attempt" \/ ~At(ran[i], run.step, run.host)
      BY <2>3, <3>2, PlacesAre DEF Book!Final
    <3>4. exit # 0
      BY <2>0, <3>1, <3>2, <3>3 DEF RanKept, Through, Running, OnTheWay, BookTyped
    <3>. QED
      BY <3>2, <3>4
  <2>. QED
    BY <2>2, <2>3 DEF Book!FailureIsLast
<1>. QED
  BY <1>1, BookInductive, PTL DEF FailureIsLast

\* Exit status 0 means that every step was gone through on every host, and executed there
\* unless the run was dry or `when` said otherwise; step by step, and host by host.
THEOREM ZeroGoesThrough == Book!Spec => []ZeroMeansAllSteps
<1>. Book!PlaybookAssumption
  BY CommandsAssumption
<1>1. ASSUME BookInv PROVE Book!ZeroMeansAllSteps
  <2>. USE <1>1
  <2>0. BookTyped /\ OnTheWay /\ ResultsKept
    BY DEF BookInv
  <2>1. Book!TypeOK
    BY <2>0 DEF BookTyped, Book!TypeOK
  <2>2. Book!InOrder
    BY <2>0, PlacesAre DEF ResultsKept, Book!InOrder
  <2>3. ASSUME exit = 0, NEW s \in DOMAIN book.steps, NEW h \in DOMAIN book.hosts
        PROVE  /\ \E i \in DOMAIN result.results : Book!Place(result.results[i]) = <<s, h>>
               /\ (\E i \in DOMAIN ran : Book!Place(ran[i]) = <<s, h>>)
                     <=> (~book.dry /\ book.hosts[h] \in book.steps[s].when)
    <3>1. run.pc = "done" /\ ~result.failed
      BY <2>0, <2>3 DEF OnTheWay, Running, BookTyped
    <3>2. Through /\ s < run.step
      BY <2>0, <3>1, BookFacts DEF OnTheWay, Through
    <3>3. PlaceKept(s, h)
      BY DEF BookInv
    <3>. QED
      BY <3>2, <3>3, PlacesAre DEF PlaceKept
  <2>. QED
    BY <2>1, <2>2, <2>3 DEF Book!ZeroMeansAllSteps
<1>. QED
  BY <1>1, BookInductive, PTL DEF ZeroMeansAllSteps

-----------------------------------------------------------------------------
(* Health *)

\* The hosts that have been counted.
Counted == selected \ (left \cup {now.host})
InTrouble(h) == <<h, "trouble">> \in facts
Strained(h) == <<h, "strained">> \in facts

HealthTyped ==
    /\ left \subseteq selected /\ selected \subseteq Hosts
    /\ now \in [host : Hosts \cup {None}, check : 0..5]
    /\ now.host = None <=> now.check = 0
    /\ now.check # 0 => now.host \in selected \ left
    /\ verdict \in {"healthy", "degraded", "critical"}
    /\ facts \subseteq (selected \ left) \X {"trouble", "strained"}
    /\ counts \in [{"healthy", "degraded", "critical"} -> Nat]
    /\ exitcode \in {0, 1, 2}

\* The verdict on the host in hand is what has been found on it.
VerdictTells ==
    now.check # 0 => /\ verdict = "critical" <=> InTrouble(now.host)
                     /\ verdict = "degraded" <=> Strained(now.host) /\ ~InTrouble(now.host)

\* The counts are those of the hosts that are done with.
CountsTell ==
    /\ counts["critical"] = Cardinality({h \in Counted : InTrouble(h)})
    /\ counts["degraded"] = Cardinality({h \in Counted : Strained(h) /\ ~InTrouble(h)})
    /\ counts["healthy"] + counts["degraded"] + counts["critical"] = Cardinality(Counted)

ExitTells ==
    exitcode # 2 =>
        /\ left = {} /\ now.check = 0
        /\ exitcode = 0 <=> selected # {} /\ counts["critical"] = 0

HealthInv == HealthTyped /\ VerdictTells /\ CountsTell /\ ExitTells

LEMMA HealthInit == Checkup!HealthAssumption /\ Checkup!Init => HealthInv
<1>. SUFFICES ASSUME Checkup!HealthAssumption, Checkup!Init PROVE HealthInv
  OBVIOUS
<1>. USE DEF Checkup!Init
<1>1. HealthTyped
  BY DEF HealthTyped, Checkup!HealthAssumption
<1>2. VerdictTells /\ ExitTells
  BY DEF VerdictTells, ExitTells
<1>3. Counted = {}
  BY DEF Counted
<1>4. {h \in Counted : InTrouble(h)} = {} /\ {h \in Counted : Strained(h) /\ ~InTrouble(h)} = {}
  BY <1>3
<1>5. CountsTell
  BY <1>3, <1>4, FS_EmptySet DEF CountsTell
<1>. QED
  BY <1>1, <1>2, <1>5 DEF HealthInv

\* One check: the verdict follows what was found, whatever was found before.
LEMMA RaisedTells ==
    ASSUME NEW check \in {"ssh", "cpu", "memory", "disk", "load"},
           NEW reading \in Checkup!Readings,
           NEW sofar \in {"healthy", "degraded", "critical"}
    PROVE  LET after == Checkup!Raised(check, Checkup!Status(check, reading), sofar)
               found == Checkup!Found(check, reading)
           IN /\ after \in {"healthy", "degraded", "critical"}
              /\ after = "critical" <=> sofar = "critical" \/ "trouble" \in found
              /\ after = "degraded" <=>
                    /\ sofar = "degraded" \/ (sofar = "healthy" /\ "strained" \in found)
                    /\ "trouble" \notin found
              /\ found \subseteq {"trouble", "strained"}
<1>. DEFINE status == Checkup!Status(check, reading)
            after == Checkup!Raised(check, status, sofar)
            found == Checkup!Found(check, reading)
<1>. USE DEF Checkup!Readings
<1>1. /\ status \in {"healthy", "degraded", "critical", "unknown"}
      /\ status = "critical" <=> \/ check = "ssh" /\ reading = "lost"
                                 \/ check # "ssh" /\ reading = "over"
      /\ status = "degraded" <=> \/ check = "ssh" /\ reading \notin {"low", "lost"}
                                 \/ check # "ssh" /\ reading = "high"
  <2>1. CASE check = "ssh"
    <3>1. CASE reading = "lost"
      BY <2>1, <3>1 DEF Checkup!Status
    <3>2. CASE reading = "low"
      BY <2>1, <3>2 DEF Checkup!Status
    <3>3. CASE reading \notin {"low", "lost"}
      BY <2>1, <3>3 DEF Checkup!Status
    <3>. QED
      BY <3>1, <3>2, <3>3
  <2>2. CASE check # "ssh"
    BY <2>2 DEF Checkup!Status
  <2>. QED
    BY <2>1, <2>2
<1>2. /\ "trouble" \in found <=> \/ check = "ssh" /\ reading = "lost"
                                 \/ check \in {"cpu", "memory", "disk"} /\ reading = "over"
      /\ "strained" \in found <=> check \in {"memory", "disk", "load"} /\ reading = "high"
      /\ found \subseteq {"trouble", "strained"}
  BY DEF Checkup!Found
<1>. HIDE DEF status, found
<1>3. /\ (status = "critical" /\ check # "load") => after = "critical"
      /\ /\ ~(status = "critical" /\ check # "load")
         /\ status = "degraded" /\ check \notin {"ssh", "cpu"} /\ sofar = "healthy"
         => after = "degraded"
      /\ /\ ~(status = "critical" /\ check # "load")
         /\ ~(status = "degraded" /\ check \notin {"ssh", "cpu"} /\ sofar = "healthy")
         => after = sofar
  BY DEF Checkup!Raised
<1>. HIDE DEF after
<1>4. /\ after \in {"healthy", "degraded", "critical"}
      /\ after = "critical" <=> sofar = "critical" \/ "trouble" \in found
  BY <1>1, <1>2, <1>3
<1>5. after = "degraded" <=>
         /\ sofar = "degraded" \/ (sofar = "healthy" /\ "strained" \in found)
         /\ "trouble" \notin found
  BY <1>1, <1>2, <1>3
<1>. QED
  BY <1>2, <1>4, <1>5 DEF status, after, found

\* The facts about one host are those of before and what its check has found.
LEMMA StartsHostKeeps ==
    ASSUME Checkup!HealthAssumption, HealthInv, Checkup!StartsHost PROVE HealthInv'
<1>. USE DEF HealthInv
<1>1. PICK h \in left : now' = [host |-> h, check |-> 1] /\ left' = left \ {h}
  BY DEF Checkup!StartsHost
<1>2. /\ exitcode = 2 /\ now.check = 0 /\ verdict' = "healthy"
      /\ UNCHANGED <<selected, counts, facts, exitcode>>
  BY DEF Checkup!StartsHost
<1>3. h \in selected /\ h \in Hosts /\ h # None /\ now.host = None /\ None \notin selected
  BY <1>2 DEF HealthTyped, Checkup!HealthAssumption
<1>4. <<h, "trouble">> \notin facts /\ <<h, "strained">> \notin facts
  BY <1>1 DEF HealthTyped
<1>5. HealthTyped'
  <2>1. (selected \ left) \X {"trouble", "strained"}
           \subseteq (selected \ left') \X {"trouble", "strained"}
    BY <1>1
  <2>. QED
    BY <1>1, <1>2, <1>3, <2>1 DEF HealthTyped
<1>6. VerdictTells'
  BY <1>1, <1>2, <1>4 DEF VerdictTells, InTrouble, Strained
<1>7. Counted' = Counted
  BY <1>1, <1>2, <1>3 DEF Counted
<1>8. CountsTell'
  BY <1>2, <1>7 DEF CountsTell, InTrouble, Strained
<1>9. ExitTells'
  BY <1>2 DEF ExitTells
<1>. QED
  BY <1>5, <1>6, <1>8, <1>9

LEMMA SelectedFinite ==
    ASSUME Checkup!HealthAssumption, HealthTyped PROVE IsFiniteSet(selected)
<1>1. IsFiniteSet(Hosts)
  BY DEF Checkup!HealthAssumption, Checkup!IsFiniteSet, IsFiniteSet
<1>2. selected \in SUBSET Hosts
  BY DEF HealthTyped
<1>. QED
  BY <1>1, <1>2, FS_Subset

\* A host is done with, under what was found on it.
LEMMA FinishesHost ==
    ASSUME Checkup!HealthAssumption, HealthInv, now.check # 0, NEW h, h = now.host,
           NEW after \in {"healthy", "degraded", "critical"}, Checkup!Finishes(after),
           UNCHANGED <<selected, left>>,
           \A k : k # h => (InTrouble(k)' <=> InTrouble(k)) /\ (Strained(k)' <=> Strained(k)),
           after = "critical" <=> InTrouble(h)',
           after = "degraded" <=> Strained(h)' /\ ~InTrouble(h)'
    PROVE  CountsTell'
<1>. DEFINE T == {k \in Counted : InTrouble(k)}
            D == {k \in Counted : Strained(k) /\ ~InTrouble(k)}
<1>0. HealthTyped /\ CountsTell
  BY DEF HealthInv
<1>1. /\ now' = [host |-> None, check |-> 0]
      /\ counts' = [counts EXCEPT ![after] = @ + 1]
  BY DEF Checkup!Finishes
<1>2. h \in selected /\ h \notin left /\ None \notin selected /\ h \notin Counted
  BY <1>0 DEF HealthTyped, Checkup!HealthAssumption, Counted
<1>3. Counted' = Counted \cup {h}
  BY <1>1, <1>2 DEF Counted
<1>4. IsFiniteSet(selected)
  BY <1>0, SelectedFinite
<1>5. IsFiniteSet(Counted) /\ IsFiniteSet(T) /\ IsFiniteSet(D)
  <2>1. Counted \subseteq selected
    BY DEF Counted
  <2>2. T \subseteq selected /\ D \subseteq selected
    BY <2>1
  <2>. QED
    BY <1>4, <2>1, <2>2, FS_Subset
<1>6. /\ Cardinality(Counted \cup {h}) = Cardinality(Counted) + 1
      /\ Cardinality(T \cup {h}) = Cardinality(T) + 1
      /\ Cardinality(D \cup {h}) = Cardinality(D) + 1
      /\ Cardinality(Counted) \in Nat /\ Cardinality(T) \in Nat /\ Cardinality(D) \in Nat
  <2>1. h \notin T /\ h \notin D
    BY <1>2
  <2>. HIDE DEF T, D
  <2>. QED
    BY <1>2, <1>5, <2>1, FS_AddElement, FS_CardinalityType
<1>7. /\ {k \in Counted' : InTrouble(k)'} = (IF after = "critical" THEN T \cup {h} ELSE T)
      /\ {k \in Counted' : Strained(k)' /\ ~InTrouble(k)'} =
            (IF after = "degraded" THEN D \cup {h} ELSE D)
  <2>1. \A k \in Counted : k # h
    BY <1>2
  <2>. QED
    BY <1>3, <2>1
<1>8. /\ counts'["critical"] = counts["critical"] + (IF after = "critical" THEN 1 ELSE 0)
      /\ counts'["degraded"] = counts["degraded"] + (IF after = "degraded" THEN 1 ELSE 0)
      /\ counts'["healthy"] = counts["healthy"] + (IF after = "healthy" THEN 1 ELSE 0)
      /\ counts["critical"] \in Nat /\ counts["degraded"] \in Nat /\ counts["healthy"] \in Nat
  BY <1>0, <1>1 DEF HealthTyped
<1>9. /\ counts["critical"] = Cardinality(T) /\ counts["degraded"] = Cardinality(D)
      /\ counts["healthy"] + counts["degraded"] + counts["critical"] = Cardinality(Counted)
  BY <1>0 DEF CountsTell
<1>. HIDE DEF T, D
<1>10. /\ counts'["critical"] = Cardinality({k \in Counted' : InTrouble(k)'})
       /\ counts'["degraded"] = Cardinality({k \in Counted' : Strained(k)' /\ ~InTrouble(k)'})
  <2>1. counts'["critical"] = Cardinality(IF after = "critical" THEN T \cup {h} ELSE T)
    <3>1. CASE after = "critical"
      BY <1>6, <1>8, <1>9, <3>1
    <3>2. CASE after # "critical"
      BY <1>6, <1>8, <1>9, <3>2
    <3>. QED
      BY <3>1, <3>2
  <2>2. counts'["degraded"] = Cardinality(IF after = "degraded" THEN D \cup {h} ELSE D)
    <3>1. CASE after = "degraded"
      BY <1>6, <1>8, <1>9, <3>1
    <3>2. CASE after # "degraded"
      BY <1>6, <1>8, <1>9, <3>2
    <3>. QED
      BY <3>1, <3>2
  <2>. QED
    BY <1>7, <2>1, <2>2
<1>11. counts'["healthy"] + counts'["degraded"] + counts'["critical"] = Cardinality(Counted')
  <2>1. Cardinality(Counted') = Cardinality(Counted) + 1
    BY <1>3, <1>6
  <2>2. CASE after = "critical"
    BY <1>8, <1>9, <2>1, <2>2
  <2>3. CASE after = "degraded"
    BY <1>8, <1>9, <2>1, <2>3
  <2>4. CASE after = "healthy"
    BY <1>8, <1>9, <2>1, <2>4
  <2>. QED
    BY <2>2, <2>3, <2>4
<1>. QED
  BY <1>10, <1>11 DEF CountsTell

LEMMA CheckedKeeps ==
    ASSUME Checkup!HealthAssumption, HealthInv, NEW reading \in Checkup!Readings,
           Checkup!Checked(reading)
    PROVE  HealthInv'
<1>. PICK h : h = now.host
  OBVIOUS
<1>. DEFINE check == Checkup!Checks[now.check]
            after == Checkup!Raised(check, Checkup!Status(check, reading), verdict)
            found == Checkup!Found(check, reading)
<1>0. HealthTyped /\ VerdictTells /\ CountsTell /\ ExitTells
  BY DEF HealthInv
<1>1. /\ now.check # 0 /\ verdict' = after /\ facts' = facts \cup ({h} \X found)
      /\ UNCHANGED <<selected, left, exitcode>>
      /\ \/ Checkup!Finishes(after)
         \/ now.check # 5 /\ now' = [now EXCEPT !.check = @ + 1] /\ UNCHANGED counts
  BY DEF Checkup!Checked
<1>2. /\ now.check \in 1..5 /\ h \in selected \ left /\ h # None /\ h \in Hosts
      /\ verdict \in {"healthy", "degraded", "critical"}
      /\ now = [host |-> h, check |-> now.check]
  BY <1>0, <1>1 DEF HealthTyped
<1>3. check \in {"ssh", "cpu", "memory", "disk", "load"}
  <2>1. now.check = 1 \/ now.check = 2 \/ now.check = 3 \/ now.check = 4 \/ now.check = 5
    BY <1>2
  <2>. QED
    BY <2>1 DEF Checkup!Checks
<1>4. /\ after \in {"healthy", "degraded", "critical"}
      /\ after = "critical" <=> verdict = "critical" \/ "trouble" \in found
      /\ after = "degraded" <=>
            /\ verdict = "degraded" \/ (verdict = "healthy" /\ "strained" \in found)
            /\ "trouble" \notin found
      /\ found \subseteq {"trouble", "strained"}
  BY <1>2, <1>3, RaisedTells
<1>5. exitcode = 2
  BY <1>0, <1>1 DEF ExitTells, HealthTyped
<1>. HIDE DEF after, found, check
<1>6. /\ InTrouble(h)' <=> InTrouble(h) \/ "trouble" \in found
      /\ Strained(h)' <=> Strained(h) \/ "strained" \in found
      /\ \A k : k # h => (InTrouble(k)' <=> InTrouble(k)) /\ (Strained(k)' <=> Strained(k))
  BY <1>1 DEF InTrouble, Strained
<1>7. /\ after = "critical" <=> InTrouble(h)'
      /\ after = "degraded" <=> Strained(h)' /\ ~InTrouble(h)'
  BY <1>0, <1>1, <1>2, <1>4, <1>6 DEF VerdictTells
<1>8. facts' \subseteq (selected \ left) \X {"trouble", "strained"}
  BY <1>0, <1>1, <1>2, <1>4 DEF HealthTyped
<1>9. CASE Checkup!Finishes(after)
  <2>1. /\ now' = [host |-> None, check |-> 0]
        /\ counts' = [counts EXCEPT ![after] = @ + 1]
    BY <1>9 DEF Checkup!Finishes
  <2>2. HealthTyped'
    BY <1>0, <1>1, <1>4, <1>8, <2>1 DEF HealthTyped
  <2>3. VerdictTells' /\ ExitTells'
    BY <1>1, <1>5, <2>1 DEF VerdictTells, ExitTells
  <2>4. CountsTell'
    BY <1>0, <1>1, <1>4, <1>6, <1>7, <1>9, FinishesHost
  <2>. QED
    BY <2>2, <2>3, <2>4 DEF HealthInv
<1>10. CASE now.check # 5 /\ now' = [now EXCEPT !.check = @ + 1] /\ UNCHANGED counts
  <2>1. now' = [host |-> h, check |-> now.check + 1] /\ now.check + 1 \in 1..5
    BY <1>2, <1>10
  <2>2. HealthTyped'
    BY <1>0, <1>1, <1>2, <1>4, <1>8, <1>10, <2>1 DEF HealthTyped
  <2>3. VerdictTells'
    BY <1>1, <1>7, <2>1 DEF VerdictTells, InTrouble, Strained
  <2>4. Counted' = Counted /\ h \notin Counted
    BY <1>1, <2>1 DEF Counted
  <2>5. /\ {k \in Counted' : InTrouble(k)'} = {k \in Counted : InTrouble(k)}
        /\ {k \in Counted' : Strained(k)' /\ ~InTrouble(k)'} =
              {k \in Counted : Strained(k) /\ ~InTrouble(k)}
    BY <1>6, <2>4
  <2>6. CountsTell'
    BY <1>0, <1>10, <2>4, <2>5 DEF CountsTell
  <2>7. ExitTells'
    BY <1>1, <1>5 DEF ExitTells
  <2>. QED
    BY <2>2, <2>3, <2>6, <2>7 DEF HealthInv
<1>. QED
  BY <1>1, <1>9, <1>10

LEMMA ExitsKeeps ==
    ASSUME HealthInv, Checkup!ExitsWithSummary PROVE HealthInv'
<1>. USE DEF HealthInv
<1>1. /\ left = {} /\ now.check = 0
      /\ exitcode' = IF selected = {} \/ counts["critical"] > 0 THEN 1 ELSE 0
      /\ UNCHANGED <<selected, left, now, verdict, counts, facts>>
  BY DEF Checkup!ExitsWithSummary
<1>2. HealthTyped' /\ VerdictTells'
  BY <1>1 DEF HealthTyped, VerdictTells, InTrouble, Strained
<1>3. CountsTell'
  BY <1>1 DEF CountsTell, Counted, InTrouble, Strained
<1>4. counts["critical"] \in Nat
  BY DEF HealthTyped
<1>5. ExitTells'
  BY <1>1, <1>4 DEF ExitTells
<1>. QED
  BY <1>2, <1>3, <1>5

LEMMA HealthRests == ASSUME HealthInv, UNCHANGED Checkup!vars PROVE HealthInv'
<1>. USE DEF HealthInv
<1>1. UNCHANGED <<selected, left, now, verdict, counts, facts, exitcode>>
  BY DEF Checkup!vars
<1>2. HealthTyped' /\ VerdictTells' /\ ExitTells'
  BY <1>1 DEF HealthTyped, VerdictTells, InTrouble, Strained, ExitTells
<1>3. CountsTell'
  BY <1>1 DEF CountsTell, Counted, InTrouble, Strained
<1>. QED
  BY <1>2, <1>3

LEMMA HealthInductive == Checkup!HealthAssumption /\ Checkup!Spec => []HealthInv
<1>. SUFFICES ASSUME Checkup!HealthAssumption PROVE Checkup!Spec => []HealthInv
  OBVIOUS
<1>1. Checkup!Init => HealthInv
  BY HealthInit
<1>2. HealthInv /\ [Checkup!Next]_(Checkup!vars) => HealthInv'
  BY StartsHostKeeps, CheckedKeeps, ExitsKeeps, HealthRests DEF Checkup!Next
<1>. QED
  BY <1>1, <1>2, PTL DEF Checkup!Spec

\* Every selected host is counted once and under what was found on it, in whatever order
\* the hosts come; exit status 0 means that there were hosts and none is in trouble: for
\* any finite inventory and any outcome of every check.
THEOREM SummaryIsTrue == Checkup!Spec => []SummaryTells
<1>. Checkup!HealthAssumption
  BY CommandsAssumption
<1>1. ASSUME HealthInv PROVE Checkup!SummaryTells
  <2>. USE <1>1 DEF HealthInv
  <2>1. Checkup!TypeOK
    BY DEF HealthTyped, Checkup!TypeOK
  <2>2. ASSUME exitcode # 2
        PROVE  /\ counts["critical"] = Cardinality({h \in selected : InTrouble(h)})
               /\ counts["degraded"] = Cardinality({h \in selected : Strained(h) /\ ~InTrouble(h)})
               /\ counts["healthy"] + counts["degraded"] + counts["critical"] = Cardinality(selected)
               /\ exitcode = 0 <=> selected # {} /\ \A h \in selected : ~InTrouble(h)
    <3>1. Counted = selected
      BY <2>2 DEF ExitTells, HealthTyped, Counted, Checkup!HealthAssumption
    <3>2. /\ counts["critical"] = Cardinality({h \in selected : InTrouble(h)})
          /\ counts["degraded"] = Cardinality({h \in selected : Strained(h) /\ ~InTrouble(h)})
          /\ counts["healthy"] + counts["degraded"] + counts["critical"] = Cardinality(selected)
      BY <3>1 DEF CountsTell
    <3>3. IsFiniteSet({h \in selected : InTrouble(h)})
      <4>1. IsFiniteSet(selected)
        BY SelectedFinite
      <4>2. {h \in selected : InTrouble(h)} \in SUBSET selected
        OBVIOUS
      <4>. QED
        BY <4>1, <4>2, FS_Subset
    <3>4. counts["critical"] = 0 <=> {h \in selected : InTrouble(h)} = {}
      BY <3>2, <3>3, FS_EmptySet
    <3>. QED
      BY <2>2, <3>2, <3>4 DEF ExitTells
  <2>. QED
    BY <2>1, <2>2
       DEF Checkup!SummaryTells, Checkup!InTrouble, Checkup!Strained, InTrouble, Strained,
           Checkup!Cardinality, Cardinality
<1>. QED
  BY <1>1, HealthInductive, PTL DEF SummaryTells

-----------------------------------------------------------------------------
(* Tools *)

\* The server has an inventory; the child has one.
Loaded == serving.pc # "start"
InUse == child.pc \in {"run", "work"}

IsEffect(e) == e = [n |-> e.n, kind |-> e.kind, host |-> e.host, machine |-> e.machine,
                    as |-> e.as, stamp |-> e.stamp, code |-> e.code]

\* A name was resolved with this inventory, or with another version of it.
FromView(v, e) == e.machine = Kit!Target(v, e.host) /\ e.stamp = v.stamp
Agrees(v, e) == e.stamp = v.stamp => e.machine = Kit!Target(v, e.host)
Alike(v, w) == v.stamp = w.stamp => v.hosts = w.hosts

KitTyped ==
    /\ file \in [hosts : Kit!Inventories, ok : BOOLEAN, stamp : Nat]
    /\ copy.stamp \in Nat /\ copy.stamp <= file.stamp
    /\ serving = [pc |-> serving.pc, todo |-> serving.todo]
    /\ child = [pc |-> child.pc, words |-> child.words, inv |-> child.inv, todo |-> child.todo,
                exit |-> child.exit]
    /\ done \in Seq(Range(done))
    /\ InUse => /\ child.inv.stamp \in Nat /\ child.inv.stamp <= file.stamp
                /\ DOMAIN child.inv.hosts \subseteq Aliases
    /\ serving.pc = "start" => done = << >>
    /\ serving.pc # "child" => child.pc = "none"

\* The inventories in the server, in the child and in the file.
ViewsTell ==
    /\ Loaded /\ file.ok => Alike(copy, file)
    /\ InUse => Alike(child.inv, file)
    /\ InUse => Alike(copy, child.inv)

\* What is still to be done.
ServingTells ==
    serving.pc = "ssh" =>
        /\ serving.todo \in Seq(Range(serving.todo)) /\ serving.todo # << >>
        /\ \A e \in Range(serving.todo) : IsEffect(e) /\ FromView(copy, e)

ChildTells ==
    child.pc = "work" =>
        /\ child.todo \in Seq(Range(child.todo))
        /\ \A e \in Range(child.todo) :
              IsEffect(e) /\ (e.kind \in {"command", "step"} => FromView(child.inv, e))

\* What has been done agrees with every inventory of the same version.
EffectTells(e) ==
    Kit!Reaches(e) =>
        /\ e.stamp \in Nat /\ e.stamp <= file.stamp
        /\ file.ok => Agrees(file, e)
        /\ Loaded => Agrees(copy, e)
        /\ InUse => Agrees(child.inv, e)
        /\ \A d \in Range(done) :
              Kit!Reaches(d) /\ d.host = e.host /\ d.stamp = e.stamp => d.machine = e.machine

KitInv ==
    /\ KitTyped /\ ViewsTell /\ ServingTells /\ ChildTells
    /\ \A e \in Range(done) : EffectTells(e)

LEMMA OneMore ==
    ASSUME NEW s, s \in Seq(Range(s)), NEW e
    PROVE  /\ Append(s, e) \in Seq(Range(Append(s, e)))
           /\ Range(Append(s, e)) = Range(s) \cup {e}
<1>. DEFINE S == Range(s) \cup {e}
            n == Len(s)
            t == Append(s, e)
<1>1. s \in Seq(S) /\ e \in S
  <2>1. s \in [1..n -> Range(s)] /\ n \in Nat
    BY DEF Range
  <2>2. s \in [1..n -> S]
    BY <2>1
  <2>. QED
    BY <2>1, <2>2
<1>2. /\ t \in Seq(S) /\ n \in Nat /\ Len(t) = n + 1 /\ DOMAIN t = 1..(n + 1) /\ DOMAIN s = 1..n
      /\ \A i \in 1..n : t[i] = s[i]
      /\ t[n + 1] = e
  BY <1>1, AppendProperties
<1>. HIDE DEF t, n
<1>3. \A i \in 1..(n + 1) : i \in 1..n \/ i = n + 1
  BY <1>2
<1>4. \A i \in 1..n : i \in 1..(n + 1)
  BY <1>2
<1>5. Range(t) = S
  BY <1>2, <1>3, <1>4 DEF Range
<1>6. t \in Seq(Range(t))
  BY <1>2, <1>5
<1>. QED
  BY <1>5, <1>6 DEF t

LEMMA OneLess ==
    ASSUME NEW s, s \in Seq(Range(s)), s # << >>
    PROVE  /\ Head(s) \in Range(s) /\ Tail(s) \in Seq(Range(Tail(s)))
           /\ Range(Tail(s)) \subseteq Range(s)
<1>. DEFINE n == Len(s)
            t == Tail(s)
<1>1. n \in Nat /\ n # 0 /\ DOMAIN s = 1..n
  BY DEF Range
<1>2. Head(s) \in Range(s)
  BY <1>1 DEF Range
<1>3. /\ t \in Seq(Range(s)) /\ Len(t) = n - 1
      /\ \A i \in 1..(n - 1) : t[i] = s[i + 1]
  BY <1>1, HeadTailProperties
<1>4. DOMAIN t = 1..(n - 1)
  BY <1>3
<1>5. \A i \in 1..(n - 1) : i + 1 \in 1..n
  BY <1>1
<1>. HIDE DEF t, n
<1>6. Range(t) \subseteq Range(s)
  BY <1>1, <1>3, <1>4, <1>5 DEF Range
<1>7. t \in [1..(n - 1) -> Range(t)]
  BY <1>3, <1>4 DEF Range
<1>8. n - 1 \in Nat
  BY <1>1
<1>9. t \in Seq(Range(t))
  BY <1>7, <1>8
<1>. QED
  BY <1>2, <1>6, <1>9 DEF t

LEMMA KitInit == Kit!Init => KitInv
<1>. SUFFICES ASSUME Kit!Init PROVE KitInv
  OBVIOUS
<1>. USE DEF Kit!Init
<1>1. Range(<< >>) = {} /\ << >> \in Seq({})
  BY DEF Range
<1>2. KitTyped
  BY <1>1 DEF KitTyped, InUse, Kit!NoChild
<1>3. ViewsTell /\ ServingTells /\ ChildTells
  BY DEF ViewsTell, ServingTells, ChildTells, Loaded, InUse, Kit!NoChild
<1>4. \A e \in Range(done) : EffectTells(e)
  BY <1>1
<1>. QED
  BY <1>2, <1>3, <1>4 DEF KitInv

\* Nothing is done, and the file and the server's inventory stay as they are.
LEMMA NothingDone ==
    ASSUME KitInv, UNCHANGED <<file, copy, done>>, Loaded, Loaded',
           InUse' => InUse /\ child'.inv = child.inv,
           serving' = [pc |-> serving'.pc, todo |-> serving'.todo],
           child' = [pc |-> child'.pc, words |-> child'.words, inv |-> child'.inv,
                     todo |-> child'.todo, exit |-> child'.exit],
           serving'.pc # "child" => child'.pc = "none",
           ServingTells', ChildTells'
    PROVE  KitInv'
<1>1. KitTyped'
  BY DEF KitInv, KitTyped, Loaded
<1>2. ViewsTell'
  BY DEF KitInv, ViewsTell, Alike
<1>3. \A e \in Range(done) : EffectTells(e)'
  BY DEF KitInv, EffectTells, Agrees, Kit!Target
<1>. QED
  BY <1>1, <1>2, <1>3 DEF KitInv

\* Something is done, with the name resolved as every inventory of that version says.
LEMMA OneDone ==
    ASSUME KitInv, UNCHANGED <<file, copy>>, Loaded, Loaded',
           InUse' => InUse /\ child'.inv = child.inv,
           serving' = [pc |-> serving'.pc, todo |-> serving'.todo],
           child' = [pc |-> child'.pc, words |-> child'.words, inv |-> child'.inv,
                     todo |-> child'.todo, exit |-> child'.exit],
           serving'.pc # "child" => child'.pc = "none",
           ServingTells', ChildTells',
           NEW e, done' = Append(done, e), EffectTells(e)
    PROVE  KitInv'
<1>1. /\ done \in Seq(Range(done)) /\ done' \in Seq(Range(done'))
      /\ Range(done') = Range(done) \cup {e}
  BY OneMore DEF KitInv, KitTyped
<1>2. KitTyped'
  BY <1>1 DEF KitInv, KitTyped, Loaded
<1>3. ViewsTell'
  BY DEF KitInv, ViewsTell, Alike
<1>4. \A d \in Range(done) \cup {e} : EffectTells(d)
  BY DEF KitInv
<1>5. \A d \in Range(done) \cup {e} : EffectTells(d)'
  <2>1. SUFFICES ASSUME NEW d \in Range(done) \cup {e}, Kit!Reaches(d)
                 PROVE  EffectTells(d)'
    BY DEF EffectTells, Kit!Reaches
  <2>2. EffectTells(d)
    BY <1>4
  <2>3. ASSUME NEW b \in Range(done) \cup {e}, Kit!Reaches(b), b.host = d.host,
               b.stamp = d.stamp
        PROVE  b.machine = d.machine
    <3>1. CASE b \in Range(done)
      BY <2>1, <2>2, <2>3, <3>1 DEF EffectTells
    <3>2. CASE d \in Range(done)
      BY <1>4, <2>1, <2>3, <3>2 DEF EffectTells
    <3>3. CASE b = e /\ d = e
      BY <3>3
    <3>. QED
      BY <3>1, <3>2, <3>3
  <2>. QED
    BY <1>1, <2>1, <2>2, <2>3 DEF EffectTells, Agrees, Kit!Target, Kit!Reaches
<1>. QED
  BY <1>1, <1>2, <1>3, <1>5 DEF KitInv

\* An answer ends a call, and the child with it.
LEMMA Answering ==
    ASSUME KitTyped, NEW error, NEW v, Kit!Answers(error, v)
    PROVE  /\ serving' = [pc |-> serving'.pc, todo |-> serving'.todo]
           /\ serving'.pc = "idle" /\ Loaded' /\ ServingTells'
  BY DEF Kit!Answers, Loaded, ServingTells

LEMMA NoChildFields ==
    /\ Kit!NoChild = [pc |-> Kit!NoChild.pc, words |-> Kit!NoChild.words,
                      inv |-> Kit!NoChild.inv, todo |-> Kit!NoChild.todo,
                      exit |-> Kit!NoChild.exit]
    /\ Kit!NoChild.pc = "none"
  BY DEF Kit!NoChild

LEMMA SavesKeeps == KitInv /\ Kit!Saves => KitInv'
<1>. SUFFICES ASSUME KitInv, Kit!Saves PROVE KitInv'
  OBVIOUS
<1>1. /\ file' \in [hosts : Kit!Inventories, ok : BOOLEAN, stamp : Nat]
      /\ file'.stamp = file.stamp + 1 /\ file.stamp \in Nat
      /\ UNCHANGED <<copy, known, asked, answers, serving, child, done>>
  <2>1. PICK hosts \in Kit!Inventories, ok \in BOOLEAN :
           file' = [hosts |-> hosts, ok |-> ok, stamp |-> file.stamp + 1]
    BY DEF Kit!Saves
  <2>2. file.stamp \in Nat
    BY DEF KitInv, KitTyped
  <2>. QED
    BY <2>1, <2>2 DEF Kit!Saves
<1>2. copy.stamp \in Nat /\ copy.stamp <= file.stamp
      /\ (InUse => child.inv.stamp \in Nat /\ child.inv.stamp <= file.stamp)
  BY DEF KitInv, KitTyped
<1>3. copy.stamp < file'.stamp /\ (InUse => child.inv.stamp < file'.stamp)
  BY <1>1, <1>2
<1>4. KitTyped'
  BY <1>1, <1>2, <1>3 DEF KitInv, KitTyped, InUse
<1>5. ViewsTell'
  BY <1>1, <1>2, <1>3 DEF KitInv, ViewsTell, Alike, InUse, Loaded
<1>6. ServingTells' /\ ChildTells'
  BY <1>1 DEF KitInv, ServingTells, ChildTells, FromView, Kit!Target
<1>7. ASSUME NEW e \in Range(done), Kit!Reaches(e) PROVE EffectTells(e)'
  <2>1. EffectTells(e)
    BY DEF KitInv
  <2>2. e.stamp \in Nat /\ e.stamp <= file.stamp
    BY <1>7, <2>1 DEF EffectTells
  <2>3. e.stamp <= file'.stamp /\ e.stamp # file'.stamp
    BY <1>1, <2>2
  <2>. QED
    BY <1>1, <1>7, <2>1, <2>2, <2>3 DEF EffectTells, Agrees, Kit!Target, InUse, Loaded
<1>8. \A e \in Range(done) : EffectTells(e)'
  BY <1>7 DEF EffectTells, Kit!Reaches
<1>. QED
  BY <1>1, <1>4, <1>5, <1>6, <1>8 DEF KitInv

LEMMA ServerLoadsKeeps == KitInv /\ Kit!ServerLoads => KitInv'
<1>. SUFFICES ASSUME KitInv, Kit!ServerLoads PROVE KitInv'
  OBVIOUS
<1>1. /\ serving.pc = "start" /\ UNCHANGED <<file, known, asked, answers, child, done>>
      /\ serving' = [pc |-> "idle", todo |-> serving.todo]
      /\ copy' = IF file.ok THEN file ELSE [file EXCEPT !.hosts = Kit!Nobody]
      /\ child.pc = "none" /\ done = << >>
  BY DEF Kit!ServerLoads, KitInv, KitTyped
<1>2. file \in [hosts : Kit!Inventories, ok : BOOLEAN, stamp : Nat]
  BY DEF KitInv, KitTyped
<1>3. copy'.stamp = file.stamp /\ (file.ok => copy' = file) /\ file.stamp \in Nat
  BY <1>1, <1>2
<1>4. KitTyped'
  BY <1>1, <1>2, <1>3 DEF KitInv, KitTyped, InUse
<1>5. ViewsTell' /\ ServingTells' /\ ChildTells'
  BY <1>1, <1>3 DEF ViewsTell, Alike, InUse, ServingTells, ChildTells
<1>6. Range(done') = {}
  BY <1>1 DEF Range
<1>. QED
  BY <1>4, <1>5, <1>6 DEF KitInv

LEMMA AsksKeeps == ASSUME KitInv, NEW c \in Calls, Kit!Asks(c) PROVE KitInv'
<1>1. /\ serving.pc = "idle" /\ UNCHANGED <<file, copy, known, answers, child, done>>
      /\ serving' = [pc |-> "busy", todo |-> serving.todo]
  BY DEF Kit!Asks, KitInv, KitTyped
<1>2. ServingTells' /\ ChildTells'
  BY <1>1 DEF KitInv, ServingTells, ChildTells, FromView, Kit!Target
<1>. QED
  BY <1>1, <1>2, NothingDone DEF KitInv, KitTyped, Loaded, InUse

\* The server answers a call without a child.
LEMMA AnswersKeeps ==
    ASSUME KitInv, serving.pc \in {"busy", "ssh"}, NEW error, NEW v, Kit!Answers(error, v),
           UNCHANGED <<file, copy, child, done>>
    PROVE  KitInv'
<1>1. /\ serving' = [pc |-> serving'.pc, todo |-> serving'.todo]
      /\ serving'.pc = "idle" /\ Loaded' /\ ServingTells' /\ child.pc = "none"
  BY Answering DEF KitInv, KitTyped
<1>2. ChildTells'
  BY <1>1 DEF ChildTells
<1>. QED
  BY <1>1, <1>2, NothingDone DEF KitInv, KitTyped, Loaded, InUse

LEMMA StartsSshKeeps == KitInv /\ Kit!StartsSsh => KitInv'
<1>. SUFFICES ASSUME KitInv, Kit!StartsSsh PROVE KitInv'
  OBVIOUS
<1>1. PICK e : e = Kit!Effect("command", Kit!Call.host, Kit!ServerTarget(copy, Kit!Call.host),
                              "login", copy.stamp, 0)
  OBVIOUS
<1>2. /\ serving.pc = "busy" /\ UNCHANGED <<file, copy, known, asked, answers, child, done>>
      /\ serving' = [pc |-> "ssh", todo |-> <<e>>] /\ child.pc = "none"
  BY <1>1 DEF Kit!StartsSsh, KitInv, KitTyped
<1>3. IsEffect(e) /\ FromView(copy, e)
  BY <1>1 DEF IsEffect, FromView, Kit!Effect, Kit!ServerTarget, Kit!Target
<1>4. Range(<<e>>) = {e} /\ <<e>> \in Seq({e}) /\ <<e>> # << >>
  BY DEF Range
<1>5. ServingTells'
  BY <1>2, <1>3, <1>4 DEF ServingTells, FromView, Kit!Target, IsEffect
<1>6. ChildTells'
  BY <1>2 DEF ChildTells
<1>. QED
  BY <1>2, <1>5, <1>6, NothingDone DEF KitInv, KitTyped, Loaded, InUse

\* What is resolved with an inventory of a certain version agrees with every other one.
LEMMA FromServer ==
    ASSUME KitInv, NEW e, IsEffect(e), FromView(copy, e), serving.pc = "ssh"
    PROVE  EffectTells(e)
<1>1. e.stamp \in Nat /\ e.stamp <= file.stamp
  BY DEF FromView, KitInv, KitTyped
<1>2. /\ file.ok => Agrees(file, e)
      /\ Agrees(copy, e)
      /\ InUse => Agrees(child.inv, e)
  BY DEF KitInv, ViewsTell, FromView, Agrees, Alike, Kit!Target, Loaded
<1>3. ASSUME NEW d \in Range(done), Kit!Reaches(d), d.host = e.host, d.stamp = e.stamp
      PROVE  d.machine = e.machine
  BY <1>3 DEF KitInv, EffectTells, FromView, Agrees, Kit!Target, Loaded
<1>. QED
  BY <1>1, <1>2, <1>3 DEF EffectTells

LEMMA FromChild ==
    ASSUME KitInv, NEW e, IsEffect(e), FromView(child.inv, e), InUse, Loaded
    PROVE  EffectTells(e)
<1>1. e.stamp \in Nat /\ e.stamp <= file.stamp
  BY DEF FromView, KitInv, KitTyped
<1>2. Agrees(file, e) /\ Agrees(copy, e) /\ Agrees(child.inv, e)
  BY DEF KitInv, ViewsTell, FromView, Agrees, Alike, Kit!Target, Loaded
<1>3. ASSUME NEW d \in Range(done), Kit!Reaches(d), d.host = e.host, d.stamp = e.stamp
      PROVE  d.machine = e.machine
  BY <1>3 DEF KitInv, EffectTells, FromView, Agrees, Kit!Target, Loaded
<1>. QED
  BY <1>1, <1>2, <1>3 DEF EffectTells

LEMMA FromFile ==
    ASSUME KitInv, NEW e, IsEffect(e), FromView(file, e), file.ok, Loaded
    PROVE  EffectTells(e)
<1>1. e.stamp \in Nat /\ e.stamp <= file.stamp
  BY DEF FromView, KitInv, KitTyped
<1>2. Agrees(file, e) /\ Agrees(copy, e) /\ (InUse => Agrees(child.inv, e))
  BY DEF KitInv, ViewsTell, FromView, Agrees, Alike, Kit!Target, Loaded
<1>3. ASSUME NEW d \in Range(done), Kit!Reaches(d), d.host = e.host, d.stamp = e.stamp
      PROVE  d.machine = e.machine
  BY <1>3 DEF KitInv, EffectTells, FromView, Agrees, Kit!Target
<1>. QED
  BY <1>1, <1>2, <1>3 DEF EffectTells

\* An effect with its exit code is the effect that was planned.
LEMMA WithCode ==
    ASSUME NEW e, IsEffect(e), NEW code
    PROVE  /\ IsEffect([e EXCEPT !.code = code])
           /\ [e EXCEPT !.code = code].machine = e.machine
           /\ [e EXCEPT !.code = code].host = e.host
           /\ [e EXCEPT !.code = code].stamp = e.stamp
           /\ [e EXCEPT !.code = code].kind = e.kind
  BY DEF IsEffect

LEMMA ServerSshEndsKeeps == KitInv /\ Kit!ServerSshEnds => KitInv'
<1>. SUFFICES ASSUME KitInv, Kit!ServerSshEnds PROVE KitInv'
  OBVIOUS
<1>1. serving.pc = "ssh" /\ UNCHANGED <<file, copy, known, asked, child>> /\ child.pc = "none"
  BY DEF Kit!ServerSshEnds, KitInv, KitTyped
<1>2. CASE Kit!Answers(TRUE, copy) /\ UNCHANGED done
  BY <1>1, <1>2, AnswersKeeps
<1>3. CASE \E code \in {0, 1} : Kit!Runs(Head(serving.todo), code) /\ Kit!Answers(code # 0, copy)
  <2>1. PICK code \in {0, 1} :
           /\ done' = Append(done, [Head(serving.todo) EXCEPT !.code = code])
           /\ Kit!Answers(code # 0, copy)
    BY <1>3 DEF Kit!Runs
  <2>2. PICK d : d = Head(serving.todo)
    OBVIOUS
  <2>3. IsEffect(d) /\ FromView(copy, d)
    BY <1>1, <2>2, OneLess DEF KitInv, ServingTells
  <2>4. PICK e : e = [d EXCEPT !.code = code]
    OBVIOUS
  <2>5. IsEffect(e) /\ FromView(copy, e) /\ done' = Append(done, e)
    <3>1. IsEffect(e) /\ e.machine = d.machine /\ e.host = d.host /\ e.stamp = d.stamp
      BY <2>3, <2>4, WithCode
    <3>2. FromView(copy, e)
      BY <2>3, <3>1 DEF FromView
    <3>. QED
      BY <2>1, <2>2, <2>4, <3>1, <3>2
  <2>6. EffectTells(e)
    BY <1>1, <2>5, FromServer
  <2>7. /\ serving' = [pc |-> serving'.pc, todo |-> serving'.todo]
        /\ serving'.pc = "idle" /\ Loaded' /\ ServingTells'
    BY <2>1, Answering DEF KitInv
  <2>8. ChildTells'
    BY <1>1 DEF ChildTells
  <2>. QED
    BY <1>1, <2>5, <2>6, <2>7, <2>8, OneDone DEF KitInv, KitTyped, Loaded, InUse
<1>. QED
  BY <1>2, <1>3 DEF Kit!ServerSshEnds

LEMMA SpawnsKeeps == KitInv /\ Kit!Spawns => KitInv'
<1>. SUFFICES ASSUME KitInv, Kit!Spawns PROVE KitInv'
  OBVIOUS
<1>1. serving.pc = "busy" /\ UNCHANGED <<file, copy, known, asked, done>>
  BY DEF Kit!Spawns
<1>2. CASE Kit!Answers(TRUE, copy) /\ UNCHANGED child
  BY <1>1, <1>2, AnswersKeeps
<1>3. CASE ~(Kit!Answers(TRUE, copy) /\ UNCHANGED child)
  <2>1. /\ child' = [pc |-> "load", words |-> Kit!Words(Kit!Call), inv |-> file,
                     todo |-> << >>, exit |-> 0]
        /\ serving' = [pc |-> "child", todo |-> serving.todo]
    BY <1>3 DEF Kit!Spawns, KitInv, KitTyped
  <2>2. ServingTells' /\ ChildTells'
    BY <2>1 DEF ServingTells, ChildTells
  <2>. QED
    BY <1>1, <2>1, <2>2, NothingDone DEF KitInv, KitTyped, Loaded, InUse
<1>. QED
  BY <1>2, <1>3

LEMMA ReapsKeeps == KitInv /\ Kit!Reaps => KitInv'
<1>. SUFFICES ASSUME KitInv, Kit!Reaps PROVE KitInv'
  OBVIOUS
<1>1. /\ serving.pc = "child" /\ UNCHANGED <<file, copy, known, asked, done>>
      /\ Kit!Answers(child.exit # 0, child.inv) /\ child' = Kit!NoChild
  BY DEF Kit!Reaps
<1>2. /\ serving' = [pc |-> serving'.pc, todo |-> serving'.todo]
      /\ serving'.pc = "idle" /\ Loaded' /\ ServingTells'
  BY <1>1, Answering DEF KitInv
<1>3. ChildTells' /\ child'.pc = "none"
  BY <1>1, NoChildFields DEF ChildTells
<1>4. child' = [pc |-> child'.pc, words |-> child'.words, inv |-> child'.inv,
                todo |-> child'.todo, exit |-> child'.exit]
  BY <1>1, NoChildFields
<1>. QED
  BY <1>1, <1>2, <1>3, <1>4, NothingDone DEF Loaded, InUse

\* A step of the child that does nothing, on a machine or on the logs.
LEMMA ChildMoves ==
    ASSUME KitInv, serving.pc = "child", Kit!ChildOnly, done' = done,
           InUse' => InUse /\ child'.inv = child.inv,
           child' = [pc |-> child'.pc, words |-> child'.words, inv |-> child'.inv,
                     todo |-> child'.todo, exit |-> child'.exit],
           ChildTells'
    PROVE  KitInv'
<1>1. UNCHANGED <<file, copy, known, asked, answers, serving>>
  BY DEF Kit!ChildOnly
<1>2. ServingTells'
  BY <1>1 DEF ServingTells
<1>. QED
  BY <1>1, <1>2, NothingDone DEF KitInv, KitTyped, Loaded, InUse

LEMMA ChildExits ==
    ASSUME KitInv, serving.pc = "child", Kit!ChildOnly, done' = done, NEW code, Kit!Exits(code)
    PROVE  KitInv'
<1>1. child' = [pc |-> "exited", words |-> child.words, inv |-> child.inv,
                todo |-> child.todo, exit |-> code]
  BY DEF KitInv, KitTyped, Kit!Exits
<1>2. ChildTells' /\ ~InUse'
  BY <1>1 DEF ChildTells, InUse
<1>. QED
  BY <1>1, <1>2, ChildMoves

LEMMA ChildPlans ==
    ASSUME KitInv, serving.pc = "child", child.pc = "run", Kit!ChildOnly, done' = done,
           NEW q, Kit!Plans(q), q \in Seq(Range(q)),
           \A e \in Range(q) :
              IsEffect(e) /\ (e.kind \in {"command", "step"} => FromView(child.inv, e))
    PROVE  KitInv'
<1>1. child' = [pc |-> "work", words |-> child.words, inv |-> child.inv, todo |-> q,
                exit |-> child.exit]
  BY DEF KitInv, KitTyped, Kit!Plans
<1>2. ChildTells'
  BY <1>1 DEF ChildTells, FromView, Kit!Target, IsEffect
<1>3. InUse
  BY DEF InUse
<1>. QED
  BY <1>1, <1>2, <1>3, ChildMoves

LEMMA ChildLoadsKeeps == KitInv /\ Kit!ChildLoads => KitInv'
<1>. SUFFICES ASSUME KitInv, Kit!ChildLoads PROVE KitInv'
  OBVIOUS
<1>1. /\ serving.pc = "child" /\ child.pc = "load" /\ done' = done
      /\ UNCHANGED <<file, copy, known, asked, answers, serving>>
      /\ child' = [child EXCEPT !.inv = file, !.pc = IF file.ok THEN "run" ELSE "exited",
                                !.exit = IF file.ok THEN 0 ELSE 1]
  BY DEF Kit!ChildLoads, Kit!InChild, Kit!ChildOnly
<1>2. /\ child' = [pc |-> child'.pc, words |-> child.words, inv |-> file,
                   todo |-> child.todo, exit |-> child'.exit]
      /\ child'.pc = (IF file.ok THEN "run" ELSE "exited") /\ child'.inv = file
  BY <1>1 DEF KitInv, KitTyped
<1>3. InUse' => file.ok
  BY <1>2 DEF InUse
<1>4. KitTyped'
  <2>1. file.stamp \in Nat /\ DOMAIN file.hosts \subseteq Aliases
    BY DEF KitInv, KitTyped, Kit!Inventories
  <2>. QED
    BY <1>1, <1>2, <2>1 DEF KitInv, KitTyped, InUse
<1>5. ViewsTell'
  BY <1>1, <1>2, <1>3 DEF KitInv, ViewsTell, Alike, Loaded
<1>6. ServingTells' /\ ChildTells'
  BY <1>1, <1>2 DEF ServingTells, ChildTells
<1>7. \A e \in Range(done) : EffectTells(e)'
  BY <1>1, <1>2, <1>3 DEF KitInv, EffectTells, Agrees, Kit!Target, Loaded
<1>. QED
  BY <1>1, <1>4, <1>5, <1>6, <1>7 DEF KitInv

LEMMA OneEffect ==
    ASSUME NEW e PROVE Range(<<e>>) = {e} /\ <<e>> \in Seq(Range(<<e>>))
<1>1. Range(<<e>>) = {e}
  BY DEF Range
<1>. QED
  BY <1>1

LEMMA PlansExecKeeps == KitInv /\ Kit!PlansExec => KitInv'
<1>. SUFFICES ASSUME KitInv, Kit!PlansExec PROVE KitInv'
  OBVIOUS
<1>. DEFINE args == Tail(child.words)
            opts == SubSeq(args, 2, Kit!Separator(args) - 1)
            p == Kit!ParseFlags(opts, {"--sudo"}, {"--su"})
            sudo == Kit!Given(opts, p, "--sudo")
            su == Kit!Value(opts, p, "--su", "")
            as == IF sudo THEN "root" ELSE IF su # "" THEN su ELSE "login"
            effect == Kit!Effect("command", args[1], Kit!Target(child.inv, args[1]), as,
                                 child.inv.stamp, 0)
<1>1. /\ serving.pc = "child" /\ child.pc = "run" /\ Kit!ChildOnly /\ done' = done
      /\ IF ~p.ok \/ (sudo /\ su # "") THEN Kit!Exits(2) ELSE Kit!Plans(<<effect>>)
  BY DEF Kit!PlansExec, Kit!InChild
<1>2. IsEffect(effect) /\ FromView(child.inv, effect)
  BY DEF IsEffect, FromView, Kit!Effect
<1>. HIDE DEF p, sudo, su, effect
<1>3. PICK e : e = effect
  OBVIOUS
<1>4. CASE Kit!Exits(2)
  BY <1>1, <1>4, ChildExits
<1>5. CASE Kit!Plans(<<e>>)
  <2>1. PICK q : q = <<e>>
    OBVIOUS
  <2>2. Range(q) = {e} /\ q \in Seq(Range(q))
    BY <2>1, OneEffect
  <2>3. \A d \in Range(q) : IsEffect(d) /\ FromView(child.inv, d)
    BY <1>2, <1>3, <2>2
  <2>. QED
    BY <1>1, <1>5, <2>1, <2>2, <2>3, ChildPlans
<1>. QED
  BY <1>1, <1>3, <1>4, <1>5

LEMMA PlansPlaybookKeeps ==
    Kit!ToolsAssumption /\ KitInv /\ Kit!PlansPlaybook => KitInv'
<1>. SUFFICES ASSUME Kit!ToolsAssumption, KitInv, Kit!PlansPlaybook PROVE KitInv'
  OBVIOUS
<1>1. PICK q : q = [i \in DOMAIN BookHosts |->
                      Kit!Effect("step", BookHosts[i], Kit!Target(child.inv, BookHosts[i]),
                                 "login", child.inv.stamp, 0)]
  OBVIOUS
<1>2. /\ serving.pc = "child" /\ child.pc = "run" /\ Kit!ChildOnly /\ done' = done
      /\ Kit!Exits(0) \/ Kit!Exits(1) \/ Kit!Exits(2) \/ Kit!Plans(q)
  BY <1>1 DEF Kit!PlansPlaybook, Kit!InChild
<1>3. DOMAIN BookHosts = 1..Len(BookHosts) /\ Len(BookHosts) \in Nat
  BY DEF Kit!ToolsAssumption, Kit!Range
<1>4. q \in Seq(Range(q))
  <2>1. q \in [1..Len(BookHosts) -> Range(q)]
    BY <1>1, <1>3 DEF Range
  <2>. QED
    BY <1>3, <2>1
<1>5. \A i \in DOMAIN q : IsEffect(q[i]) /\ FromView(child.inv, q[i])
  BY <1>1 DEF IsEffect, FromView, Kit!Effect
<1>6. \A e \in Range(q) : IsEffect(e) /\ FromView(child.inv, e)
  BY <1>5 DEF Range
<1>. QED
  BY <1>2, <1>4, <1>6, ChildExits, ChildPlans

LEMMA PlansRotationKeeps == KitInv /\ Kit!PlansRotation => KitInv'
<1>. SUFFICES ASSUME KitInv, Kit!PlansRotation PROVE KitInv'
  OBVIOUS
<1>. DEFINE args == SubSeq(child.words, 3, Len(child.words))
            p == Kit!ParseFlags(args, {}, {"--max-age", "--delete-age"})
            delete == Kit!Value(args, p, "--delete-age", "365")
            first == Kit!Effect("compress", "", "", Kit!Value(args, p, "--max-age", "30"), 0, 0)
            second == Kit!Effect("delete", "", "", delete, 0, 0)
            rest == IF delete = "0" THEN << >> ELSE <<second>>
<1>1. /\ serving.pc = "child" /\ child.pc = "run" /\ Kit!ChildOnly /\ done' = done
      /\ Kit!Exits(2) \/ Kit!Plans(<<first>> \o rest)
  BY DEF Kit!PlansRotation, Kit!InChild
<1>2. /\ IsEffect(first) /\ first.kind = "compress"
      /\ IsEffect(second) /\ second.kind = "delete"
  BY DEF IsEffect, Kit!Effect
<1>. HIDE DEF p, delete, first, second
<1>3. PICK q : q = <<first>> \o rest
  OBVIOUS
<1>4. q \in Seq({first, second})
  <2>1. \A x, y : <<x>> \in Seq({x, y}) /\ << >> \in Seq({x, y}) /\ <<y>> \in Seq({x, y})
    OBVIOUS
  <2>2. <<first>> \in Seq({first, second})
    BY <2>1
  <2>3. rest \in Seq({first, second})
    <3>1. rest = << >> \/ rest = <<second>>
      OBVIOUS
    <3>. QED
      BY <2>1, <3>1
  <2>. QED
    BY <1>3, <2>2, <2>3, ConcatProperties
<1>5. q \in Seq(Range(q)) /\ Range(q) \subseteq {first, second}
  <2>1. q \in [1..Len(q) -> {first, second}] /\ Len(q) \in Nat
    BY <1>4
  <2>2. Range(q) \subseteq {first, second} /\ q \in [1..Len(q) -> Range(q)]
    BY <2>1 DEF Range
  <2>. QED
    BY <2>1, <2>2
<1>6. \A e \in Range(q) : IsEffect(e) /\ e.kind \notin {"command", "step"}
  BY <1>2, <1>5
<1>. QED
  BY <1>1, <1>3, <1>5, <1>6, ChildExits, ChildPlans

LEMMA PlansHealthKeeps ==
    Kit!ToolsAssumption /\ KitInv /\ Kit!PlansHealth => KitInv'
<1>. SUFFICES ASSUME Kit!ToolsAssumption, KitInv, Kit!PlansHealth PROVE KitInv'
  OBVIOUS
<1>0. serving.pc = "child" /\ child.pc = "run" /\ Kit!ChildOnly /\ done' = done
  BY DEF Kit!PlansHealth, Kit!InChild
<1>1. CASE Kit!Exits(1)
  BY <1>0, <1>1, ChildExits
<1>2. CASE ~Kit!Exits(1)
  <2>1. PICK order \in Kit!Bijection(1..Kit!Cardinality(DOMAIN child.inv.hosts),
                                    DOMAIN child.inv.hosts) :
           Kit!Plans([i \in DOMAIN order |-> Kit!Effect("probe", order[i], "", "login", 0, 0)])
    BY <1>2 DEF Kit!PlansHealth
  <2>2. PICK q : q = [i \in DOMAIN order |-> Kit!Effect("probe", order[i], "", "login", 0, 0)]
    OBVIOUS
  <2>3. PICK n \in Nat : DOMAIN order = 1..n
    <3>1. IsFiniteSet(Aliases)
      BY DEF Kit!ToolsAssumption, Kit!IsFiniteSet, IsFiniteSet
    <3>2. DOMAIN child.inv.hosts \in SUBSET Aliases
      BY <1>0 DEF KitInv, KitTyped, InUse
    <3>3. Cardinality(DOMAIN child.inv.hosts) \in Nat
      BY <3>1, <3>2, FS_Subset, FS_CardinalityType
    <3>4. DOMAIN order = 1..Kit!Cardinality(DOMAIN child.inv.hosts)
      BY DEF Kit!Bijection, Kit!Injection
    <3>5. Kit!Cardinality(DOMAIN child.inv.hosts) = Cardinality(DOMAIN child.inv.hosts)
      BY DEF Kit!Cardinality, Cardinality
    <3>. QED
      BY <3>3, <3>4, <3>5
  <2>4. q \in Seq(Range(q))
    <3>1. q \in [1..n -> Range(q)]
      BY <2>2, <2>3 DEF Range
    <3>. QED
      BY <3>1
  <2>5. \A i \in DOMAIN q : IsEffect(q[i]) /\ q[i].kind = "probe"
    BY <2>2 DEF IsEffect, Kit!Effect
  <2>6. \A e \in Range(q) : IsEffect(e) /\ e.kind \notin {"command", "step"}
    BY <2>5 DEF Range
  <2>. QED
    BY <1>0, <2>1, <2>2, <2>4, <2>6, ChildPlans
<1>. QED
  BY <1>1, <1>2

LEMMA ExitsOnlyKeeps ==
    ASSUME KitInv, Kit!FailsTransfer \/ Kit!ReadsOnly PROVE KitInv'
<1>1. /\ serving.pc = "child" /\ Kit!ChildOnly /\ done' = done
      /\ Kit!Exits(0) \/ Kit!Exits(1)
  BY DEF Kit!FailsTransfer, Kit!ReadsOnly, Kit!InChild
<1>. QED
  BY <1>1, ChildExits

LEMMA ReloadsKeeps == KitInv /\ Kit!Reloads => KitInv'
<1>. SUFFICES ASSUME KitInv, Kit!Reloads PROVE KitInv'
  OBVIOUS
<1>1. /\ serving.pc = "child" /\ Kit!ChildOnly /\ done' = done
      /\ child' = [child EXCEPT !.pc = "exited", !.inv = IF file.ok THEN file ELSE @,
                                !.exit = IF file.ok THEN 0 ELSE 1]
  BY DEF Kit!Reloads, Kit!InChild
<1>2. /\ child' = [pc |-> "exited", words |-> child.words, inv |-> child'.inv,
                   todo |-> child.todo, exit |-> child'.exit]
  BY <1>1 DEF KitInv, KitTyped
<1>3. child'.pc = "exited"
  BY <1>2
<1>4. ChildTells' /\ ~InUse'
  BY <1>3 DEF ChildTells, InUse
<1>. QED
  BY <1>1, <1>2, <1>3, <1>4, ChildMoves

\* The first effect that is to be had, and the rest once it is done with.
LEMMA AtWork ==
    ASSUME KitInv, NEW kinds, Kit!Doing(kinds)
    PROVE  /\ serving.pc = "child" /\ child.pc = "work" /\ InUse /\ Loaded
           /\ IsEffect(Head(child.todo)) /\ Head(child.todo).kind \in kinds
           /\ (Head(child.todo).kind \in {"command", "step"} =>
                  FromView(child.inv, Head(child.todo)))
           /\ Tail(child.todo) \in Seq(Range(Tail(child.todo)))
           /\ \A e \in Range(Tail(child.todo)) :
                 IsEffect(e) /\ (e.kind \in {"command", "step"} => FromView(child.inv, e))
<1>1. /\ serving.pc = "child" /\ child.pc = "work" /\ child.todo # << >>
      /\ Head(child.todo).kind \in kinds
  BY DEF Kit!Doing, Kit!InChild
<1>2. /\ child.todo \in Seq(Range(child.todo))
      /\ \A e \in Range(child.todo) :
            IsEffect(e) /\ (e.kind \in {"command", "step"} => FromView(child.inv, e))
  BY <1>1 DEF KitInv, ChildTells
<1>3. /\ Head(child.todo) \in Range(child.todo)
      /\ Tail(child.todo) \in Seq(Range(Tail(child.todo)))
      /\ Range(Tail(child.todo)) \subseteq Range(child.todo)
  BY <1>1, <1>2, OneLess
<1>. QED
  BY <1>1, <1>2, <1>3 DEF InUse, Loaded

\* The child goes on with the rest, or ends.
LEMMA GoesOnOrEnds ==
    ASSUME KitInv, NEW kinds, Kit!Doing(kinds), NEW code,
           \/ Kit!GoesOn \/ Kit!Exits(code)
           \/ child' = [child EXCEPT !.todo = Tail(@), !.exit = code]
    PROVE  /\ child' = [pc |-> child'.pc, words |-> child'.words, inv |-> child'.inv,
                        todo |-> child'.todo, exit |-> child'.exit]
           /\ InUse' => InUse /\ child'.inv = child.inv
           /\ ChildTells'
<1>0. child = [pc |-> child.pc, words |-> child.words, inv |-> child.inv, todo |-> child.todo,
               exit |-> child.exit]
  BY DEF KitInv, KitTyped
<1>1. CASE Kit!Exits(code)
  <2>1. child' = [pc |-> "exited", words |-> child.words, inv |-> child.inv,
                  todo |-> child.todo, exit |-> code]
    BY <1>0, <1>1 DEF Kit!Exits
  <2>. QED
    BY <2>1 DEF ChildTells, InUse
<1>2. CASE ~Kit!Exits(code)
  <2>1. PICK x : child' = [pc |-> child.pc, words |-> child.words, inv |-> child.inv,
                           todo |-> Tail(child.todo), exit |-> x]
    BY <1>0, <1>2 DEF Kit!GoesOn
  <2>2. /\ child.pc = "work" /\ InUse /\ Tail(child.todo) \in Seq(Range(Tail(child.todo)))
        /\ \A e \in Range(Tail(child.todo)) :
              IsEffect(e) /\ (e.kind \in {"command", "step"} => FromView(child.inv, e))
    BY AtWork
  <2>. QED
    BY <2>1, <2>2 DEF ChildTells, FromView, Kit!Target, IsEffect
<1>. QED
  BY <1>1, <1>2

LEMMA AcceptsKeyKeeps == KitInv /\ Kit!AcceptsKey => KitInv'
<1>. SUFFICES ASSUME KitInv, Kit!AcceptsKey PROVE KitInv'
  OBVIOUS
<1>1. /\ Kit!Doing({"command"}) /\ UNCHANGED <<file, copy, asked, answers, serving, done>>
      /\ UNCHANGED child \/ Kit!Exits(1)
  BY DEF Kit!AcceptsKey
<1>2. serving.pc = "child" /\ Loaded
  BY <1>1, AtWork
<1>3. /\ child' = [pc |-> child'.pc, words |-> child'.words, inv |-> child'.inv,
                   todo |-> child'.todo, exit |-> child'.exit]
      /\ InUse' => InUse /\ child'.inv = child.inv
      /\ ChildTells'
  <2>1. CASE Kit!Exits(1)
    BY <1>1, <2>1, GoesOnOrEnds
  <2>2. CASE UNCHANGED child
    BY <2>2 DEF KitInv, KitTyped, ChildTells, InUse, FromView, Kit!Target, IsEffect
  <2>. QED
    BY <1>1, <2>1, <2>2
<1>4. ServingTells'
  BY <1>1, <1>2 DEF ServingTells
<1>. QED
  BY <1>1, <1>2, <1>3, <1>4, NothingDone DEF Loaded, KitInv, KitTyped

LEMMA ChildSshEndsKeeps == KitInv /\ Kit!ChildSshEnds => KitInv'
<1>. SUFFICES ASSUME KitInv, Kit!ChildSshEnds PROVE KitInv'
  OBVIOUS
<1>1. Kit!Doing({"command", "step"}) /\ Kit!ChildOnly
  BY DEF Kit!ChildSshEnds
<1>2. /\ serving.pc = "child" /\ Loaded /\ InUse
      /\ UNCHANGED <<file, copy, known, asked, answers, serving>>
  BY <1>1, AtWork DEF Kit!ChildOnly
<1>3. CASE Kit!Exits(1) /\ UNCHANGED done
  BY <1>1, <1>2, <1>3, ChildExits
<1>4. CASE \E code \in {0, 1} : /\ Kit!Runs(Head(child.todo), code)
                                /\ IF code = 0 THEN Kit!GoesOn ELSE Kit!Exits(1)
  <2>1. PICK code \in {0, 1} :
           /\ done' = Append(done, [Head(child.todo) EXCEPT !.code = code])
           /\ Kit!GoesOn \/ Kit!Exits(1)
    BY <1>4 DEF Kit!Runs
  <2>2. PICK d : d = Head(child.todo)
    OBVIOUS
  <2>3. IsEffect(d) /\ FromView(child.inv, d)
    BY <1>1, <2>2, AtWork
  <2>4. PICK e : e = [d EXCEPT !.code = code]
    OBVIOUS
  <2>5. IsEffect(e) /\ e.machine = d.machine /\ e.host = d.host /\ e.stamp = d.stamp
    BY <2>3, <2>4, WithCode
  <2>6. FromView(child.inv, e)
    BY <2>3, <2>5 DEF FromView
  <2>7. EffectTells(e)
    BY <1>2, <2>5, <2>6, FromChild
  <2>8. done' = Append(done, e)
    BY <2>1, <2>2, <2>4
  <2>9. /\ child' = [pc |-> child'.pc, words |-> child'.words, inv |-> child'.inv,
                     todo |-> child'.todo, exit |-> child'.exit]
        /\ InUse' => InUse /\ child'.inv = child.inv
        /\ ChildTells'
    BY <1>1, <2>1, GoesOnOrEnds
  <2>10. ServingTells'
    BY <1>2 DEF ServingTells
  <2>. QED
    BY <1>2, <2>7, <2>8, <2>9, <2>10, OneDone DEF Loaded, KitInv, KitTyped
<1>. QED
  BY <1>3, <1>4 DEF Kit!ChildSshEnds

LEMMA ProbesKeeps == KitInv /\ Kit!Probes => KitInv'
<1>. SUFFICES ASSUME KitInv, Kit!Probes PROVE KitInv'
  OBVIOUS
<1>1. Kit!Doing({"probe"}) /\ UNCHANGED <<file, copy, asked, answers, serving>>
  BY DEF Kit!Probes
<1>2. serving.pc = "child" /\ Loaded /\ InUse
  BY <1>1, AtWork
<1>3. PICK d : d = Head(child.todo)
  OBVIOUS
<1>4. IsEffect(d)
  BY <1>1, <1>3, AtWork
<1>5. ServingTells'
  BY <1>1, <1>2 DEF ServingTells
<1>6. PICK worst \in {child.exit, 1} :
         /\ child' = [child EXCEPT !.todo = Tail(@), !.exit = worst]
         /\ \/ /\ file.ok
               /\ done' = Append(done, [d EXCEPT !.machine = Kit!Target(file, d.host),
                                                 !.stamp = file.stamp])
            \/ UNCHANGED done
  BY <1>3 DEF Kit!Probes
<1>7. /\ child' = [pc |-> child'.pc, words |-> child'.words, inv |-> child'.inv,
                   todo |-> child'.todo, exit |-> child'.exit]
      /\ InUse' => InUse /\ child'.inv = child.inv
      /\ ChildTells'
  BY <1>1, <1>6, GoesOnOrEnds
<1>8. CASE UNCHANGED done
  BY <1>1, <1>2, <1>5, <1>7, <1>8, NothingDone DEF Loaded, KitInv, KitTyped
<1>9. CASE ~UNCHANGED done
  <2>1. PICK e : e = [d EXCEPT !.machine = Kit!Target(file, d.host), !.stamp = file.stamp]
    OBVIOUS
  <2>2. /\ e = [n |-> d.n, kind |-> d.kind, host |-> d.host,
                machine |-> Kit!Target(file, d.host), as |-> d.as, stamp |-> file.stamp,
                code |-> d.code]
    BY <1>4, <2>1 DEF IsEffect
  <2>3. IsEffect(e) /\ FromView(file, e)
    BY <2>2 DEF IsEffect, FromView
  <2>4. file.ok /\ done' = Append(done, e)
    BY <1>6, <1>9, <2>1
  <2>5. EffectTells(e)
    BY <1>2, <2>3, <2>4, FromFile
  <2>. QED
    BY <1>1, <1>2, <1>5, <1>7, <2>4, <2>5, OneDone DEF Loaded, KitInv, KitTyped
<1>. QED
  BY <1>8, <1>9

LEMMA RotatesKeeps == KitInv /\ Kit!Rotates => KitInv'
<1>. SUFFICES ASSUME KitInv, Kit!Rotates PROVE KitInv'
  OBVIOUS
<1>1. Kit!Doing({"compress", "delete"}) /\ Kit!ChildOnly
  BY DEF Kit!Rotates
<1>2. /\ serving.pc = "child" /\ Loaded /\ InUse
      /\ UNCHANGED <<file, copy, known, asked, answers, serving>>
  BY <1>1, AtWork DEF Kit!ChildOnly
<1>3. PICK e : e = Head(child.todo)
  OBVIOUS
<1>4. e.kind \in {"compress", "delete"}
  BY <1>1, <1>3, AtWork
<1>5. /\ Kit!GoesOn \/ Kit!Exits(1)
      /\ UNCHANGED done \/ done' = Append(done, e)
  BY <1>3 DEF Kit!Rotates
<1>6. ServingTells'
  BY <1>2 DEF ServingTells
<1>7. /\ child' = [pc |-> child'.pc, words |-> child'.words, inv |-> child'.inv,
                   todo |-> child'.todo, exit |-> child'.exit]
      /\ InUse' => InUse /\ child'.inv = child.inv
      /\ ChildTells'
  BY <1>1, <1>5, GoesOnOrEnds
<1>8. EffectTells(e)
  BY <1>4 DEF EffectTells, Kit!Reaches
<1>9. CASE UNCHANGED done
  BY <1>2, <1>6, <1>7, <1>9, NothingDone DEF Loaded, KitInv, KitTyped
<1>10. CASE done' = Append(done, e)
  BY <1>2, <1>6, <1>7, <1>8, <1>10, OneDone DEF Loaded, KitInv, KitTyped
<1>. QED
  BY <1>5, <1>9, <1>10

LEMMA ExitsAtEndKeeps == KitInv /\ Kit!ExitsAtEnd => KitInv'
<1>. SUFFICES ASSUME KitInv, Kit!ExitsAtEnd PROVE KitInv'
  OBVIOUS
<1>1. PICK code : code = child.exit
  OBVIOUS
<1>2. serving.pc = "child" /\ Kit!ChildOnly /\ done' = done /\ Kit!Exits(code)
  BY <1>1 DEF Kit!ExitsAtEnd, Kit!InChild, Kit!Exits
<1>. QED
  BY <1>2, ChildExits

LEMMA ServerActsKeeps == KitInv /\ Kit!ServerActs => KitInv'
<1>. SUFFICES ASSUME KitInv, Kit!ServerActs PROVE KitInv'
  OBVIOUS
<1>1. ASSUME Kit!RefusesCall PROVE KitInv'
  BY <1>1, AnswersKeeps DEF Kit!RefusesCall
<1>2. ASSUME Kit!AnswersItself PROVE KitInv'
  <2>1. PICK error \in {FALSE, Kit!Call.tool = "ssh_audit"} : Kit!Answers(error, copy)
    BY <1>2 DEF Kit!AnswersItself
  <2>. QED
    BY <1>2, <2>1, AnswersKeeps DEF Kit!AnswersItself
<1>. QED
  BY <1>1, <1>2, ServerLoadsKeeps, StartsSshKeeps, ServerSshEndsKeeps, SpawnsKeeps, ReapsKeeps
     DEF Kit!ServerActs

LEMMA KitRests == KitInv /\ UNCHANGED Kit!vars => KitInv'
<1>. SUFFICES ASSUME KitInv, UNCHANGED Kit!vars PROVE KitInv'
  OBVIOUS
<1>1. UNCHANGED <<file, copy, known, asked, answers, serving, child, done>>
  BY DEF Kit!vars
<1>2. KitTyped' /\ ViewsTell'
  BY <1>1 DEF KitInv, KitTyped, ViewsTell, Alike, InUse, Loaded
<1>3. ServingTells' /\ ChildTells'
  BY <1>1 DEF KitInv, ServingTells, ChildTells, FromView, Kit!Target, IsEffect
<1>4. \A e \in Range(done) : EffectTells(e)'
  BY <1>1 DEF KitInv, EffectTells, Agrees, Kit!Target, Kit!Reaches, InUse, Loaded
<1>. QED
  BY <1>1, <1>2, <1>3, <1>4 DEF KitInv

LEMMA KitInductive == Kit!ToolsAssumption /\ Kit!Spec => []KitInv
<1>. SUFFICES ASSUME Kit!ToolsAssumption PROVE Kit!Spec => []KitInv
  OBVIOUS
<1>1. KitInv /\ Kit!ChildActs => KitInv'
  BY ChildLoadsKeeps, PlansExecKeeps, PlansPlaybookKeeps, PlansRotationKeeps, PlansHealthKeeps,
     ExitsOnlyKeeps, ReloadsKeeps, AcceptsKeyKeeps, ChildSshEndsKeeps, ProbesKeeps, RotatesKeeps,
     ExitsAtEndKeeps DEF Kit!ChildActs
<1>2. KitInv /\ [Kit!Next]_(Kit!vars) => KitInv'
  BY <1>1, SavesKeeps, AsksKeeps, ServerActsKeeps, KitRests DEF Kit!Next
<1>. QED
  BY <1>2, KitInit, PTL DEF Kit!Spec

\* Two tools that are given one name reach one machine as long as hosts.toml is of one
\* version, whether the server resolves the name or a child does, in whatever order the
\* calls and the edits come: for any finite set of names, any calls and any playbook.
THEOREM NameMeansOneMachine == Kit!Spec => []SameMachine
<1>. Kit!ToolsAssumption
  BY CommandsAssumption
<1>1. KitInv => Kit!SameMachine
  BY DEF KitInv, EffectTells, Kit!SameMachine, Range
<1>. QED
  BY <1>1, KitInductive, PTL DEF SameMachine

-----------------------------------------------------------------------------
(* Tools: what a call asks for is done *)

\* Induction, for a property that is given as the set of numbers that have it.
LEMMA NatInduct ==
    ASSUME NEW S, 0 \in S, \A n \in Nat : n \in S => n + 1 \in S
    PROVE  Nat \subseteq S
<1>. DEFINE R == OpToRel(<, Nat)
            bad == Nat \ S
<1>. SUFFICES ASSUME bad # {} PROVE FALSE
  OBVIOUS
<1>1. PICK n \in bad : \A m \in bad : ~(<<m, n>> \in R)
  <2>1. bad \subseteq Nat
    OBVIOUS
  <2>. QED
    BY <2>1, NatLessThanWellFounded, WFMin
<1>2. n \in Nat /\ n # 0 /\ n - 1 \in Nat /\ n - 1 < n
  OBVIOUS
<1>3. n - 1 \in S
  BY <1>1, <1>2 DEF OpToRel
<1>4. (n - 1) + 1 \in S
  BY <1>2, <1>3
<1>. QED
  BY <1>2, <1>4


-----------------------------------------------------------------------------
(* Tools: command lines *)

LEMMA WordsAre ==
    ASSUME NEW c
    PROVE  /\ c.tool = "ssh_sudo_exec" =>
                 Kit!Words(c) = IF c.as \in {"", "sudo"} THEN <<"exec", c.host, "--sudo", "--", "cmd">>
                                ELSE <<"exec", c.host, "--su", c.as, "--", "cmd">>
           /\ c.tool = "ssh_playbook_run" =>
                 Kit!Words(c) = IF c.dry THEN <<"playbook", "run", "book", "--dry-run">>
                                ELSE <<"playbook", "run", "book">>
<1>1. ASSUME c.tool = "ssh_sudo_exec"
      PROVE  Kit!Words(c) = IF c.as \in {"", "sudo"} THEN <<"exec", c.host, "--sudo", "--", "cmd">>
                            ELSE <<"exec", c.host, "--su", c.as, "--", "cmd">>
  <2>1. Kit!Words(c) = Kit!SudoWords(c)
    BY <1>1 DEF Kit!Words
  <2>2. <<"exec", c.host, "--sudo", "--", "cmd">> = <<"exec", c.host>> \o <<"--sudo">> \o <<"--", "cmd">>
    OBVIOUS
  <2>3. <<"exec", c.host, "--su", c.as, "--", "cmd">> = <<"exec", c.host>> \o <<"--su", c.as>> \o <<"--", "cmd">>
    OBVIOUS
  <2>. QED
    BY <2>1, <2>2, <2>3 DEF Kit!SudoWords
<1>2. ASSUME c.tool = "ssh_playbook_run"
      PROVE  Kit!Words(c) = IF c.dry THEN <<"playbook", "run", "book", "--dry-run">>
                            ELSE <<"playbook", "run", "book">>
  <2>1. Kit!Words(c) = Kit!PlaybookWords(c)
    BY <1>2 DEF Kit!Words
  <2>2. <<"playbook", "run", "book", "--dry-run">> = <<"playbook", "run", "book">> \o <<"--dry-run">>
    OBVIOUS
  <2>3. <<"playbook", "run", "book">> = <<"playbook", "run", "book">> \o << >>
    OBVIOUS
  <2>. QED
    BY <2>1, <2>2, <2>3 DEF Kit!PlaybookWords
<1>. QED
  BY <1>1, <1>2

\* Go's flag package: where the options end, from each word on.
EndsBy(E, words, bools, valued) ==
    /\ \A i \in 1..(Len(words) + 2) :
          E[i] = IF i > Len(words) \/ words[i] \notin Kit!Dashed THEN i
                 ELSE IF words[i] = "--" THEN i + 1
                 ELSE IF words[i] \in bools THEN E[i + 1]
                 ELSE IF words[i] \in valued /\ i < Len(words) THEN E[i + 2]
                 ELSE 0
    /\ Kit!ParseFlags(words, bools, valued) =
          [ok |-> E[1] # 0,
           flags |-> {i \in 1..(E[1] - 1) : words[i] \in bools \cup valued},
           rest |-> SubSeq(words, E[1], Len(words))]

LEMMA FlagsEnd ==
    ASSUME NEW words, NEW bools, NEW valued, Len(words) \in Nat
    PROVE  \E E : EndsBy(E, words, bools, valued)
<1>. DEFINE L == Len(words)
            Round(e, i) == IF i > L \/ words[i] \notin Kit!Dashed THEN i
                           ELSE IF words[i] = "--" THEN i + 1
                           ELSE IF words[i] \in bools THEN e[i + 1]
                           ELSE IF words[i] \in valued /\ i < L THEN e[i + 2]
                           ELSE 0
            D(k) == {i \in 1..(L + 2) : i > L + 2 - k}
            Exists(k) == \E e : e = [i \in D(k) |-> Round(e, i)]
            S == {k \in Nat : Exists(k)}
<1>1. 0 \in S
  <2>. DEFINE e == [i \in D(0) |-> Round(<< >>, i)]
  <2>1. D(0) = {}
    OBVIOUS
  <2>2. e = [i \in D(0) |-> Round(e, i)]
    <3>. HIDE DEF Round, D
    <3>. QED
      BY <2>1
  <2>. HIDE DEF Round, D, e
  <2>. QED
    BY <2>2
<1>2. ASSUME NEW k \in Nat, k \in S PROVE k + 1 \in S
  <2>1. PICK f : f = [i \in D(k) |-> Round(f, i)]
    BY <1>2
  <2>. DEFINE g == [i \in D(k + 1) |-> IF i \in D(k) THEN f[i] ELSE Round(f, i)]
  <2>2. \A i \in D(k + 1) : i <= L => i + 1 \in D(k) /\ i + 1 \in D(k + 1)
    OBVIOUS
  <2>3. \A i \in D(k + 1) : i < L => i + 2 \in D(k) /\ i + 2 \in D(k + 1)
    OBVIOUS
  <2>4. \A i \in D(k) : i \in D(k + 1)
    OBVIOUS
  <2>5. \A i \in D(k) : g[i] = f[i]
    <3>. HIDE DEF D, Round
    <3>. QED
      BY <2>4
  <2>6. ASSUME NEW i \in D(k + 1) PROVE Round(g, i) = Round(f, i)
    <3>1. i \in Nat
      OBVIOUS
    <3>. HIDE DEF D, g
    <3>2. CASE i <= L
      <4>1. g[i + 1] = f[i + 1] /\ (i < L => g[i + 2] = f[i + 2])
        BY <2>2, <2>3, <2>5, <3>2
      <4>. QED
        BY <4>1
    <3>3. CASE i > L
      BY <3>3
    <3>. QED
      BY <3>1, <3>2, <3>3
  <2>7. \A i \in D(k) : f[i] = Round(f, i)
    <3>. HIDE DEF Round, D
    <3>. QED
      BY <2>1
  <2>8. g = [i \in D(k + 1) |-> Round(g, i)]
    <3>. HIDE DEF Round, D
    <3>. QED
      BY <2>6, <2>7
  <2>. HIDE DEF Round, D, g
  <2>9. Exists(k + 1) /\ k + 1 \in Nat
    BY <2>8
  <2>. QED
    BY <2>9
<1>3. Exists(L + 2)
  <2>1. L + 2 \in Nat
    OBVIOUS
  <2>. HIDE DEF Exists
  <2>. QED
    BY <1>1, <1>2, <2>1, NatInduct
<1>4. D(L + 2) = 1..(L + 2)
  OBVIOUS
<1>. DEFINE F == CHOOSE e : e = [i \in 1..(L + 2) |-> Round(e, i)]
<1>5. F = [i \in 1..(L + 2) |-> Round(F, i)]
  <2>. HIDE DEF Round, D
  <2>. QED
    BY <1>3, <1>4
<1>6. Kit!ParseFlags(words, bools, valued) =
         [ok |-> F[1] # 0,
          flags |-> {i \in 1..(F[1] - 1) : words[i] \in bools \cup valued},
          rest |-> SubSeq(words, F[1], Len(words))]
  BY DEF Kit!ParseFlags
<1>. HIDE DEF F
<1>7. \A i \in 1..(L + 2) : F[i] = Round(F, i)
  <2>. HIDE DEF Round
  <2>. QED
    BY <1>5
<1>. QED
  BY <1>6, <1>7 DEF EndsBy

\* A command line without options, with one that takes no value, with one that takes
\* one, and with two that do.
LEMMA NoFlags ==
    ASSUME NEW words, NEW bools, NEW valued, Len(words) \in Nat, Len(words) > 0,
           words[1] \notin Kit!Dashed
    PROVE  Kit!ParseFlags(words, bools, valued).flags = {}
<1>1. PICK E : EndsBy(E, words, bools, valued)
  BY FlagsEnd
<1>2. 1 \in 1..(Len(words) + 2)
  OBVIOUS
<1>3. E[1] = 1
  BY <1>1, <1>2 DEF EndsBy
<1>4. Kit!ParseFlags(words, bools, valued).flags = {i \in 1..(E[1] - 1) : words[i] \in bools \cup valued}
  BY <1>1 DEF EndsBy
<1>. QED
  BY <1>3, <1>4

LEMMA OneFlag ==
    ASSUME NEW w, NEW bools, NEW valued, w \in Kit!Dashed, w # "--", w \in bools
    PROVE  Kit!ParseFlags(<<w>>, bools, valued).flags = {1}
<1>. DEFINE words == <<w>>
<1>1. Len(words) = 1 /\ words[1] = w
  OBVIOUS
<1>. HIDE DEF words
<1>2. PICK E : EndsBy(E, words, bools, valued)
  BY <1>1, FlagsEnd
<1>3. 1 \in 1..3 /\ 2 \in 1..3 /\ 1 + 1 = 2 /\ ~(1 > 1) /\ 2 > 1 /\ 1 + 2 = 3
  OBVIOUS
<1>4. E[1] = E[2]
  BY <1>1, <1>2, <1>3 DEF EndsBy
<1>5. E[2] = 2
  BY <1>1, <1>2, <1>3 DEF EndsBy
<1>6. E[1] - 1 = 1
  BY <1>4, <1>5
<1>7. Kit!ParseFlags(words, bools, valued).flags = {i \in 1..1 : words[i] \in bools \cup valued}
  BY <1>2, <1>6 DEF EndsBy
<1>8. {i \in 1..1 : words[i] \in bools \cup valued} = {1}
  BY <1>1
<1>. QED
  BY <1>7, <1>8 DEF words

LEMMA OnePair ==
    ASSUME NEW w, NEW x, NEW bools, NEW valued, w \in Kit!Dashed, w # "--", w \notin bools,
           w \in valued, bools \subseteq Kit!Dashed, valued \subseteq Kit!Dashed,
           x \notin Kit!Dashed
    PROVE  Kit!ParseFlags(<<w, x>>, bools, valued).flags = {1}
<1>. DEFINE words == <<w, x>>
<1>1. Len(words) = 2 /\ words[1] = w /\ words[2] = x
  OBVIOUS
<1>. HIDE DEF words
<1>2. PICK E : EndsBy(E, words, bools, valued)
  BY <1>1, FlagsEnd, SMTT(30)
<1>3. 1 \in 1..4 /\ 3 \in 1..4 /\ 1 + 2 = 3 /\ ~(1 > 2) /\ 3 > 2 /\ 1 < 2 /\ 2 + 2 = 4
  OBVIOUS
<1>4. E[1] = E[3]
  BY <1>1, <1>2, <1>3 DEF EndsBy
<1>5. E[3] = 3
  BY <1>1, <1>2, <1>3 DEF EndsBy
<1>6. E[1] - 1 = 2
  BY <1>4, <1>5
<1>7. Kit!ParseFlags(words, bools, valued).flags = {i \in 1..2 : words[i] \in bools \cup valued}
  BY <1>2, <1>6 DEF EndsBy
<1>8. {i \in 1..2 : words[i] \in bools \cup valued} = {1}
  BY <1>1
<1>. QED
  BY <1>7, <1>8 DEF words

LEMMA TwoPairs ==
    ASSUME NEW w, NEW x, NEW v, NEW y, NEW bools, NEW valued, bools = {}, w \in Kit!Dashed, w # "--",
           v \in Kit!Dashed, v # "--", {v, w} \subseteq valued, valued \subseteq Kit!Dashed,
           x \notin Kit!Dashed, y \notin Kit!Dashed
    PROVE  Kit!ParseFlags(<<w, x, v, y>>, bools, valued).flags = {1, 3}
<1>. DEFINE words == <<w, x, v, y>>
<1>1. Len(words) = 4 /\ words[1] = w /\ words[2] = x /\ words[3] = v /\ words[4] = y
  OBVIOUS
<1>. HIDE DEF words
<1>2. PICK E : EndsBy(E, words, bools, valued)
  <2>1. Len(words) \in Nat
    BY <1>1
  <2>. QED
    BY <2>1, FlagsEnd
<1>3. /\ 1 \in 1..6 /\ 3 \in 1..6 /\ 5 \in 1..6 /\ 4 + 2 = 6 /\ 1 + 2 = 3 /\ 3 + 2 = 5
      /\ ~(1 > 4) /\ ~(3 > 4) /\ 5 > 4 /\ 1 < 4 /\ 3 < 4
  OBVIOUS
<1>4. E[1] = E[3]
  BY <1>1, <1>2, <1>3 DEF EndsBy
<1>5. E[3] = E[5]
  BY <1>1, <1>2, <1>3 DEF EndsBy
<1>6. E[5] = 5
  BY <1>1, <1>2, <1>3 DEF EndsBy
<1>7. E[1] - 1 = 4
  BY <1>4, <1>5, <1>6
<1>8. Kit!ParseFlags(words, bools, valued).flags = {i \in 1..4 : words[i] \in bools \cup valued}
  BY <1>2, <1>7, SMTT(30) DEF EndsBy
<1>9. {i \in 1..4 : words[i] \in bools \cup valued} = {1, 3}
  <2>1. 1..4 = {1, 2, 3, 4}
    OBVIOUS
  <2>. QED
    BY <1>1, <2>1
<1>. QED
  BY <1>8, <1>9 DEF words

\* The value of an option, where it is given once or not at all.
LEMMA ValueGiven ==
    ASSUME NEW words, NEW p, NEW f, NEW default, NEW k \in p.flags, words[k] = f,
           \A i \in p.flags : words[i] = f => i = k
    PROVE  Kit!Given(words, p, f) /\ Kit!Value(words, p, f, default) = words[1 + k]
<1>1. Kit!Given(words, p, f)
  BY DEF Kit!Given
<1>2. (CHOOSE i \in p.flags : words[i] = f) = k
  OBVIOUS
<1>. QED
  BY <1>1, <1>2 DEF Kit!Value

LEMMA ValueAbsent ==
    ASSUME NEW words, NEW p, NEW f, NEW default, \A i \in p.flags : words[i] # f
    PROVE  ~Kit!Given(words, p, f) /\ Kit!Value(words, p, f, default) = default
  BY DEF Kit!Given, Kit!Value

\* `exec --sudo` and `exec --su <user>`.
LEMMA SudoFlag ==
    ASSUME NEW words, words = <<"--sudo">>, NEW p,
           p = Kit!ParseFlags(words, {"--sudo"}, {"--su"})
    PROVE  Kit!Given(words, p, "--sudo") /\ Kit!Value(words, p, "--su", "") = ""
<1>1. p.flags = {1}
  BY OneFlag DEF Kit!Dashed
<1>2. words[1] = "--sudo"
  OBVIOUS
<1>3. Kit!Given(words, p, "--sudo")
  BY <1>1, <1>2 DEF Kit!Given
<1>4. \A i \in p.flags : words[i] # "--su"
  BY <1>1, <1>2
<1>5. Kit!Value(words, p, "--su", "") = ""
  BY <1>4 DEF Kit!Value, Kit!Given
<1>. QED
  BY <1>3, <1>5

LEMMA SuFlag ==
    ASSUME NEW as, as \notin Kit!Dashed, NEW words, words = <<"--su", as>>, NEW p,
           p = Kit!ParseFlags(words, {"--sudo"}, {"--su"})
    PROVE  ~Kit!Given(words, p, "--sudo") /\ Kit!Value(words, p, "--su", "") = as
<1>1. p.flags = {1}
  <2>1. PICK b, v : b = {"--sudo"} /\ v = {"--su"}
    OBVIOUS
  <2>2. /\ "--su" \in Kit!Dashed /\ "--su" # "--" /\ "--su" \notin b
        /\ "--su" \in v /\ b \subseteq Kit!Dashed /\ v \subseteq Kit!Dashed
    BY <2>1 DEF Kit!Dashed
  <2>3. Kit!ParseFlags(<<"--su", as>>, b, v).flags = {1}
    BY <2>2, OnePair
  <2>. QED
    BY <2>1, <2>3
<1>2. words[1] = "--su" /\ words[2] = as /\ 1 + 1 = 2
  OBVIOUS
<1>3. ~Kit!Given(words, p, "--sudo")
  BY <1>1, <1>2 DEF Kit!Given
<1>4. 1 \in p.flags /\ \A i \in p.flags : words[i] = "--su" => i = 1
  BY <1>1
<1>5. (CHOOSE i \in p.flags : words[i] = "--su") = 1
  BY <1>2, <1>4
<1>6. Kit!Value(words, p, "--su", "") = words[1 + 1]
  BY <1>2, <1>4, <1>5 DEF Kit!Value, Kit!Given
<1>. QED
  BY <1>2, <1>3, <1>6

\* `audit rotate` with none, one or both of its ages.
MaxFits(args, p, x) == Kit!Value(args, p, "--max-age", "30") = x
DeleteFits(args, p, x) == Kit!Value(args, p, "--delete-age", "365") = x
AgesOf(args) == Kit!ParseFlags(args, {}, {"--max-age", "--delete-age"})

LEMMA NoAge ==
    ASSUME NEW p, p.flags = {}, NEW args
    PROVE  MaxFits(args, p, "30") /\ DeleteFits(args, p, "365")
  BY ValueAbsent DEF MaxFits, DeleteFits

LEMMA MaxAge ==
    ASSUME NEW x, x \notin Kit!Dashed, NEW args, args = <<"--max-age", x>>
    PROVE  MaxFits(args, AgesOf(args), x) /\ DeleteFits(args, AgesOf(args), "365")
<1>. DEFINE p == AgesOf(args)
<1>1. p.flags = {1}
  BY OnePair DEF Kit!Dashed, AgesOf
<1>2. args[1] = "--max-age" /\ args[2] = x /\ 1 + 1 = 2
  OBVIOUS
<1>. HIDE DEF p
<1>3. Kit!Value(args, p, "--max-age", "30") = args[1 + 1]
  BY <1>1, <1>2, ValueGiven
<1>4. \A i \in p.flags : args[i] # "--delete-age"
  BY <1>1, <1>2
<1>5. Kit!Value(args, p, "--delete-age", "365") = "365"
  BY <1>4, ValueAbsent
<1>. QED
  BY <1>2, <1>3, <1>5 DEF p, MaxFits, DeleteFits

LEMMA DeleteAge ==
    ASSUME NEW y, y \notin Kit!Dashed, NEW args, args = <<"--delete-age", y>>
    PROVE  MaxFits(args, AgesOf(args), "30") /\ DeleteFits(args, AgesOf(args), y)
<1>. DEFINE p == AgesOf(args)
<1>1. p.flags = {1}
  BY OnePair DEF Kit!Dashed, AgesOf
<1>2. args[1] = "--delete-age" /\ args[2] = y /\ 1 + 1 = 2
  OBVIOUS
<1>. HIDE DEF p
<1>3. Kit!Value(args, p, "--delete-age", "365") = args[1 + 1]
  BY <1>1, <1>2, ValueGiven
<1>4. \A i \in p.flags : args[i] # "--max-age"
  BY <1>1, <1>2
<1>5. Kit!Value(args, p, "--max-age", "30") = "30"
  BY <1>4, ValueAbsent
<1>. QED
  BY <1>2, <1>3, <1>5 DEF p, MaxFits, DeleteFits

LEMMA BothAges ==
    ASSUME NEW x, x \notin Kit!Dashed, NEW y, y \notin Kit!Dashed, NEW args,
           args = <<"--max-age", x, "--delete-age", y>>
    PROVE  MaxFits(args, AgesOf(args), x) /\ DeleteFits(args, AgesOf(args), y)
<1>. DEFINE p == AgesOf(args)
<1>1. p.flags = {1, 3}
  BY TwoPairs DEF Kit!Dashed, AgesOf
<1>2. /\ args[1] = "--max-age" /\ args[2] = x /\ 1 + 1 = 2
      /\ args[3] = "--delete-age" /\ args[4] = y /\ 1 + 3 = 4
  OBVIOUS
<1>. HIDE DEF p
<1>3. Kit!Value(args, p, "--max-age", "30") = args[1 + 1]
  BY <1>1, <1>2, ValueGiven
<1>4. Kit!Value(args, p, "--delete-age", "365") = args[1 + 3]
  <2>1. 3 \in p.flags /\ \A i \in p.flags : args[i] = "--delete-age" => i = 3
    BY <1>1, <1>2
  <2>2. Kit!Given(args, p, "--delete-age")
    BY <1>2, <2>1 DEF Kit!Given
  <2>3. (CHOOSE i \in p.flags : args[i] = "--delete-age") = 3
    BY <1>2, <2>1
  <2>. QED
    BY <2>2, <2>3 DEF Kit!Value
<1>. QED
  BY <1>2, <1>3, <1>4 DEF p, MaxFits, DeleteFits

\* As whom sudo is to run for a call, and from which age logs are compressed for it: the age
\* it names, but 30 days for the 0 that toolAuditRotate drops.
AsUser(c) == IF c.as \in {"", "sudo"} THEN "root" ELSE c.as
Age(c) == IF c.max = "0" THEN "30" ELSE Kit!Days(c.max, "30")

\* Options of exec, and the user they name.
ExecOptions(args) == SubSeq(args, 2, Kit!Separator(args) - 1)
ExecUser(opts) ==
    LET p == Kit!ParseFlags(opts, {"--sudo"}, {"--su"})
        su == Kit!Value(opts, p, "--su", "") IN
    IF Kit!Given(opts, p, "--sudo") THEN "root" ELSE IF su # "" THEN su ELSE "login"

LEMMA SudoAsks ==
    ASSUME NEW c, c.tool = "ssh_sudo_exec", {c.host, c.as} \cap Kit!Dashed = {}
    PROVE  /\ Kit!Words(c)[1] = "exec" /\ Tail(Kit!Words(c))[1] = c.host
           /\ ExecUser(ExecOptions(Tail(Kit!Words(c)))) = AsUser(c)
<1>0. c.host # "--" /\ c.as \notin Kit!Dashed
  BY DEF Kit!Dashed
<1>1. CASE c.as \in {"", "sudo"}
  <2>. DEFINE args == <<c.host, "--sudo", "--", "cmd">>
  <2>1. Kit!Words(c) = <<"exec", c.host, "--sudo", "--", "cmd">>
    BY <1>1, WordsAre
  <2>2. args = Tail(<<"exec", c.host, "--sudo", "--", "cmd">>)
    OBVIOUS
  <2>3. /\ args[1] = c.host /\ args[2] = "--sudo" /\ args[3] = "--" /\ args[4] = "cmd"
        /\ DOMAIN args = 1..4
    OBVIOUS
  <2>4. <<"--sudo">> = SubSeq(args, 2, 2)
    OBVIOUS
  <2>. HIDE DEF args
  <2>5. Kit!Separator(args) = 3
    <3>1. ASSUME NEW i \in DOMAIN args
          PROVE  args[i] = "--" /\ (\A k \in 1..(i - 1) : args[k] # "--") <=> i = 3
      <4>1. i \in {1, 2, 3, 4}
        BY <2>3
      <4>. QED
        BY <1>0, <2>3, <4>1
    <3>2. 3 \in DOMAIN args
      BY <2>3
    <3>. QED
      BY <3>1, <3>2 DEF Kit!Separator
  <2>6. ExecOptions(args) = <<"--sudo">>
    <3>1. Kit!Separator(args) - 1 = 2
      BY <2>5
    <3>2. ExecOptions(args) = SubSeq(args, 2, 2)
      BY <3>1 DEF ExecOptions
    <3>. QED
      BY <2>4, <3>2
  <2>7. ExecUser(<<"--sudo">>) = "root"
    BY SudoFlag DEF ExecUser
  <2>8. Kit!Words(c)[1] = "exec"
    BY <2>1
  <2>9. Tail(Kit!Words(c)) = args
    BY <2>1, <2>2
  <2>. QED
    BY <1>1, <2>3, <2>6, <2>7, <2>8, <2>9 DEF AsUser
<1>2. CASE c.as \notin {"", "sudo"}
  <2>. DEFINE args == <<c.host, "--su", c.as, "--", "cmd">>
  <2>1. Kit!Words(c) = <<"exec", c.host, "--su", c.as, "--", "cmd">>
    BY <1>2, WordsAre
  <2>2. args = Tail(<<"exec", c.host, "--su", c.as, "--", "cmd">>)
    OBVIOUS
  <2>3. /\ args[1] = c.host /\ args[2] = "--su" /\ args[3] = c.as /\ args[4] = "--"
        /\ DOMAIN args = 1..5
    OBVIOUS
  <2>4. <<"--su", c.as>> = SubSeq(args, 2, 3)
    OBVIOUS
  <2>. HIDE DEF args
  <2>5. Kit!Separator(args) = 4
    <3>0. c.as # "--"
      BY <1>0 DEF Kit!Dashed
    <3>1. ASSUME NEW i \in DOMAIN args
          PROVE  args[i] = "--" /\ (\A k \in 1..(i - 1) : args[k] # "--") <=> i = 4
      <4>1. i \in {1, 2, 3, 4, 5}
        BY <2>3
      <4>2. CASE i = 5
        <5>1. 4 \in 1..(i - 1)
          BY <4>2
        <5>. QED
          BY <2>3, <4>2, <5>1
      <4>3. CASE i = 4
        <5>1. \A k \in 1..(i - 1) : k \in {1, 2, 3}
          BY <4>3
        <5>. QED
          BY <1>0, <2>3, <3>0, <4>3, <5>1
      <4>. QED
        BY <1>0, <2>3, <3>0, <4>1, <4>2, <4>3
    <3>2. 4 \in DOMAIN args
      BY <2>3
    <3>. QED
      BY <3>1, <3>2 DEF Kit!Separator
  <2>6. ExecOptions(args) = <<"--su", c.as>>
    <3>1. Kit!Separator(args) - 1 = 3
      BY <2>5
    <3>2. ExecOptions(args) = SubSeq(args, 2, 3)
      BY <3>1 DEF ExecOptions
    <3>. QED
      BY <2>4, <3>2
  <2>7. ExecUser(<<"--su", c.as>>) = c.as
    <3>1. PICK w : w = <<"--su", c.as>>
      OBVIOUS
    <3>2. PICK p : p = Kit!ParseFlags(w, {"--sudo"}, {"--su"})
      OBVIOUS
    <3>3. ~Kit!Given(w, p, "--sudo") /\ Kit!Value(w, p, "--su", "") = c.as
      BY <1>0, <3>1, <3>2, SuFlag
    <3>. QED
      BY <1>2, <3>1, <3>2, <3>3 DEF ExecUser
  <2>8. Kit!Words(c)[1] = "exec"
    BY <2>1
  <2>9. Tail(Kit!Words(c)) = args
    BY <2>1, <2>2
  <2>. QED
    BY <1>2, <2>3, <2>6, <2>7, <2>8, <2>9 DEF AsUser
<1>. QED
  BY <1>1, <1>2

\* What follows the file of `playbook run` is no option.
LEMMA PlaybookAsks ==
    ASSUME NEW c, c.tool = "ssh_playbook_run", NEW args,
           args = SubSeq(Kit!Words(c), 3, Len(Kit!Words(c)))
    PROVE  ~Kit!Given(args, Kit!ParseFlags(args, {"--dry-run"}, {}), "--dry-run")
<1>1. Len(args) \in Nat /\ Len(args) > 0 /\ args[1] = "book"
  <2>1. CASE c.dry
    <3>1. Kit!Words(c) = <<"playbook", "run", "book", "--dry-run">>
      BY <2>1, WordsAre
    <3>2. <<"book", "--dry-run">> = SubSeq(<<"playbook", "run", "book", "--dry-run">>, 3, 4)
      OBVIOUS
    <3>3. Len(<<"playbook", "run", "book", "--dry-run">>) = 4
      OBVIOUS
    <3>. QED
      BY <3>1, <3>2, <3>3
  <2>2. CASE ~c.dry
    <3>1. Kit!Words(c) = <<"playbook", "run", "book">>
      BY <2>2, WordsAre
    <3>2. <<"book">> = SubSeq(<<"playbook", "run", "book">>, 3, 3)
      OBVIOUS
    <3>3. Len(<<"playbook", "run", "book">>) = 3
      OBVIOUS
    <3>. QED
      BY <3>1, <3>2, <3>3
  <2>. QED
    BY <2>1, <2>2
<1>2. args[1] \notin Kit!Dashed
  BY <1>1 DEF Kit!Dashed
<1>3. Kit!ParseFlags(args, {"--dry-run"}, {}).flags = {}
  BY <1>1, <1>2, NoFlags
<1>. QED
  BY <1>3 DEF Kit!Given

LEMMA RotateArgs ==
    ASSUME NEW c, c.tool = "ssh_audit_rotate"
    PROVE  LET words == Kit!Words(c)
               max == c.max \in {"half", "7"}
               delete == c.delete \in {"0", "half", "7"} IN
           /\ words[1] = "audit" /\ words[2] = "rotate"
           /\ SubSeq(words, 3, Len(words)) =
                 IF max /\ delete
                 THEN <<"--max-age", Kit!Truncated(c.max), "--delete-age", Kit!Truncated(c.delete)>>
                 ELSE IF max THEN <<"--max-age", Kit!Truncated(c.max)>>
                 ELSE IF delete THEN <<"--delete-age", Kit!Truncated(c.delete)>>
                 ELSE << >>
<1>. DEFINE words == Kit!Words(c)
            a == Kit!Truncated(c.max)
            b == Kit!Truncated(c.delete)
            max == c.max \in {"half", "7"}
            delete == c.delete \in {"0", "half", "7"}
<1>1. words = <<"audit", "rotate">> \o (IF max THEN <<"--max-age", a>> ELSE << >>)
              \o (IF delete THEN <<"--delete-age", b>> ELSE << >>)
  <2>1. words = Kit!RotateWords(c)
    BY DEF Kit!Words
  <2>. QED
    BY <2>1 DEF Kit!RotateWords
<1>. HIDE DEF words, a, b
<1>2. CASE max /\ delete
  <2>1. <<"audit", "rotate", "--max-age", a, "--delete-age", b>> = <<"audit", "rotate">> \o <<"--max-age", a>> \o <<"--delete-age", b>>
    OBVIOUS
  <2>2. words = <<"audit", "rotate", "--max-age", a, "--delete-age", b>>
    BY <1>1, <1>2, <2>1
  <2>3. <<"--max-age", a, "--delete-age", b>> = SubSeq(<<"audit", "rotate", "--max-age", a, "--delete-age", b>>, 3, 6)
    OBVIOUS
  <2>4. Len(words) = 6 /\ words[1] = "audit" /\ words[2] = "rotate"
    BY <2>2
  <2>5. SubSeq(words, 3, Len(words)) = <<"--max-age", a, "--delete-age", b>>
    BY <2>2, <2>3, <2>4
  <2>. QED
    BY <1>2, <2>4, <2>5 DEF words, a, b
<1>3. CASE max /\ ~delete
  <2>1. <<"audit", "rotate", "--max-age", a>> = <<"audit", "rotate">> \o <<"--max-age", a>> \o << >>
    OBVIOUS
  <2>2. words = <<"audit", "rotate", "--max-age", a>>
    BY <1>1, <1>3, <2>1
  <2>3. <<"--max-age", a>> = SubSeq(<<"audit", "rotate", "--max-age", a>>, 3, 4)
    OBVIOUS
  <2>4. Len(words) = 4 /\ words[1] = "audit" /\ words[2] = "rotate"
    BY <2>2
  <2>5. SubSeq(words, 3, Len(words)) = <<"--max-age", a>>
    BY <2>2, <2>3, <2>4
  <2>. QED
    BY <1>3, <2>4, <2>5 DEF words, a, b
<1>4. CASE ~max /\ delete
  <2>1. <<"audit", "rotate", "--delete-age", b>> = <<"audit", "rotate">> \o << >> \o <<"--delete-age", b>>
    OBVIOUS
  <2>2. words = <<"audit", "rotate", "--delete-age", b>>
    BY <1>1, <1>4, <2>1
  <2>3. <<"--delete-age", b>> = SubSeq(<<"audit", "rotate", "--delete-age", b>>, 3, 4)
    OBVIOUS
  <2>4. Len(words) = 4 /\ words[1] = "audit" /\ words[2] = "rotate"
    BY <2>2
  <2>5. SubSeq(words, 3, Len(words)) = <<"--delete-age", b>>
    BY <2>2, <2>3, <2>4
  <2>. QED
    BY <1>4, <2>4, <2>5 DEF words, a, b
<1>5. CASE ~max /\ ~delete
  <2>1. <<"audit", "rotate">> = <<"audit", "rotate">> \o << >> \o << >>
    OBVIOUS
  <2>2. words = <<"audit", "rotate">>
    BY <1>1, <1>5, <2>1
  <2>3. << >> = SubSeq(<<"audit", "rotate">>, 3, 2)
    OBVIOUS
  <2>4. Len(words) = 2 /\ words[1] = "audit" /\ words[2] = "rotate"
    BY <2>2
  <2>5. SubSeq(words, 3, Len(words)) = << >>
    BY <2>2, <2>3, <2>4
  <2>. QED
    BY <1>5, <2>4, <2>5 DEF words, a, b
<1>. QED
  BY <1>2, <1>3, <1>4, <1>5

LEMMA RotationAsks ==
    ASSUME NEW c, c \in Kit!CallType, c.tool = "ssh_audit_rotate", NEW args,
           args = SubSeq(Kit!Words(c), 3, Len(Kit!Words(c)))
    PROVE  /\ MaxFits(args, AgesOf(args), Age(c))
           /\ DeleteFits(args, AgesOf(args), Kit!Days(c.delete, "365"))
<1>. DEFINE a == Kit!Truncated(c.max)
            b == Kit!Truncated(c.delete)
            max == c.max \in {"half", "7"}
            delete == c.delete \in {"0", "half", "7"}
<1>1. args = IF max /\ delete THEN <<"--max-age", a, "--delete-age", b>>
             ELSE IF max THEN <<"--max-age", a>>
             ELSE IF delete THEN <<"--delete-age", b>>
             ELSE << >>
  BY RotateArgs
<1>2. max => a = Age(c) /\ a \notin Kit!Dashed
  BY DEF Age, Kit!Days, Kit!Truncated, Kit!Dashed
<1>3. ~max => Age(c) = "30"
  BY DEF Age, Kit!Days, Kit!Truncated, Kit!CallType
<1>4. delete => b = Kit!Days(c.delete, "365") /\ b \notin Kit!Dashed
  BY DEF Kit!Days, Kit!Truncated, Kit!Dashed
<1>5. ~delete => Kit!Days(c.delete, "365") = "365"
  BY DEF Kit!Days, Kit!CallType
<1>. HIDE DEF a, b
<1>6. CASE max /\ delete
  BY <1>1, <1>2, <1>4, <1>6, BothAges
<1>7. CASE max /\ ~delete
  BY <1>1, <1>2, <1>5, <1>7, MaxAge
<1>8. CASE ~max /\ delete
  BY <1>1, <1>3, <1>4, <1>8, DeleteAge
<1>9. CASE ~max /\ ~delete
  <2>1. args = << >>
    BY <1>1, <1>9
  <2>2. AgesOf(args).flags = {}
    <3>1. Len(args) = 0 /\ Len(args) \in Nat
      BY <2>1
    <3>2. PICK v : v = {"--max-age", "--delete-age"}
      OBVIOUS
    <3>3. PICK E : EndsBy(E, args, {}, v)
      BY <3>1, FlagsEnd
    <3>4. E[1] = 1
      <4>1. 1 \in 1..(Len(args) + 2) /\ 1 > Len(args)
        BY <3>1
      <4>. QED
        BY <3>3, <4>1 DEF EndsBy
    <3>. QED
      BY <3>2, <3>3, <3>4 DEF EndsBy, AgesOf
  <2>. QED
    BY <1>3, <1>5, <1>9, <2>2, NoAge
<1>. QED
  BY <1>6, <1>7, <1>8, <1>9

\* Tools whose success says that something was done, on a machine or on the logs.
Acting == {"ssh_sudo_exec", "ssh_playbook_run", "ssh_audit_rotate", "ssh_health_check"}

\* Which command the child takes a command line for.
LEMMA FirstWords ==
    ASSUME NEW c, c.tool \in Kit!ChildTools
    PROVE  LET words == Kit!Words(c) IN
           /\ words[1] = "exec" <=> c.tool = "ssh_sudo_exec"
           /\ words[1] = "playbook" /\ words[2] = "run" <=> c.tool = "ssh_playbook_run"
           /\ words[1] = "audit" /\ words[2] = "rotate" <=> c.tool = "ssh_audit_rotate"
           /\ words[1] = "health" <=> c.tool = "ssh_health_check"
           /\ c.tool = "ssh_playbook_run" => words[2] # "check"
           /\ c.tool = "ssh_audit_rotate" => words[2] # "stats"
           /\ c.tool \in Acting => words[1] \in {"exec", "playbook", "audit", "health"}
<1>. DEFINE words == Kit!Words(c)
<1>1. CASE c.tool = "ssh_sudo_exec"
  <2>1. \/ words = <<"exec", c.host, "--sudo", "--", "cmd">>
        \/ words = <<"exec", c.host, "--su", c.as, "--", "cmd">>
    BY <1>1, WordsAre
  <2>. HIDE DEF words
  <2>2. words[1] = "exec"
    BY <2>1
  <2>. QED
    BY <1>1, <2>2 DEF words
<1>2. CASE c.tool = "ssh_playbook_run"
  <2>1. \/ words = <<"playbook", "run", "book", "--dry-run">>
        \/ words = <<"playbook", "run", "book">>
    BY <1>2, WordsAre
  <2>. HIDE DEF words
  <2>2. words[1] = "playbook" /\ words[2] = "run"
    BY <2>1
  <2>. QED
    BY <1>2, <2>2 DEF words
<1>3. CASE c.tool = "ssh_audit_rotate"
  <2>1. words[1] = "audit" /\ words[2] = "rotate"
    BY <1>3, RotateArgs
  <2>. QED
    BY <1>3, <2>1
<1>4. CASE c.tool = "ssh_health_check"
  <2>1. words[1] = "health"
    BY <1>4 DEF Kit!Words
  <2>. QED
    BY <1>4, <2>1
<1>5. CASE c.tool \in {"ssh_playbook_check", "ssh_audit_stats"}
  <2>1. \/ words[1] = "playbook" /\ words[2] = "check"
        \/ words[1] = "audit" /\ words[2] = "stats"
    BY <1>5 DEF Kit!Words
  <2>. QED
    BY <1>5, <2>1 DEF Acting
<1>6. CASE c.tool \notin Acting \cup {"ssh_playbook_check", "ssh_audit_stats"}
  <2>1. words[1] \in {"put", "get", "sync", "hosts", "connections", "keys"}
    BY <1>6 DEF Kit!Words, Kit!ChildTools, Acting
  <2>. QED
    BY <1>6, <2>1 DEF Acting
<1>. QED
  BY <1>1, <1>2, <1>3, <1>4, <1>5, <1>6 DEF Acting

\* Commands that only read, or load the file once more, are none of these tools.
LEMMA ReadersDoNothing ==
    ASSUME NEW c, c.tool \in Acting, NEW words, words = Kit!Words(c)
    PROVE  /\ words[1] # "hosts"
           /\ \A r \in Kit!Readers : ~\A i \in DOMAIN r : words[i] = r[i]
<1>1. c.tool \in Kit!ChildTools
  BY DEF Acting, Kit!ChildTools
<1>2. words[1] \in {"exec", "playbook", "audit", "health"}
  BY <1>1, FirstWords
<1>3. words[1] = "playbook" => words[2] = "run"
  BY <1>1, FirstWords DEF Acting
<1>4. words[1] = "audit" => words[2] = "rotate"
  BY <1>1, FirstWords DEF Acting
<1>5. ASSUME NEW r \in Kit!Readers, \A i \in DOMAIN r : words[i] = r[i] PROVE FALSE
  <2>0. DOMAIN r = 1..Len(r) /\ Len(r) \in {1, 2}
    BY DEF Kit!Readers
  <2>1. r[1] = words[1] /\ (Len(r) = 2 => r[2] = words[2])
    BY <1>5, <2>0
  <2>2. /\ r[1] \in {"connections", "keys", "audit", "hosts", "playbook"}
        /\ r[1] = "audit" => Len(r) = 2 /\ r[2] = "stats"
        /\ r[1] = "playbook" => Len(r) = 2 /\ r[2] = "check"
    BY DEF Kit!Readers
  <2>. QED
    BY <1>2, <1>3, <1>4, <2>1, <2>2
<1>. QED
  BY <1>2, <1>5

\* Among these effects there is one of the nth call on that host, as that user.
Has(D, n, kind, host, as) ==
    \E e \in D : e.n = n /\ e.kind = kind /\ e.host = host /\ e.as = as /\ e.code = 0

\* With these effects all is done that call c, the nth, asked for.
Met(D, n, c, hosts) ==
    /\ c.tool \in Kit!SshTools => Has(D, n, "command", c.host, "login")
    /\ c.tool = "ssh_sudo_exec" => Has(D, n, "command", c.host, AsUser(c))
    /\ c.tool = "ssh_playbook_run" /\ ~c.dry =>
          \A h \in Range(BookHosts) : Has(D, n, "step", h, "login")
    /\ c.tool = "ssh_audit_rotate" => Has(D, n, "compress", "", Age(c))
    /\ c.tool = "ssh_health_check" /\ c.host \in DOMAIN hosts =>
          Has(D, n, "probe", c.host, "login")

\* What is among the effects D is among the effects E, whatever machine it reached.
Covers(D, E) ==
    \A e \in D : \E d \in E : /\ d.n = e.n /\ d.kind = e.kind /\ d.host = e.host
                              /\ d.as = e.as /\ d.code = e.code

\* Logs are deleted from the age that the call named.
DeletesRight(e) ==
    e.kind = "delete" => /\ e.n \in 1..Len(asked)
                         /\ e.as = Kit!Days(asked[e.n].delete, "365") /\ e.as # "0"

Planned(e) ==
    /\ e.n = Kit!N /\ e.code = 0 /\ DeletesRight(e)
    /\ e.kind = "command" => e.machine \in Addresses \cup Aliases
    /\ e.kind = "probe" => e.host \in Aliases

Tools == Kit!SshTools \cup Kit!LocalTools \cup Kit!ChildTools
Answered == serving.pc \in {"start", "idle"}

CallsTyped ==
    /\ asked \in Seq(Calls) /\ answers \in Seq(Range(answers))
    /\ serving.pc \in {"start", "idle", "busy", "ssh", "child"}
    /\ Len(asked) = IF Answered THEN Len(answers) ELSE Len(answers) + 1
    /\ child.pc \in {"none", "load", "run", "work", "exited"} /\ child.exit \in {0, 1, 2}
    /\ known \subseteq Addresses \cup Aliases

AnswersTell ==
    \A n \in 1..Len(answers) :
        ~answers[n].error =>
            asked[n].tool \in Tools /\ Met(Range(done), n, asked[n], answers[n].inv.hosts)

\* What is under way, in the server and in the child.
ServingFits ==
    serving.pc = "ssh" =>
        /\ Kit!Call.tool \in Kit!SshTools
        /\ \E e : /\ serving.todo = <<e>> /\ e.n = Kit!N /\ e.kind = "command"
                  /\ e.host = Kit!Call.host /\ e.as = "login"

ChildFits ==
    serving.pc = "child" =>
        /\ Kit!Call.tool \in Kit!ChildTools /\ ~Kit!Refused(Kit!Call)
        /\ child.words = Kit!Words(Kit!Call)
        /\ child.pc \in {"load", "run"} => child.exit = 0
        /\ InUse => child.inv.hosts \in Kit!Inventories
        /\ child.pc = "work" => \A e \in Range(child.todo) : Planned(e)
        /\ child.pc = "work" /\ child.exit = 0 =>
              Met(Range(done) \cup Range(child.todo), Kit!N, Kit!Call, child.inv.hosts)
        /\ child.pc = "exited" /\ child.exit = 0 =>
              Met(Range(done), Kit!N, Kit!Call, child.inv.hosts)

CallInv ==
    /\ CallsTyped /\ AnswersTell /\ ServingFits /\ ChildFits
    /\ \A e \in Range(done) : DeletesRight(e)

LEMMA MetStays ==
    ASSUME NEW D, NEW E, Covers(D, E), NEW n, NEW c, NEW hosts, Met(D, n, c, hosts)
    PROVE  Met(E, n, c, hosts)
<1>1. ASSUME NEW kind, NEW host, NEW as, Has(D, n, kind, host, as)
      PROVE  Has(E, n, kind, host, as)
  BY <1>1, ZenonT(30) DEF Has, Covers
<1>. QED
  BY <1>1 DEF Met

LEMMA CoversMore ==
    ASSUME NEW D, NEW E PROVE Covers(D, D) /\ Covers(D, D \cup E)
  BY DEF Covers

LEMMA CallInit == Kit!ToolsAssumption /\ Kit!Init => CallInv
<1>. SUFFICES ASSUME Kit!ToolsAssumption, Kit!Init PROVE CallInv
  OBVIOUS
<1>. USE DEF Kit!Init
<1>1. Range(<< >>) = {} /\ << >> \in Seq({}) /\ << >> \in Seq(Calls) /\ Len(<< >>) = 0
  BY DEF Range
<1>2. CallsTyped
  BY <1>1 DEF CallsTyped, Answered, Kit!NoChild
<1>3. AnswersTell /\ ServingFits /\ ChildFits
  BY <1>1 DEF AnswersTell, ServingFits, ChildFits
<1>4. \A e \in Range(done) : DeletesRight(e)
  BY <1>1
<1>. QED
  BY <1>2, <1>3, <1>4 DEF CallInv

\* The call in hand is one of the calls, the last that was asked.
LEMMA CallInHand ==
    ASSUME Kit!ToolsAssumption, CallsTyped, ~Answered
    PROVE  /\ Kit!N \in Nat /\ Kit!N = Len(answers) + 1 /\ Len(answers) \in Nat
           /\ Kit!Call = asked[Kit!N] /\ Kit!Call \in Calls
           /\ Kit!Call \in Kit!CallType /\ {Kit!Call.host, Kit!Call.as} \cap Kit!Dashed = {}
<1>1. Len(answers) \in Nat /\ Len(asked) = Len(answers) + 1
  BY DEF CallsTyped
<1>2. Kit!N = Len(asked) /\ Kit!Call = asked[Len(asked)]
  BY DEF Kit!N, Kit!Call
<1>3. asked[Len(asked)] \in Calls
  BY <1>1 DEF CallsTyped
<1>. QED
  BY <1>1, <1>2, <1>3 DEF Kit!ToolsAssumption

\* What was answered stays true when more is done.
LEMMA AnswersStay ==
    ASSUME CallInv, UNCHANGED <<asked, answers>>, Covers(Range(done), Range(done'))
    PROVE  AnswersTell'
<1>1. ASSUME NEW n \in 1..Len(answers), ~answers[n].error
      PROVE  asked[n].tool \in Tools /\ Met(Range(done'), n, asked[n], answers[n].inv.hosts)
  BY <1>1, MetStays DEF CallInv, AnswersTell
<1>. QED
  BY <1>1 DEF AnswersTell

\* An answer that is right.
LEMMA AnswerFits ==
    ASSUME Kit!ToolsAssumption, CallInv, ~Answered, NEW error, NEW v, Kit!Answers(error, v),
           UNCHANGED <<asked, known>>, Covers(Range(done), Range(done')),
           \A e \in Range(done') : DeletesRight(e),
           ~error => /\ Kit!Call.tool \in Tools
                     /\ Met(Range(done'), Kit!N, Kit!Call, v.hosts),
           child'.pc \in {"none", "load", "run", "work", "exited"}, child'.exit \in {0, 1, 2}
    PROVE  CallInv'
<1>1. /\ answers' = Append(answers, [error |-> error, inv |-> v])
      /\ serving'.pc = "idle" /\ Answered'
  BY DEF Kit!Answers, Answered
<1>2. /\ answers \in Seq(Range(answers)) /\ Len(answers) \in Nat
      /\ Kit!N = Len(answers) + 1 /\ Kit!Call = asked[Kit!N] /\ Len(asked) = Kit!N
  BY CallInHand DEF CallInv, CallsTyped, Kit!N
<1>. DEFINE last == [error |-> error, inv |-> v]
<1>3. /\ answers' \in Seq(Range(answers')) /\ Len(answers') = Len(answers) + 1
      /\ \A n \in 1..Len(answers) : answers'[n] = answers[n]
      /\ answers'[Len(answers) + 1] = last
  <2>. HIDE DEF last
  <2>1. answers' = Append(answers, last)
    BY <1>1 DEF last
  <2>2. answers' \in Seq(Range(answers'))
    BY <1>2, <2>1, OneMore
  <2>. QED
    BY <1>2, <2>1, <2>2, AppendProperties
<1>4. CallsTyped'
  BY <1>1, <1>2, <1>3 DEF CallInv, CallsTyped
<1>5. ASSUME NEW n \in 1..Len(answers'), ~answers'[n].error
      PROVE  asked[n].tool \in Tools /\ Met(Range(done'), n, asked[n], answers'[n].inv.hosts)
  <2>1. CASE n \in 1..Len(answers)
    <3>1. answers'[n] = answers[n]
      BY <1>3, <2>1
    <3>2. asked[n].tool \in Tools /\ Met(Range(done), n, asked[n], answers[n].inv.hosts)
      BY <1>5, <2>1, <3>1 DEF CallInv, AnswersTell
    <3>. QED
      BY <3>1, <3>2, MetStays
  <2>2. CASE n = Len(answers) + 1
    <3>1. ~last.error /\ answers'[n].inv = v
      BY <1>3, <1>5, <2>2
    <3>2. ~error
      BY <3>1
    <3>. QED
      BY <1>2, <2>2, <3>1, <3>2
  <2>. QED
    BY <1>2, <1>3, <2>1, <2>2
<1>6. AnswersTell'
  BY <1>5 DEF AnswersTell
<1>7. ServingFits' /\ ChildFits'
  BY <1>1 DEF ServingFits, ChildFits
<1>8. \A e \in Range(done') : DeletesRight(e)'
  BY DEF DeletesRight
<1>. QED
  BY <1>4, <1>6, <1>7, <1>8 DEF CallInv

LEMMA SavesCalls == CallInv /\ Kit!Saves => CallInv'
<1>. SUFFICES ASSUME CallInv, Kit!Saves PROVE CallInv'
  OBVIOUS
<1>1. UNCHANGED <<copy, known, asked, answers, serving, child, done>>
  BY DEF Kit!Saves
<1>. QED
  BY <1>1 DEF CallInv, CallsTyped, AnswersTell, ServingFits, ChildFits, DeletesRight, Planned,
              Answered, InUse, Kit!N, Kit!Call

LEMMA ServerLoadsCalls == KitInv /\ CallInv /\ Kit!ServerLoads => CallInv'
<1>. SUFFICES ASSUME KitInv, CallInv, Kit!ServerLoads PROVE CallInv'
  OBVIOUS
<1>1. /\ serving.pc = "start" /\ UNCHANGED <<known, asked, answers, child, done>>
      /\ serving' = [pc |-> "idle", todo |-> serving.todo]
  BY DEF Kit!ServerLoads, KitInv, KitTyped
<1>2. CallsTyped'
  BY <1>1 DEF CallInv, CallsTyped, Answered
<1>3. AnswersTell' /\ \A e \in Range(done') : DeletesRight(e)'
  BY <1>1 DEF CallInv, AnswersTell, DeletesRight
<1>4. ServingFits' /\ ChildFits'
  BY <1>1 DEF ServingFits, ChildFits
<1>. QED
  BY <1>1, <1>2, <1>3, <1>4 DEF CallInv

LEMMA AsksCalls ==
    ASSUME Kit!ToolsAssumption, KitInv, CallInv, NEW c \in Calls, Kit!Asks(c) PROVE CallInv'
<1>1. /\ serving.pc = "idle" /\ UNCHANGED <<known, answers, child, done>>
      /\ serving' = [pc |-> "busy", todo |-> serving.todo] /\ asked' = Append(asked, c)
  BY DEF Kit!Asks, KitInv, KitTyped
<1>2. /\ asked \in Seq(Calls) /\ Len(asked) \in Nat /\ Len(answers) = Len(asked)
  BY <1>1 DEF CallInv, CallsTyped, Answered
<1>3. /\ asked' \in Seq(Calls) /\ Len(asked') = Len(asked) + 1
      /\ \A n \in 1..Len(asked) : asked'[n] = asked[n]
  BY <1>1, <1>2, AppendProperties
<1>4. CallsTyped'
  BY <1>1, <1>2, <1>3 DEF CallInv, CallsTyped, Answered
<1>5. AnswersTell'
  <2>1. ASSUME NEW n \in 1..Len(answers), ~answers[n].error
        PROVE  asked'[n].tool \in Tools /\ Met(Range(done), n, asked'[n], answers[n].inv.hosts)
    BY <1>2, <1>3, <2>1 DEF CallInv, AnswersTell
  <2>. QED
    BY <1>1, <2>1 DEF AnswersTell
<1>6. \A e \in Range(done') : DeletesRight(e)'
  <2>1. \A e \in Range(done) : DeletesRight(e)
    BY DEF CallInv
  <2>2. \A n \in 1..Len(asked) : n \in 1..Len(asked')
    BY <1>2, <1>3
  <2>. QED
    BY <1>1, <1>3, <2>1, <2>2 DEF DeletesRight
<1>7. ServingFits' /\ ChildFits'
  BY <1>1 DEF ServingFits, ChildFits
<1>. QED
  BY <1>4, <1>5, <1>6, <1>7 DEF CallInv

LEMMA LocalNeedsNothing ==
    ASSUME NEW c, c.tool \in Kit!LocalTools, NEW D, NEW n, NEW hosts
    PROVE  Met(D, n, c, hosts)
  BY DEF Met, Kit!LocalTools, Kit!SshTools

\* The server answers with nothing done.
LEMMA AnswersAsIs ==
    ASSUME Kit!ToolsAssumption, CallInv, ~Answered, NEW error, Kit!Answers(error, copy),
           UNCHANGED <<asked, known, child, done>>,
           ~error => Kit!Call.tool \in Kit!LocalTools
    PROVE  CallInv'
<1>1. Covers(Range(done), Range(done'))
  BY CoversMore
<1>2. \A e \in Range(done') : DeletesRight(e)
  BY DEF CallInv
<1>3. child'.pc \in {"none", "load", "run", "work", "exited"} /\ child'.exit \in {0, 1, 2}
  BY DEF CallInv, CallsTyped
<1>4. ~error => Kit!Call.tool \in Tools /\ Met(Range(done'), Kit!N, Kit!Call, copy.hosts)
  BY LocalNeedsNothing DEF Tools
<1>. QED
  BY <1>1, <1>2, <1>3, <1>4, AnswerFits

LEMMA AnswersItselfCalls ==
    ASSUME Kit!ToolsAssumption, CallInv, Kit!RefusesCall \/ Kit!AnswersItself PROVE CallInv'
<1>1. /\ ~Answered /\ UNCHANGED <<asked, known, child, done>>
  BY DEF Kit!RefusesCall, Kit!AnswersItself, Answered
<1>2. CASE Kit!RefusesCall
  <2>1. Kit!Answers(TRUE, copy)
    BY <1>2 DEF Kit!RefusesCall
  <2>. QED
    BY <1>1, <2>1, AnswersAsIs
<1>3. CASE Kit!AnswersItself
  <2>1. PICK error \in {FALSE, Kit!Call.tool = "ssh_audit"} : Kit!Answers(error, copy)
    BY <1>3 DEF Kit!AnswersItself
  <2>2. Kit!Call.tool \in Kit!LocalTools
    BY <1>3 DEF Kit!AnswersItself
  <2>. QED
    BY <1>1, <2>1, <2>2, AnswersAsIs
<1>. QED
  BY <1>2, <1>3

\* A step in which nothing is answered, and the server stays where it was or goes on to
\* ssh or to a child.
LEMMA StillAsked ==
    ASSUME CallInv, ~Answered, UNCHANGED <<asked, answers>>,
           serving'.pc \in {"busy", "ssh", "child"},
           known' \subseteq Addresses \cup Aliases,
           Covers(Range(done), Range(done')), \A e \in Range(done') : DeletesRight(e),
           child'.pc \in {"none", "load", "run", "work", "exited"}, child'.exit \in {0, 1, 2},
           ServingFits', ChildFits'
    PROVE  CallInv'
<1>1. CallsTyped'
  BY DEF CallInv, CallsTyped, Answered
<1>2. \A e \in Range(done') : DeletesRight(e)'
  BY DEF DeletesRight
<1>. QED
  BY <1>1, <1>2, AnswersStay DEF CallInv

LEMMA StartsSshCalls == Kit!ToolsAssumption /\ KitInv /\ CallInv /\ Kit!StartsSsh => CallInv'
<1>. SUFFICES ASSUME Kit!ToolsAssumption, KitInv, CallInv, Kit!StartsSsh PROVE CallInv'
  OBVIOUS
<1>1. PICK e : e = Kit!Effect("command", Kit!Call.host, Kit!ServerTarget(copy, Kit!Call.host),
                              "login", copy.stamp, 0)
  OBVIOUS
<1>2. /\ serving.pc = "busy" /\ UNCHANGED <<known, asked, answers, child, done>>
      /\ serving' = [pc |-> "ssh", todo |-> <<e>>] /\ Kit!Call.tool \in Kit!SshTools
  BY <1>1 DEF Kit!StartsSsh
<1>3. e.n = Kit!N /\ e.kind = "command" /\ e.host = Kit!Call.host /\ e.as = "login"
  BY <1>1 DEF Kit!Effect
<1>4. serving'.pc = "ssh" /\ serving'.todo = <<e>>
  BY <1>2
<1>5. ServingFits' /\ ChildFits'
  BY <1>2, <1>3, <1>4 DEF ServingFits, ChildFits, Kit!N, Kit!Call
<1>6. Covers(Range(done), Range(done')) /\ \A d \in Range(done') : DeletesRight(d)
  BY <1>2, CoversMore DEF CallInv
<1>. QED
  BY <1>2, <1>4, <1>5, <1>6, StillAsked DEF CallInv, CallsTyped, Answered

\* One more effect: what had been done stays done, and the new one is.
LEMMA DoneMore ==
    ASSUME KitInv, NEW e, done' = Append(done, e)
    PROVE  /\ Range(done') = Range(done) \cup {e}
           /\ Covers(Range(done), Range(done'))
  BY OneMore DEF KitInv, KitTyped, Covers

LEMMA ServerSshEndsCalls ==
    Kit!ToolsAssumption /\ KitInv /\ CallInv /\ Kit!ServerSshEnds => CallInv'
<1>. SUFFICES ASSUME Kit!ToolsAssumption, KitInv, CallInv, Kit!ServerSshEnds PROVE CallInv'
  OBVIOUS
<1>1. serving.pc = "ssh" /\ UNCHANGED <<known, asked, child>> /\ ~Answered
  BY DEF Kit!ServerSshEnds, Answered
<1>2. CASE Kit!Answers(TRUE, copy) /\ UNCHANGED done
  BY <1>1, <1>2, AnswersAsIs
<1>3. CASE \E code \in {0, 1} : Kit!Runs(Head(serving.todo), code) /\ Kit!Answers(code # 0, copy)
  <2>1. PICK code \in {0, 1} :
           /\ done' = Append(done, [Head(serving.todo) EXCEPT !.code = code])
           /\ Kit!Answers(code # 0, copy)
    BY <1>3 DEF Kit!Runs
  <2>2. PICK d : /\ serving.todo = <<d>> /\ d.n = Kit!N /\ d.kind = "command"
                 /\ d.host = Kit!Call.host /\ d.as = "login"
    BY <1>1 DEF CallInv, ServingFits
  <2>3. Head(serving.todo) = d
    BY <2>2
  <2>4. IsEffect(d)
    BY <1>1, <2>3, OneLess DEF KitInv, ServingTells
  <2>5. PICK e : e = [d EXCEPT !.code = code]
    OBVIOUS
  <2>6. e = [n |-> d.n, kind |-> d.kind, host |-> d.host, machine |-> d.machine, as |-> d.as,
             stamp |-> d.stamp, code |-> code]
    BY <2>4, <2>5 DEF IsEffect
  <2>7. /\ e.n = Kit!N /\ e.kind = "command" /\ e.host = Kit!Call.host /\ e.as = "login"
        /\ e.code = code
    BY <2>2, <2>6
  <2>8. Range(done') = Range(done) \cup {e} /\ Covers(Range(done), Range(done'))
    BY <2>1, <2>3, <2>5, DoneMore
  <2>9. \A x \in Range(done') : DeletesRight(x)
    BY <2>7, <2>8 DEF CallInv, DeletesRight
  <2>10. Kit!Call.tool \in Kit!SshTools
    BY <1>1 DEF CallInv, ServingFits
  <2>11. code = 0 => Kit!Call.tool \in Tools /\ Met(Range(done'), Kit!N, Kit!Call, copy.hosts)
    <3>1. code = 0 => Has(Range(done'), Kit!N, "command", Kit!Call.host, "login")
      BY <2>7, <2>8 DEF Has
    <3>. QED
      BY <2>10, <3>1 DEF Met, Tools, Kit!SshTools
  <2>12. PICK error : error = (code # 0)
    OBVIOUS
  <2>13. Kit!Answers(error, copy) /\ (~error => code = 0)
    BY <2>1, <2>12
  <2>. QED
    BY <1>1, <2>8, <2>9, <2>11, <2>13, AnswerFits DEF CallInv, CallsTyped
<1>. QED
  BY <1>2, <1>3 DEF Kit!ServerSshEnds

LEMMA SpawnsCalls == Kit!ToolsAssumption /\ KitInv /\ CallInv /\ Kit!Spawns => CallInv'
<1>. SUFFICES ASSUME Kit!ToolsAssumption, KitInv, CallInv, Kit!Spawns PROVE CallInv'
  OBVIOUS
<1>1. /\ serving.pc = "busy" /\ UNCHANGED <<known, asked, done>> /\ ~Answered
      /\ Kit!Call.tool \in Kit!ChildTools /\ ~Kit!Refused(Kit!Call)
  BY DEF Kit!Spawns, Answered
<1>2. CASE Kit!Answers(TRUE, copy) /\ UNCHANGED child
  BY <1>1, <1>2, AnswersAsIs
<1>3. CASE ~(Kit!Answers(TRUE, copy) /\ UNCHANGED child)
  <2>1. /\ child' = [pc |-> "load", words |-> Kit!Words(Kit!Call), inv |-> file,
                     todo |-> << >>, exit |-> 0]
        /\ serving' = [pc |-> "child", todo |-> serving.todo] /\ UNCHANGED answers
    BY <1>3 DEF Kit!Spawns, KitInv, KitTyped
  <2>2. /\ child'.pc = "load" /\ child'.words = Kit!Words(Kit!Call) /\ child'.exit = 0
        /\ serving'.pc = "child"
    BY <2>1
  <2>3. Kit!Call' = Kit!Call
    BY <1>1 DEF Kit!Call
  <2>4. ServingFits' /\ ChildFits'
    BY <1>1, <2>2, <2>3 DEF ServingFits, ChildFits, InUse
  <2>5. Covers(Range(done), Range(done')) /\ \A d \in Range(done') : DeletesRight(d)
    BY <1>1, CoversMore DEF CallInv
  <2>. QED
    BY <1>1, <2>1, <2>2, <2>4, <2>5, StillAsked DEF CallInv, CallsTyped
<1>. QED
  BY <1>2, <1>3

LEMMA ReapsCalls == Kit!ToolsAssumption /\ KitInv /\ CallInv /\ Kit!Reaps => CallInv'
<1>. SUFFICES ASSUME Kit!ToolsAssumption, KitInv, CallInv, Kit!Reaps PROVE CallInv'
  OBVIOUS
<1>1. /\ serving.pc = "child" /\ child.pc = "exited" /\ UNCHANGED <<known, asked, done>>
      /\ Kit!Answers(child.exit # 0, child.inv) /\ child' = Kit!NoChild /\ ~Answered
  BY DEF Kit!Reaps, Answered
<1>2. /\ Kit!Call.tool \in Tools
      /\ child.exit = 0 => Met(Range(done), Kit!N, Kit!Call, child.inv.hosts)
  BY <1>1 DEF CallInv, ChildFits, Tools
<1>3. PICK error : error = (child.exit # 0)
  OBVIOUS
<1>4. Kit!Answers(error, child.inv) /\ (~error => child.exit = 0)
  BY <1>1, <1>3
<1>5. child'.pc = "none" /\ child'.exit = 0
  BY <1>1 DEF Kit!NoChild
<1>6. Covers(Range(done), Range(done')) /\ \A d \in Range(done') : DeletesRight(d)
  BY <1>1, CoversMore DEF CallInv
<1>. QED
  BY <1>1, <1>2, <1>4, <1>5, <1>6, AnswerFits

\* A step of the child: it stays the child of the same call.
LEMMA ChildOfCall ==
    ASSUME CallInv, serving.pc = "child", UNCHANGED <<asked, answers, serving>>
    PROVE  /\ ~Answered /\ ~Answered' /\ Kit!N' = Kit!N /\ Kit!Call' = Kit!Call
           /\ Kit!Call.tool \in Kit!ChildTools /\ ~Kit!Refused(Kit!Call)
           /\ child.words = Kit!Words(Kit!Call)
           /\ \A e : DeletesRight(e)' <=> DeletesRight(e)
           /\ \A e : Planned(e)' <=> Planned(e)
           /\ ServingFits' /\ serving'.pc \in {"busy", "ssh", "child"}
  BY DEF CallInv, ChildFits, Answered, Kit!N, Kit!Call, DeletesRight, Planned, ServingFits

LEMMA ChildExitsCalls ==
    ASSUME KitInv, CallInv, serving.pc = "child", Kit!ChildOnly, done' = done,
           NEW code \in {0, 1, 2}, Kit!Exits(code),
           code = 0 => Met(Range(done), Kit!N, Kit!Call, child.inv.hosts)
    PROVE  CallInv'
<1>0. UNCHANGED <<known, asked, answers, serving>>
  BY DEF Kit!ChildOnly
<1>1. child' = [pc |-> "exited", words |-> child.words, inv |-> child.inv,
                todo |-> child.todo, exit |-> code]
  BY DEF KitInv, KitTyped, Kit!Exits
<1>2. child'.pc = "exited" /\ child'.words = child.words /\ child'.inv = child.inv /\ child'.exit = code
  BY <1>1
<1>3. ChildFits'
  BY <1>0, <1>2, ChildOfCall DEF ChildFits, InUse
<1>4. Covers(Range(done), Range(done')) /\ \A d \in Range(done') : DeletesRight(d)
  BY CoversMore DEF CallInv
<1>. QED
  BY <1>0, <1>2, <1>3, <1>4, ChildOfCall, StillAsked DEF CallInv, CallsTyped

LEMMA ChildPlansCalls ==
    ASSUME KitInv, CallInv, serving.pc = "child", child.pc = "run", Kit!ChildOnly, done' = done,
           NEW q, Kit!Plans(q), \A e \in Range(q) : Planned(e),
           Met(Range(done) \cup Range(q), Kit!N, Kit!Call, child.inv.hosts)
    PROVE  CallInv'
<1>0. UNCHANGED <<known, asked, answers, serving>>
  BY DEF Kit!ChildOnly
<1>1. child' = [pc |-> "work", words |-> child.words, inv |-> child.inv, todo |-> q,
                exit |-> child.exit]
  BY DEF KitInv, KitTyped, Kit!Plans
<1>2. /\ child'.pc = "work" /\ child'.words = child.words /\ child'.inv = child.inv
      /\ child'.exit = child.exit /\ child'.todo = q /\ Range(child'.todo) = Range(q)
  BY <1>1
<1>3. child.inv.hosts \in Kit!Inventories /\ child.exit = 0
  BY DEF CallInv, ChildFits, InUse
<1>4. ChildFits'
  BY <1>0, <1>2, <1>3, ChildOfCall DEF ChildFits, InUse
<1>5. Covers(Range(done), Range(done')) /\ \A d \in Range(done') : DeletesRight(d)
  BY CoversMore DEF CallInv
<1>. QED
  BY <1>0, <1>2, <1>3, <1>4, <1>5, ChildOfCall, StillAsked DEF CallInv, CallsTyped

LEMMA ChildLoadsCalls == KitInv /\ CallInv /\ Kit!ChildLoads => CallInv'
<1>. SUFFICES ASSUME KitInv, CallInv, Kit!ChildLoads PROVE CallInv'
  OBVIOUS
<1>1. /\ serving.pc = "child" /\ child.pc = "load" /\ done' = done
      /\ UNCHANGED <<file, copy, known, asked, answers, serving>>
      /\ child' = [child EXCEPT !.inv = file, !.pc = IF file.ok THEN "run" ELSE "exited",
                                !.exit = IF file.ok THEN 0 ELSE 1]
  BY DEF Kit!ChildLoads, Kit!InChild, Kit!ChildOnly
<1>2. /\ child' = [pc |-> IF file.ok THEN "run" ELSE "exited", words |-> child.words, inv |-> file,
                   todo |-> child.todo, exit |-> IF file.ok THEN 0 ELSE 1]
  BY <1>1 DEF KitInv, KitTyped
<1>3. /\ child'.words = child.words /\ child'.inv = file
      /\ \/ child'.pc = "run" /\ child'.exit = 0
         \/ child'.pc = "exited" /\ child'.exit = 1
  BY <1>2
<1>4. file.hosts \in Kit!Inventories
  BY DEF KitInv, KitTyped
<1>5. ChildFits'
  BY <1>1, <1>3, <1>4, ChildOfCall DEF ChildFits, InUse
<1>6. Covers(Range(done), Range(done')) /\ \A d \in Range(done') : DeletesRight(d)
  BY <1>1, CoversMore DEF CallInv
<1>. QED
  BY <1>1, <1>3, <1>5, <1>6, ChildOfCall, StillAsked DEF CallInv, CallsTyped

\* A call that asks for nothing to be done.
LEMMA NotActing ==
    ASSUME NEW c, c.tool \in Kit!ChildTools, c.tool \notin Acting, NEW D, NEW n, NEW hosts
    PROVE  Met(D, n, c, hosts)
  BY DEF Met, Acting, Kit!ChildTools, Kit!SshTools

LEMMA ExitsOnlyCalls ==
    ASSUME KitInv, CallInv, Kit!FailsTransfer \/ Kit!ReadsOnly PROVE CallInv'
<1>1. serving.pc = "child" /\ Kit!ChildOnly /\ done' = done
  BY DEF Kit!FailsTransfer, Kit!ReadsOnly, Kit!InChild
<1>2. /\ Kit!Call.tool \in Kit!ChildTools /\ child.words = Kit!Words(Kit!Call)
  BY <1>1 DEF CallInv, ChildFits
<1>3. CASE Kit!FailsTransfer
  BY <1>1, <1>3, ChildExitsCalls DEF Kit!FailsTransfer
<1>4. CASE Kit!ReadsOnly
  <2>1. PICK r \in Kit!Readers : \A i \in DOMAIN r : child.words[i] = r[i]
    BY <1>4 DEF Kit!ReadsOnly
  <2>2. PICK code \in {0, 1} : Kit!Exits(code)
    BY <1>4 DEF Kit!ReadsOnly
  <2>3. Kit!Call.tool \notin Acting
    BY <1>2, <2>1, ReadersDoNothing
  <2>4. Met(Range(done), Kit!N, Kit!Call, child.inv.hosts)
    BY <1>2, <2>3, NotActing
  <2>. QED
    BY <1>1, <2>2, <2>4, ChildExitsCalls
<1>. QED
  BY <1>3, <1>4

LEMMA ReloadsCalls == KitInv /\ CallInv /\ Kit!Reloads => CallInv'
<1>. SUFFICES ASSUME KitInv, CallInv, Kit!Reloads PROVE CallInv'
  OBVIOUS
<1>1. /\ serving.pc = "child" /\ done' = done /\ child.words[1] = "hosts"
      /\ UNCHANGED <<known, asked, answers, serving>>
      /\ child' = [child EXCEPT !.pc = "exited", !.inv = IF file.ok THEN file ELSE @,
                                !.exit = IF file.ok THEN 0 ELSE 1]
  BY DEF Kit!Reloads, Kit!InChild, Kit!ChildOnly, Kit!Command
<1>2. /\ child' = [pc |-> "exited", words |-> child.words,
                   inv |-> IF file.ok THEN file ELSE child.inv,
                   todo |-> child.todo, exit |-> IF file.ok THEN 0 ELSE 1]
  BY <1>1 DEF KitInv, KitTyped
<1>3. child'.pc = "exited" /\ child'.words = child.words /\ child'.exit \in {0, 1}
  BY <1>2
<1>4. Kit!Call.tool \in Kit!ChildTools /\ child.words = Kit!Words(Kit!Call)
  BY <1>1, ChildOfCall
<1>5. Kit!Call.tool \notin Acting
  BY <1>1, <1>4, ReadersDoNothing
<1>6. Met(Range(done), Kit!N, Kit!Call, child'.inv.hosts)
  BY <1>4, <1>5, NotActing
<1>7. ChildFits'
  BY <1>1, <1>3, <1>6, ChildOfCall DEF ChildFits, InUse
<1>8. Covers(Range(done), Range(done')) /\ \A d \in Range(done') : DeletesRight(d)
  BY <1>1, CoversMore DEF CallInv
<1>. QED
  BY <1>1, <1>3, <1>7, <1>8, ChildOfCall, StillAsked DEF CallInv, CallsTyped

LEMMA PlansExecCalls == Kit!ToolsAssumption /\ KitInv /\ CallInv /\ Kit!PlansExec => CallInv'
<1>. SUFFICES ASSUME Kit!ToolsAssumption, KitInv, CallInv, Kit!PlansExec PROVE CallInv'
  OBVIOUS
<1>. DEFINE args == Tail(child.words)
            opts == ExecOptions(args)
            p == Kit!ParseFlags(opts, {"--sudo"}, {"--su"})
            sudo == Kit!Given(opts, p, "--sudo")
            su == Kit!Value(opts, p, "--su", "")
            as == IF sudo THEN "root" ELSE IF su # "" THEN su ELSE "login"
            effect == Kit!Effect("command", args[1], Kit!Target(child.inv, args[1]), as,
                                 child.inv.stamp, 0)
<1>1. /\ serving.pc = "child" /\ child.pc = "run" /\ Kit!ChildOnly /\ done' = done
      /\ child.words[1] = "exec"
      /\ Kit!Exits(2) \/ Kit!Plans(<<effect>>)
  BY DEF Kit!PlansExec, Kit!InChild, Kit!Command, ExecOptions
<1>2. /\ Kit!Call.tool \in Kit!ChildTools /\ ~Kit!Refused(Kit!Call)
      /\ child.words = Kit!Words(Kit!Call) /\ child.inv.hosts \in Kit!Inventories
  BY <1>1 DEF CallInv, ChildFits, InUse
<1>3. /\ Kit!Call \in Kit!CallType /\ {Kit!Call.host, Kit!Call.as} \cap Kit!Dashed = {}
  BY <1>1, CallInHand DEF CallInv, Answered
<1>4. Kit!Call.tool = "ssh_sudo_exec"
  BY <1>1, <1>2, FirstWords
<1>5. args[1] = Kit!Call.host /\ ExecUser(opts) = AsUser(Kit!Call)
  BY <1>2, <1>3, <1>4, SudoAsks
<1>6. as = AsUser(Kit!Call)
  BY <1>5 DEF ExecUser
<1>7. Kit!Call.host # "" /\ Kit!Call.host \in Aliases \cup Addresses
  BY <1>2, <1>3, <1>4 DEF Kit!Refused, Kit!HostTools, Kit!CallType
<1>. HIDE DEF p, sudo, su, as, opts, args
<1>8. PICK e : e = effect
  OBVIOUS
<1>. HIDE DEF effect
<1>9. /\ e.n = Kit!N /\ e.kind = "command" /\ e.host = Kit!Call.host
      /\ e.machine = Kit!Target(child.inv, Kit!Call.host) /\ e.as = AsUser(Kit!Call) /\ e.code = 0
  BY <1>5, <1>6, <1>8 DEF effect, Kit!Effect
<1>10. e.machine \in Addresses \cup Aliases
  <2>1. PICK A \in SUBSET Aliases : child.inv.hosts \in [A -> Addresses]
    BY <1>2 DEF Kit!Inventories
  <2>. QED
    BY <1>7, <1>9, <2>1 DEF Kit!Target
<1>11. Planned(e)
  BY <1>9, <1>10 DEF Planned, DeletesRight
<1>12. CASE Kit!Exits(2)
  BY <1>1, <1>12, ChildExitsCalls
<1>13. CASE Kit!Plans(<<e>>)
  <2>1. PICK q : q = <<e>>
    OBVIOUS
  <2>2. Range(q) = {e}
    BY <2>1, OneEffect
  <2>3. Met(Range(done) \cup Range(q), Kit!N, Kit!Call, child.inv.hosts)
    <3>1. Has(Range(done) \cup Range(q), Kit!N, "command", Kit!Call.host, AsUser(Kit!Call))
      BY <1>9, <2>2 DEF Has
    <3>. QED
      BY <1>4, <3>1 DEF Met, Kit!SshTools
  <2>. QED
    BY <1>1, <1>11, <1>13, <2>1, <2>2, <2>3, ChildPlansCalls
<1>. QED
  BY <1>1, <1>8, <1>12, <1>13

LEMMA PlansPlaybookCalls ==
    Kit!ToolsAssumption /\ KitInv /\ CallInv /\ Kit!PlansPlaybook => CallInv'
<1>. SUFFICES ASSUME Kit!ToolsAssumption, KitInv, CallInv, Kit!PlansPlaybook PROVE CallInv'
  OBVIOUS
<1>. DEFINE args == SubSeq(child.words, 3, Len(child.words))
<1>1. PICK q : q = [i \in DOMAIN BookHosts |->
                      Kit!Effect("step", BookHosts[i], Kit!Target(child.inv, BookHosts[i]),
                                 "login", child.inv.stamp, 0)]
  OBVIOUS
<1>2. /\ serving.pc = "child" /\ child.pc = "run" /\ Kit!ChildOnly /\ done' = done
      /\ child.words[1] = "playbook" /\ child.words[2] = "run"
      /\ \/ Kit!Exits(1) \/ Kit!Exits(2) \/ Kit!Plans(q)
         \/ Kit!Given(args, Kit!ParseFlags(args, {"--dry-run"}, {}), "--dry-run")
  BY <1>1 DEF Kit!PlansPlaybook, Kit!InChild, Kit!Command
<1>3. /\ Kit!Call.tool \in Kit!ChildTools /\ child.words = Kit!Words(Kit!Call)
  BY <1>2 DEF CallInv, ChildFits
<1>4. Kit!Call.tool = "ssh_playbook_run"
  BY <1>2, <1>3, FirstWords
<1>5. ~Kit!Given(args, Kit!ParseFlags(args, {"--dry-run"}, {}), "--dry-run")
  BY <1>3, <1>4, PlaybookAsks
<1>6. \A i \in DOMAIN q : /\ q[i].n = Kit!N /\ q[i].kind = "step" /\ q[i].host = BookHosts[i]
                          /\ q[i].as = "login" /\ q[i].code = 0
  BY <1>1 DEF Kit!Effect
<1>7. \A e \in Range(q) : Planned(e)
  <2>1. \A i \in DOMAIN q : Planned(q[i])
    BY <1>6 DEF Planned, DeletesRight
  <2>. QED
    BY <2>1 DEF Range
<1>8. Met(Range(done) \cup Range(q), Kit!N, Kit!Call, child.inv.hosts)
  <2>1. ASSUME NEW h \in Range(BookHosts)
        PROVE  Has(Range(done) \cup Range(q), Kit!N, "step", h, "login")
    <3>1. PICK i \in DOMAIN BookHosts : BookHosts[i] = h
      BY <2>1 DEF Range
    <3>2. i \in DOMAIN q /\ q[i] \in Range(q)
      BY <1>1 DEF Range
    <3>. QED
      BY <1>6, <3>1, <3>2 DEF Has
  <2>. QED
    BY <1>4, <2>1 DEF Met, Kit!SshTools
<1>. HIDE DEF args
<1>9. CASE Kit!Exits(1) \/ Kit!Exits(2)
  BY <1>2, <1>9, ChildExitsCalls
<1>10. CASE Kit!Plans(q)
  BY <1>2, <1>7, <1>8, <1>10, ChildPlansCalls
<1>. QED
  BY <1>2, <1>5, <1>9, <1>10

LEMMA PlansRotationCalls ==
    Kit!ToolsAssumption /\ KitInv /\ CallInv /\ Kit!PlansRotation => CallInv'
<1>. SUFFICES ASSUME Kit!ToolsAssumption, KitInv, CallInv, Kit!PlansRotation PROVE CallInv'
  OBVIOUS
<1>. DEFINE args == SubSeq(child.words, 3, Len(child.words))
            p == AgesOf(args)
            delete == Kit!Value(args, p, "--delete-age", "365")
            first == Kit!Effect("compress", "", "", Kit!Value(args, p, "--max-age", "30"), 0, 0)
            second == Kit!Effect("delete", "", "", delete, 0, 0)
            rest == IF delete = "0" THEN << >> ELSE <<second>>
<1>1. /\ serving.pc = "child" /\ child.pc = "run" /\ Kit!ChildOnly /\ done' = done
      /\ child.words[1] = "audit" /\ child.words[2] = "rotate"
      /\ Kit!Exits(2) \/ Kit!Plans(<<first>> \o rest)
  BY DEF Kit!PlansRotation, Kit!InChild, Kit!Command, AgesOf
<1>2. /\ Kit!Call.tool \in Kit!ChildTools /\ child.words = Kit!Words(Kit!Call)
  BY <1>1 DEF CallInv, ChildFits
<1>3. /\ Kit!Call \in Kit!CallType /\ Kit!N = Len(asked) /\ Kit!N \in Nat /\ Kit!N > 0
      /\ Kit!Call = asked[Kit!N]
  <2>1. CallsTyped /\ ~Answered
    BY <1>1 DEF CallInv, Answered
  <2>2. Kit!N \in Nat /\ Kit!N = Len(answers) + 1 /\ Len(answers) \in Nat
    BY <2>1, CallInHand
  <2>3. Kit!Call = asked[Kit!N] /\ Kit!Call \in Kit!CallType
    BY <2>1, CallInHand
  <2>. QED
    BY <2>2, <2>3 DEF Kit!N
<1>4. Kit!Call.tool = "ssh_audit_rotate"
  BY <1>1, <1>2, FirstWords
<1>5. MaxFits(args, p, Age(Kit!Call)) /\ DeleteFits(args, p, Kit!Days(Kit!Call.delete, "365"))
  BY <1>2, <1>3, <1>4, RotationAsks
<1>. HIDE DEF args, p
<1>6. /\ first.n = Kit!N /\ first.kind = "compress" /\ first.host = "" /\ first.code = 0
      /\ first.as = Age(Kit!Call)
  BY <1>5 DEF Kit!Effect, MaxFits
<1>7. /\ second.n = Kit!N /\ second.kind = "delete" /\ second.code = 0
      /\ second.as = Kit!Days(Kit!Call.delete, "365") /\ second.as = delete
  BY <1>5 DEF Kit!Effect, DeleteFits
<1>. HIDE DEF first, second, delete
<1>8. Planned(first)
  BY <1>6 DEF Planned, DeletesRight
<1>9. delete # "0" => Planned(second)
  BY <1>3, <1>7 DEF Planned, DeletesRight
<1>10. PICK q : q = <<first>> \o rest
  OBVIOUS
<1>11. first \in Range(q) /\ \A e \in Range(q) : e = first \/ (e = second /\ delete # "0")
  <2>1. CASE delete = "0"
    <3>1. q = <<first>>
      BY <1>10, <2>1
    <3>2. Range(q) = {first}
      BY <3>1, OneEffect
    <3>. QED
      BY <3>2
  <2>2. CASE delete # "0"
    <3>1. q = Append(<<first>>, second)
      BY <1>10, <2>2, AppendIsConcat
    <3>2. Range(q) = {first} \cup {second}
      BY <3>1, OneEffect, OneMore
    <3>. QED
      BY <2>2, <3>2
  <2>. QED
    BY <2>1, <2>2
<1>12. \A e \in Range(q) : Planned(e)
  BY <1>8, <1>9, <1>11
<1>13. Met(Range(done) \cup Range(q), Kit!N, Kit!Call, child.inv.hosts)
  <2>1. Has(Range(done) \cup Range(q), Kit!N, "compress", "", Age(Kit!Call))
    BY <1>6, <1>11 DEF Has
  <2>. QED
    BY <1>4, <2>1 DEF Met, Kit!SshTools
<1>14. CASE Kit!Exits(2)
  BY <1>1, <1>14, ChildExitsCalls
<1>15. CASE Kit!Plans(q)
  BY <1>1, <1>12, <1>13, <1>15, ChildPlansCalls
<1>. QED
  BY <1>1, <1>10, <1>14, <1>15

LEMMA PlansHealthCalls ==
    Kit!ToolsAssumption /\ KitInv /\ CallInv /\ Kit!PlansHealth => CallInv'
<1>. SUFFICES ASSUME Kit!ToolsAssumption, KitInv, CallInv, Kit!PlansHealth PROVE CallInv'
  OBVIOUS
<1>1. /\ serving.pc = "child" /\ child.pc = "run" /\ Kit!ChildOnly /\ done' = done
      /\ child.words[1] = "health"
  BY DEF Kit!PlansHealth, Kit!InChild, Kit!Command
<1>2. /\ Kit!Call.tool \in Kit!ChildTools /\ child.words = Kit!Words(Kit!Call)
  BY <1>1 DEF CallInv, ChildFits
<1>3. Kit!Call.tool = "ssh_health_check"
  BY <1>1, <1>2, FirstWords
<1>4. CASE Kit!Exits(1)
  BY <1>1, <1>4, ChildExitsCalls
<1>5. CASE ~Kit!Exits(1)
  <2>1. PICK order \in Kit!Bijection(1..Kit!Cardinality(DOMAIN child.inv.hosts),
                                    DOMAIN child.inv.hosts) :
           Kit!Plans([i \in DOMAIN order |-> Kit!Effect("probe", order[i], "", "login", 0, 0)])
    BY <1>5 DEF Kit!PlansHealth
  <2>2. PICK q : q = [i \in DOMAIN order |-> Kit!Effect("probe", order[i], "", "login", 0, 0)]
    OBVIOUS
  <2>3. DOMAIN child.inv.hosts \subseteq Aliases
    BY <1>1 DEF KitInv, KitTyped, InUse
  <2>4. /\ \A i \in DOMAIN order : order[i] \in Aliases
        /\ \A x \in DOMAIN child.inv.hosts : \E i \in DOMAIN order : order[i] = x
    BY <2>1, <2>3 DEF Kit!Bijection, Kit!Injection, Kit!Surjection
  <2>5. \A i \in DOMAIN q : /\ q[i].n = Kit!N /\ q[i].kind = "probe" /\ q[i].host = order[i]
                            /\ q[i].as = "login" /\ q[i].code = 0
    BY <2>2 DEF Kit!Effect
  <2>6. DOMAIN q = DOMAIN order
    BY <2>2
  <2>7. \A e \in Range(q) : Planned(e)
    <3>1. \A i \in DOMAIN q : Planned(q[i])
      BY <2>4, <2>5, <2>6 DEF Planned, DeletesRight
    <3>. QED
      BY <3>1 DEF Range
  <2>8. Met(Range(done) \cup Range(q), Kit!N, Kit!Call, child.inv.hosts)
    <3>1. ASSUME Kit!Call.host \in DOMAIN child.inv.hosts
          PROVE  Has(Range(done) \cup Range(q), Kit!N, "probe", Kit!Call.host, "login")
      <4>1. PICK i \in DOMAIN order : order[i] = Kit!Call.host
        BY <2>4, <3>1
      <4>2. i \in DOMAIN q /\ q[i] \in Range(q)
        BY <2>6 DEF Range
      <4>. QED
        BY <2>5, <4>1, <4>2 DEF Has
    <3>. QED
      BY <1>3, <3>1 DEF Met, Kit!SshTools
  <2>. QED
    BY <1>1, <2>1, <2>2, <2>7, <2>8, ChildPlansCalls
<1>. QED
  BY <1>4, <1>5

\* The first effect that was planned, and the rest.
LEMMA HeadPlanned ==
    ASSUME KitInv, CallInv, NEW kinds, Kit!Doing(kinds)
    PROVE  /\ serving.pc = "child" /\ child.pc = "work" /\ InUse
           /\ Planned(Head(child.todo)) /\ IsEffect(Head(child.todo))
           /\ Head(child.todo).kind \in kinds
           /\ \A e \in Range(Tail(child.todo)) : Planned(e)
           /\ Range(child.todo) = {Head(child.todo)} \cup Range(Tail(child.todo))
           /\ child.exit = 0 => Met(Range(done) \cup Range(child.todo), Kit!N, Kit!Call,
                                    child.inv.hosts)
<1>1. /\ serving.pc = "child" /\ child.pc = "work" /\ child.todo # << >>
      /\ Head(child.todo).kind \in kinds
  BY DEF Kit!Doing, Kit!InChild
<1>2. child.todo \in Seq(Range(child.todo)) /\ IsEffect(Head(child.todo))
  BY <1>1, AtWork DEF KitInv, ChildTells
<1>3. /\ Head(child.todo) \in Range(child.todo)
      /\ Range(Tail(child.todo)) \subseteq Range(child.todo)
  BY <1>1, <1>2, OneLess
<1>4. \A e \in Range(child.todo) : e = Head(child.todo) \/ e \in Range(Tail(child.todo))
  <2>. DEFINE s == child.todo
              t == Tail(s)
              m == Len(s)
  <2>1. /\ m \in Nat /\ m # 0 /\ DOMAIN s = 1..m /\ Len(t) = m - 1 /\ t \in Seq(Range(s))
        /\ \A i \in 1..(m - 1) : t[i] = s[i + 1]
        /\ Head(s) = s[1]
    <3>1. s \in Seq(Range(s)) /\ s # << >>
      BY <1>1, <1>2
    <3>. HIDE DEF s
    <3>2. m \in Nat /\ DOMAIN s = 1..m /\ m # 0
      BY <3>1, EmptySeq, LenProperties
    <3>3. /\ Head(s) = s[1] /\ t \in Seq(Range(s)) /\ Len(t) = m - 1
          /\ \A i \in 1..Len(t) : t[i] = s[i + 1]
      BY <3>1, HeadTailProperties
    <3>. QED
      BY <3>2, <3>3
  <2>2. DOMAIN t = 1..(m - 1)
    BY <2>1
  <2>. HIDE DEF s, t, m
  <2>3. ASSUME NEW i \in 1..m PROVE s[i] = Head(s) \/ s[i] \in Range(t)
    <3>1. CASE i = 1
      BY <2>1, <3>1
    <3>2. CASE i # 1
      <4>1. i - 1 \in 1..(m - 1) /\ (i - 1) + 1 = i
        BY <2>1, <3>2
      <4>2. s[i] = t[i - 1]
        BY <2>1, <4>1
      <4>. QED
        BY <2>2, <4>1, <4>2 DEF Range
    <3>. QED
      BY <3>1, <3>2
  <2>4. \A e \in Range(s) : e = Head(s) \/ e \in Range(t)
    BY <2>1, <2>3 DEF Range
  <2>. QED
    BY <2>4 DEF s, t
<1>. QED
  BY <1>1, <1>2, <1>3, <1>4 DEF CallInv, ChildFits, InUse

\* The child ends without success, whatever it has just done.
LEMMA WorkEnds ==
    ASSUME KitInv, CallInv, serving.pc = "child", UNCHANGED <<known, asked, answers, serving>>,
           Kit!Exits(1), Covers(Range(done), Range(done')),
           \A e \in Range(done') : DeletesRight(e)
    PROVE  CallInv'
<1>1. child' = [pc |-> "exited", words |-> child.words, inv |-> child.inv,
                todo |-> child.todo, exit |-> 1]
  BY DEF KitInv, KitTyped, Kit!Exits
<1>2. child'.pc = "exited" /\ child'.words = child.words /\ child'.exit = 1
  BY <1>1
<1>3. ChildFits'
  BY <1>2, ChildOfCall DEF ChildFits, InUse
<1>. QED
  BY <1>2, <1>3, ChildOfCall, StillAsked DEF CallInv, CallsTyped

\* The child is done with the first effect that was planned, and goes on with the rest.
LEMMA WorkGoesOn ==
    ASSUME KitInv, CallInv, NEW kinds, Kit!Doing(kinds), UNCHANGED <<asked, answers, serving>>,
           known' \subseteq Addresses \cup Aliases, NEW x \in {0, 1, 2},
           child' = [pc |-> child.pc, words |-> child.words, inv |-> child.inv,
                     todo |-> Tail(child.todo), exit |-> x],
           Covers(Range(done), Range(done')), \A e \in Range(done') : DeletesRight(e),
           x = 0 => Met(Range(done') \cup Range(Tail(child.todo)), Kit!N, Kit!Call,
                        child.inv.hosts)
    PROVE  CallInv'
<1>1. /\ serving.pc = "child" /\ child.pc = "work" /\ InUse
      /\ \A e \in Range(Tail(child.todo)) : Planned(e)
  BY HeadPlanned
<1>2. /\ child'.pc = "work" /\ child'.words = child.words /\ child'.inv = child.inv
      /\ child'.exit = x /\ child'.todo = Tail(child.todo)
      /\ Range(child'.todo) = Range(Tail(child.todo))
  BY <1>1
<1>3. child.inv.hosts \in Kit!Inventories
  BY <1>1 DEF CallInv, ChildFits
<1>4. ChildFits'
  BY <1>1, <1>2, <1>3, ChildOfCall DEF ChildFits
<1>. QED
  BY <1>1, <1>2, <1>4, ChildOfCall, StillAsked DEF CallInv, CallsTyped

\* What was planned is covered once the first of it is done.
LEMMA FirstIsDone ==
    ASSUME KitInv, CallInv, NEW kinds, Kit!Doing(kinds), child.exit = 0,
           Covers(Range(done), Range(done')), Covers({Head(child.todo)}, Range(done'))
    PROVE  Met(Range(done') \cup Range(Tail(child.todo)), Kit!N, Kit!Call, child.inv.hosts)
<1>. DEFINE D == Range(done) \cup Range(child.todo)
            E == Range(done') \cup Range(Tail(child.todo))
<1>1. /\ Range(child.todo) = {Head(child.todo)} \cup Range(Tail(child.todo))
      /\ Met(D, Kit!N, Kit!Call, child.inv.hosts)
  BY HeadPlanned
<1>2. Covers(D, E)
  BY <1>1 DEF Covers
<1>. HIDE DEF D, E
<1>3. Met(E, Kit!N, Kit!Call, child.inv.hosts)
  BY <1>1, <1>2, MetStays
<1>. QED
  BY <1>3 DEF E

LEMMA AcceptsKeyCalls == KitInv /\ CallInv /\ Kit!AcceptsKey => CallInv'
<1>. SUFFICES ASSUME KitInv, CallInv, Kit!AcceptsKey PROVE CallInv'
  OBVIOUS
<1>1. Kit!Doing({"command"}) /\ UNCHANGED <<asked, answers, serving, done>>
  BY DEF Kit!AcceptsKey
<1>2. PICK d : d = Head(child.todo)
  OBVIOUS
<1>3. serving.pc = "child" /\ child.pc = "work" /\ InUse /\ Planned(d) /\ d.kind \in {"command"}
  BY <1>1, <1>2, HeadPlanned
<1>4. d.machine \in Addresses \cup Aliases
  BY <1>3 DEF Planned
<1>5. Covers(Range(done), Range(done')) /\ \A e \in Range(done') : DeletesRight(e)
  BY <1>1, CoversMore DEF CallInv
<1>6. CASE Kit!Exits(1) /\ UNCHANGED known
  BY <1>1, <1>3, <1>5, <1>6, WorkEnds
<1>7. CASE known' = known \cup {d.machine} /\ UNCHANGED child
  <2>1. known' \subseteq Addresses \cup Aliases
    BY <1>4, <1>7 DEF CallInv, CallsTyped
  <2>2. /\ child'.pc = "work" /\ child'.words = child.words /\ child'.inv = child.inv
        /\ child'.todo = child.todo /\ child'.exit = child.exit /\ Range(done') = Range(done)
    BY <1>1, <1>3, <1>7
  <2>3. ChildFits'
    BY <1>1, <1>3, <2>2, ChildOfCall DEF ChildFits, CallInv, InUse
  <2>. QED
    BY <1>1, <1>3, <1>5, <2>1, <2>2, <2>3, ChildOfCall, StillAsked DEF CallInv, CallsTyped
<1>. QED
  BY <1>2, <1>6, <1>7 DEF Kit!AcceptsKey

LEMMA ChildSshEndsCalls == KitInv /\ CallInv /\ Kit!ChildSshEnds => CallInv'
<1>. SUFFICES ASSUME KitInv, CallInv, Kit!ChildSshEnds PROVE CallInv'
  OBVIOUS
<1>1. Kit!Doing({"command", "step"}) /\ UNCHANGED <<known, asked, answers, serving>>
  BY DEF Kit!ChildSshEnds, Kit!ChildOnly
<1>2. PICK d : d = Head(child.todo)
  OBVIOUS
<1>3. /\ serving.pc = "child" /\ child.pc = "work" /\ InUse /\ Planned(d) /\ IsEffect(d)
      /\ d.kind \in {"command", "step"}
  BY <1>1, <1>2, HeadPlanned
<1>4. CASE Kit!Exits(1) /\ UNCHANGED done
  <2>1. Covers(Range(done), Range(done')) /\ \A e \in Range(done') : DeletesRight(e)
    BY <1>4, CoversMore DEF CallInv
  <2>. QED
    BY <1>1, <1>3, <1>4, <2>1, WorkEnds
<1>5. CASE \E code \in {0, 1} : /\ Kit!Runs(d, code)
                                /\ IF code = 0 THEN Kit!GoesOn ELSE Kit!Exits(1)
  <2>1. PICK code \in {0, 1} : /\ done' = Append(done, [d EXCEPT !.code = code])
                               /\ IF code = 0 THEN Kit!GoesOn ELSE Kit!Exits(1)
    BY <1>5 DEF Kit!Runs
  <2>2. PICK e : e = [d EXCEPT !.code = code]
    OBVIOUS
  <2>3. e = [n |-> d.n, kind |-> d.kind, host |-> d.host, machine |-> d.machine, as |-> d.as,
             stamp |-> d.stamp, code |-> code]
    BY <1>3, <2>2 DEF IsEffect
  <2>4. Range(done') = Range(done) \cup {e} /\ Covers(Range(done), Range(done'))
    BY <2>1, <2>2, DoneMore
  <2>5. \A y \in Range(done') : DeletesRight(y)
    BY <1>3, <2>3, <2>4 DEF CallInv, DeletesRight
  <2>6. CASE code # 0
    BY <1>1, <1>3, <2>1, <2>4, <2>5, <2>6, WorkEnds
  <2>7. CASE code = 0
    <3>1. d.code = 0
      BY <1>3 DEF Planned
    <3>2. Covers({d}, Range(done'))
      BY <2>3, <2>4, <2>7, <3>1 DEF Covers
    <3>3. child' = [pc |-> child.pc, words |-> child.words, inv |-> child.inv,
                    todo |-> Tail(child.todo), exit |-> child.exit]
      BY <2>1, <2>7 DEF Kit!GoesOn, KitInv, KitTyped
    <3>4. child.exit = 0 => Met(Range(done') \cup Range(Tail(child.todo)), Kit!N, Kit!Call,
                                child.inv.hosts)
      BY <1>1, <1>2, <2>4, <3>2, FirstIsDone
    <3>. QED
      BY <1>1, <2>4, <2>5, <3>3, <3>4, WorkGoesOn DEF CallInv, CallsTyped
  <2>. QED
    BY <2>6, <2>7
<1>. QED
  BY <1>2, <1>4, <1>5 DEF Kit!ChildSshEnds, Kit!ChildOnly

LEMMA ProbesCalls == KitInv /\ CallInv /\ Kit!Probes => CallInv'
<1>. SUFFICES ASSUME KitInv, CallInv, Kit!Probes PROVE CallInv'
  OBVIOUS
<1>1. Kit!Doing({"probe"}) /\ UNCHANGED <<asked, answers, serving>>
  BY DEF Kit!Probes
<1>2. PICK d : d = Head(child.todo)
  OBVIOUS
<1>3. /\ serving.pc = "child" /\ child.pc = "work" /\ InUse /\ Planned(d) /\ IsEffect(d)
      /\ d.kind \in {"probe"}
  BY <1>1, <1>2, HeadPlanned
<1>4. known \subseteq Addresses \cup Aliases /\ child.exit \in {0, 1, 2}
  BY DEF CallInv, CallsTyped
<1>5. PICK worst \in {child.exit, 1} :
         /\ child' = [child EXCEPT !.todo = Tail(@), !.exit = worst]
         /\ \/ /\ known' = known \cup {Kit!Target(file, d.host)}
               /\ done' = Append(done, [d EXCEPT !.machine = Kit!Target(file, d.host),
                                                 !.stamp = file.stamp])
            \/ worst = 1 /\ UNCHANGED <<known, done>>
  BY <1>2 DEF Kit!Probes
<1>6. child' = [pc |-> child.pc, words |-> child.words, inv |-> child.inv,
                todo |-> Tail(child.todo), exit |-> worst]
  BY <1>5 DEF KitInv, KitTyped
<1>7. CASE worst = 1 /\ UNCHANGED <<known, done>>
  <2>1. Covers(Range(done), Range(done')) /\ \A e \in Range(done') : DeletesRight(e)
    BY <1>7, CoversMore DEF CallInv
  <2>2. known' \subseteq Addresses \cup Aliases /\ worst \in {0, 1, 2} /\ worst # 0
    BY <1>4, <1>7
  <2>. QED
    BY <1>1, <1>6, <2>1, <2>2, WorkGoesOn
<1>8. CASE ~(worst = 1 /\ UNCHANGED <<known, done>>)
  <2>1. PICK e : e = [d EXCEPT !.machine = Kit!Target(file, d.host), !.stamp = file.stamp]
    OBVIOUS
  <2>2. /\ e = [n |-> d.n, kind |-> d.kind, host |-> d.host,
                machine |-> Kit!Target(file, d.host), as |-> d.as, stamp |-> file.stamp,
                code |-> d.code]
    BY <1>3, <2>1 DEF IsEffect
  <2>3. known' = known \cup {Kit!Target(file, d.host)} /\ done' = Append(done, e)
    BY <1>5, <1>8, <2>1
  <2>4. Range(done') = Range(done) \cup {e} /\ Covers(Range(done), Range(done'))
    BY <2>3, DoneMore
  <2>5. \A y \in Range(done') : DeletesRight(y)
    BY <1>3, <2>2, <2>4 DEF CallInv, DeletesRight
  <2>6. Covers({d}, Range(done'))
    BY <2>2, <2>4 DEF Covers
  <2>7. Kit!Target(file, d.host) \in Addresses \cup Aliases
    <3>1. file.hosts \in Kit!Inventories
      BY DEF KitInv, KitTyped
    <3>2. PICK A \in SUBSET Aliases : file.hosts \in [A -> Addresses]
      BY <3>1 DEF Kit!Inventories
    <3>3. d.host \in Aliases
      BY <1>3 DEF Planned
    <3>. QED
      BY <3>2, <3>3 DEF Kit!Target
  <2>8. known' \subseteq Addresses \cup Aliases /\ worst \in {0, 1, 2}
    BY <1>4, <2>3, <2>7
  <2>9. worst = 0 => child.exit = 0
    OBVIOUS
  <2>10. worst = 0 => Met(Range(done') \cup Range(Tail(child.todo)), Kit!N, Kit!Call,
                          child.inv.hosts)
    BY <1>1, <1>2, <2>4, <2>6, <2>9, FirstIsDone
  <2>. QED
    BY <1>1, <1>6, <2>4, <2>5, <2>8, <2>10, WorkGoesOn
<1>. QED
  BY <1>7, <1>8

\* A deletion was not what any call waits for.
LEMMA DeletesNotMet ==
    ASSUME NEW D, NEW e, e.kind = "delete", NEW n, NEW c, NEW hosts, Met(D \cup {e}, n, c, hosts)
    PROVE  Met(D, n, c, hosts)
<1>1. ASSUME NEW kind \in {"command", "step", "compress", "probe"}, NEW host, NEW as,
             Has(D \cup {e}, n, kind, host, as)
      PROVE  Has(D, n, kind, host, as)
  BY <1>1 DEF Has
<1>. QED
  BY <1>1 DEF Met

LEMMA RotatesCalls == KitInv /\ CallInv /\ Kit!Rotates => CallInv'
<1>. SUFFICES ASSUME KitInv, CallInv, Kit!Rotates PROVE CallInv'
  OBVIOUS
<1>1. Kit!Doing({"compress", "delete"}) /\ UNCHANGED <<known, asked, answers, serving>>
  BY DEF Kit!Rotates, Kit!ChildOnly
<1>2. PICK d : d = Head(child.todo)
  OBVIOUS
<1>3. /\ serving.pc = "child" /\ child.pc = "work" /\ InUse /\ Planned(d) /\ IsEffect(d)
      /\ d.kind \in {"compress", "delete"}
  BY <1>1, <1>2, HeadPlanned
<1>4. known' \subseteq Addresses \cup Aliases /\ child.exit \in {0, 1, 2}
  BY <1>1 DEF CallInv, CallsTyped
<1>5. Kit!GoesOn => child' = [pc |-> child.pc, words |-> child.words, inv |-> child.inv,
                              todo |-> Tail(child.todo), exit |-> child.exit]
  BY DEF Kit!GoesOn, KitInv, KitTyped
<1>6. CASE done' = Append(done, d) /\ Kit!GoesOn
  <2>1. Range(done') = Range(done) \cup {d} /\ Covers(Range(done), Range(done'))
    BY <1>6, DoneMore
  <2>2. \A y \in Range(done') : DeletesRight(y)
    BY <1>3, <2>1 DEF CallInv, Planned
  <2>3. Covers({d}, Range(done'))
    BY <2>1 DEF Covers
  <2>4. child.exit = 0 => Met(Range(done') \cup Range(Tail(child.todo)), Kit!N, Kit!Call,
                              child.inv.hosts)
    BY <1>1, <1>2, <2>1, <2>3, FirstIsDone
  <2>. QED
    BY <1>1, <1>4, <1>5, <1>6, <2>1, <2>2, <2>4, WorkGoesOn
<1>7. CASE UNCHANGED done /\ d.kind = "compress" /\ Kit!Exits(1)
  <2>1. Covers(Range(done), Range(done')) /\ \A e \in Range(done') : DeletesRight(e)
    BY <1>7, CoversMore DEF CallInv
  <2>. QED
    BY <1>1, <1>3, <1>7, <2>1, WorkEnds
<1>8. CASE UNCHANGED done /\ d.kind = "delete" /\ Kit!GoesOn
  <2>1. Covers(Range(done), Range(done')) /\ \A e \in Range(done') : DeletesRight(e)
    BY <1>8, CoversMore DEF CallInv
  <2>2. PICK D : D = Range(done) \cup Range(Tail(child.todo))
    OBVIOUS
  <2>3. Range(done) \cup Range(child.todo) = D \cup {d}
    BY <1>1, <1>2, <2>2, HeadPlanned
  <2>4. child.exit = 0 => Met(D \cup {d}, Kit!N, Kit!Call, child.inv.hosts)
    BY <1>1, <2>3, HeadPlanned
  <2>5. child.exit = 0 => Met(D, Kit!N, Kit!Call, child.inv.hosts)
    BY <1>8, <2>4, DeletesNotMet
  <2>6. D = Range(done') \cup Range(Tail(child.todo))
    BY <1>8, <2>2
  <2>. QED
    BY <1>1, <1>4, <1>5, <1>8, <2>1, <2>5, <2>6, WorkGoesOn
<1>. QED
  BY <1>2, <1>3, <1>6, <1>7, <1>8 DEF Kit!Rotates

LEMMA ExitsAtEndCalls == KitInv /\ CallInv /\ Kit!ExitsAtEnd => CallInv'
<1>. SUFFICES ASSUME KitInv, CallInv, Kit!ExitsAtEnd PROVE CallInv'
  OBVIOUS
<1>1. PICK code : code = child.exit
  OBVIOUS
<1>2. /\ serving.pc = "child" /\ child.pc = "work" /\ child.todo = << >>
      /\ Kit!ChildOnly /\ done' = done /\ Kit!Exits(code)
  BY <1>1 DEF Kit!ExitsAtEnd, Kit!InChild, Kit!Exits
<1>3. code \in {0, 1, 2}
  BY <1>1 DEF CallInv, CallsTyped
<1>4. Range(done) \cup Range(child.todo) = Range(done)
  BY <1>2 DEF Range
<1>5. code = 0 => Met(Range(done) \cup Range(child.todo), Kit!N, Kit!Call, child.inv.hosts)
  BY <1>1, <1>2 DEF CallInv, ChildFits
<1>6. code = 0 => Met(Range(done), Kit!N, Kit!Call, child.inv.hosts)
  BY <1>4, <1>5
<1>. QED
  BY <1>2, <1>3, <1>6, ChildExitsCalls

LEMMA CallRests == CallInv /\ UNCHANGED Kit!vars => CallInv'
<1>. SUFFICES ASSUME CallInv, UNCHANGED Kit!vars PROVE CallInv'
  OBVIOUS
<1>1. UNCHANGED <<file, copy, known, asked, answers, serving, child, done>>
  BY DEF Kit!vars
<1>. QED
  BY <1>1 DEF CallInv, CallsTyped, AnswersTell, ServingFits, ChildFits, DeletesRight, Planned,
              Answered, InUse, Kit!N, Kit!Call

LEMMA CallKept ==
    ASSUME Kit!ToolsAssumption, KitInv, CallInv, [Kit!Next]_(Kit!vars) PROVE CallInv'
<1>1. CASE Kit!ChildActs
  BY <1>1, ChildLoadsCalls, PlansExecCalls, PlansPlaybookCalls, PlansRotationCalls,
     PlansHealthCalls, ExitsOnlyCalls, ReloadsCalls, AcceptsKeyCalls, ChildSshEndsCalls,
     ProbesCalls, RotatesCalls, ExitsAtEndCalls DEF Kit!ChildActs
<1>2. CASE Kit!ServerActs
  BY <1>2, ServerLoadsCalls, AnswersItselfCalls, StartsSshCalls, ServerSshEndsCalls,
     SpawnsCalls, ReapsCalls DEF Kit!ServerActs
<1>3. CASE \E c \in Calls : Kit!Asks(c)
  BY <1>3, AsksCalls
<1>4. CASE Kit!Saves
  BY <1>4, SavesCalls
<1>5. CASE UNCHANGED Kit!vars
  BY <1>5, CallRests
<1>. QED
  BY <1>1, <1>2, <1>3, <1>4, <1>5 DEF Kit!Next

LEMMA CallInductive == Kit!ToolsAssumption /\ Kit!Spec => []CallInv
<1>. SUFFICES ASSUME Kit!ToolsAssumption PROVE Kit!Spec => []CallInv
  OBVIOUS
<1>1. KitInv /\ CallInv /\ [Kit!Next]_(Kit!vars) => CallInv'
  BY CallKept
<1>2. Kit!Init => CallInv
  BY CallInit
<1>3. Kit!Spec => []KitInv
  BY KitInductive
<1>. QED
  BY <1>1, <1>2, <1>3, PTL DEF Kit!Spec

LEMMA HadIsDid ==
    ASSUME NEW n, NEW kind, NEW host, NEW as, Has(Range(done), n, kind, host, as)
    PROVE  Kit!Did(n, kind, host)
<1>1. PICK i \in DOMAIN done :
         /\ done[i].n = n /\ done[i].kind = kind /\ done[i].host = host
         /\ done[i].as = as /\ done[i].code = 0
  BY DEF Has, Range
<1>. QED
  BY <1>1 DEF Kit!Did

\* What was met is what the property asks of an answer.
LEMMA MetIsDone ==
    ASSUME Kit!ToolsAssumption, NEW n, NEW hosts, asked[n].tool \in Tools,
           Met(Range(done), n, asked[n], hosts)
    PROVE  /\ asked[n].tool \in Kit!SshTools => Kit!DidAs(n, "login")
           /\ asked[n].tool = "ssh_sudo_exec" => Kit!DidAs(n, AsUser(asked[n]))
           /\ asked[n].tool = "ssh_playbook_run" =>
                 (~asked[n].dry => \A h \in Kit!Range(BookHosts) : Kit!Did(n, "step", h))
           /\ asked[n].tool = "ssh_audit_rotate" =>
                 \E i \in DOMAIN done : /\ done[i].n = n /\ done[i].kind = "compress"
                                        /\ done[i].as = Age(asked[n])
           /\ asked[n].tool = "ssh_health_check" =>
                 (asked[n].host \in DOMAIN hosts => Kit!Did(n, "probe", asked[n].host))
<1>. DEFINE c == asked[n]
<1>1. ASSUME NEW as, Has(Range(done), n, "command", c.host, as) PROVE Kit!DidAs(n, as)
  <2>1. PICK host : host = c.host
    OBVIOUS
  <2>2. Has(Range(done), n, "command", host, as)
    BY <1>1, <2>1
  <2>3. Kit!Did(n, "command", host)
    BY <2>2, HadIsDid
  <2>4. \E i \in DOMAIN done : done[i].n = n /\ done[i].as = as
    BY <2>2 DEF Has, Range
  <2>. QED
    BY <2>1, <2>3, <2>4 DEF Kit!DidAs
<1>2. c.tool \in Kit!SshTools => Has(Range(done), n, "command", c.host, "login")
  BY DEF Met
<1>3. c.tool = "ssh_sudo_exec" => Has(Range(done), n, "command", c.host, AsUser(c))
  BY DEF Met
<1>4. ASSUME c.tool = "ssh_playbook_run", ~c.dry, NEW h \in Kit!Range(BookHosts)
      PROVE  Kit!Did(n, "step", h)
  <2>1. Kit!Range(BookHosts) = Range(BookHosts)
    BY DEF Kit!Range, Range
  <2>2. Has(Range(done), n, "step", h, "login")
    BY <1>4, <2>1 DEF Met
  <2>. QED
    BY <2>2, HadIsDid
<1>5. ASSUME c.tool = "ssh_audit_rotate"
      PROVE  \E i \in DOMAIN done : /\ done[i].n = n /\ done[i].kind = "compress"
                                    /\ done[i].as = Age(c)
  <2>1. PICK age : age = Age(c)
    OBVIOUS
  <2>2. Has(Range(done), n, "compress", "", age)
    BY <1>5, <2>1 DEF Met
  <2>3. \E i \in DOMAIN done :
           done[i].n = n /\ done[i].kind = "compress" /\ done[i].as = age
    BY <2>2 DEF Has, Range
  <2>. QED
    BY <2>1, <2>3
<1>6. ASSUME c.tool = "ssh_health_check", c.host \in DOMAIN hosts
      PROVE  Kit!Did(n, "probe", c.host)
  <2>1. Has(Range(done), n, "probe", c.host, "login")
    BY <1>6 DEF Met
  <2>. QED
    BY <2>1, HadIsDid
<1>. QED
  BY <1>1, <1>2, <1>3, <1>4, <1>5, <1>6

LEMMA CallsAreDone == Kit!ToolsAssumption /\ CallInv => Kit!OkMeansDone
<1>. SUFFICES ASSUME Kit!ToolsAssumption, CallInv PROVE Kit!OkMeansDone
  OBVIOUS
<1>1. Kit!TypeOK
  <2>1. asked \in Seq(Kit!CallType)
    BY DEF CallInv, CallsTyped, Kit!ToolsAssumption
  <2>2. Len(asked) - Len(answers) \in {0, 1}
    <3>1. Len(answers) \in Nat
      BY DEF CallInv, CallsTyped
    <3>2. Len(asked) = Len(answers) \/ Len(asked) = Len(answers) + 1
      BY DEF CallInv, CallsTyped
    <3>. QED
      BY <3>1, <3>2
  <2>. QED
    BY <2>1, <2>2 DEF Kit!TypeOK, CallInv, CallsTyped
<1>2. DOMAIN answers = 1..Len(answers)
  BY DEF CallInv, CallsTyped
<1>3. ASSUME NEW n \in DOMAIN answers, ~answers[n].error
      PROVE  CASE asked[n].tool \in Kit!SshTools -> Kit!DidAs(n, "login")
               [] asked[n].tool = "ssh_sudo_exec" ->
                     Kit!DidAs(n, IF asked[n].as \in {"", "sudo"} THEN "root" ELSE asked[n].as)
               [] asked[n].tool = "ssh_playbook_run" ->
                     ~asked[n].dry => \A h \in Kit!Range(BookHosts) : Kit!Did(n, "step", h)
               [] asked[n].tool = "ssh_audit_rotate" ->
                     \E i \in DOMAIN done :
                        /\ done[i].n = n /\ done[i].kind = "compress"
                        /\ asked[n].max # "0" => done[i].as = Kit!Days(asked[n].max, "30")
               [] asked[n].tool = "ssh_health_check" ->
                     asked[n].host \in DOMAIN answers[n].inv.hosts =>
                        Kit!Did(n, "probe", asked[n].host)
               [] OTHER -> asked[n].tool \in Kit!LocalTools \cup Kit!ChildTools
  <2>1. asked[n].tool \in Tools /\ Met(Range(done), n, asked[n], answers[n].inv.hosts)
    BY <1>2, <1>3 DEF CallInv, AnswersTell
  <2>. QED
    BY <2>1, MetIsDone DEF Tools, AsUser, Age, Kit!SshTools
<1>4. ASSUME NEW i \in DOMAIN done, done[i].kind = "delete"
      PROVE  /\ done[i].as = Kit!Days(asked[done[i].n].delete, "365")
             /\ done[i].as # "0"
  BY <1>4 DEF CallInv, DeletesRight, Range
<1>. QED
  BY <1>1, <1>3, <1>4 DEF Kit!OkMeansDone

\* An answer of the server without an error means that what was asked has been done, on
\* the host, as the user and with the ages in whole days that were named, except that
\* max_age_days 0 compresses from 30 days; and nothing was deleted from another age.  This
\* is so for any finite set of names, any calls, edits of hosts.toml and playbook, whatever
\* fails in the server, in the child, on its command line or on a host.
THEOREM OkMeansItIsDone == Kit!Spec => []OkMeansDone
<1>. Kit!ToolsAssumption
  BY CommandsAssumption
<1>1. CallInv => Kit!OkMeansDone
  BY CallsAreDone
<1>. QED
  BY <1>1, CallInductive, PTL DEF OkMeansDone

-----------------------------------------------------------------------------
(* SshConfig *)

IsHost(i) == config[i].kind = "host" /\ Parser!Splits(config[i])
Taken(i) == Parser!FilterAliases(Parser!Words(config[i]))
AllWords == Parser!Names \cup {Parser!Sign}
HostLine(h) == h \in DOMAIN config /\ IsHost(h)

\* Line i gives k a value in the block that host line h opens and the next one closes.
SetIn(h, i, k) ==
    /\ h < i /\ config[i].kind = "set" /\ Parser!Splits(config[i]) /\ config[i].key = k
    /\ \A g \in DOMAIN config : h < g /\ g <= i => ~IsHost(g)

\* The last of these lines counts.
LastValue(h, k, v) ==
    \/ v = None /\ \A i \in DOMAIN config : ~SetIn(h, i, k)
    \/ \E i \in DOMAIN config :
          /\ SetIn(h, i, k) /\ v = Parser!Value(config[i])
          /\ \A j \in DOMAIN config : SetIn(h, j, k) => j <= i

Valuations == [Parser!Directives -> Values \cup {Parser!Sign, None}]
ReadFrom(h, w) == \A k \in Parser!Directives : LastValue(h, k, w[k])

ParserTyped ==
    /\ config \in Seq(Lines) /\ Len(config) <= MaxLines /\ parsed \in BOOLEAN
    /\ block \in [aliases : SUBSET AllWords, values : Valuations]

\* The block in hand is that of the last host line.
InHand ==
    block.aliases # {} => \E h \in DOMAIN config :
        /\ IsHost(h) /\ block.aliases = Taken(h)
        /\ \A g \in DOMAIN config : h < g => ~IsHost(g)
        /\ ReadFrom(h, block.values)

\* What has been named is in the inventory or in hand.
Named ==
    {a \in AllWords : Parser!Listed(a)}
        = DOMAIN imported \cup (IF parsed THEN {} ELSE block.aliases)

\* A host that is in the inventory has the values of a block that names it and is closed.
Stored(a) ==
    \E h \in DOMAIN config, w \in Valuations :
        /\ IsHost(h) /\ a \in Parser!Words(config[h]) /\ ReadFrom(h, w)
        /\ imported[a] = Parser!BuildHost(a, w)
        /\ parsed \/ \E g \in DOMAIN config : h < g /\ IsHost(g)

ParserInv == ParserTyped /\ InHand /\ Named /\ \A a \in DOMAIN imported : Stored(a)

\* A set of numbers up to n that is not empty has a greatest element.
LEMMA Greatest ==
    ASSUME NEW n \in Nat, NEW S, S \subseteq 1..n, S # {}
    PROVE  \E m \in S : \A j \in S : j <= m
<1>. DEFINE R == OpToRel(<, Nat)
            T == {n - j : j \in S}
<1>1. T \subseteq Nat /\ T # {}
  <2>1. ASSUME NEW j \in S PROVE n - j \in Nat
    BY ONLY n \in Nat, S \subseteq 1..n, j \in S
  <2>2. T \subseteq Nat
    BY <2>1
  <2>3. PICK j : j \in S
    BY S # {}
  <2>4. n - j \in T
    BY <2>3
  <2>. QED
    BY <2>2, <2>4
<1>2. PICK x \in T : \A y \in T : ~(<<y, x>> \in R)
  BY <1>1, NatLessThanWellFounded, WFMin
<1>3. PICK m \in S : x = n - m
  OBVIOUS
<1>4. ASSUME NEW j \in S PROVE j <= m
  <2>1. n - j \in T /\ n - j \in Nat /\ x \in Nat
    BY <1>1
  <2>2. ~(n - j < x)
    BY <1>2, <2>1 DEF OpToRel
  <2>. QED
    BY <1>3, <2>1, <2>2
<1>. QED
  BY <1>4

\* What a line may be.
LEMMA LineIs ==
    ASSUME NEW l \in Lines, Parser!SshConfigAssumption
    PROVE  /\ l.kind \in {"host", "set", "match", "comment"}
           /\ l.kind = "host" => Parser!FilterAliases(Parser!Words(l)) \subseteq AllWords
           /\ l.kind = "set" => /\ l.key \in Parser!Directives
                               /\ Parser!Value(l) \in Values \cup {Parser!Sign}
           /\ l.kind = "set" /\ l.form = "blank" => Parser!Value(l) = l.value
BY DEF Parser!SshConfigAssumption, Parser!FilterAliases, Parser!Words, Parser!Value, AllWords, Parser!HostLines, Parser!SetLines, Parser!MatchLine, Parser!Comment

\* A line is read: it takes the last place.
LEMMA OneLineMore ==
    ASSUME ParserTyped, NEW line \in Lines, NEW n, n = Len(config), n < MaxLines,
           Parser!SshConfigAssumption, config' = Append(config, line)
    PROVE  /\ n \in Nat /\ config' \in Seq(Lines) /\ Len(config') <= MaxLines
           /\ DOMAIN config = 1..n /\ DOMAIN config' = 1..(n + 1)
           /\ \A i \in 1..n : config'[i] = config[i]
           /\ config'[n + 1] = line
<1>1. config \in Seq(Lines) /\ MaxLines \in Nat /\ Len(config) \in Nat
  BY DEF ParserTyped, Parser!SshConfigAssumption
<1>2. /\ config' \in Seq(Lines) /\ Len(config') = Len(config) + 1
      /\ \A i \in 1..Len(config) : config'[i] = config[i]
      /\ config'[Len(config) + 1] = line
  BY <1>1, AppendProperties
<1>3. DOMAIN config = 1..Len(config) /\ DOMAIN config' = 1..Len(config')
  BY <1>1, <1>2
<1>. QED
  BY <1>1, <1>2, <1>3

\* It belongs to the last block, and says nothing of the others.
LEMMA SetInThen ==
    ASSUME ParserTyped, NEW line \in Lines, NEW n, n = Len(config), n < MaxLines,
           Parser!SshConfigAssumption, config' = Append(config, line), NEW k,
           NEW h \in DOMAIN config
    PROVE  /\ \A i \in DOMAIN config : SetIn(h, i, k)' <=> SetIn(h, i, k)
           /\ SetIn(h, n + 1, k)' <=>
                 /\ line.kind = "set" /\ Parser!Splits(line) /\ line.key = k
                 /\ \A g \in DOMAIN config : h < g => ~IsHost(g)
<1>1. /\ n \in Nat /\ DOMAIN config = 1..n /\ DOMAIN config' = 1..(n + 1)
      /\ \A i \in 1..n : config'[i] = config[i]
      /\ config'[n + 1] = line
  BY OneLineMore
<1>2. ASSUME NEW i \in 1..n PROVE SetIn(h, i, k)' <=> SetIn(h, i, k)
  <2>1. config'[i] = config[i] /\ \A g \in 1..n : IsHost(g)' <=> IsHost(g)
    BY <1>1 DEF IsHost
  <2>2. \A g \in 1..(n + 1) : g <= i => g \in 1..n
    BY <1>1
  <2>. QED
    BY <1>1, <2>1, <2>2 DEF SetIn
<1>3. h < n + 1 /\ \A g \in 1..n : g <= n + 1
  BY <1>1
<1>4. (\A g \in 1..(n + 1) : h < g /\ g <= n + 1 => ~IsHost(g)')
         <=> ~(line.kind = "host" /\ Parser!Splits(line)) /\ \A g \in 1..n : h < g => ~IsHost(g)
  <2>1. \A g \in 1..n : IsHost(g)' <=> IsHost(g)
    BY <1>1 DEF IsHost
  <2>2. IsHost(n + 1)' <=> line.kind = "host" /\ Parser!Splits(line)
    BY <1>1 DEF IsHost
  <2>3. \A g \in 1..(n + 1) : g \in 1..n \/ g = n + 1
    BY <1>1
  <2>4. n + 1 \in 1..(n + 1) /\ n + 1 <= n + 1 /\ \A g \in 1..n : g \in 1..(n + 1)
    BY <1>1
  <2>. QED
    BY <1>3, <2>1, <2>2, <2>3, <2>4
<1>5. SetIn(h, n + 1, k)' <=>
         /\ h < n + 1 /\ line.kind = "set" /\ Parser!Splits(line) /\ line.key = k
         /\ \A g \in 1..(n + 1) : h < g /\ g <= n + 1 => ~IsHost(g)'
  BY <1>1 DEF SetIn
<1>6. SetIn(h, n + 1, k)' <=>
         /\ line.kind = "set" /\ Parser!Splits(line) /\ line.key = k
         /\ \A g \in 1..n : h < g => ~IsHost(g)
  BY <1>3, <1>4, <1>5
<1>. QED
  BY <1>1, <1>2, <1>6

\* What a block has said stays its last word, unless a line is added to it.
LEMMA LastValueStays ==
    ASSUME ParserTyped, NEW line \in Lines, NEW n, n = Len(config), n < MaxLines,
           Parser!SshConfigAssumption, config' = Append(config, line), NEW k,
           NEW h \in DOMAIN config, NEW v, LastValue(h, k, v),
           \/ ~(line.kind = "set" /\ Parser!Splits(line) /\ line.key = k)
           \/ \E g \in DOMAIN config : h < g /\ IsHost(g)
    PROVE  LastValue(h, k, v)'
<1>1. /\ n \in Nat /\ DOMAIN config = 1..n /\ DOMAIN config' = 1..(n + 1)
      /\ \A i \in 1..n : config'[i] = config[i]
  BY OneLineMore
<1>2. /\ \A i \in 1..n : SetIn(h, i, k)' <=> SetIn(h, i, k)
      /\ ~SetIn(h, n + 1, k)'
  BY <1>1, SetInThen
<1>3. \A i \in 1..(n + 1) : i \in 1..n \/ i = n + 1
  BY <1>1
<1>4. \A i \in 1..n : i \in 1..(n + 1)
  BY <1>1
<1>5. CASE v = None /\ \A i \in 1..n : ~SetIn(h, i, k)
  <2>1. \A i \in 1..(n + 1) : ~SetIn(h, i, k)'
    BY <1>2, <1>3, <1>5
  <2>. QED
    BY <1>1, <1>5, <2>1 DEF LastValue
<1>6. CASE \E i \in 1..n : /\ SetIn(h, i, k) /\ v = Parser!Value(config[i])
                          /\ \A j \in 1..n : SetIn(h, j, k) => j <= i
  <2>1. PICK i \in 1..n : /\ SetIn(h, i, k) /\ v = Parser!Value(config[i])
                          /\ \A j \in 1..n : SetIn(h, j, k) => j <= i
    BY <1>6
  <2>2. SetIn(h, i, k)' /\ v = Parser!Value(config'[i]) /\ i \in 1..(n + 1)
    BY <1>1, <1>2, <1>4, <2>1
  <2>3. \A j \in 1..(n + 1) : SetIn(h, j, k)' => j <= i
    BY <1>2, <1>3, <2>1
  <2>. QED
    BY <1>1, <2>2, <2>3 DEF LastValue
<1>. QED
  BY <1>1, <1>5, <1>6 DEF LastValue

LEMMA LastValueComes ==
    ASSUME ParserTyped, NEW line \in Lines, NEW n, n = Len(config), n < MaxLines,
           Parser!SshConfigAssumption, config' = Append(config, line),
           NEW h \in DOMAIN config, line.kind = "set", Parser!Splits(line),
           \A g \in DOMAIN config : h < g => ~IsHost(g)
    PROVE  \A k : line.key = k => LastValue(h, k, Parser!Value(line))'
<1>. SUFFICES ASSUME NEW k, line.key = k PROVE LastValue(h, k, Parser!Value(line))'
  OBVIOUS
<1>1. n \in Nat /\ DOMAIN config' = 1..(n + 1) /\ config'[n + 1] = line
  BY OneLineMore
<1>2. SetIn(h, n + 1, k)'
  BY SetInThen
<1>3. n + 1 \in 1..(n + 1) /\ \A j \in 1..(n + 1) : j <= n + 1
  BY <1>1
<1>. QED
  BY <1>1, <1>2, <1>3 DEF LastValue

\* A host line names its hosts, no other line does.
LEMMA NamedThen ==
    ASSUME ParserTyped, NEW line \in Lines, NEW n, n = Len(config), n < MaxLines,
           Parser!SshConfigAssumption, config' = Append(config, line), NEW a
    PROVE  Parser!Listed(a)' <=>
               \/ Parser!Listed(a)
               \/ line.kind = "host" /\ Parser!Splits(line) /\ a \in Parser!Words(line)
<1>1. /\ n \in Nat /\ DOMAIN config = 1..n /\ DOMAIN config' = 1..(n + 1)
      /\ \A i \in 1..n : config'[i] = config[i]
      /\ config'[n + 1] = line
  BY OneLineMore
<1>2. \A i : i \in 1..(n + 1) <=> i \in 1..n \/ i = n + 1
  BY <1>1
<1>. QED
  BY <1>1, <1>2 DEF Parser!Listed

\* What is stored stays as it is while lines are read.
LEMMA StoredStays ==
    ASSUME ParserTyped, NEW line \in Lines, NEW n, n = Len(config), n < MaxLines,
           Parser!SshConfigAssumption, config' = Append(config, line), ~parsed,
           NEW a, Stored(a), imported'[a] = imported[a]
    PROVE  Stored(a)'
<1>1. /\ n \in Nat /\ DOMAIN config = 1..n /\ DOMAIN config' = 1..(n + 1)
      /\ \A i \in 1..n : i \in 1..(n + 1) /\ config'[i] = config[i]
  BY OneLineMore
<1>2. PICK h \in 1..n, w \in Valuations :
         /\ IsHost(h) /\ a \in Parser!Words(config[h]) /\ ReadFrom(h, w)
         /\ imported[a] = Parser!BuildHost(a, w)
         /\ \E g \in 1..n : h < g /\ IsHost(g)
  BY <1>1 DEF Stored
<1>3. PICK g \in 1..n : h < g /\ IsHost(g)
  BY <1>2
<1>4. IsHost(h)' /\ IsHost(g)' /\ a \in Parser!Words(config'[h])
  BY <1>1, <1>2, <1>3 DEF IsHost
<1>5. ASSUME NEW k \in Parser!Directives PROVE LastValue(h, k, w[k])'
  <2>1. LastValue(h, k, w[k])
    BY <1>2 DEF ReadFrom
  <2>2. PICK v : v = w[k]
    OBVIOUS
  <2>3. LastValue(h, k, v)'
    BY <1>1, <1>3, <2>1, <2>2, LastValueStays
  <2>. QED
    BY <2>2, <2>3
<1>6. ReadFrom(h, w)'
  BY <1>5 DEF ReadFrom
<1>7. imported'[a] = Parser!BuildHost(a, w)
  BY <1>2
<1>. QED
  BY <1>1, <1>2, <1>3, <1>4, <1>6, <1>7 DEF Stored, Parser!BuildHost

\* flush: what is in hand is stored, and the rest stays.
LEMMA FlushIs ==
    ASSUME imported' = Parser!Flush
    PROVE  /\ DOMAIN imported' = DOMAIN imported \cup block.aliases
           /\ \A a \in DOMAIN imported' :
                 imported'[a] = IF a \in block.aliases THEN Parser!BuildHost(a, block.values)
                                ELSE imported[a]
BY DEF Parser!Flush

LEMMA ReadsHostKeeps ==
    ASSUME ParserInv, Parser!SshConfigAssumption, NEW line \in Lines,
           Parser!Reads(line), Parser!ReadsHost(line)
    PROVE  ParserInv'
<1>1. PICK n : n = Len(config)
  OBVIOUS
<1>2. /\ ParserTyped /\ InHand /\ Named /\ n < MaxLines /\ config' = Append(config, line)
      /\ ~parsed /\ parsed' = parsed /\ line.kind = "host" /\ Parser!Splits(line)
      /\ imported' = Parser!Flush
      /\ block' = [aliases |-> Parser!FilterAliases(Parser!Words(line)), values |-> Parser!NoValues]
  BY <1>1 DEF ParserInv, Parser!Reads, Parser!ReadsHost
<1>3. /\ n \in Nat /\ config' \in Seq(Lines) /\ Len(config') <= MaxLines
      /\ DOMAIN config = 1..n /\ DOMAIN config' = 1..(n + 1)
      /\ \A i \in 1..n : i \in 1..(n + 1) /\ config'[i] = config[i]
      /\ config'[n + 1] = line /\ n + 1 \in 1..(n + 1)
  BY <1>1, <1>2, OneLineMore
<1>4. /\ block'.aliases = Parser!FilterAliases(Parser!Words(line))
      /\ block'.values = Parser!NoValues
      /\ block'.aliases \subseteq AllWords /\ Parser!NoValues \in Valuations
  BY <1>2, LineIs DEF Valuations, Parser!NoValues
<1>5. ParserTyped'
  BY <1>2, <1>3, <1>4 DEF ParserTyped
<1>6. IsHost(n + 1)'
  <2>1. ASSUME NEW h, h = n + 1 PROVE IsHost(h)'
    BY <1>2, <1>3, <2>1 DEF IsHost
  <2>. QED
    BY <2>1
<1>7. InHand'
  <2>1. PICK h \in 1..(n + 1) : h = n + 1
    BY <1>3
  <2>2. \A g \in 1..(n + 1) : ~(h < g)
    BY <1>3, <2>1
  <2>3. ASSUME NEW k \in Parser!Directives PROVE LastValue(h, k, None)'
    <3>1. \A i \in 1..(n + 1) : ~SetIn(h, i, k)'
      BY <2>2 DEF SetIn
    <3>. QED
      BY <1>3, <3>1 DEF LastValue
  <2>4. ReadFrom(h, Parser!NoValues)'
    BY <2>3 DEF ReadFrom, Parser!NoValues, Parser!Directives
  <2>5. ReadFrom(h, block.values)'
    BY <1>4, <2>4 DEF ReadFrom
  <2>6. IsHost(h)' /\ block'.aliases = Taken(h)'
    BY <1>2, <1>3, <1>4, <2>1 DEF IsHost, Taken
  <2>. QED
    BY <1>3, <2>2, <2>5, <2>6 DEF InHand, IsHost
<1>8. Named'
  <2>1. DOMAIN imported' = DOMAIN imported \cup block.aliases
    BY <1>2, FlushIs
  <2>2. ASSUME NEW a \in AllWords
        PROVE  Parser!Listed(a)' <=> a \in DOMAIN imported' \cup block'.aliases
    <3>1. Parser!Listed(a)' <=> Parser!Listed(a) \/ a \in Parser!Words(line)
      BY <1>1, <1>2, NamedThen
    <3>2. a # Parser!Wildcard
      BY DEF Parser!SshConfigAssumption, AllWords
    <3>3. Parser!Listed(a) <=> a \in DOMAIN imported \cup block.aliases
      BY <1>2 DEF Named
    <3>. QED
      BY <1>4, <2>1, <3>1, <3>2, <3>3 DEF Parser!FilterAliases
  <2>3. DOMAIN imported' \cup block'.aliases \subseteq AllWords
    BY <1>2, <1>4, <2>1 DEF Named, ParserTyped
  <2>. QED
    BY <1>2, <2>2, <2>3 DEF Named
<1>9. ASSUME NEW a \in DOMAIN imported' PROVE Stored(a)'
  <2>1. CASE a \in block.aliases
    <3>1. PICK h \in 1..n :
             /\ IsHost(h) /\ block.aliases = Taken(h)
             /\ ReadFrom(h, block.values)
      BY <1>2, <1>3, <2>1 DEF InHand
    <3>2. PICK w \in Valuations : w = block.values
      BY <1>2 DEF ParserTyped
    <3>3. ASSUME NEW k \in Parser!Directives PROVE LastValue(h, k, w[k])'
      <4>1. PICK v : v = w[k]
        OBVIOUS
      <4>2. LastValue(h, k, v)
        BY <3>1, <3>2, <4>1 DEF ReadFrom
      <4>3. LastValue(h, k, v)'
        BY <1>1, <1>2, <1>3, <4>2, LastValueStays
      <4>. QED
        BY <4>1, <4>3
    <3>4. ReadFrom(h, w)'
      BY <3>3 DEF ReadFrom
    <3>5. imported'[a] = Parser!BuildHost(a, w)
      BY <1>2, <2>1, <3>2, FlushIs DEF Parser!BuildHost
    <3>6. /\ IsHost(h)' /\ a \in Parser!Words(config'[h]) /\ h \in DOMAIN config'
          /\ n + 1 \in DOMAIN config' /\ h < n + 1
          /\ config'[n + 1].kind = "host" /\ Parser!Splits(config'[n + 1])
      BY <1>2, <1>3, <2>1, <3>1 DEF IsHost, Taken, Parser!FilterAliases
    <3>. QED
      BY <3>4, <3>5, <3>6 DEF Stored, IsHost, Parser!BuildHost
  <2>2. CASE a \notin block.aliases
    <3>1. a \in DOMAIN imported /\ imported'[a] = imported[a]
      BY <1>2, <2>2, FlushIs
    <3>. QED
      BY <1>1, <1>2, <3>1, StoredStays DEF ParserInv
  <2>. QED
    BY <2>1, <2>2
<1>. QED
  BY <1>5, <1>7, <1>8, <1>9 DEF ParserInv

\* Any other line leaves the inventory alone.
LEMMA InventoryRests ==
    ASSUME ParserInv, Parser!SshConfigAssumption, NEW line \in Lines,
           Parser!Reads(line), ~(line.kind = "host" /\ Parser!Splits(line)), imported' = imported,
           block'.aliases = block.aliases
    PROVE  Named' /\ \A a \in DOMAIN imported' : Stored(a)'
<1>1. PICK n : n = Len(config)
  OBVIOUS
<1>2. /\ ParserTyped /\ Named /\ n < MaxLines /\ config' = Append(config, line)
      /\ ~parsed /\ parsed' = parsed
  BY <1>1 DEF ParserInv, Parser!Reads
<1>3. Named'
  <2>1. \A a : Parser!Listed(a)' <=> Parser!Listed(a)
    BY <1>1, <1>2, NamedThen
  <2>. QED
    BY <1>2, <2>1 DEF Named
<1>4. ASSUME NEW a \in DOMAIN imported' PROVE Stored(a)'
  BY <1>1, <1>2, <1>4, StoredStays DEF ParserInv
<1>. QED
  BY <1>3, <1>4

LEMMA ReadsSetKeeps ==
    ASSUME ParserInv, Parser!SshConfigAssumption, NEW line \in Lines,
           Parser!Reads(line), Parser!ReadsSet(line)
    PROVE  ParserInv'
<1>1. PICK n : n = Len(config)
  OBVIOUS
<1>2. /\ ParserTyped /\ InHand /\ n < MaxLines /\ config' = Append(config, line)
      /\ parsed' = parsed /\ line.kind = "set" /\ Parser!Splits(line) /\ imported' = imported
      /\ block' = IF block.aliases = {} THEN block
                  ELSE [block EXCEPT !.values[line.key] = Parser!Value(line)]
  BY <1>1 DEF ParserInv, Parser!Reads, Parser!ReadsSet
<1>3. /\ n \in Nat /\ config' \in Seq(Lines) /\ Len(config') <= MaxLines
      /\ DOMAIN config = 1..n /\ DOMAIN config' = 1..(n + 1)
      /\ \A i \in 1..n : i \in 1..(n + 1) /\ config'[i] = config[i]
      /\ config'[n + 1] = line
      /\ \A i \in 1..(n + 1) : i \in 1..n \/ i = n + 1
  BY <1>1, <1>2, OneLineMore
<1>4. line.key \in Parser!Directives /\ Parser!Value(line) \in Values \cup {Parser!Sign}
  BY <1>2, LineIs
<1>5. /\ block'.aliases = block.aliases
      /\ block.aliases # {} => block'.values = [block.values EXCEPT ![line.key] = Parser!Value(line)]
      /\ block' \in [aliases : SUBSET AllWords, values : Valuations]
  BY <1>2, <1>4 DEF ParserTyped, Valuations
<1>6. ParserTyped'
  BY <1>2, <1>3, <1>5 DEF ParserTyped
<1>7. InHand'
  <2>. SUFFICES ASSUME block.aliases # {} PROVE InHand'
    BY <1>5 DEF InHand
  <2>1. PICK h \in 1..n :
           /\ IsHost(h) /\ block.aliases = Taken(h)
           /\ \A g \in 1..n : h < g => ~IsHost(g)
           /\ ReadFrom(h, block.values)
    BY <1>2, <1>3 DEF InHand
  <2>2. ASSUME NEW k \in Parser!Directives PROVE LastValue(h, k, block.values[k])'
    <3>1. CASE k = line.key
      <4>1. LastValue(h, k, Parser!Value(line))'
        BY <1>1, <1>2, <1>3, <2>1, <3>1, LastValueComes
      <4>2. block'.values[k] = Parser!Value(line)
        BY <1>2, <1>4, <1>5, <3>1 DEF ParserTyped, Valuations
      <4>3. PICK v : v = Parser!Value(line)
        OBVIOUS
      <4>4. LastValue(h, k, v)'
        BY <4>1, <4>3
      <4>. QED
        BY <4>2, <4>3, <4>4 DEF LastValue
    <3>2. CASE k # line.key
      <4>1. PICK v : v = block.values[k]
        OBVIOUS
      <4>2. LastValue(h, k, v)
        BY <2>1, <4>1 DEF ReadFrom
      <4>3. LastValue(h, k, v)'
        BY <1>1, <1>2, <1>3, <3>2, <4>2, LastValueStays
      <4>4. block'.values[k] = v
        BY <1>2, <1>4, <1>5, <3>2, <4>1 DEF ParserTyped, Valuations
      <4>. QED
        BY <4>3, <4>4 DEF LastValue
    <3>. QED
      BY <3>1, <3>2
  <2>3. ReadFrom(h, block.values)'
    BY <2>2 DEF ReadFrom
  <2>4. \A g \in 1..(n + 1) :
           h < g => ~(config'[g].kind = "host" /\ Parser!Splits(config'[g]))
    BY <1>2, <1>3, <2>1 DEF IsHost
  <2>5. IsHost(h)' /\ block'.aliases = Taken(h)'
    BY <1>3, <1>5, <2>1 DEF IsHost, Taken
  <2>. QED
    BY <1>3, <2>3, <2>4, <2>5 DEF InHand, IsHost
<1>8. Named' /\ \A a \in DOMAIN imported' : Stored(a)'
  BY <1>2, <1>5, InventoryRests
<1>. QED
  BY <1>6, <1>7, <1>8 DEF ParserInv

LEMMA ReadsOtherKeeps ==
    ASSUME ParserInv, Parser!SshConfigAssumption, NEW line \in Lines,
           Parser!Reads(line), Parser!ReadsOther(line)
    PROVE  ParserInv'
<1>1. PICK n : n = Len(config)
  OBVIOUS
<1>2. /\ ParserTyped /\ InHand /\ n < MaxLines /\ config' = Append(config, line)
      /\ parsed' = parsed /\ imported' = imported
      /\ line.kind \notin {"host", "set"} \/ ~Parser!Splits(line)
      /\ block' = block
  BY <1>1 DEF ParserInv, Parser!Reads, Parser!ReadsOther
<1>3. /\ n \in Nat /\ config' \in Seq(Lines) /\ Len(config') <= MaxLines
      /\ DOMAIN config = 1..n /\ DOMAIN config' = 1..(n + 1)
      /\ \A i \in 1..n : i \in 1..(n + 1) /\ config'[i] = config[i]
      /\ config'[n + 1] = line
      /\ \A i \in 1..(n + 1) : i \in 1..n \/ i = n + 1
  BY <1>1, <1>2, OneLineMore
<1>4. ParserTyped'
  BY <1>2, <1>3 DEF ParserTyped
<1>5. InHand'
  <2>. SUFFICES ASSUME block.aliases # {} PROVE InHand'
    BY <1>2 DEF InHand
  <2>1. PICK h \in 1..n :
           /\ IsHost(h) /\ block.aliases = Taken(h)
           /\ \A g \in 1..n : h < g => ~IsHost(g)
           /\ ReadFrom(h, block.values)
    BY <1>2, <1>3 DEF InHand
  <2>2. ASSUME NEW k \in Parser!Directives PROVE LastValue(h, k, block.values[k])'
    <3>1. PICK v : v = block.values[k]
      OBVIOUS
    <3>2. LastValue(h, k, v)
      BY <2>1, <3>1 DEF ReadFrom
    <3>3. LastValue(h, k, v)'
      BY <1>1, <1>2, <1>3, <3>2, LastValueStays
    <3>. QED
      BY <1>2, <3>1, <3>3 DEF LastValue
  <2>3. ReadFrom(h, block.values)'
    BY <2>2 DEF ReadFrom
  <2>4. \A g \in 1..(n + 1) :
           h < g => ~(config'[g].kind = "host" /\ Parser!Splits(config'[g]))
    BY <1>2, <1>3, <2>1 DEF IsHost
  <2>5. IsHost(h)' /\ block'.aliases = Taken(h)'
    BY <1>2, <1>3, <2>1 DEF IsHost, Taken
  <2>. QED
    BY <1>3, <2>3, <2>4, <2>5 DEF InHand, IsHost
<1>6. Named' /\ \A a \in DOMAIN imported' : Stored(a)'
  BY <1>2, InventoryRests
<1>. QED
  BY <1>4, <1>5, <1>6 DEF ParserInv

LEMMA ParseEndsKeeps == ParserInv /\ Parser!Ends => ParserInv'
<1>. SUFFICES ASSUME ParserInv, Parser!Ends PROVE ParserInv'
  OBVIOUS
<1>1. /\ ParserTyped /\ InHand /\ Named /\ \A a \in DOMAIN imported : Stored(a)
      /\ config' = config /\ block' = block /\ ~parsed /\ parsed' = TRUE
      /\ imported' = Parser!Flush
  BY DEF ParserInv, Parser!Ends
<1>2. /\ \A h, w : ReadFrom(h, w)' <=> ReadFrom(h, w)
      /\ \A h : IsHost(h)' <=> IsHost(h)
      /\ \A a : Parser!Listed(a)' <=> Parser!Listed(a)
  BY <1>1 DEF ReadFrom, LastValue, SetIn, IsHost, Parser!Listed
<1>3. ParserTyped' /\ InHand'
  BY <1>1 DEF ParserTyped, InHand, Taken, ReadFrom, LastValue, SetIn, IsHost
<1>4. Named'
  BY <1>1, <1>2, FlushIs DEF Named
<1>5. ASSUME NEW a \in DOMAIN imported' PROVE Stored(a)'
  <2>1. \E h \in DOMAIN config, w \in Valuations :
           /\ IsHost(h) /\ a \in Parser!Words(config[h]) /\ ReadFrom(h, w)
           /\ imported'[a] = Parser!BuildHost(a, w)
    <3>1. CASE a \in block.aliases
      <4>1. PICK h \in DOMAIN config :
               /\ IsHost(h) /\ block.aliases = Taken(h)
               /\ ReadFrom(h, block.values)
        BY <1>1, <3>1 DEF InHand
      <4>2. block.values \in Valuations /\ imported'[a] = Parser!BuildHost(a, block.values)
        BY <1>1, <3>1, FlushIs DEF ParserTyped
      <4>. QED
        BY <3>1, <4>1, <4>2 DEF Taken, Parser!FilterAliases
    <3>2. CASE a \notin block.aliases
      <4>1. a \in DOMAIN imported /\ imported'[a] = imported[a]
        BY <1>1, <3>2, FlushIs
      <4>. QED
        BY <1>1, <4>1 DEF Stored
    <3>. QED
      BY <3>1, <3>2
  <2>2. PICK h \in DOMAIN config, w \in Valuations :
           /\ IsHost(h) /\ a \in Parser!Words(config[h]) /\ ReadFrom(h, w)
           /\ imported'[a] = Parser!BuildHost(a, w)
    BY <2>1
  <2>3. ReadFrom(h, w)' /\ IsHost(h)'
    BY <1>2, <2>2
  <2>. QED
    BY <1>1, <2>2, <2>3 DEF Stored, Parser!BuildHost
<1>. QED
  BY <1>3, <1>4, <1>5 DEF ParserInv

LEMMA ParserRests == ParserInv /\ UNCHANGED Parser!vars => ParserInv'
<1>. SUFFICES ASSUME ParserInv, UNCHANGED Parser!vars PROVE ParserInv'
  OBVIOUS
<1>1. config' = config /\ block' = block /\ imported' = imported /\ parsed' = parsed
  BY DEF Parser!vars
<1>2. /\ \A h, w : ReadFrom(h, w)' <=> ReadFrom(h, w)
      /\ \A h : (IsHost(h)' <=> IsHost(h)) /\ Taken(h)' = Taken(h)
      /\ \A a : Parser!Listed(a)' <=> Parser!Listed(a)
  BY <1>1 DEF ReadFrom, LastValue, SetIn, IsHost, Taken, Parser!Listed
<1>3. ParserTyped' /\ InHand'
  BY <1>1, <1>2 DEF ParserInv, ParserTyped, InHand, ReadFrom, LastValue, SetIn, IsHost, Taken
<1>4. Named'
  BY <1>1, <1>2 DEF ParserInv, Named
<1>5. ASSUME NEW a \in DOMAIN imported' PROVE Stored(a)'
  <2>1. PICK h \in DOMAIN config, w \in Valuations :
           /\ IsHost(h) /\ a \in Parser!Words(config[h]) /\ ReadFrom(h, w)
           /\ imported[a] = Parser!BuildHost(a, w)
           /\ parsed \/ \E g \in DOMAIN config : h < g /\ IsHost(g)
    BY <1>1 DEF ParserInv, Stored
  <2>2. ReadFrom(h, w)' /\ IsHost(h)' /\ (parsed \/ \E g \in DOMAIN config : h < g /\ IsHost(g)')
    BY <1>2, <2>1
  <2>. QED
    BY <1>1, <2>1, <2>2 DEF Stored, Parser!BuildHost
<1>. QED
  BY <1>3, <1>4, <1>5 DEF ParserInv

LEMMA ParserInit == Parser!SshConfigAssumption /\ Parser!Init => ParserInv
<1>. SUFFICES ASSUME Parser!SshConfigAssumption, Parser!Init PROVE ParserInv
  OBVIOUS
<1>1. /\ config = << >> /\ parsed = FALSE /\ imported = << >>
      /\ block = [aliases |-> {}, values |-> Parser!NoValues]
  BY DEF Parser!Init
<1>2. Len(config) = 0 /\ config \in Seq(Lines) /\ DOMAIN config = {} /\ DOMAIN imported = {}
  BY <1>1
<1>3. Parser!NoValues \in Valuations
  BY DEF Valuations, Parser!NoValues
<1>4. ParserTyped
  <2>1. block \in [aliases : SUBSET AllWords, values : Valuations]
    BY <1>1, <1>3
  <2>2. 0 <= MaxLines
    BY DEF Parser!SshConfigAssumption
  <2>. QED
    BY <1>1, <1>2, <2>1, <2>2 DEF ParserTyped
<1>5. InHand /\ \A a \in DOMAIN imported : Stored(a)
  BY <1>1, <1>2 DEF InHand
<1>6. Named
  <2>1. \A a : ~Parser!Listed(a)
    BY <1>2 DEF Parser!Listed
  <2>. QED
    BY <1>1, <1>2, <2>1 DEF Named
<1>. QED
  BY <1>4, <1>5, <1>6 DEF ParserInv

LEMMA ParserInductive == ASSUME Parser!SshConfigAssumption PROVE Parser!Spec => []ParserInv
<1>1. ParserInv /\ [Parser!Next]_(Parser!vars) => ParserInv'
  BY ReadsHostKeeps, ReadsSetKeeps, ReadsOtherKeeps, ParseEndsKeeps, ParserRests
     DEF Parser!Next, Parser!Reads
<1>. QED
  BY <1>1, ParserInit, PTL DEF Parser!Spec

\* The line that opens the block of line i, if a host line comes before it.
LEMMA BlockIs ==
    ASSUME config \in Seq(Lines), NEW i \in DOMAIN config,
           NEW h \in DOMAIN config, IsHost(h), h <= i
    PROVE  /\ Parser!BlockOf(i) \in 1..i
           /\ config[Parser!BlockOf(i)].kind \in {"host", "match"}
           /\ \A j \in 1..i : config[j].kind \in {"host", "match"} => j <= Parser!BlockOf(i)
<1>. DEFINE S == {j \in 1..i : config[j].kind \in {"host", "match"}}
<1>1. i \in Nat /\ h \in Nat /\ h \in S
  BY DEF IsHost
<1>2. \E m \in S : \A j \in S : j <= m
  BY <1>1, Greatest
<1>3. Parser!BlockOf(i) = CHOOSE m \in S : \A j \in S : j <= m
  BY <1>1 DEF Parser!BlockOf
<1>. HIDE DEF S
<1>4. Parser!BlockOf(i) \in S /\ \A j \in S : j <= Parser!BlockOf(i)
  BY <1>2, <1>3
<1>. QED
  BY <1>4 DEF S

\* Where the file is plain, the lines that ssh looks at are those of the one block.
LEMMA PlainGives ==
    ASSUME ParserTyped, Parser!SshConfigAssumption,
           NEW a, NEW k, NEW h \in DOMAIN config, IsHost(h),
           a \in config[h].names, Parser!Plain(a, k)
    PROVE  Parser!Gives(a, k) = {i \in DOMAIN config : SetIn(h, i, k)}
<1>1. /\ config \in Seq(Lines) /\ Len(config) \in Nat /\ DOMAIN config = 1..Len(config)
  BY DEF ParserTyped
<1>2. Parser!Naming(a) = {h}
  <2>1. h \in Parser!Naming(a) /\ Parser!Naming(a) \in SUBSET (1..Len(config))
    BY <1>1 DEF Parser!Naming, IsHost
  <2>2. IsFiniteSet(Parser!Naming(a))
    <3>1. 1 \in Int /\ Len(config) \in Int
      BY <1>1
    <3>2. IsFiniteSet(1..Len(config))
      BY <3>1, FS_Interval
    <3>. QED
      BY <2>1, <3>2, FS_Subset
  <2>3. Cardinality(Parser!Naming(a)) = 1
    BY DEF Parser!Plain, Parser!Cardinality, Cardinality
  <2>4. PICK x : Parser!Naming(a) = {x}
    BY <2>2, <2>3, FS_Singleton
  <2>. QED
    BY <2>1, <2>4
<1>3. ASSUME NEW i \in DOMAIN config, SetIn(h, i, k) PROVE i \in Parser!Gives(a, k)
  <2>1. /\ h <= i /\ config[i].kind = "set" /\ config[i].key = k
        /\ \A g \in DOMAIN config : h < g /\ g <= i => ~IsHost(g)
    BY <1>1, <1>3 DEF SetIn
  <2>. DEFINE b == Parser!BlockOf(i)
  <2>2. b \in 1..i /\ config[b].kind \in {"host", "match"} /\ h <= b
    BY <1>1, <2>1, BlockIs DEF IsHost
  <2>. HIDE DEF b
  <2>3. b \in DOMAIN config /\ b <= i
    BY <1>1, <2>2
  <2>4. config[b].kind = "match" \/ b = h
    BY <1>1, <2>1, <2>2, <2>3 DEF IsHost, Parser!Plain
  <2>5. config[b].kind = "match" \/ Parser!Matches(config[b].names, a)
    BY <1>2, <2>4 DEF Parser!Plain
  <2>. QED
    BY <2>1, <2>5 DEF Parser!Gives, b
<1>4. ASSUME NEW i \in Parser!Gives(a, k) PROVE i \in DOMAIN config /\ SetIn(h, i, k)
  <2>1. /\ i \in DOMAIN config /\ config[i].kind = "set" /\ config[i].key = k
        /\ Parser!Splits(config[i])
    BY DEF Parser!Gives, Parser!Plain, Parser!Splits
  <2>2. Parser!BlockOf(i) = h
    BY <1>2 DEF Parser!Plain
  <2>3. h <= i
    <3>. DEFINE S == {j \in 1..i : config[j].kind \in {"host", "match"}}
    <3>1. S # {}
      BY <1>1, <2>2 DEF Parser!BlockOf
    <3>2. \E m \in S : \A j \in S : j <= m
      <4>1. S \subseteq 1..i /\ i \in Nat
        BY <1>1, <2>1
      <4>. HIDE DEF S
      <4>. QED
        BY <3>1, <4>1, Greatest
    <3>3. Parser!BlockOf(i) = CHOOSE m \in S : \A j \in S : j <= m
      BY <3>1 DEF Parser!BlockOf
    <3>4. Parser!BlockOf(i) \in S
      BY <3>2, <3>3
    <3>. QED
      BY <1>1, <2>1, <2>2, <3>4
  <2>4. \A g \in DOMAIN config : h < g /\ g <= i => ~IsHost(g)
    BY <1>1, <2>1, <2>2, <2>3, BlockIs DEF IsHost
  <2>5. h < i
    BY <1>1, <2>1, <2>3 DEF IsHost
  <2>. QED
    BY <2>1, <2>4, <2>5 DEF SetIn
<1>5. Parser!Gives(a, k) \subseteq DOMAIN config
  BY DEF Parser!Gives
<1>. QED
  BY <1>3, <1>4, <1>5

\* Where the file is plain, the last line of the block is the first one, too.
LEMMA PlainValue ==
    ASSUME ParserTyped, Parser!SshConfigAssumption,
           NEW a, NEW k, NEW h \in DOMAIN config, IsHost(h), a \in config[h].names,
           Parser!Plain(a, k), NEW v, LastValue(h, k, v)
    PROVE  v = Parser!SshValue(a, k)
<1>. DEFINE G == Parser!Gives(a, k)
<1>1. G = {i \in DOMAIN config : SetIn(h, i, k)}
  BY PlainGives
<1>2. /\ Len(config) \in Nat /\ DOMAIN config = 1..Len(config)
  BY DEF ParserTyped
<1>3. CASE v = None /\ \A i \in DOMAIN config : ~SetIn(h, i, k)
  <2>1. G = {}
    BY <1>1, <1>3
  <2>. QED
    BY <1>3, <2>1 DEF Parser!SshValue
<1>4. CASE \E i \in DOMAIN config :
              /\ SetIn(h, i, k) /\ v = Parser!Value(config[i])
              /\ \A j \in DOMAIN config : SetIn(h, j, k) => j <= i
  <2>1. PICK i \in G : v = config[i].value
    <3>1. PICK i \in G : v = Parser!Value(config[i])
      BY <1>1, <1>4
    <3>2. config[i].form = "blank"
      BY <3>1 DEF Parser!Plain
    <3>. QED
      BY <3>1, <3>2 DEF Parser!Value
  <2>2. IsFiniteSet(G) /\ i \in Int
    <3>1. 1 \in Int /\ Len(config) \in Int
      BY <1>2
    <3>2. IsFiniteSet(1..Len(config))
      BY <3>1, FS_Interval
    <3>3. G \subseteq 1..Len(config)
      BY <1>1, <1>2
    <3>4. i \in Int
      BY <1>2, <2>1, <3>3
    <3>. HIDE DEF G
    <3>. QED
      BY <3>2, <3>3, <3>4, FS_Subset
  <2>3. Cardinality(G) <= 1
    BY DEF Parser!Plain, Parser!Cardinality, Cardinality
  <2>4. ASSUME NEW j \in G PROVE j = i
    <3>. SUFFICES ASSUME j # i PROVE FALSE
      OBVIOUS
    <3>1. IsFiniteSet({i}) /\ Cardinality({i}) = 1
      BY FS_Singleton
    <3>2. Cardinality({i} \cup {j}) = 2
      BY <3>1, FS_AddElement, SMTT(30)
    <3>3. Cardinality({i} \cup {j}) <= Cardinality(G) /\ Cardinality(G) \in Nat
      BY <2>1, <2>2, FS_Subset, FS_CardinalityType
    <3>. QED
      BY <2>3, <3>2, <3>3
  <2>5. G = {i}
    BY <2>1, <2>4
  <2>6. (CHOOSE x \in {i} : \A j \in {i} : x <= j) = i
    BY <2>2
  <2>. QED
    BY <2>1, <2>5, <2>6 DEF Parser!SshValue
<1>. QED
  BY <1>3, <1>4 DEF LastValue

\* The import agrees with ssh as ImportAgrees says: the inventory has every host that a Host
\* line without `=` names, in whatever blocks and with whatever patterns, besides these only
\* negations and `=`, and where the file is plain about a value it has the one that ssh
\* uses, for files of any length.
THEOREM ImportAgreesWithSsh == Parser!Spec => []ImportAgrees
<1>. Parser!SshConfigAssumption
  BY CommandsAssumption
<1>1. ASSUME ParserInv PROVE Parser!ImportAgrees
  <2>. USE <1>1
  <2>1. /\ ParserTyped /\ Named
        /\ \A a \in DOMAIN imported : \E h \in DOMAIN config, w \in Valuations :
              /\ IsHost(h) /\ a \in Parser!Words(config[h]) /\ ReadFrom(h, w)
              /\ imported[a] = Parser!BuildHost(a, w)
    BY DEF ParserInv, Stored
  <2>3. ASSUME NEW a \in DOMAIN imported PROVE imported[a].hostname \in Values \cup {Parser!Sign, a}
    <3>1. PICK w \in Valuations : imported[a] = Parser!BuildHost(a, w)
      BY <2>1
    <3>. QED
      BY <3>1 DEF Valuations, Parser!Directives, Parser!BuildHost
  <2>4. Parser!TypeOK
    BY <2>1, <2>3 DEF ParserTyped, Valuations, AllWords, Parser!TypeOK
  <2>5. parsed => DOMAIN imported = {n \in Parser!Names \cup {Parser!Sign} : Parser!Listed(n)}
    BY <2>1 DEF Named, AllWords
  <2>6. ASSUME NEW a \in Aliases \cap DOMAIN imported, NEW k \in Parser!Directives, Parser!Plain(a, k)
        PROVE  imported[a][k] = Parser!BuildHost(a, [d \in Parser!Directives |-> Parser!SshValue(a, d)])[k]
    <3>1. PICK h \in DOMAIN config, w \in Valuations :
             /\ IsHost(h) /\ a \in Parser!Words(config[h]) /\ ReadFrom(h, w)
             /\ imported[a] = Parser!BuildHost(a, w)
      BY <2>1
    <3>2. LastValue(h, k, w[k])
      BY <3>1 DEF ReadFrom
    <3>3. a \in config[h].names
      BY <3>1 DEF Parser!Words, Parser!Names, Parser!SshConfigAssumption
    <3>4. PICK v : v = w[k]
      OBVIOUS
    <3>5. v = Parser!SshValue(a, k)
      BY <2>1, <2>6, <3>1, <3>2, <3>3, <3>4, PlainValue
    <3>. QED
      BY <3>1, <3>4, <3>5 DEF Parser!BuildHost, Valuations, Parser!Directives
  <2>. QED
    BY <2>4, <2>5, <2>6 DEF Parser!ImportAgrees
<1>. QED
  BY <1>1, ParserInductive, PTL DEF ImportAgrees

-----------------------------------------------------------------------------
(* Discover *)

\* A quotient, by its bounds.
LEMMA QuotientIs ==
    ASSUME NEW a \in Nat, NEW s \in Nat \ {0}, NEW q \in Nat
    PROVE  a \div s = q <=> s * q <= a /\ a < s * q + s
<1>1. PICK r \in Nat : r = a \div s
  OBVIOUS
<1>2. s * r <= a /\ a < s * r + s
  BY <1>1
<1>3. ASSUME NEW m \in Nat, NEW n \in Nat, m < n PROVE s * m + s <= s * n
  <2>1. PICK d \in Nat : n = m + 1 + d
    BY <1>3
  <2>2. s * n = s * m + s + s * d /\ s * d \in Nat
    BY <2>1
  <2>. QED
    BY <2>2
<1>4. CASE r = q
  BY <1>1, <1>2, <1>4
<1>5. CASE r < q
  <2>1. s * r + s <= s * q
    BY <1>3, <1>5
  <2>. QED
    BY <1>1, <1>2, <1>5, <2>1
<1>6. CASE q < r
  <2>1. s * q + s <= s * r
    BY <1>3, <1>6
  <2>. QED
    BY <1>1, <1>2, <1>6, <2>1
<1>. QED
  BY <1>1, <1>4, <1>5, <1>6

LEMMA IncIs ==
    ASSUME Network!DiscoverAssumption, NEW a \in Network!Space
    PROVE  Network!Inc(a) = IF a + 1 = Top THEN 0 ELSE a + 1
<1>1. Top \in Nat /\ Top # 0 /\ a \in Nat /\ a + 1 <= Top
  BY DEF Network!DiscoverAssumption, Network!Space
<1>2. CASE a + 1 = Top
  <2>1. (a + 1) % Top = 0
    BY <1>1, <1>2
  <2>. QED
    BY <1>2, <2>1 DEF Network!Inc
<1>3. CASE a + 1 < Top
  <2>1. (a + 1) % Top = a + 1
    BY <1>1, <1>3
  <2>. QED
    BY <1>1, <1>3, <2>1 DEF Network!Inc
<1>. QED
  BY <1>1, <1>2, <1>3

\* The range that is asked for: a block of addresses that begins at Masked.
Asked == range \in [ip : Network!Space, size : Blocks]

LEMMA RangeIs ==
    ASSUME Network!DiscoverAssumption, Asked
    PROVE  /\ range.size \in Nat \ {0} /\ Top \in Nat \ {0} /\ Network!Masked \in Nat
           /\ Network!Masked + range.size <= Top
           /\ \A a \in Network!Space :
                 Network!InRange(a) <=> Network!Masked <= a /\ a < Network!Masked + range.size
           /\ range.size = Top => Network!Masked = 0
<1>. DEFINE s == range.size
            q == range.ip \div s
<1>1. /\ Top \in Nat \ {0} /\ s \in Nat \ {0} /\ range.ip \in Nat /\ range.ip < Top
  <2>1. Top \in Nat \ {0} /\ s \in Nat \ {0} /\ range.ip \in 0..(Top - 1)
    BY DEF Asked, Network!DiscoverAssumption, Network!Space
  <2>. HIDE DEF s
  <2>. QED
    BY <2>1
<1>2. PICK k \in 1..Top : Top = s * k
  BY DEF Asked, Network!DiscoverAssumption
<1>3. q \in Nat
  BY <1>1
<1>. HIDE DEF s
<1>4. s * q <= range.ip /\ range.ip < s * q + s /\ s * q \in Nat
  BY <1>1, <1>3, QuotientIs
<1>5. q < k
  <2>1. SUFFICES ASSUME q >= k PROVE FALSE
    BY <1>2, <1>3
  <2>2. PICK d \in Nat : q = k + d
    BY <1>2, <1>3, <2>1
  <2>3. s * q = s * k + s * d /\ s * d \in Nat
    BY <1>1, <1>2, <2>2
  <2>. QED
    BY <1>1, <1>2, <1>4, <2>3
<1>6. s * q + s <= Top
  <2>0. k \in Nat /\ k - q - 1 \in Nat
    BY <1>2, <1>3, <1>5
  <2>1. PICK d \in Nat : d = k - q - 1
    BY <2>0
  <2>2. s * k = s * q + s + s * d /\ s * d \in Nat
    BY <1>1, <1>3, <2>0, <2>1
  <2>. QED
    BY <1>1, <1>2, <1>4, <2>2
<1>7. Network!Masked = s * q
  BY DEF Network!Masked, s
<1>. HIDE DEF q
<1>8. ASSUME NEW a \in Network!Space
      PROVE  Network!InRange(a) <=> s * q <= a /\ a < s * q + s
  <2>1. a \in Nat
    BY <1>8, <1>1 DEF Network!Space
  <2>2. a \div s = q <=> s * q <= a /\ a < s * q + s
    BY <1>1, <1>3, <2>1, QuotientIs
  <2>3. Network!InRange(a) <=> a \div s = q
    BY DEF Network!InRange, s, q
  <2>. QED
    BY <2>2, <2>3
<1>9. s = Top => s * q = 0
  BY <1>1, <1>4, <1>6
<1>. QED
  BY <1>1, <1>4, <1>6, <1>7, <1>8, <1>9 DEF s

ScanTyped ==
    /\ Asked /\ offers \in [Network!Space -> Services]
    /\ main = [pc |-> main.pc, at |-> main.at, next |-> main.next]
    /\ main.pc \in {"list", "spawn", "returned"} /\ main.at \in Network!Space
    /\ ips \in Seq(Network!Space) /\ discovered \in Seq(Network!Space)
    /\ scan \in Seq({"dial", "append", "leave", "done"})
    /\ main.next = Len(scan) + 1 /\ Len(scan) <= Len(ips)
    /\ main.pc = "list" => scan = << >>

\* The addresses of the range so far, one after the other; the range of all addresses is
\* listed for ever.
Listed ==
    /\ range.size = Top => main.pc = "list"
    /\ range.size # Top =>
          /\ Len(ips) <= range.size
          /\ \A k \in DOMAIN ips : ips[k] = Network!Masked + k - 1
          /\ main.pc = "list" =>
                main.at = IF Network!Masked + Len(ips) = Top THEN 0
                          ELSE Network!Masked + Len(ips)
          /\ main.pc # "list" => Len(ips) = range.size

\* As many places are taken as goroutines are under way.
Places == wg = sem /\ sem <= Pool
          /\ IsFiniteSet(Network!Scanning) /\ sem = Cardinality(Network!Scanning)

\* What goroutine i has made of its address.
Open(i) == offers[ips[i]] # "nothing"
GoroutineTells(i) ==
    /\ scan[i] = "append" => Open(i)
    /\ ips[i] \in Range(discovered) <=> Open(i) /\ scan[i] \in {"leave", "done"}

FoundOnce ==
    /\ \A a \in Range(discovered) : \E i \in DOMAIN scan : a = ips[i]
    /\ \A i, j \in DOMAIN discovered : discovered[i] = discovered[j] => i = j

\* Nobody is under way when Discover returns, and what is found is in order.
AllIn ==
    main.pc = "returned" =>
        /\ Len(scan) = Len(ips) /\ \A i \in DOMAIN scan : scan[i] = "done"
        /\ \A i, j \in DOMAIN discovered : i < j => discovered[i] <= discovered[j]

ScanInv ==
    /\ ScanTyped /\ Listed /\ Places /\ FoundOnce /\ AllIn
    /\ \A i \in DOMAIN scan : GoroutineTells(i)

\* Once the list is made, no address is on it twice.
LEMMA OwnAddress ==
    ASSUME Network!DiscoverAssumption, ScanTyped, Listed, main.pc # "list"
    PROVE  /\ DOMAIN ips = 1..Len(ips) /\ DOMAIN scan = 1..Len(scan)
           /\ Len(ips) \in Nat /\ Len(scan) \in Nat /\ Len(scan) <= Len(ips)
           /\ \A i \in DOMAIN scan : i \in DOMAIN ips
           /\ \A i \in DOMAIN ips : ips[i] \in Network!Space
           /\ \A i, j \in DOMAIN ips : ips[i] = ips[j] => i = j
<1>1. Network!Masked \in Nat
  BY RangeIs DEF ScanTyped
<1>2. /\ DOMAIN scan = 1..Len(scan) /\ DOMAIN ips = 1..Len(ips)
      /\ Len(scan) \in Nat /\ Len(ips) \in Nat /\ Len(scan) <= Len(ips)
      /\ \A k \in 1..Len(ips) : ips[k] \in Network!Space
  BY DEF ScanTyped
<1>3. \A i \in DOMAIN scan : i \in DOMAIN ips
  BY <1>2
<1>4. ASSUME NEW i \in DOMAIN ips, NEW j \in DOMAIN ips, ips[i] = ips[j] PROVE i = j
  <2>1. range.size # Top
    BY DEF Listed
  <2>2. ips[i] = Network!Masked + i - 1 /\ ips[j] = Network!Masked + j - 1
    BY <2>1 DEF Listed
  <2>3. i \in Nat /\ j \in Nat
    BY <1>2
  <2>4. Network!Masked + i - 1 = Network!Masked + j - 1
    BY <1>4, <2>2
  <2>. QED
    BY <1>1, <2>3, <2>4
<1>. QED
  BY <1>2, <1>3, <1>4

LEMMA ScanInit == Network!DiscoverAssumption /\ Network!Init => ScanInv
<1>. SUFFICES ASSUME Network!DiscoverAssumption, Network!Init PROVE ScanInv
  OBVIOUS
<1>1. /\ Asked /\ offers \in [Network!Space -> Services]
      /\ main = [pc |-> "list", at |-> Network!Masked, next |-> 1]
      /\ ips = << >> /\ sem = 0 /\ wg = 0 /\ scan = << >> /\ discovered = << >>
  BY DEF Network!Init, Asked
<1>2. /\ Network!Masked \in Nat /\ Network!Masked < Top /\ Top \in Nat
      /\ range.size \in Nat \ {0}
  BY <1>1, RangeIs
<1>3. Network!Masked \in Network!Space
  BY <1>2 DEF Network!Space
<1>4. Len(<< >>) = 0 /\ Range(<< >>) = {} /\ DOMAIN << >> = {}
  BY DEF Range
<1>5. ScanTyped
  BY <1>1, <1>3, <1>4 DEF ScanTyped
<1>6. Listed
  BY <1>1, <1>2, <1>4 DEF Listed
<1>7. Places
  <2>1. Network!Scanning = {}
    BY <1>1, <1>4 DEF Network!Scanning
  <2>2. Pool \in Nat
    BY DEF Network!DiscoverAssumption
  <2>. QED
    BY <1>1, <2>1, <2>2, FS_EmptySet DEF Places
<1>8. FoundOnce /\ AllIn /\ \A i \in DOMAIN scan : GoroutineTells(i)
  BY <1>1, <1>4 DEF FoundOnce, AllIn
<1>. QED
  BY <1>5, <1>6, <1>7, <1>8 DEF ScanInv

LEMMA ListsKeeps == Network!DiscoverAssumption /\ ScanInv /\ Network!Lists => ScanInv'
<1>. SUFFICES ASSUME Network!DiscoverAssumption, ScanInv, Network!Lists PROVE ScanInv'
  OBVIOUS
<1>1. /\ main.pc = "list" /\ UNCHANGED <<range, offers, sem, wg, scan, discovered>>
      /\ scan = << >> /\ ScanTyped /\ Listed
  BY DEF Network!Lists, ScanInv, ScanTyped
<1>2. /\ Network!Masked \in Nat /\ Top \in Nat /\ range.size \in Nat \ {0}
      /\ Network!Masked + range.size <= Top /\ (range.size = Top => Network!Masked = 0)
      /\ \A a \in Network!Space :
            Network!InRange(a) <=> Network!Masked <= a /\ a < Network!Masked + range.size
  BY <1>1, RangeIs DEF ScanTyped
<1>3. /\ main.at \in Network!Space /\ main.at \in Nat /\ ips \in Seq(Network!Space)
      /\ Len(ips) \in Nat
  BY <1>1 DEF ScanTyped, Network!Space
<1>4. Network!Masked' = Network!Masked /\ Network!Space' = Network!Space
  BY <1>1 DEF Network!Masked, Network!Space
<1>5. CASE Network!InRange(main.at)
  <2>1. /\ ips' = Append(ips, main.at)
        /\ main' = [pc |-> "list", at |-> Network!Inc(main.at), next |-> main.next]
    BY <1>1, <1>5 DEF Network!Lists, ScanTyped
  <2>2. Network!Inc(main.at) = IF main.at + 1 = Top THEN 0 ELSE main.at + 1
    BY <1>3, IncIs
  <2>3. Network!Inc(main.at) \in Network!Space
    BY <1>2, <1>3, <2>2 DEF Network!Space
  <2>4. /\ ips' \in Seq(Network!Space) /\ Len(ips') = Len(ips) + 1
        /\ \A k \in 1..Len(ips) : ips'[k] = ips[k]
        /\ ips'[Len(ips) + 1] = main.at
    BY <1>3, <2>1, AppendProperties
  <2>5. main'.pc = "list" /\ main'.at = Network!Inc(main.at) /\ main'.next = main.next
    BY <2>1
  <2>6. Len(scan) = 0
    BY <1>1
  <2>7. ScanTyped'
    BY <1>1, <1>3, <2>1, <2>3, <2>4, <2>5, <2>6 DEF ScanTyped, Asked, Network!Space
  <2>8. Listed'
    <3>1. SUFFICES ASSUME range.size # Top
                   PROVE  /\ Len(ips') <= range.size
                          /\ \A k \in DOMAIN ips' : ips'[k] = Network!Masked + k - 1
                          /\ main'.at = IF Network!Masked + Len(ips') = Top THEN 0
                                        ELSE Network!Masked + Len(ips')
      BY <1>1, <1>4, <2>5 DEF Listed
    <3>2. /\ Len(ips) <= range.size
          /\ \A k \in DOMAIN ips : ips[k] = Network!Masked + k - 1
          /\ main.at = IF Network!Masked + Len(ips) = Top THEN 0 ELSE Network!Masked + Len(ips)
      BY <1>1, <3>1 DEF Listed
    <3>3. Network!Masked <= main.at /\ main.at < Network!Masked + range.size
      BY <1>2, <1>3, <1>5
    <3>4. main.at = Network!Masked + Len(ips) /\ Len(ips) < range.size
      BY <1>2, <1>3, <3>1, <3>2, <3>3
    <3>5. DOMAIN ips = 1..Len(ips) /\ DOMAIN ips' = 1..(Len(ips) + 1)
      BY <1>3, <2>4
    <3>6. ASSUME NEW k \in 1..(Len(ips) + 1) PROVE ips'[k] = Network!Masked + k - 1
      <4>1. CASE k \in 1..Len(ips)
        BY <2>4, <3>2, <3>5, <4>1
      <4>2. CASE k = Len(ips) + 1
        BY <1>2, <1>3, <2>4, <3>4, <4>2
      <4>. QED
        BY <1>3, <4>1, <4>2
    <3>. QED
      BY <1>2, <1>3, <2>2, <2>4, <2>5, <3>4, <3>5, <3>6
  <2>9. FoundOnce' /\ AllIn' /\ \A i \in DOMAIN scan' : GoroutineTells(i)'
    <3>1. DOMAIN scan = {} /\ main'.pc # "returned"
      BY <1>1, <2>5
    <3>. QED
      BY <1>1, <3>1 DEF ScanInv, FoundOnce, AllIn
  <2>10. Places'
    BY <1>1 DEF ScanInv, Places, Network!Scanning
  <2>. QED
    BY <2>7, <2>8, <2>9, <2>10 DEF ScanInv
<1>6. CASE ~Network!InRange(main.at)
  <2>1. ips' = ips /\ main' = [pc |-> "spawn", at |-> main.at, next |-> main.next]
    BY <1>1, <1>6 DEF Network!Lists, ScanTyped
  <2>2. main'.pc = "spawn" /\ main'.at = main.at /\ main'.next = main.next
    BY <2>1
  <2>3. ScanTyped'
    BY <1>1, <1>3, <2>1, <2>2 DEF ScanTyped, Asked, Network!Space
  <2>4. ~(Network!Masked <= main.at /\ main.at < Network!Masked + range.size)
    BY <1>2, <1>3, <1>6
  <2>5. range.size # Top
    BY <1>2, <1>3, <2>4 DEF Network!Space
  <2>6. Len(ips) = range.size
    <3>1. /\ Len(ips) <= range.size
          /\ main.at = IF Network!Masked + Len(ips) = Top THEN 0 ELSE Network!Masked + Len(ips)
      BY <1>1, <2>5 DEF Listed
    <3>. QED
      BY <1>2, <1>3, <2>4, <3>1
  <2>7. Listed'
    BY <1>1, <1>4, <2>1, <2>2, <2>5, <2>6 DEF Listed
  <2>8. FoundOnce' /\ AllIn' /\ \A i \in DOMAIN scan' : GoroutineTells(i)'
    <3>1. DOMAIN scan = {} /\ main'.pc # "returned"
      BY <1>1, <2>2
    <3>. QED
      BY <1>1, <3>1 DEF ScanInv, FoundOnce, AllIn
  <2>9. Places'
    BY <1>1 DEF ScanInv, Places, Network!Scanning
  <2>. QED
    BY <2>3, <2>7, <2>8, <2>9 DEF ScanInv
<1>. QED
  BY <1>5, <1>6

\* A step that leaves the range and the list alone.
LEMMA ListedStays ==
    ASSUME Listed, UNCHANGED <<range, ips>>, main'.at = main.at, main.pc # "list",
           main'.pc # "list"
    PROVE  Listed'
<1>1. Network!Masked' = Network!Masked
  BY DEF Network!Masked
<1>. QED
  BY <1>1 DEF Listed

LEMMA ScanSpawnsKeeps == Network!DiscoverAssumption /\ ScanInv /\ Network!Spawns => ScanInv'
<1>. SUFFICES ASSUME Network!DiscoverAssumption, ScanInv, Network!Spawns PROVE ScanInv'
  OBVIOUS
<1>0. ScanTyped /\ Listed /\ Places /\ FoundOnce /\ AllIn /\ \A i \in DOMAIN scan : GoroutineTells(i)
  BY DEF ScanInv
<1>1. /\ main.pc = "spawn" /\ main.next <= Len(ips) /\ sem < Pool
      /\ sem' = sem + 1 /\ wg' = wg + 1 /\ scan' = Append(scan, "dial")
      /\ UNCHANGED <<range, offers, ips, discovered>>
  BY DEF Network!Spawns
<1>2. main' = [pc |-> "spawn", at |-> main.at, next |-> main.next + 1]
  BY <1>0, <1>1 DEF Network!Spawns, ScanTyped
<1>3. main'.pc = "spawn" /\ main'.at = main.at /\ main'.next = main.next + 1
  BY <1>2
<1>. DEFINE States == {"dial", "append", "leave", "done"}
            n == Len(scan)
<1>4. scan \in Seq(States) /\ n \in Nat /\ main.next = n + 1 /\ Len(ips) \in Nat
  BY <1>0 DEF ScanTyped
<1>5. /\ scan' \in Seq(States) /\ Len(scan') = n + 1 /\ DOMAIN scan' = 1..(n + 1)
      /\ DOMAIN scan = 1..n /\ \A i \in 1..n : scan'[i] = scan[i]
      /\ scan'[n + 1] = "dial"
  BY <1>1, <1>4, AppendProperties
<1>6. Network!Space' = Network!Space
  BY DEF Network!Space
<1>. HIDE DEF n
<1>7. ScanTyped'
  BY <1>0, <1>1, <1>2, <1>3, <1>4, <1>5, <1>6 DEF ScanTyped, Asked
<1>8. Listed'
  BY <1>0, <1>1, <1>3, ListedStays
<1>9. AllIn'
  BY <1>3 DEF AllIn
<1>10. DOMAIN scan' = DOMAIN scan \cup {n + 1} /\ n + 1 \notin DOMAIN scan
  BY <1>4, <1>5
<1>11. Places'
  <2>1. Network!Scanning' = Network!Scanning \cup {n + 1} /\ n + 1 \notin Network!Scanning
    BY <1>5, <1>10 DEF Network!Scanning
  <2>2. IsFiniteSet(Network!Scanning) /\ sem = Cardinality(Network!Scanning) /\ wg = sem
    BY <1>0 DEF Places
  <2>3. /\ IsFiniteSet(Network!Scanning')
        /\ Cardinality(Network!Scanning') = Cardinality(Network!Scanning) + 1
    BY <2>1, <2>2, FS_AddElement
  <2>4. sem \in Nat /\ Pool \in Nat
    BY <2>2, FS_CardinalityType DEF Network!DiscoverAssumption
  <2>. QED
    BY <1>1, <2>2, <2>3, <2>4 DEF Places
<1>12. FoundOnce'
  <2>1. \A a \in Range(discovered) : \E i \in DOMAIN scan' : a = ips[i]
    BY <1>0, <1>10 DEF FoundOnce
  <2>. QED
    BY <1>0, <1>1, <2>1 DEF FoundOnce
<1>13. ASSUME NEW i \in DOMAIN scan' PROVE GoroutineTells(i)'
  <2>1. CASE i \in DOMAIN scan
    BY <1>0, <1>1, <1>5, <2>1 DEF GoroutineTells, Open
  <2>2. CASE i = n + 1
    <3>1. i \in DOMAIN scan' /\ \A j \in DOMAIN scan : j \in DOMAIN scan' /\ j # i
      BY <1>10, <2>2
    <3>2. \A j \in DOMAIN scan : ips[j] # ips[i]
      <4>1. i \in DOMAIN ips
        BY <1>0, <1>1, <1>4, <2>2, OwnAddress
      <4>. QED
        BY <1>0, <1>1, <3>1, <4>1, OwnAddress
    <3>3. ips[i] \notin Range(discovered)
      BY <1>0, <3>2 DEF FoundOnce
    <3>4. scan'[i] = "dial"
      BY <1>5, <2>2
    <3>. QED
      BY <1>1, <3>3, <3>4 DEF GoroutineTells
  <2>. QED
    BY <1>10, <2>1, <2>2
<1>. QED
  BY <1>7, <1>8, <1>9, <1>11, <1>12, <1>13 DEF ScanInv

\* A list that was brought into order is the same list.
LEMMA InOrder ==
    ASSUME NEW S, NEW q \in Seq(S), NEW r \in Network!Sorted(q)
    PROVE  /\ r \in Seq(S) /\ Range(r) = Range(q)
           /\ \A i, j \in DOMAIN r : i < j => r[i] <= r[j]
           /\ (\A i, j \in DOMAIN q : q[i] = q[j] => i = j) =>
                 (\A i, j \in DOMAIN r : r[i] = r[j] => i = j)
<1>1. PICK p \in Network!Bijection(DOMAIN q, DOMAIN q) : r = [i \in DOMAIN q |-> q[p[i]]]
  BY DEF Network!Sorted
<1>2. /\ p \in [DOMAIN q -> DOMAIN q]
      /\ \A i, j \in DOMAIN q : p[i] = p[j] => i = j
      /\ \A j \in DOMAIN q : \E i \in DOMAIN q : p[i] = j
  BY DEF Network!Bijection, Network!Injection, Network!Surjection, Network!IsInjective
<1>3. DOMAIN r = DOMAIN q /\ \A i \in DOMAIN q : r[i] = q[p[i]]
  BY <1>1
<1>4. r \in Seq(S)
  <2>1. Len(q) \in Nat /\ DOMAIN q = 1..Len(q) /\ \A i \in 1..Len(q) : q[i] \in S
    OBVIOUS
  <2>2. r \in [1..Len(q) -> S]
    BY <1>1, <1>2, <2>1
  <2>. QED
    BY <2>1, <2>2
<1>5. Range(r) = Range(q)
  BY <1>2, <1>3 DEF Range
<1>6. \A i, j \in DOMAIN r : i < j => r[i] <= r[j]
  BY DEF Network!Sorted
<1>7. ASSUME \A i, j \in DOMAIN q : q[i] = q[j] => i = j
      PROVE  \A i, j \in DOMAIN r : r[i] = r[j] => i = j
  BY <1>2, <1>3, <1>7
<1>. QED
  BY <1>4, <1>5, <1>6, <1>7

LEMMA ReturnsKeeps == Network!DiscoverAssumption /\ ScanInv /\ Network!Returns => ScanInv'
<1>. SUFFICES ASSUME Network!DiscoverAssumption, ScanInv, Network!Returns PROVE ScanInv'
  OBVIOUS
<1>0. ScanTyped /\ Listed /\ Places /\ FoundOnce /\ AllIn /\ \A i \in DOMAIN scan : GoroutineTells(i)
  BY DEF ScanInv
<1>1. /\ main.pc = "spawn" /\ main.next > Len(ips) /\ wg = 0
      /\ discovered' \in Network!Sorted(discovered)
      /\ UNCHANGED <<range, offers, ips, sem, wg, scan>>
  BY DEF Network!Returns
<1>2. main' = [pc |-> "returned", at |-> main.at, next |-> main.next]
  BY <1>0, <1>1 DEF Network!Returns, ScanTyped
<1>3. main'.pc = "returned" /\ main'.at = main.at /\ main'.next = main.next
  BY <1>2
<1>4. discovered \in Seq(Network!Space)
  BY <1>0 DEF ScanTyped
<1>5. /\ discovered' \in Seq(Network!Space) /\ Range(discovered') = Range(discovered)
      /\ \A i, j \in DOMAIN discovered' : i < j => discovered'[i] <= discovered'[j]
      /\ \A i, j \in DOMAIN discovered' : discovered'[i] = discovered'[j] => i = j
  BY <1>0, <1>1, <1>4, InOrder DEF FoundOnce
<1>6. Network!Space' = Network!Space
  BY DEF Network!Space
<1>7. ScanTyped'
  BY <1>0, <1>1, <1>2, <1>3, <1>5, <1>6 DEF ScanTyped, Asked
<1>8. Listed'
  BY <1>0, <1>1, <1>3, ListedStays
<1>9. Places'
  BY <1>0, <1>1 DEF Places, Network!Scanning
<1>10. FoundOnce'
  BY <1>0, <1>1, <1>5 DEF FoundOnce
<1>11. \A i \in DOMAIN scan' : GoroutineTells(i)'
  BY <1>0, <1>1, <1>5 DEF GoroutineTells, Open
<1>12. AllIn'
  <2>1. Network!Scanning = {}
    BY <1>0, <1>1, FS_EmptySet DEF Places
  <2>2. \A i \in DOMAIN scan : scan[i] = "done"
    BY <2>1 DEF Network!Scanning
  <2>3. Len(scan) = Len(ips)
    BY <1>0, <1>1 DEF ScanTyped
  <2>. QED
    BY <1>1, <1>5, <2>2, <2>3 DEF AllIn
<1>. QED
  BY <1>7, <1>8, <1>9, <1>10, <1>11, <1>12 DEF ScanInv

\* What every step of a goroutine leaves alone.
LEMMA GoroutineStays ==
    ASSUME Network!DiscoverAssumption, ScanInv, NEW i \in DOMAIN scan, scan[i] # "done",
           NEW s \in {"append", "leave", "done"}, scan' = [scan EXCEPT ![i] = s],
           UNCHANGED <<range, offers, main, ips>>
    PROVE  /\ Asked' /\ Listed' /\ AllIn' /\ main.pc # "list" /\ Len(scan') = Len(scan)
           /\ scan' \in Seq({"dial", "append", "leave", "done"})
           /\ DOMAIN scan' = DOMAIN scan /\ scan'[i] = s
           /\ \A j \in DOMAIN scan : j # i => scan'[j] = scan[j]
<1>0. ScanTyped /\ Listed /\ AllIn
  BY DEF ScanInv
<1>. DEFINE States == {"dial", "append", "leave", "done"}
<1>1. scan \in Seq(States) /\ DOMAIN scan = 1..Len(scan) /\ Len(scan) \in Nat
  BY <1>0 DEF ScanTyped
<1>2. scan' \in Seq(States) /\ Len(scan') = Len(scan) /\ DOMAIN scan' = DOMAIN scan
  BY <1>1, ExceptSeq
<1>3. scan'[i] = s /\ \A j \in DOMAIN scan : j # i => scan'[j] = scan[j]
  BY <1>1
<1>4. main.pc # "list"
  BY <1>0 DEF ScanTyped
<1>5. main.pc # "returned"
  BY <1>0 DEF AllIn
<1>6. Asked'
  BY <1>0 DEF ScanTyped, Asked, Network!Space
<1>7. Listed'
  BY <1>0, <1>4, ListedStays
<1>8. AllIn'
  BY <1>5 DEF AllIn
<1>. QED
  BY <1>2, <1>3, <1>4, <1>6, <1>7, <1>8

LEMMA DialsKeeps ==
    ASSUME Network!DiscoverAssumption, ScanInv, NEW i \in DOMAIN scan, Network!Dials(i)
    PROVE  ScanInv'
<1>0. ScanTyped /\ Places /\ FoundOnce /\ \A j \in DOMAIN scan : GoroutineTells(j)
  BY DEF ScanInv
<1>1. PICK s \in {"append", "leave"} :
          s = IF offers[ips[i]] = "nothing" THEN "leave" ELSE "append"
  OBVIOUS
<1>2. /\ scan[i] = "dial" /\ scan' = [scan EXCEPT ![i] = s]
      /\ UNCHANGED <<range, offers, main, ips, sem, wg, discovered>>
  BY <1>1 DEF Network!Dials
<1>3. /\ Asked' /\ Listed' /\ AllIn' /\ Len(scan') = Len(scan)
      /\ scan' \in Seq({"dial", "append", "leave", "done"})
      /\ DOMAIN scan' = DOMAIN scan /\ scan'[i] = s
      /\ \A j \in DOMAIN scan : j # i => scan'[j] = scan[j]
  BY <1>2, GoroutineStays
<1>4. ScanTyped'
  <2>1. Network!Space' = Network!Space /\ main.pc # "list"
    BY <1>2, GoroutineStays DEF Network!Space
  <2>. QED
    BY <1>0, <1>2, <1>3, <2>1 DEF ScanTyped
<1>5. Places'
  <2>1. Network!Scanning' = Network!Scanning
    BY <1>1, <1>2, <1>3 DEF Network!Scanning
  <2>. QED
    BY <1>0, <1>2, <2>1 DEF Places
<1>6. FoundOnce'
  BY <1>0, <1>2, <1>3 DEF FoundOnce
<1>7. ASSUME NEW j \in DOMAIN scan PROVE GoroutineTells(j)'
  <2>1. CASE j = i
    BY <1>0, <1>1, <1>2, <1>3, <2>1 DEF GoroutineTells, Open
  <2>2. CASE j # i
    BY <1>0, <1>2, <1>3, <2>2 DEF GoroutineTells, Open
  <2>. QED
    BY <2>1, <2>2
<1>. QED
  BY <1>3, <1>4, <1>5, <1>6, <1>7 DEF ScanInv

LEMMA AppendsKeeps ==
    ASSUME Network!DiscoverAssumption, ScanInv, NEW i \in DOMAIN scan, Network!Appends(i)
    PROVE  ScanInv'
<1>0. ScanTyped /\ Listed /\ Places /\ FoundOnce /\ \A j \in DOMAIN scan : GoroutineTells(j)
  BY DEF ScanInv
<1>1. /\ scan[i] = "append" /\ scan' = [scan EXCEPT ![i] = "leave"]
      /\ discovered' = Append(discovered, ips[i])
      /\ UNCHANGED <<range, offers, main, ips, sem, wg>>
  BY DEF Network!Appends
<1>2. /\ Asked' /\ Listed' /\ AllIn' /\ main.pc # "list" /\ Len(scan') = Len(scan)
      /\ scan' \in Seq({"dial", "append", "leave", "done"})
      /\ DOMAIN scan' = DOMAIN scan /\ scan'[i] = "leave"
      /\ \A j \in DOMAIN scan : j # i => scan'[j] = scan[j]
  BY <1>1, GoroutineStays
<1>3. /\ \A j \in DOMAIN scan : j \in DOMAIN ips
      /\ \A j \in DOMAIN ips : ips[j] \in Network!Space
      /\ \A j, k \in DOMAIN ips : ips[j] = ips[k] => j = k
  BY <1>0, <1>2, OwnAddress
<1>. DEFINE n == Len(discovered)
<1>4. discovered \in Seq(Network!Space) /\ n \in Nat /\ DOMAIN discovered = 1..n
  BY <1>0 DEF ScanTyped
<1>5. PICK a \in Network!Space : a = ips[i]
  BY <1>3
<1>6. /\ discovered' \in Seq(Network!Space) /\ DOMAIN discovered' = 1..(n + 1)
      /\ \A k \in 1..n : discovered'[k] = discovered[k]
      /\ discovered'[n + 1] = a
  BY <1>1, <1>4, <1>5, AppendProperties
<1>7. a \notin Range(discovered)
  BY <1>0, <1>1, <1>5 DEF GoroutineTells
<1>. HIDE DEF n
<1>8. Range(discovered') = Range(discovered) \cup {a}
  BY <1>4, <1>6 DEF Range
<1>9. ScanTyped'
  <2>1. Network!Space' = Network!Space
    BY DEF Network!Space
  <2>. QED
    BY <1>0, <1>1, <1>2, <1>6, <2>1 DEF ScanTyped
<1>10. Places'
  <2>1. Network!Scanning' = Network!Scanning
    BY <1>1, <1>2 DEF Network!Scanning
  <2>. QED
    BY <1>0, <1>1, <2>1 DEF Places
<1>11. FoundOnce'
  <2>1. \A b \in Range(discovered') : \E j \in DOMAIN scan' : b = ips'[j]
    BY <1>0, <1>1, <1>2, <1>5, <1>8 DEF FoundOnce
  <2>2. ASSUME NEW j \in DOMAIN discovered', NEW k \in DOMAIN discovered',
               discovered'[j] = discovered'[k]
        PROVE  j = k
    <3>1. \A m \in 1..n : discovered'[m] # a
      BY <1>4, <1>6, <1>7 DEF Range
    <3>2. j \in 1..n \/ j = n + 1
      BY <1>4, <1>6
    <3>3. k \in 1..n \/ k = n + 1
      BY <1>4, <1>6
    <3>. QED
      BY <1>0, <1>4, <1>6, <2>2, <3>1, <3>2, <3>3 DEF FoundOnce
  <2>. QED
    BY <2>1, <2>2 DEF FoundOnce
<1>12. ASSUME NEW j \in DOMAIN scan PROVE GoroutineTells(j)'
  <2>1. CASE j = i
    BY <1>0, <1>1, <1>2, <1>5, <1>8, <2>1 DEF GoroutineTells, Open
  <2>2. CASE j # i
    <3>1. ips[j] # a
      BY <1>3, <1>5, <2>2
    <3>2. ips[j] \in Range(discovered') <=> ips[j] \in Range(discovered)
      BY <1>8, <3>1
    <3>. QED
      BY <1>0, <1>1, <1>2, <2>2, <3>2 DEF GoroutineTells, Open
  <2>. QED
    BY <2>1, <2>2
<1>. QED
  BY <1>2, <1>9, <1>10, <1>11, <1>12 DEF ScanInv

LEMMA LeavesKeeps ==
    ASSUME Network!DiscoverAssumption, ScanInv, NEW i \in DOMAIN scan, Network!Leaves(i)
    PROVE  ScanInv'
<1>0. ScanTyped /\ Places /\ FoundOnce /\ \A j \in DOMAIN scan : GoroutineTells(j)
  BY DEF ScanInv
<1>1. /\ scan[i] = "leave" /\ scan' = [scan EXCEPT ![i] = "done"]
      /\ sem' = sem - 1 /\ wg' = wg - 1
      /\ UNCHANGED <<range, offers, main, ips, discovered>>
  BY DEF Network!Leaves
<1>2. /\ Asked' /\ Listed' /\ AllIn' /\ main.pc # "list" /\ Len(scan') = Len(scan)
      /\ scan' \in Seq({"dial", "append", "leave", "done"})
      /\ DOMAIN scan' = DOMAIN scan /\ scan'[i] = "done"
      /\ \A j \in DOMAIN scan : j # i => scan'[j] = scan[j]
  BY <1>1, GoroutineStays
<1>3. ScanTyped'
  <2>1. Network!Space' = Network!Space
    BY DEF Network!Space
  <2>. QED
    BY <1>0, <1>1, <1>2, <2>1 DEF ScanTyped
<1>4. Places'
  <2>1. Network!Scanning' = Network!Scanning \ {i} /\ i \in Network!Scanning
    BY <1>1, <1>2 DEF Network!Scanning
  <2>2. IsFiniteSet(Network!Scanning) /\ sem = Cardinality(Network!Scanning) /\ wg = sem
        /\ sem <= Pool
    BY <1>0 DEF Places
  <2>3. /\ IsFiniteSet(Network!Scanning')
        /\ Cardinality(Network!Scanning') = Cardinality(Network!Scanning) - 1
    BY <2>1, <2>2, FS_RemoveElement
  <2>4. sem \in Nat /\ Pool \in Nat
    BY <2>2, FS_CardinalityType DEF Network!DiscoverAssumption
  <2>. QED
    BY <1>1, <2>2, <2>3, <2>4 DEF Places
<1>5. FoundOnce'
  BY <1>0, <1>1, <1>2 DEF FoundOnce
<1>6. ASSUME NEW j \in DOMAIN scan PROVE GoroutineTells(j)'
  <2>1. CASE j = i
    BY <1>0, <1>1, <1>2, <2>1 DEF GoroutineTells, Open
  <2>2. CASE j # i
    BY <1>0, <1>1, <1>2, <2>2 DEF GoroutineTells, Open
  <2>. QED
    BY <2>1, <2>2
<1>. QED
  BY <1>2, <1>3, <1>4, <1>5, <1>6 DEF ScanInv

LEMMA ScanKept ==
    Network!DiscoverAssumption /\ ScanInv /\ [Network!Next]_(Network!vars) => ScanInv'
<1>. SUFFICES ASSUME Network!DiscoverAssumption, ScanInv, [Network!Next]_(Network!vars)
              PROVE  ScanInv'
  OBVIOUS
<1>1. CASE Network!Lists
  BY <1>1, ListsKeeps
<1>2. CASE Network!Spawns
  BY <1>2, ScanSpawnsKeeps
<1>3. CASE Network!Returns
  BY <1>3, ReturnsKeeps
<1>4. ASSUME NEW i \in DOMAIN scan, Network!Goroutine(i) PROVE ScanInv'
  BY <1>4, DialsKeeps, AppendsKeeps, LeavesKeeps DEF Network!Goroutine
<1>5. CASE UNCHANGED Network!vars
  <2>1. UNCHANGED <<range, offers, main, ips, sem, wg, scan, discovered>>
    BY <1>5 DEF Network!vars
  <2>2. ScanTyped' /\ Listed' /\ Places' /\ FoundOnce' /\ AllIn'
    BY <2>1 DEF ScanInv, ScanTyped, Asked, Network!Space, Listed, Network!Masked, Places,
                Network!Scanning, FoundOnce, AllIn
  <2>3. \A i \in DOMAIN scan' : GoroutineTells(i)'
    BY <2>1 DEF ScanInv, GoroutineTells, Open
  <2>. QED
    BY <2>2, <2>3 DEF ScanInv
<1>. QED
  BY <1>1, <1>2, <1>3, <1>4, <1>5 DEF Network!Next

LEMMA ScanInductive == Network!DiscoverAssumption /\ Network!Spec => []ScanInv
<1>1. ASSUME Network!DiscoverAssumption PROVE Network!Spec => []ScanInv
  BY <1>1, ScanInit, ScanKept, PTL DEF Network!Spec
<1>. QED
  BY <1>1

LEMMA ScanTells == Network!DiscoverAssumption /\ ScanInv => OpenOnesFound
<1>. SUFFICES ASSUME Network!DiscoverAssumption, ScanInv PROVE OpenOnesFound
  OBVIOUS
<1>0. /\ ScanTyped /\ Listed /\ Places /\ FoundOnce /\ AllIn
      /\ \A i \in DOMAIN scan : GoroutineTells(i)
  BY DEF ScanInv
<1>. DEFINE seen == Range(discovered)
<1>1. Network!Range(discovered) = seen
  BY DEF Network!Range, Range
<1>2. Network!Cardinality(Network!Scanning) = Cardinality(Network!Scanning)
  BY DEF Network!Cardinality, Cardinality
<1>3. \A a \in seen : a \in Network!Space
  BY <1>0 DEF ScanTyped, Range
<1>. HIDE DEF seen
<1>4. Network!TypeOK
  BY <1>0, <1>1, <1>2, <1>3 DEF Network!TypeOK, ScanTyped, Places
<1>5. ASSUME main.pc = "returned"
      PROVE  /\ seen = {a \in Network!Space : Network!InRange(a) /\ offers[a] # "nothing"}
             /\ \A i, j \in DOMAIN discovered : i < j => discovered[i] < discovered[j]
  <2>1. /\ DOMAIN ips = 1..Len(ips) /\ DOMAIN scan = 1..Len(scan) /\ Len(scan) = Len(ips)
        /\ \A i \in DOMAIN scan : scan[i] = "done"
        /\ \A i, j \in DOMAIN discovered : i < j => discovered[i] <= discovered[j]
    BY <1>0, <1>5, OwnAddress DEF AllIn
  <2>2. /\ Network!Masked \in Nat /\ range.size \in Nat \ {0}
        /\ \A a \in Network!Space :
              Network!InRange(a) <=> Network!Masked <= a /\ a < Network!Masked + range.size
    BY <1>0, RangeIs DEF ScanTyped
  <2>3. /\ Len(ips) = range.size /\ \A k \in DOMAIN ips : ips[k] = Network!Masked + k - 1
    BY <1>0, <1>5 DEF Listed
  <2>4. \A i \in DOMAIN scan : ips[i] \in seen <=> offers[ips[i]] # "nothing"
    BY <1>0, <2>1 DEF GoroutineTells, Open, seen
  <2>5. \A a \in seen : \E i \in DOMAIN scan : a = ips[i]
    BY <1>0 DEF FoundOnce, seen
  <2>6. ASSUME NEW a \in Network!Space
        PROVE  Network!InRange(a) <=> \E i \in DOMAIN scan : a = ips[i]
    <3>1. a \in Nat
      BY <1>0 DEF Network!Space, Network!DiscoverAssumption
    <3>2. ASSUME NEW i \in DOMAIN scan, a = ips[i] PROVE Network!InRange(a)
      BY <2>1, <2>2, <2>3, <3>1, <3>2
    <3>3. ASSUME Network!InRange(a) PROVE \E i \in DOMAIN scan : a = ips[i]
      <4>1. PICK i \in Nat : i = a + 1 - Network!Masked
        BY <2>2, <3>1, <3>3
      <4>2. i \in DOMAIN scan
        BY <2>1, <2>2, <2>3, <3>1, <3>3, <4>1
      <4>3. ips[i] = Network!Masked + i - 1
        BY <2>1, <2>3, <4>2
      <4>. QED
        BY <2>2, <3>1, <4>1, <4>2, <4>3
    <3>. QED
      BY <3>2, <3>3
  <2>7. seen = {a \in Network!Space : Network!InRange(a) /\ offers[a] # "nothing"}
    BY <1>3, <2>4, <2>5, <2>6
  <2>8. ASSUME NEW i \in DOMAIN discovered, NEW j \in DOMAIN discovered, i < j
        PROVE  discovered[i] < discovered[j]
    <3>0. /\ discovered[i] \in Network!Space /\ discovered[j] \in Network!Space
          /\ DOMAIN discovered = 1..Len(discovered) /\ Len(discovered) \in Nat
      BY <1>0 DEF ScanTyped
    <3>1. discovered[i] \in Nat /\ discovered[j] \in Nat
      BY <3>0 DEF Network!Space
    <3>2. i \in Nat /\ j \in Nat
      BY <3>0
    <3>3. discovered[i] # discovered[j]
      BY <1>0, <2>8, <3>2 DEF FoundOnce
    <3>. QED
      BY <2>1, <2>8, <3>1, <3>3
  <2>. QED
    BY <2>7, <2>8
<1>. QED
  BY <1>1, <1>4, <1>5 DEF OpenOnesFound, Network!OpenOnesFound

\* When Discover returns it has found every address of the range that has the port open,
\* once and in order, and it never had more connections under way than the pool has places.
THEOREM ScanFindsTheOpenOnes == Network!Spec => []OpenOnesFound
<1>1. Network!DiscoverAssumption
  BY CommandsAssumption
<1>2. Network!Spec => []ScanInv
  BY <1>1, ScanInductive
<1>3. ScanInv => OpenOnesFound
  BY <1>1, ScanTells
<1>. QED
  BY <1>2, <1>3, PTL
=============================================================================
