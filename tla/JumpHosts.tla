----------------------------- MODULE JumpHosts ------------------------------
(***************************************************************************)
(* Host resolution (internal/hosts Resolve, internal/cli resolveTarget):    *)
(* an alias of the inventory names its jump hosts, which are aliases with   *)
(* jump hosts of their own.  Resolve flattens them into the list of hops    *)
(* that ssh -J walks.  The inventory changes between two commands; within   *)
(* one it does not.                                                         *)
(***************************************************************************)
EXTENDS Naturals, SequencesExt

CONSTANTS
    Aliases,      \* names of hosts in the inventory
    Endpoints,    \* host names that are not in the inventory
    MaxVia        \* bound: jump hosts of one host

JumpHostsAssumption ==
    /\ Aliases \cap Endpoints = {}
    /\ MaxVia \in Nat

VARIABLE via      \* the inventory: the Via list of every alias it has

Names == Aliases \cup Endpoints
Known == DOMAIN via
ViaLists == BoundedSeq(Names, MaxVia)

-----------------------------------------------------------------------------
(* Resolve *)

\* An error, or the hops on the way to a host, the host itself not included.
Failed(why) == [ok |-> FALSE, hops |-> << >>, why |-> why]
Hops(hs) == [ok |-> TRUE, hops |-> hs, why |-> "none"]

\* Variant: the hops of a jump host are put after it.
AppendsHostFirst(sofar, hop, rest) ==
    IF ~sofar.ok THEN sofar
    ELSE IF ~rest.ok THEN rest
    ELSE Hops(sofar.hops \o <<hop>> \o rest.hops)

\* One round of the loop over host.Via: an error of an earlier or of this jump
\* host is the result, else the hops of the jump host and the jump host itself
\* are appended.
Appends(sofar, hop, rest) ==
    IF ~sofar.ok THEN sofar
    ELSE IF ~rest.ok THEN rest
    ELSE Hops(sofar.hops \o rest.hops \o <<hop>>)

\* The loop: what is there after each round, when jump host x resolves to h[x].
Rounds(list, h) ==
    LET round[i \in 0..Len(list)] ==
            IF i = 0 THEN Hops(<< >>) ELSE Appends(round[i - 1], list[i], h[list[i]])
    IN  round

Flatten(list, h) == Rounds(list, h)[Len(list)]

\* Variant: an alias is not taken off the stack, so that the second of two hosts
\* that share a jump host finds it there.
ResolvesOnce ==
    LET R[stack \in SUBSET Known] ==
            [a \in Names |->
                IF a \in stack THEN Failed("cycle")
                ELSE IF a \notin Known THEN Failed("missing")
                ELSE FoldLeftDomain(
                        LAMBDA sofar, i :
                            Appends(sofar, via[a][i],
                                    R[stack \cup {a} \cup ({via[a][k] : k \in 1..(i - 1)} \cap Known)][via[a][i]]),
                        Hops(<< >>), via[a])]
    IN  R[{}]

\* resolve, by the set of aliases on its stack; an alias leaves the stack when its
\* call returns.
ResolvesFrom[stack \in SUBSET Known] ==
    [a \in Names |->
        IF a \in stack THEN Failed("cycle")
        ELSE IF a \notin Known THEN Failed("missing")
        ELSE Flatten(via[a], ResolvesFrom[stack \cup {a}])]

Resolves == ResolvesFrom[{}]

\* resolveTarget without overrides: a name that is not in the inventory is an
\* endpoint, reached directly.
Target(name) == IF name \in Known THEN Resolves[name] ELSE Hops(<< >>)

\* resolveVia, for --via: an alias is flattened, anything else is an endpoint.
ViaOverride(list) == Flatten(list, [name \in Names |-> Target(name)])

-----------------------------------------------------------------------------
(* The inventory *)

Init == via = [a \in {} |-> << >>]

\* hosts set, hosts import-ssh-config: jump hosts are not looked up.
SetHost(a, list) ==
    via' = [b \in Known \cup {a} |-> IF b = a THEN list ELSE via[b]]

\* hosts remove: those who jump through the host are not looked at.
RemoveHost(a) ==
    /\ a \in Known
    /\ via' = [b \in Known \ {a} |-> via[b]]

Next == \E a \in Aliases : RemoveHost(a) \/ \E list \in ViaLists : SetHost(a, list)

Spec == Init /\ [][Next]_via

-----------------------------------------------------------------------------
(* Properties *)

TypeOK == Known \subseteq Aliases /\ via \in [Known -> ViaLists]

\* What a host needs, directly or through others: what is in every set that has its
\* jump hosts and, with a host, the jump hosts of that.
JumpsTo(a) == IF a \in Known THEN ToSet(via[a]) ELSE {}
Closed(S) == \A c \in S : JumpsTo(c) \subseteq S
Needed(a) ==
    {b \in Names : \A S \in SUBSET Names : JumpsTo(a) \subseteq S /\ Closed(S) => b \in S}

\* Resolve fails exactly for the hosts that need a host that is not there or that
\* needs itself; it terminates on every other inventory, however hosts share jumps.
\* And the inventory is well typed.
FailsIffBroken ==
    /\ TypeOK
    /\ \A a \in Known :
          Resolves[a].ok <=> \A b \in Needed(a) : b \in Known /\ b \notin Needed(b)

\* The hops that the entry of a hop asks for are directly before it, in the order in
\* which its own resolution gives them, and the target is not among the hops.  What
\* comes before those, ssh -J walks as well: with via = <<b, c>> c is reached through
\* b, whether or not the entry of c asks for it.  resolveVia is a second implementation of the same flattening: --via gives the
\* hops that the same list gives in the inventory, whenever that can be resolved.
HopsInOrder ==
    \A a \in Known :
        LET hs == Resolves[a].hops IN
        /\ Resolves[a].ok => ViaOverride(via[a]) = Resolves[a]
        /\ a \notin ToSet(hs)
        /\ \A i \in DOMAIN hs :
              LET own == Resolves[hs[i]].hops IN
              /\ Len(own) < i
              /\ SubSeq(hs, i - Len(own), i - 1) = own
=============================================================================
