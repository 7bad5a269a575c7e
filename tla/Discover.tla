------------------------------- MODULE Discover -------------------------------
(***************************************************************************)
(* hosts discover (internal/hosts, Discover): the addresses of a CIDR range *)
(* are listed, and a goroutine for each, so many at a time, connects to its *)
(* ssh port and tries a handshake.  An address is its number, as it is for  *)
(* IPv4; a mask leaves blocks of a size that divides the space.             *)
(***************************************************************************)
EXTENDS Naturals, Sequences, FiniteSets, Functions

CONSTANTS
    Top,          \* how many addresses there are
    Blocks,       \* sizes of the ranges that may be asked for
    Pool,         \* goroutines at a time (64 in the code)
    Services      \* what an address may offer

DiscoverAssumption ==
    /\ Top \in Nat \ {0} /\ Blocks \subseteq Nat \ {0}
    /\ \A b \in Blocks : \E k \in 1..Top : Top = b * k
    /\ Pool \in Nat \ {0}
    /\ Services \subseteq {"nothing", "other", "ssh"}

VARIABLES
    range,        \* the range: an address in it and its size
    offers,       \* the network
    main,         \* Discover: control point, address in hand, next to start
    ips,          \* the addresses listed
    sem, wg,      \* the semaphore and the WaitGroup
    scan,         \* the goroutines, by position in ips
    found         \* discovered

vars == <<range, offers, main, ips, sem, wg, scan, found>>

-----------------------------------------------------------------------------
(* Addresses *)

Space == 0..(Top - 1)
InRange(a) == a \div range.size = range.ip \div range.size
Masked == range.size * (range.ip \div range.size)

\* incIP, with the carry through all bytes and out of the first one.
Inc(a) == (a + 1) % Top

\* What sort.Slice may make of a list, by the numbers of the addresses.
Sorted(as) ==
    {bs \in {[i \in DOMAIN as |-> as[p[i]]] : p \in Bijection(DOMAIN as, DOMAIN as)} :
        \A i, j \in DOMAIN bs : i < j => bs[i] <= bs[j]}

-----------------------------------------------------------------------------
(* Discover *)

Lists ==
    /\ main.pc = "list"
    /\ Len(ips) <= Top              \* bound
    /\ IF InRange(main.at)
       THEN ips' = Append(ips, main.at) /\ main' = [main EXCEPT !.at = Inc(@)]
       ELSE main' = [main EXCEPT !.pc = "spawn"] /\ UNCHANGED ips
    /\ UNCHANGED <<range, offers, sem, wg, scan, found>>

\* wg.Add, a place in the semaphore, and the goroutine.
Spawns ==
    /\ main.pc = "spawn" /\ main.next <= Len(ips) /\ sem < Pool
    /\ sem' = sem + 1 /\ wg' = wg + 1
    /\ scan' = Append(scan, "dial")
    /\ main' = [main EXCEPT !.next = @ + 1]
    /\ UNCHANGED <<range, offers, ips, found>>

\* Variant: nobody waits for the last goroutines.
ReturnsEarly ==
    /\ main.pc = "spawn" /\ main.next > Len(ips)
    /\ main' = [main EXCEPT !.pc = "returned"]
    /\ found' \in Sorted(found)
    /\ UNCHANGED <<range, offers, ips, sem, wg, scan>>

Returns ==
    /\ main.pc = "spawn" /\ main.next > Len(ips) /\ wg = 0
    /\ main' = [main EXCEPT !.pc = "returned"]
    /\ found' \in Sorted(found)
    /\ UNCHANGED <<range, offers, ips, sem, wg, scan>>

\* The port is open, or it is not, or does not answer in time.
Dials(i) ==
    /\ scan[i] = "dial"
    /\ scan' = [scan EXCEPT ![i] = IF offers[ips[i]] = "nothing" THEN "leave" ELSE "append"]
    /\ UNCHANGED <<range, offers, main, ips, sem, wg, found>>

\* Whatever comes of the handshake the address is kept; it only decides the banner.
Appends(i) ==
    /\ scan[i] = "append"
    /\ found' = Append(found, ips[i])
    /\ scan' = [scan EXCEPT ![i] = "leave"]
    /\ UNCHANGED <<range, offers, main, ips, sem, wg>>

\* Variant: a goroutine that has found nothing keeps its place in the semaphore.
LeavesIfFound(i) ==
    /\ scan[i] = "leave"
    /\ sem' = IF offers[ips[i]] = "nothing" THEN sem ELSE sem - 1
    /\ wg' = wg - 1
    /\ scan' = [scan EXCEPT ![i] = "done"]
    /\ UNCHANGED <<range, offers, main, ips, found>>

Leaves(i) ==
    /\ scan[i] = "leave"
    /\ sem' = sem - 1 /\ wg' = wg - 1
    /\ scan' = [scan EXCEPT ![i] = "done"]
    /\ UNCHANGED <<range, offers, main, ips, found>>

-----------------------------------------------------------------------------
(* Specification *)

Init ==
    /\ range \in [ip : Space, size : Blocks]
    /\ offers \in [Space -> Services]
    /\ main = [pc |-> "list", at |-> Masked, next |-> 1]
    /\ ips = << >> /\ sem = 0 /\ wg = 0 /\ scan = << >> /\ found = << >>

Goroutine(i) == Dials(i) \/ Appends(i) \/ Leaves(i)

Next == Lists \/ Spawns \/ Returns \/ \E i \in DOMAIN scan : Goroutine(i)

Spec == Init /\ [][Next]_vars

\* Every goroutine runs, and a connection or a handshake has its time limit.
FairSpec ==
    Spec /\ WF_vars(Lists \/ Spawns \/ Returns)
         /\ \A i \in 1..Top : WF_vars(i \in DOMAIN scan /\ Goroutine(i))

-----------------------------------------------------------------------------
(* Properties *)

Scanning == {i \in DOMAIN scan : scan[i] # "done"}

TypeOK ==
    /\ main.pc \in {"list", "spawn", "returned"} /\ ips \in Seq(Space)
    /\ sem = Cardinality(Scanning) /\ sem <= Pool /\ wg = sem
    /\ Range(found) \subseteq Space

\* The result is every address of the range that has the port open, once, in order,
\* and on the way there are never more connections than the pool has places.
OpenOnesFound ==
    /\ TypeOK
    /\ main.pc = "returned" =>
          /\ Range(found) = {a \in Space : InRange(a) /\ offers[a] # "nothing"}
          /\ \A i, j \in DOMAIN found : i < j => found[i] < found[j]

\* It comes to an end, however few places the pool has.
ScanEnds == <>(main.pc = "returned")
=============================================================================
