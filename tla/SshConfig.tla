------------------------------ MODULE SshConfig ------------------------------
(***************************************************************************)
(* hosts import-ssh-config (internal/sshconfig, Parse): a client            *)
(* configuration of ssh is read line by line into an inventory.  What comes *)
(* out is compared with what ssh itself uses for a host.                    *)
(***************************************************************************)
EXTENDS Naturals, Sequences, FiniteSets

CONSTANTS
    Aliases,      \* names of hosts
    Negations,    \* the same with `!` in front
    Without,      \* Without[m] is m without its `!`
    Values,       \* values of directives
    Lines,        \* the lines that the file may have
    None,         \* no value
    MaxLines      \* bound: lines of the file

VARIABLES
    file,         \* the lines read so far
    current,      \* currentAliases and currentValues
    inv,          \* the inventory
    ended         \* the end of the file has been reached

vars == <<file, current, inv, ended>>

-----------------------------------------------------------------------------
(* Lines *)

Wildcard == "*"

Sign == "="

Directives == {"hostname", "user"}

\* What stands between the keyword and the rest: blanks; `=` without blanks; `=` between
\* blanks.  ssh takes the three for the same.
Forms == {"blank", "tight", "loose"}

Names == Aliases \cup Negations

HostLines == [kind : {"host"}, form : Forms, names : SUBSET (Names \cup {Wildcard}) \ {{}}]
SetLines == [kind : {"set"}, form : Forms, key : Directives, value : Values]
MatchLine == [kind |-> "match", form |-> "blank"]
Comment == [kind |-> "comment", form |-> "blank"]

SshConfigAssumption ==
    /\ Lines \subseteq HostLines \cup SetLines \cup {MatchLine, Comment}
    /\ Wildcard \notin Names /\ Sign \notin Names \cup {Wildcard}
    /\ Aliases \cap Negations = {} /\ Without \in [Negations -> Aliases]
    /\ MaxLines \in Nat

NoValues == [k \in Directives |-> None]

-----------------------------------------------------------------------------
(* Parse *)

\* buildHost: a host without HostName is reached by its alias.
BuildHost(a, values) ==
    [values EXCEPT !["hostname"] = IF @ = None THEN a ELSE @]

\* flush: the values read belong to every alias of the Host line.
Flush == [a \in DOMAIN inv \cup current.aliases |->
             IF a \in current.aliases THEN BuildHost(a, current.values) ELSE inv[a]]

\* splitDirective: without a blank there is no directive, and a sign behind a blank is the
\* first word of the value.
Splits(line) == line.form # "tight"
Words(line) == line.names \cup (IF line.form = "loose" THEN {Sign} ELSE {})
Value(line) == IF line.form = "loose" THEN Sign ELSE line.value

\* filterAliases drops what has a * or ? in it.
FilterAliases(names) == names \ {Wildcard}

\* Variant: the values of the block before are kept.
ReadsHostKeepingValues(line) ==
    /\ line.kind = "host" /\ Splits(line)
    /\ inv' = Flush
    /\ current' = [current EXCEPT !.aliases = FilterAliases(Words(line))]

ReadsHost(line) ==
    /\ line.kind = "host" /\ Splits(line)
    /\ inv' = Flush
    /\ current' = [aliases |-> FilterAliases(Words(line)), values |-> NoValues]

\* A directive of no block, or of a block of patterns, is dropped; of two in one
\* block the later one counts.
ReadsSet(line) ==
    /\ line.kind = "set" /\ Splits(line)
    /\ current' = IF current.aliases = {} THEN current
                  ELSE [current EXCEPT !.values[line.key] = Value(line)]
    /\ UNCHANGED inv

\* Match is a directive like any other, which no host has: the block goes on.  So it does
\* behind a line that does not split.
ReadsOther(line) ==
    /\ line.kind \in {"match", "comment"} \/ ~Splits(line)
    /\ UNCHANGED <<current, inv>>

Reads(line) ==
    /\ ~ended /\ Len(file) < MaxLines
    /\ file' = Append(file, line)
    /\ ReadsHost(line) \/ ReadsSet(line) \/ ReadsOther(line)
    /\ UNCHANGED ended

Ends ==
    /\ ~ended /\ ended' = TRUE
    /\ inv' = Flush
    /\ UNCHANGED <<file, current>>

-----------------------------------------------------------------------------
(* Specification *)

Init ==
    /\ file = << >> /\ ended = FALSE
    /\ current = [aliases |-> {}, values |-> NoValues]
    /\ inv = << >>

Next == (\E line \in Lines : Reads(line)) \/ Ends

Spec == Init /\ [][Next]_vars

-----------------------------------------------------------------------------
(* ssh *)

\* The line that opens the block of line i, 0 if there is none.
BlockOf(i) ==
    LET heads == {j \in 1..i : file[j].kind \in {"host", "match"}} IN
    IF heads = {} THEN 0 ELSE CHOOSE j \in heads : \A k \in heads : k <= j

\* The names and patterns of a Host line match a, and none that is negated does.
Matches(names, a) ==
    names \cap {a, Wildcard} # {} /\ \A m \in names \cap Negations : Without[m] # a

\* The lines that give alias a a value for k, if its Match blocks apply.
Gives(a, k) ==
    {i \in DOMAIN file :
        /\ file[i].kind = "set" /\ file[i].key = k
        /\ LET b == BlockOf(i) IN
           b = 0 \/ file[b].kind = "match" \/ Matches(file[b].names, a)}

\* The first one counts.
SshValue(a, k) ==
    LET gives == Gives(a, k) IN
    IF gives = {} THEN None ELSE file[CHOOSE i \in gives : \A j \in gives : i <= j].value

Naming(a) == {i \in DOMAIN file : file[i].kind = "host" /\ a \in file[i].names}

\* The file says once, without `=` and in the one block that names a and is for a, what k
\* is, and Parse sees where each block begins.
Plain(a, k) ==
    /\ Cardinality(Naming(a)) = 1 /\ Cardinality(Gives(a, k)) <= 1
    /\ \A i \in Naming(a) : Matches(file[i].names, a)
    /\ \A i \in Gives(a, k) : BlockOf(i) \in Naming(a) /\ file[i].form = "blank"
    /\ \A i \in DOMAIN file : file[i].kind = "host" => Splits(file[i])

-----------------------------------------------------------------------------
(* Properties *)

TypeOK ==
    /\ file \in Seq(Lines) /\ Len(file) <= MaxLines /\ ended \in BOOLEAN
    /\ current \in [aliases : SUBSET (Names \cup {Sign}),
                    values : [Directives -> Values \cup {Sign, None}]]
    /\ \A a \in DOMAIN inv : inv[a].hostname \in Values \cup {Sign, a}

\* A Host line that splits has n among its words.
Listed(n) ==
    \E i \in DOMAIN file : file[i].kind = "host" /\ Splits(file[i]) /\ n \in Words(file[i])

\* Every host that the file names is imported, in whatever blocks and together with
\* whatever patterns it is named, unless `=` without blanks is in front of it; of what
\* names no host to ssh, negations and `=` are imported as hosts, and nothing else.  Where
\* the file is plain about a value the import has the value that ssh uses, whatever the
\* other blocks say of other hosts.
ImportAgrees ==
    /\ TypeOK
    /\ ended =>
          /\ DOMAIN inv = {n \in Names \cup {Sign} : Listed(n)}
          /\ \A a \in Aliases \cap DOMAIN inv, k \in Directives :
                Plain(a, k) =>
                    inv[a][k] = BuildHost(a, [d \in Directives |-> SshValue(a, d)])[k]
=============================================================================
