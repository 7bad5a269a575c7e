----------------------------- MODULE ShellQuote -----------------------------
(***************************************************************************)
(* Quoting (shellQuote in internal/sshargs, internal/jobs, internal/cli): a *)
(* command and its working directory pass through up to three shells, each  *)
(* of which takes one layer of quotes away.  The quoting and the reading by *)
(* a POSIX shell are compared on every text.                                *)
(***************************************************************************)
EXTENDS Naturals, SequencesExt

CONSTANT MaxLength    \* bound: characters of the text

VARIABLE text         \* a working directory or a command, as the user gives it

-----------------------------------------------------------------------------
(* Texts *)

SQ == "'"
DQ == "dq"
BS == "bs"
SP == " "
AND == "&&"
Chars == {SQ, DQ, BS, SP, AND, "x"}                     \* of a text
LineChars == Chars \cup {"cd", "bash", "-lc", "nohup"}   \* of a command line

\* Words and operators of the commands that the code puts together.
Say(words) == FlattenSeq([i \in DOMAIN words |-> words[i] \o <<SP>>])

-----------------------------------------------------------------------------
(* A shell *)

\* Where a shell is in a text: between words, or in a word and inside which quotes of
\* it; the words so far, and the word that it is in.
States ==
    [mode : {"between", "plain", "single", "double", "escaped", "escaped in double"},
     words : Seq(Seq(LineChars \cup {"and"})), word : Seq(LineChars)]

In(mode, words, word) == [mode |-> mode, words |-> words, word |-> word]
Start == In("between", << >>, << >>)

Turns(at, mode) == In(mode, at.words, at.word)
Adds(at, cs, mode) == In(mode, at.words, at.word \o cs)
EndsWord(at) ==
    IF at.mode = "between" THEN at ELSE In("between", Append(at.words, at.word), << >>)

Reads(at, c) ==
    CASE at.mode \in {"between", "plain"} ->
            (CASE c = SQ -> Turns(at, "single")
               [] c = DQ -> Turns(at, "double")
               [] c = BS -> Turns(at, "escaped")
               [] c = SP -> EndsWord(at)
               [] c = AND -> In("between", Append(EndsWord(at).words, <<"and">>), << >>)
               [] OTHER -> Adds(at, <<c>>, "plain"))
      [] at.mode = "escaped" -> Adds(at, <<c>>, "plain")
      [] at.mode = "single" -> IF c = SQ THEN Turns(at, "plain") ELSE Adds(at, <<c>>, "single")
      [] at.mode = "double" ->
            (CASE c = DQ -> Turns(at, "plain")
               [] c = BS -> Turns(at, "escaped in double")
               [] OTHER -> Adds(at, <<c>>, "double"))
      [] at.mode = "escaped in double" ->
            Adds(at, IF c \in {DQ, BS} THEN <<c>> ELSE <<BS, c>>, "double")

\* Where a shell is behind a text, by where it was before.  The text is halved only to
\* keep TLC's recursion shallow.
Reading[line \in Seq(LineChars)] ==
    [at \in States |->
        LET half == Len(line) \div 2 IN
        CASE line = << >> -> at
          [] Len(line) = 1 -> Reads(at, line[1])
          [] Len(line) > 1 ->
                Reading[SubSeq(line, half + 1, Len(line))][Reading[SubSeq(line, 1, half)][at]]]

\* The words of a command line; none if a quote is left open.
Words(line) ==
    LET end == Reading[line][Start] IN
    IF end.mode \in {"between", "plain"} THEN EndsWord(end).words ELSE << >>

-----------------------------------------------------------------------------
(* The code *)

\* shellQuote: the same line in sshargs, jobs and cli.
Quote(t) ==
    <<SQ>> \o FlattenSeq([i \in DOMAIN t |-> IF t[i] = SQ THEN <<SQ, DQ, SQ, DQ, SQ>>
                                             ELSE <<t[i]>>]) \o <<SQ>>

InDirectory(dir, command) ==
    IF dir = << >> THEN command ELSE Say(<<<<"cd">>, Quote(dir), <<AND>>>>) \o command

\* sshargs.remoteCommand, which the login shell of the host reads.
RemoteCommand(dir, command) == Say(<<<<"bash">>, <<"-lc">>, Quote(InDirectory(dir, command))>>)

\* Variant: nohup starts the command without a layer of its own.
NohupCommandFlat(dir, command) == Say(<<<<"nohup">>, <<"bash">>, <<"-lc">>, InDirectory(dir, command)>>)

\* BuildNohupRunCommand, without its redirections: the command of a RemoteCommand.
NohupCommand(dir, command) ==
    Say(<<<<"nohup">>, <<"bash">>, <<"-lc">>, Quote(InDirectory(dir, command))>>)

-----------------------------------------------------------------------------
(* Specification *)

Init == text = << >>

Types == Len(text) < MaxLength /\ \E c \in Chars : text' = Append(text, c)

Spec == Init /\ [][Types]_text

-----------------------------------------------------------------------------
(* Properties *)

Command == <<"x">>
Changes(dir) == IF dir = << >> THEN <<Command>> ELSE <<<<"cd">>, dir, <<"and">>, Command>>

\* exec: the shell that the login shell starts changes to exactly the directory that
\* was asked for, whatever characters its name has; job run: the same through one
\* shell more.
DirectoryKept ==
    LET exec == Words(RemoteCommand(text, Command))
        login == Words(RemoteCommand(<< >>, NohupCommand(text, Command)))
        bash == Words(login[3]) IN
    /\ Len(exec) = 3 /\ Words(exec[3]) = Changes(text)
    /\ Len(login) = 3 /\ Len(bash) = 4 /\ Words(bash[4]) = Changes(text)
=============================================================================
