--------------------------------- MODULE Mcp ---------------------------------
(***************************************************************************)
(* The MCP server (internal/mcp, Server.Run): JSON-RPC messages, one a      *)
(* line, arrive on standard input and are handled one at a time.  A tool    *)
(* starts `codex-ssh` or, for ssh_exec and ssh_diagnose, ssh itself, which  *)
(* the executor gives the server's own standard input when the host         *)
(* authenticates with a password.                                           *)
(***************************************************************************)
EXTENDS Naturals, Sequences, Functions

CONSTANTS
    Kinds,        \* the kinds of message that the client sends
    MaxMessages   \* bound: messages of one client

\* plain: initialize and tools/list; other: a method that the server does not know;
\* tool: a call that needs no ssh; timed: ssh on a host with a key, which has a time limit
\* (ssh_exec with a timeout, ssh_diagnose); exec: ssh without one (ssh_exec, and the tools
\* whose child starts ssh); ask: ssh on a host with a password; garbage: a line that does
\* not decode; long: a line that does not fit into the scanner's buffer.
McpAssumption ==
    /\ Kinds \subseteq {"plain", "initialized", "other", "tool", "timed", "exec", "ask",
                        "garbage", "blank", "long"}
    /\ MaxMessages \in Nat

VARIABLES
    sent,         \* the messages that the client has written
    closed,       \* the client has closed its end
    pipe,         \* those that nobody has read: indices of sent
    buffer,       \* those that the scanner has read
    server,       \* control point and message in hand
    out           \* the messages that have been answered, in order

vars == <<sent, closed, pipe, buffer, server, out>>

-----------------------------------------------------------------------------
(* The client *)

\* A message is a notification, without an id, or has one: JSON-RPC allows numbers and
\* strings.
Messages == [kind : Kinds, id : {"none", "number", "string"}]

Sends(m) ==
    /\ ~closed /\ Len(sent) < MaxMessages
    /\ m.kind \in {"initialized", "garbage", "blank", "long"} => m.id = "none"
    /\ sent' = Append(sent, m)
    /\ pipe' = Append(pipe, Len(sent) + 1)
    /\ UNCHANGED <<closed, buffer, server, out>>

Closes ==
    /\ ~closed /\ closed' = TRUE
    /\ UNCHANGED <<sent, pipe, buffer, server, out>>

-----------------------------------------------------------------------------
(* Server.Run *)

Kind(n) == sent[n].kind

\* What Unmarshal accepts: the id of a request is an integer.
Decodes(n) == Kind(n) \notin {"blank", "garbage"} /\ sent[n].id # "string"

Goes(pc, n) == server' = [pc |-> pc, n |-> n]

\* Variant: what is left in the buffer is dropped by the next read.
ReadsOver ==
    /\ server.pc = "scan" /\ pipe # << >>
    /\ \E k \in DOMAIN pipe : buffer' = SubSeq(pipe, 1, k)
                              /\ pipe' = SubSeq(pipe, k + 1, Len(pipe))
    /\ UNCHANGED <<sent, closed, server, out>>

\* The scanner has no line left and reads as much as it gets.
Reads ==
    /\ server.pc = "scan" /\ buffer = << >> /\ pipe # << >>
    /\ \E k \in DOMAIN pipe : buffer' = SubSeq(pipe, 1, k)
                              /\ pipe' = SubSeq(pipe, k + 1, Len(pipe))
    /\ UNCHANGED <<sent, closed, server, out>>

\* Variant: an error of the decoder ends the loop.
SkipsOrEnds ==
    /\ server.pc = "scan" /\ buffer # << >> /\ ~Decodes(Head(buffer))
    /\ buffer' = Tail(buffer)
    /\ Goes(IF Kind(Head(buffer)) = "blank" THEN "scan" ELSE "ended", 0)
    /\ UNCHANGED <<sent, closed, pipe, out>>

\* An empty line, or one that does not decode, is passed over.
Skips ==
    /\ server.pc = "scan" /\ buffer # << >> /\ ~Decodes(Head(buffer))
    /\ buffer' = Tail(buffer)
    /\ UNCHANGED <<sent, closed, pipe, server, out>>

\* A line of more than the buffer's one megabyte ends the scanner, and the server.
Chokes ==
    /\ server.pc = "scan" /\ buffer # << >> /\ Kind(Head(buffer)) = "long"
    /\ Goes("ended", 0)
    /\ UNCHANGED <<sent, closed, pipe, buffer, out>>

\* The next line is a request.
Takes ==
    /\ server.pc = "scan" /\ buffer # << >>
    /\ Decodes(Head(buffer)) /\ Kind(Head(buffer)) # "long"
    /\ Goes("handle", Head(buffer))
    /\ buffer' = Tail(buffer)
    /\ UNCHANGED <<sent, closed, pipe, out>>

\* handleRequest: one method has no response; a tool that runs ssh waits for it;
\* everything else is answered, with a result or an error.
Handles ==
    /\ server.pc = "handle"
    /\ CASE Kind(server.n) = "initialized" -> Goes("scan", 0) /\ UNCHANGED out
         [] Kind(server.n) \in {"timed", "exec", "ask"} -> Goes("ssh", server.n) /\ UNCHANGED out
         [] OTHER -> Goes("scan", 0) /\ out' = Append(out, server.n)
    /\ UNCHANGED <<sent, closed, pipe, buffer>>

\* ssh reads its standard input and sends it to the command: with a password, this
\* is the pipe from the client.
SshReads ==
    /\ server.pc = "ssh" /\ Kind(server.n) = "ask" /\ pipe # << >>
    /\ pipe' = Tail(pipe)
    /\ UNCHANGED <<sent, closed, buffer, server, out>>

\* ssh has ended, in whatever way; the end of its time limit, if it has one, kills it.
SshEnds ==
    /\ server.pc = "ssh"
    /\ Goes("scan", 0)
    /\ out' = Append(out, server.n)
    /\ UNCHANGED <<sent, closed, pipe, buffer>>

\* The end of the input, after its last line.
Ends ==
    /\ server.pc = "scan" /\ buffer = << >> /\ pipe = << >> /\ closed
    /\ Goes("ended", 0)
    /\ UNCHANGED <<sent, closed, pipe, buffer, out>>

-----------------------------------------------------------------------------
(* Specification *)

Init ==
    /\ sent = << >> /\ closed = FALSE
    /\ pipe = << >> /\ buffer = << >> /\ out = << >>
    /\ server = [pc |-> "scan", n |-> 0]

Serves == Reads \/ Skips \/ Chokes \/ Takes \/ Handles \/ Ends

Next == (\E m \in Messages : Sends(m)) \/ Closes \/ Serves \/ SshEnds \/ SshReads

Spec == Init /\ [][Next]_vars

\* An ssh that nothing ends but itself.
Unlimited == server.pc = "ssh" /\ Kind(server.n) # "timed"

\* The server runs, its client reads the answers, and a time limit ends an ssh.  Nothing
\* makes an ssh without one end.
FairSpec == Spec /\ WF_vars(Serves \/ (SshEnds /\ ~Unlimited))

-----------------------------------------------------------------------------
(* Properties *)

TypeOK ==
    /\ sent \in Seq(Messages) /\ closed \in BOOLEAN
    /\ server.pc \in {"scan", "handle", "ssh", "ended"} /\ server.n \in 0..Len(sent)

\* Between them the pipe, the buffer and the server hold only messages that were
\* sent, in the order in which they were sent, all of them later than those that
\* have been answered.
InOrder ==
    LET all == out \o (IF server.n = 0 THEN << >> ELSE <<server.n>>) \o buffer \o pipe IN
    /\ Range(all) \subseteq DOMAIN sent
    /\ \A i, j \in DOMAIN all : i < j => all[i] < all[j]

Answered(n) == \E i \in DOMAIN out : out[i] = n

\* What is to be answered: a request with a string for an id is not, it does not decode.
Request(n) == sent[n].id = "number" /\ Kind(n) \notin {"blank", "garbage", "long"}

\* A line that is no message costs the client none of its other answers, and neither
\* does a failed tool: every request with a number for an id is answered in the end, if
\* no earlier line is too long or asks for a host with a password, and unless an ssh
\* without a time limit, its own or that of an earlier request, runs for ever.
EveryRequestAnswered ==
    \A n \in 1..MaxMessages :
        (n \in DOMAIN sent /\ Request(n)) ~>
            \/ Answered(n)
            \/ \E k \in DOMAIN sent : k < n /\ Kind(k) \in {"ask", "long"}
            \/ [](Unlimited /\ server.n <= n)

\* What the client has sent does not disappear while the server waits for ssh: a
\* request with a number is answered, in hand, or waiting, unless an earlier one asked for a host
\* with a password, whose ssh has the server's own standard input.  Nor is any line
\* handled twice or out of order.
NoRequestLost ==
    /\ TypeOK /\ InOrder
    /\ \A n \in DOMAIN sent :
          Request(n) /\ (\A k \in 1..(n - 1) : Kind(k) # "ask") =>
             Answered(n) \/ n = server.n \/ n \in Range(buffer) \cup Range(pipe)
=============================================================================
