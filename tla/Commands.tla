------------------------------ MODULE Commands -------------------------------
(***************************************************************************)
(* The parts of codex-ssh in which one process works through its input:     *)
(* secrets, the MCP server at the level of lines and at that of calls,      *)
(* file transfer, playbooks, health checks and the import of an ssh         *)
(* configuration; and network discovery.  They share no state; each is an   *)
(* instance with constants and variables of its own.                        *)
(***************************************************************************)
CONSTANT None    \* no reference, no user, no file, no host, no value

(* internal/secrets *)
CONSTANTS
    Aliases,                      \* names of hosts, of Playbook and Tools, too
    Addresses,                    \* of machines, of Tools, too
    Colons, Users, Ports, Refs, DefaultUser, DefaultPort, MaxSecrets
VARIABLES inv, keychain, setting

Secrets == INSTANCE Passwords WITH NoRef <- None, Absent <- None

(* internal/mcp *)
CONSTANTS Kinds, MaxMessages
VARIABLES sent, closed, pipe, buffer, server, out

Server == INSTANCE Mcp

CONSTANTS Calls, BookHosts, MaxCalls, MaxSaves
VARIABLES file, copy, known, asked, answers, serving, child, done

Kit == INSTANCE Tools WITH server <- serving

(* internal/sftp *)
CONSTANTS Files, Contents, MaxRounds
VARIABLES operation, source, target, folder, link, transfer, tally, before

Copy == INSTANCE Transfer WITH Missing <- None, t <- transfer

(* internal/playbook *)
CONSTANTS Steps, MaxSteps, MaxHosts, Codes
VARIABLES book, broken, run, ran, result, exit

Book == INSTANCE Playbook

(* internal/health *)
CONSTANT Hosts
VARIABLES selected, left, now, verdict, counts, facts, exitcode

Checkup == INSTANCE Health WITH Nohost <- None

(* internal/sshconfig *)
CONSTANTS Negations, Without, Values, Lines, MaxLines
VARIABLES config, block, imported, parsed

Parser == INSTANCE SshConfig WITH
              file <- config, current <- block, inv <- imported, ended <- parsed

(* internal/hosts, Discover *)
CONSTANTS Top, Blocks, Pool, Services
VARIABLES range, offers, main, ips, sem, wg, scan, discovered

Network == INSTANCE Discover WITH found <- discovered

ASSUME CommandsAssumption ==
    /\ Secrets!PasswordsAssumption /\ Server!McpAssumption /\ Kit!ToolsAssumption
    /\ Copy!TransferAssumption /\ Book!PlaybookAssumption /\ Checkup!HealthAssumption
    /\ Parser!SshConfigAssumption /\ Network!DiscoverAssumption

-----------------------------------------------------------------------------
(* Properties *)

\* The password that a command takes was typed for the account that it is for, whatever
\* happens to hosts.toml meanwhile, unless a secret_ref is or was in use.
PasswordOfAccount == Secrets!PasswordOfAccount

\* The suggested `secret set` stores the password where it will be looked for.
HintLeads == Secrets!HintLeads

\* What the client has sent does not disappear while the server waits for ssh.
NoRequestLost == Server!NoRequestLost

\* Every request with a number for an id is answered in the end, whatever fails before it
\* and whatever does not decode, unless an ssh without a time limit runs for ever or an
\* earlier line is too long or asks for a host with a password.
EveryRequestAnswered == Server!EveryRequestAnswered

\* An answer without an error means that what the arguments ask for has been done, except
\* that max_age_days 0 compresses from 30 days.
OkMeansDone == Kit!OkMeansDone

\* Tools that are given one name reach one machine, as long as nobody edits hosts.toml.
SameMachine == Kit!SameMachine

\* The description of ssh_playbook_run says of dry_run "Preview commands without
\* executing": no step of a playbook runs in a call that asks for this.
DryRunExecutesNothing == Kit!DryRunExecutesNothing

\* What a transfer reports about a file is so, and nothing is left of older contents.
TransferTells == Copy!TransferTells

\* No command of a playbook follows a failure, except as its retry.
FailureIsLast == Book!FailureIsLast

\* Exit status 0 of a playbook means that every step was gone through on every host.
ZeroMeansAllSteps == Book!ZeroMeansAllSteps

\* The summary of a health check counts each host under what was found on it.
SummaryTells == Checkup!SummaryTells

\* Every host that the client configuration names without `=` is imported, and where the
\* file is plain about a value the import has the value that ssh uses.
ImportAgrees == Parser!ImportAgrees

\* A scan finds every open address of its range, once and in order, with no more
\* connections than the pool has places.
OpenOnesFound == Network!OpenOnesFound
=============================================================================
