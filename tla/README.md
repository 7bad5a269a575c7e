# A TLA+ verification of codex-ssh

codex-ssh is a command line program in Go that wraps OpenSSH: an inventory of
hosts with jump hosts, remote commands on one host or on all hosts with a tag,
remote jobs, tunnels and proxies, playbooks, file transfer, health checks, passwords in
the keychain, an audit log, and an MCP server.
This directory holds TLA+ models of it, TLC configurations that check them on
small instances, and proofs that TLAPS checks. `PROJECT.json` is the index: the
parts of the system, the runs, the source lines of every definition, the hazards
with the properties that cover them, and the theorems.

    tlc -workers 2 -config Jobs_faults.cfg MCJobs      # one run
    tlapm JobsProofs.tla                               # the proofs about a module

## 1. The system

Every invocation of `codex-ssh` is a process of its own. Processes share files and
nothing else: there is no daemon, no lock, no lock file. What is hard about the
program follows from that: two invocations interleave at every system call, each of
them may die between two calls, most operations have an effect in two places (a file
here, a process or a command there), and the answer of an ssh may be lost after it had
its effect. The MCP server is the only long-lived process; goroutines exist in
`exec @tag` and in `hosts discover`.

| component | state it keeps | operations | module |
|---|---|---|---|
| remote jobs (`internal/jobs`, `internal/runtime`) | `run/jobs/<id>.json`; on the host a tmux session or `~/.codex-jobs/<id>.{pid,log}` | Run, Stop, Status, Logs, Attach | `Jobs`, `JobLedger`, `JobsProofs` |
| tunnels and proxies (`internal/tunnel`, `internal/proxy`) | `run/{tunnels,proxies}/<id>.json`, an ssh process, a local port | Start, Stop, List, `--ttl` | `Forwards`, `ForwardsProofs` |
| audit log (`internal/audit`) | `logs/<day>.jsonl`, `logs/<day>.jsonl.gz` | Append, Query, Rotate, DeleteOld | `AuditLog`, `AuditLogProofs` |
| host inventory (`internal/hosts`, `cli`, `mcp`) | `hosts.toml`; the MCP server's copy of it | `hosts set`, `remove`, `import-ssh-config`, reload | `Inventory`; `Configuration`, `ConfigurationProofs` |
| host resolution (`internal/hosts`, `cli/target.go`) | none of its own | Resolve, resolveTarget, resolveVia | `JumpHosts` |
| import of ssh configurations (`internal/sshconfig`) | none of its own | Parse | `SshConfig` |
| host key acceptance (`cli/app.go`) | `~/.ssh/known_hosts` | ensureKnownHosts | `KnownHosts`, `KnownHostsProofs` |
| execution on tagged hosts (`cli/multiexec.go`, `internal/askpass`) | results, WaitGroup, askpass scripts, audit events | runMultiExec | `MultiExec`, over `KnownHosts`; `MultiExecProofs` |
| shared connections (`internal/sshargs`, `internal/executor`) | `run/control/*.sock` and the ssh masters behind them | controlSocketExists, runSSHWithRetry | `ControlMaster`, `ControlMasterProofs` |
| MCP server (`internal/mcp`) | standard input, the scanner's buffer, its copy of the inventory | Run, handleRequest, callTool with its nineteen tools, the codex-ssh child of a tool | `Mcp`, `Tools` |
| playbooks (`internal/playbook`) | PlaybookResult | Run | `Playbook` |
| shell quoting (`sshargs`, `jobs`, `cli`) | none | shellQuote, remoteCommand, BuildNohupRunCommand | `ShellQuote` |
| network discovery (`internal/hosts/discover.go`) | a semaphore, a WaitGroup, the slice of results | Discover | `Discover` |
| health checks (`internal/health`, `cli/health.go`) | the report of a host, the summary | CheckHost and its five checks, runHealth | `Health`, and as a tool in `Tools` |
| file transfer (`internal/sftp`, `cli/sftp.go`) | the target files, a connection | Put, Get, Sync | `Transfer`, and as tools in `Tools` |
| secrets (`internal/secrets`, `cli`) | the keychain | `secret set`, `secret delete`, preparePasswordAuthEnv, secretSetSuggestion | `Passwords` |
| configuration, keys, completion, the CLI's diagnose, hosts test and shell, installers | see section 7 | | not modelled |

The modules of the MCP server, of playbooks, transfers, health checks, secrets, the
import and of the network scan are brought together in `Commands`, and `CommandProofs` has the proofs about them;
`Inventory`, `JumpHosts` and `ShellQuote` in `Configuration`, with `ConfigurationProofs`.

How they interact: the CLI resolves a target (`JumpHosts`, from `Inventory`), accepts the
host keys of all hops (`KnownHosts`), finds the password (`Passwords`), builds the arguments
of ssh with a control path (`ControlMaster`) and quotes the command (`ShellQuote`), runs ssh,
and appends an event (`AuditLog`). `exec @tag` does this in one goroutine per host (`MultiExec`); a playbook
does it step by step (`Playbook`); jobs, tunnels and proxies also leave a record behind
that later invocations work from (`Jobs`, `Forwards`). The MCP server runs ssh itself, on
the inventory it loaded when it started, or writes its arguments into a command line and
starts `codex-ssh` as a child, which reads everything anew (`Mcp`, `Tools`, `Inventory`). A
health check starts a `codex-ssh exec` per reading (`Health`).

What makes each of them correct is said as properties in section 4; what is hard to
test is listed line by line under `hazards` in `PROJECT.json`.

## 2. How the models are written

* One module per component, parameterised by CONSTANTS whose assumptions are named in
  the module. One action per step between two points where another process can come in:
  a system call, an ssh, a lock. Actions bear the names of what the code does there.
* `SaveState` is `os.WriteFile`: it truncates and then writes. Both halves are actions
  of their own (`...Truncates`, `...Writes`), so a reader, a crash or another writer
  can come between them, and two overlapping writes leave the tail of the longer one
  (`Overlay` in `Jobs`). `hosts.Save` writes a temporary file, syncs and renames it
  (`CreatesTemp`, `Encodes`, `Syncs`, `Renames` in `Inventory`).
* Faults. The rigid variable `faults` is chosen in `Init` from the constant
  `Environments` and says which faults the behaviour may have to face: crashes, failed
  saves, lost connections and so on. One run so covers machines that fail and machines
  that do not, and a property that needs a working machine says so in its premise.
* Operators whose comment begins with *Variant* are not part of a specification. Each
  is a definition with a plausible bug (a dropped guard, a wrong order, a missing
  reset); `PROJECT.json` lists under `mutants` which definition it replaces and which
  property then fails. They show that each property depends on the code it is about.
* Texts, ids and payloads are model values or members of small sets. Clocks, pools and
  counters have bounds that are CONSTANTS marked *bound*.

### Jobs, JobLedger, JobsProofs
`file[j]` is the record on disk (absent, empty, garbled, or a status with a mode and a
handle), `run[j]` the process of `job run`, `client[p]` a process that stops or queries,
with the copy of the record it has loaded, `work[j]` the remote command and `pid[j]`
what the `.pid` file leads to. The actions `RunCreates` ... `RunFinalWrites` are
jobs.go:24-106, `ClientLoads` ... `StopReturns` jobs.go:108-171 with the CLI's own
first read. `LaunchEffect` says what the remote shell does with the launch command:
under `bash -lc` the whole list `mkdir -p ... && nohup ...` runs in the background, so
the write of the `.pid` file may come before the directory exists, and the PID is
that of the subshell which waits for the job (`pid` and `work` are different things).
`JobLedger` is what a user may rely on without knowing files: an entry comes before
its command, a command starts at most once, an entry reads *stopped* only when it is over.

### Forwards
Tunnels and proxies follow one protocol in two directories: check the port by
listening on it (`ChecksPort`, `FreesPort`: for a moment the check itself has the port),
start ssh, save the record. The model has the CLI's checks of `--ttl` and
`--background`, ssh binding the port or failing, and `stop` and `list` of other
processes. The recorded PID is always -1, since OSRunner.Start reads it after
`Process.Release` has set it to that (executor.go:84); the branch of Stop that signals a process is therefore
never taken, and `StopSignals` goes on to the removal. Only Runners of the tests return a PID.

### AuditLog
A plain file is a name for an inode, since a process goes on with the inode it has
opened when the name is removed. Time passes between the steps of an append; a query
lists the plain files first and the compressed ones second; a rotation creates, copies
and removes. A line cut short by a full disk stays in its file.

### Inventory, JumpHosts, SshConfig
`Inventory` has the file as processes see it and as it would be after a power failure,
editors with the copy they loaded, and MCP servers. `behind` is a history variable:
who had loaded the file when somebody else saved it. `JumpHosts` has the flattening of
jump hosts as a recursive function over the set of aliases on the stack
(`ResolvesFrom`, with the loop over a host's jump hosts in `Rounds`), and compares it with what
a host needs (`Needed`), the least set with its jump hosts and theirs. `SshConfig` reads a file line by line as
Parse does and compares the result with ssh's own rule, the first value counts. A line has one of
three forms, which ssh takes for the same and Parse does not: a blank, `=`, or `=` between blanks behind the
keyword; the names of a host line may be patterns or negations (`!name`).

### KnownHosts, MultiExec
`KnownHosts` has `known_hosts` as a sequence of lines of which the last may lack its
newline, and calls that look up, scan and append without a lock. What is written at a time is one
line, or what is left of it when the write stops short: a part that is no key, or all but its newline.
`faults` says what a behaviour has to face, also a complaint of `ssh-keyscan` that passes for a key (`noise`) and a
configuration that leaves the keys to ssh (`off`); `Promises` is when ensureKnownHosts promises anything.
`MultiExec` INSTANCEs
it with its goroutines as the callers, and adds selection by tags, the time limit, the
askpass script of a host with a password, the report, and the audit event. The log is on the same disk:
`audit` has the events of each host that can be read, `log` whether an append has failed and
what it has left at the end of the file, on which the next event is lost.

### ControlMaster
What is at each control path (nothing, a file that is no socket, the socket of a master
alive or dead), the look at the path before ssh starts, the choice of ssh's ControlMaster
option, and the second run. ssh and its masters are modelled from how the code uses
them and are marked external in the map.

### Mcp, Tools
`Mcp` has the pipe, the scanner's buffer and the request in hand; an ssh that prompts
for passwords reads the same pipe. `Tools` has what happens to one call: `Words` is the
command line that each tool writes, `ParseFlags` is Go's flag package (options end at the
first word that is none), and the `Plans...` actions are the commands of the child up to the
effects they are going to have. `done` is a history of what had an effect, on which machine
and from which version of hosts.toml (`stamp`), so that an answer can be compared with what was
asked. An argument that is itself a word of the command line (`--`, `--sudo` and so on) is
left out by `ToolsAssumption`. `Mcp` and `Tools` describe one server at two levels: lines and calls.

### Playbook, Discover, Health, Transfer
`Playbook` has the loops over steps, hosts and attempts. `Discover` has the listing of a
range, and the pool. An address is its number, which wraps around, and a mask leaves blocks whose
size divides the space (`Blocks`); the sort may make any rising order of what was found
(`Sorted`). This is so for IPv4: no address of an IPv6 range is ever reached (section 6), and
the sort would leave them as they come, since they all have number 0 for it. `Health` has the reading of each
check (a number by its thresholds, text, an error), what CheckHost makes of it and the summary; `facts`
is a history of what was found. `Transfer` has one file of put and get, the walk of sync, a
target that is truncated before it is written, and runs after the files have changed;
`before` is a history of what the target was when a run began.

### Passwords, ShellQuote
`Passwords` has the resolution of a target to an account and a reference, the keychain as a
function from references to the account a password was typed for, the prompt during which
hosts.toml may change, and the hint a command without a password prints. References are strings, so a
`secret_ref` may be the reference of an account (`Refs`); what is kept is the account a password was typed
for and whether a `secret_ref` has said where (`Typed`). What a command finds it hands to its ssh. Whoever asks that ssh
is told it, a jump host too (section 6); jump hosts are not in the module. `ShellQuote` has
the quoting and a POSIX shell to undo it, as a machine that reads one character after the
other (`Reads`): `Reading` is where it is behind a text, by where it was before.

### Commands, Configuration, MCCommands, MCConfiguration
Modules that share no state are instantiated side by side: `Commands` has one instance each
of `Passwords`, `Mcp`, `Tools`, `Transfer`, `Playbook`, `Health`, `SshConfig` and `Discover`, with their
constants, assumptions and properties. `CommandProofs` extends it and proves about each
instance for itself (`Copy!Spec => []TransferTells`, for example). `MCCommands` extends it
too, and puts the instances into one state machine for TLC: the rigid
variable `part`, chosen from the constant `Parts`, says which of them moves, and the others
stay in one initial state. A behaviour of a run is so a behaviour of one module, every
property is the module's own, and the fairness is that of the part that moves.
`Configuration` has `Inventory` with an instance each of `JumpHosts` and `ShellQuote`, and
`MCConfiguration` the two instances as one state machine, in the same manner.

## 3. Fairness

Liveness is claimed only under what the operating system, the Go scheduler or a timer
provides.

* `Jobs`, `Forwards`: a CLI process that has been started is scheduled. Nobody has to
  invoke a command, remote commands need not end, starts of tunnels need not go on.
* `MultiExec`: main and every goroutine are scheduled and the timer of the context
  fires. A command that hangs ends only by an expired context.
* `Mcp` (in `server_all`): the server's own steps happen, the client reads the answers, and an ssh with a time
  limit (`ssh_exec` with a timeout, `ssh_diagnose`) ends. Nothing is assumed of an ssh without one:
  `EveryRequestAnswered` has it as an exception that such an ssh runs for ever.
* `Discover` (in `server_all`): goroutines are scheduled; dial and handshake have their time limit.
* No fairness is assumed, and no liveness claimed, for Tools, Playbook, Health, Transfer,
  Passwords and SshConfig: the ssh under most of them need not end.

## 4. The runs

Each run finishes within four minutes. Symmetry is used only in runs without liveness properties.

| run | instance | properties |
|---|---|---|
| `jobs_faults` | one job, its Run and two other processes, all mode hints, no faults or all; 88,000 states | `WriteAhead`, a command that runs has a record; `HandleIsReal`, a handle leads to a started command, in its mode; `StoppedIsGone`; `NoResurrection`, Run's last write never meets a stopped record; `HandleIsKept`, by what alone a handle is lost; `StopEndsJob` (liveness); `ImplementsLedger`, the refinement |
| `forwards_faults` | a tunnel and a proxy on one port, two processes; 209,000 | `ListShowsStarted`; `PortServed`, racing starts never all lose; `StopRemovesRecord`, a stop gets rid of a record whose PID is of no use (liveness) |
| `forwards_stop` | one tunnel, one stop; **violated** | `ReportedStopIsStopped` |
| `audit_all` | one logger, two rotations, one query, four days of one moment in UTC; 2.4 million | `QueryComplete`, a query finds what was readable all along; `NoEventLost`, no event is lost by rotations that die or overlap |
| `inventory_faults` | two editors, a server, two aliases, two entries; 654,000 | `InventoryLoadable`, also after a power failure; `SavedHostStays`, the one cause by which a saved host disappears |
| `knownhosts_all` | two calls with one jump host, two ports, two keys; 553,000 | `EnsuredMeansKnown`; `Pinned`, trust on first use; `LinesStay`, no write costs a line, but one whose own write was cut off before its newline and returned an error (`CutOff`) |
| `multiexec_all` | two hosts behind a jump host, one with a password, a time limit, one of them tagged; 465,000 | `ReportTells`: every host is reported, status 0 means the command ran on each, no audit event says anything else than the report, one that is missing means that an append to the log has failed, and no askpass script is left; `KeysBeforeCommand`; `ReturnsInTime` (liveness) |
| `server_all` | three messages of seven kinds, with a number, a string or nothing for an id, in chunks of any size; two calls out of 18 and an edit of hosts.toml; ranges of up to four of eight addresses, a pool of two; transfers of two files and two rounds; 846,000 | `NoRequestLost`; `EveryRequestAnswered` (liveness); `OkMeansDone`, an answer without an error means that what was asked was done, on the host, as the user and with the ages that were named (but for `max_age_days` 0, section 6); `SameMachine`, one name is one machine to every tool; `OpenOnesFound`; `ScanEnds` (liveness); `TransferTells`, what is reported about a file is so |
| `server_dry_run` | one call, no edit; **violated** | `DryRunExecutesNothing` |
| `control_all` | three calls, two routes, two deaths of masters; 361,000 | `MasterOfOwnRoute`, `NoSecondRunAfterStatus`, `StaleSocketSurvived` |
| `commands_all` | playbooks of two steps and two hosts out of 24 kinds of step; health checks of three hosts; two aliases and one stored password; ssh configurations of four lines out of 15, with a negation and both forms of `=`; 502,000 | `FailureIsLast`, also with retries; `ZeroMeansAllSteps`; `SummaryTells`, each host is counted under what was found on it; `PasswordOfAccount`, the password that a command takes was typed for the account the command is for, unless a `secret_ref` has a part in it; `HintLeads`, the suggested `secret set` is the right one; `ImportAgrees` |
| `configuration_all` | inventories of three aliases with up to two jump hosts each; texts of up to five characters; no edit of the file; 11,000 | `FailsIffBroken`; `HopsInOrder`, the hops that a hop's own entry asks for are directly before it, also under an override on the command line; `DirectoryKept` |

`TypeOK` of a module is a conjunct of one of its properties.

Why the bounds are enough for what the runs are about:
* Jobs: the records of two jobs share nothing but the remote jobs directory, which
  one job meets both present and absent. The hazards need one Run, one stale writer and
  one observer. The proofs of section 5 have no bound.
* Forwards: two starts are the smallest race for a port; each may be in its check
  while the other's ssh binds. Two other processes let a stop overlap a stop or a list.
* AuditLog: with an age of two days four days are enough for a file to be written,
  rotated while it is read, and deleted; the two rotations are one that dies and its
  repetition, or two that overlap. One moment per day forces UTC; the module has
  parameters for time zones (see section 6 for why they are not in this run).
* Inventory: two editors of the same or of different aliases; a third would only repeat them.
* KnownHosts and MultiExec: two callers on one shared jump host; a name with two ports
  tells `host` from `[host]:port`. Four environments: servers that change their keys and tools that fail,
  tools that fail and writes that stop short, changed keys and complaints that pass for keys, and
  checks that are off. In `multiexec_all` one host has the tag (`Tagged`), so that the argument selects
  one host, both or none.
* Mcp: a request before, the one in hand, and one behind it, in every combination of kinds.
* ControlMaster: a call that uses a master, one that replaces it, one that is late; the
  second death is the one the retry does not survive, which `StaleSocketSurvived` excludes.
* Tools: two calls are what a reading of hosts.toml, an edit and another reading need; the
  18 calls are one for each way through callTool and each form of an argument. One alias and
  two addresses tell an alias from an endpoint and one entry from another.
* Health: hosts are checked one after the other and share only the counts; three hosts
  show each count beside the others. Transfer: the walk goes on after a failure with the
  second file; contents of no, one and two buffers include a shorter one, a longer one and
  another one of the same size; the second round finds what a broken first one left.
* Passwords: an address that is also an alias, one with colons, a default and another
  port (a user goes the same way, and the proofs have both), one reference that several
  hosts may share and one that is that of an account; a second stored password would never be looked up together with the first.
* Playbook: order, retry and abort need two steps and two hosts; a list may name a
  host twice. Discover: a pool smaller than the range, and a range at either end of
  the address space, where addresses wrap around; addresses
  outside of it offer ssh, so that one that is dialled by mistake is found.
* JumpHosts: a cycle, a diamond and a missing host need three aliases. SshConfig: four
  lines hold two blocks, or one that gives a value twice, with a line in front that is cut in another way than by ssh, and longer files are the
  matter of the proof. ShellQuote: the
  quote characters of a text are independent of each other; five characters combine any two
  of them with their neighbours.

## 5. What is proved

Eight modules hold the proofs. Each theorem is about the specification of a module for
every value of its constants that the module's named assumption allows: any number of
processes, hosts, files, lines and faults, without the bounds of section 4 unless it says
otherwise. Constants marked *bound* in a module are arbitrary numbers there.

| module | theorem | statement |
|---|---|---|
| `JobsProofs` | `TypeCorrect` | `Spec => []TypeOK` |
| | `RunWritesAhead` | `Spec => []WriteAhead` |
| | `HandlesAreReal` | `Spec => []HandleIsReal` |
| | `StoppedIsGoneAlways` | `Spec => []StoppedIsGone` |
| | `RunNeverResurrects` | `Spec => []NoResurrection` |
| | `HandlesAreKept` | `Spec => HandleIsKept` |
| | `JobsRefineLedger` | `Spec => ImplementsLedger`, the refinement of `JobLedger` |
| `ForwardsProofs` | `ShownWasStarted` | `Spec => []ListShowsStarted` |
| | `PortIsServed` | `Spec => []PortServed` |
| `AuditLogProofs` | `LogLosesNothing` | `Spec => []NoEventLost`, if `ShortStall` |
| | `QueriesAreComplete` | `Spec => []QueryComplete`, if `ShortStall` and `SameClock` |
| `ConfigurationProofs` | `AlwaysLoadable` | `Spec => []InventoryLoadable` |
| | `SavedStays` | `Spec => []SavedHostStays` |
| | `ResolveFailsIffBroken` | `Jumps!Spec => []FailsIffBroken` |
| | `HopsAreInOrder` | `Jumps!Spec => []HopsInOrder` |
| | `DirectoryIsKept` | `Quoting!Spec => []DirectoryKept` |
| `KnownHostsProofs` | `EnsuredIsKnown` | `Spec => []EnsuredMeansKnown` |
| | `PinnedForGood` | `Spec => Pinned` |
| | `LinesStayForGood` | `Spec => LinesStay` |
| `MultiExecProofs` | `KeysComeFirst` | `Spec => []KeysBeforeCommand` |
| | `ReportIsTrue` | `Spec => []ReportTells` |
| `ControlMasterProofs` | `MasterOnOwnRoute` | `Spec => []MasterOfOwnRoute` |
| | `NoSecondRun` | `Spec => []NoSecondRunAfterStatus` |
| | `StaleSocketAlwaysSurvived` | `Spec => []StaleSocketSurvived` |
| `CommandProofs` | `NoForeignPassword` | `Secrets!Spec => []PasswordOfAccount` |
| | `HintAlwaysLeads` | `Secrets!Spec => []HintLeads` |
| | `RequestsStay` | `Server!Spec => []NoRequestLost` |
| | `TransferReportHolds` | `Copy!Spec => []TransferTells` |
| | `FailureEndsRun` | `Book!Spec => []FailureIsLast` |
| | `ZeroGoesThrough` | `Book!Spec => []ZeroMeansAllSteps` |
| | `SummaryIsTrue` | `Checkup!Spec => []SummaryTells` |
| | `NameMeansOneMachine` | `Kit!Spec => []SameMachine` |
| | `OkMeansItIsDone` | `Kit!Spec => []OkMeansDone` |
| | `ImportAgreesWithSsh` | `Parser!Spec => []ImportAgrees` |
| | `ScanFindsTheOpenOnes` | `Network!Spec => []OpenOnesFound` |

Every safety property of every passing run is in this table.

### The assumptions
The assumption of a module says what its constants are (there is a job, hints are hints, no
two kinds of name are the same, bounds are numbers). `CommandsAssumption` is the conjunction
of those of its eight parts. TLC evaluates each of them in a run. Two theorems need more, and
their premises are what the code relies on without saying so:
* `ShortStall`: an append ends before its day's file is old enough to be rotated. A process
  that is stopped for days between `os.OpenFile` and the write would write to a file that
  was compressed and removed meanwhile, and the event would be lost.
* `SameClock`: the local time is UTC, or the query has no range. Files are named by local
  dates and compared as UTC (section 6).

### The arguments
None of the invariants is inductive alone. What each needs:

* **Jobs.** `StoppedIsGone` is about the file, but what a Stop writes there comes from a copy
  it loaded earlier: the invariant has to say the same of every copy in memory. Whether a
  copy can have a handle at all depends on where Run is: only its last write hands the
  handle out. So `IInv` has, per job, what Run's control point says about the record, the
  remote command and Run's memory (`JobInv`), and, per process, what its control point
  says about its copy (`ClientInv`). The refinement maps `recorded` to "there is a file"
  and `stopped` to "a tmux record reads stopped"; every step is a step of the ledger or a
  stutter, by `IInv`. `HandleIsKept` is an action property. That every copy in
  memory has the handle and that the record has it, or a process that is about to write it there, is
  kept by every step but two, which it names: a save that ends between its truncation and its write, and a
  write that is too short to cover what another one has left since. A copy older than the
  handle is the third way to lose it (`job stop` while `job run` is still launching).
* **Forwards.** `ForwardOK` ties record and process of a forward to how far its command has
  come, and `ClientOK` what a list shows to both. `PortOK` is the race for a port in inductive
  form: once an ssh was started for a port, somebody has the port or is still on the way to
  it. The two ways to lose the port, a check that takes it for a moment and an ssh that fails to
  bind it, both need a forward that is busy, and that one is the witness.
* **AuditLog.** The longest proof. An inode is the file of one day for good (`Filing`). Once a day
  is closed its name is given to no other inode (`Steady`), so overlapping rotations of a
  day compress the same lines; that is why a second rotation may truncate the `.gz` file of
  the first one and nothing is lost in the end. `Alone` says what rotations that do not overlap may
  rely on, and `Kept` where a logged event can be: in the plain file of its day, in its
  `.gz` file, or in the hands of a rotation about to copy it. For queries `Owed` adds, event by event and
  control point by control point, which listed file will yield it. A query lists plain
  files first: a name that was gone then does not come back, so the event is in the `.gz` file
  by the time that these are listed.
* **Inventory.** `Finished`: a temporary file is renamed only when it holds all of its editor's
  inventory and was synced, hence what is renamed is whole, and durable. `SavedHostStays` needs the future: as
  long as nothing has undone a saved change (`Kept`), the file has it, and so has what every
  edit under way is going to write, unless that edit changes the alias or had loaded the file
  before (`Agrees`).
* **JumpHosts.** The prover cannot instantiate an induction rule with a formula, but it can
  with a set: `NatInduct` takes the set of numbers that have a property. The recursive
  functions of the module are chosen by their equations, so each first needs a proof that such a
  function exists (`RoundsAre`, `ResolvesAre`, by how many aliases are not on the stack). With a
  stack, a host is resolved if and only if neither it nor what it needs is missing, on the
  stack or needed by itself (`ResolvedWhenSound`, `ResolvedIsFlat`, by the same number), and
  its hops are then those without a stack (`StackDoesNotMatter`). That a list is in order
  survives the append of a jump host's hops and of the jump host (`OrderedBehind`), round by round
  (`FlattenOrdered`), host by host (`ResolvedInOrder`).
* **ShellQuote.** A shell that has read a text in two parts is where it is after the whole (`ReadingParts`),
  so the equations of `Reading`, which halve a text, give one for each character more. What one
  character is quoted as adds that character to the word in hand (`ReadsPiece`, with the five
  characters that a single quote becomes); hence a quoted text of any length is one word with what
  it held (`QuoteIsWord`), words with blanks behind them are a list of words (`ThreeWords`,
  `FourWords`), and each shell hands to the next what it was given to quote.
* **KnownHosts.** A call holds its key under the name ssh will look it up by (`Entry`); it takes
  an open last line for a closed one only after a write that stopped short, and then that line is no key
  or the one of a call which has returned an error (`Spoilt`, `CutShort`); the hops behind a call are known
  (`Covered`). `Covered` survives the appends of the others because where ensureKnownHosts promises anything an
  append takes no line away, which is `LinesStay`. `Pinned` adds that a server gets a key only from a
  call that is on the way to add it (`SettledForGood`).
* **MultiExec.** Every step of a goroutine in `ensureKnownHosts` is a step of `KnownHosts`, so the
  invariant of that proof is taken over through an instance of `KnownHostsProofs`
  (`KHP!IInv`) and composed with the module's own: the order lists each selected host once
  (`Chosen`), the goroutines that were started are those before the loop's index (`Started`), the
  WaitGroup counts those that have not ended (`Typed`), and of each host the hand, the
  result, the log and the remote command agree (`Honest`), where an event is missing only if an append has failed.
* **ControlMaster.** `TypeOK` is not inductive: a path could hold the number of a master
  that does not exist yet, which would be one of any route once it does. `IInv` excludes
  that (`PathInv`), says that a call goes through a master of its own key (`Attached`), and
  per control point what the attempts so far have executed (`Attempts`). `SInv`, for
  `StaleSocketSurvived`, relates the attempts of each call to the number of deaths
  (`Survives`, `Counted`): a call that complains, or tries again, has met a master that died; if it is
  the only one that ever does, what the second attempt goes through is alive. Every step of a call
  that leaves the masters alone goes through one lemma, `StepOfCall`.
* **Passwords** (`SecretInv`): a password is kept, and about to be kept, under the account it was typed
  for or as stored by a `secret_ref`, also when hosts.toml changes during the prompt, since the
  reference was settled before it. `HintLeads` has no history: it is a fact about two resolutions, by name and by the hint's
  endpoint.
* **Mcp** (`ServerInv`): answers, request in hand, buffer and pipe together hold rising
  numbers (`InTurn`), and every number before the first request for a host with a
  password (`NoneLost`). The section *Sequences of rising numbers* has the four facts on
  sequences this needs.
* **Transfer** (`TransferInv`): per file, by its place before, at or after the one in
  hand, what the target holds: what it held before, a beginning of the source, or all of it
  (`FileKept`). The counts are those of the files left behind.
* **Playbook** (`BookInv`): commands and results are in the order of places (`ResultsKept`);
  a command was followed only by its retry, and its place is settled once the run has left it (`RanKept`);
  every place that was left has its result, and its command unless it was skipped (`PlaceKept`).
* **Health** (`HealthInv`): the verdict on the host in hand is what was found so far, and each
  count is the cardinality of the hosts left behind with that verdict.
* **Tools** (`KitInv`): the inventories in the file, the server and the child agree if they are of
  the same version; what is planned, and what was done, was resolved by the version it bears.
  `CallInv` adds what `OkMeansDone` needs: the child's words are those of the call in hand, and
  as long as the exit status is 0, what was done and what is planned together meet the call (`Met`,
  in `ChildFits`), so that nothing is missing when the child ends. What a child plans depends on
  what the flag package makes of its words. The equations of `ParseFlags` are proved
  by induction on the words that are left, and from them what it finds in the command lines that
  `Words` writes: the user of `--su`, both ages of a rotation, and no `--dry-run` behind a file
  name. There the assumption is needed that no argument is a word with a meaning of its own.
* **SshConfig** (`ParserInv`): the block in hand is that of the last host line, with the last value
  of each directive set since (`InHand`); a name is in the inventory or in hand (`Named`), and
  has the values of a block that names it (`Stored`). Where a file is plain about a value, every host
  line is one to Parse too, and there is one block and one line that could give it, so Parse's last value is ssh's first.
* **Discover** (`ScanInv`): the list is the block of the range from its first address on, and at the
  end of it the next address is outside, or 0 (`Listed`); so no address is on it twice. That a
  quotient of addresses means a block of them is `RangeIs`, from the bounds of a quotient
  (`QuotientIs`). An address is among those found exactly when its goroutine has
  appended it (`GoroutineTells`, `FoundOnce`), the places taken are the goroutines under way
  (`Places`), and none is under way at the end (`AllIn`). The range of all addresses is
  in the theorem too, as the one that never returns.

### What is only model-checked
* Liveness and properties with ENABLED, which the prover does not handle: `StopEndsJob`,
  `StopRemovesRecord`, `ReturnsInTime`, `EveryRequestAnswered`, `ScanEnds`.
* The two runs of section 6 that show a violation.

## 6. Where the code departs from what it says

Two runs show such a case. `forwards_stop`: `tunnel stop` prints "stopped tunnel" (app.go:614), but
the recorded PID is -1 (executor.go:84), nobody is signalled, the record is removed and the tunnel is
served on. `server_dry_run`: `ssh_playbook_run` promises for dry_run to "Preview commands without
executing" (server.go:404), but writes `--dry-run` behind the file (server.go:1014), where the flag
package no longer looks for it; the playbook is executed and the tool reports success. The following were met while the models were written. They are in the
models where these reach; the properties above state their exceptions.

* jobs.go:242: under `bash -lc`, `$!` of the nohup launch is a subshell that waits for the
  job; `kill $(cat pid)` ends the subshell, Stop reports *stopped* and the job runs on.
  `StoppedIsGone` therefore speaks of the process of the `.pid` file, and the ledger of tmux jobs only.
* jobs.go:89: the message says "local state remains starting"; a save that fails after
  `os.WriteFile` has truncated the file leaves an empty record that no command can load.
* app.go:658: `--ttl` of a background tunnel is accepted and never fires.
* hosts.go:57: `hosts set` prints "saved host"; an overlapping edit that had loaded the
  file before undoes it. This is the exception in `SavedHostStays`.
* server.go:946: `ssh_hosts_reload` reloads in a child process; the server keeps its old copy.
* audit.go:143: files are named by the local date and compared as UTC; away from UTC a
  query passes over files with matching events. `QueryComplete` is checked for UTC.
* audit.go:240: DeleteOld never deletes a `.jsonl.gz`, since it fails to parse its date.
* audit_enhanced.go:37: `--until` ends at 23:59:59.0 of its day; an event of its last second is left out. The
  moments of `AuditLog` are coarser.
* executor.go:102: the error of Logger.Append is dropped. A command may run and be reported with no event in the
  audit log, and part of an event that a full disk leaves there spoils the next one. These are the exceptions in
  `ReportTells`.
* app.go:1556: appendKnownHosts looks at the last byte of known_hosts and writes later. If the write of another
  call stops short of its newline in between, the key that this has added is spoilt. This is the exception (`CutOff`)
  in `LinesStay` and `Pinned`.
* app.go:1543: the complaint of an `ssh-keyscan` that finds no key and ends with status 0, as older ones do, is taken
  for its output and passes the test for an empty one (app.go:1474): it is appended, and ensureKnownHosts returns
  success. This is one of the exceptions in `EnsuredMeansKnown` (`Promises`).
* audit.go:382: the error of the deferred `gz.Close` is lost; on a full disk Rotate
  removes the original of an incomplete copy. `NoEventLost` leaves full disks out.
* server.go:583 with executor.go:52: the ssh of a host with a password gets the server's
  standard input, and with it requests. This is the exception in `NoRequestLost`.
* server.go:24: a request id is decoded as an integer. JSON-RPC allows strings, too; a request with
  one does not decode and is dropped without an answer (server.go:113). `EveryRequestAnswered` and
  `NoRequestLost` are about requests with a number.
* server.go:565: `ssh_exec` without a timeout, and every tool that starts `codex-ssh`, has nothing
  that ends its ssh; a command that hangs keeps all later requests waiting. This is the exception in
  `EveryRequestAnswered`.
* server.go:162: "No response needed for notifications", but only
  `notifications/initialized` has none.
* multiexec.go:25: of `@web,@db` only the first `@` is removed; hosts tagged `db` are left out.
* playbook.go:314: `shellQuote` replaces with a raw string, so the backslashes are
  literal; a sudo step with a single quote in it arrives otherwise. `ShellQuote` has the three other copies of the function.
* app.go:1297: a step that `failed_when` fails with exit code 0 stops the run with
  status 1 and is printed as ok.
* discover.go:32: the range of all addresses is listed for ever. The runs of `Discover` have smaller ranges.
* discover.go:77: a port where the handshake fails is reported as a host all the same.
* app.go:1343: the example `exec @web "nginx -t"` lacks `--` and ends with status 2.
* app.go:435: `exec @tag` has no `--sudo`; it ends with status 2.
* server.go:99: a server whose inventory does not load goes on with an empty one, on which
  every name is an endpoint.
* server.go:586: `ssh_exec` and `ssh_diagnose` accept no host key and look up no password,
  so they fail on hosts where the CLI would succeed.
* server.go:710: `ssh_audit` reads `since` and drops it.
* server.go:1058: `ssh_audit_rotate` offers to "Compress logs older than N days" (server.go:449), but
  drops max_age_days 0: logs are compressed from 30 days and the answer is no error. This is the
  exception in `OkMeansDone`, which counts ages in whole days.
* server.go:1059: max_age_days 0.5 becomes `--max-age 0`. audit_enhanced.go:183: the error
  of DeleteOld is not looked at.
* cli/health.go:11: a named host is ignored, and with `health check --tag x` the tag; every
  host of the inventory is checked. `OkMeansDone` asks only that a named alias is among them.
* health.go:63-86: a load over its limit and a high processor do not reach the report, and
  a reading that is lost counts as nothing. `SummaryTells` is about the readings that count.
* cli/sftp.go:187: the inventory of put, get and sync is an empty placeholder and no
  credential is filled in, so none of the three, which README.md:41 lists, ever connects.
  `Transfer` is the package as a caller with credentials finds it.
* sftp.go:196: Sync takes a file of the same size for the same file; sftp.go:234: it returns
  success with files that failed. These are the limits of `TransferTells`.
* app.go:337: `hosts set` makes the entry anew and so drops its secret_ref.
* app.go:1198: the suggested `secret set --host <address>` resolves the address like a name:
  of an address that is an alias too, or has colons, it stores under another reference. This
  is the exception in `HintLeads`.
* secrets.go:31: a secret_ref and the reference of an account are strings of one kind, and hosts.example.toml:18 and
  SKILL.md:131 set a secret_ref of the form `ssh://user@host:22`. A password that is set for a host with such a reference is
  found by every command for the account it names. `PasswordOfAccount` leaves out what a secret_ref has stored, or asks for.
* app.go:1152: the environment of ssh has the password, and the askpass script answers any prompt (askpass.go:27). A jump
  host (sshargs.go:92) whose ssh asks for a password is therefore told that of the target. `PasswordOfAccount` is about what a command
  takes from the keychain, not about whom its ssh tells.
* sshconfig.go:121: of the names on a Host line only those with `*` or `?` are dropped; `Host * !bastion` imports a
  host `!bastion`. sshconfig.go:110: `User=root`, which ssh accepts, is passed over, `User = root` gives the user "= root",
  and `Host = a` imports a host `=`. These are the exceptions in `ImportAgrees`.
* README.md advertises redaction of the audit log; `redact_env` is read by nothing.
* discover.go:55: the address is put in front of the port without brackets, so no dial to an IPv6
  address succeeds and a scan of an IPv6 range finds nothing.

## 7. What is not modelled

* Configuration: one pass over a file without state that outlives it; the models take its values as constants.
* Keys: listings of key files and of the agent, reads only. Completion: generated text.
  Installers and the wrapper: shell scripts that copy a program.
* The CLI's diagnose, hosts test and shell are one ssh each with output that is parsed and
  printed: they take the steps of exec and add no state. The server's `ssh_diagnose` is in `Tools`.
* Of the modelled parts: wording and layout of output, the filters, statistics and exports
  of the audit log, ports and authentication in the flattening of jump hosts, ProxyJump, Port and
  IdentityFile, quotation marks and Include in the import, YAML, the text and permissions of askpass scripts, the
  directories inside a synchronised one, arguments of tools that begin with a dash.

## 8. Plan

The order was: the jobs first, where the most can go wrong between two machines, then the
other shared files (forwards, audit log, inventory, known_hosts), then the
concurrent command `exec @tag` composed with known_hosts, then the connections and the
sequential parts, then the tools of the server and the commands behind them. All of these
modules stand, and every safety property of a passing run is a theorem. What is left are
models: ProxyJump in `SshConfig`, composed with `JumpHosts`; time zones in the audit run; the
filters of the audit log.
