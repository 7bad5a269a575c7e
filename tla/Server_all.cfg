\* Three messages of any kind, in chunks of any size; two calls of any tools, and an edit
\* of hosts.toml at any time; ranges of four, two and one out of eight addresses; two files
\* with contents of up to two buffers, and two rounds.  The parts that are fair are here.
SPECIFICATION AnySpec
CONSTANTS
    Parts = {"lines", "calls", "discover", "transfer"}
    None = None
    Aliases = {"web"}
    Addresses = {"h1", "h2"}
    Colons = {}
    Users = {"u"}
    Ports = {"p"}
    Refs = {"r"}
    DefaultUser = "root"
    DefaultPort = "22"
    MaxSecrets = 1
    Kinds = {"plain", "initialized", "timed", "exec", "ask", "garbage", "long"}
    MaxMessages = 3
    Calls <- ToolCalls
    BookHosts <- OneHost
    MaxCalls = 2
    MaxSaves = 1
    Files <- TwoFiles
    Contents <- SmallContents
    MaxRounds = 2
    Steps <- OneStep
    MaxSteps = 2
    MaxHosts = 2
    Codes = {0, 1}
    Hosts = {"a1", "a2", "a3"}
    Negations = {}
    Without <- NoBang
    Values = {"v1", "v2"}
    Lines = {}
    MaxLines = 4
    Top = 8
    Blocks = {4, 2, 1}
    Pool = 2
    Services = {"nothing", "ssh"}
INVARIANTS
    NoRequestLost
    OkMeansDone
    SameMachine
    OpenOnesFound
    TransferTells
PROPERTIES
    EveryRequestAnswered
    ScanEnds
CHECK_DEADLOCK FALSE
