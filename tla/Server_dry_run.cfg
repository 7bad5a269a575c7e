\* One call and no edit of hosts.toml: the tool that is asked to preview a playbook runs it.
SPECIFICATION AnySpec
CONSTANTS
    Parts = {"calls"}
    None = None
    Aliases = {"web"}
    Addresses = {"h1", "h2"}
    Colons = {}
    Users = {"u"}
    Ports = {"p"}
    Refs = {"r"}
    DefaultUser = "root"
    DefaultPort = "22"
    MaxSecrets = 1
    Kinds = {"plain", "initialized", "exec", "ask", "garbage", "long"}
    MaxMessages = 3
    Calls <- ToolCalls
    BookHosts <- OneHost
    MaxCalls = 1
    MaxSaves = 0
    Files <- TwoFiles
    Contents <- SmallContents
    MaxRounds = 2
    Steps <- OneStep
    MaxSteps = 2
    MaxHosts = 2
    Codes = {0, 1}
    Hosts = {"a1", "a2", "a3"}
    Negations = {}
    Without <- NoBang
    Values = {"v1", "v2"}
    Lines = {}
    MaxLines = 4
    Top = 8
    Blocks = {4, 2, 1}
    Pool = 2
    Services = {"nothing", "ssh"}
INVARIANTS
    DryRunExecutesNothing
CHECK_DEADLOCK FALSE
