\* Every playbook of up to two steps on up to two hosts; three hosts with every outcome
\* of every check; every ssh configuration of four lines out of 15 over two hosts, a pattern, a
\* negation, two directives, `=` in both forms, and Match; two aliases, of which "b" may be the address of the other one, an
\* address with colons ("six"), a secret_ref that is also the reference of an account, and one
\* password in the keychain.
SPECIFICATION AnySpec
CONSTANTS
    Parts = {"playbook", "health", "secrets", "import"}
    None = None
    Aliases = {"a", "b"}
    Addresses = {"b", "six"}
    Colons = {"six"}
    Users = {}
    Ports = {"p"}
    Refs <- SomeRefs
    DefaultUser = "root"
    DefaultPort = "22"
    MaxSecrets = 1
    Kinds = {"plain", "initialized", "exec", "ask", "garbage", "long"}
    MaxMessages = 3
    Calls = {}
    BookHosts <- OneHost
    MaxCalls = 1
    MaxSaves = 0
    Files <- TwoFiles
    Contents <- SmallContents
    MaxRounds = 2
    Steps <- AllSteps
    MaxSteps = 2
    MaxHosts = 2
    Codes = {0, 1}
    Hosts = {"a1", "a2", "a3"}
    Negations = {"!a"}
    Without <- NoBang
    Values = {"v1", "v2"}
    Lines <- SomeLines
    MaxLines = 4
    Top = 8
    Blocks = {4, 2, 1}
    Pool = 2
    Services = {"nothing", "ssh"}
INVARIANTS
    FailureIsLast
    ZeroMeansAllSteps
    SummaryTells
    PasswordOfAccount
    HintLeads
    ImportAgrees
CHECK_DEADLOCK FALSE
