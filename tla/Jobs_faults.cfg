\* One job and two other processes, with every fault and with none.
SPECIFICATION FairSpec
CONSTANTS
    j1 = j1
    c1 = c1
    c2 = c2
    Jobs = {j1}
    Clients = {c1, c2}
    Hints = {"auto", "tmux", "nohup", "other"}
    Environments = {{}, {"crash", "save", "ssh"}}
INVARIANTS
    WriteAhead
    HandleIsReal
    StoppedIsGone
    NoResurrection
PROPERTIES
    HandleIsKept
    ImplementsLedger
    StopEndsJob
CHECK_DEADLOCK FALSE
