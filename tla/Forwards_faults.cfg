\* A tunnel and a proxy that want one port and two other processes, with and
\* without crashes and lost connections.
SPECIFICATION FairSpec
CONSTANTS
    f1 = f1
    f2 = f2
    c1 = c1
    c2 = c2
    Forwards = {f1, f2}
    Proxies = {f2}
    Ports = {4000}
    Clients = {c1, c2}
    TtlFlags = {"unset"}
    DefaultTtl = "positive"
    Environments = {{"save"}, {"crash", "save", "ssh"}}
INVARIANTS
    ListShowsStarted
    PortServed
PROPERTIES
    StopRemovesRecord
CHECK_DEADLOCK FALSE
