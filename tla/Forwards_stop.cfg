\* One tunnel and one stop, and nothing fails.
SPECIFICATION Spec
CONSTANTS
    f1 = f1
    f2 = f2
    c1 = c1
    c2 = c2
    Forwards = {f1}
    Proxies = {}
    Ports = {4000}
    Clients = {c1}
    TtlFlags = {"unset"}
    DefaultTtl = "unset"
    Environments = {{}}
INVARIANTS
    ReportedStopIsStopped
CHECK_DEADLOCK FALSE
