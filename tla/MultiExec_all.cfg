\* Two hosts behind one jump host, one with a password; hosts that do not resolve,
\* keys that fail, commands that hang, connections that break, a time limit.
SPECIFICATION FairSpec
CONSTANTS
    a1 = a1
    a2 = a2
    j1 = j1
    web = web
    db = db
    k1 = k1
    Aliases = {a1, a2}
    JumpHost = j1
    Behind = {a1, a2}
    Password = {a1}
    Tags = {web, db}
    Tagged <- OneIsWeb
    Specs <- SomeOrAll
    HostKey = k1
    KeyFaults = {"tools"}
    Timeout = TRUE
INVARIANTS
    ReportTells
    KeysBeforeCommand
PROPERTIES
    ReturnsInTime
CHECK_DEADLOCK FALSE
