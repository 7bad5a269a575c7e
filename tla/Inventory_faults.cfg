\* Two editors and an MCP server, every fault.
SPECIFICATION Spec
CONSTANTS
    a1 = a1
    a2 = a2
    h1 = h1
    h2 = h2
    e1 = e1
    e2 = e2
    s1 = s1
    Aliases = {a1, a2}
    Hosts = {h1, h2}
    Editors = {e1, e2}
    Servers = {s1}
    Environments = {{"crash", "save"}, {"crash", "save", "power"}}
SYMMETRY EditorSymmetry
INVARIANTS
    InventoryLoadable
    SavedHostStays
CHECK_DEADLOCK FALSE
