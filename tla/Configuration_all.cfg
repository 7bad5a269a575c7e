\* Every inventory of three aliases with up to two jump hosts each; every text of up to
\* five characters.  Nobody edits the file of the inventory meanwhile.
SPECIFICATION AnySpec
CONSTANTS
    a1 = a1
    a2 = a2
    a3 = a3
    e1 = e1
    Aliases = {a1, a2, a3}
    Hosts = {"h1"}
    Editors = {}
    Servers = {}
    Environments = {{}}
    Endpoints = {e1}
    MaxVia = 2
    MaxLength = 5
SYMMETRY Symmetry
INVARIANTS
    FailsIffBroken
    HopsInOrder
    DirectoryKept
CHECK_DEADLOCK FALSE
