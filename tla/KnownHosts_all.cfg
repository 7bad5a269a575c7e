\* Two calls of up to two hosts each on the servers of one machine: servers that
\* change their keys, tools that fail or whose complaint passes for a key, writes that
\* stop short, and a configuration that leaves the keys to ssh.
SPECIFICATION Spec
CONSTANTS
    c1 = c1
    c2 = c2
    h1 = h1
    k1 = k1
    k2 = k2
    Clients = {c1, c2}
    Names = {h1}
    OtherPorts = {2222}
    Keys = {k1, k2}
    MaxHops = 1
    Environments = {{"rekey", "tools"}, {"tools", "partial"}, {"rekey", "noise"}, {"off"}}
SYMMETRY Symmetry
INVARIANTS
    EnsuredMeansKnown
PROPERTIES
    Pinned
    LinesStay
CHECK_DEADLOCK FALSE
