SPECIFICATION HostSpec
CONSTANTS
    Plugin = {p1}
    Client = {c1, c2}
    Runner = {r1, r2}
    Source = {s1, s2}
    Compilable = {s1, s2}
    None = None
    QueueSize = 1
    Faults = {"rejected", "unacked"}
    RemovalFails = FALSE
    MaxCrashes = 1
    MaxVersion = 3
    FKEnforced = FALSE
SYMMETRY Symmetry
INVARIANTS
    FirstVersionServed
PROPERTIES
    GoneForGood
