SPECIFICATION HostSpec
CONSTANTS
    Plugin = {p1}
    Client = {c1}
    Runner = {r1}
    Source = {s1}
    Compilable = {s1}
    None = None
    QueueSize = 1
    Faults = {}
    RemovalFails = FALSE
    MaxCrashes = 0
    MaxVersion = 2
    FKEnforced = FALSE
INVARIANTS
    NoOrphanHistory
