SPECIFICATION SystemSpec
CONSTANTS
    Plugin = {p1, p2}
    Client = {c1}
    Runner = {r1, r2}
    Source = {s1, s2}
    Compilable = {s1, s2}
    None = None
    NoRunner = NoRunner
    QueueSize = 1
    Faults = {}
    RemovalFails = FALSE
    MaxCrashes = 1
    MaxVersion = 2
    FKEnforced = TRUE
SYMMETRY Symmetry
CONSTRAINT UpdatesToOneOnly
INVARIANTS
    RunsOwnModule
PROPERTIES
    ImplementsHost
