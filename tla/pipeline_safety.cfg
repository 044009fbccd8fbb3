SPECIFICATION Spec
CONSTANTS
    Plugin = {p1, p2}
    Client = {c1, c2}
    Source = {good, bad}
    Compilable = {good}
    None = None
    QueueSize = 1
    Faults = {}
    RemovalFails = TRUE
    MaxCrashes = 1
    MaxVersion = 2
SYMMETRY Symmetry
INVARIANTS
    TypeOK
PROPERTIES
    OnlyCrashesLoseRebuilds
    OnlyFailuresLeaveDirs
