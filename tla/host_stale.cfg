SPECIFICATION HostSpec
CONSTANTS
    Plugin = {p1}
    Client = {c1}
    Runner = {r1}
    Source = {s1, s2}
    Compilable = {s1, s2}
    None = None
    QueueSize = 1
    Faults = {}
    RemovalFails = FALSE
    MaxCrashes = 0
    MaxVersion = 3
    FKEnforced = FALSE
INVARIANTS
    DeployedCodeIsServed
