SPECIFICATION FairSpec
CONSTANTS
    Plugin = {p1}
    Client = {c1, c2}
    Source = {good, bad}
    Compilable = {good}
    None = None
    QueueSize = 1
    Faults = {}
    RemovalFails = TRUE
    MaxCrashes = 1
    MaxVersion = 3
PROPERTIES
    PendingIsDecided
    StaleVerdictReplaced
    RequestsAnswered
    ResubmissionRecovers
    RebuildRetriesRemoval
    ImplementsCatalog
