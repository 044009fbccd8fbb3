SPECIFICATION FairSpec
CONSTANTS
    Plugin = {p1, p2}
    Existing = {p1, p2}
    None = None
    Act = {"select", "save", "refresh", "template"}
    Outcome = {"compiled"}
    MaxInFlight = 1
    MaxAsked = 0
    MaxTimers = 3
    MaxFaults = 1
    MountFetches = 1
INVARIANTS
    CompilingCanEnd
    RegisteredIsLive
PROPERTIES
    CompilingEnds
    PageSettles
    ReconnectsAlone
