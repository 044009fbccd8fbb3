SPECIFICATION Spec
CONSTANTS
    Plugin = {p1, p2}
    Existing = {p1, p2}
    None = None
    Act = {"select", "save"}
    Outcome = {"compiled"}
    MaxInFlight = 2
    MaxAsked = 0
    MaxTimers = 4
    MaxFaults = 0
    MountFetches = 2
INVARIANTS
    SavesOwnText
