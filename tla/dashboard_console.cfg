SPECIFICATION Spec
CONSTANTS
    Plugin = {p1}
    Existing = {}
    None = None
    Act = {"select", "create", "delete", "run", "api"}
    Outcome = {"compiled"}
    MaxInFlight = 2
    MaxAsked = 1
    MaxTimers = 4
    MaxFaults = 1
    MountFetches = 1
INVARIANTS
    DashTypeOK
    OnlyLossesDoubleRuns
