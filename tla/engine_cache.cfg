SPECIFICATION FairCacheSpec
CONSTANTS
    Runner = {r1, r2, r3}
    Plugin = {p1}
    Artefact = {m1, m2, broken}
    Loadable = {m1, m2}
    NoModule = NoModule
    NoRunner = NoRunner
INVARIANTS
    CacheTypeOK
    MapRaceFree
    NeverNilModule
    NobodyStuck
PROPERTIES
    LoadedOnce
    CallsAdvance
    RunsReturn
    ImplementsMemo
