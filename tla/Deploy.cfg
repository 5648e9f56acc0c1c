CONSTANTS
    Sites = {s1, s2}
    Versions = {v1, v2}
    FirstRun = FALSE
    MaxRev = 3
    MaxEdits = 1
    MaxFaults = 2
    Editions = {cd, ol}
    Domains = {d1, d2}
    DavEditions = {cd}
    NoDomain = NoDomain
    MaxProxyFaults = 1
    MaxLosses = 1
    Tools = {t1, t2}
    NoTool = NoTool
    Mains = {m1}
    Family = {f1, f2}
    MaxRevisions = 3
    MaxCuts = 1
    Products = {cd, ol}
    Bundles = {b1}
    Runs = {r1, r2}
    MaxRuns = 2
    MaxKills = 1
SPECIFICATION DeploySpec
INVARIANTS
    DeployTypeOK Settled RoutesServed RecordTellsWhoEnters
    EndsWhole QuietArchive ServicesAsFound UsedIsKept
PROPERTIES
    EditsSurvive KeepsPromise Resolved NoReopen OvertakenWritesNothing
CHECK_DEADLOCK FALSE
