CONSTANTS
    Tools = {t1, t2}
    NoTool = NoTool
    Mains = {m1}
    Family = {f1, f2}
    MaxRevisions = 3
    MaxCuts = 0
SPECIFICATION WebdavSpec
INVARIANT NoneInherited
CHECK_DEADLOCK FALSE
