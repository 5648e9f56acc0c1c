CONSTANTS
 Tools = {t1, t2}
 NoTool = NoTool
 Mains = {m1, m2}
 Family = {f1}
 MaxRevisions = 4
 MaxCuts = 0
SPECIFICATION WebdavSpec
INVARIANT RegisteredOnly
CHECK_DEADLOCK FALSE
