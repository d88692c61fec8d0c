\* Two processes on one directory, two records, one crash, one failing call.
SPECIFICATION Spec
CONSTANTS
    p1 = p1  p2 = p2
    None = None
    Procs = {p1, p2}
    MaxRecs = 2
    MaxCrashes = 1
    MaxIOErrors = 1
CHECK_DEADLOCK FALSE
INVARIANT TypeOK
INVARIANT AckedKept
 
 
