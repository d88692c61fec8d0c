\* Two processes on one key file, started three times, and one effect.
SPECIFICATION FairSpec
CONSTANTS
    p1 = p1  p2 = p2  e1 = e1   vendor = vendor  forger = forger
    None = None
    Procs = {p1, p2}
    Effects = {e1}
    VendorKeys = {vendor}
    Grace = 1
    WorkerCounts = {1, 2}
    Sources <- SomeSources
    FreeWorkerCap = 1
    MaxStarts = 3
    MaxCrashes = 1
    MaxFaults = 1
    Days = {1, 2, 3}
CHECK_DEADLOCK FALSE
INVARIANT TypeOK
INVARIANT OneFileKey
INVARIANT LicenseGate
INVARIANT WorkerTrailKept
PROPERTY Stops
