\* One Postgres row, two callers at a time.
SPECIFICATION Spec
CONSTANTS
    kf = kf  kp = kp  ks = ks  c1 = c1  c2 = c2  v1 = v1  v2 = v2
    None = None
    Keys = {kp}
    Locked = {}
    Callers = {c1, c2}
    Clients <- ClientsOf
    Probing = {c2}
    Vals = {v1, v2}
    MaxCalls = 2
    MaxRetries = 1
CHECK_DEADLOCK FALSE
INVARIANT OneInFlight
