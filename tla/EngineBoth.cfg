\* Steps: a key of each engine with two callers, and a Postgres row with one.
\* Waits: a timer and a signal topic of each engine, two waiters.
SPECIFICATION BothSpec
CONSTANTS
    kf = kf  kp = kp  ks = ks  c1 = c1  c2 = c2  v1 = v1  v2 = v2
    w1 = w1  w2 = w2  tp = tp  tf = tf  dp = dp  df = df
    None = None
    Keys = {kf, kp, ks}
    Locked = {kf}
    Callers = {c1, c2}
    Clients <- ClientsOf
    Probing = {c2}
    Vals = {v1, v2}
    MaxCalls = 4
    MaxRetries = 1
    Waiters = {w1, w2}
    Topics = {tp, tf}
    Channels = {tf}
    Timers = {dp, df}
    FakeTimers = {df}
    Ahead <- AheadOf
    NoWait = NoWait
    ChanCap = 1
    Durations = {2}
    MaxSignals = 2
    MaxTime = 2
    MaxFailed = 1
CHECK_DEADLOCK FALSE
INVARIANT TypeOK
 
INVARIANT TimerOnTime
INVARIANT SignalOnce
INVARIANT SignalFifo
PROPERTY OutcomeFinal
PROPERTY Contract
PROPERTY SignalTaken
