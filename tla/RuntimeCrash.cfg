\* Leases are lost only by crashes and errors: operators signal one at a time,
\* nobody stalls; one process does not know the goal's agent.
SPECIFICATION FairSpec
CONSTANTS
    w1 = w1  w2 = w2  g1 = g1  g2 = g2  id1 = id1  id2 = id2  c1 = c1
    pay = pay  mail = mail  alias = alias
    None = None
    Goals = {g1}
    Workers = {w1, w2}
    Ids = {id1, id2}
    WorkerId <- OwnNames
    Calls = {pay, mail}
    ToolCalls <- AllTools
    ProbeCalls = {pay}
    Jsonb <- Exact
    KnownAgents <- SomeAgents
    Clients = {c1}
    NSteps = 2
    MaxSteps = 3
    MaxEpoch = 9
    MaxFaults <- CrashOnly
    SerialOps = TRUE
CHECK_DEADLOCK FALSE
INVARIANT StepsCommitted
INVARIANT AtMostOnce
INVARIANT DoneSettled
PROPERTY ResumeReturns
PROPERTY Settles
PROPERTY EffectsKept
