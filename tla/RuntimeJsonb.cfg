\* One worker crashes; JSONB rewrites the arguments of one call.
SPECIFICATION Spec
CONSTANTS
    w1 = w1  w2 = w2  g1 = g1  g2 = g2  id1 = id1  id2 = id2  c1 = c1
    pay = pay  mail = mail  alias = alias
    None = None
    Goals = {g1}
    Workers = {w1, w2}
    Ids = {id1}
    WorkerId <- SharedName
    Calls = {pay, alias}
    ToolCalls <- AllTools
    ProbeCalls = {pay}
    Jsonb <- Rewrites
    KnownAgents <- AllAgents
    Clients = {c1}
    NSteps = 1
    MaxSteps = 4
    MaxEpoch = 3
    MaxFaults <- OneCrash
    SerialOps = FALSE
SYMMETRY Symm
CHECK_DEADLOCK FALSE
INVARIANT RecoverySameKey
