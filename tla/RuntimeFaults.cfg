\* Two workers that share an owner name, one goal, every fault and signal once;
\* one process does not know a tool.
SPECIFICATION Spec
CONSTANTS
    w1 = w1  w2 = w2  g1 = g1  g2 = g2  id1 = id1  id2 = id2  c1 = c1
    pay = pay  mail = mail  alias = alias
    None = None
    Goals = {g1}
    Workers = {w1, w2}
    Ids = {id1}
    WorkerId <- SharedName
    Calls = {pay, mail}
    ToolCalls <- SomeTools
    ProbeCalls = {pay}
    Jsonb <- Exact
    KnownAgents <- AllAgents
    Clients = {c1}
    NSteps = 1
    MaxSteps = 4
    MaxEpoch = 3
    MaxFaults <- NoErrors
    SerialOps = FALSE
CHECK_DEADLOCK FALSE
INVARIANT TypeOK
INVARIANT LeaseOnlyRunnable
INVARIANT FenceExclusive
INVARIANT OperatorApproved
INVARIANT RecoverySameKey
PROPERTY EffectFinal
PROPERTY EpochOrder
PROPERTY TerminalFinal
