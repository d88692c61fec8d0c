\* One client, pages of two events, transactions that commit in any order.
SPECIFICATION Spec
CONSTANTS
    c1 = c1
    Clients = {c1}
    MaxSeq = 4
    Limit = 2
CHECK_DEADLOCK FALSE
INVARIANT TypeOK
INVARIANT NoGap
INVARIANT EndedComplete
 
PROPERTY StreamEnds
