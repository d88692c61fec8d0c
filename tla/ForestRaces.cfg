\* Two requests at a time; the name a is also an id.
SPECIFICATION Spec
CONSTANTS
    a = a  b = b  g = g  n = n  x = x  r1 = r1  r2 = r2
    None = None
    Ids = {a, b, g}
    Generated = {g}
    Names = {a, n}
    Bodies = {x}
    Requests = {r1, r2}
    Submissions <- Submitted
    MaxCalls = 5
SYMMETRY Symmetry
CHECK_DEADLOCK FALSE
INVARIANT TypeOK
 
INVARIANT TreeSound
 
