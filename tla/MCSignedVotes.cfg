CONSTANTS
    b1 = b1
    b2 = b2
    MaxHeight = 1
    MaxRound = 2
    Hashes = {b1, b2}
    p1 = p1
    Parents = {p1}
    Pols <- MCPols
SPECIFICATION Spec
INVARIANT NoEquivocation
INVARIANT ReleasedIsDurable
INVARIANT UnlockedOnlyByPol
CHECK_DEADLOCK FALSE
