CONSTANTS
    v1 = v1
    v2 = v2
    v3 = v3
    v4 = v4
    b1 = b1
    b2 = b2
    Validators = {v1, v2, v3, v4}
    Faulty = {v4}
    owner <- MCOwner
    MaxRound = 1
    Blocks = {b1, b2}
SYMMETRY Symmetry
SPECIFICATION VoteSpec
INVARIANT Agreement
CHECK_DEADLOCK FALSE
