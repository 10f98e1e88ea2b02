CONSTANTS
    v1 = v1
    v2 = v2
    v3 = v3
    b0 = b0
    b1 = b1
    NoBlock = NoBlock
    Validators = {v1, v2, v3}
    Faulty = {v3}
    owner <- MCOwner
    MaxRound = 1
    Blocks = {b0, b1}
    BlockRound <- MCBlockRound
    BlockProposer <- MCBlockProposer
SPECIFICATION LiveSpec
PROPERTY ImplementsConsensus
PROPERTY ImplementsDecision
PROPERTY LockedBlockIsKept
PROPERTY CertifiedIsHeld
CHECK_DEADLOCK FALSE
INVARIANT FinalityAgrees
