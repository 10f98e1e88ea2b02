SPECIFICATION PartSpec
CONSTANTS
    Users = {1, 2, 3}
    Validators = {1, 2, 3}
    Genesis = {1, 2}
    Balance = 6
    GenesisStake = 2
    Pool = 1
    Amounts = {2}
    Operators = {3}
    Reporters = {3}
    Attested = {}
    Params <- MCParams
    MAX_DELEGATION_PER_VALIDATOR = 4
    EvidenceHeights = {1}
    MaxRound = 1
    MaxActions = 3
    MaxHeight = 5
    None = None
    Addresses <- MCAddresses
    Stakes <- MCStakes
    Members = {v1, v2}
    Managers = {o1, o2}
    BlsKeys = {k1, k2}
    Securities = {x}
    Holders = {p, q}
    p = p
    q = q
    OldBalances <- MCOldBalances
    EpochLength = 2
    NoRow = NoRow
    MaxBlocks = 2
    MaxBlockActions = 2
INVARIANT UnbondingReturns
SYMMETRY MCSymmetry
CHECK_DEADLOCK FALSE
