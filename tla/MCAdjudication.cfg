SPECIFICATION Spec
CONSTANTS
    Depth = 3
    None = None
    Unproven = Unproven
    Refused = Refused
    HashKey <- MCHashKey
    Genesis <- MCGenesis
    Commits <- MCCommits
    Actions <- MCActions
    ProofSets <- MCProofSets
    Boundary = TRUE
    Budget = 3
CHECK_DEADLOCK FALSE
INVARIANT EveryRootStaysProvable
INVARIANT VerdictIsJust
