CONSTANTS
    None = None
    Credentials = {"good", "bare"}
    Leaf <- MCLeaf
    Names = {"Bank", "BANK"}
    Skeleton <- MCSkeleton
    InvalidNames = {}
    Multisigs = {10}
    Parties = {1, 2, 3}
    MAX_ASSET_HOLDERS = 2
    ProofTtl = 2
    U128Max = 8
    token_create_fee = 1
    Regulated = {"bond"}
    Tokens = {"tok"}
    Owner <- MCOwner
    Metas <- MCMetas
    Attestors = {10}
    GenesisNames <- MCGenesisNames
    Grants <- MCGrants
    Amounts = {1, 2}
    Limits <- MCLimits
    Ratios <- MCRatios
    Uris = {"terms"}
    Native = 1
    BlocksPerDay = 2
    Budgets <- MCBudgets
    MaxHeight = 3
SPECIFICATION Spec
INVARIANT SupplyIsHeld
 
INVARIANT LockIsCovered
INVARIANT ProvenHolderQualifies
CHECK_DEADLOCK FALSE
