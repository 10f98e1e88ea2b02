SPECIFICATION Spec
CONSTANTS
    Validators = {"v1", "v2"}
    Accounts <- MCAccounts
    SetInForce <- MCSets
    GenesisLedger <- MCGenesis
    Proposable <- MCProposable
    Applications <- MCApplications
    Faults <- MCFaults
    Challengers = {"v2"}
    Genesis = "here"
    Signed <- MCSigned
    KeyOwner <- MCKeyOwner
    NoVerdict = NoVerdict
    MaxHeight = 5
    MaxProposals = 2
    MaxActions = 5
    Credentials = {}
    Leaf = 0
    Names = {"Acme", "ACME"}
    Skeleton <- MCSkeleton
    InvalidNames = {}
    Multisigs = {"a1", "a2"}
    None = None
CHECK_DEADLOCK FALSE
INVARIANT RemovalBlockLifts
PROPERTY SettledIsForever
 
