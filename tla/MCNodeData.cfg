CONSTANTS
    p1 = p1
    p2 = p2
    x = x
    y = y
    Absent = Absent
    Payloads = {p1, p2}
    StateKeys = {x, y}
    Puts <- MCPuts
    Deletes <- MCDeletes
    Retain = 1
    MaxHeight = 3
    MaxUnsynced = 2
    Decided <- MCDecided
    core = core
    side = side
    core1 = core1
    core2 = core2
    side1 = side1
    node = node
    tool = tool
    ChainNames = {core, side}
    Genesis <- MCGenesis
    Formats <- MCFormats
    Stale = Stale
    Unset = Unset
    Processes = {node, tool}
    Runs <- MCRuns
    MaxStarts <- MCStarts
    MaxSigned = 1
SPECIFICATION NodeDataSpec
INVARIANT FinalPrefixIsDecided
INVARIANT StateAtIsReplay
INVARIANT RecoveryIsPossible
 
INVARIANT SignerIsKept
