CONSTANTS
  Fee <- MCFee
  Weight <- MCWeight
  None = None
  Extensions = TRUE
  Size <- MCSize
  max_pending = 2
  max_pending_bytes = 4
  max_per_sender = 2
  DROPPED_RING = 2
  max_nonce_gap = 1
  Me = "me"
  GenesisLedger <- MCGenesisLedger
  Submissions <- MCSubmissions
  PeerActions <- MCPeerActions
  Mine <- MCMine
  max_block_weight = 3
  max_actions = 2
  MaxBlockBytes = 4
  MaxHeight = 3
  MaxRound = 1
  MaxInputs = 3
  MaxRestarts = 1
SPECIFICATION Spec
CHECK_DEADLOCK FALSE
INVARIANT PolicyHolds
 
INVARIANT PoolIsConsistent
PROPERTY ActionsAreNotForgotten
