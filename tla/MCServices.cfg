SPECIFICATION ServicesSpec
CHECK_DEADLOCK FALSE
CONSTANTS
  p1 = p1
  p2 = p2
  p3 = p3
  alice = alice
  bob = bob
  registry = registry
  credA = credA
  credB = credB
  c1 = c1
  c2 = c2
  ch = ch
  de = de
  club = club
  secretA = secretA
  secretB = secretB
  val1 = val1
  val2 = val2
  me = me
  other = other
  ip1 = ip1
  ip2 = ip2
  op1 = op1
  op2 = op2
  peer1 = peer1
  peer2 = peer2
  Absent = Absent
  NoHash = NoHash
  Zero = Zero
  NoCountry = NoCountry
  NoGroup = NoGroup
  Refused = Refused
  None = None
  NoOperator = NoOperator
  Payloads = {p1, p2, p3}
  StateKeys = {alice, bob, registry}
  Puts <- MCPuts
  Deletes <- MCDeletes
  Retain = 1
  MaxHeight = 2
  MaxUnsynced = 1
  Decided <- MCDecided
  Clients = {c1, c2}
  Accounts = {alice, bob}
  Attestor = registry
  Grants <- MCGrants
  AccountSeq <- MCAccountSeq
  RootLife = 1
  Asks <- MCAsks
  Today <- MCToday
  TreeDepth = 1
  Creds = {credA, credB}
  Secret <- MCSecret
  Opening <- MCOpening
  Members <- MCMembers
  ChallengeWindow = 1
  Routes <- MCRoutes
  MaxWrites <- MCMaxWrites
  Pairers = {val1, val2}
  Operators = {op1, op2}
  PairingTtl = 1
  MaxClock = 3
  Ips = {ip1, ip2}
  Window = 1
  MaxBudget <- MCMaxBudget
  SweepThreshold = 2
  TrustedHops = 1
  MaxTime = 3
  Proposers = {me, other}
  Self = me
  Keyed = {me, other}
  BacklogCap = 1
  FaultHeights = {1}
  MaxEvents = 2
  MaxOwnNonce = 2
  PoolCap = 2
  Peers = {peer1, peer2}
  Foreign = {peer2}
  VoteTopics = {"precommits", "round_timeouts"}
  OutboundCap = 1
  MaxBadGossip = 2
  MaxTip = 2
  MaxMade <- MCMaxMade
  PeerWait = 1
  SyncWaitCap = 2
INVARIANT ClaimAnswersAreLive
INVARIANT AnswersAreTrue
INVARIANT SessionsAndBudgetsHold
 
INVARIANT SwarmFollowsTheNode
