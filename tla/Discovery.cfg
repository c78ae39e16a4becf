CONSTANTS
  F1 = F1  F2 = F2  W = W  A = A  B = B  p1 = p1  p2 = p2  q1 = q1  broken = broken
  Bad = Bad  ZeroAddress = ZeroAddress  Zero = ZeroAddress  None = None
  BlockchainError = BlockchainError  ConnectionError = ConnectionError
  Requests <- MCRequests
  Answers <- MCAnswers
  Size = 2
  MaxRetries = 1
  FactorySeq <- MCFactorySeq
  Pairs <- MCPairs
  Tokens <- MCTokens
  Fees <- MCFees
  FixedFee = {F2}
  MayThin = {q1}
  MinLiquidity = 1
  Exclude = 1
  DownloadPools = FALSE
  MaxFaults = 2
  PathTokens <- MCPathTokens
  Weths <- MCWeths
  Length = 3
  Ignored = {}
  Blacklist <- MCBlacklist
SPECIFICATION Spec
INVARIANTS TypeOK NoPoolForgotten PoolsAsOnChain PathsExact
PROPERTIES OldThinPoolsGo DiscoveryEnds CallsAnswered
CHECK_DEADLOCK FALSE
