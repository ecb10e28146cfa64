SPECIFICATION MCSpec
CONSTANTS
  alice = alice
  bob = bob
  carol = carol
  null = null
  anonymous = anonymous
  committee = committee
  nobody = nobody
  Names <- MCNames
  Users <- MCUsers
  Validators <- MCValidators
  Producers = {alice}
  Nobody = nobody
  Null = null
  Anonymous = anonymous
  Treasury = committee
  Full = 4
  RegenTime = 2
  CreationFee = 2
  ProxyDepth = 2
  Never = 1000
  WithdrawInterval = 1
  WithdrawIntervals = 2
  MaxRoutes = 2
  DelegationRatio = 2
  DelegationTime = 2
  MinDelegation = 1
  MaxVotes = 2
  IssuedPerBlock = 8
  ValidatorPercent = 2
  CommitteeRatio = 1
  EpochLength = 2
  MinPayout = 1
  MinRshares = 1
  EscrowIds = {1}
  InviteKeys = {1}
  MinInvite = 2
  UsedInviteDelay = 0
  SaleFee = 1
  SaleDelay = 2
  MinStep = 1
  Extension = 1
  ClockAhead = 0
  RecoveryExpiration = 2
  RecoveryLimit = 1
  ChangePeriod = 2
  RequestIds = {1, 2}
  RequestFee = 1
  RequestPause = 1
  ApproveMinPercent = 1
  PayInterval = 2
  ClosedDelay = 1
  SubscriptionFee = 1
  ProposalIds = {1}
  ProposalLifetime = 2
  Tokens = {2, 4}
  Percents = {2}
  Weights = {4}
  Fees = {0, 1}
  Periods = {1, 2}
  Levels = {0, 1, 2}
  Opinions <- MCOpinions
  Workers = {alice}
  Horizon = 4
  LastOps = 2
  Actors = {alice}
  Budget <- MCBudget
  BaseShares = 8
INVARIANT SupplyConserved
