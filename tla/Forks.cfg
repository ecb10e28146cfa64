SPECIFICATION ForksSpec
CONSTANTS
  a1 = a1  a2 = a2  a3 = a3  a4 = a4  b2 = b2  b3 = b3  b4 = b4
  e1 = e1  e2 = e2  e3 = e3  e4 = e4  f2 = f2  f3 = f3  g2 = g2  g3 = g3
  root = root  v1 = v1  v2 = v2  v3 = v3  v4 = v4  com = com
  Block <- ForksBlock
  Root = root
  Prev <- ForksPrev
  Num <- ForksNum
  IdRank <- ForksRank
  DefaultMaxSize = 20
  Validator = {v1, v2, v3, v4, com}
  Committee = com
  Threshold = 75
  MinRun = 0
  Producer <- ForksProducer
  Verdict <- ForksVerdict
  Missed <- ForksMissed
  Sched <- ForksSched
  Emergency <- ForksEmergency
  Votes <- MinorityVotes
  Hardfork12 = TRUE
  MaxGap = 3
INVARIANTS
  TypeOK
  LibHasSupport
  HeadIsForkItem
  ForkModeInSync
  FailureKeepsHead
  FalseKeepsHead
  EmergencyBranchWins
PROPERTIES
  SyncsToTip
