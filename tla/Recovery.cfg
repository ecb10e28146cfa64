SPECIFICATION Spec
CONSTANTS
  a1 = a1  a2 = a2  a3 = a3  a4 = a4  b2 = b2  b3 = b3  b4 = b4
  root = root  v1 = v1  v2 = v2  v3 = v3  v4 = v4  com = com
  Block <- MCBlock
  Root = root
  Prev <- MCPrev
  Num <- MCNum
  IdRank <- MCRank
  DefaultMaxSize = 20
  Validator = {v1, v2, v3, v4, com}
  Committee = com
  Threshold = 75
  MinRun = 0
  Producer <- Minority
  Verdict <- BadA4
  Missed <- NoneMissed
  Sched <- FourSlots
  Emergency = {}
  Votes <- MinorityVotes
  Hardfork12 = TRUE
  MaxGap = 1
INVARIANTS
  FailureKeepsHead
