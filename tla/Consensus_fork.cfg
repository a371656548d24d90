SPECIFICATION SecondHeightSpec
CONSTANTS
  a = a
  b = b
  c = c
  d = d
  Node = {a, b, c}
  Power <- UnequalPower
  Supply = 6
  Split = {}
  ManualVoters = {}
  Rank <- MCRank
  Seed <- MCSeed
  HaltHeight <- NoHalt
  MaxConsensusRounds = 1
  MaxHeight = 2
  MaxTimeouts <- OneTimeoutEach
INVARIANTS
  Agreement
  NoEquivocation
  PrecommitJustified
