SPECIFICATION GenesisSpec
CONSTANTS
  a = a
  b = b
  c = c
  d = d
  Node = {a, b}
  Power <- EqualPower
  Supply = 6
  Split = {}
  ManualVoters = {a}
  Rank <- MCRank
  Seed <- MCSeed
  HaltHeight <- NoHalt
  MaxConsensusRounds = 1
  MaxHeight = 2
  MaxTimeouts <- TwoTimeoutsEach
INVARIANTS
  TypeOK
  EngineTracksChain
  FinalityCertified
PROPERTY
  ImplementsLog
  
CHECK_DEADLOCK FALSE
