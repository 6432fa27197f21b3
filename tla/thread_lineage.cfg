SPECIFICATION Spec
CONSTANTS
  Families <- LineageRuns
  LongTexts <- MCLongTexts
  BruteForceThreshold = 2
  MaxBucketSize = 3
  BurstWindow = 60
  Blank = 0
  Dictionary <- MCDictionary
  Proposals <- MCProposals
  AiNoise <- MCAiNoise
  AiThreshold = 3
  ProposalLimit = 3
  MaxKeywords = 4
  Opinions <- MCOpinions
  Lost <- MCLost
  MaxKeywordsPerAspect = 2
  Words <- MCWords
  Surfaces <- MCSurfaces
  MaxCandidates = 2
  BuiltIn <- MCBuiltIn
  Polarity <- MCPolarity
  Cues <- MCCues
  Contrasts <- MCContrasts
  NegationReach = 3
  ShortText = 4
  PairwiseMax = 2
  Noise <- MCNoise
  TopTokens = 4
  TopicTerms = 4
  Moods <- MCMoods
  TopRows = 2
CHECK_DEADLOCK FALSE
INVARIANTS ThreadsHaveLineage
