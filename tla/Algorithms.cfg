CONSTANTS
  TargetMax = 6
  OverlapMax = 2
  CharsPerToken = 4
  TokenBudget = 4
  RrfK = 60
  CandidatePool = 3
  SnippetWindow = 7
  Blank = "blank"
  Similarity <- SimilarityValue
  Threshold = 50
  QualityRetries = 2
  StructureRetries = 1
  MaxAtoms = 5
  MaxParagraph = 2
  MaxResults = 4
  MaxSegments = 3
SPECIFICATION Spec
INVARIANTS ChunksAreSound ContextsAreSound ViewsAreSound GraphsAreSound
