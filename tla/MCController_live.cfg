SPECIFICATION FairSpec
CONSTANTS
  Specs <- LiveSpecs
  Budgets <- LostAndRotated
  MaxLag = 1
INVARIANTS
  QuiescentMeansConverged
  QuiescentMeansReported
PROPERTIES
  EventuallySettled
  EventuallyFailed
