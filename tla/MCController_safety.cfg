SPECIFICATION Spec
CONSTANTS
  Specs <- PlainSpecs
  Budgets <- Combined
  MaxLag = 2
INVARIANTS
  TypeOK
  QuiescentMeansConverged
  QuiescentMeansReported
  ObservedGenerationValid
PROPERTIES
  ObservedGenerationMonotone
  OnlyControlledObjectsChange
