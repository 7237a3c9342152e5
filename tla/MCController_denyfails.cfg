SPECIFICATION Spec
CONSTANTS
  Specs <- ShutSpecs
  Budgets <- OneFails
  MaxLag = 2
PROPERTIES
  InvalidStaysShut
