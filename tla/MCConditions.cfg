SPECIFICATION CSpec
CONSTANTS
  Kinds = {"k1", "k2"}
  Specs <- OneOrBoth
  MaxSpent = 2
  MaxClock = 1
INVARIANT ConditionsExplainPhase
PROPERTY SettledStatusStays
