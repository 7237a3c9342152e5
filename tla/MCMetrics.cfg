SPECIFICATION FairSpec
CONSTANTS
  Gone = Gone
  Name = {"p"}
  Info = {"good", "bad"}
  Pod = {"x", "y"}
  Outcome <- Outcomes
  MaxChanges = 3
  MaxFails = 1
  MaxCrashes = 1
INVARIANTS
  TypeOK
  CalmRoundIsExact
  NoPolicyHidden
PROPERTIES
  EventuallyExact
