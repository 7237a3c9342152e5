SPECIFICATION FairRefSpec
CONSTANTS
  Names = {"a", "b"}
  ConfigMaps = {"cm"}
  Secrets = {"secret"}
  Value = {"v1", "v2"}
  NoValue = NoValue
  Specs <- SomeSpecs
  Gone = Gone
  MaxChanges = 3
  MaxLost = 1
  MaxCrashes = 1
  MaxLag = 2
INVARIANTS
  NoAudienceDropped
  ReferencesCurrent
PROPERTY EventuallyCurrent
