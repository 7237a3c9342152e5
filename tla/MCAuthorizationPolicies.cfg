SPECIFICATION Spec
CONSTANTS
  Path = {"a", "b", "c"}
  Method = {"GET", "POST", "PURGE"}
  Accepted = {"GET", "POST"}
  Condition <- Conditions
  Policies <- ExactAndSharing
INVARIANTS
  DecisionsAsIntended
  AnonymousOnlyWhereIgnored
  NothingAdmittedInError
CHECK_DEADLOCK FALSE
