SPECIFICATION Spec
CONSTANTS
  Path = {"a", "b", "c"}
  Method = {"GET", "POST", "PURGE"}
  Accepted = {"GET", "POST"}
  Condition <- Conditions
  Policies <- SparePolicies
INVARIANTS
  EachAuthRuleHasItsAllowRule
CHECK_DEADLOCK FALSE
