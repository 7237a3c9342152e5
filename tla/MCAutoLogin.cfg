SPECIFICATION FairChainSpec
CONSTANTS
  Path <- Paths5
  Method = {"GET", "POST"}
  Accepted = {"GET", "POST"}
  Condition = {"iss", "w"}
  Policies <- OneRuleEach
  AutoLogins <- Configs
  DefaultRedirectPath = "/callback"
  DefaultLogoutPath = "/logout"
INVARIANTS
  LoginTriggersOnProtected
  BypassedIsServed
PROPERTIES
  KeepsPromise
  LoginEnds
