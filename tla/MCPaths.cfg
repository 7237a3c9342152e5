SPECIFICATION PSpec
CONSTANTS
  Char = {"/", "a", ".", "*", "{", "}", "|"}
  RulePaths <- Rules
  RequestPaths <- Requests
  Literal = {"a", "."}
INVARIANTS
  LuaAgreesWithIstio
  ValidIsAccepted
  NeverPanics
CHECK_DEADLOCK FALSE
