SPECIFICATION RSpec
CONSTANTS
  WellKnown <- Table
  WellKnownURI <- Uris
  Documents <- Providers
  Rejected <- IsQuoted
  Specs <- Combinations
  Elsewhere <- Others
INVARIANTS
  LoginParamsMerged
  LogoutAsConfigured
  OtherRedirectsUntouched
