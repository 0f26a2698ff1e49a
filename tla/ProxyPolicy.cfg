CONSTANTS
  r1 = r1
  r2 = r2
  p1 = p1
  p2 = p2
  good = good
  other = other
  None = None
  Request <- OneRequest
  Url <- MCUrl
  Pkg <- MCPkg
  Hash <- MCHash
  LinkLocal = {"meta-ip"}
  Unscreened = {"elsewhere"}
  ViaProxy = {"priv"}
  IndexUrl = {"doc"}
  PrivateUrl = {"priv"}
  Listing <- MCListing
  NameInUrl <- MCNameInUrl
  Preverified <- UnevaluatedPreflight
  Exempt = {}
  UploadEnabled = TRUE
  ForceInstall = TRUE
  StreamLarge = TRUE
  Configs <- EveryConfig
  WriteOutcomes = {TRUE, FALSE}
SPECIFICATION FairSpec
INVARIANTS PassedBytesWereScanned
PROPERTIES  PromiseKept
CHECK_DEADLOCK FALSE
