CONSTANTS
  r1 = r1
  r2 = r2
  p1 = p1
  p2 = p2
  good = good
  other = other
  None = None
  Request <- MCRequest
  Url <- MCUrl
  Pkg <- MCPkg
  Hash <- MCHash
  LinkLocal = {"meta-ip"}
  Unscreened = {"elsewhere"}
  ViaProxy = {"priv"}
  IndexUrl = {"doc"}
  PrivateUrl = {"priv"}
  Listing <- MCListing
  NameInUrl <- MCNameInUrl
  Preverified <- EvaluatedPreflight
  Exempt = {}
  UploadEnabled = TRUE
  ForceInstall = FALSE
  StreamLarge = TRUE
  Configs <- BlockMode
  WriteOutcomes = {TRUE}
SPECIFICATION Spec
INVARIANTS TypeOK Accounted InflightExact FileTruthful
PROPERTY PromiseKept
SYMMETRY RequestSymmetry
CHECK_DEADLOCK FALSE
