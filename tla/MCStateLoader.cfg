\* The tfc backend: a serial client s1, a client s2 that overlaps its calls, and
\* stateless requests (None).
CONSTANTS
  Call = {c1, c2}
  None = None
  Session = {s1, s2, None}
  SerialSession = {s1}
  Watched = {s1}
  Org = {o1}
  Workspace = {w1}
  Backend = "tfc"
  TFCloudOrg = None
  TFEOrg = None
  MaxSize = 2
  TTL = 2
  FetchTime = 1
  MaxNow = 3
  MaxVersion = 2
SPECIFICATION Spec
SYMMETRY CallSymmetry
INVARIANTS
  TypeOK
  CacheBounded
  AnswersOwnRequest
  SerialReadsNeverGoBack
PROPERTIES
  FreshEntryDroppedOnlyIfOldest
  HitIsRecent
  ImplementsVersionStore
