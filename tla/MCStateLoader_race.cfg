\* The local backend under stdio: one session, whose client overlaps its calls.
CONSTANTS
  Call = {c1, c2}
  None = None
  Session = {s1}
  SerialSession = {}
  Watched = {s1}
  Org = {o1}
  Workspace = {w1}
  Backend = "local"
  TFCloudOrg = None
  TFEOrg = None
  MaxSize = 1
  TTL = 2
  FetchTime = 1
  MaxNow = 3
  MaxVersion = 2
SPECIFICATION Spec
SYMMETRY CallSymmetry
INVARIANT RefreshIsFresh
