\* The tfc backend with TF_CLOUD_ORG set: one serial client, one call at a time.
CONSTANTS
  Call = {c1}
  None = None
  Session = {s1}
  SerialSession = {s1}
  Watched = {s1}
  Org = {o1}
  Workspace = {w1}
  Backend = "tfc"
  TFCloudOrg = o1
  TFEOrg = None
  MaxSize = 1
  TTL = 2
  FetchTime = 1
  MaxNow = 3
  MaxVersion = 2
SPECIFICATION Spec
INVARIANT SerialReadsNeverGoBack
