\* One session with a token and one without, two overlapping requests.
CONSTANTS
  Request = {r1, r2}
  Session = {s1, s2}
  TokenSession = {s1}
  None = None
SPECIFICATION Spec
SYMMETRY RequestSymmetry
INVARIANTS
  TypeOK
  ToolsRegisteredOnce
  HandlerNeedsClient
  RegisteredHasClient
  EndCleansUp
  RefusedForCause
