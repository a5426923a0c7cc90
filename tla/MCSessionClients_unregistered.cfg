\* One request at a time of one session with a token.
CONSTANTS
  Request = {r1}
  Session = {s1}
  TokenSession = {s1}
  None = None
SPECIFICATION Spec
SYMMETRY RequestSymmetry
INVARIANT ClientMeansTools
