\* Two overlapping requests of one session with a token.
CONSTANTS
  Request = {r1, r2}
  Session = {s1}
  TokenSession = {s1}
  None = None
SPECIFICATION Spec
SYMMETRY RequestSymmetry
INVARIANT HookInitializesSession
