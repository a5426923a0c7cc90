\* Two sessions and stateless calls.  The global limiter gets one token per tick
\* and holds three, a session's gets one every other tick and holds one.
CONSTANTS
  Call = {c1, c2}
  Session = {s1, s2}
  Id = {i1, i2}
  None = None
  Cost = 2
  GlobalRate = 2
  GlobalBurst = 3
  SessionRate = 1
  SessionBurst = 1
  MaxNow = 2
SPECIFICATION Spec
SYMMETRY Symmetry
INVARIANTS
  TypeOK
  SessionRateKept
  GlobalRateKept
  LatencyIsOwnUnlessShared
PROPERTIES
  SessionRejectsOnlyExcess
