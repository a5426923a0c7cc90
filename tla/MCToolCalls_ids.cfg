\* Two sessions that use the same request id at the same time.
CONSTANTS
  Call = {c1, c2}
  Session = {s1, s2}
  Id = {i1}
  None = None
  Cost = 2
  GlobalRate = 2
  GlobalBurst = 3
  SessionRate = 1
  SessionBurst = 1
  MaxNow = 3
SPECIFICATION Spec
SYMMETRY Symmetry
INVARIANT LatencyIsOwn
