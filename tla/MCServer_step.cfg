\* The state tools alone, on every state.
CONSTANTS
  None = None
  Session = {s1}
  MaxRequests = 0
  Config <- Inspector
  CallConfig = {}
  InspectConfig <- Inspector
  HttpRequest <- Requests
  LocalOrigins <- LocalOriginSet
  Hostname <- HostnameOf
  StateFile <- States
  DiffPath <- FilePaths
  Pattern = {"token"}
  Query <- Queries
  Fragment <- Fragments
  Workspace = {"ws-1", "ws-2", "ws-3"}
  Name = {"a", "b"}
  InputsOf <- Versions
  FirstNames <- Names0
  FirstPin = "1.0"
  Kind = {"string", "empty", "number", "bool"}
  MaxPolls = 2
  MaxPages = 3
  MaxTries = 2
  MaxChanges = 0
SPECIFICATION Spec
INVARIANT UnknownStepFailsSafe
CHECK_DEADLOCK FALSE
