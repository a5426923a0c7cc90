\* Two sessions and two requests, one call of every plan, two changes of others.
CONSTANTS
  None = None
  Session = {s1, s2}
  MaxRequests = 2
  Config <- Configs
  CallConfig <- CallConfigs
  InspectConfig <- InspectConfigs
  HttpRequest <- Requests
  LocalOrigins <- LocalOriginSet
  Hostname <- HostnameOf
  StateFile <- States
  DiffPath <- FilePaths
  Pattern = {"token"}
  Query <- Queries
  Fragment <- Fragments
  Workspace = {"ws-1", "ws-2", "ws-3"}
  Name = {"a", "b"}
  InputsOf <- Versions
  FirstNames <- Names0
  FirstPin = "1.0"
  Kind = {"string", "empty", "number", "bool"}
  MaxPolls = 2
  MaxPages = 3
  MaxTries = 2
  MaxChanges = 2
SPECIFICATION Spec
INVARIANTS
  TypeOK
  ToolsOnOffer
  OperationsNeedOptIn
  ClientFromOwnRequest
  NothingSensitiveShown
  DiffReportsVisibleChanges
  KeepsToNamedWorkspace
  ChangesMatchAnswers
  NoCodeNeedsConsent
PROPERTIES
  SafeDelete
  EveryCallEnds
CHECK_DEADLOCK FALSE
