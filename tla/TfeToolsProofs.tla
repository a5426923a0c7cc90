--------------------------- MODULE TfeToolsProofs ---------------------------
(***************************************************************************)
(* Proofs about TfeTools, for all workspaces, names, modules and bounds:   *)
(* what each plan looks like, and what the steps of a call preserve.       *)
(***************************************************************************)
EXTENDS TfeTools, TLAPS

-----------------------------------------------------------------------------
(* Plans *)

\* A plan is a sequence of requests, and not an empty one.
IsPlan(p) ==
  /\ p.by \in {"name", "id", "new", "none"}
  /\ Len(p.todo) \in Nat \ {0}
  /\ DOMAIN p.todo = 1..Len(p.todo)

NoCodeTodo ==
  <<Get("project"), Get("pin"), Get("module"), Get("inputs"),
    Request("ask", "user", "none", TRUE), Change("create from module", "new")>>

\* Where a request r may be in a plan p, at the position i.
GoodRequest(p, r, i) ==
  /\ r.what # "delete"
  /\ r.op = "change" => r.must = TRUE /\ (i = Len(p.todo) \/ p.tool = "get_sentinel_mock")
  /\ r.op = "poll" => p.tool = "get_sentinel_mock"
  /\ r.op = "pages" => p.tool = "list_workspace_policy_sets"
  /\ r.op = "ask" => p.tool = "create_no_code_workspace" /\ r.must = TRUE
  /\ r.op = "find" => p.by = "name" /\ i = 1 /\ r.must = TRUE
  /\ r.op = "read" => r.on \in {"id", "none"}
  /\ r.what = "rename" => r.on = "name" /\ p.by = "name"
  /\ r.what \in {"create", "create from module"} => r.op = "change" /\ r.on = "new" /\ p.by = "new"
  /\ r.what = "create from module" => p.tool = "create_no_code_workspace"
  /\ r.what = "safe delete" => r.on = "id" /\ p.tool = "delete_workspace_safely"
  /\ r.op = "change" /\ r.what \in {"apply", "discard", "cancel"} => p.tool = "action_run"
  /\ p.by = "name" /\ r.op = "change" => r.on \in {"id", "name"}
  /\ r.op = "change" /\ r.on = "name" => p.by = "name"
  /\ p.by = "name" /\ i > 1 => r.on # "name"
  /\ r.on = "id" => p.by = "id" \/ (p.by = "name" /\ i > 1)

\* A request of a kind that many tools make.
Ordinary(r) ==
  /\ r.what \notin {"delete", "rename", "create", "create from module", "safe delete"}
  /\ r.op = "change" => r.must = TRUE /\ r.what \notin {"apply", "discard", "cancel"}

GoodPlan(p) ==
  /\ IsPlan(p)
  /\ \A i \in 1..Len(p.todo) : GoodRequest(p, p.todo[i], i)
  /\ \A i, j \in 1..Len(p.todo) : p.todo[i].op = "change" /\ p.todo[j].op = "change" => i = j
  /\ p.by = "name" =>
       \/ p.todo[1].op = "find"
       \/ p.tool = "update_workspace" /\ p.todo[1].on = "name" /\ Len(p.todo) = 1 /\ p.todo[1].op = "change"
  /\ p.tool = "create_no_code_workspace" => p.todo = NoCodeTodo /\ p.by = "new"

\* An option of a plan has no part in the order of its requests.
LEMMA SettingFields ==
  ASSUME NEW tool, NEW by, NEW todo, NEW a
  PROVE  /\ Setting(Plan(tool, by, todo), a).tool = tool
         /\ Setting(Plan(tool, by, todo), a).by = by
         /\ Setting(Plan(tool, by, todo), a).todo = todo
         /\ Setting(Plan(tool, by, todo), a).autoApply = a
         /\ Plan(tool, by, todo).tool = tool /\ Plan(tool, by, todo).by = by
         /\ Plan(tool, by, todo).todo = todo /\ Plan(tool, by, todo).autoApply = "unset"
  BY DEF Setting, Plan

LEMMA SettingGood ==
  ASSUME NEW tool, NEW by, NEW todo, NEW a, GoodPlan(Plan(tool, by, todo))
  PROVE  GoodPlan(Setting(Plan(tool, by, todo), a))
<1> DEFINE p == Plan(tool, by, todo)
           q == Setting(p, a)
<1>1. q.tool = p.tool /\ q.by = p.by /\ q.todo = p.todo
  BY SettingFields
<1> HIDE DEF p, q
<1>2. ASSUME NEW r, NEW i, GoodRequest(p, r, i) PROVE GoodRequest(q, r, i)
  <2>1. Len(q.todo) = Len(p.todo)
    BY <1>1
  <2> QED BY <1>1, <1>2, <2>1 DEF GoodRequest
<1>3. GoodPlan(p)
  BY DEF p
<1>4. IsPlan(q)
  BY <1>1, <1>3 DEF GoodPlan, IsPlan
<1>5. GoodPlan(q)
  BY <1>1, <1>2, <1>3, <1>4 DEF GoodPlan
<1> QED BY <1>5 DEF p, q

\* A plan of one request.
LEMMA OneRequest ==
  ASSUME NEW tool, NEW by \in {"name", "id", "new", "none"}, NEW r,
         GoodRequest(Plan(tool, by, <<r>>), r, 1),
         by = "name" => tool = "update_workspace" /\ r.on = "name" /\ r.op = "change",
         tool # "create_no_code_workspace"
  PROVE  GoodPlan(Plan(tool, by, <<r>>))
<1> DEFINE p == Plan(tool, by, <<r>>)
<1>1. p.todo = <<r>> /\ p.tool = tool /\ p.by = by /\ IsPlan(p)
  BY DEF Plan, IsPlan
<1>2. Len(p.todo) = 1 /\ p.todo[1] = r
  BY <1>1
<1> HIDE DEF p
<1>3. GoodPlan(p)
  BY <1>1, <1>2 DEF GoodPlan, p
<1> QED BY <1>3 DEF p

LEMMA GetOnlyPlans ==
  ASSUME NEW tool, NEW what,
         tool \notin {"create_no_code_workspace"},
         what \notin {"delete", "rename", "create", "create from module", "safe delete"}
  PROVE  \A p \in GetOnly(tool, what) : GoodPlan(p)
<1>2. GoodRequest(Plan(tool, "none", <<Get(what)>>), Get(what), 1)
  BY DEF GoodRequest, Plan, Get, Request
<1>3. GoodPlan(Plan(tool, "none", <<Get(what)>>))
  BY <1>2, OneRequest
<1> QED BY <1>3 DEF GetOnly

LEMMA ChangeOnlyPlans ==
  ASSUME NEW tool, NEW what,
         tool \notin {"create_no_code_workspace"},
         what \notin {"delete", "rename", "create", "create from module", "safe delete"},
         what \in {"apply", "discard", "cancel"} => tool = "action_run"
  PROVE  \A p \in ChangeOnly(tool, what) : GoodPlan(p)
<1> DEFINE r == Change(what, "none")
<1>2. GoodRequest(Plan(tool, "none", <<r>>), r, 1)
  BY DEF GoodRequest, Plan, Change, Request
<1> HIDE DEF r
<1>3. GoodPlan(Plan(tool, "none", <<r>>))
  BY <1>2, OneRequest
<1> QED BY <1>3 DEF ChangeOnly, r

\* The positions of a pair.
LEMMA TwoOf ==
  ASSUME NEW a, NEW b, NEW s, s = <<a, b>>
  PROVE  Len(s) = 2 /\ DOMAIN s = 1..2 /\ s[1] = a /\ s[2] = b /\ \A i \in 1..Len(s) : i = 1 \/ i = 2
  OBVIOUS

\* A plan that finds a workspace by name and makes one request for it.
LEMMA FindThen ==
  ASSUME NEW tool, NEW r, Ordinary(r), r.op \in {"read", "change"}, r.on = "id",
         tool # "create_no_code_workspace"
  PROVE  GoodPlan(Plan(tool, "name", <<Find, r>>))
<1> DEFINE p == Plan(tool, "name", <<Find, r>>)
<1>1. p.todo = <<Find, r>> /\ p.tool = tool /\ p.by = "name"
  BY DEF Plan
<1> HIDE DEF p
<1>2. Len(p.todo) = 2 /\ DOMAIN p.todo = 1..2 /\ p.todo[1] = Find /\ p.todo[2] = r
  BY <1>1, TwoOf
<1>3. Find.op = "find" /\ Find.what = "workspace" /\ Find.must = TRUE /\ Find.on = "name"
  BY DEF Find, Request
<1>4. GoodRequest(p, Find, 1) /\ GoodRequest(p, r, 2)
  <2>1. GoodRequest(p, Find, 1)
    BY <1>1, <1>2, <1>3 DEF GoodRequest
  <2>2. GoodRequest(p, r, 2)
    <3>1. 2 > 1 /\ Len(p.todo) = 2 /\ p.by = "name" /\ p.tool # "create_no_code_workspace"
      BY <1>1, <1>2
    <3>2. r.op \notin {"poll", "pages", "ask", "find"} /\ r.on = "id"
      OBVIOUS
    <3> QED BY <3>1, <3>2 DEF GoodRequest, Ordinary
  <2> QED BY <2>1, <2>2
<1>5. \A i \in 1..Len(p.todo) : i = 1 \/ i = 2
  BY <1>1, TwoOf
<1>6. IsPlan(p)
  BY <1>1, <1>2 DEF IsPlan
<1>7. GoodPlan(p)
  BY <1>1, <1>2, <1>3, <1>4, <1>5, <1>6 DEF GoodPlan
<1> QED BY <1>7 DEF p

LEMMA NamedPlans ==
  ASSUME NEW tool, NEW what,
         what \notin {"delete", "rename", "create", "create from module", "safe delete", "apply",
                      "discard", "cancel"},
         tool # "create_no_code_workspace"
  PROVE  /\ GoodPlan(Plan(tool, "name", <<Find, Part(what)>>))
         /\ GoodPlan(Plan(tool, "name", <<Find, Change(what, "id")>>))
<1>1. /\ Part(what).op = "read" /\ Part(what).on = "id"
      /\ Change(what, "id").op = "change" /\ Change(what, "id").on = "id"
  BY DEF Part, Change, Request
<1>2. Ordinary(Part(what)) /\ Ordinary(Change(what, "id"))
  BY DEF Ordinary, Part, Change, Request
<1>3. GoodPlan(Plan(tool, "name", <<Find, Part(what)>>))
  BY <1>1, <1>2, FindThen
<1>4. GoodPlan(Plan(tool, "name", <<Find, Change(what, "id")>>))
  BY <1>1, <1>2, FindThen
<1> QED BY <1>3, <1>4

\* A plan that finds a workspace by name and reads two things.
LEMMA FindThenTwo ==
  ASSUME NEW tool, NEW r, NEW q, Ordinary(r), Ordinary(q), r.op = "read", q.op = "read",
         r.on \in {"id", "none"}, q.on \in {"id", "none"}, tool # "create_no_code_workspace"
  PROVE  GoodPlan(Plan(tool, "name", <<Find, r, q>>))
<1> DEFINE p == Plan(tool, "name", <<Find, r, q>>)
<1>1. p.todo = <<Find, r, q>> /\ p.tool = tool /\ p.by = "name"
  BY DEF Plan
<1>2. /\ Len(p.todo) = 3 /\ DOMAIN p.todo = 1..3
      /\ p.todo[1] = Find /\ p.todo[2] = r /\ p.todo[3] = q
  BY <1>1
<1> HIDE DEF p
<1>3. Find.op = "find" /\ Find.what = "workspace" /\ Find.must = TRUE /\ Find.on = "name"
  BY DEF Find, Request
<1>4. GoodRequest(p, Find, 1)
  BY <1>1, <1>2, <1>3 DEF GoodRequest
<1>5. GoodRequest(p, r, 2) /\ GoodRequest(p, q, 3)
  <2>1. 2 > 1 /\ 3 > 1 /\ p.by = "name" /\ p.tool # "create_no_code_workspace"
    BY <1>1
  <2>2. GoodRequest(p, r, 2)
    BY <2>1 DEF GoodRequest, Ordinary
  <2>3. GoodRequest(p, q, 3)
    BY <2>1 DEF GoodRequest, Ordinary
  <2> QED BY <2>2, <2>3
<1>6. \A i \in 1..Len(p.todo) : i = 1 \/ i = 2 \/ i = 3
  BY <1>2
<1>7. IsPlan(p)
  BY <1>1, <1>2 DEF IsPlan
<1>8. \A i \in 1..Len(p.todo) : GoodRequest(p, p.todo[i], i) /\ p.todo[i].op # "change"
  BY <1>2, <1>3, <1>4, <1>5, <1>6
<1>9. GoodPlan(p)
  BY <1>1, <1>2, <1>3, <1>7, <1>8 DEF GoodPlan
<1> QED BY <1>9 DEF p

\* A plan of two requests neither of which finds a workspace by its name.
MaySecond(tool, q) ==
  \/ Ordinary(q) /\ q.op = "read" /\ q.on \in {"id", "none"}
  \/ /\ q.op = "change" /\ q.on = "id" /\ q.what = "safe delete" /\ q.must = TRUE
     /\ tool = "delete_workspace_safely"

LEMMA TwoRequests ==
  ASSUME NEW tool, NEW by, NEW r, NEW q, by \in {"id", "none"},
         Ordinary(r), r.op = "read", r.on \in {"id", "none"}, MaySecond(tool, q),
         "id" \in {r.on, q.on} => by = "id",
         tool # "create_no_code_workspace"
  PROVE  GoodPlan(Plan(tool, by, <<r, q>>))
<1> DEFINE p == Plan(tool, by, <<r, q>>)
<1>1. p.todo = <<r, q>> /\ p.tool = tool /\ p.by = by
  BY DEF Plan
<1> HIDE DEF p
<1>2. Len(p.todo) = 2 /\ DOMAIN p.todo = 1..2 /\ p.todo[1] = r /\ p.todo[2] = q
  BY <1>1, TwoOf
<1>3. GoodRequest(p, r, 1)
  BY <1>1, <1>2 DEF GoodRequest, Ordinary
<1>4. GoodRequest(p, q, 2)
  <2>1. CASE Ordinary(q) /\ q.op = "read" /\ q.on \in {"id", "none"}
    BY <2>1, <1>1, <1>2 DEF GoodRequest, Ordinary
  <2>2. CASE /\ q.op = "change" /\ q.on = "id" /\ q.what = "safe delete" /\ q.must = TRUE
             /\ tool = "delete_workspace_safely"
    BY <2>2, <1>1, <1>2 DEF GoodRequest
  <2> QED BY <2>1, <2>2 DEF MaySecond
<1>5. \A i \in 1..Len(p.todo) : i = 1 \/ i = 2
  BY <1>1, TwoOf
<1>6. IsPlan(p)
  BY <1>1, <1>2 DEF IsPlan
<1>7. \A i \in 1..Len(p.todo) : GoodRequest(p, p.todo[i], i) /\ (p.todo[i].op = "change" => i = 2)
  BY <1>2, <1>3, <1>4, <1>5
<1>8. GoodPlan(p)
  BY <1>1, <1>2, <1>6, <1>7 DEF GoodPlan
<1> QED BY <1>8 DEF p

\* The export, the poll and the download of a Sentinel mock.
LEMMA SentinelPlan == \A p \in GetSentinelMock : GoodPlan(p)
<1> DEFINE a == Change("export", "none")
           b == Request("poll", "export", "none", TRUE)
           c == Get("export")
           p == Plan("get_sentinel_mock", "none", <<a, b, c>>)
<1>2. /\ a.op = "change" /\ b.op = "poll" /\ c.op = "read" /\ a.must = TRUE
      /\ a.what = "export" /\ b.what = "export" /\ c.what = "export"
      /\ a.on = "none" /\ b.on = "none" /\ c.on = "none"
  BY DEF Change, Get, Request
<1> HIDE DEF a, b, c
<1>3. p.todo = <<a, b, c>> /\ p.tool = "get_sentinel_mock" /\ p.by = "none" /\ IsPlan(p)
  BY DEF Plan, IsPlan
<1>4. Len(p.todo) = 3 /\ p.todo[1] = a /\ p.todo[2] = b /\ p.todo[3] = c
  BY <1>3
<1> HIDE DEF p
<1>5. GoodRequest(p, p.todo[1], 1) /\ GoodRequest(p, p.todo[2], 2) /\ GoodRequest(p, p.todo[3], 3)
  BY <1>2, <1>3, <1>4 DEF GoodRequest
<1>6. \A i \in 1..Len(p.todo) : i = 1 \/ i = 2 \/ i = 3
  BY <1>4
<1>7. GoodPlan(p)
  BY <1>2, <1>3, <1>4, <1>5, <1>6 DEF GoodPlan
<1> QED BY <1>7 DEF p, a, b, c, GetSentinelMock

\* The four reads, the form and the creation of a no-code workspace.
LEMMA NoCodeRequests ==
  /\ Len(NoCodeTodo) = 6 /\ DOMAIN NoCodeTodo = 1..6
  /\ NoCodeTodo[1] = Get("project") /\ NoCodeTodo[2] = Get("pin")
  /\ NoCodeTodo[3] = Get("module") /\ NoCodeTodo[4] = Get("inputs")
  /\ NoCodeTodo[5] = Request("ask", "user", "none", TRUE)
  /\ NoCodeTodo[6] = Change("create from module", "new")
  BY DEF NoCodeTodo

LEMMA NoCodePlan == \A p \in CreateNoCodeWorkspace : GoodPlan(p)
<1> DEFINE p == Plan("create_no_code_workspace", "new", NoCodeTodo)
<1>1. p.todo = NoCodeTodo /\ p.tool = "create_no_code_workspace" /\ p.by = "new" /\ IsPlan(p)
  <2>1. p.todo = NoCodeTodo /\ p.tool = "create_no_code_workspace" /\ p.by = "new"
    BY DEF Plan
  <2> HIDE DEF p
  <2>2. Len(p.todo) = 6 /\ DOMAIN p.todo = 1..6
    BY <2>1, NoCodeRequests
  <2> QED BY <2>1, <2>2 DEF IsPlan
<1>2. CreateNoCodeWorkspace = {Setting(p, autoApply) : autoApply \in {"true", "false"}}
  BY DEF CreateNoCodeWorkspace, NoCodeTodo
<1> HIDE DEF p
<1>3. /\ \A what : Get(what).op = "read" /\ Get(what).what = what /\ Get(what).on = "none"
      /\ Request("ask", "user", "none", TRUE).op = "ask"
      /\ Request("ask", "user", "none", TRUE).what = "user"
      /\ Request("ask", "user", "none", TRUE).must = TRUE
      /\ Change("create from module", "new").op = "change"
      /\ Change("create from module", "new").what = "create from module"
      /\ Change("create from module", "new").on = "new" /\ Change("create from module", "new").must = TRUE
  BY DEF Get, Change, Request
<1>4. /\ GoodRequest(p, Get("project"), 1) /\ GoodRequest(p, Get("pin"), 2)
      /\ GoodRequest(p, Get("module"), 3) /\ GoodRequest(p, Get("inputs"), 4)
  <2>1. \A what, i : what \in {"project", "pin", "module", "inputs"} => GoodRequest(p, Get(what), i)
    BY <1>1 DEF GoodRequest, Get, Request
  <2> QED BY <2>1
<1>5. GoodRequest(p, Request("ask", "user", "none", TRUE), 5)
  BY <1>1 DEF GoodRequest, Request
<1>6. GoodRequest(p, Change("create from module", "new"), 6)
  BY <1>1, NoCodeRequests DEF GoodRequest, Change, Request
<1>7. \A i \in 1..Len(p.todo) : i \in {1, 2, 3, 4, 5, 6}
  <2>1. Len(p.todo) = 6
    BY <1>1, NoCodeRequests
  <2> QED BY <2>1
<1>8. \A i \in 1..Len(p.todo) : GoodRequest(p, p.todo[i], i)
  BY <1>1, <1>4, <1>5, <1>6, <1>7, NoCodeRequests
<1>9. \A i \in 1..Len(p.todo) : p.todo[i].op = "change" => i = 6
  <2>1. /\ p.todo[1].op = "read" /\ p.todo[2].op = "read" /\ p.todo[3].op = "read"
        /\ p.todo[4].op = "read" /\ p.todo[5].op = "ask"
    <3>1. \A what : Get(what).op = "read"
      BY DEF Get, Request
    <3>2. Request("ask", "user", "none", TRUE).op = "ask"
      BY DEF Request
    <3>3. /\ p.todo[1] = Get("project") /\ p.todo[2] = Get("pin") /\ p.todo[3] = Get("module")
          /\ p.todo[4] = Get("inputs") /\ p.todo[5] = Request("ask", "user", "none", TRUE)
      BY <1>1, NoCodeRequests
    <3> QED BY <3>1, <3>2, <3>3
  <2> QED BY <1>7, <2>1
<1>10. GoodPlan(p)
  BY <1>1, <1>8, <1>9, NoCodeRequests DEF GoodPlan
<1>11. \A a : GoodPlan(Setting(p, a))
  BY <1>10, SettingGood DEF p
<1> QED BY <1>2, <1>11

\* Every plan of every tool is good (pkg/tools/tfe).
LEMMA GoodPlans == \A operations, backend : \A p \in Plans(operations, backend) : GoodPlan(p)
<1> SUFFICES ASSUME NEW operations, NEW backend,
               NEW set \in
               {ListTerraformOrgs, ListTerraformProjects, SearchTerraformWorkspaces, TfListWorkspaces,
               GetTokenPermissions, ListTerraformStacks, GetStackDetails, GetWorkspaceDetails,
               CreateWorkspace, UpdateWorkspace, DeleteWorkspaceSafely, CreateWorkspaceTags,
               ReadWorkspaceTags, ListWorkspaceVariables, CreateWorkspaceVariable,
               UpdateWorkspaceVariable, ListVariableSets, CreateVariableSet,
               CreateVariableInVariableSet, DeleteVariableInVariableSet,
               AttachVariableSetToWorkspaces, DetachVariableSetFromWorkspaces,
               AttachPolicySetToWorkspaces, ListWorkspacePolicySets,
               IF operations THEN CreateRun ELSE CreateRunSafe, ActionRun, ListRuns,
               GetRunDetails, GetPlanDetails, GetPlanJSONOutput, GetApplyDetails, GetPlanLogs,
               GetApplyLogs, GetSentinelMock, SearchPrivateModules, SearchPrivateProviders,
               GetPrivateProviderDetails, GetPrivateModuleDetails, CreateNoCodeWorkspace,
               IF backend = "tfc" THEN FetchTFCState ELSE {}},
               NEW p \in set
  PROVE  GoodPlan(p)
  BY DEF Plans
<1>1. /\ \A what, on : Change(what, on) = [op |-> "change", what |-> what, on |-> on, must |-> TRUE]
      /\ \A what : Get(what) = [op |-> "read", what |-> what, on |-> "none", must |-> TRUE]
      /\ \A what : TryGet(what) = [op |-> "read", what |-> what, on |-> "none", must |-> FALSE]
      /\ \A what : Part(what) = [op |-> "read", what |-> what, on |-> "id", must |-> TRUE]
      /\ \A what : TryPart(what) = [op |-> "read", what |-> what, on |-> "id", must |-> FALSE]
  BY DEF Change, Get, TryGet, Part, TryPart, Request
<1>2. \A q \in ListTerraformOrgs : GoodPlan(q)
  BY GetOnlyPlans DEF ListTerraformOrgs
<1>3. \A q \in ListTerraformProjects : GoodPlan(q)
  BY GetOnlyPlans DEF ListTerraformProjects
<1>4. \A q \in SearchTerraformWorkspaces : GoodPlan(q)
  BY GetOnlyPlans DEF SearchTerraformWorkspaces
<1>5. \A q \in TfListWorkspaces : GoodPlan(q)
  BY GetOnlyPlans DEF TfListWorkspaces
<1>6. \A q \in GetTokenPermissions : GoodPlan(q)
  BY GetOnlyPlans DEF GetTokenPermissions
<1>7. \A q \in ListTerraformStacks : GoodPlan(q)
  BY GetOnlyPlans DEF ListTerraformStacks
<1>8. \A q \in GetStackDetails : GoodPlan(q)
  BY GetOnlyPlans DEF GetStackDetails
<1>9. \A q \in ListVariableSets : GoodPlan(q)
  BY GetOnlyPlans DEF ListVariableSets
<1>10. \A q \in GetRunDetails : GoodPlan(q)
  BY GetOnlyPlans DEF GetRunDetails
<1>11. \A q \in GetPlanDetails : GoodPlan(q)
  BY GetOnlyPlans DEF GetPlanDetails
<1>12. \A q \in GetPlanJSONOutput : GoodPlan(q)
  <2>1. \A q \in GetOnly("get_plan_json_output", "plan") : GoodPlan(q)
    BY GetOnlyPlans
  <2> QED BY <2>1 DEF GetPlanJSONOutput
<1>13. \A q \in GetApplyDetails : GoodPlan(q)
  BY GetOnlyPlans DEF GetApplyDetails
<1>14. \A q \in SearchPrivateModules : GoodPlan(q)
  BY GetOnlyPlans DEF SearchPrivateModules
<1>15. \A q \in SearchPrivateProviders : GoodPlan(q)
  BY GetOnlyPlans DEF SearchPrivateProviders
<1>16. \A q \in GetPrivateProviderDetails : GoodPlan(q)
  BY GetOnlyPlans DEF GetPrivateProviderDetails
<1>17. \A q \in CreateVariableSet : GoodPlan(q)
  BY ChangeOnlyPlans DEF CreateVariableSet
<1>18. \A q \in CreateVariableInVariableSet : GoodPlan(q)
  BY ChangeOnlyPlans DEF CreateVariableInVariableSet
<1>19. \A q \in DeleteVariableInVariableSet : GoodPlan(q)
  BY ChangeOnlyPlans DEF DeleteVariableInVariableSet
<1>20. \A q \in AttachVariableSetToWorkspaces : GoodPlan(q)
  BY ChangeOnlyPlans DEF AttachVariableSetToWorkspaces
<1>21. \A q \in DetachVariableSetFromWorkspaces : GoodPlan(q)
  BY ChangeOnlyPlans DEF DetachVariableSetFromWorkspaces
<1>22. \A q \in AttachPolicySetToWorkspaces : GoodPlan(q)
  BY ChangeOnlyPlans DEF AttachPolicySetToWorkspaces
<1>23. \A q \in ActionRun : GoodPlan(q)
  <2>1. \A action \in {"apply", "discard", "cancel"} :
          \A q \in ChangeOnly("action_run", action) : GoodPlan(q)
    BY ChangeOnlyPlans
  <2> QED BY <2>1 DEF ActionRun
<1>24. \A q \in CreateWorkspaceTags : GoodPlan(q)
  BY NamedPlans DEF CreateWorkspaceTags
<1>25. \A q \in ListWorkspaceVariables : GoodPlan(q)
  BY NamedPlans DEF ListWorkspaceVariables
<1>26. \A q \in CreateWorkspaceVariable : GoodPlan(q)
  BY NamedPlans DEF CreateWorkspaceVariable
<1>27. \A q \in UpdateWorkspaceVariable : GoodPlan(q)
  BY NamedPlans DEF UpdateWorkspaceVariable
<1>28. \A q \in GetWorkspaceDetails : GoodPlan(q)
  <2>1. /\ Ordinary(TryPart("variables")) /\ Ordinary(TryPart("readme"))
        /\ TryPart("variables").op = "read" /\ TryPart("variables").on = "id"
        /\ TryPart("readme").op = "read" /\ TryPart("readme").on = "id"
    BY DEF Ordinary, TryPart, Request
  <2> QED BY <2>1, FindThenTwo DEF GetWorkspaceDetails
<1>29. \A q \in ReadWorkspaceTags : GoodPlan(q)
  <2>1. /\ Ordinary(Part("tags")) /\ Ordinary(Part("tag bindings"))
        /\ Part("tags").op = "read" /\ Part("tags").on = "id"
        /\ Part("tag bindings").op = "read" /\ Part("tag bindings").on = "id"
    BY DEF Ordinary, Part, Request
  <2> QED BY <2>1, FindThenTwo DEF ReadWorkspaceTags
<1>30. \A q \in FetchTFCState : GoodPlan(q)
  <2>1. /\ Ordinary(Part("state version")) /\ Ordinary(Get("state"))
        /\ Part("state version").op = "read" /\ Part("state version").on = "id"
        /\ Get("state").op = "read" /\ Get("state").on = "none"
    BY DEF Ordinary, Part, Get, Request
  <2>2. \A tool : tool # "create_no_code_workspace" =>
          GoodPlan(Plan(tool, "name", <<Find, Part("state version"), Get("state")>>))
    BY <2>1, FindThenTwo
  <2> QED BY <2>2 DEF FetchTFCState
<1>31. \A run \in RunType : GoodPlan(CreateRunPlan(run))
  <2>1. \A run \in RunType : GoodPlan(Plan("create_run", "name", <<Find, Change(run, "id")>>))
    BY NamedPlans DEF RunType
  <2> QED BY <2>1, SettingGood DEF CreateRunPlan
<1>32. \A q \in CreateRun \cup CreateRunSafe : GoodPlan(q)
  BY <1>31 DEF CreateRun, CreateRunSafe, RunOf, RunType
<1>33. \A q \in GetPlanLogs : GoodPlan(q)
  <2>1. GoodPlan(Plan("get_plan_logs", "none", <<Get("plan"), Get("log")>>))
    <3>1. Ordinary(Get("plan")) /\ MaySecond("get_plan_logs", Get("log"))
      BY DEF MaySecond, Ordinary, Get, Request
    <3>2. \A what : Get(what).op = "read" /\ Get(what).on = "none"
      BY <1>1
    <3> QED BY <3>1, <3>2, TwoRequests
  <2> QED BY <2>1 DEF GetPlanLogs
<1>34. \A q \in GetApplyLogs : GoodPlan(q)
  <2>1. GoodPlan(Plan("get_apply_logs", "none", <<Get("apply"), Get("log")>>))
    <3>1. Ordinary(Get("apply")) /\ MaySecond("get_apply_logs", Get("log"))
      BY DEF MaySecond, Ordinary, Get, Request
    <3>2. \A what : Get(what).op = "read" /\ Get(what).on = "none"
      BY <1>1
    <3> QED BY <3>1, <3>2, TwoRequests
  <2> QED BY <2>1 DEF GetApplyLogs
<1>35. \A q \in GetPrivateModuleDetails : GoodPlan(q)
  <2>1. /\ Ordinary(Get("module")) /\ MaySecond("get_private_module_details", TryGet("version"))
        /\ TryGet("version").on = "none"
        /\ Get("module").op = "read" /\ Get("module").on = "none"
    BY DEF MaySecond, Ordinary, Get, TryGet, Request
  <2>2. GoodPlan(Plan("get_private_module_details", "none", <<Get("module"), TryGet("version")>>))
    BY <2>1, TwoRequests
  <2> QED BY <2>2 DEF GetPrivateModuleDetails
<1>36. \A q \in DeleteWorkspaceSafely : GoodPlan(q)
  <2> DEFINE a == Part("workspace")
             b == Change("safe delete", "id")
  <2>1. /\ Ordinary(a) /\ a.op = "read" /\ a.on \in {"id", "none"}
        /\ MaySecond("delete_workspace_safely", b)
    BY DEF MaySecond, Ordinary, Part, Change, Request
  <2>2. GoodPlan(Plan("delete_workspace_safely", "id", <<a, b>>))
    <3> HIDE DEF a, b
    <3> QED BY <2>1, TwoRequests
  <2> QED BY <2>2 DEF DeleteWorkspaceSafely
<1>37. \A q \in ListRuns : GoodPlan(q)
  <2>1. GoodPlan(Plan("list_runs", "name", <<Find, Part("runs")>>))
    BY NamedPlans
  <2>2. GoodPlan(Plan("list_runs", "none", <<Get("runs")>>))
    BY GetOnlyPlans DEF GetOnly
  <2> QED BY <2>1, <2>2 DEF ListRuns
<1>38. \A q \in CreateWorkspace : GoodPlan(q)
  <2>1. GoodPlan(Plan("create_workspace", "new", <<Change("create", "new")>>))
    BY <1>1, OneRequest DEF GoodRequest, Plan
  <2> QED BY <2>1, SettingGood DEF CreateWorkspace
<1>39. \A q \in UpdateWorkspace : GoodPlan(q)
  <2>1. \A what \in {"update", "rename"} :
          GoodRequest(Plan("update_workspace", "name", <<Change(what, "name")>>), Change(what, "name"), 1)
    <3>1. GoodRequest(Plan("update_workspace", "name", <<Change("update", "name")>>), Change("update", "name"), 1)
      BY DEF GoodRequest, Plan, Change, Request
    <3>2. GoodRequest(Plan("update_workspace", "name", <<Change("rename", "name")>>), Change("rename", "name"), 1)
      BY DEF GoodRequest, Plan, Change, Request
    <3> QED BY <3>1, <3>2
  <2>2. \A what : Change(what, "name").on = "name" /\ Change(what, "name").op = "change"
    BY <1>1
  <2>3. \A what \in {"update", "rename"} :
          GoodPlan(Plan("update_workspace", "name", <<Change(what, "name")>>))
    BY <2>1, <2>2, OneRequest
  <2> QED BY <2>3, SettingGood DEF UpdateWorkspace
<1>40. \A q \in ListWorkspacePolicySets : GoodPlan(q)
  BY OneRequest DEF ListWorkspacePolicySets, GoodRequest, Plan, Request
<1> QED BY <1>2, <1>3, <1>4, <1>5, <1>6, <1>7, <1>8, <1>9, <1>10, <1>11, <1>12, <1>13, <1>14, <1>15, <1>16, <1>17, <1>18, <1>19, <1>20,
   <1>21, <1>22, <1>23, <1>24, <1>25, <1>26, <1>27, <1>28, <1>29, <1>30, <1>31, <1>32, <1>33, <1>34, <1>35, <1>36, <1>37, <1>38, <1>39, <1>40,
  SentinelPlan, NoCodePlan

-----------------------------------------------------------------------------
(* A step, field by field *)

Fields == {"status", "plan", "todo", "name", "wid", "tries", "polls", "read", "form", "filled",
           "consent", "named", "pins", "seen", "done", "lost"}

\* c and d are calls that differ in nothing but the fields of S.
SameBut(S, c, d) == DOMAIN d = Fields /\ \A f \in Fields \ S : d[f] = c[f]

Progress == {"todo", "status", "tries"}

LEMMA AdvancedFields ==
  ASSUME NEW c, DOMAIN c = Fields
  PROVE  /\ SameBut(Progress, c, Advanced(c))
         /\ Advanced(c).todo = Tail(c.todo) /\ Advanced(c).tries = 1
         /\ Advanced(c).status = IF Len(c.todo) = 1 THEN "ok" ELSE "running"
  BY DEF Advanced, SameBut, Progress, Fields

LEMMA FailedFields ==
  ASSUME NEW c, DOMAIN c = Fields
  PROVE  SameBut({"status"}, c, Failed(c)) /\ Failed(c).status = "error"
  BY DEF Failed, SameBut, Fields

\* Of two calls that differ in the fields of S, and the second and a third in those
\* of T, the first and the third differ in both.
LEMMA SameButTwice ==
  ASSUME NEW S, NEW T, NEW c, NEW d, NEW e, SameBut(S, c, d), SameBut(T, d, e)
  PROVE  SameBut(S \cup T, c, e)
  BY DEF SameBut

LEMMA BegunFields ==
  ASSUME NEW plan, NEW name, NEW wid
  PROVE  LET c == Begun(plan, name, wid)
         IN /\ DOMAIN c = Fields
            /\ c.status = "running" /\ c.plan = plan /\ c.todo = plan.todo /\ c.name = name
            /\ c.wid = wid /\ c.tries = 1 /\ c.polls = 0 /\ c.read = pin /\ c.form = <<>>
            /\ c.filled = <<>> /\ c.consent = FALSE /\ c.lost = FALSE
            /\ c.named = IF plan.by = "name" THEN Bearers(name) ELSE {}
            /\ c.pins = {pin} /\ c.seen = {} /\ c.done = <<>>
  BY DEF Begun, Fields

\* What Noted adds to a call.
LEMMA NotedFields ==
  ASSUME NEW c, NEW w, DOMAIN c = Fields
  PROVE  /\ SameBut({"done", "named"}, c, Noted(c, w))
         /\ Noted(c, w).done = Append(c.done, [what |-> Current.what, on |-> w])
         /\ Noted(c, w).named = IF c.plan.by = "name"
                                THEN c.named \cup {v \in Workspace : wsName'[v] = c.name}
                                ELSE c.named
  BY DEF Noted, SameBut, Fields

\* An answer that was lost.
LEMMA ResentFields ==
  ASSUME NEW c, DOMAIN c = Fields
  PROVE  /\ SameBut(Progress \cup {"lost"}, c, Resent(c))
         /\ Resent(c).lost = (c.lost \/ Current.op = "change")
         /\ \/ /\ c.tries < MaxTries /\ Resent(c).tries = c.tries + 1
               /\ Resent(c).todo = c.todo /\ Resent(c).status = c.status
            \/ Resent(c).tries = c.tries /\ Resent(c).todo = c.todo /\ Resent(c).status = "error"
            \/ /\ ~Head(c.todo).must
               /\ Resent(c).tries = 1 /\ Resent(c).todo = Tail(c.todo)
               /\ Resent(c).status = IF Len(c.todo) = 1 THEN "ok" ELSE "running"
<1> DEFINE d == [c EXCEPT !.lost = @ \/ Current.op = "change"]
<1>1. /\ SameBut({"lost"}, c, d) /\ d.lost = (c.lost \/ Current.op = "change")
      /\ DOMAIN d = Fields /\ d.tries = c.tries /\ d.todo = c.todo /\ d.status = c.status
  BY DEF SameBut, Fields
<1> HIDE DEF d
<1>2. CASE c.tries < MaxTries
  <2>1. Resent(c) = [d EXCEPT !.tries = @ + 1]
    BY <1>2 DEF Resent, d
  <2>2. /\ SameBut({"tries"}, d, Resent(c)) /\ Resent(c).tries = d.tries + 1
        /\ Resent(c).todo = d.todo /\ Resent(c).status = d.status /\ Resent(c).lost = d.lost
    BY <1>1, <2>1 DEF SameBut, Fields
  <2>3. SameBut({"lost"} \cup {"tries"}, c, Resent(c))
    BY <1>1, <2>2, SameButTwice
  <2>4. SameBut(Progress \cup {"lost"}, c, Resent(c))
    BY <2>3 DEF SameBut, Progress
  <2> QED BY <1>1, <1>2, <2>2, <2>4
<1>3. CASE ~(c.tries < MaxTries) /\ Head(c.todo).must
  <2>1. Resent(c) = Failed(d)
    BY <1>1, <1>3 DEF Resent, d, GiveUp
  <2>2. SameBut({"status"}, d, Resent(c)) /\ Resent(c).status = "error"
    BY <1>1, <2>1, FailedFields
  <2>3. SameBut({"lost"} \cup {"status"}, c, Resent(c))
    BY <1>1, <2>2, SameButTwice
  <2>4. SameBut(Progress \cup {"lost"}, c, Resent(c))
    BY <2>3 DEF SameBut, Progress
  <2>5. Resent(c).lost = d.lost /\ Resent(c).tries = d.tries /\ Resent(c).todo = d.todo
    BY <2>2 DEF SameBut, Fields
  <2> QED BY <1>1, <2>2, <2>4, <2>5
<1>4. CASE ~(c.tries < MaxTries) /\ ~Head(c.todo).must
  <2>1. Resent(c) = Advanced(d)
    BY <1>1, <1>4 DEF Resent, d, GiveUp
  <2>2. /\ SameBut(Progress, d, Resent(c)) /\ Resent(c).tries = 1 /\ Resent(c).todo = Tail(d.todo)
        /\ Resent(c).status = IF Len(d.todo) = 1 THEN "ok" ELSE "running"
    BY <1>1, <2>1, AdvancedFields
  <2>3. SameBut({"lost"} \cup Progress, c, Resent(c))
    BY <1>1, <2>2, SameButTwice
  <2>4. SameBut(Progress \cup {"lost"}, c, Resent(c))
    BY <2>3 DEF SameBut, Progress
  <2>5. Resent(c).lost = d.lost
    BY <2>2 DEF SameBut, Fields, Progress
  <2> QED BY <1>1, <1>4, <2>2, <2>4, <2>5
<1> QED BY <1>2, <1>3, <1>4

-----------------------------------------------------------------------------
(* The steps of a call *)

\* The requests still to make are the last ones of the plan.
ShapeInv ==
  /\ DOMAIN call = Fields
  /\ call.status \in {"none", "running", "ok", "error"}
  /\ call.status = "none" => call.plan.by = "none" /\ call.done = <<>>
  /\ call.status # "none" => GoodPlan(call.plan)
  /\ call.tries \in 1..MaxTries
  /\ Running =>
       /\ Len(call.todo) \in 1..Len(call.plan.todo)
       /\ DOMAIN call.todo = 1..Len(call.todo)
       /\ \A i \in 1..Len(call.todo) :
            call.todo[i] = call.plan.todo[Len(call.plan.todo) - Len(call.todo) + i]

Position == Len(call.plan.todo) - Len(call.todo) + 1

LEMMA CurrentRequest ==
  ASSUME ShapeInv, Running
  PROVE  /\ GoodPlan(call.plan) /\ Position \in 1..Len(call.plan.todo)
         /\ Current = call.plan.todo[Position] /\ Current = call.todo[1]
         /\ GoodRequest(call.plan, Current, Position)
<1>1. GoodPlan(call.plan)
  BY DEF ShapeInv, Running
<1>2. Len(call.plan.todo) \in Nat /\ Len(call.todo) \in 1..Len(call.plan.todo)
  BY <1>1 DEF ShapeInv, GoodPlan, IsPlan
<1> DEFINE m == Len(call.plan.todo)
           n == Len(call.todo)
<1>3. Position \in 1..Len(call.plan.todo)
  <2>1. m \in Nat /\ n \in 1..m
    BY <1>2
  <2> HIDE DEF m, n
  <2>2. m - n + 1 \in 1..m
    BY <2>1
  <2> QED BY <2>2 DEF Position, m, n
<1>4. call.todo[1] = call.plan.todo[Position]
  <2>1. \A i \in 1..n : call.todo[i] = call.plan.todo[m - n + i]
    BY DEF ShapeInv
  <2>2. m \in Nat /\ n \in 1..m
    BY <1>2
  <2>3. Position = m - n + 1
    BY DEF Position
  <2> HIDE DEF m, n
  <2>4. 1 \in 1..n
    BY <2>2
  <2> QED BY <2>1, <2>3, <2>4
<1>5. Current = call.todo[1]
  BY <1>2 DEF ShapeInv, Current
<1> QED BY <1>1, <1>3, <1>4, <1>5 DEF GoodPlan

Advances ==
  call'.todo = Tail(call.todo) /\ call'.status = IF Len(call.todo) = 1 THEN "ok" ELSE "running"
Remains == call'.todo = call.todo /\ call'.status = "running"
Fails == call'.todo = call.todo /\ call'.status = "error"
Stops == call'.todo = Tail(call.todo) /\ call'.status = "error"
Moves == Advances \/ Remains \/ Fails
Proceeds == Moves \/ Stops

\* What the kinds of steps change.
Finds ==
  /\ At("find") /\ SameBut(Progress \cup {"wid"}, call, call') /\ Advances
  /\ call'.wid \in Bearers(call.name) /\ UnchangedWorld

Reads ==
  /\ At("read") /\ Current.on = "none" /\ SameBut(Progress \cup {"read", "form"}, call, call')
  /\ Advances
  /\ call'.read = IF Current.what = "pin" THEN pin ELSE call.read
  /\ call'.form = IF Current.what = "inputs" THEN InputsOf[call.read] ELSE call.form
  /\ UnchangedWorld

ReadsPart ==
  /\ At("read") /\ Current.on = "id" /\ SameBut(Progress \cup {"seen"}, call, call') /\ Advances
  /\ call'.seen = call.seen \cup {call.wid} /\ UnchangedWorld

Polls ==
  /\ SameBut(Progress \cup {"polls"}, call, call') /\ UnchangedWorld
  /\ \/ At("poll") /\ Advances /\ call'.polls = call.polls
     \/ At("pages") /\ Advances /\ call'.polls = call.polls
     \/ At("poll") /\ Fails /\ call.polls + 1 = MaxPolls /\ call'.polls = call.polls + 1
     \/ At("poll") /\ Remains /\ call.polls + 1 # MaxPolls /\ call'.polls = call.polls + 1
     \/ At("pages") /\ Remains /\ call.polls + 1 < MaxPages /\ call'.polls = call.polls + 1

\* A change to w, and what is noted of it.
Makes(w) ==
  /\ At("change") /\ w \in Concerned(Current.on) /\ Effect(Current.what, w)
  /\ UNCHANGED <<managed, pin, changes>>
  /\ call'.done = Append(call.done, [what |-> Current.what, on |-> w])
  /\ call'.named = IF call.plan.by = "name"
                   THEN call.named \cup {v \in Workspace : wsName'[v] = call.name} ELSE call.named

Changes(w) ==
  /\ Makes(w) /\ SameBut(Progress \cup {"done", "named"}, call, call')
  /\ Advances \/ (Stops /\ call.plan.tool \in Describing)

Goes ==
  \/ Remains /\ call'.tries = call.tries + 1
  \/ Fails
  \/ Advances /\ Current.must # TRUE

Loses ==
  /\ Running /\ Current.op # "ask" /\ SameBut(Progress \cup {"lost"}, call, call')
  /\ Goes /\ (call.lost => call'.lost) /\ UnchangedWorld

LosesDone(w) ==
  /\ Makes(w) /\ SameBut(Progress \cup {"lost", "done", "named"}, call, call')
  /\ Goes /\ call'.lost

Accepts ==
  /\ At("ask") /\ SameBut(Progress \cup {"consent", "filled"}, call, call') /\ UnchangedWorld
  /\ call'.consent = TRUE
  /\ \/ Fails
     \/ /\ Advances
        /\ \E content : /\ ExtractVariables(call.form, content)
                        /\ call'.filled = [v \in DOMAIN call.form |-> content[v]]

Declines == At("ask") /\ SameBut({"status"}, call, call') /\ Fails /\ UnchangedWorld

Kinds ==
  \/ Finds \/ Reads \/ ReadsPart \/ Polls \/ Loses \/ Accepts \/ Declines
  \/ \E w : Changes(w) \/ LosesDone(w)

\* Every step of a call is of one of the kinds.
LEMMA KindsOfSteps ==
  ASSUME ShapeInv, CallStep \/ UserStep
  PROVE  Kinds /\ call'.tries \in 1..MaxTries
<1> DOMAIN call = Fields /\ call.tries \in 1..MaxTries
  BY DEF ShapeInv
<1> 1 \in 1..MaxTries
  BY BoundsAssumption
<1>1. CASE FindWorkspace
  <2>1. PICK w \in Bearers(call.name) : call' = Advanced([call EXCEPT !.wid = w])
    BY <1>1 DEF FindWorkspace
  <2> DEFINE c == [call EXCEPT !.wid = w]
  <2>2. SameBut({"wid"}, call, c) /\ c.wid = w /\ c.todo = call.todo /\ DOMAIN c = Fields
    BY DEF SameBut, Fields
  <2> HIDE DEF c
  <2>3. /\ SameBut(Progress, c, call') /\ call'.todo = Tail(c.todo) /\ call'.tries = 1
        /\ call'.status = IF Len(c.todo) = 1 THEN "ok" ELSE "running"
    BY <2>1, <2>2, AdvancedFields DEF c
  <2>4. SameBut({"wid"} \cup Progress, call, call')
    BY <2>2, <2>3, SameButTwice
  <2>5. SameBut(Progress \cup {"wid"}, call, call')
    BY <2>4 DEF SameBut
  <2>6. call'.wid = w
    BY <2>2, <2>3 DEF SameBut, Fields, Progress
  <2>7. Finds
    BY <1>1, <2>1, <2>2, <2>3, <2>5, <2>6 DEF Finds, FindWorkspace, Advances
  <2> QED BY <2>3, <2>7 DEF Kinds
<1>2. CASE ReadPart
  <2>1. CASE /\ Current.on = "none"
             /\ call' = Advanced([call EXCEPT
                  !.read = IF Current.what = "pin" THEN pin ELSE @,
                  !.form = IF Current.what = "inputs" THEN InputsOf[call.read] ELSE @])
    <3> DEFINE c == [call EXCEPT !.read = IF Current.what = "pin" THEN pin ELSE @,
                                 !.form = IF Current.what = "inputs" THEN InputsOf[call.read] ELSE @]
    <3>2. /\ SameBut({"read", "form"}, call, c) /\ c.todo = call.todo /\ DOMAIN c = Fields
          /\ c.read = IF Current.what = "pin" THEN pin ELSE call.read
          /\ c.form = IF Current.what = "inputs" THEN InputsOf[call.read] ELSE call.form
      BY DEF SameBut, Fields
    <3> HIDE DEF c
    <3>3. /\ SameBut(Progress, c, call') /\ call'.todo = Tail(c.todo) /\ call'.tries = 1
          /\ call'.status = IF Len(c.todo) = 1 THEN "ok" ELSE "running"
      BY <2>1, <3>2, AdvancedFields DEF c
    <3>4. SameBut({"read", "form"} \cup Progress, call, call')
      BY <3>2, <3>3, SameButTwice
    <3>5. SameBut(Progress \cup {"read", "form"}, call, call')
      BY <3>4 DEF SameBut
    <3>6. call'.read = c.read /\ call'.form = c.form
      BY <3>3 DEF SameBut, Fields, Progress
    <3>7. Reads
      BY <1>2, <2>1, <3>2, <3>3, <3>5, <3>6 DEF Reads, ReadPart, Advances
    <3> QED BY <3>3, <3>7 DEF Kinds
  <2>2. CASE /\ Current.on = "id"
             /\ \E w \in ReadTarget : Exists(w) /\ call' = Advanced([call EXCEPT !.seen = @ \cup {w}])
    <3> DEFINE c == [call EXCEPT !.seen = @ \cup {call.wid}]
    <3>1. call' = Advanced(c)
      BY <2>2 DEF ReadTarget
    <3>2. /\ SameBut({"seen"}, call, c) /\ c.todo = call.todo /\ DOMAIN c = Fields
          /\ c.seen = call.seen \cup {call.wid}
      BY DEF SameBut, Fields
    <3> HIDE DEF c
    <3>3. /\ SameBut(Progress, c, call') /\ call'.todo = Tail(c.todo) /\ call'.tries = 1
          /\ call'.status = IF Len(c.todo) = 1 THEN "ok" ELSE "running"
      BY <3>1, <3>2, AdvancedFields
    <3>4. SameBut({"seen"} \cup Progress, call, call')
      BY <3>2, <3>3, SameButTwice
    <3>5. SameBut(Progress \cup {"seen"}, call, call')
      BY <3>4 DEF SameBut
    <3>6. call'.seen = c.seen
      BY <3>3 DEF SameBut, Fields, Progress
    <3>7. ReadsPart
      BY <1>2, <2>2, <3>2, <3>3, <3>5, <3>6 DEF ReadsPart, ReadPart, Advances
    <3> QED BY <3>3, <3>7 DEF Kinds
  <2> QED BY <1>2, <2>1, <2>2 DEF ReadPart
<1>3. CASE PollFinished \/ (ReadPage /\ call' = Advanced(call))
  <2>1. (At("poll") \/ At("pages")) /\ call' = Advanced(call) /\ UnchangedWorld
    BY <1>3 DEF PollFinished, ReadPage
  <2>2. SameBut(Progress, call, call') /\ Advances /\ call'.tries = 1
    BY <2>1, AdvancedFields DEF Advances
  <2>3. SameBut(Progress \cup {"polls"}, call, call') /\ call'.polls = call.polls
    BY <2>2 DEF SameBut, Fields, Progress
  <2>4. Polls
    BY <2>1, <2>2, <2>3 DEF Polls
  <2> QED BY <2>2, <2>4 DEF Kinds
<1>4. CASE PollPending
  <2>1. CASE call.polls + 1 = MaxPolls
    <3>1. call' = [Failed(call) EXCEPT !.polls = @ + 1, !.tries = 1]
      BY <1>4, <2>1 DEF PollPending
    <3>2. /\ SameBut({"status"}, call, Failed(call)) /\ Failed(call).status = "error"
          /\ DOMAIN Failed(call) = Fields
      BY FailedFields DEF SameBut
    <3>3. Failed(call).polls = call.polls /\ Failed(call).todo = call.todo
      BY <3>2 DEF SameBut, Fields
    <3>4. /\ SameBut({"polls", "tries"}, Failed(call), call') /\ call'.polls = call.polls + 1
          /\ call'.tries = 1 /\ call'.todo = call.todo /\ call'.status = "error"
      BY <3>1, <3>2, <3>3 DEF SameBut, Fields
    <3>5. SameBut({"status"} \cup {"polls", "tries"}, call, call')
      BY <3>2, <3>4, SameButTwice
    <3>6. SameBut(Progress \cup {"polls"}, call, call')
      BY <3>5 DEF SameBut, Progress
    <3>7. Polls
      BY <1>4, <2>1, <3>4, <3>6 DEF Polls, PollPending, Fails
    <3> QED BY <3>4, <3>7 DEF Kinds
  <2>2. CASE call.polls + 1 # MaxPolls
    <3>1. call' = [call EXCEPT !.polls = @ + 1, !.tries = 1]
      BY <1>4, <2>2 DEF PollPending
    <3>2. /\ SameBut(Progress \cup {"polls"}, call, call') /\ call'.polls = call.polls + 1
          /\ call'.tries = 1 /\ call'.todo = call.todo /\ call'.status = call.status
      BY <3>1 DEF SameBut, Fields, Progress
    <3>3. Polls
      BY <1>4, <2>2, <3>2 DEF Polls, PollPending, Remains, At, Running
    <3> QED BY <3>2, <3>3 DEF Kinds
  <2> QED BY <2>1, <2>2
<1>5. CASE ReadPage /\ call' # Advanced(call)
  <2>1. call.polls + 1 < MaxPages /\ call' = [call EXCEPT !.polls = @ + 1, !.tries = 1]
    BY <1>5 DEF ReadPage
  <2>2. /\ SameBut(Progress \cup {"polls"}, call, call') /\ call'.polls = call.polls + 1
        /\ call'.tries = 1 /\ call'.todo = call.todo /\ call'.status = call.status
    BY <2>1 DEF SameBut, Fields, Progress
  <2>3. Polls
    BY <1>5, <2>1, <2>2 DEF Polls, ReadPage, Remains, At, Running
  <2> QED BY <2>2, <2>3 DEF Kinds
<1>6. CASE MakeChange
  <2>1. PICK w \in Concerned(Current.on) :
          /\ Effect(Current.what, w)
          /\ \/ call' = Advanced(Noted(call, w))
             \/ call.plan.tool \in Describing /\ call' = Undescribed(Noted(call, w))
    BY <1>6 DEF MakeChange
  <2> DEFINE c == Noted(call, w)
  <2>2. SameBut({"done", "named"}, call, c) /\ DOMAIN c = Fields
    BY NotedFields DEF SameBut
  <2>3. c.todo = call.todo
    BY <2>2 DEF SameBut, Fields
  <2>4. /\ c.done = Append(call.done, [what |-> Current.what, on |-> w])
        /\ c.named = IF call.plan.by = "name"
                     THEN call.named \cup {v \in Workspace : wsName'[v] = call.name} ELSE call.named
    BY NotedFields
  <2> HIDE DEF c
  <2> DEFINE d == Advanced(c)
  <2>5. /\ SameBut(Progress, c, d) /\ d.todo = Tail(call.todo) /\ d.tries = 1
        /\ d.status = (IF Len(call.todo) = 1 THEN "ok" ELSE "running") /\ DOMAIN d = Fields
    BY <2>2, <2>3, AdvancedFields DEF SameBut
  <2> HIDE DEF d
  <2>6. \/ call' = d
        \/ call.plan.tool \in Describing /\ call' = Failed(d)
    BY <2>1 DEF c, d, Undescribed
  <2>7. /\ SameBut(Progress, c, call') /\ call'.tries = 1
        /\ Advances \/ (Stops /\ call.plan.tool \in Describing)
    <3>1. CASE call' = d
      BY <2>5, <3>1 DEF Advances
    <3>2. CASE call.plan.tool \in Describing /\ call' = Failed(d)
      <4>1. SameBut({"status"}, d, call') /\ call'.status = "error"
        BY <2>5, <3>2, FailedFields
      <4>2. call'.todo = d.todo /\ call'.tries = d.tries
        BY <4>1 DEF SameBut, Fields
      <4>3. SameBut(Progress \cup {"status"}, c, call')
        BY <2>5, <4>1, SameButTwice
      <4>4. SameBut(Progress, c, call')
        BY <4>3 DEF SameBut, Progress
      <4> QED BY <2>5, <3>2, <4>1, <4>2, <4>4 DEF Stops
    <3> QED BY <2>6, <3>1, <3>2
  <2>8. SameBut({"done", "named"} \cup Progress, call, call')
    BY <2>2, <2>7, SameButTwice
  <2>9. SameBut(Progress \cup {"done", "named"}, call, call')
    BY <2>8 DEF SameBut
  <2>10. call'.done = c.done /\ call'.named = c.named
    BY <2>7 DEF SameBut, Fields, Progress
  <2>11. Changes(w)
    BY <1>6, <2>1, <2>4, <2>7, <2>9, <2>10 DEF Changes, Makes, MakeChange
  <2> QED BY <2>7, <2>11 DEF Kinds
<1>7. CASE RejectRequest
  <2>1. Running /\ Current.op # "ask" /\ call' = GiveUp(call) /\ UnchangedWorld
    BY <1>7 DEF RejectRequest, Requesting
  <2>2. CASE Head(call.todo).must
    <3>1. SameBut({"status"}, call, call') /\ call'.status = "error"
      BY <2>1, <2>2, FailedFields DEF GiveUp
    <3>2. SameBut(Progress \cup {"lost"}, call, call')
      BY <3>1 DEF SameBut, Progress
    <3>3. call'.todo = call.todo /\ call'.lost = call.lost /\ call'.tries = call.tries
      BY <3>1 DEF SameBut, Fields
    <3>4. Loses
      BY <2>1, <3>1, <3>2, <3>3 DEF Loses, Goes, Fails
    <3> QED BY <3>3, <3>4 DEF Kinds
  <2>3. CASE ~Head(call.todo).must
    <3>1. SameBut(Progress, call, call') /\ Advances /\ call'.tries = 1
      BY <2>1, <2>3, AdvancedFields DEF GiveUp, Advances
    <3>2. SameBut(Progress \cup {"lost"}, call, call') /\ call'.lost = call.lost
      BY <3>1 DEF SameBut, Progress, Fields
    <3>3. Current.must # TRUE
      BY <2>3 DEF Current
    <3>4. Loses
      BY <2>1, <3>1, <3>2, <3>3 DEF Loses, Goes
    <3> QED BY <3>1, <3>4 DEF Kinds
  <2> QED BY <2>2, <2>3
<1>8. CASE LoseAnswer
  <2>1. Running /\ Current.op # "ask" /\ UNCHANGED <<managed, pin, changes>>
    BY <1>8 DEF LoseAnswer, Requesting
  <2>2. ASSUME NEW c, DOMAIN c = Fields, c.tries = call.tries, c.todo = call.todo,
               c.status = "running", call' = Resent(c)
        PROVE  Goes /\ call'.tries \in 1..MaxTries
    <3>1. /\ \/ /\ c.tries < MaxTries /\ call'.tries = c.tries + 1
                /\ call'.todo = c.todo /\ call'.status = c.status
             \/ call'.tries = c.tries /\ call'.todo = c.todo /\ call'.status = "error"
             \/ /\ ~Head(c.todo).must
                /\ call'.tries = 1 /\ call'.todo = Tail(c.todo)
                /\ call'.status = IF Len(c.todo) = 1 THEN "ok" ELSE "running"
      BY <2>2, ResentFields
    <3>2. CASE c.tries < MaxTries /\ call'.tries = c.tries + 1 /\ call'.todo = c.todo /\ call'.status = c.status
      BY <2>2, <3>2, BoundsAssumption DEF Goes, Remains
    <3>3. CASE call'.tries = c.tries /\ call'.todo = c.todo /\ call'.status = "error"
      BY <2>2, <3>3 DEF Goes, Fails
    <3>4. CASE /\ ~Head(c.todo).must
               /\ call'.tries = 1 /\ call'.todo = Tail(c.todo)
               /\ call'.status = IF Len(c.todo) = 1 THEN "ok" ELSE "running"
      <4>1. Head(call.todo).must # TRUE
        BY <2>2, <3>4
      <4>2. Advances
        BY <2>2, <3>4 DEF Advances
      <4> QED BY <3>4, <4>1, <4>2 DEF Goes, Current
    <3> QED BY <3>1, <3>2, <3>3, <3>4
  <2>3. CASE call' = Resent(call) /\ UNCHANGED wsName
    <3>1. Goes /\ call'.tries \in 1..MaxTries
      BY <2>1, <2>2, <2>3 DEF Running
    <3>2. SameBut(Progress \cup {"lost"}, call, call')
      BY <2>3, ResentFields
    <3>3. call'.lost = (call.lost \/ Current.op = "change")
      BY <2>3, ResentFields
    <3>4. call.lost => call'.lost
      BY <3>3, Zenon
    <3>5. UnchangedWorld
      BY <2>1, <2>3 DEF UnchangedWorld
    <3>6. Loses
      BY <2>1, <3>1, <3>2, <3>4, <3>5 DEF Loses
    <3> QED BY <3>1, <3>6 DEF Kinds
  <2>4. CASE /\ Current.op = "change"
             /\ \E w \in Concerned(Current.on) :
                  Effect(Current.what, w) /\ call' = Resent(Noted(call, w))
    <3>1. PICK w \in Concerned(Current.on) : Effect(Current.what, w) /\ call' = Resent(Noted(call, w))
      BY <2>4
    <3> DEFINE c == Noted(call, w)
    <3>2. SameBut({"done", "named"}, call, c) /\ DOMAIN c = Fields
      BY NotedFields DEF SameBut
    <3>3. c.todo = call.todo /\ c.tries = call.tries /\ c.status = "running"
      BY <2>1, <3>2 DEF SameBut, Fields, Running
    <3>4. /\ c.done = Append(call.done, [what |-> Current.what, on |-> w])
          /\ c.named = IF call.plan.by = "name"
                       THEN call.named \cup {v \in Workspace : wsName'[v] = call.name} ELSE call.named
      BY NotedFields
    <3> HIDE DEF c
    <3>5. call' = Resent(c)
      BY <3>1 DEF c
    <3>6. Goes /\ call'.tries \in 1..MaxTries
      BY <2>2, <3>2, <3>3, <3>5
    <3>7. SameBut(Progress \cup {"lost"}, c, call') /\ call'.lost = (c.lost \/ Current.op = "change")
      BY <3>2, <3>5, ResentFields
    <3>8. call'.lost
      BY <2>4, <3>7, Zenon
    <3>9. SameBut({"done", "named"} \cup (Progress \cup {"lost"}), call, call')
      BY <3>2, <3>7, SameButTwice
    <3>10. SameBut(Progress \cup {"lost", "done", "named"}, call, call')
      BY <3>9 DEF SameBut
    <3>11. call'.done = c.done /\ call'.named = c.named
      BY <3>7 DEF SameBut, Fields, Progress
    <3>12. Makes(w)
      BY <2>1, <2>4, <3>1, <3>4, <3>11 DEF Makes, At
    <3>13. LosesDone(w)
      BY <3>6, <3>8, <3>10, <3>12 DEF LosesDone
    <3> QED BY <3>6, <3>13 DEF Kinds
  <2> QED BY <1>8, <2>3, <2>4 DEF LoseAnswer
<1>9. CASE AcceptForm
  <2>1. At("ask") /\ UnchangedWorld
    BY <1>9 DEF AcceptForm, Asking
  <2>2. PICK content :
          call' = IF ExtractVariables(call.form, content)
                  THEN Advanced([call EXCEPT !.consent = TRUE,
                                             !.filled = [v \in DOMAIN call.form |-> content[v]]])
                  ELSE Failed([call EXCEPT !.consent = TRUE])
    BY <1>9 DEF AcceptForm
  <2>3. CASE ExtractVariables(call.form, content)
    <3> DEFINE f == [v \in DOMAIN call.form |-> content[v]]
               c == [call EXCEPT !.consent = TRUE, !.filled = f]
    <3>1. /\ SameBut({"consent", "filled"}, call, c) /\ c.todo = call.todo /\ DOMAIN c = Fields
          /\ c.consent = TRUE /\ c.filled = f
      <4> HIDE DEF f
      <4> QED BY DEF SameBut, Fields
    <3>2. call' = Advanced(c)
      BY <2>2, <2>3
    <3> HIDE DEF c
    <3>3. /\ SameBut(Progress, c, call') /\ call'.todo = Tail(c.todo) /\ call'.tries = 1
          /\ call'.status = IF Len(c.todo) = 1 THEN "ok" ELSE "running"
      BY <3>1, <3>2, AdvancedFields
    <3>4. SameBut({"consent", "filled"} \cup Progress, call, call')
      BY <3>1, <3>3, SameButTwice
    <3>5. SameBut(Progress \cup {"consent", "filled"}, call, call')
      BY <3>4 DEF SameBut
    <3>6. call'.consent = c.consent /\ call'.filled = c.filled
      BY <3>3 DEF SameBut, Fields, Progress
    <3>7. Accepts
      BY <2>1, <2>3, <3>1, <3>3, <3>5, <3>6 DEF Accepts, Advances
    <3> QED BY <3>3, <3>7 DEF Kinds
  <2>4. CASE ~ExtractVariables(call.form, content)
    <3> DEFINE c == [call EXCEPT !.consent = TRUE]
    <3>1. /\ SameBut({"consent"}, call, c) /\ c.todo = call.todo /\ DOMAIN c = Fields
          /\ c.consent = TRUE /\ c.tries = call.tries
      BY DEF SameBut, Fields
    <3>2. call' = Failed(c)
      BY <2>2, <2>4
    <3> HIDE DEF c
    <3>3. SameBut({"status"}, c, call') /\ call'.status = "error"
      BY <3>1, <3>2, FailedFields
    <3>4. SameBut({"consent"} \cup {"status"}, call, call')
      BY <3>1, <3>3, SameButTwice
    <3>5. SameBut(Progress \cup {"consent", "filled"}, call, call')
      BY <3>4 DEF SameBut, Progress
    <3>6. call'.consent = c.consent /\ call'.tries = c.tries /\ call'.todo = c.todo
      BY <3>3 DEF SameBut, Fields
    <3>7. Accepts
      BY <2>1, <3>1, <3>3, <3>5, <3>6 DEF Accepts, Fails
    <3> QED BY <3>1, <3>6, <3>7 DEF Kinds
  <2> QED BY <2>3, <2>4
<1>10. CASE DeclineForm
  <2>1. At("ask") /\ call' = Failed(call) /\ UnchangedWorld
    BY <1>10 DEF DeclineForm, Asking
  <2>2. SameBut({"status"}, call, call') /\ call'.status = "error"
    BY <2>1, FailedFields
  <2>3. call'.todo = call.todo /\ call'.tries = call.tries
    BY <2>2 DEF SameBut, Fields
  <2> QED BY <2>1, <2>2, <2>3 DEF Kinds, Declines, Fails
<1> QED BY <1>1, <1>2, <1>3, <1>4, <1>5, <1>6, <1>7, <1>8, <1>9, <1>10 DEF CallStep, UserStep

\* What the steps of all kinds have in common.
LEMMA Common ==
  ASSUME Kinds
  PROVE  /\ Running /\ Proceeds /\ DOMAIN call' = Fields
         /\ call'.plan = call.plan /\ call'.name = call.name /\ call'.pins = call.pins
         /\ UNCHANGED <<managed, pin, changes>>
<1>1. CASE Finds
  BY <1>1 DEF Finds, At, Proceeds, Moves, SameBut, Fields, Progress, UnchangedWorld
<1>2. CASE Reads
  BY <1>2 DEF Reads, At, Proceeds, Moves, SameBut, Fields, Progress, UnchangedWorld
<1>3. CASE ReadsPart
  BY <1>3 DEF ReadsPart, At, Proceeds, Moves, SameBut, Fields, Progress, UnchangedWorld
<1>4. CASE Polls
  BY <1>4 DEF Polls, At, Proceeds, Moves, SameBut, Fields, Progress, UnchangedWorld
<1>5. CASE Loses
  BY <1>5 DEF Loses, Goes, Proceeds, Moves, SameBut, Fields, Progress, UnchangedWorld
<1>6. CASE Accepts
  BY <1>6 DEF Accepts, At, Proceeds, Moves, SameBut, Fields, Progress, UnchangedWorld
<1>7. CASE Declines
  BY <1>7 DEF Declines, At, Proceeds, Moves, SameBut, Fields, Progress, UnchangedWorld
<1>8. CASE \E w : Changes(w)
  BY <1>8 DEF Changes, Makes, At, Proceeds, Moves, SameBut, Fields, Progress
<1>9. CASE \E w : LosesDone(w)
  BY <1>9 DEF LosesDone, Makes, Goes, At, Proceeds, Moves, SameBut, Fields, Progress
<1> QED BY <1>1, <1>2, <1>3, <1>4, <1>5, <1>6, <1>7, <1>8, <1>9 DEF Kinds

\* The rest of a sequence.
LEMMA Rest ==
  ASSUME NEW s, NEW n, n \in Nat \ {0}, Len(s) = n, DOMAIN s = 1..n
  PROVE  /\ Len(Tail(s)) = n - 1 /\ DOMAIN Tail(s) = 1..(n - 1)
         /\ \A i \in 1..(n - 1) : Tail(s)[i] = s[i + 1]
  OBVIOUS

\* Where a call is after it proceeds.
LEMMA NextPosition ==
  ASSUME ShapeInv, Running, Proceeds, call'.plan = call.plan
  PROVE  /\ Position \in 1..Len(call.plan.todo)
         /\ Advances => IF Len(call.todo) = 1 THEN call'.status = "ok" /\ Position = Len(call.plan.todo)
                        ELSE /\ call'.status = "running" /\ Position' = Position + 1
                             /\ Position # Len(call.plan.todo)
         /\ Remains \/ Fails => Position' = Position
<1>1. GoodPlan(call.plan) /\ Position \in 1..Len(call.plan.todo)
  BY CurrentRequest
<1> DEFINE m == Len(call.plan.todo)
           n == Len(call.todo)
<1>2. m \in Nat /\ n \in 1..m
  BY <1>1 DEF ShapeInv, GoodPlan, IsPlan
<1>3. Position = m - n + 1
  BY DEF Position
<1>4. Position' = m - Len(call'.todo) + 1
  BY DEF Position
<1>5. Advances => Len(call'.todo) = n - 1
  BY <1>2, Rest DEF Advances, ShapeInv
<1>6. Remains \/ Fails => Len(call'.todo) = n
  BY DEF Remains, Fails
<1>7. Advances => call'.status = IF n = 1 THEN "ok" ELSE "running"
  BY DEF Advances
<1> HIDE DEF m, n
<1>8. n = 1 <=> Position = m
  BY <1>2, <1>3
<1>9. ASSUME Advances PROVE Position' = Position + 1
  <2>1. m - (n - 1) + 1 = (m - n + 1) + 1
    BY <1>2
  <2> QED BY <1>3, <1>4, <1>5, <1>9, <2>1
<1>10. Remains \/ Fails => Position' = Position
  BY <1>2, <1>3, <1>4, <1>6
<1> QED BY <1>1, <1>7, <1>8, <1>9, <1>10 DEF n, m

LEMMA ShapeKinds ==
  ASSUME ShapeInv, Kinds, call'.tries \in 1..MaxTries
  PROVE  ShapeInv'
<1>1. /\ Running /\ Proceeds /\ DOMAIN call' = Fields /\ call'.plan = call.plan
      /\ GoodPlan(call.plan)
  BY Common, CurrentRequest
<1> DEFINE m == Len(call.plan.todo)
           n == Len(call.todo)
<1>2. m \in Nat /\ n \in 1..m /\ DOMAIN call.todo = 1..n
  BY <1>1 DEF ShapeInv, GoodPlan, IsPlan
<1>3. \A i \in 1..n : call.todo[i] = call.plan.todo[m - n + i]
  BY <1>1 DEF ShapeInv
<1>4. call'.status \in {"running", "ok", "error"}
  BY <1>1 DEF Proceeds, Moves, Advances, Remains, Fails, Stops
<1>5. ASSUME call'.status = "running"
      PROVE  /\ Len(call'.todo) \in 1..m /\ DOMAIN call'.todo = 1..Len(call'.todo)
             /\ \A i \in 1..Len(call'.todo) : call'.todo[i] = call.plan.todo[m - Len(call'.todo) + i]
  <2>1. CASE Advances
    <3>1. n # 1
      BY <1>5, <2>1 DEF Advances
    <3>2. /\ Len(call'.todo) = n - 1 /\ DOMAIN call'.todo = 1..(n - 1)
          /\ \A i \in 1..(n - 1) : call'.todo[i] = call.todo[i + 1]
      BY <1>2, <2>1, Rest DEF Advances
    <3> HIDE DEF m, n
    <3>3. n - 1 \in 1..m
      BY <1>2, <3>1
    <3>4. \A i \in 1..(n - 1) : i + 1 \in 1..n /\ m - n + (i + 1) = m - (n - 1) + i
      BY <1>2
    <3>5. \A i \in 1..(n - 1) : call'.todo[i] = call.plan.todo[m - (n - 1) + i]
      BY <1>3, <3>2, <3>4
    <3> QED BY <3>2, <3>3, <3>5
  <2>2. CASE Remains
    BY <1>2, <1>3, <2>2 DEF Remains
  <2>3. CASE Fails
    BY <1>5, <2>3 DEF Fails
  <2>4. CASE Stops
    BY <1>5, <2>4 DEF Stops
  <2> QED BY <1>1, <2>1, <2>2, <2>3, <2>4 DEF Proceeds, Moves
<1> QED BY <1>1, <1>4, <1>5 DEF ShapeInv, Running

-----------------------------------------------------------------------------
(* The steps that begin a call, and those of others *)

\* A call begins with a good plan, or is refused.
Begins ==
  /\ call.status = "none" /\ UnchangedWorld /\ GoodPlan(call'.plan)
  /\ DOMAIN call' = Fields /\ call'.status \in {"running", "error"}
  /\ call'.todo = call'.plan.todo /\ call'.tries = 1 /\ call'.polls = 0
  /\ call'.read = pin /\ call'.pins = {pin} /\ call'.seen = {} /\ call'.done = <<>>
  /\ call'.status = "running" =>
       /\ call'.name \in IF call'.plan.by \in {"name", "new"} THEN Name ELSE {""}
       /\ call'.wid \in IF call'.plan.by = "id" THEN Workspace ELSE {""}
  /\ call'.named = IF call'.plan.by = "name" THEN Bearers(call'.name) ELSE {}

LEMMA BeginsIt ==
  ASSUME NEW plan, GoodPlan(plan), BeginCall(plan) \/ RefuseCall(plan)
  PROVE  Begins
<1>1. CASE BeginCall(plan)
  <2>1. PICK name \in (IF plan.by \in {"name", "new"} THEN Name ELSE {""}),
             wid \in (IF plan.by = "id" THEN Workspace ELSE {""}) : call' = Begun(plan, name, wid)
    BY <1>1 DEF BeginCall
  <2> DEFINE c == Begun(plan, name, wid)
  <2>2. /\ DOMAIN c = Fields
        /\ c.status = "running" /\ c.plan = plan /\ c.todo = plan.todo /\ c.name = name
        /\ c.wid = wid /\ c.tries = 1 /\ c.polls = 0 /\ c.read = pin
        /\ c.named = IF plan.by = "name" THEN Bearers(name) ELSE {}
        /\ c.pins = {pin} /\ c.seen = {} /\ c.done = <<>>
    BY DEF Begun, Fields
  <2>3. call' = c
    BY <2>1
  <2> HIDE DEF c
  <2> QED BY <1>1, <2>1, <2>2, <2>3 DEF Begins, BeginCall, UnchangedWorld
<1>2. CASE RefuseCall(plan)
  <2> DEFINE c == Begun(plan, "", "")
  <2>1. /\ DOMAIN c = Fields
        /\ c.plan = plan /\ c.todo = plan.todo /\ c.name = ""
        /\ c.tries = 1 /\ c.polls = 0 /\ c.read = pin
        /\ c.named = IF plan.by = "name" THEN Bearers("") ELSE {}
        /\ c.pins = {pin} /\ c.seen = {} /\ c.done = <<>>
    BY DEF Begun, Fields
  <2>2. call' = [c EXCEPT !.status = "error"]
    BY <1>2 DEF RefuseCall
  <2> HIDE DEF c
  <2>3. SameBut({"status"}, c, call') /\ call'.status = "error"
    BY <2>1, <2>2, FailedFields DEF Failed
  <2>4. /\ DOMAIN call' = Fields
        /\ call'.plan = c.plan /\ call'.todo = c.todo /\ call'.name = c.name
        /\ call'.tries = c.tries /\ call'.polls = c.polls /\ call'.read = c.read
        /\ call'.named = c.named /\ call'.pins = c.pins /\ call'.seen = c.seen /\ call'.done = c.done
    BY <2>3 DEF SameBut, Fields
  <2> QED BY <1>2, <2>1, <2>3, <2>4 DEF Begins, RefuseCall, UnchangedWorld
<1> QED BY <1>1, <1>2

\* One workspace gets a name that nobody has, or goes; or none does.
NamesStep ==
  \/ UNCHANGED wsName
  \/ \E w \in Workspace, n \in Name \cup {Gone} :
       (n \in Name => Bearers(n) = {}) /\ wsName' = [wsName EXCEPT ![w] = n]

\* What others change of names, of managed resources, and of the pin.
Renames ==
  /\ SameBut({"named"}, call, call') /\ UNCHANGED <<managed, pin>> /\ NamesStep
  /\ call'.named = IF call.plan.by = "name"
                   THEN call.named \cup {v \in Workspace : wsName'[v] = call.name} ELSE call.named
Manages ==
  /\ call.plan.by = "id" /\ managed' \in {managed \cup {call.wid}, managed \ {call.wid}}
  /\ UNCHANGED <<wsName, pin, call>>
Publishes ==
  /\ pin' \in DOMAIN InputsOf /\ SameBut({"pins"}, call, call')
  /\ call'.pins = call.pins \cup {pin'} /\ UNCHANGED <<wsName, managed>>

Interferes ==
  /\ Running /\ changes < MaxChanges /\ changes' = changes + 1
  /\ Renames \/ Manages \/ Publishes

LEMMA InterferesIt ==
  ASSUME ShapeInv, OthersStep
  PROVE  Interferes
<1> DOMAIN call = Fields
  BY DEF ShapeInv
<1>1. CASE OthersChangeNames
  <2>1. NamesStep
    <3>1. PICK w \in Workspace :
            \/ /\ Exists(w)
               /\ \E n \in {m \in Name : Bearers(m) = {}} \cup {Gone} : wsName' = [wsName EXCEPT ![w] = n]
            \/ /\ wsName[w] = Unborn
               /\ \E n \in Name : Bearers(n) = {} /\ wsName' = [wsName EXCEPT ![w] = n]
      BY <1>1 DEF OthersChangeNames
    <3>2. PICK n \in Name \cup {Gone} :
            (n = Gone \/ Bearers(n) = {}) /\ wsName' = [wsName EXCEPT ![w] = n]
      BY <3>1
    <3> QED BY <3>2, NamesAssumption DEF NamesStep
  <2>2. /\ SameBut({"named"}, call, call')
        /\ call'.named = IF call.plan.by = "name"
                         THEN call.named \cup {v \in Workspace : wsName'[v] = call.name} ELSE call.named
    <3> DEFINE N == IF call.plan.by = "name"
                    THEN call.named \cup {v \in Workspace : wsName'[v] = call.name} ELSE call.named
    <3>1. call' = [call EXCEPT !.named = N]
      BY <1>1 DEF OthersChangeNames
    <3> HIDE DEF N
    <3>2. SameBut({"named"}, call, call') /\ call'.named = N
      BY <3>1 DEF SameBut, Fields
    <3> QED BY <3>2 DEF N
  <2> QED BY <1>1, <2>1, <2>2 DEF OthersChangeNames, Others, Interferes, Renames
<1>2. CASE OthersManage
  BY <1>2 DEF OthersManage, Others, Interferes, Manages
<1>3. CASE OthersPublish
  <2>1. SameBut({"pins"}, call, call') /\ call'.pins = call.pins \cup {pin'}
    BY <1>3 DEF OthersPublish, SameBut, Fields
  <2> QED BY <1>3, <2>1 DEF OthersPublish, Others, Interferes, Publishes
<1> QED BY <1>1, <1>2, <1>3 DEF OthersStep

\* Others leave a call where it is.
LEMMA CallStays ==
  ASSUME ShapeInv, Interferes
  PROVE  /\ SameBut({"named", "pins"}, call, call') /\ ShapeInv' /\ Running'
         /\ Position' = Position
<1>1. SameBut({"named", "pins"}, call, call')
  BY DEF Interferes, Renames, Manages, Publishes, SameBut, ShapeInv
<1>2. /\ DOMAIN call' = Fields /\ call'.status = call.status /\ call'.plan = call.plan
      /\ call'.todo = call.todo /\ call'.tries = call.tries /\ call'.done = call.done
  BY <1>1 DEF SameBut, Fields
<1>3. ShapeInv'
  BY <1>2 DEF ShapeInv, Running
<1> QED BY <1>1, <1>2, <1>3 DEF Position, Running, Interferes

LEMMA ShapeBegins ==
  ASSUME Begins
  PROVE  ShapeInv'
<1>1. IsPlan(call'.plan)
  BY DEF Begins, GoodPlan
<1>2. 1 \in 1..MaxTries
  BY BoundsAssumption
<1> DEFINE n == Len(call'.todo)
<1>3. n \in Nat /\ n \in 1..n /\ call'.todo = call'.plan.todo
  <2>1. call'.todo = call'.plan.todo
    BY DEF Begins
  <2>2. n \in Nat \ {0}
    BY <1>1, <2>1 DEF IsPlan
  <2> HIDE DEF n
  <2> QED BY <2>1, <2>2
<1>4. \A i \in 1..n : n - n + i = i
  BY <1>3
<1> QED BY <1>1, <1>2, <1>3, <1>4 DEF Begins, IsPlan, ShapeInv, Running

-----------------------------------------------------------------------------
(* What a step of the server does *)

\* A call begins with one of the plans, goes on, or others interfere.
TfeStep ==
  \/ \E plan : GoodPlan(plan) /\ (BeginCall(plan) \/ RefuseCall(plan))
  \/ CallStep \/ UserStep \/ OthersStep

LEMMA StepKinds ==
  ASSUME ShapeInv, TfeStep
  PROVE  ShapeInv' /\ (Begins \/ Kinds \/ Interferes)
<1>1. CASE \E plan : GoodPlan(plan) /\ (BeginCall(plan) \/ RefuseCall(plan))
  BY <1>1, BeginsIt, ShapeBegins
<1>2. CASE CallStep \/ UserStep
  BY <1>2, KindsOfSteps, ShapeKinds
<1>3. CASE OthersStep
  BY <1>3, InterferesIt, CallStays
<1> QED BY <1>1, <1>2, <1>3 DEF TfeStep

-----------------------------------------------------------------------------
(* The workspaces, and the one that a call is about *)

NamesInv ==
  /\ wsName \in [Workspace -> Name \cup {Unborn, Gone}]
  /\ \A v, w \in Workspace : Exists(v) /\ wsName[v] = wsName[w] => v = w

\* What a running call works with: a name if it was given one, and a workspace once
\* it has found one.
TargetInv ==
  /\ call.named \subseteq Workspace /\ call.seen \subseteq Workspace
  /\ Running =>
       /\ call.plan.by \in {"name", "new"} => call.name \in Name
       /\ call.plan.by = "id" \/ (call.plan.by = "name" /\ Position > 1) => call.wid \in Workspace

LEMMA NamesKept ==
  ASSUME NamesInv, NamesStep
  PROVE  NamesInv'
<1>1. CASE UNCHANGED wsName
  BY <1>1 DEF NamesInv, Exists
<1>2. CASE \E w \in Workspace, n \in Name \cup {Gone} :
             (n \in Name => Bearers(n) = {}) /\ wsName' = [wsName EXCEPT ![w] = n]
  <2>1. PICK w \in Workspace, n \in Name \cup {Gone} :
               (n \in Name => Bearers(n) = {}) /\ wsName' = [wsName EXCEPT ![w] = n]
    BY <1>2
  <2>2. wsName' \in [Workspace -> Name \cup {Unborn, Gone}]
    BY <2>1 DEF NamesInv
  <2>3. wsName'[w] = n /\ \A v \in Workspace \ {w} : wsName'[v] = wsName[v]
    BY <2>1 DEF NamesInv
  <2>4. \A v \in Workspace : n \in Name => wsName[v] # n
    BY <2>1 DEF Bearers
  <2>5. ASSUME NEW u \in Workspace, NEW v \in Workspace, wsName'[u] \in Name, wsName'[u] = wsName'[v]
        PROVE  u = v
    <3>1. CASE u # w /\ v # w
      BY <2>3, <2>5, <3>1 DEF NamesInv, Exists
    <3>2. CASE u = w \/ v = w
      BY <2>3, <2>4, <2>5, <3>2
    <3> QED BY <3>1, <3>2
  <2> QED BY <2>2, <2>5 DEF NamesInv, Exists
<1> QED BY <1>1, <1>2 DEF NamesStep

\* Where a call that goes on is found at the first request or after it.
LEMMA TargetKnown ==
  ASSUME ShapeInv, TargetInv, Running, Current.on = "id"
  PROVE  call.wid \in Workspace
BY CurrentRequest DEF GoodRequest, TargetInv

\* A change moves one workspace to a new name or away, and a workspace with managed
\* resources stays.
LEMMA MadeNames ==
  ASSUME ShapeInv, NamesInv, TargetInv, managed \subseteq Workspace, NEW w, Makes(w)
  PROVE  /\ NamesStep
         /\ \A v \in managed : wsName[v] # Gone => wsName'[v] # Gone
<1>1. Running /\ Current.op = "change" /\ GoodRequest(call.plan, Current, Position) /\ w \in Concerned(Current.on)
  BY CurrentRequest DEF Makes, At
<1>2. CASE Current.what = "safe delete"
  <2>1. Current.on = "id" /\ w = call.wid /\ w \in Workspace
    BY <1>1, <1>2, TargetKnown DEF GoodRequest, Concerned
  <2>2. w \notin managed /\ wsName' = [wsName EXCEPT ![w] = Gone]
    BY <1>2 DEF Makes, Effect
  <2>3. \A v \in managed : wsName'[v] = wsName[v]
    BY <2>2 DEF NamesInv
  <2> QED BY <2>1, <2>2, <2>3, NamesAssumption DEF NamesStep
<1>3. CASE Current.what \in {"create", "create from module"}
  <2>1. Current.on = "new" /\ w \in Workspace /\ wsName[w] = Unborn
    BY <1>1, <1>3 DEF GoodRequest, Concerned
  <2>2. Bearers(call.name) = {} /\ wsName' = [wsName EXCEPT ![w] = call.name]
    BY <1>3 DEF Makes, Effect
  <2>3. call.name \in Name
    BY <1>1, <1>3 DEF GoodRequest, TargetInv
  <2>4. wsName'[w] # Gone /\ \A v \in Workspace \ {w} : wsName'[v] = wsName[v]
    BY <2>1, <2>2, <2>3, NamesAssumption DEF NamesInv
  <2> QED BY <2>1, <2>2, <2>3, <2>4 DEF NamesStep
<1>4. CASE Current.what = "rename"
  <2>1. w \in Workspace
    BY <1>1, <1>4 DEF GoodRequest, Concerned, Bearers
  <2>2. PICK n \in Name : Bearers(n) = {} /\ wsName' = [wsName EXCEPT ![w] = n]
    BY <1>4 DEF Makes, Effect
  <2>3. wsName'[w] # Gone /\ \A v \in Workspace \ {w} : wsName'[v] = wsName[v]
    BY <2>1, <2>2, NamesAssumption DEF NamesInv
  <2> QED BY <2>1, <2>2, <2>3 DEF NamesStep
<1>5. CASE Current.what \notin {"safe delete", "delete", "create", "create from module", "rename"}
  BY <1>5 DEF Makes, Effect, NamesStep
<1> QED BY <1>1, <1>2, <1>3, <1>4, <1>5 DEF GoodRequest

WorldInv ==
  /\ NamesInv
  /\ managed \subseteq Workspace /\ pin \in DOMAIN InputsOf /\ changes \in 0..MaxChanges

LEMMA KindsNames ==
  ASSUME ShapeInv, WorldInv, TargetInv, Kinds
  PROVE  /\ NamesStep
         /\ \A v \in managed : wsName[v] # Gone => wsName'[v] # Gone
<1>1. CASE UnchangedWorld
  BY <1>1 DEF UnchangedWorld, NamesStep
<1>2. CASE \E w : Makes(w)
  BY <1>2, MadeNames DEF WorldInv
<1> QED BY <1>1, <1>2 DEF Kinds, Finds, Reads, ReadsPart, Polls, Loses, Accepts, Declines, Changes, LosesDone

LEMMA WorldStep ==
  ASSUME ShapeInv, WorldInv, TargetInv, Begins \/ Kinds \/ Interferes
  PROVE  WorldInv'
<1>1. NamesInv'
  <2>1. NamesStep
    BY KindsNames DEF Begins, Interferes, Renames, Manages, Publishes, UnchangedWorld, NamesStep
  <2> QED BY <2>1, NamesKept DEF WorldInv
<1>2. CASE Begins
  BY <1>1, <1>2 DEF Begins, UnchangedWorld, WorldInv
<1>3. CASE Kinds
  BY <1>1, <1>3, Common DEF WorldInv
<1>4. CASE Interferes
  <2>1. changes' \in 0..MaxChanges
    BY <1>4, BoundsAssumption DEF Interferes, WorldInv
  <2>2. managed' \subseteq Workspace /\ pin' \in DOMAIN InputsOf
    <3>1. CASE Manages
      BY <1>4, <3>1 DEF Interferes, Manages, TargetInv, WorldInv
    <3>2. CASE Renames \/ Publishes
      BY <3>2 DEF Renames, Publishes, WorldInv
    <3> QED BY <1>4, <3>1, <3>2 DEF Interferes
  <2> QED BY <1>1, <2>1, <2>2 DEF WorldInv
<1> QED BY <1>2, <1>3, <1>4

\* What the steps of a call do to what it says of its workspace.
LEMMA TargetFields ==
  ASSUME ShapeInv, Kinds
  PROVE  /\ call'.wid = call.wid \/ Finds
         /\ call'.seen = call.seen \/ ReadsPart
         /\ \/ call'.named = call.named
            \/ call'.named = call.named \cup {v \in Workspace : wsName'[v] = call.name}
<1>1. CASE Finds
  BY <1>1 DEF Finds, SameBut, Fields, Progress
<1>2. CASE Reads
  BY <1>2 DEF Reads, SameBut, Fields, Progress
<1>3. CASE ReadsPart
  BY <1>3 DEF ReadsPart, SameBut, Fields, Progress
<1>4. CASE Polls
  BY <1>4 DEF Polls, SameBut, Fields, Progress
<1>5. CASE Loses
  BY <1>5 DEF Loses, SameBut, Fields, Progress
<1>6. CASE Accepts
  BY <1>6 DEF Accepts, SameBut, Fields, Progress
<1>7. CASE Declines
  BY <1>7 DEF Declines, SameBut, Fields, Progress
<1>8. CASE \E w : Changes(w)
  BY <1>8 DEF Changes, Makes, SameBut, Fields, Progress
<1>9. CASE \E w : LosesDone(w)
  BY <1>9 DEF LosesDone, Makes, SameBut, Fields, Progress
<1> QED BY <1>1, <1>2, <1>3, <1>4, <1>5, <1>6, <1>7, <1>8, <1>9 DEF Kinds

\* A call by name only gets past its first request by finding the workspace.
LEMMA LeavesFirst ==
  ASSUME ShapeInv, Kinds, call.plan.by = "name", Position = 1, Running', Position' # 1
  PROVE  Finds
<1>1. /\ Running /\ Proceeds /\ call'.plan = call.plan /\ GoodPlan(call.plan)
      /\ Current = call.plan.todo[1] /\ GoodRequest(call.plan, Current, 1)
  BY Common, CurrentRequest
<1>2. ~Remains /\ ~Fails
  BY <1>1, NextPosition
<1>3. Advances /\ Len(call.todo) # 1
  BY <1>1, <1>2, NextPosition DEF Proceeds, Moves, Stops, Running
<1>4. Len(call.plan.todo) # 1
  <2> DEFINE m == Len(call.plan.todo)
             n == Len(call.todo)
  <2>1. m \in Nat /\ n \in 1..m /\ m - n + 1 = 1
    BY <1>1 DEF ShapeInv, GoodPlan, IsPlan, Position
  <2>2. n # 1
    BY <1>3
  <2> HIDE DEF m, n
  <2>3. m # 1
    BY <2>1, <2>2
  <2> QED BY <2>3 DEF m
<1>5. Current.op = "find" /\ Current.must = TRUE
  BY <1>1, <1>4 DEF GoodPlan, GoodRequest
<1> QED BY <1>2, <1>3, <1>5 DEF Kinds, Reads, ReadsPart, Polls, Loses, Goes, Accepts, Declines,
          Changes, LosesDone, Makes, At

LEMMA TargetStep ==
  ASSUME ShapeInv, WorldInv, TargetInv, Begins \/ Kinds \/ Interferes
  PROVE  TargetInv'
<1>1. CASE Begins
  <2>1. /\ call'.named \subseteq Workspace /\ call'.seen \subseteq Workspace
    BY <1>1 DEF Begins, Bearers
  <2>2. Position' = 1
    <3>1. Len(call'.plan.todo) \in Nat /\ call'.todo = call'.plan.todo
      BY <1>1 DEF Begins, GoodPlan, IsPlan
    <3> DEFINE m == Len(call'.plan.todo)
    <3>2. Position' = m - m + 1 /\ m \in Nat
      BY <3>1 DEF Position
    <3> HIDE DEF m
    <3> QED BY <3>2
  <2>3. call'.status = "running" =>
          /\ call'.plan.by \in {"name", "new"} => call'.name \in Name
          /\ call'.plan.by = "id" => call'.wid \in Workspace
    BY <1>1 DEF Begins
  <2> QED BY <2>1, <2>2, <2>3 DEF TargetInv, Running
<1>2. CASE Kinds
  <2>1. /\ Running /\ Proceeds /\ call'.plan = call.plan /\ call'.name = call.name
    BY <1>2, Common
  <2>2. call'.named \subseteq Workspace
    BY <1>2, <2>1, TargetFields DEF TargetInv, Running
  <2>3. call'.seen \subseteq Workspace
    <3>1. CASE ReadsPart
      BY <3>1, <2>1, TargetKnown DEF ReadsPart, TargetInv, Running
    <3>2. CASE call'.seen = call.seen
      BY <2>1, <3>2 DEF TargetInv, Running
    <3> QED BY <1>2, <3>1, <3>2, TargetFields
  <2>4. ASSUME call'.status = "running",
               call.plan.by = "id" \/ (call.plan.by = "name" /\ Position' > 1)
        PROVE  call'.wid \in Workspace
    <3>1. CASE Finds
      BY <3>1 DEF Finds, Bearers
    <3>2. CASE call'.wid = call.wid /\ (call.plan.by = "id" \/ (call.plan.by = "name" /\ Position > 1))
      BY <2>1, <3>2 DEF TargetInv
    <3>3. CASE call.plan.by = "name" /\ ~(Position > 1)
      <4>1. Position = 1 /\ Position' # 1
        BY <2>1, <2>4, <3>3, CurrentRequest DEF GoodPlan, IsPlan
      <4>2. Finds
        BY <1>2, <2>1, <2>4, <3>3, <4>1, LeavesFirst DEF Running
      <4> QED BY <3>1, <4>2
    <3> QED BY <1>2, <2>4, <3>1, <3>2, <3>3, TargetFields
  <2> QED BY <2>1, <2>2, <2>3, <2>4 DEF TargetInv, Running
<1>3. CASE Interferes
  <2>1. SameBut({"named", "pins"}, call, call') /\ Position' = Position /\ Running' /\ Running
    BY <1>3, CallStays DEF Interferes
  <2>2. /\ call'.status = call.status /\ call'.plan = call.plan /\ call'.name = call.name
        /\ call'.wid = call.wid /\ call'.seen = call.seen
    BY <2>1 DEF SameBut, Fields
  <2>3. call'.named \subseteq Workspace
    BY <1>3, <2>1 DEF Interferes, Renames, Manages, Publishes, SameBut, Fields, TargetInv, Running
  <2> QED BY <2>1, <2>2, <2>3 DEF TargetInv, Running
<1> QED BY <1>1, <1>2, <1>3

-----------------------------------------------------------------------------
(* The attempts to see an export finished, and the pages of policy sets *)

PollsInv ==
  /\ call.polls \in Nat
  /\ call.plan.tool = "list_workspace_policy_sets" => call.polls < MaxPages
  /\ call.plan.tool = "get_sentinel_mock" =>
       call.polls <= MaxPolls /\ (Running => call.polls < MaxPolls)
  /\ call.plan.tool \notin {"list_workspace_policy_sets", "get_sentinel_mock"} => call.polls = 0

LEMMA PollsStep ==
  ASSUME ShapeInv, PollsInv, Begins \/ Kinds \/ Interferes
  PROVE  PollsInv'
<1>1. CASE Begins
  <2>1. call'.polls = 0
    BY <1>1 DEF Begins
  <2>2. MaxPages \in Nat /\ MaxPolls \in Nat /\ 0 < MaxPages /\ 0 < MaxPolls
    BY BoundsAssumption
  <2> QED BY <2>1, <2>2 DEF PollsInv
<1>2. CASE Polls
  <2>1. /\ call'.plan = call.plan /\ Running /\ GoodRequest(call.plan, Current, Position)
    BY <1>2, Common, CurrentRequest DEF Kinds
  <2>2. CASE At("poll")
    <3>1. call.plan.tool = "get_sentinel_mock"
      BY <2>1, <2>2 DEF GoodRequest, At
    <3>2. call.polls \in Nat /\ call.polls < MaxPolls /\ MaxPolls \in Nat
      BY <2>1, <3>1, BoundsAssumption DEF PollsInv
    <3>3. CASE call'.polls = call.polls
      BY <2>1, <3>1, <3>2, <3>3 DEF PollsInv
    <3>4. CASE call'.polls = call.polls + 1 /\ (Fails \/ call.polls + 1 # MaxPolls)
      <4>1. call'.polls \in Nat /\ call'.polls <= MaxPolls
        BY <3>2, <3>4
      <4>2. Running' => call'.polls < MaxPolls
        BY <3>2, <3>4 DEF Fails, Running
      <4> QED BY <2>1, <3>1, <4>1, <4>2 DEF PollsInv
    <3>5. Current.op = "poll" /\ Current.op # "pages"
      BY <2>2 DEF At
    <3>6. \/ call'.polls = call.polls
          \/ call'.polls = call.polls + 1 /\ (Fails \/ call.polls + 1 # MaxPolls)
      BY <1>2, <3>5 DEF Polls, At
    <3> QED BY <3>3, <3>4, <3>6
  <2>3. CASE At("pages")
    <3>1. call.plan.tool = "list_workspace_policy_sets"
      BY <2>1, <2>3 DEF GoodRequest, At
    <3>2. call.polls \in Nat /\ call.polls < MaxPages /\ MaxPages \in Nat
      BY <3>1, BoundsAssumption DEF PollsInv
    <3>3. Current.op = "pages" /\ Current.op # "poll"
      BY <2>3 DEF At
    <3>4. call'.polls = call.polls \/ (call'.polls = call.polls + 1 /\ call.polls + 1 < MaxPages)
      BY <1>2, <3>3 DEF Polls, At
    <3>5. call'.polls \in Nat /\ call'.polls < MaxPages
      BY <3>2, <3>4
    <3> QED BY <2>1, <3>1, <3>5 DEF PollsInv
  <2> QED BY <1>2, <2>2, <2>3 DEF Polls
<1>3. CASE Kinds /\ ~Polls
  <2>1. call'.polls = call.polls /\ call'.plan = call.plan /\ Running
    <3>1. CASE Finds \/ Reads \/ ReadsPart
      BY <3>1 DEF Finds, Reads, ReadsPart, At, SameBut, Fields, Progress
    <3>2. CASE Loses \/ Accepts \/ Declines
      BY <3>2 DEF Loses, Accepts, Declines, At, SameBut, Fields, Progress
    <3>3. CASE \E w : Changes(w) \/ LosesDone(w)
      BY <3>3 DEF Changes, LosesDone, Makes, At, SameBut, Fields, Progress
    <3> QED BY <1>3, <3>1, <3>2, <3>3 DEF Kinds
  <2> QED BY <2>1 DEF PollsInv
<1>4. CASE Interferes
  <2>1. call'.polls = call.polls /\ call'.plan = call.plan /\ Running
    BY <1>4, CallStays DEF SameBut, Fields, Interferes
  <2> QED BY <2>1 DEF PollsInv
<1> QED BY <1>1, <1>2, <1>3, <1>4

LEMMA NoCallFields ==
  /\ DOMAIN NoCall = Fields /\ NoCall.status = "none" /\ NoCall.plan = Plan("", "none", <<>>)
  /\ NoCall.tries = 1 /\ NoCall.polls = 0 /\ NoCall.named = {} /\ NoCall.seen = {}
  /\ NoCall.done = <<>>
  BY DEF NoCall, Begun, Fields, Plan

LEMMA TfeTyped ==
  ASSUME ShapeInv, WorldInv, TargetInv, PollsInv
  PROVE  TfeTypeOK
<1>1. call.polls \in 0..(IF call.plan.tool = "list_workspace_policy_sets" THEN MaxPages ELSE MaxPolls)
  BY BoundsAssumption DEF PollsInv
<1>2. Running => call.todo # <<>>
  BY CurrentRequest DEF ShapeInv, GoodPlan, IsPlan
<1> QED BY <1>1, <1>2 DEF TfeTypeOK, ShapeInv, WorldInv, NamesInv, TargetInv

-----------------------------------------------------------------------------
(* The changes that a call makes *)

Done == Len(call.done) \in Nat /\ DOMAIN call.done = 1..Len(call.done)

\* A change is among the requests still to make.
Pending ==
  Running /\ \E i \in Position..Len(call.plan.todo) : call.plan.todo[i].op = "change"

\* What was intended is done or pending; without a lost answer nothing is done
\* twice, and only the export of a Sentinel mock is followed by other requests.  A
\* call that failed with nothing left to ask for has made its change.
ChangesInv ==
  /\ Done
  /\ call.status \in {"running", "ok"} => ((Len(call.done) > 0 \/ Pending) <=> Intended)
  /\ ~call.lost /\ call.status # "none" =>
       /\ Len(call.done) <= 1
       /\ Pending => Len(call.done) = 0
       /\ call.status # "ok" =>
            \/ Len(call.done) = 0 \/ call.plan.tool = "get_sentinel_mock"
            \/ call.status = "error" /\ FailedToDescribe
  /\ call.status = "error" /\ Len(call.todo) = 0 => Len(call.done) > 0

LEMMA Appended ==
  ASSUME NEW s, NEW e, Len(s) \in Nat, DOMAIN s = 1..Len(s)
  PROVE  /\ Len(Append(s, e)) = Len(s) + 1 /\ DOMAIN Append(s, e) = 1..(Len(s) + 1)
         /\ \A i \in 1..(Len(s) + 1) : Append(s, e)[i] = IF i = Len(s) + 1 THEN e ELSE s[i]
  OBVIOUS

\* A change of which the handler learns.
MakesKnown ==
  call'.lost = call.lost /\ (Advances \/ (Stops /\ call.plan.tool \in Describing))

\* What the steps of a call do to its changes.
LEMMA DoneFields ==
  ASSUME ShapeInv, Kinds
  PROVE  \/ \E w : Makes(w) /\ (MakesKnown \/ (Goes /\ call'.lost))
         \/ call'.done = call.done /\ Goes /\ (call.lost => call'.lost)
         \/ call'.done = call.done /\ call'.lost = call.lost /\ Moves /\ Current.op # "change"
<1>1. CASE Finds \/ Reads \/ ReadsPart
  BY <1>1 DEF Finds, Reads, ReadsPart, Moves, At, SameBut, Fields, Progress
<1>2. CASE Polls
  BY <1>2 DEF Polls, Moves, At, SameBut, Fields, Progress
<1>3. CASE Loses
  BY <1>3 DEF Loses, SameBut, Fields, Progress
<1>4. CASE Accepts
  BY <1>4 DEF Accepts, Moves, At, SameBut, Fields, Progress
<1>5. CASE Declines
  BY <1>5 DEF Declines, Moves, At, SameBut, Fields, Progress
<1>6. CASE \E w : Changes(w)
  BY <1>6 DEF Changes, MakesKnown, SameBut, Fields, Progress
<1>7. CASE \E w : LosesDone(w)
  BY <1>7 DEF LosesDone
<1> QED BY <1>1, <1>2, <1>3, <1>4, <1>5, <1>6, <1>7 DEF Kinds

\* The plan of a running call up to and after its current request.
LEMMA PendingStep ==
  ASSUME ShapeInv, Running, Proceeds, call'.plan = call.plan, call'.status # "error"
  PROVE  /\ Pending <=> \E i \in Position..Len(call.plan.todo) : call.plan.todo[i].op = "change"
         /\ Current.op = "change" => Pending
         /\ Remains => (Pending' <=> Pending)
         /\ Advances /\ Current.op = "change" => ~Pending'
         /\ Advances /\ Current.op # "change" => (Pending' <=> Pending)
<1> DEFINE m == Len(call.plan.todo)
           k == Position
           r(i) == call.plan.todo[i].op = "change"
<1>1. /\ m \in Nat /\ k \in 1..m /\ (Current.op = "change" <=> r(k))
      /\ \A i, j \in 1..m : r(i) /\ r(j) => i = j
  BY CurrentRequest DEF GoodPlan, IsPlan
<1>2. Pending <=> \E i \in k..m : r(i)
  BY DEF Pending
<1>3. Pending' <=> (call'.status = "running" /\ \E i \in Position'..m : r(i))
  BY DEF Pending, Running
<1>4. Remains => Position' = k /\ call'.status = "running"
  BY NextPosition DEF Remains
<1>5. Advances => IF Len(call.todo) = 1 THEN call'.status = "ok" /\ k = m
                  ELSE call'.status = "running" /\ Position' = k + 1
  BY NextPosition
<1> HIDE DEF m, k, r
<1>6. \A i : i \in k..m <=> i = k \/ i \in (k + 1)..m
  BY <1>1
<1>7. k = m => (k + 1)..m = {}
  BY <1>1
<1>8. ASSUME Advances PROVE Pending' <=> \E i \in (k + 1)..m : r(i)
  <2>1. CASE Len(call.todo) = 1
    BY <1>3, <1>5, <1>7, <1>8, <2>1
  <2>2. CASE Len(call.todo) # 1
    BY <1>3, <1>5, <1>8, <2>2
  <2> QED BY <2>1, <2>2
<1>9. r(k) => ~\E i \in (k + 1)..m : r(i)
  BY <1>1
<1>10. ASSUME Advances, Current.op = "change" PROVE ~Pending'
  BY <1>1, <1>8, <1>9, <1>10
<1>11. ASSUME Advances, Current.op # "change" PROVE Pending' <=> Pending
  BY <1>1, <1>2, <1>6, <1>8, <1>11
<1>12. Current.op = "change" => Pending
  BY <1>1, <1>2, <1>6
<1>13. Remains => (Pending' <=> Pending)
  BY <1>2, <1>3, <1>4
<1>14. Pending <=> \E i \in Position..Len(call.plan.todo) : call.plan.todo[i].op = "change"
  BY DEF Pending
<1> QED BY <1>10, <1>11, <1>12, <1>13, <1>14

LEMMA ChangesBegin ==
  ASSUME Begins
  PROVE  ChangesInv'
<1>1. call'.done = <<>> /\ call'.todo = call'.plan.todo /\ GoodPlan(call'.plan) /\ call'.status \in {"running", "error"}
  BY DEF Begins
<1>2. Len(call'.done) = 0 /\ Done'
  BY <1>1 DEF Done
<1>3. Position' = 1 /\ DOMAIN call'.plan.todo = 1..Len(call'.plan.todo)
  <2>1. Len(call'.plan.todo) \in Nat /\ DOMAIN call'.plan.todo = 1..Len(call'.plan.todo)
    BY <1>1 DEF GoodPlan, IsPlan
  <2> DEFINE m == Len(call'.plan.todo)
  <2>2. Position' = m - m + 1 /\ m \in Nat
    BY <1>1, <2>1 DEF Position
  <2> HIDE DEF m
  <2> QED BY <2>1, <2>2
<1>4. Running' => (Pending' <=> Intended')
  BY <1>3 DEF Pending, Intended
<1>5. Len(call'.todo) # 0
  BY <1>1 DEF GoodPlan, IsPlan
<1> QED BY <1>1, <1>2, <1>4, <1>5 DEF ChangesInv, Running

LEMMA ChangesStep ==
  ASSUME ShapeInv, ChangesInv, Begins \/ Kinds \/ Interferes
  PROVE  ChangesInv'
<1>1. CASE Begins
  BY <1>1, ChangesBegin
<1>2. CASE Kinds
  <2>1. /\ Running /\ Proceeds /\ call'.plan = call.plan /\ Intended' = Intended
        /\ GoodRequest(call.plan, Current, Position)
    BY <1>2, Common, CurrentRequest DEF Intended
  <2>2. call'.status \in {"running", "ok", "error"}
    BY <2>1 DEF Proceeds, Moves, Advances, Remains, Fails, Stops
  <2>3. CASE \E w : Makes(w) /\ (MakesKnown \/ (Goes /\ call'.lost))
    <3>1. /\ Current.op = "change" /\ Current.must = TRUE
          /\ MakesKnown \/ call'.lost
      BY <2>1, <2>3 DEF Makes, At, GoodRequest
    <3>2. Done' /\ Len(call'.done) = Len(call.done) + 1 /\ Len(call.done) \in Nat
      BY <2>3, Appended DEF Makes, Done, ChangesInv
    <3>3. Intended
      BY <2>1, <3>1, CurrentRequest DEF Intended, GoodPlan, IsPlan
    <3>4. CASE call'.lost
      BY <2>1, <3>2, <3>3, <3>4 DEF ChangesInv
    <3>5. ASSUME ~call'.lost, MakesKnown
          PROVE  ~call.lost /\ Len(call.done) = 0 /\ Len(call'.done) = 1
      <4>1. ~call.lost
        BY <3>5, Zenon DEF MakesKnown
      <4>2. Pending
        <5>1. Position \in 1..Len(call.plan.todo) /\ Current = call.plan.todo[Position]
          BY <2>1, CurrentRequest
        <5>2. Position \in Position..Len(call.plan.todo)
          BY <5>1
        <5> QED BY <2>1, <3>1, <5>1, <5>2 DEF Pending
      <4> QED BY <2>1, <3>2, <4>1, <4>2 DEF ChangesInv, Running
    <3>6. CASE ~call'.lost /\ Advances /\ MakesKnown
      <4>1. call'.status # "error" /\ ~Pending'
        BY <2>1, <3>1, <3>6, PendingStep DEF Advances
      <4>2. call'.status # "ok" => call'.plan.tool = "get_sentinel_mock"
        <5>1. call'.status # "ok" => Position # Len(call.plan.todo)
          BY <2>1, <3>6, NextPosition
        <5> QED BY <2>1, <3>1, <5>1 DEF GoodRequest
      <4> QED BY <2>1, <3>2, <3>3, <3>5, <3>6, <4>1, <4>2 DEF ChangesInv
    <3>7. CASE ~call'.lost /\ Stops /\ call.plan.tool \in Describing /\ MakesKnown
      <4>1. call'.status = "error" /\ ~Pending'
        BY <3>7 DEF Stops, Pending, Running
      <4>2. Len(call'.todo) = 0
        <5>1. Position = Len(call.plan.todo)
          BY <2>1, <3>1, <3>7 DEF GoodRequest, Describing
        <5> DEFINE m == Len(call.plan.todo)
                   n == Len(call.todo)
        <5>2. m \in Nat /\ n \in 1..m /\ DOMAIN call.todo = 1..n
          BY <2>1, CurrentRequest DEF ShapeInv, GoodPlan, IsPlan
        <5>3. m - n + 1 = m
          BY <5>1 DEF Position
        <5>4. call'.todo = Tail(call.todo)
          BY <3>7 DEF Stops
        <5>5. n = 1
          <6> HIDE DEF m, n
          <6> QED BY <5>2, <5>3
        <5> QED BY <5>2, <5>4, <5>5, Rest
      <4>3. FailedToDescribe'
        BY <2>1, <3>7, <4>2 DEF FailedToDescribe
      <4> QED BY <2>1, <3>2, <3>3, <3>5, <3>7, <4>1, <4>3 DEF ChangesInv
    <3> QED BY <3>1, <3>4, <3>6, <3>7 DEF MakesKnown
  <2>4. ASSUME call'.done = call.done, call.lost => call'.lost,
               (call'.status = "error" /\ call'.todo = call.todo)
                 \/ (call'.status # "error" /\ (Pending' <=> Pending))
        PROVE  ChangesInv'
    <3>1. Done' /\ Len(call'.done) = Len(call.done)
      BY <2>4 DEF ChangesInv, Done
    <3>2. call'.status = "error" => ~Pending'
      BY DEF Pending, Running
    <3>3. call'.status \in {"running", "ok"} => ((Len(call'.done) > 0 \/ Pending') <=> Intended')
      BY <2>1, <2>4, <3>1 DEF ChangesInv, Running
    <3>4. ~call'.lost => ~call.lost
      BY <2>4, Zenon
    <3>5. call'.status = "error" => Len(call'.todo) # 0
      BY <2>1, <2>4 DEF ShapeInv
    <3>6. ~call.lost => Len(call.done) = 0 \/ call.plan.tool = "get_sentinel_mock"
      BY <2>1 DEF ChangesInv, Running
    <3> QED BY <2>1, <2>2, <2>4, <3>1, <3>2, <3>3, <3>4, <3>5, <3>6 DEF ChangesInv, Running
  <2>5. CASE call'.done = call.done /\ Goes /\ (call.lost => call'.lost)
    <3>1. CASE Fails
      BY <2>4, <2>5, <3>1 DEF Fails
    <3>2. CASE ~Fails
      <4>1. call'.status # "error" /\ (Pending' <=> Pending)
        BY <2>1, <2>5, <3>2, PendingStep DEF Goes, Remains, Advances, GoodRequest
      <4> QED BY <2>4, <2>5, <4>1
    <3> QED BY <3>1, <3>2
  <2>6. CASE /\ call'.done = call.done /\ call'.lost = call.lost /\ Moves
             /\ Current.op # "change"
    <3>1. CASE Fails
      BY <2>4, <2>6, <3>1 DEF Fails
    <3>2. CASE ~Fails
      <4>1. call'.status # "error" /\ (Pending' <=> Pending)
        BY <2>1, <2>6, <3>2, PendingStep DEF Moves, Remains, Advances
      <4> QED BY <2>4, <2>6, <4>1
    <3> QED BY <3>1, <3>2
  <2> QED BY <1>2, <2>3, <2>5, <2>6, DoneFields
<1>3. CASE Interferes
  <2>1. SameBut({"named", "pins"}, call, call') /\ Position' = Position /\ Running' /\ Running
    BY <1>3, CallStays DEF Interferes
  <2>2. /\ call'.status = call.status /\ call'.plan = call.plan /\ call'.done = call.done
        /\ call'.lost = call.lost /\ call'.todo = call.todo
    BY <2>1 DEF SameBut, Fields
  <2>3. Done' = Done /\ Pending' = Pending /\ Intended' = Intended
    BY <2>1, <2>2 DEF Done, Pending, Intended
  <2>4. FailedToDescribe' = FailedToDescribe
    BY <2>2 DEF FailedToDescribe
  <2> QED BY <2>2, <2>3, <2>4 DEF ChangesInv
<1> QED BY <1>1, <1>2, <1>3

LEMMA ChangesAnswered ==
  ASSUME ChangesInv
  PROVE  ChangesMatchAnswers
<1>1. Len(call.done) \in Nat /\ (call.done = <<>> <=> Len(call.done) = 0)
  BY DEF ChangesInv, Done
<1>2. Ended => ~Pending /\ call.status \in {"ok", "error"}
  BY DEF Ended, Pending, Running
<1>3. Ended /\ call.status = "ok" => ((call.done # <<>>) <=> Intended)
  BY <1>1, <1>2 DEF ChangesInv
<1>4. ((call.done # <<>>) \in BOOLEAN) /\ Intended \in BOOLEAN
  BY DEF Intended
<1>5. Ended /\ ~call.lost => Len(call.done) <= 1
  BY <1>2 DEF ChangesInv
<1>6. ASSUME Ended, call.status = "error", ~call.lost
      PROVE  IF FailedToDescribe THEN Len(call.done) = 1
             ELSE call.done = <<>> \/ call.plan.tool = "get_sentinel_mock"
  <2>1. CASE FailedToDescribe
    <3>1. Len(call.done) > 0
      BY <1>6, <2>1 DEF ChangesInv, FailedToDescribe
    <3>2. Ended /\ ~call.lost
      BY <1>6, Zenon
    <3>3. Len(call.done) <= 1
      BY <1>5, <3>2, Zenon
    <3>4. Len(call.done) = 1
      <4> DEFINE n == Len(call.done)
      <4>1. n \in Nat /\ n > 0 /\ n <= 1
        BY <1>1, <3>1, <3>3
      <4> HIDE DEF n
      <4>2. n = 1
        BY <4>1
      <4> QED BY <4>2 DEF n
    <3> QED BY <2>1, <3>4, Zenon
  <2>2. CASE ~FailedToDescribe
    BY <1>1, <1>6, <2>2 DEF ChangesInv
  <2> QED BY <2>1, <2>2
<1> QED BY <1>3, <1>4, <1>5, <1>6 DEF ChangesMatchAnswers

-----------------------------------------------------------------------------
(* The workspace that a call by name keeps to *)

Reached == call.seen \cup {call.done[i].on : i \in DOMAIN call.done}

\* A call that finds its workspace keeps to the one it found, which had the name;
\* update_workspace makes one request, which carries the name itself.
NamedInv ==
  call.status # "none" /\ call.plan.by = "name" =>
    /\ Running => Bearers(call.name) \subseteq call.named
    /\ call.plan.todo[1].op = "find" =>
         /\ Reached \subseteq {call.wid}
         /\ Running /\ Position = 1 => Reached = {}
         /\ (Running /\ Position > 1) \/ Reached # {} => call.wid \in call.named
    /\ call.plan.todo[1].op # "find" => call.seen = {} /\ Reached \subseteq call.named

\* What the steps of a call reach: nothing new, the workspace that was found, or
\* one that a change concerns.
LEMMA ReachedStep ==
  ASSUME ShapeInv, Done, Kinds
  PROVE  \/ Reached' = Reached /\ call'.seen = call.seen
         \/ ReadsPart /\ Reached' = Reached \cup {call.wid}
         \/ \E w : Makes(w) /\ Reached' = Reached \cup {w} /\ call'.seen = call.seen
<1>1. CASE \E w : Makes(w)
  <2>1. PICK w : Makes(w)
    BY <1>1
  <2> DEFINE e == [what |-> Current.what, on |-> w]
             n == Len(call.done)
  <2>2. call'.done = Append(call.done, e)
    BY <2>1 DEF Makes
  <2>3. e.on = w
    OBVIOUS
  <2>4. n \in Nat /\ DOMAIN call.done = 1..n
    BY DEF Done
  <2> HIDE DEF e
  <2>5. /\ DOMAIN call'.done = 1..(n + 1) /\ call'.done[n + 1] = e
        /\ \A i \in 1..n : call'.done[i] = call.done[i]
    BY <2>2, <2>4, Appended
  <2> HIDE DEF n
  <2>6. \A i : i \in 1..(n + 1) <=> i \in 1..n \/ i = n + 1
    BY <2>4
  <2>7. {call'.done[i].on : i \in DOMAIN call'.done} = {call.done[i].on : i \in DOMAIN call.done} \cup {w}
    BY <2>3, <2>4, <2>5, <2>6
  <2>8. call'.seen = call.seen
    BY <2>1, TargetFields DEF ReadsPart, Makes, At
  <2> QED BY <2>1, <2>7, <2>8 DEF Reached
<1>2. CASE call'.done = call.done
  BY <1>2, TargetFields DEF Reached, ReadsPart
<1> QED BY <1>1, <1>2, DoneFields

\* The names of the workspaces are kept up with.
LEMMA BearersKept ==
  ASSUME ShapeInv, call.plan.by = "name", Bearers(call.name) \subseteq call.named, Kinds \/ Interferes
  PROVE  Bearers(call.name)' \subseteq call'.named /\ call.named \subseteq call'.named
<1>1. call'.name = call.name
  <2>1. CASE Kinds
    BY <2>1, Common
  <2>2. CASE Interferes
    BY <2>2, CallStays DEF SameBut, Fields
  <2> QED BY <2>1, <2>2
<1>2. CASE call'.named = call.named \cup {v \in Workspace : wsName'[v] = call.name}
  BY <1>1, <1>2 DEF Bearers
<1>3. CASE UNCHANGED wsName /\ call'.named = call.named
  BY <1>1, <1>3 DEF Bearers
<1>4. CASE Kinds
  <2>1. CASE \E w : Makes(w)
    BY <1>2, <2>1 DEF Makes
  <2>2. CASE UnchangedWorld
    BY <1>2, <1>3, <1>4, <2>2, TargetFields DEF UnchangedWorld
  <2> QED BY <1>4, <2>1, <2>2 DEF Kinds, Finds, Reads, ReadsPart, Polls, Loses, Accepts, Declines, Changes, LosesDone
<1>5. CASE Interferes
  <2>1. CASE Renames
    BY <1>2, <2>1 DEF Renames
  <2>2. CASE Manages \/ Publishes
    BY <1>3, <2>2 DEF Manages, Publishes, SameBut, Fields
  <2> QED BY <1>5, <2>1, <2>2 DEF Interferes
<1> QED BY <1>4, <1>5

LEMMA BeginsAt ==
  ASSUME Begins
  PROVE  Position' = 1
<1>1. Len(call'.plan.todo) \in Nat /\ call'.todo = call'.plan.todo
  BY DEF Begins, GoodPlan, IsPlan
<1> DEFINE m == Len(call'.plan.todo)
<1>2. Position' = m - m + 1 /\ m \in Nat
  BY <1>1 DEF Position
<1> HIDE DEF m
<1> QED BY <1>2

LEMMA NamedKinds ==
  ASSUME ShapeInv, Done, NamedInv, Kinds, call.plan.by = "name"
  PROVE  NamedInv'
<1>1. /\ Running /\ Proceeds /\ call'.plan = call.plan /\ call'.name = call.name
      /\ GoodPlan(call.plan) /\ Position \in 1..Len(call.plan.todo) /\ Len(call.plan.todo) \in Nat
      /\ Current = call.plan.todo[Position] /\ GoodRequest(call.plan, Current, Position)
  BY Common, CurrentRequest DEF GoodPlan, IsPlan
<1>2. Bearers(call.name) \subseteq call.named
  BY <1>1 DEF NamedInv, Running
<1>3. Bearers(call.name)' \subseteq call'.named /\ call.named \subseteq call'.named
  BY <1>2, BearersKept
<1>4. CASE call.plan.todo[1].op = "find"
  <2>1. /\ Reached \subseteq {call.wid} /\ (Position = 1 => Reached = {})
        /\ Position > 1 \/ Reached # {} => call.wid \in call.named
    BY <1>1, <1>4 DEF NamedInv, Running
  <2>2. SUFFICES /\ Reached' \subseteq {call'.wid}
                 /\ Running' /\ Position' = 1 => Reached' = {}
                 /\ (Running' /\ Position' > 1) \/ Reached' # {} => call'.wid \in call'.named
    BY <1>1, <1>3, <1>4 DEF NamedInv
  <2>3. CASE Finds
    <3>1. Current.op = "find" /\ Position = 1 /\ Reached' = Reached
      BY <1>1, <2>3, ReachedStep DEF Finds, At, GoodRequest, Makes, ReadsPart
    <3>2. call'.wid \in call'.named
      BY <1>2, <1>3, <2>3 DEF Finds
    <3> QED BY <2>1, <3>1, <3>2
  <2>4. CASE ~Finds /\ Position = 1
    <3>1. call'.wid = call.wid /\ Current.op = "find"
      BY <1>1, <1>4, <2>4, TargetFields
    <3>2. Reached' = {}
      BY <2>1, <2>4, <3>1, ReachedStep DEF Makes, ReadsPart, At
    <3>3. Running' => Position' = 1
      BY <2>4, LeavesFirst
    <3> QED BY <3>2, <3>3
  <2>5. CASE ~Finds /\ Position > 1
    <3>1. call'.wid = call.wid /\ call.wid \in call'.named
      BY <1>3, <2>1, <2>5, TargetFields
    <3>2. \A w : Makes(w) => w = call.wid
      <4>1. Current.op = "change" => Current.on = "id"
        BY <1>1, <2>5 DEF GoodRequest
      <4> QED BY <4>1 DEF Makes, At, Concerned
    <3>3. Reached' \subseteq {call'.wid}
      BY <2>1, <3>1, <3>2, ReachedStep
    <3>4. Running' => Position' # 1
      <4>1. Running' => Position' = Position \/ Position' = Position + 1
        BY <1>1, NextPosition DEF Proceeds, Moves, Stops, Running
      <4> QED BY <1>1, <2>5, <4>1
    <3> QED BY <3>1, <3>3, <3>4
  <2> QED BY <1>1, <2>3, <2>4, <2>5
<1>5. CASE call.plan.todo[1].op # "find"
  <2>1. Position = 1 /\ Current.op = "change" /\ Current.on = "name"
    BY <1>1, <1>5 DEF GoodPlan
  <2>2. call.seen = {} /\ Reached \subseteq call.named
    BY <1>1, <1>5 DEF NamedInv, Running
  <2>3. \A w : Makes(w) => w \in call.named
    BY <1>2, <2>1 DEF Makes, Concerned
  <2>4. call'.seen = {} /\ Reached' \subseteq call'.named
    BY <1>3, <2>1, <2>2, <2>3, ReachedStep DEF ReadsPart, At
  <2> QED BY <1>1, <1>3, <1>5, <2>4 DEF NamedInv
<1> QED BY <1>4, <1>5

LEMMA NamedStep ==
  ASSUME ShapeInv, Done, NamedInv, Begins \/ Kinds \/ Interferes
  PROVE  NamedInv'
<1>1. CASE Begins
  <2>1. call'.seen = {} /\ call'.done = <<>>
    BY <1>1 DEF Begins
  <2>2. Reached' = {}
    BY <2>1 DEF Reached
  <2>3. call'.plan.by = "name" => Bearers(call.name)' \subseteq call'.named
    BY <1>1 DEF Begins, UnchangedWorld, Bearers
  <2> QED BY <1>1, <2>1, <2>2, <2>3, BeginsAt DEF NamedInv
<1>2. CASE Kinds
  BY <1>2, Common, NamedKinds DEF NamedInv
<1>3. CASE Interferes
  <2>1. SameBut({"named", "pins"}, call, call') /\ Position' = Position /\ Running' /\ Running
    BY <1>3, CallStays DEF Interferes
  <2>2. /\ call'.plan = call.plan /\ call'.done = call.done /\ call'.seen = call.seen
        /\ call'.wid = call.wid
    BY <2>1 DEF SameBut, Fields
  <2>3. Reached' = Reached
    BY <2>2 DEF Reached
  <2>4. CASE call.plan.by = "name"
    <3>1. Bearers(call.name) \subseteq call.named
      BY <2>1, <2>4 DEF NamedInv, Running
    <3>2. Bearers(call.name)' \subseteq call'.named /\ call.named \subseteq call'.named
      BY <1>3, <2>4, <3>1, BearersKept
    <3> QED BY <2>1, <2>2, <2>3, <2>4, <3>2 DEF NamedInv, Running
  <2> QED BY <2>2, <2>4 DEF NamedInv
<1> QED BY <1>1, <1>2, <1>3

LEMMA KeepsToNamed ==
  ASSUME ShapeInv, ChangesInv, NamedInv
  PROVE  KeepsToNamedWorkspace
<1>1. SUFFICES ASSUME call.plan.by = "name"
               PROVE  /\ Reached \subseteq call.named
                      /\ \A v, w \in Reached : v = w \/ (call.lost /\ call.plan.tool = "update_workspace")
  BY DEF KeepsToNamedWorkspace, Reached
<1>2. call.status # "none" /\ GoodPlan(call.plan)
  BY <1>1 DEF ShapeInv
<1>3. CASE call.plan.todo[1].op = "find"
  BY <1>1, <1>2, <1>3 DEF NamedInv
<1>4. CASE call.plan.todo[1].op # "find"
  <2>1. call.plan.tool = "update_workspace" /\ call.seen = {} /\ Reached \subseteq call.named
    BY <1>1, <1>2, <1>4 DEF NamedInv, GoodPlan
  <2>2. ASSUME ~call.lost, NEW v \in Reached, NEW w \in Reached PROVE v = w
    <3> DEFINE n == Len(call.done)
    <3>1. n \in Nat /\ n <= 1 /\ DOMAIN call.done = 1..n
      BY <1>2, <2>2 DEF ChangesInv, Done
    <3>2. PICK i \in DOMAIN call.done, j \in DOMAIN call.done : v = call.done[i].on /\ w = call.done[j].on
      BY <2>1, <2>2 DEF Reached
    <3> HIDE DEF n
    <3>3. i = j
      BY <3>1, <3>2
    <3> QED BY <3>2, <3>3
  <2> QED BY <2>1, <2>2
<1> QED BY <1>3, <1>4

-----------------------------------------------------------------------------
(* What a call may change, and a no-code workspace *)

\* Every change that was made is one of the plan.
WhatInv ==
  /\ Done
  /\ \A i \in DOMAIN call.done : \E j \in 1..Len(call.plan.todo) :
       call.plan.todo[j].op = "change" /\ call.plan.todo[j].what = call.done[i].what

LEMMA WhatStep ==
  ASSUME ShapeInv, WhatInv, Begins \/ Kinds \/ Interferes
  PROVE  WhatInv'
<1>1. CASE Begins
  <2>1. call'.done = <<>>
    BY <1>1 DEF Begins
  <2> QED BY <2>1 DEF WhatInv, Done
<1>2. CASE call'.done = call.done /\ call'.plan = call.plan
  BY <1>2 DEF WhatInv, Done
<1>3. CASE Kinds /\ \E w : Makes(w)
  <2>1. PICK w : Makes(w)
    BY <1>3
  <2> DEFINE e == [what |-> Current.what, on |-> w]
             n == Len(call.done)
  <2>2. call'.done = Append(call.done, e) /\ Running
    BY <2>1 DEF Makes, At
  <2>3. e.what = Current.what
    OBVIOUS
  <2>4. n \in Nat /\ DOMAIN call.done = 1..n
    BY DEF WhatInv, Done
  <2> HIDE DEF e
  <2>5. /\ Len(call'.done) = n + 1 /\ DOMAIN call'.done = 1..(n + 1) /\ call'.done[n + 1] = e
        /\ \A i \in 1..n : call'.done[i] = call.done[i]
    BY <2>2, <2>4, Appended
  <2>6. /\ call'.plan = call.plan
        /\ \E j \in 1..Len(call.plan.todo) :
             call.plan.todo[j].op = "change" /\ call.plan.todo[j].what = e.what
    BY <1>3, <2>1, <2>2, <2>3, Common, CurrentRequest DEF Makes, At
  <2> HIDE DEF n
  <2>7. \A i : i \in 1..(n + 1) <=> i \in 1..n \/ i = n + 1
    BY <2>4
  <2>8. \A i \in DOMAIN call'.done : \E j \in 1..Len(call.plan.todo) :
          call.plan.todo[j].op = "change" /\ call.plan.todo[j].what = call'.done[i].what
    BY <2>4, <2>5, <2>6, <2>7 DEF WhatInv
  <2> QED BY <2>4, <2>5, <2>6, <2>8 DEF WhatInv, Done
<1>4. CASE Kinds /\ ~\E w : Makes(w)
  BY <1>2, <1>4, DoneFields, Common
<1>5. CASE Interferes
  BY <1>2, <1>5, CallStays DEF SameBut, Fields
<1> QED BY <1>1, <1>3, <1>4, <1>5

\* A value that makes a variable of its type.
Fits(type, kind) ==
  \/ type = "bool" /\ kind = "bool"
  \/ type = "number" /\ kind # "bool"
  \/ type \notin {"bool", "number"} /\ kind = "string"

\* Before the pin is read it is what the call began with; from the fourth read on
\* the form holds the inputs of the pinned version that was read; the workspace is
\* made of a form that was accepted and filled in as it asks.
ConsentInv ==
  call.status # "none" /\ call.plan.tool = "create_no_code_workspace" =>
    /\ Running => pin \in call.pins /\ call.read \in call.pins
    /\ Running /\ Position >= 5 => call.form = InputsOf[call.read]
    /\ Running /\ Position < 6 => Len(call.done) = 0
    /\ (Running /\ Position = 6) \/ Len(call.done) > 0 =>
         /\ call.consent
         /\ \E v \in call.pins :
              /\ DOMAIN call.filled = DOMAIN InputsOf[v]
              /\ \A i \in DOMAIN call.filled : Fits(InputsOf[v][i], call.filled[i])

LEMMA Extracted ==
  ASSUME NEW form, NEW content, ExtractVariables(form, content)
  PROVE  LET f == [v \in DOMAIN form |-> content[v]]
         IN DOMAIN f = DOMAIN form /\ \A i \in DOMAIN f : Fits(form[i], f[i])
<1>1. ASSUME NEW type, NEW kind, ConvertVariableValue(type, kind) PROVE Fits(type, kind)
  <2>1. CASE type = "number"
    BY <1>1, <2>1 DEF ConvertVariableValue, MapTerraformTypeToJSON, Fits
  <2>2. CASE type = "bool"
    BY <1>1, <2>2 DEF ConvertVariableValue, MapTerraformTypeToJSON, Fits
  <2>3. CASE type \notin {"bool", "number"}
    BY <1>1, <2>3 DEF ConvertVariableValue, MapTerraformTypeToJSON, Fits
  <2> QED BY <2>1, <2>2, <2>3
<1> QED BY <1>1 DEF ExtractVariables

\* What the steps of a call do to the form and its answer.
LEMMA FormFields ==
  ASSUME ShapeInv, Kinds
  PROVE  /\ (call'.read = call.read /\ call'.form = call.form) \/ Reads
         /\ (call'.consent = call.consent /\ call'.filled = call.filled) \/ Accepts
<1>1. CASE Finds \/ Reads \/ ReadsPart
  BY <1>1 DEF Finds, Reads, ReadsPart, SameBut, Fields, Progress
<1>2. CASE Polls \/ Loses
  BY <1>2 DEF Polls, Loses, SameBut, Fields, Progress
<1>3. CASE Accepts \/ Declines
  BY <1>3 DEF Accepts, Declines, SameBut, Fields, Progress
<1>4. CASE \E w : Changes(w) \/ LosesDone(w)
  BY <1>4 DEF Changes, LosesDone, SameBut, Fields, Progress
<1> QED BY <1>1, <1>2, <1>3, <1>4 DEF Kinds

\* What the request at each position is.
NoCodeAt(k, r) ==
  /\ k \in 1..4 => r.op = "read" /\ r.on = "none"
  /\ (r.what = "pin") <=> (k = 2)
  /\ (r.what = "inputs") <=> (k = 4)
  /\ k = 5 => r.op = "ask"
  /\ k = 6 => r.op = "change"
  /\ r.must = TRUE

LEMMA NoCodeOps ==
  ASSUME NEW k \in 1..6, NEW r, r = NoCodeTodo[k]
  PROVE  NoCodeAt(k, r)
<1>1. k \in {1, 2, 3, 4, 5, 6}
  OBVIOUS
<1>2. \A what : Get(what) = [op |-> "read", what |-> what, on |-> "none", must |-> TRUE]
  BY DEF Get, Request
<1>3. CASE k = 1
  <2>1. r = Get("project")
    BY <1>3, NoCodeRequests
  <2>2. r.op = "read" /\ r.what = "project" /\ r.on = "none" /\ r.must = TRUE
    BY <1>2, <2>1
  <2> QED BY <1>3, <2>2 DEF NoCodeAt
<1>4. CASE k = 2
  <2>1. r = Get("pin")
    BY <1>4, NoCodeRequests
  <2>2. r.op = "read" /\ r.what = "pin" /\ r.on = "none" /\ r.must = TRUE
    BY <1>2, <2>1
  <2> QED BY <1>4, <2>2 DEF NoCodeAt
<1>5. CASE k = 3
  <2>1. r = Get("module")
    BY <1>5, NoCodeRequests
  <2>2. r.op = "read" /\ r.what = "module" /\ r.on = "none" /\ r.must = TRUE
    BY <1>2, <2>1
  <2> QED BY <1>5, <2>2 DEF NoCodeAt
<1>6. CASE k = 4
  <2>1. r = Get("inputs")
    BY <1>6, NoCodeRequests
  <2>2. r.op = "read" /\ r.what = "inputs" /\ r.on = "none" /\ r.must = TRUE
    BY <1>2, <2>1
  <2> QED BY <1>6, <2>2 DEF NoCodeAt
<1>7. CASE k = 5
  <2>1. r = Request("ask", "user", "none", TRUE)
    BY <1>7, NoCodeRequests
  <2>2. r.op = "ask" /\ r.what = "user" /\ r.on = "none" /\ r.must = TRUE
    BY <2>1 DEF Request
  <2> QED BY <1>7, <2>2 DEF NoCodeAt
<1>8. CASE k = 6
  <2>1. r = Change("create from module", "new")
    BY <1>8, NoCodeRequests
  <2>2. /\ Change("create from module", "new").op = "change"
        /\ Change("create from module", "new").what = "create from module"
        /\ Change("create from module", "new").must = TRUE
    BY DEF Change, Request
  <2>3. r.op = "change" /\ r.what = "create from module" /\ r.must = TRUE
    BY <2>1, <2>2
  <2>4. k \notin 1..4 /\ k # 5 /\ k # 2 /\ k # 4
    BY <1>8
  <2>5. r.what # "pin" /\ r.what # "inputs"
    BY <2>3
  <2> QED BY <2>3, <2>4, <2>5 DEF NoCodeAt
<1> QED BY <1>1, <1>3, <1>4, <1>5, <1>6, <1>7, <1>8

LEMMA ConsentKinds ==
  ASSUME ShapeInv, Done, ConsentInv, Kinds, call.plan.tool = "create_no_code_workspace"
  PROVE  ConsentInv'
<1>1. /\ Running /\ Proceeds /\ call'.plan = call.plan /\ call'.pins = call.pins /\ pin' = pin
      /\ call.plan.todo = NoCodeTodo
  BY Common, CurrentRequest DEF GoodPlan
<1>2. Position \in 1..6 /\ Current = NoCodeTodo[Position]
  BY <1>1, CurrentRequest, NoCodeRequests
<1>3. /\ pin \in call.pins /\ call.read \in call.pins
      /\ Position >= 5 => call.form = InputsOf[call.read]
      /\ Position < 6 => Len(call.done) = 0
      /\ Position = 6 \/ Len(call.done) > 0 =>
         /\ call.consent
         /\ \E v \in call.pins :
              /\ DOMAIN call.filled = DOMAIN InputsOf[v]
              /\ \A i \in DOMAIN call.filled : Fits(InputsOf[v][i], call.filled[i])
  BY <1>1 DEF ConsentInv, Running
<1>4. Running' => Position' = Position \/ (Position' = Position + 1 /\ Advances /\ ~Remains /\ ~Fails)
  <2>1. Remains \/ Fails => Position' = Position
    BY <1>1, NextPosition
  <2>2. Advances /\ Running' => Position' = Position + 1
    BY <1>1, NextPosition DEF Running
  <2> QED BY <1>1, <2>1, <2>2 DEF Proceeds, Moves, Stops, Running
<1>5. /\ Position \in 1..4 => Current.op = "read" /\ Current.on = "none"
      /\ Current.what = "pin" <=> Position = 2
      /\ Current.what = "inputs" <=> Position = 4
      /\ Position = 5 => Current.op = "ask"
      /\ Position = 6 => Current.op = "change"
      /\ Current.must = TRUE
  <2> DEFINE k == Position
             r == Current
  <2>1. k \in 1..6 /\ r = NoCodeTodo[k]
    BY <1>2
  <2> HIDE DEF k, r
  <2>2. NoCodeAt(k, r)
    BY <2>1, NoCodeOps
  <2> QED BY <2>2 DEF NoCodeAt, k, r
<1>6. call'.read \in call'.pins
  BY <1>1, <1>3, FormFields DEF Reads
<1>7. ASSUME Running', Position' >= 5 PROVE call'.form = InputsOf[call'.read]
  <2>1. CASE Position >= 5
    BY <1>2, <1>3, <1>5, <2>1, FormFields DEF Reads, At
  <2>2. CASE Position < 5
    <3>1. Position = 4 /\ Advances /\ ~Remains /\ ~Fails
      BY <1>2, <1>4, <1>7, <2>2
    <3>2. Current.op = "read" /\ Current.on = "none" /\ Current.must = TRUE
      BY <1>5, <3>1
    <3>3. Reads
      BY <3>1, <3>2 DEF Kinds, Finds, ReadsPart, Polls, Loses, Goes, Accepts, Declines, Changes, LosesDone, Makes, At
    <3> QED BY <1>5, <3>1, <3>3 DEF Reads
  <2> QED BY <1>2, <2>1, <2>2
<1>8. /\ Position < 6 => call'.done = call.done
      /\ Running' /\ Position' < 6 => Position < 6
  <2>1. Position < 6 => call'.done = call.done
    <3>1. Position < 6 => Current.op # "change"
      BY <1>2, <1>5
    <3> QED BY <3>1, DoneFields DEF Makes, At
  <2> QED BY <1>2, <1>4, <2>1
<1>9. CASE Position = 6
  <2>1. call'.consent = call.consent /\ call'.filled = call.filled
    BY <1>5, <1>9, FormFields DEF Accepts, At
  <2>2. Running' => Position' >= 6
    BY <1>4, <1>9
  <2>3. Running' => ~(Position' < 6)
    BY <1>4, <1>9
  <2> QED BY <1>1, <1>3, <1>6, <1>7, <1>9, <2>1, <2>3 DEF ConsentInv
<1>10. CASE Position < 6
  <2>1. Len(call'.done) = 0
    BY <1>3, <1>8, <1>10
  <2>2. ASSUME Running', Position' = 6
        PROVE  /\ call'.consent
               /\ \E v \in call.pins :
                    /\ DOMAIN call'.filled = DOMAIN InputsOf[v]
                    /\ \A i \in DOMAIN call'.filled : Fits(InputsOf[v][i], call'.filled[i])
    <3>1. Position = 5 /\ Advances /\ ~Remains /\ ~Fails
      BY <1>2, <1>4, <1>10, <2>2
    <3>2. Accepts
      BY <1>5, <3>1 DEF Kinds, Finds, Reads, ReadsPart, Polls, Loses, Goes, Declines, Changes, LosesDone, Makes, At
    <3>3. PICK content : /\ ExtractVariables(call.form, content)
                         /\ call'.filled = [v \in DOMAIN call.form |-> content[v]]
      BY <3>1, <3>2 DEF Accepts
    <3>4. /\ DOMAIN call'.filled = DOMAIN call.form
          /\ \A i \in DOMAIN call'.filled : Fits(call.form[i], call'.filled[i])
      BY <3>3, Extracted
    <3>5. call.form = InputsOf[call.read] /\ call.read \in call.pins
      BY <1>3, <3>1
    <3> QED BY <3>2, <3>4, <3>5 DEF Accepts
  <2> QED BY <1>1, <1>3, <1>6, <1>7, <2>1, <2>2 DEF ConsentInv
<1> QED BY <1>2, <1>9, <1>10

LEMMA ConsentStep ==
  ASSUME ShapeInv, Done, ConsentInv, Begins \/ Kinds \/ Interferes
  PROVE  ConsentInv'
<1>1. CASE Begins
  <2>1. call'.done = <<>> /\ call'.read = pin /\ call'.pins = {pin} /\ pin' = pin
    BY <1>1 DEF Begins, UnchangedWorld
  <2>2. Len(call'.done) = 0 /\ Position' = 1
    BY <1>1, <2>1, BeginsAt
  <2> QED BY <2>1, <2>2 DEF ConsentInv
<1>2. CASE Kinds
  BY <1>2, Common, ConsentKinds DEF ConsentInv
<1>3. CASE Interferes
  <2>1. SameBut({"named", "pins"}, call, call') /\ Position' = Position /\ Running' /\ Running
    BY <1>3, CallStays DEF Interferes
  <2>2. /\ call'.plan = call.plan /\ call'.done = call.done /\ call'.read = call.read
        /\ call'.form = call.form /\ call'.filled = call.filled /\ call'.consent = call.consent
    BY <2>1 DEF SameBut, Fields
  <2>3. call.pins \subseteq call'.pins /\ (pin' = pin \/ pin' \in call'.pins)
    BY <1>3 DEF Interferes, Renames, Manages, Publishes, SameBut, Fields
  <2> QED BY <2>1, <2>2, <2>3 DEF ConsentInv, Running
<1> QED BY <1>1, <1>2, <1>3

LEMMA ConsentNeeded ==
  ASSUME ShapeInv, WhatInv, ConsentInv
  PROVE  NoCodeNeedsConsent
<1>1. SUFFICES ASSUME NEW i \in DOMAIN call.done, call.done[i].what = "create from module"
               PROVE  /\ call.consent
                      /\ \E v \in call.pins :
                           /\ DOMAIN call.filled = DOMAIN InputsOf[v]
                           /\ \A j \in DOMAIN call.filled : Fits(InputsOf[v][j], call.filled[j])
  BY DEF NoCodeNeedsConsent, MadeChange, Fits
<1>2. Len(call.done) > 0
  BY DEF WhatInv, Done
<1>3. call.status # "none"
  BY <1>2 DEF ShapeInv
<1>4. call.plan.tool = "create_no_code_workspace"
  <2>1. PICK j \in 1..Len(call.plan.todo) : call.plan.todo[j].what = "create from module"
    BY <1>1 DEF WhatInv
  <2>2. GoodRequest(call.plan, call.plan.todo[j], j)
    BY <1>3 DEF ShapeInv, GoodPlan
  <2> QED BY <2>1, <2>2 DEF GoodRequest
<1> QED BY <1>2, <1>3, <1>4 DEF ConsentInv

-----------------------------------------------------------------------------
(* The invariant, and what it shows *)

TfeInv ==
  /\ ShapeInv /\ WorldInv /\ TargetInv /\ PollsInv
  /\ ChangesInv /\ NamedInv /\ WhatInv /\ ConsentInv

LEMMA TfeInitInv == TfeInit => TfeInv
<1> SUFFICES ASSUME TfeInit PROVE TfeInv
  OBVIOUS
<1>1. call = NoCall
  BY DEF TfeInit
<1>2. call.plan.by = "none" /\ call.plan.tool = ""
  <2>1. Plan("", "none", <<>>).by = "none" /\ Plan("", "none", <<>>).tool = ""
    BY DEF Plan
  <2> QED BY <1>1, <2>1, NoCallFields
<1>3. call.status = "none" /\ DOMAIN call = Fields /\ call.tries = 1
  BY <1>1, NoCallFields
<1>4. call.polls = 0 /\ call.named = {} /\ call.seen = {}
  BY <1>1, NoCallFields
<1>5. call.done = <<>>
  BY <1>1, NoCallFields
<1>6. Len(call.done) = 0 /\ Done
  BY <1>5 DEF Done
<1>7. ShapeInv
  <2>1. 1 \in 1..MaxTries
    BY BoundsAssumption
  <2> QED BY <1>2, <1>3, <1>5, <2>1 DEF ShapeInv, Running
<1>8. WorldInv
  <2>1. wsName = FirstNames /\ managed = {} /\ pin = FirstPin /\ changes = 0
    BY DEF TfeInit
  <2>2. NamesInv
    BY <2>1, NamesAssumption DEF NamesInv, Exists
  <2>3. 0 \in 0..MaxChanges
    BY BoundsAssumption
  <2> QED BY <2>1, <2>2, <2>3, NamesAssumption DEF WorldInv
<1>9. TargetInv
  BY <1>3, <1>4 DEF TargetInv, Running
<1>10. PollsInv
  <2>1. MaxPolls \in Nat /\ MaxPages \in Nat /\ 0 < MaxPages /\ 0 < MaxPolls
    BY BoundsAssumption
  <2>2. call.polls = 0
    BY <1>4
  <2> QED BY <2>1, <2>2 DEF PollsInv
<1>11. ChangesInv
  BY <1>3, <1>6 DEF ChangesInv
<1>12. NamedInv /\ ConsentInv
  BY <1>3 DEF NamedInv, ConsentInv
<1>13. WhatInv
  BY <1>5, <1>6 DEF WhatInv
<1> QED BY <1>7, <1>8, <1>9, <1>10, <1>11, <1>12, <1>13 DEF TfeInv

LEMMA TfeStepInv == TfeInv /\ [TfeStep]_tfeVars => TfeInv'
<1> SUFFICES ASSUME TfeInv, [TfeStep]_tfeVars PROVE TfeInv'
  OBVIOUS
<1>1. CASE TfeStep
  <2>1. ShapeInv /\ WorldInv /\ TargetInv /\ PollsInv /\ ChangesInv /\ NamedInv /\ WhatInv /\ ConsentInv
    BY DEF TfeInv
  <2>2. Done
    BY <2>1 DEF WhatInv
  <2>3. ShapeInv' /\ (Begins \/ Kinds \/ Interferes)
    BY <1>1, <2>1, StepKinds
  <2>4. WorldInv' /\ TargetInv'
    BY <2>1, <2>3, WorldStep, TargetStep
  <2>5. PollsInv' /\ ChangesInv' /\ NamedInv'
    BY <2>1, <2>2, <2>3, PollsStep, ChangesStep, NamedStep
  <2>6. WhatInv' /\ ConsentInv'
    BY <2>1, <2>2, <2>3, WhatStep, ConsentStep
  <2> QED BY <2>3, <2>4, <2>5, <2>6 DEF TfeInv
<1>2. CASE UNCHANGED tfeVars
  <2>1. wsName' = wsName /\ managed' = managed /\ pin' = pin /\ changes' = changes /\ call' = call
    BY <1>2 DEF tfeVars
  <2>2. Running' = Running /\ Position' = Position /\ Done' = Done /\ Reached' = Reached
    BY <2>1 DEF Running, Position, Done, Reached
  <2>3. Intended' = Intended /\ Pending' = Pending
    BY <2>1, <2>2 DEF Intended, Pending
  <2>4. ShapeInv' /\ WorldInv' /\ TargetInv'
    BY <2>1, <2>2 DEF TfeInv, ShapeInv, WorldInv, NamesInv, Exists, TargetInv
  <2>5. PollsInv' /\ ChangesInv'
    BY <2>1, <2>2, <2>3 DEF TfeInv, PollsInv, ChangesInv, FailedToDescribe
  <2>6. NamedInv' /\ WhatInv' /\ ConsentInv'
    BY <2>1, <2>2 DEF TfeInv, NamedInv, WhatInv, ConsentInv, Bearers
  <2> QED BY <2>4, <2>5, <2>6 DEF TfeInv
<1> QED BY <1>1, <1>2

\* The invariant, for all workspaces, names, modules and bounds, and for calls with
\* any plan of the shape that the plans of the tools have (pkg/tools/tfe).
THEOREM TfeInvariance == TfeInit /\ [][TfeStep]_tfeVars => []TfeInv
  BY TfeInitInv, TfeStepInv, PTL

LEMMA TfeInvShows ==
  ASSUME TfeInv
  PROVE  TfeTypeOK /\ KeepsToNamedWorkspace /\ ChangesMatchAnswers /\ NoCodeNeedsConsent
BY TfeTyped, KeepsToNamed, ChangesAnswered, ConsentNeeded DEF TfeInv

\* No step but one of others takes a workspace with managed resources away.
LEMMA SafeStep ==
  ASSUME TfeInv, [TfeStep]_tfeVars, NEW w \in managed, wsName[w] # Gone, wsName'[w] = Gone
  PROVE  changes' # changes
<1>1. TfeStep
  BY DEF tfeVars
<1>2. Begins \/ Kinds \/ Interferes
  BY <1>1, StepKinds DEF TfeInv
<1>3. ~Begins
  BY DEF Begins, UnchangedWorld
<1>4. ~Kinds
  BY KindsNames DEF TfeInv
<1>5. CASE Interferes
  BY <1>5 DEF Interferes, TfeInv, WorldInv
<1> QED BY <1>2, <1>3, <1>4, <1>5

-----------------------------------------------------------------------------
(* Runs that destroy or apply themselves *)

\* A request that no run is asked for with that destroys or may apply itself.
Mild(r) == r.what \notin {"auto_approve", "is_destroy", "plan_and_apply"}

\* What may be asked for with an option, a.
Allowed(a, r) ==
  /\ r.what \notin {"auto_approve", "is_destroy"}
  /\ a = "true" /\ r.op = "change" => r.what \in {"create", "create from module", "update", "rename"}
  /\ r.what = "plan_and_apply" => a = "false"

MildPlan(p) == \A i \in 1..Len(p.todo) : Allowed(p.autoApply, p.todo[i])

LEMMA MildRequests ==
  ASSUME NEW what, what \notin {"auto_approve", "is_destroy", "plan_and_apply"}
  PROVE  /\ Mild(Get(what)) /\ Mild(TryGet(what)) /\ Mild(Part(what)) /\ Mild(TryPart(what))
         /\ Mild(Find) /\ \A op, on, must : Mild(Request(op, what, on, must))
  BY DEF Mild, Get, TryGet, Part, TryPart, Find, Request

LEMMA MildChanges ==
  ASSUME NEW what, NEW on, what \notin {"auto_approve", "is_destroy", "plan_and_apply"}
  PROVE  Mild(Change(what, on)) /\ Mild(Find)
  BY DEF Mild, Change, Find, Request

LEMMA MildOne == ASSUME NEW tool, NEW by, NEW q, Mild(q) PROVE MildPlan(Plan(tool, by, <<q>>))
  BY DEF MildPlan, Allowed, Mild, Plan

LEMMA MildTwo ==
  ASSUME NEW tool, NEW by, NEW q, NEW r, Mild(q), Mild(r)
  PROVE  MildPlan(Plan(tool, by, <<q, r>>))
  BY DEF MildPlan, Allowed, Mild, Plan

LEMMA MildThree ==
  ASSUME NEW tool, NEW by, NEW q, NEW r, NEW s, Mild(q), Mild(r), Mild(s)
  PROVE  MildPlan(Plan(tool, by, <<q, r, s>>))
  BY DEF MildPlan, Allowed, Mild, Plan

\* A plan that sends an option is no worse if each of its requests may go with it.
LEMMA MildSetting ==
  ASSUME NEW tool, NEW by, NEW todo, NEW a, \A i \in 1..Len(todo) : Allowed(a, todo[i])
  PROVE  MildPlan(Setting(Plan(tool, by, todo), a))
<1> DEFINE p == Setting(Plan(tool, by, todo), a)
<1>1. p.todo = todo /\ p.autoApply = a
  BY SettingFields
<1> HIDE DEF p
<1>2. MildPlan(p)
  BY <1>1 DEF MildPlan
<1> QED BY <1>2 DEF p

LEMMA MildOnly ==
  ASSUME NEW tool, NEW what, what \notin {"auto_approve", "is_destroy", "plan_and_apply"}
  PROVE  /\ \A p \in GetOnly(tool, what) : MildPlan(p)
         /\ \A p \in ChangeOnly(tool, what) : MildPlan(p)
  BY MildRequests, MildChanges, MildOne DEF GetOnly, ChangeOnly

LEMMA MildNamed ==
  ASSUME NEW tool, NEW what, what \notin {"auto_approve", "is_destroy", "plan_and_apply"}
  PROVE  /\ MildPlan(Plan(tool, "name", <<Find, Part(what)>>))
         /\ MildPlan(Plan(tool, "name", <<Find, Change(what, "id")>>))
<1>1. Mild(Find) /\ Mild(Part(what)) /\ Mild(Change(what, "id"))
  BY MildRequests, MildChanges
<1> QED BY <1>1, MildTwo

\* Without ENABLE_TF_OPERATIONS no plan asks for such a run (create_run.go:78-88).
LEMMA MildPlans ==
  ASSUME NEW operations, NEW backend, ~operations, NEW p \in Plans(operations, backend)
  PROVE  MildPlan(p)
<1>1. \A q \in ListTerraformOrgs : MildPlan(q)
  BY MildOnly DEF ListTerraformOrgs
<1>2. \A q \in ListTerraformProjects : MildPlan(q)
  BY MildOnly DEF ListTerraformProjects
<1>3. \A q \in SearchTerraformWorkspaces : MildPlan(q)
  BY MildOnly DEF SearchTerraformWorkspaces
<1>4. \A q \in TfListWorkspaces : MildPlan(q)
  BY MildOnly DEF TfListWorkspaces
<1>5. \A q \in GetTokenPermissions : MildPlan(q)
  BY MildOnly DEF GetTokenPermissions
<1>6. \A q \in ListTerraformStacks : MildPlan(q)
  BY MildOnly DEF ListTerraformStacks
<1>7. \A q \in GetStackDetails : MildPlan(q)
  BY MildOnly DEF GetStackDetails
<1>8. \A q \in ListVariableSets : MildPlan(q)
  BY MildOnly DEF ListVariableSets
<1>9. \A q \in GetRunDetails : MildPlan(q)
  BY MildOnly DEF GetRunDetails
<1>10. \A q \in GetPlanDetails : MildPlan(q)
  BY MildOnly DEF GetPlanDetails
<1>11. \A q \in GetPlanJSONOutput : MildPlan(q)
  BY MildOnly DEF GetPlanJSONOutput
<1>12. \A q \in GetApplyDetails : MildPlan(q)
  BY MildOnly DEF GetApplyDetails
<1>13. \A q \in SearchPrivateModules : MildPlan(q)
  BY MildOnly DEF SearchPrivateModules
<1>14. \A q \in SearchPrivateProviders : MildPlan(q)
  BY MildOnly DEF SearchPrivateProviders
<1>15. \A q \in GetPrivateProviderDetails : MildPlan(q)
  BY MildOnly DEF GetPrivateProviderDetails
<1>16. \A q \in CreateVariableSet : MildPlan(q)
  BY MildOnly DEF CreateVariableSet
<1>17. \A q \in CreateVariableInVariableSet : MildPlan(q)
  BY MildOnly DEF CreateVariableInVariableSet
<1>18. \A q \in DeleteVariableInVariableSet : MildPlan(q)
  BY MildOnly DEF DeleteVariableInVariableSet
<1>19. \A q \in AttachVariableSetToWorkspaces : MildPlan(q)
  BY MildOnly DEF AttachVariableSetToWorkspaces
<1>20. \A q \in DetachVariableSetFromWorkspaces : MildPlan(q)
  BY MildOnly DEF DetachVariableSetFromWorkspaces
<1>21. \A q \in AttachPolicySetToWorkspaces : MildPlan(q)
  BY MildOnly DEF AttachPolicySetToWorkspaces
<1>22. \A q \in ActionRun : MildPlan(q)
  BY MildOnly DEF ActionRun
<1>23. \A q \in GetWorkspaceDetails : MildPlan(q)
  BY MildRequests, MildChanges, MildOne, MildTwo, MildThree DEF GetWorkspaceDetails
<1>24. \A q \in CreateWorkspace : MildPlan(q)
  <2>1. \A a : Allowed(a, Change("create", "new"))
    BY DEF Allowed, Change, Request
  <2>2. \A a : MildPlan(Setting(Plan("create_workspace", "new", <<Change("create", "new")>>), a))
    BY <2>1, MildSetting
  <2> QED BY <2>2 DEF CreateWorkspace
<1>25. \A q \in UpdateWorkspace : MildPlan(q)
  <2>1. \A a, what : what \in {"update", "rename"} => Allowed(a, Change(what, "name"))
    BY DEF Allowed, Change, Request
  <2>2. \A a, what : what \in {"update", "rename"} =>
          MildPlan(Setting(Plan("update_workspace", "name", <<Change(what, "name")>>), a))
    BY <2>1, MildSetting
  <2> QED BY <2>2 DEF UpdateWorkspace
<1>26. \A q \in DeleteWorkspaceSafely : MildPlan(q)
  BY MildRequests, MildChanges, MildOne, MildTwo, MildThree DEF DeleteWorkspaceSafely
<1>27. \A q \in CreateWorkspaceTags : MildPlan(q)
  BY MildNamed DEF CreateWorkspaceTags
<1>28. \A q \in ReadWorkspaceTags : MildPlan(q)
  <2>1. Mild(Find) /\ Mild(Part("tags")) /\ Mild(Part("tag bindings"))
    BY DEF Mild, Find, Part, Request
  <2> QED BY <2>1, MildThree DEF ReadWorkspaceTags
<1>29. \A q \in ListWorkspaceVariables : MildPlan(q)
  BY MildNamed DEF ListWorkspaceVariables
<1>30. \A q \in CreateWorkspaceVariable : MildPlan(q)
  BY MildNamed DEF CreateWorkspaceVariable
<1>31. \A q \in UpdateWorkspaceVariable : MildPlan(q)
  BY MildNamed DEF UpdateWorkspaceVariable
<1>32. \A q \in ListWorkspacePolicySets : MildPlan(q)
  BY MildRequests, MildChanges, MildOne, MildTwo, MildThree DEF ListWorkspacePolicySets
<1>33. \A q \in ListRuns : MildPlan(q)
  BY MildRequests, MildChanges, MildOne, MildTwo, MildThree DEF ListRuns
<1>34. \A q \in GetPlanLogs : MildPlan(q)
  BY MildRequests, MildChanges, MildOne, MildTwo, MildThree DEF GetPlanLogs
<1>35. \A q \in GetApplyLogs : MildPlan(q)
  BY MildRequests, MildChanges, MildOne, MildTwo, MildThree DEF GetApplyLogs
<1>36. \A q \in GetSentinelMock : MildPlan(q)
  BY MildRequests, MildChanges, MildOne, MildTwo, MildThree DEF GetSentinelMock
<1>37. \A q \in GetPrivateModuleDetails : MildPlan(q)
  BY MildRequests, MildChanges, MildOne, MildTwo, MildThree DEF GetPrivateModuleDetails
<1>38. \A q \in FetchTFCState : MildPlan(q)
  BY MildRequests, MildChanges, MildOne, MildTwo, MildThree DEF FetchTFCState
<1>39. \A q \in CreateRunSafe : MildPlan(q)
  <2>1. ASSUME NEW run, run \in RunType, run \notin {"auto_approve", "is_destroy"}
        PROVE  MildPlan(CreateRunPlan(run))
    <3> DEFINE a == AutoApplyOf(run)
    <3>1. a # "true" /\ (run = "plan_and_apply" => a = "false")
      BY <2>1 DEF AutoApplyOf
    <3> HIDE DEF a
    <3>2. Allowed(a, Find) /\ Allowed(a, Change(run, "id"))
      BY <2>1, <3>1 DEF Allowed, Find, Change, Request
    <3>3. MildPlan(Setting(Plan("create_run", "name", <<Find, Change(run, "id")>>), a))
      BY <3>2, MildSetting
    <3> QED BY <3>3 DEF CreateRunPlan, a
  <2>2. \A run \in RunType : RunOf(run) \in RunType \ {"auto_approve", "is_destroy"}
    BY DEF RunOf, RunType
  <2> QED BY <2>1, <2>2 DEF CreateRunSafe
<1>40. \A q \in CreateNoCodeWorkspace : MildPlan(q)
  <2>1. \A i \in 1..6 : i \in {1, 2, 3, 4, 5, 6}
    OBVIOUS
  <2>2. /\ \A a, what : what # "plan_and_apply" =>
             (what \notin {"auto_approve", "is_destroy"} => Allowed(a, Get(what)))
        /\ \A a : Allowed(a, Request("ask", "user", "none", TRUE))
        /\ \A a : Allowed(a, Change("create from module", "new"))
    BY DEF Allowed, Get, Change, Request
  <2>3. \A a : \A i \in 1..Len(NoCodeTodo) : Allowed(a, NoCodeTodo[i])
    BY <2>1, <2>2, NoCodeRequests
  <2>4. \A a : MildPlan(Setting(Plan("create_no_code_workspace", "new", NoCodeTodo), a))
    BY <2>3, MildSetting
  <2> QED BY <2>4 DEF CreateNoCodeWorkspace, NoCodeTodo
<1> QED BY <1>1, <1>2, <1>3, <1>4, <1>5, <1>6, <1>7, <1>8, <1>9, <1>10, <1>11, <1>12, <1>13, <1>14,
   <1>15, <1>16, <1>17, <1>18, <1>19, <1>20, <1>21, <1>22, <1>23, <1>24, <1>25, <1>26, <1>27, <1>28,
   <1>29, <1>30, <1>31, <1>32, <1>33, <1>34, <1>35, <1>36, <1>37, <1>38, <1>39, <1>40 DEF Plans

-----------------------------------------------------------------------------
(* A call takes a bounded number of steps.  That it ends is EveryCallEnds;  *)
(* what is proved is how often the server may be asked meanwhile.           *)

\* How many more pages or attempts a call may need than its plan has requests.
PollLimit ==
  CASE call.plan.tool = "list_workspace_policy_sets" -> MaxPages - 1
    [] call.plan.tool = "get_sentinel_mock" -> MaxPolls - 1
    [] OTHER -> 0

\* What a call has left: its requests, and what it may still spend on polling.
Outstanding == Len(call.todo) + PollLimit - call.polls

\* How often a call may still send a request or ask its user.
Budget == IF Running THEN Outstanding * MaxTries - call.tries + 1 ELSE 0

LEMMA OutstandingType ==
  ASSUME ShapeInv, PollsInv, Running
  PROVE  /\ Len(call.todo) \in Nat \ {0} /\ PollLimit \in Nat /\ call.polls \in 0..PollLimit
         /\ Outstanding \in Nat \ {0}
<1>1. Len(call.todo) \in 1..Len(call.plan.todo) /\ Len(call.plan.todo) \in Nat
  BY CurrentRequest DEF ShapeInv, GoodPlan, IsPlan
<1>2. PollLimit \in Nat /\ call.polls \in 0..PollLimit
  BY BoundsAssumption DEF PollsInv, PollLimit
<1> QED BY <1>1, <1>2 DEF Outstanding

LEMMA Multiples ==
  /\ \A o, m \in Nat : o * m \in Nat /\ (o # 0 => m <= o * m)
  /\ \A o, p, m \in Nat : p < o => p * m + m <= o * m
  /\ \A o, p, m \in Nat : p <= o => p * m <= o * m
<1>1. \A o, m \in Nat : o * m \in Nat
  OBVIOUS
<1>2. \A o, m \in Nat : o # 0 => m <= o * m
  BY SMTT(30)
<1>3. ASSUME NEW o \in Nat, NEW p \in Nat, NEW m \in Nat, p < o PROVE p * m + m <= o * m
  <2>1. p * m + m = (p + 1) * m
    OBVIOUS
  <2>2. o * m = (p + 1) * m + (o - p - 1) * m
    OBVIOUS
  <2>3. o - p - 1 \in Nat
    BY <1>3
  <2>4. (o - p - 1) * m \in Nat
    BY <1>1, <2>3
  <2>5. (p + 1) * m \in Nat
    BY <1>1
  <2> QED BY <2>1, <2>2, <2>4, <2>5
<1>4. ASSUME NEW o \in Nat, NEW p \in Nat, NEW m \in Nat, p <= o PROVE p * m <= o * m
  <2>1. CASE p = o
    BY <1>1, <2>1
  <2>2. CASE p < o
    <3>1. p * m \in Nat /\ o * m \in Nat /\ p * m + m <= o * m
      BY <1>1, <1>3, <2>2
    <3> QED BY <3>1
  <2> QED BY <1>4, <2>1, <2>2
<1> QED BY <1>1, <1>2, <1>3, <1>4

\* Something is left as long as a call is running, and nothing afterwards; and never
\* more than each request of the plan, page and attempt as often as it may be sent.
BudgetOK ==
  /\ Budget \in Nat
  /\ Budget > 0 <=> Running
  /\ Running => Budget <= (Len(call.plan.todo) + PollLimit) * MaxTries

LEMMA BudgetType == ShapeInv /\ PollsInv => BudgetOK
<1> SUFFICES ASSUME ShapeInv, PollsInv PROVE BudgetOK
  OBVIOUS
<1>1. CASE ~Running
  BY <1>1 DEF BudgetOK, Budget
<1>2. CASE Running
  <2> DEFINE o == Outstanding
             t == call.tries
  <2>1. o \in Nat \ {0} /\ MaxTries \in Nat /\ t \in 1..MaxTries
    BY <1>2, OutstandingType, BoundsAssumption DEF ShapeInv
  <2>2. Budget = o * MaxTries - t + 1
    BY <1>2 DEF Budget
  <2> HIDE DEF o, t
  <2>3. o * MaxTries \in Nat /\ MaxTries <= o * MaxTries
    BY <2>1, Multiples
  <2>4. Budget \in Nat /\ Budget > 0 /\ Budget <= o * MaxTries
    BY <2>1, <2>2, <2>3
  <2> DEFINE b == Len(call.plan.todo) + PollLimit
  <2>5. b \in Nat /\ o <= b
    <3>1. Len(call.plan.todo) \in Nat /\ Len(call.todo) \in 1..Len(call.plan.todo)
      BY <1>2, CurrentRequest DEF ShapeInv, GoodPlan, IsPlan
    <3>2. PollLimit \in Nat /\ call.polls \in 0..PollLimit
      BY <1>2, OutstandingType
    <3> QED BY <3>1, <3>2 DEF Outstanding, o
  <2> HIDE DEF b
  <2>6. o * MaxTries <= b * MaxTries
    BY <2>1, <2>5, Multiples
  <2>7. Budget <= b * MaxTries
    <3>1. o * MaxTries \in Nat /\ b * MaxTries \in Nat
      BY <2>1, <2>5, Multiples
    <3> QED BY <2>4, <2>6, <3>1
  <2> QED BY <1>2, <2>4, <2>7 DEF BudgetOK, b
<1> QED BY <1>1, <1>2

\* A step that goes on with a call either has a request less to make or a poll less,
\* or it sends the same request once more.
LEMMA Spends ==
  ASSUME ShapeInv, PollsInv, Kinds, Running'
  PROVE  \/ Outstanding' = Outstanding - 1
         \/ Outstanding' = Outstanding /\ call'.tries = call.tries + 1
<1>1. Running /\ Proceeds /\ call'.plan = call.plan
  BY Common
<1>2. PollLimit' = PollLimit
  BY <1>1 DEF PollLimit
<1> DEFINE n == Len(call.todo)
           L == PollLimit
           p == call.polls
<1>3. n \in Nat \ {0} /\ L \in Nat /\ p \in 0..L /\ DOMAIN call.todo = 1..n
  BY <1>1, OutstandingType DEF ShapeInv
<1>4. Outstanding = n + L - p /\ Outstanding' = Len(call'.todo) + L - call'.polls
  BY <1>2 DEF Outstanding
<1>5. Advances => Len(call'.todo) = n - 1
  BY <1>3, Rest DEF Advances
<1>6. Remains => Len(call'.todo) = n
  BY DEF Remains
<1>7. ~Fails /\ ~Stops
  BY DEF Fails, Stops, Running
<1>8. \/ call'.polls = p /\ (Advances \/ (Remains /\ call'.tries = call.tries + 1))
      \/ call'.polls = p + 1 /\ Remains
  <2>1. CASE Finds \/ Reads \/ ReadsPart
    BY <2>1 DEF Finds, Reads, ReadsPart, SameBut, Fields, Progress
  <2>2. CASE Polls
    BY <1>7, <2>2 DEF Polls
  <2>3. CASE Loses
    BY <1>7, <2>3 DEF Loses, Goes, SameBut, Fields, Progress
  <2>4. CASE Accepts \/ Declines
    BY <1>7, <2>4 DEF Accepts, Declines, SameBut, Fields, Progress
  <2>5. CASE \E w : Changes(w)
    BY <1>7, <2>5 DEF Changes, SameBut, Fields, Progress
  <2>6. CASE \E w : LosesDone(w)
    BY <1>7, <2>6 DEF LosesDone, Goes, SameBut, Fields, Progress
  <2> QED BY <2>1, <2>2, <2>3, <2>4, <2>5, <2>6 DEF Kinds
<1> HIDE DEF n, L, p
<1> QED BY <1>3, <1>4, <1>5, <1>6, <1>8

LEMMA BudgetSpent ==
  ASSUME ShapeInv, PollsInv, CallStep \/ UserStep
  PROVE  Running /\ Budget' < Budget
<1>1. Kinds /\ ShapeInv' /\ PollsInv'
  BY KindsOfSteps, ShapeKinds, PollsStep
<1>2. Running
  BY <1>1, Common
<1>3. BudgetOK /\ BudgetOK'
  BY <1>1, BudgetType, PTL
<1>4. CASE ~Running'
  <2>1. Budget' = 0
    BY <1>4 DEF Budget
  <2> QED BY <1>2, <1>3, <2>1 DEF BudgetOK
<1>5. CASE Running'
  <2> DEFINE o == Outstanding
             oo == Outstanding'
             t == call.tries
             tt == call'.tries
  <2>1. o \in Nat \ {0} /\ MaxTries \in Nat /\ t \in 1..MaxTries /\ tt \in 1..MaxTries
    BY <1>1, <1>2, OutstandingType, BoundsAssumption DEF ShapeInv
  <2>2. Budget = o * MaxTries - t + 1 /\ Budget' = oo * MaxTries - tt + 1
    BY <1>2, <1>5 DEF Budget
  <2>3. oo = o - 1 \/ (oo = o /\ tt = t + 1)
    BY <1>1, <1>5, Spends
  <2> HIDE DEF o, oo, t, tt
  <2>4. CASE oo = o - 1
    <3>1. oo \in Nat /\ oo < o
      BY <2>1, <2>4
    <3>2. oo * MaxTries \in Nat /\ o * MaxTries \in Nat /\ oo * MaxTries + MaxTries <= o * MaxTries
      BY <2>1, <3>1, Multiples
    <3> DEFINE x == o * MaxTries
               y == oo * MaxTries
    <3>3. x \in Nat /\ y \in Nat /\ y + MaxTries <= x /\ Budget = x - t + 1 /\ Budget' = y - tt + 1
      BY <2>2, <3>2
    <3> HIDE DEF x, y
    <3> QED BY <1>2, <2>1, <3>3
  <2>5. CASE oo = o /\ tt = t + 1
    <3>1. o * MaxTries \in Nat
      BY <2>1, Multiples
    <3> DEFINE x == o * MaxTries
    <3>2. x \in Nat /\ Budget = x - t + 1 /\ Budget' = x - tt + 1
      BY <2>2, <2>5, <3>1
    <3> HIDE DEF x
    <3> QED BY <1>2, <2>1, <2>5, <3>2
  <2> QED BY <2>3, <2>4, <2>5
<1> QED BY <1>2, <1>4, <1>5

\* Others take nothing from a call and give it nothing.
LEMMA BudgetKept ==
  ASSUME ShapeInv, OthersStep
  PROVE  Budget' = Budget
<1>1. Interferes
  BY InterferesIt
<1>2. SameBut({"named", "pins"}, call, call')
  BY <1>1, CallStays
<1>3. /\ call'.status = call.status /\ call'.plan = call.plan /\ call'.todo = call.todo
      /\ call'.tries = call.tries /\ call'.polls = call.polls
  BY <1>2 DEF SameBut, Fields
<1> QED BY <1>3 DEF Budget, Outstanding, PollLimit, Running
=============================================================================
