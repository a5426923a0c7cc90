------------------------------ MODULE TfeTools ------------------------------
(***************************************************************************)
(* The tools that work on a Terraform server (pkg/tools/tfe, and           *)
(* tf_list_workspaces of pkg/tools/state): which requests each of them     *)
(* makes in which order, what it does when one fails, and what it answers. *)
(*                                                                         *)
(* A call has one of the plans of its tool, a sequence of requests; the    *)
(* plans of a tool are what its handler makes of the possible arguments.   *)
(* Others work on the same server meanwhile: workspaces are renamed,       *)
(* removed and made, and the version of a module is pinned.  A request     *)
(* whose answer is lost is sent again, as NewTfeClient sets                *)
(* RetryServerErrors.  Values and texts of answers are left out.           *)
(***************************************************************************)
EXTENDS Integers, Sequences

CONSTANTS
  Workspace,   \* workspace ids
  Name,        \* workspace names, of one organization
  InputsOf,    \* per version of a no-code module: its inputs with their types
  FirstNames,  \* the names that workspaces have at first; none has managed resources
  FirstPin,    \* the version pinned at first
  Kind,        \* what a user may fill in: "string", "empty", "number", "bool"
  MaxPolls,    \* attempts to see a finished export (30 in the code)
  MaxPages,    \* bound on the pages of the list of policy sets
  MaxTries,    \* bound on how often one request is sent
  MaxChanges   \* bound on the changes of others

VARIABLES
  wsName,   \* the name of each workspace, Unborn or Gone
  managed,  \* the workspaces with managed resources
  pin,      \* the version the no-code module is pinned to
  changes,  \* how many changes others made
  call      \* the call

tfeVars == <<wsName, managed, pin, changes, call>>

Unborn == "(unborn)"
Gone == "(gone)"

ASSUME NamesAssumption ==
  /\ Name \cap {Unborn, Gone, ""} = {}
  /\ FirstNames \in [Workspace -> Name \cup {Unborn, Gone}]
  /\ \A v, w \in Workspace : FirstNames[v] \in Name /\ FirstNames[v] = FirstNames[w] => v = w
  /\ FirstPin \in DOMAIN InputsOf

ASSUME BoundsAssumption ==
  /\ MaxPolls \in Nat \ {0} /\ MaxPages \in Nat \ {0} /\ MaxTries \in Nat \ {0}
  /\ MaxChanges \in Nat

Exists(w) == wsName[w] \in Name
Bearers(n) == {w \in Workspace : wsName[w] = n}

-----------------------------------------------------------------------------
(* Requests and plans *)

\* on: the workspace a request concerns; "name": by the name asked for, "id": the
\* one that was found or asked for, "new": one that it creates, "none": none.  A
\* call fails with a request that must succeed.
Request(op, what, on, must) == [op |-> op, what |-> what, on |-> on, must |-> must]

Find == Request("find", "workspace", "name", TRUE)
Get(what) == Request("read", what, "none", TRUE)
TryGet(what) == Request("read", what, "none", FALSE)
Part(what) == Request("read", what, "id", TRUE)
TryPart(what) == Request("read", what, "id", FALSE)
Change(what, on) == Request("change", what, on, TRUE)

\* by: how the caller says which workspace is meant.  autoApply: the option of that
\* name of the run or of the workspace that is asked for, "unset" if it is not sent.
Plan(tool, by, todo) == [tool |-> tool, by |-> by, todo |-> todo, autoApply |-> "unset"]

Setting(plan, autoApply) == [plan EXCEPT !.autoApply = autoApply]

GetOnly(tool, what) == {Plan(tool, "none", <<Get(what)>>)}

(* Organizations, projects, workspaces *)

ListTerraformOrgs == GetOnly("list_terraform_orgs", "organizations")
ListTerraformProjects == GetOnly("list_terraform_projects", "projects")
SearchTerraformWorkspaces == GetOnly("list_workspaces", "workspaces")
TfListWorkspaces == GetOnly("tf_list_workspaces", "workspaces")
GetTokenPermissions == GetOnly("get_token_permissions", "organization")
ListTerraformStacks == GetOnly("list_stacks", "stacks")
GetStackDetails == GetOnly("get_stack_details", "stack")

\* The details are answered without variables or README if these cannot be read.
GetWorkspaceDetails ==
  {Plan("get_workspace_details", "name", <<Find, TryPart("variables"), TryPart("readme")>>)}

CreateWorkspace ==
  {Setting(Plan("create_workspace", "new", <<Change("create", "new")>>), autoApply) :
     autoApply \in {"true", "false"}}

\* Straight by name; a new name may be among the options, and so may auto_apply.
UpdateWorkspace ==
  {Setting(Plan("update_workspace", "name", <<Change(what, "name")>>), autoApply) :
     what \in {"update", "rename"}, autoApply \in {"unset", "true", "false"}}

\* Faulty variant: the plain deletion, which spares nothing.
DeleteWorkspaceSafely_Plain ==
  {Plan("delete_workspace_safely", "id", <<Part("workspace"), Change("delete", "id")>>)}

DeleteWorkspaceSafely ==
  {Plan("delete_workspace_safely", "id", <<Part("workspace"), Change("safe delete", "id")>>)}

CreateWorkspaceTags == {Plan("create_workspace_tags", "name", <<Find, Change("add tags", "id")>>)}
ReadWorkspaceTags ==
  {Plan("read_workspace_tags", "name", <<Find, Part("tags"), Part("tag bindings")>>)}

(* Variables, variable sets and policy sets *)

ListWorkspaceVariables ==
  {Plan("list_workspace_variables", "name", <<Find, Part("variables")>>)}
CreateWorkspaceVariable ==
  {Plan("create_workspace_variable", "name", <<Find, Change("create variable", "id")>>)}
UpdateWorkspaceVariable ==
  {Plan("update_workspace_variable", "name", <<Find, Change("update variable", "id")>>)}

ListVariableSets == GetOnly("list_variable_sets", "variable sets")

ChangeOnly(tool, what) == {Plan(tool, "none", <<Change(what, "none")>>)}

CreateVariableSet == ChangeOnly("create_variable_set", "create set")
CreateVariableInVariableSet == ChangeOnly("create_variable_in_variable_set", "create in set")
DeleteVariableInVariableSet == ChangeOnly("delete_variable_in_variable_set", "delete in set")
AttachVariableSetToWorkspaces == ChangeOnly("attach_variable_set_to_workspaces", "attach set")
DetachVariableSetFromWorkspaces == ChangeOnly("detach_variable_set_from_workspaces", "detach set")
AttachPolicySetToWorkspaces == ChangeOnly("attach_policy_set_to_workspaces", "attach policy set")

\* Every page of the policy sets of the organization.
ListWorkspacePolicySets ==
  {Plan("list_workspace_policy_sets", "none", <<Request("pages", "policy sets", "none", TRUE)>>)}

(* Runs and plans *)

\* Faulty variant: the safe tool knows the run types of the other.
RunOf_Unsafe(runType) == runType

\* The run that a run type of the tool without ENABLE_TF_OPERATIONS asks for: a
\* type that it does not know leaves every option unset.
RunOf(runType) == IF runType \in {"auto_approve", "is_destroy"} THEN "plain" ELSE runType

RunType == {"plan_and_apply", "refresh_state", "plan_only", "allow_empty_apply",
            "auto_approve", "is_destroy", "plain"}

\* A run with the option unset applies itself if its workspace is set to.
AutoApplyOf(run) ==
  IF run = "plan_and_apply" THEN "false" ELSE IF run = "auto_approve" THEN "true" ELSE "unset"

CreateRunPlan(run) ==
  Setting(Plan("create_run", "name", <<Find, Change(run, "id")>>), AutoApplyOf(run))

CreateRunSafe == {CreateRunPlan(RunOf(t)) : t \in RunType}
CreateRun == {CreateRunPlan(t) : t \in RunType}

ActionRun == UNION {ChangeOnly("action_run", action) : action \in {"apply", "discard", "cancel"}}

\* In a workspace if one is named, else in the organization.
ListRuns ==
  {Plan("list_runs", "name", <<Find, Part("runs")>>), Plan("list_runs", "none", <<Get("runs")>>)}

GetRunDetails == GetOnly("get_run_details", "run")
GetPlanDetails == GetOnly("get_plan_details", "plan")
GetPlanJSONOutput == GetOnly("get_plan_json_output", "plan")
GetApplyDetails == GetOnly("get_apply_details", "apply")
GetPlanLogs == {Plan("get_plan_logs", "none", <<Get("plan"), Get("log")>>)}
GetApplyLogs == {Plan("get_apply_logs", "none", <<Get("apply"), Get("log")>>)}

\* An export is created, polled until it is finished, and downloaded.
GetSentinelMock ==
  {Plan("get_sentinel_mock", "none",
        <<Change("export", "none"), Request("poll", "export", "none", TRUE), Get("export")>>)}

(* The private registry *)

SearchPrivateModules == GetOnly("search_private_modules", "modules")
SearchPrivateProviders == GetOnly("search_private_providers", "providers")
GetPrivateProviderDetails == GetOnly("get_private_provider_details", "provider")

\* Without the details of the version the module is described all the same.
GetPrivateModuleDetails ==
  {Plan("get_private_module_details", "none", <<Get("module"), TryGet("version")>>)}

\* fetchModuleData reads the project, the no-code module with its pinned version,
\* the module, and the inputs of that version; the user is asked for their values.
\* With auto_apply the first run of the workspace applies itself.
CreateNoCodeWorkspace ==
  {Setting(Plan("create_no_code_workspace", "new",
                <<Get("project"), Get("pin"), Get("module"), Get("inputs"),
                  Request("ask", "user", "none", TRUE), Change("create from module", "new")>>),
           autoApply) : autoApply \in {"true", "false"}}

(* The state of a workspace *)

\* What a state tool asks for when the cache has nothing for it and the backend is
\* tfc: the workspace, its current state version, and the file of that version.
FetchTFCState ==
  {Plan(tool, "name", <<Find, Part("state version"), Get("state")>>) :
     tool \in {"tf_list_resources", "tf_get_resource", "tf_search_attributes", "tf_get_outputs",
              "tf_dependency_graph", "tf_diff_state", "tf_summary"}}

Plans(operations, backend) ==
  UNION {ListTerraformOrgs, ListTerraformProjects, SearchTerraformWorkspaces, TfListWorkspaces,
         GetTokenPermissions, ListTerraformStacks, GetStackDetails, GetWorkspaceDetails,
         CreateWorkspace, UpdateWorkspace, DeleteWorkspaceSafely, CreateWorkspaceTags,
         ReadWorkspaceTags, ListWorkspaceVariables, CreateWorkspaceVariable,
         UpdateWorkspaceVariable, ListVariableSets, CreateVariableSet,
         CreateVariableInVariableSet, DeleteVariableInVariableSet,
         AttachVariableSetToWorkspaces, DetachVariableSetFromWorkspaces,
         AttachPolicySetToWorkspaces, ListWorkspacePolicySets,
         IF operations THEN CreateRun ELSE CreateRunSafe, ActionRun, ListRuns,
         GetRunDetails, GetPlanDetails, GetPlanJSONOutput, GetApplyDetails, GetPlanLogs,
         GetApplyLogs, GetSentinelMock, SearchPrivateModules, SearchPrivateProviders,
         GetPrivateProviderDetails, GetPrivateModuleDetails, CreateNoCodeWorkspace,
         IF backend = "tfc" THEN FetchTFCState ELSE {}}

-----------------------------------------------------------------------------
(* A call *)

\* todo: the requests still to make.  name, wid: what the caller asked for, or what
\* was found.  read, form, filled: the pinned version and its inputs as they were
\* read, and what the user filled in.  The rest is history: the workspaces that
\* had the name and the pinned versions during the call, the workspaces its reads
\* concerned, the changes it made, and whether an answer to it was lost.
Begun(plan, name, wid) ==
  [status |-> "running", plan |-> plan, todo |-> plan.todo, name |-> name, wid |-> wid,
   tries |-> 1, polls |-> 0, read |-> pin, form |-> <<>>, filled |-> <<>>, consent |-> FALSE,
   named |-> IF plan.by = "name" THEN Bearers(name) ELSE {}, pins |-> {pin},
   seen |-> {}, done |-> <<>>, lost |-> FALSE]

NoCall == [Begun(Plan("", "none", <<>>), "", "") EXCEPT !.status = "none", !.pins = {}]

Running == call.status = "running"
Current == Head(call.todo)
At(op) == Running /\ Current.op = op
Asking == At("ask")

BeginCall(plan) ==
  /\ call.status = "none"
  /\ \E name \in IF plan.by \in {"name", "new"} THEN Name ELSE {""},
        wid \in IF plan.by = "id" THEN Workspace ELSE {""} :
       call' = Begun(plan, name, wid)
  /\ UNCHANGED <<wsName, managed, pin, changes>>

\* A required argument is missing or not valid, or there is no client.
RefuseCall(plan) ==
  /\ call.status = "none"
  /\ call' = [Begun(plan, "", "") EXCEPT !.status = "error"]
  /\ UNCHANGED <<wsName, managed, pin, changes>>

\* The request at hand is done with; after the last one the call is answered.
Advanced(c) ==
  [c EXCEPT !.todo = Tail(@), !.tries = 1,
            !.status = IF Len(c.todo) = 1 THEN "ok" ELSE "running"]

Failed(c) == [c EXCEPT !.status = "error"]

UnchangedWorld == UNCHANGED <<wsName, managed, pin, changes>>

\* Workspaces.Read gives the id that has the name now.
FindWorkspace ==
  /\ At("find")
  /\ \E w \in Bearers(call.name) : call' = Advanced([call EXCEPT !.wid = w])
  /\ UnchangedWorld

\* Faulty variant: the name is looked up again.
ReadTarget_ByName == IF call.plan.by = "name" THEN Bearers(call.name) ELSE {call.wid}

\* The workspace that a read by id concerns.
ReadTarget == {call.wid}

\* One version is read of the module, and then the inputs of that version.
ReadPart ==
  /\ At("read")
  /\ \/ /\ Current.on = "none"
        /\ call' = Advanced([call EXCEPT
             !.read = IF Current.what = "pin" THEN pin ELSE @,
             !.form = IF Current.what = "inputs" THEN InputsOf[call.read] ELSE @])
     \/ /\ Current.on = "id"
        /\ \E w \in ReadTarget : Exists(w) /\ call' = Advanced([call EXCEPT !.seen = @ \cup {w}])
  /\ UnchangedWorld

\* The export is ready.
PollFinished ==
  /\ At("poll")
  /\ call' = Advanced(call)
  /\ UnchangedWorld

\* Faulty variant: the attempts are not limited.
PollPending_Forever ==
  /\ At("poll")
  /\ call' = [call EXCEPT !.polls = (@ + 1) % MaxPolls, !.tries = 1]
  /\ UnchangedWorld

\* Faulty variant: one attempt too many.
PollPending_OffByOne ==
  /\ At("poll")
  /\ call' = [(IF call.polls = MaxPolls THEN Failed(call) ELSE call)
              EXCEPT !.polls = @ + 1, !.tries = 1]
  /\ UnchangedWorld

\* Not yet: the next attempt, or the last one was in vain.
PollPending ==
  /\ At("poll")
  /\ call' = [(IF call.polls + 1 = MaxPolls THEN Failed(call) ELSE call)
              EXCEPT !.polls = @ + 1, !.tries = 1]
  /\ UnchangedWorld

\* Page after page until there is no next one.
ReadPage ==
  /\ At("pages")
  /\ \/ call' = Advanced(call)
     \/ /\ call.polls + 1 < MaxPages
        /\ call' = [call EXCEPT !.polls = @ + 1, !.tries = 1]
  /\ UnchangedWorld

-----------------------------------------------------------------------------
(* Changes *)

\* What a change does to the workspaces, w being the one it concerns.
Effect(what, w) ==
  \/ /\ what \in {"safe delete", "delete"} /\ (what = "delete" \/ w \notin managed)
     /\ wsName' = [wsName EXCEPT ![w] = Gone]
  \/ /\ what \in {"create", "create from module"} /\ Bearers(call.name) = {}
     /\ wsName' = [wsName EXCEPT ![w] = call.name]
  \/ /\ what = "rename"
     /\ \E n \in Name : Bearers(n) = {} /\ wsName' = [wsName EXCEPT ![w] = n]
  \/ /\ what \notin {"safe delete", "delete", "create", "create from module", "rename"}
     /\ UNCHANGED wsName

\* The workspaces that a change may concern.
Concerned(on) ==
  CASE on = "id" -> {call.wid} \ {w \in Workspace : ~Exists(w)}
    [] on = "name" -> Bearers(call.name)
    [] on = "new" -> {w \in Workspace : wsName[w] = Unborn}
    [] OTHER -> {""}

\* c, with the change to w among those that were made.
Noted(c, w) ==
  [c EXCEPT !.done = Append(@, [what |-> Current.what, on |-> w]),
            !.named = IF c.plan.by = "name" THEN @ \cup {v \in Workspace : wsName'[v] = c.name} ELSE @]

\* The tools that describe what they changed, with what the server answered; that
\* may not be possible.  (action_run describes it with texts of its own.)
Describing == {"create_run", "create_workspace", "create_no_code_workspace",
               "update_workspace", "delete_workspace_safely"}

\* Nothing is left to ask for, but the answer cannot be put together.
Undescribed(c) == Failed(Advanced(c))

\* Of the plan of a tool that describes its change, the change is the last request.
MakeChange ==
  /\ At("change")
  /\ \E w \in Concerned(Current.on) :
       /\ Effect(Current.what, w)
       /\ \/ call' = Advanced(Noted(call, w))
          \/ call.plan.tool \in Describing /\ call' = Undescribed(Noted(call, w))
  /\ UNCHANGED <<managed, pin, changes>>

-----------------------------------------------------------------------------
(* Failures *)

\* Without an answer the handler gives up, or goes on without what it wanted.
GiveUp(c) == IF Head(c.todo).must THEN Failed(c) ELSE Advanced(c)

Requesting == Running /\ Current.op # "ask"

\* Faulty variant: an error is logged and otherwise passed over.
RejectRequest_Ignored ==
  /\ Requesting
  /\ call' = Advanced(call)
  /\ UnchangedWorld

\* Nothing there, an empty list, no permission, an export that failed: any
\* request may be answered so that the handler cannot use it.
RejectRequest ==
  /\ Requesting
  /\ call' = GiveUp(call)
  /\ UnchangedWorld

\* The request is sent again, as long as that is worth a try.
Resent(c) ==
  LET d == [c EXCEPT !.lost = @ \/ Current.op = "change"]
  IN IF c.tries < MaxTries THEN [d EXCEPT !.tries = @ + 1] ELSE GiveUp(d)

\* A server error or no answer in time.  A change may have been made all the same.
LoseAnswer ==
  /\ Requesting
  /\ \/ call' = Resent(call) /\ UNCHANGED wsName
     \/ /\ Current.op = "change"
        /\ \E w \in Concerned(Current.on) : Effect(Current.what, w) /\ call' = Resent(Noted(call, w))
  /\ UNCHANGED <<managed, pin, changes>>

-----------------------------------------------------------------------------
(* The user is asked for the inputs of a no-code module *)

MapTerraformTypeToJSON(type) ==
  IF type = "number" THEN "number" ELSE IF type = "bool" THEN "boolean" ELSE "string"

\* Whether a value of that kind makes a variable: a string must not be empty, and
\* a number may be given as any string.
ConvertVariableValue(type, kind) ==
  CASE MapTerraformTypeToJSON(type) = "string" -> kind = "string"
    [] MapTerraformTypeToJSON(type) = "number" -> kind \in {"number", "string", "empty"}
    [] OTHER -> kind = "bool"

\* Every input that was asked for is there and of a fitting kind.
ExtractVariables(form, content) ==
  \A v \in DOMAIN form : v \in DOMAIN content /\ ConvertVariableValue(form[v], content[v])

Inputs == UNION {DOMAIN InputsOf[v] : v \in DOMAIN InputsOf}

\* Only what was asked for becomes a variable.
AcceptForm ==
  /\ Asking
  /\ \E given \in SUBSET Inputs : \E content \in [given -> Kind] :
       call' = IF ExtractVariables(call.form, content)
               THEN Advanced([call EXCEPT !.consent = TRUE,
                                          !.filled = [v \in DOMAIN call.form |-> content[v]]])
               ELSE Failed([call EXCEPT !.consent = TRUE])
  /\ UnchangedWorld

\* Faulty variant: whatever the user does, the workspace is created.
DeclineForm_Ignored ==
  /\ Asking
  /\ call' = Advanced(call)
  /\ UnchangedWorld

\* The user declines or cancels, or the client cannot ask.
DeclineForm ==
  /\ Asking
  /\ call' = Failed(call)
  /\ UnchangedWorld

-----------------------------------------------------------------------------
(* Others, at work on what a call depends on *)

Others(c) == Running /\ changes < MaxChanges /\ c /\ changes' = changes + 1

OthersChangeNames ==
  /\ Others(call.plan.by # "none")
  /\ \E w \in Workspace :
       \/ /\ Exists(w)
          /\ \E n \in {m \in Name : Bearers(m) = {}} \cup {Gone} : wsName' = [wsName EXCEPT ![w] = n]
       \/ /\ wsName[w] = Unborn
          /\ \E n \in Name : Bearers(n) = {} /\ wsName' = [wsName EXCEPT ![w] = n]
  /\ call' = [call EXCEPT !.named = IF call.plan.by = "name"
                                    THEN @ \cup {v \in Workspace : wsName'[v] = call.name} ELSE @]
  /\ UNCHANGED <<managed, pin>>

OthersManage ==
  /\ Others(call.plan.by = "id")
  /\ managed' \in {managed \cup {call.wid}, managed \ {call.wid}}
  /\ UNCHANGED <<wsName, pin, call>>

OthersPublish ==
  /\ Others(call.plan.tool = "create_no_code_workspace")
  /\ pin' \in DOMAIN InputsOf \ {pin}
  /\ call' = [call EXCEPT !.pins = @ \cup {pin'}]
  /\ UNCHANGED <<wsName, managed>>

-----------------------------------------------------------------------------
TfeInit ==
  /\ wsName = FirstNames
  /\ managed = {}
  /\ pin = FirstPin
  /\ changes = 0
  /\ call = NoCall

\* What the handler does, except that it waits for the user.
CallStep ==
  \/ FindWorkspace \/ ReadPart
  \/ PollFinished \/ PollPending \/ ReadPage
  \/ MakeChange
  \/ RejectRequest \/ LoseAnswer

UserStep == AcceptForm \/ DeclineForm

OthersStep == OthersChangeNames \/ OthersManage \/ OthersPublish

-----------------------------------------------------------------------------
(* Properties *)

TfeTypeOK ==
  /\ wsName \in [Workspace -> Name \cup {Unborn, Gone}]
  /\ \A v, w \in Workspace : Exists(v) /\ wsName[v] = wsName[w] => v = w
  /\ managed \subseteq Workspace /\ pin \in DOMAIN InputsOf
  /\ changes \in 0..MaxChanges
  /\ call.status \in {"none", "running", "ok", "error"}
  /\ call.tries \in 1..MaxTries
  /\ call.polls \in 0..(IF call.plan.tool = "list_workspace_policy_sets" THEN MaxPages ELSE MaxPolls)
  /\ call.named \subseteq Workspace /\ call.seen \subseteq Workspace
  /\ Running => call.todo # <<>>

Ended == call.status \in {"ok", "error"}
MadeChange(what) == \E i \in DOMAIN call.done : call.done[i].what = what

\* A call by name keeps to one workspace, and to one that had the name it was
\* asked for at some time during the call, however workspaces are renamed, removed
\* and made between its requests: what it reads and what it changes concern that
\* one.  Only a change that is addressed by name and sent twice, its first answer
\* lost, may reach a second one (create_run.go:72-95, workspace_tags.go:74-79,
\* workspace_variables.go:50-55, get_workspace_details.go:68-107).
KeepsToNamedWorkspace ==
  call.plan.by = "name" =>
    LET reached == call.seen \cup {call.done[i].on : i \in DOMAIN call.done}
    IN /\ reached \subseteq call.named
       /\ \A v, w \in reached : v = w \/ (call.lost /\ call.plan.tool = "update_workspace")

Intended == \E i \in DOMAIN call.plan.todo : call.plan.todo[i].op = "change"

\* Exception: the change is made, and the tool fails to describe it; no request was
\* left to make (create_run.go:101-103 and 197-200, update_workspace.go:172-175,
\* create_workspace.go:182-185, create_no_code_workspace.go:100-103,
\* delete_workspace_safely.go:60-63).
FailedToDescribe == call.plan.tool \in Describing /\ Len(call.todo) = 0

\* What a call answers tells what it did to the server: after a success what it was
\* asked to change is changed, and nothing else; after an error nothing is, unless
\* an answer was lost, an export was made that then could not be had, or the change
\* could not be described; and nothing is done twice but for a lost answer
\* (tfe_client.go:40 and the handlers).
ChangesMatchAnswers ==
  Ended =>
    /\ call.status = "ok" => (call.done # <<>>) = Intended
    /\ call.status = "error" /\ ~call.lost =>
         IF FailedToDescribe THEN Len(call.done) = 1
         ELSE call.done = <<>> \/ call.plan.tool = "get_sentinel_mock"
    /\ ~call.lost => Len(call.done) <= 1

\* A no-code workspace is made only after the user accepted the form, with exactly
\* the inputs of a version the module was pinned to during the call, each of a kind
\* that makes a variable, also when the pin moves while the user thinks
\* (create_no_code_workspace.go:75-99, 281-382).
NoCodeNeedsConsent ==
  MadeChange("create from module") =>
    /\ call.consent
    /\ \E v \in call.pins :
         /\ DOMAIN call.filled = DOMAIN InputsOf[v]
         /\ \A i \in DOMAIN call.filled :
              \/ InputsOf[v][i] = "bool" /\ call.filled[i] = "bool"
              \/ InputsOf[v][i] = "number" /\ call.filled[i] # "bool"
              \/ InputsOf[v][i] \notin {"bool", "number"} /\ call.filled[i] = "string"

\* "Safely": no step of a call takes away a workspace that has managed resources
\* at that moment, whatever was read before (delete_workspace_safely.go:50-55).
SafeDelete ==
  [][\A w \in managed : wsName[w] # Gone /\ wsName'[w] = Gone => changes' # changes]_tfeVars
=============================================================================
