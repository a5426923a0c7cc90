------------------------------- MODULE Server -------------------------------
(***************************************************************************)
(* The server as a whole: it starts with some configuration, takes         *)
(* requests, makes clients for its sessions, and serves the tools it       *)
(* offers, those of the state inspection and those of the Terraform        *)
(* server.  How overlapping requests race for clients, tokens of the rate  *)
(* limiter and cache entries is in modules of its own.                     *)
(***************************************************************************)
EXTENDS HttpFront, StateTools, TfeTools

CONSTANTS
  CallConfig,     \* bound: the configurations in which a Terraform tool is called
  InspectConfig   \* bound: those in which a state tool is called

vars == <<startVars, frontVars, inspected, tfeVars>>

Init == FrontInit /\ InspectInit /\ TfeInit

\* The process, its HTTP front and its sessions.
FrontStep == FrontNext /\ UNCHANGED <<inspected, tfeVars>>

\* A call of a Terraform tool on offer; to get anywhere it needs a client.
CallTool ==
  /\ phase = "serving" /\ cfg \in CallConfig
  /\ \E plan \in Plans(cfg.operations, cfg.backend) :
       /\ plan.tool \in offered
       /\ \/ (\E s \in Session : tfeClient[s] # None) /\ BeginCall(plan)
          \/ RefuseCall(plan)
  /\ UNCHANGED <<startVars, frontVars, inspected>>

ServeCall ==
  /\ phase = "serving"
  /\ CallStep
  /\ UNCHANGED <<startVars, frontVars, inspected>>

\* The user and others act whether or not the server is there.
World ==
  /\ (UserStep /\ phase = "serving") \/ OthersStep
  /\ UNCHANGED <<startVars, frontVars, inspected>>

\* A call of a state tool on offer.
Inspect ==
  /\ phase = "serving" /\ cfg \in InspectConfig
  /\ \E t \in offered \cap (StateInspectionTools \ {"tf_list_workspaces", "tf_refresh_cache"}) :
       (\E state \in StateFile : InspectState(t, state)) \/ InspectFails(t)
  /\ UNCHANGED <<startVars, frontVars, tfeVars>>

Next == FrontStep \/ CallTool \/ ServeCall \/ World \/ Inspect

\* A call goes on: every request is answered or given up after the ten seconds of
\* createHTTPClient, and the handler's goroutine is scheduled.  Nothing else is
\* fair: the user need not answer.
Spec == Init /\ [][Next]_vars /\ WF_vars(ServeCall)

-----------------------------------------------------------------------------
(* Properties *)

\* Every variable has its type; no two workspaces have one name.
TypeOK ==
  /\ FrontTypeOK
  /\ TfeTypeOK
  /\ inspected.answer.tool \in {"none"} \cup StateInspectionTools

\* Exception: a call may set a workspace to apply its runs by itself
\* (update_workspace.go:121-124, create_workspace.go:90-127), or make one whose first
\* run does (create_no_code_workspace.go:93).
SetsWorkspace(what) == what \in {"create", "create from module", "update", "rename"}

\* Without ENABLE_TF_OPERATIONS no call of any tool applies, discards or cancels a
\* run, deletes a workspace, or asks for a run that destroys or is told to apply
\* itself, whichever run type a caller names and whichever tools are on offer, and a
\* run of type plan_and_apply is told not to.  All other runs do as the workspace is
\* set, which an earlier call may have done (dynamic_tool.go:141-198, create_run.go:78-88).
OperationsNeedOptIn ==
  cfg.operations \/
  \A i \in DOMAIN call.done :
    LET what == call.done[i].what
    IN /\ what \notin
            {"apply", "discard", "cancel", "delete", "safe delete", "auto_approve", "is_destroy"}
       /\ call.plan.autoApply = "true" => SetsWorkspace(what)
       /\ what = "plan_and_apply" => call.plan.autoApply = "false"

\* Every call ends, however its requests fail, an export stays pending and others
\* interfere, unless the server stops or the user leaves the form open.  That the list
\* of policy sets has a last page (MaxPages) is assumed: its loop goes on for as long
\* as a next page is named (get_sentinel_mock.go:64-115, policy_sets.go:113-160).
EveryCallEnds == Running ~> (Ended \/ Asking \/ phase = "stopped")
=============================================================================
