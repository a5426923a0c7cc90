---------------------------- MODULE ServerProofs ----------------------------
(***************************************************************************)
(* Proofs about Server: what holds of the start-up, of the HTTP front and  *)
(* of the calls on their own holds of the server as a whole, for all       *)
(* configurations, requests, workspaces, names, modules and bounds.        *)
(***************************************************************************)
EXTENDS Server, HttpFrontProofs, StateToolsProofs, TfeToolsProofs

-----------------------------------------------------------------------------
(* The parts of a step *)

LEMMA StartPart == [Next]_vars => [StartNext]_startVars
<1> SUFFICES ASSUME [Next]_vars PROVE [StartNext]_startVars
  OBVIOUS
<1>1. CASE FrontStep
  BY <1>1, FrontStartStep DEF FrontStep
<1>2. CASE CallTool \/ ServeCall \/ World \/ Inspect
  BY <1>2 DEF CallTool, ServeCall, World, Inspect
<1> QED BY <1>1, <1>2 DEF Next, vars

LEMMA FrontPart == [Next]_vars => [FrontNext]_<<startVars, frontVars>>
  BY DEF Next, vars, FrontStep, CallTool, ServeCall, World, Inspect

LEMMA TfePart == [Next]_vars => [TfeStep]_tfeVars
<1> SUFFICES ASSUME [Next]_vars PROVE [TfeStep]_tfeVars
  OBVIOUS
<1>1. CASE FrontStep \/ Inspect
  BY <1>1 DEF FrontStep, Inspect
<1>2. CASE CallTool
  BY <1>2, GoodPlans DEF CallTool, TfeStep
<1>3. CASE ServeCall \/ World
  BY <1>3 DEF ServeCall, World, TfeStep
<1> QED BY <1>1, <1>2, <1>3 DEF Next, vars

LEMMA InitParts == Init => StartInit /\ FrontInit /\ TfeInit
  BY DEF Init, FrontInit

-----------------------------------------------------------------------------
(* Answers of the state tools *)

LEMMA InspectedAnswer ==
  \A state, other, answer : Inspected(state, other, answer) => inspected'.answer = answer
  BY InspectedIs

LEMMA AnswerTools ==
  /\ \A state, name : GetOutputs(state, name).tool = "tf_get_outputs"
  /\ \A state, address : GetResource(state, address).tool = "tf_get_resource"
  /\ \A state, query, type : SearchAttributes(state, query, type).tool = "tf_search_attributes"
  /\ \A state, types, modules : ListResources(state, types, modules).tool = "tf_list_resources"
  /\ \A state, type : DependencyGraph(state, type).tool = "tf_dependency_graph"
  /\ \A state : Summary(state).tool = "tf_summary"
  /\ \A state, path : DiffState(state, path).tool = "tf_diff_state"
<1>1. \A state, name : GetOutputs(state, name).tool = "tf_get_outputs"
  BY AnswerParts DEF GetOutputs
<1>2. \A state, address : GetResource(state, address).tool = "tf_get_resource"
  BY AnswerParts DEF GetResource
<1>3. \A state, query, type : SearchAttributes(state, query, type).tool = "tf_search_attributes"
  BY AnswerParts DEF SearchAttributes
<1>4. \A state, types, modules : ListResources(state, types, modules).tool = "tf_list_resources"
  BY AnswerParts DEF ListResources
<1>5. \A state, type : DependencyGraph(state, type).tool = "tf_dependency_graph"
  BY AnswerParts DEF DependencyGraph
<1>6. \A state : Summary(state).tool = "tf_summary"
  BY AnswerParts DEF Summary
<1>7. \A state, path : DiffState(state, path).tool = "tf_diff_state"
  BY DEF DiffState, ErrorOf, AnswerTo, NoAnswer
<1> QED BY <1>1, <1>2, <1>3, <1>4, <1>5, <1>6, <1>7

-----------------------------------------------------------------------------
(* Calls without ENABLE_TF_OPERATIONS *)

\* Without it the call, whose tool was on offer, has a tool and a plan that make no
\* such change.
OptInInv ==
  call.status # "none" /\ ~cfg.operations =>
    call.plan.tool \notin {"action_run", "delete_workspace_safely"} /\ MildPlan(call.plan)

\* The two tools are on offer only with the environment variable.
LEMMA OfferGated ==
  ASSUME Inv, phase = "serving", ~cfg.operations
  PROVE  offered \cap {"action_run", "delete_workspace_safely"} = {}
<1>1. offered \subseteq StaticOffer \cup DynamicOffer
  BY DEF Inv
<1>2. DynamicOffer \cap {"action_run", "delete_workspace_safely"} = {}
  BY DEF DynamicOffer, OperationsGate
<1>3. {"action_run", "delete_workspace_safely"} \subseteq DynamicTools
  BY DEF DynamicTools, TerraformTools
<1>4. StaticOffer \cap DynamicTools = {}
  BY ToolsetsApart DEF StaticOffer, StaticTools, DynamicTools
<1> QED BY <1>1, <1>2, <1>3, <1>4

LEMMA OptInStep ==
  ASSUME Inv, TfeInv, OptInInv, [Next]_vars
  PROVE  OptInInv'
<1>1. cfg' = cfg
  BY StartPart, StartTypes DEF Inv
<1>2. CASE CallTool
  <2>1. PICK plan \in Plans(cfg.operations, cfg.backend) :
          plan.tool \in offered /\ (BeginCall(plan) \/ RefuseCall(plan))
    BY <1>2 DEF CallTool
  <2>2. call'.plan = plan
    <3>1. CASE BeginCall(plan)
      <4>1. PICK name, wid : call' = Begun(plan, name, wid)
        BY <3>1 DEF BeginCall
      <4>2. Begun(plan, name, wid).plan = plan
        BY DEF Begun
      <4> QED BY <4>1, <4>2
    <3>2. CASE RefuseCall(plan)
      <4> DEFINE c == Begun(plan, "", "")
      <4>1. DOMAIN c = Fields /\ c.plan = plan
        BY DEF Begun, Fields
      <4>2. call' = [c EXCEPT !.status = "error"]
        BY <3>2 DEF RefuseCall
      <4> HIDE DEF c
      <4> QED BY <4>1, <4>2 DEF Fields
    <3> QED BY <2>1, <3>1, <3>2
  <2>3. ~cfg.operations => plan.tool \notin {"action_run", "delete_workspace_safely"}
    BY <1>2, <2>1, OfferGated DEF CallTool
  <2>4. ~cfg.operations => MildPlan(plan)
    BY <2>1, MildPlans
  <2> QED BY <1>1, <2>2, <2>3, <2>4 DEF OptInInv
<1>3. CASE ServeCall \/ World
  <2>1. Running /\ call'.plan = call.plan
    <3>1. CASE CallStep \/ UserStep
      BY <3>1, KindsOfSteps, Common DEF TfeInv
    <3>2. CASE OthersStep
      BY <3>2, InterferesIt, CallStays DEF TfeInv, SameBut, Fields, Interferes
    <3> QED BY <1>3, <3>1, <3>2 DEF ServeCall, World
  <2> QED BY <1>1, <2>1 DEF OptInInv, Running
<1>4. CASE call' = call
  BY <1>1, <1>4 DEF OptInInv
<1> QED BY <1>2, <1>3, <1>4 DEF Next, vars, FrontStep, Inspect, tfeVars

LEMMA OptedIn ==
  ASSUME TfeInv, OptInInv
  PROVE  OperationsNeedOptIn
<1> SUFFICES ASSUME ~cfg.operations, NEW i \in DOMAIN call.done
             PROVE  /\ call.done[i].what \notin
                         {"apply", "discard", "cancel", "delete", "safe delete", "auto_approve", "is_destroy"}
                    /\ call.plan.autoApply = "true" => SetsWorkspace(call.done[i].what)
                    /\ call.done[i].what = "plan_and_apply" => call.plan.autoApply = "false"
  BY DEF OperationsNeedOptIn
<1>1. PICK j \in 1..Len(call.plan.todo) :
        call.plan.todo[j].op = "change" /\ call.plan.todo[j].what = call.done[i].what
  BY DEF TfeInv, WhatInv
<1>2. call.status # "none"
  BY DEF TfeInv, ShapeInv
<1>3. GoodRequest(call.plan, call.plan.todo[j], j)
  BY <1>2 DEF TfeInv, ShapeInv, GoodPlan
<1>4. /\ Allowed(call.plan.autoApply, call.plan.todo[j])
      /\ call.plan.tool \notin {"action_run", "delete_workspace_safely"}
  BY <1>2 DEF OptInInv, MildPlan
<1>5. call.done[i].what \notin {"apply", "discard", "cancel", "delete", "safe delete"}
  BY <1>1, <1>3, <1>4 DEF GoodRequest
<1> QED BY <1>1, <1>4, <1>5 DEF Allowed, SetsWorkspace

-----------------------------------------------------------------------------
(* The server *)

\* The parts of the server's behaviours, for every value of the constants: the
\* process starts as StartUp says, the front serves as HttpFront says, and calls go
\* on as TfeTools says (main.go, init.go, pkg/client, pkg/tools/tfe).
THEOREM Parts ==
  Spec => /\ []Inv /\ []FrontInv /\ []TfeInv
          /\ [][Next]_vars
<1>1. Init /\ [][Next]_vars => []Inv
  BY InitParts, StartPart, InitInv, NextInv, PTL
<1>2. Init /\ [][Next]_vars => []FrontInv
  BY InitParts, FrontPart, FrontInitInv, FrontNextInv, PTL
<1>3. Init /\ [][Next]_vars => []TfeInv
  BY InitParts, TfePart, TfeInitInv, TfeStepInv, PTL
<1> QED BY <1>1, <1>2, <1>3, PTL DEF Spec

\* A serving process offers the tools it was asked for, less those it withholds, but
\* for a command line without --toolsets or with the internal name (toolsets.go:80-132, mapping.go:91-144, tools.go:80-84, dynamic_tool.go:101).
THEOREM ServerOffer == Spec => []ToolsOnOffer
<1>1. Inv => ToolsOnOffer
  BY InvOffer
<1> QED BY <1>1, Parts, PTL

\* Every client is made of one request of its own session, and goes elsewhere with a
\* token of the server's own only if the query of that request says so
\* (middleware.go:139-202, tfe_client.go:103-127).
THEOREM ServerOwnRequest == Spec => []ClientFromOwnRequest
<1>1. FrontInv => ClientFromOwnRequest
  BY DEF FrontInv
<1> QED BY <1>1, Parts, PTL

\* A call by name keeps to one workspace, which had the name during the call,
\* whatever others do to names meanwhile (create_run.go:72-95,
\* workspace_tags.go:74-79, workspace_variables.go:50-55).
THEOREM ServerKeepsToNamed == Spec => []KeepsToNamedWorkspace
<1>1. TfeInv => KeepsToNamedWorkspace
  BY TfeInvShows
<1> QED BY <1>1, Parts, PTL

\* What a call answers tells what it changed, whatever requests fail and whatever
\* answers are lost; an error of a tool that could not describe its change tells of
\* one (tfe_client.go:40, create_run.go:101-103, update_workspace.go:172-175 and the
\* other handlers of pkg/tools/tfe).
THEOREM ServerChangesMatch == Spec => []ChangesMatchAnswers
<1>1. TfeInv => ChangesMatchAnswers
  BY TfeInvShows
<1> QED BY <1>1, Parts, PTL

\* A no-code workspace is made of a form the user accepted, with the inputs of one
\* version that was pinned during the call (create_no_code_workspace.go:75-99, 281-382).
THEOREM ServerConsent == Spec => []NoCodeNeedsConsent
<1>1. TfeInv => NoCodeNeedsConsent
  BY TfeInvShows
<1> QED BY <1>1, Parts, PTL

\* No step of the server takes away a workspace that has managed resources at that
\* moment (delete_workspace_safely.go:50-55).
THEOREM ServerSafeDelete == Spec => SafeDelete
<1>1. TfeInv /\ [Next]_vars =>
        [\A w \in managed : wsName[w] # Gone /\ wsName'[w] = Gone => changes' # changes]_tfeVars
  <2> SUFFICES ASSUME TfeInv, [Next]_vars, NEW w \in managed, wsName[w] # Gone, wsName'[w] = Gone
               PROVE  changes' # changes
    OBVIOUS
  <2>1. [TfeStep]_tfeVars
    BY TfePart
  <2> QED BY <2>1, SafeStep
<1> QED BY <1>1, Parts, PTL DEF SafeDelete

\* Without ENABLE_TF_OPERATIONS no call applies, discards or cancels a run, deletes a
\* workspace, or asks for a run that destroys or is told to apply itself, whichever
\* tools are on offer; a run of type plan_and_apply is told not to, and auto_apply goes
\* with nothing but a workspace (dynamic_tool.go:141-198, create_run.go:78-90,
\* update_workspace.go:121-124, create_no_code_workspace.go:93).
THEOREM ServerOptIn == Spec => []OperationsNeedOptIn
<1>1. Init => OptInInv
  <2> SUFFICES ASSUME Init PROVE OptInInv
    OBVIOUS
  <2>1. call = NoCall
    BY DEF Init, TfeInit
  <2> QED BY <2>1, NoCallFields DEF OptInInv
<1>2. Inv /\ TfeInv /\ OptInInv /\ [Next]_vars => OptInInv'
  BY OptInStep
<1>3. Spec => []OptInInv
  BY <1>1, <1>2, Parts, PTL DEF Spec
<1>4. TfeInv /\ OptInInv => OperationsNeedOptIn
  BY OptedIn
<1> QED BY <1>3, <1>4, Parts, PTL

\* Every variable has its type, no two workspaces have one name, a call polls and
\* retries no more than it may, and an answer is of a state tool (tools.go:80-84).
THEOREM ServerTyping == Spec => []TypeOK
<1> DEFINE AnswerOK == inspected.answer.tool \in {"none"} \cup StateInspectionTools
<1>1. Init => AnswerOK
  BY DEF Init, InspectInit, NoAnswer
<1>2. AnswerOK /\ [Next]_vars => AnswerOK'
  <2> SUFFICES ASSUME AnswerOK, [Next]_vars PROVE AnswerOK'
    OBVIOUS
  <2>1. CASE Inspect
    <3>1. PICK t \in StateInspectionTools :
            (\E state \in StateFile : InspectState(t, state)) \/ InspectFails(t)
      BY <2>1 DEF Inspect
    <3>2. ASSUME NEW state, InspectState(t, state) PROVE inspected'.answer.tool = t
      <4> DEFINE Gives(a) == inspected'.answer = a
      <4>1. CASE t = "tf_get_outputs"
        <5>1. \E name : Gives(GetOutputs(state, name))
          BY <3>2, <4>1, InspectedAnswer DEF InspectState
        <5> QED BY <4>1, <5>1, AnswerTools
      <4>2. CASE t = "tf_get_resource"
        <5>1. \E address : Gives(GetResource(state, address))
          BY <3>2, <4>2, InspectedAnswer DEF InspectState
        <5> QED BY <4>2, <5>1, AnswerTools
      <4>3. CASE t = "tf_search_attributes"
        <5>1. \E query, type : Gives(SearchAttributes(state, query, type))
          BY <3>2, <4>3, InspectedAnswer DEF InspectState
        <5> QED BY <4>3, <5>1, AnswerTools
      <4>4. CASE t = "tf_list_resources"
        <5>1. \E types, modules : Gives(ListResources(state, types, modules))
          BY <3>2, <4>4, InspectedAnswer DEF InspectState
        <5> QED BY <4>4, <5>1, AnswerTools
      <4>5. CASE t = "tf_dependency_graph"
        <5>1. \E type : Gives(DependencyGraph(state, type))
          BY <3>2, <4>5, InspectedAnswer DEF InspectState
        <5> QED BY <4>5, <5>1, AnswerTools
      <4>6. CASE t = "tf_summary"
        <5>1. Gives(Summary(state))
          BY <3>2, <4>6, InspectedAnswer DEF InspectState
        <5> QED BY <4>6, <5>1, AnswerTools
      <4>7. CASE t = "tf_diff_state"
        <5>1. \E path : Gives(DiffState(state, path))
          BY <3>2, <4>7, InspectedAnswer DEF InspectState
        <5> QED BY <4>7, <5>1, AnswerTools
      <4>8. t \in {"tf_get_outputs", "tf_get_resource", "tf_search_attributes",
                  "tf_list_resources", "tf_dependency_graph", "tf_summary", "tf_diff_state"}
        BY <3>2 DEF InspectState
      <4> QED BY <4>1, <4>2, <4>3, <4>4, <4>5, <4>6, <4>7, <4>8
    <3>3. CASE InspectFails(t)
      BY <3>1, <3>3, InspectedAnswer DEF InspectFails, ErrorOf, NoAnswer
    <3> QED BY <3>1, <3>2, <3>3
  <2>2. CASE UNCHANGED inspected
    BY <2>2
  <2> QED BY <2>1, <2>2 DEF Next, vars, FrontStep, CallTool, ServeCall, World
<1>3. FrontInv /\ TfeInv /\ AnswerOK => TypeOK
  BY TfeInvShows DEF TypeOK, FrontInv
<1>4. Spec => []AnswerOK
  <2> HIDE DEF AnswerOK
  <2> QED BY <1>1, <1>2, PTL DEF Spec
<1> HIDE DEF AnswerOK
<1> QED BY <1>3, <1>4, Parts, PTL

\* A step of the server is a call of a state tool, or leaves the last answer alone.
LEMMA InspectPart ==
  ASSUME [Next]_vars
  PROVE  \/ \E t : (\E state \in StateFile : InspectState(t, state)) \/ InspectFails(t)
         \/ UNCHANGED inspected
<1>1. CASE Inspect
  BY <1>1 DEF Inspect
<1>2. CASE UNCHANGED inspected
  BY <1>2
<1> QED BY <1>1, <1>2 DEF Next, vars, FrontStep, CallTool, ServeCall, World

\* Whatever is called, with whatever parameters and on whatever states, no answer of a
\* state tool shows a value that is sensitive or below a key that matches
\* (redact.go:21-141, search_attributes.go:119-145, get_outputs.go:60-85).
THEOREM ServerNothingSensitive == Spec => []NothingSensitiveShown
<1>1. Init => NothingSensitiveShown
  BY InspectStart DEF Init
<1>2. NothingSensitiveShown /\ [Next]_vars => NothingSensitiveShown'
  <2> SUFFICES ASSUME NothingSensitiveShown, [Next]_vars PROVE NothingSensitiveShown'
    OBVIOUS
  <2>1. CASE UNCHANGED inspected
    BY <2>1 DEF NothingSensitiveShown
  <2> QED BY <2>1, InspectPart, InspectStep
<1> QED BY <1>1, <1>2, PTL DEF Spec

\* Every diff of two states reports each difference of values that are no secrets,
\* and nothing that did not differ before redaction (diff_state.go:81-175).
THEOREM ServerDiff == Spec => []DiffReportsVisibleChanges
<1>1. Init => DiffReportsVisibleChanges
  BY InspectStart DEF Init
<1>2. DiffReportsVisibleChanges /\ [Next]_vars => DiffReportsVisibleChanges'
  <2> SUFFICES ASSUME DiffReportsVisibleChanges, [Next]_vars PROVE DiffReportsVisibleChanges'
    OBVIOUS
  <2>1. CASE UNCHANGED inspected
    BY <2>1 DEF DiffReportsVisibleChanges
  <2> QED BY <2>1, InspectPart, InspectStep
<1> QED BY <1>1, <1>2, PTL DEF Spec

\* Every call asks the server and its user only so often, whatever fails, stays pending
\* or is changed by others: each step of a call spends of its budget, nothing gives back
\* to it, and it runs only while some is left.  At first the budget is what the plan, the
\* pages and the attempts need, each sent as often as MaxTries allows
\* (tfe_client.go:40, get_sentinel_mock.go:64-115, policy_sets.go:113-160).
THEOREM ServerCallsSpend ==
  Spec => /\ []BudgetOK
          /\ [][ /\ ServeCall \/ UserStep => Budget' < Budget
                 /\ Running => Budget' <= Budget ]_vars
<1>1. TfeInv => BudgetOK
  BY BudgetType DEF TfeInv
<1>2. TfeInv /\ [Next]_vars =>
        [ /\ ServeCall \/ UserStep => Budget' < Budget
          /\ Running => Budget' <= Budget ]_vars
  <2> SUFFICES ASSUME TfeInv, [Next]_vars
               PROVE  /\ ServeCall \/ UserStep => Budget' < Budget
                      /\ Running => Budget' <= Budget
    OBVIOUS
  <2>1. ShapeInv /\ PollsInv /\ BudgetOK
    BY <1>1 DEF TfeInv
  <2>2. ServeCall \/ UserStep => Budget' < Budget
    BY <2>1, BudgetSpent DEF ServeCall
  <2>3. ASSUME Running PROVE Budget' <= Budget
    <3>1. CASE ServeCall \/ UserStep
      <4>1. ShapeInv' /\ PollsInv'
        BY <2>1, <3>1, KindsOfSteps, ShapeKinds, PollsStep DEF ServeCall
      <4>2. BudgetOK'
        BY <4>1, BudgetType, PTL
      <4> QED BY <2>1, <2>2, <3>1, <4>2 DEF BudgetOK
    <3>2. CASE OthersStep
      BY <2>1, <3>2, BudgetKept DEF BudgetOK
    <3>3. CASE call' = call
      BY <2>1, <3>3 DEF BudgetOK, Budget, Outstanding, PollLimit, Running
    <3>4. ~CallTool
      BY <2>3 DEF CallTool, BeginCall, RefuseCall, Running
    <3> QED BY <3>1, <3>2, <3>3, <3>4 DEF Next, vars, FrontStep, World, Inspect, tfeVars
  <2> QED BY <2>2, <2>3
<1> QED BY <1>1, <1>2, Parts, PTL
=============================================================================
