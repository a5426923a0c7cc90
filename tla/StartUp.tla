------------------------------ MODULE StartUp -------------------------------
(***************************************************************************)
(* How the server starts and which tools it offers: the commands and flags *)
(* of init.go and main.go, pkg/toolsets, the registration of tools         *)
(* (tools.go, and dynamic_tool.go once a session has a TFE client), TLS    *)
(* and the decision to listen.                                             *)
(*                                                                         *)
(* A configuration is a record: the command, the flags and the environment *)
(* variables that steer a decision.  A comma-separated flag is the set of  *)
(* its trimmed names, as only membership is ever asked of it.              *)
(***************************************************************************)
EXTENDS Naturals

CONSTANTS
  Config   \* the ways in which the server is started

VARIABLES
  cfg,                 \* the configuration of this process
  phase,               \* how far the process is
  enabledToolsets,     \* what the selection of toolsets gave
  offered,             \* the tools added to the MCP server
  tfeToolsRegistered

startVars == <<cfg, phase, enabledToolsets, offered, tfeToolsRegistered>>

Phase == {"launching", "registering", "binding", "serving", "failed", "stopped"}

-----------------------------------------------------------------------------
(* Toolsets and tools *)

Registry == "registry"
RegistryPrivate == "registry-private"
Terraform == "terraform"
StateInspection == "state-inspection"
All == "all"
Default == "default"
individualToolsMarker == "__individual_tools__"

DefaultToolsets == {Registry}

RegistryTools ==
  {"search_providers", "get_provider_details", "get_latest_provider_version",
   "get_provider_capabilities", "search_modules", "get_module_details",
   "get_latest_module_version", "search_policies", "get_policy_details"}

PrivateTools ==
  {"search_private_modules", "get_private_module_details",
   "search_private_providers", "get_private_provider_details"}

StateInspectionTools ==
  {"tf_list_workspaces", "tf_list_resources", "tf_get_resource",
   "tf_search_attributes", "tf_get_outputs", "tf_dependency_graph",
   "tf_diff_state", "tf_summary", "tf_refresh_cache"}

TerraformTools ==
  {"list_terraform_orgs", "list_terraform_projects", "list_workspaces",
   "get_workspace_details", "create_workspace", "create_no_code_workspace",
   "update_workspace", "delete_workspace_safely", "list_runs",
   "get_run_details", "get_plan_details", "get_plan_logs",
   "get_plan_json_output", "get_apply_details", "get_apply_logs",
   "get_sentinel_mock", "create_run", "action_run",
   "list_workspace_variables", "create_workspace_variable",
   "update_workspace_variable", "list_variable_sets", "create_variable_set",
   "create_variable_in_variable_set", "delete_variable_in_variable_set",
   "attach_variable_set_to_workspaces", "detach_variable_set_from_workspaces",
   "create_workspace_tags", "read_workspace_tags",
   "attach_policy_set_to_workspaces", "get_token_permissions", "list_stacks",
   "get_stack_details", "list_workspace_policy_sets"}

\* The tools that registerTFETools adds, and those that RegisterTools adds.
DynamicTools == PrivateTools \cup TerraformTools
StaticTools == RegistryTools \cup StateInspectionTools

Tool == DynamicTools \cup StaticTools

ToolToToolset ==
  [t \in Tool |-> IF t \in RegistryTools THEN Registry
                  ELSE IF t \in PrivateTools THEN RegistryPrivate
                  ELSE IF t \in StateInspectionTools THEN StateInspection
                  ELSE Terraform]

\* Faulty variant: names count as tools without the marker.
IsToolEnabled_NoMarker(t, enabled) ==
  All \in enabled \/ t \in enabled \/ (t \in Tool /\ ToolToToolset[t] \in enabled)

\* All, then the individual tools if the marker is there, then the toolset.
IsToolEnabled(t, enabled) ==
  \/ All \in enabled
  \/ individualToolsMarker \in enabled /\ t \in enabled
  \/ individualToolsMarker \notin enabled /\ ToolToToolset[t] \in enabled

-----------------------------------------------------------------------------
(* Flags *)

\* Blanks go; a name that is no toolset is reported and kept.
CleanToolsets(names) == names \ {""}

ExpandDefaultToolset(names) ==
  IF Default \in names THEN (names \ {Default}) \cup DefaultToolsets ELSE names

ParseToolsets(names) == ExpandDefaultToolset(CleanToolsets(names))

EnableIndividualTools(tools) == {individualToolsMarker} \cup tools

\* Names that are no tool are dropped; if none is left, the default toolsets.
ParseIndividualTools(names) ==
  IF names \cap Tool = {} THEN ParseToolsets({Default})
  ELSE EnableIndividualTools(names \cap Tool)

\* The flags as the process reads them.  c.toolsets is {} when the flag is not
\* given, else {its names}; its default is "all".  With an environment that asks
\* for HTTP, main reads the flags before the command line is parsed.
ToolsetsFlag(c) == IF c.envHttp \/ c.toolsets = {} THEN {All} ELSE UNION c.toolsets
ToolsFlag(c) == IF c.envHttp THEN {} ELSE c.tools

\* "Cannot use both --tools and --toolsets flags together": a fatal error.
FlagsConflict(c) == ToolsFlag(c) # {} /\ ToolsetsFlag(c) \notin {{}, {Default}}

GetToolsetsFromCmd(c) ==
  IF ToolsFlag(c) # {} THEN ParseIndividualTools(ToolsFlag(c))
  ELSE ParseToolsets(ToolsetsFlag(c))

\* The log file comes from a flag too, so with an HTTP environment it is none.
LoggerFails(c) == ~c.envHttp /\ ~c.logFileOk

\* The environment decides before any command is run.
Transport(c) ==
  IF c.envHttp \/ c.command \in {"streamable-http", "http"} THEN "http" ELSE "stdio"

-----------------------------------------------------------------------------
(* The process *)

\* main, or the command it runs: the logger and the selection of toolsets.
Launch ==
  /\ phase = "launching"
  /\ IF LoggerFails(cfg) \/ FlagsConflict(cfg)
     THEN /\ phase' = "failed"
          /\ UNCHANGED enabledToolsets
     ELSE /\ phase' = "registering"
          /\ enabledToolsets' = GetToolsetsFromCmd(cfg)
  /\ UNCHANGED <<cfg, offered, tfeToolsRegistered>>

\* On a network the state tools need a backend that knows who asks, or consent.
StateToolsAllowed(c, isNetworkTransport) ==
  isNetworkTransport => c.backend = "tfc" \/ c.allowShared

RegisterTools(isNetworkTransport) ==
  {t \in RegistryTools : IsToolEnabled(t, enabledToolsets)} \cup
  {t \in StateInspectionTools : /\ StateToolsAllowed(cfg, isNetworkTransport)
                                /\ IsToolEnabled(t, enabledToolsets)}

RunStdioServer ==
  /\ phase = "registering" /\ Transport(cfg) = "stdio"
  /\ offered' = RegisterTools(FALSE)
  /\ phase' = "binding"
  /\ UNCHANGED <<cfg, enabledToolsets, tfeToolsRegistered>>

RunHTTPServer ==
  /\ phase = "registering" /\ Transport(cfg) = "http"
  /\ offered' = RegisterTools(TRUE)
  /\ phase' = "binding"
  /\ UNCHANGED <<cfg, enabledToolsets, tfeToolsRegistered>>

ServerInit ==
  /\ phase = "binding" /\ Transport(cfg) = "stdio"
  /\ phase' = "serving"
  /\ UNCHANGED <<cfg, enabledToolsets, offered, tfeToolsRegistered>>

\* One file of the two, a file that cannot be read or a pair that does not fit
\* is an error; neither file means no TLS.
GetTLSConfigFromEnv(c) ==
  IF c.tls \in {"half", "invalid"} THEN "error" ELSE IF c.tls = "none" THEN "none" ELSE "config"

IsLocalHost(host) == host \in {"localhost", "127.0.0.1", "::1", "[::1]", "0.0.0.0"}

\* Listening may fail too: the address may be in use.
StreamableHTTPServerInit ==
  /\ phase = "binding" /\ Transport(cfg) = "http"
  /\ \/ phase' = "failed"
     \/ /\ GetTLSConfigFromEnv(cfg) # "error"
        /\ GetTLSConfigFromEnv(cfg) = "none" => IsLocalHost(cfg.host)
        /\ phase' = "serving"
  /\ UNCHANGED <<cfg, enabledToolsets, offered, tfeToolsRegistered>>

\* delete_workspace_safely and action_run exist only with ENABLE_TF_OPERATIONS.
OperationsGate(c, t) == t \in {"delete_workspace_safely", "action_run"} => c.operations

\* The first session with a TFE client; later ones find the flag set.
RegisterTFETools ==
  /\ phase = "serving" /\ ~tfeToolsRegistered
  /\ offered' = offered \cup
       {t \in DynamicTools : OperationsGate(cfg, t) /\ IsToolEnabled(t, enabledToolsets)}
  /\ tfeToolsRegistered' = TRUE
  /\ UNCHANGED <<cfg, phase, enabledToolsets>>

\* A signal, or the end of the input.
Stop ==
  /\ phase = "serving"
  /\ phase' = "stopped"
  /\ UNCHANGED <<cfg, enabledToolsets, offered, tfeToolsRegistered>>

StartInit ==
  /\ cfg \in Config
  /\ phase = "launching"
  /\ enabledToolsets = {} /\ offered = {}
  /\ tfeToolsRegistered = FALSE

ProcessNext ==
  \/ Launch
  \/ RunStdioServer \/ RunHTTPServer
  \/ ServerInit \/ StreamableHTTPServerInit
  \/ Stop

StartNext == ProcessNext \/ RegisterTFETools

StartSpec == StartInit /\ [][StartNext]_startVars

-----------------------------------------------------------------------------
(* Properties *)

StartTypeOK ==
  /\ cfg \in Config
  /\ phase \in Phase
  /\ offered \subseteq Tool
  /\ tfeToolsRegistered \in BOOLEAN

\* What the flags ask for, name by name: a name that is neither a toolset nor a tool
\* asks for nothing, and --tools with no name of a tool for the default toolset.
Wanted(c, t) ==
  IF ToolsFlag(c) \cap Tool # {} THEN t \in ToolsFlag(c)
  ELSE IF ToolsFlag(c) # {} THEN t \in RegistryTools
  ELSE LET names == UNION c.toolsets
       IN \/ All \in names
          \/ t \in RegistryTools /\ {Registry, Default} \cap names # {}
          \/ t \in PrivateTools /\ RegistryPrivate \in names
          \/ t \in StateInspectionTools /\ StateInspection \in names
          \/ t \in TerraformTools /\ Terraform \in names

\* Exception: without a flag, or with flags that are not read because the environment
\* asks for HTTP, the process offers every tool (init.go:127); README.md:538 names
\* "registry" as the default.
Unset(c) == ToolsFlag(c) = {} /\ (c.envHttp \/ c.toolsets = {})

\* Exception: the internal marker of --tools, given as a toolset, takes the other
\* toolsets away (mapping.go:131-134), although the process says of a name that is no
\* toolset that it is ignored (main.go:195).
MarkerGiven(c) ==
  /\ ToolsFlag(c) = {}
  /\ individualToolsMarker \in ToolsetsFlag(c) /\ All \notin ToolsetsFlag(c)

\* What a serving process withholds whatever the flags say.
Withheld(c, t) ==
  \/ t \in DynamicTools /\ ~tfeToolsRegistered
  \/ t \in {"delete_workspace_safely", "action_run"} /\ ~c.operations
  \/ t \in StateInspectionTools /\ Transport(c) = "http" /\ c.backend # "tfc" /\ ~c.allowShared

\* A serving process offers exactly the tools that its flags ask for, or every tool if
\* none is set, less those it withholds, whatever unknown names, blanks and defaults
\* the flags mix; with the marker among the toolsets it offers none that it withholds
\* (toolsets.go:80-132, mapping.go:91-144, tools.go:80-84, dynamic_tool.go:101).
ToolsOnOffer ==
  phase = "serving" =>
    /\ \A t \in offered : ~Withheld(cfg, t)
    /\ \/ MarkerGiven(cfg)
       \/ offered = {t \in Tool : (Unset(cfg) \/ Wanted(cfg, t)) /\ ~Withheld(cfg, t)}
=============================================================================
