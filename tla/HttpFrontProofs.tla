-------------------------- MODULE HttpFrontProofs ---------------------------
(***************************************************************************)
(* Proofs about StartUp and about HttpFront, which goes on from it.  For   *)
(* every set of configurations the tools on offer are those that the flags *)
(* ask for, less those that are withheld.  For all sets of sessions,       *)
(* requests, addresses and credentials each client is made of one request  *)
(* of its own session.                                                     *)
(***************************************************************************)
EXTENDS HttpFront, TLAPS

-----------------------------------------------------------------------------
(* Names *)

\* No tool belongs to two toolsets (mapping.go:8-72).
LEMMA ToolsetsApart ==
  /\ RegistryTools \cap PrivateTools = {} /\ RegistryTools \cap StateInspectionTools = {}
  /\ RegistryTools \cap TerraformTools = {} /\ PrivateTools \cap StateInspectionTools = {}
  /\ PrivateTools \cap TerraformTools = {} /\ StateInspectionTools \cap TerraformTools = {}
  BY DEF RegistryTools, PrivateTools, StateInspectionTools, TerraformTools

\* No tool has the name of a toolset, of the marker or of nothing.
LEMMA NamesApart ==
  /\ All \notin Tool /\ Default \notin Tool /\ individualToolsMarker \notin Tool
  /\ Registry \notin Tool /\ "" \notin Tool
  BY DEF Tool, DynamicTools, StaticTools, RegistryTools, PrivateTools, StateInspectionTools,
         TerraformTools, All, Default, individualToolsMarker, Registry

\* The names of the toolsets, the marker and the empty name differ.
LEMMA ToolsetNames ==
  /\ All # Default /\ All # individualToolsMarker /\ All # Registry /\ All # ""
  /\ Default # individualToolsMarker /\ Default # Registry /\ Default # RegistryPrivate
  /\ Default # StateInspection /\ Default # Terraform
  /\ individualToolsMarker # Registry /\ individualToolsMarker # ""
  /\ Registry # RegistryPrivate /\ Registry # StateInspection /\ Registry # Terraform
  /\ RegistryPrivate # StateInspection /\ RegistryPrivate # Terraform
  /\ StateInspection # Terraform
  /\ Registry # "" /\ RegistryPrivate # "" /\ StateInspection # "" /\ Terraform # "" /\ Default # ""
  BY DEF All, Default, individualToolsMarker, Registry, RegistryPrivate, StateInspection, Terraform

\* The toolset of a tool tells in which of the four sets it is.
LEMMA ToolsetOf ==
  ASSUME NEW t \in Tool
  PROVE  /\ ToolToToolset[t] \in {Registry, RegistryPrivate, StateInspection, Terraform}
         /\ ToolToToolset[t] = Registry <=> t \in RegistryTools
         /\ ToolToToolset[t] = RegistryPrivate <=> t \in PrivateTools
         /\ ToolToToolset[t] = StateInspection <=> t \in StateInspectionTools
         /\ ToolToToolset[t] = Terraform <=> t \in TerraformTools
  BY ToolsetsApart, ToolsetNames DEF ToolToToolset, Tool, DynamicTools, StaticTools

-----------------------------------------------------------------------------
(* Selection *)

\* What the process makes of its flags, name by name.
Selected(c, t) ==
  IF ToolsFlag(c) \cap Tool # {} THEN t \in ToolsFlag(c)
  ELSE \/ ToolsFlag(c) # {} /\ t \in RegistryTools
       \/ /\ ToolsFlag(c) = {}
          /\ \/ All \in ToolsetsFlag(c)
             \/ /\ individualToolsMarker \in ToolsetsFlag(c)
                /\ t \in ToolsetsFlag(c)
             \/ /\ individualToolsMarker \notin ToolsetsFlag(c)
                /\ \/ t \in RegistryTools /\ {Registry, Default} \cap ToolsetsFlag(c) # {}
                   \/ t \in PrivateTools /\ RegistryPrivate \in ToolsetsFlag(c)
                   \/ t \in StateInspectionTools /\ StateInspection \in ToolsetsFlag(c)
                   \/ t \in TerraformTools /\ Terraform \in ToolsetsFlag(c)

\* It is what they ask for, or everything, unless the marker is among the toolsets
\* (init.go:127, main.go:222-254).
LEMMA SelectedIfWanted ==
  ASSUME NEW c, NEW t, ~MarkerGiven(c)
  PROVE  Selected(c, t) <=> Unset(c) \/ Wanted(c, t)
<1>1. CASE ToolsFlag(c) # {}
  BY <1>1 DEF Selected, Wanted, Unset
<1>2. CASE ToolsFlag(c) = {} /\ (c.envHttp \/ c.toolsets = {})
  BY <1>2 DEF Selected, Unset, ToolsetsFlag
<1>3. CASE ToolsFlag(c) = {} /\ ~(c.envHttp \/ c.toolsets = {})
  <2>1. ToolsetsFlag(c) = UNION c.toolsets
    BY <1>3 DEF ToolsetsFlag
  <2>2. individualToolsMarker \in ToolsetsFlag(c) => All \in ToolsetsFlag(c)
    BY <1>3 DEF MarkerGiven
  <2> QED BY <1>3, <2>1, <2>2 DEF Selected, Wanted, Unset
<1> QED BY <1>1, <1>2, <1>3

\* A tool is enabled by what the flags give exactly if they select it
\* (main.go:190-254, toolsets.go:80-132, mapping.go:91-144).
LEMMA EnabledIfSelected ==
  ASSUME NEW c, NEW t \in Tool
  PROVE  IsToolEnabled(t, GetToolsetsFromCmd(c)) <=> Selected(c, t)
<1>1. CASE ToolsFlag(c) \cap Tool # {}
  <2>1. GetToolsetsFromCmd(c) = {individualToolsMarker} \cup (ToolsFlag(c) \cap Tool)
    BY <1>1 DEF GetToolsetsFromCmd, ParseIndividualTools, EnableIndividualTools
  <2>2. All \notin GetToolsetsFromCmd(c)
    BY <2>1, NamesApart, ToolsetNames
  <2>3. t \in GetToolsetsFromCmd(c) <=> t \in ToolsFlag(c)
    BY <2>1, NamesApart
  <2> QED BY <1>1, <2>1, <2>2, <2>3 DEF IsToolEnabled, Selected
<1>2. CASE ToolsFlag(c) # {} /\ ToolsFlag(c) \cap Tool = {}
  <2>1. GetToolsetsFromCmd(c) = ParseToolsets({Default})
    BY <1>2 DEF GetToolsetsFromCmd, ParseIndividualTools
  <2>2. GetToolsetsFromCmd(c) = {Registry}
    BY <2>1, ToolsetNames DEF ParseToolsets, CleanToolsets, ExpandDefaultToolset, DefaultToolsets
  <2> QED BY <1>2, <2>2, ToolsetNames, ToolsetOf DEF IsToolEnabled, Selected
<1>3. CASE ToolsFlag(c) = {}
  <2> DEFINE flag == ToolsetsFlag(c)
             enabled == GetToolsetsFromCmd(c)
  <2>1. enabled = ParseToolsets(flag)
    BY <1>3 DEF GetToolsetsFromCmd
  <2>2. \A n : n \notin {"", Default, Registry} => (n \in enabled <=> n \in flag)
    BY <2>1 DEF ParseToolsets, CleanToolsets, ExpandDefaultToolset, DefaultToolsets
  <2>3. Registry \in enabled <=> Registry \in flag \/ Default \in flag
    BY <2>1, ToolsetNames DEF ParseToolsets, CleanToolsets, ExpandDefaultToolset, DefaultToolsets
  <2>4. /\ All \in enabled <=> All \in flag
        /\ individualToolsMarker \in enabled <=> individualToolsMarker \in flag
        /\ RegistryPrivate \in enabled <=> RegistryPrivate \in flag
        /\ StateInspection \in enabled <=> StateInspection \in flag
        /\ Terraform \in enabled <=> Terraform \in flag
    BY <2>2, ToolsetNames
  <2>5. t \in enabled <=> t \in flag
    BY <2>2, NamesApart
  <2>6. ToolToToolset[t] \in enabled <=>
          \/ t \in RegistryTools /\ {Registry, Default} \cap flag # {}
          \/ t \in PrivateTools /\ RegistryPrivate \in flag
          \/ t \in StateInspectionTools /\ StateInspection \in flag
          \/ t \in TerraformTools /\ Terraform \in flag
    <3> HIDE DEF flag, enabled
    <3> QED BY <2>3, <2>4, ToolsetOf, ToolsetNames
  <2>7. Selected(c, t) <=>
          \/ All \in flag
          \/ individualToolsMarker \in flag /\ t \in flag
          \/ /\ individualToolsMarker \notin flag
             /\ \/ t \in RegistryTools /\ {Registry, Default} \cap flag # {}
                \/ t \in PrivateTools /\ RegistryPrivate \in flag
                \/ t \in StateInspectionTools /\ StateInspection \in flag
                \/ t \in TerraformTools /\ Terraform \in flag
    BY <1>3 DEF Selected
  <2> HIDE DEF flag
  <2> QED BY <2>4, <2>5, <2>6, <2>7 DEF IsToolEnabled
<1> QED BY <1>1, <1>2, <1>3

-----------------------------------------------------------------------------
(* The process *)

\* The tools without those of a session.
StaticOffer ==
  {t \in StaticTools :
     /\ Selected(cfg, t)
     /\ t \in StateInspectionTools => StateToolsAllowed(cfg, Transport(cfg) = "http")}

DynamicOffer == {t \in DynamicTools : OperationsGate(cfg, t) /\ Selected(cfg, t)}

\* The selection is that of the flags from registration on, and then the offer is
\* made of it, in one part or two.
Inv ==
  /\ StartTypeOK
  /\ phase \in {"registering", "binding", "serving", "stopped"} =>
       enabledToolsets = GetToolsetsFromCmd(cfg)
  /\ phase \in {"launching", "registering", "binding"} => ~tfeToolsRegistered
  /\ phase \in {"binding", "serving", "stopped"} =>
       offered = StaticOffer \cup (IF tfeToolsRegistered THEN DynamicOffer ELSE {})

\* What RegisterTools adds on either transport.
LEMMA Registered ==
  ASSUME enabledToolsets = GetToolsetsFromCmd(cfg),
         NEW network \in BOOLEAN, network = (Transport(cfg) = "http")
  PROVE  RegisterTools(network) = StaticOffer
<1>1. \A t \in Tool : IsToolEnabled(t, enabledToolsets) <=> Selected(cfg, t)
  BY EnabledIfSelected
<1>2. RegistryTools \subseteq Tool /\ StateInspectionTools \subseteq Tool
  BY DEF Tool, StaticTools
<1> QED BY <1>1, <1>2, ToolsetsApart DEF RegisterTools, StaticOffer, StaticTools

LEMMA InitInv == StartInit => Inv
  BY DEF StartInit, Inv, StartTypeOK, Phase

LEMMA NextInv == Inv /\ [StartNext]_startVars => Inv'
<1> SUFFICES ASSUME Inv, [StartNext]_startVars PROVE Inv'
  OBVIOUS
<1> USE DEF Inv
<1>1. CASE Launch
  BY <1>1 DEF Launch, StartTypeOK, Phase
<1>2. CASE RunStdioServer
  <2>1. RegisterTools(FALSE) = StaticOffer
    BY <1>2, Registered DEF RunStdioServer
  <2>2. StaticOffer' = StaticOffer
    BY <1>2 DEF RunStdioServer, StaticOffer
  <2>3. StaticOffer \subseteq Tool
    BY DEF StaticOffer, Tool
  <2> QED BY <1>2, <2>1, <2>2, <2>3 DEF RunStdioServer, StartTypeOK, Phase
<1>3. CASE RunHTTPServer
  <2>1. RegisterTools(TRUE) = StaticOffer
    BY <1>3, Registered DEF RunHTTPServer
  <2>2. StaticOffer' = StaticOffer
    BY <1>3 DEF RunHTTPServer, StaticOffer
  <2>3. StaticOffer \subseteq Tool
    BY DEF StaticOffer, Tool
  <2> QED BY <1>3, <2>1, <2>2, <2>3 DEF RunHTTPServer, StartTypeOK, Phase
<1>4. CASE ServerInit \/ StreamableHTTPServerInit \/ Stop
  <2>1. UNCHANGED <<cfg, enabledToolsets, offered, tfeToolsRegistered>>
    BY <1>4 DEF ServerInit, StreamableHTTPServerInit, Stop
  <2>2. StaticOffer' = StaticOffer /\ DynamicOffer' = DynamicOffer
    BY <2>1 DEF StaticOffer, DynamicOffer
  <2>3. /\ phase \in {"binding", "serving"}
        /\ phase' \in {"serving", "failed", "stopped"}
    BY <1>4 DEF ServerInit, StreamableHTTPServerInit, Stop
  <2> QED BY <2>1, <2>2, <2>3 DEF StartTypeOK, Phase
<1>5. CASE RegisterTFETools
  <2>1. \A t \in Tool : IsToolEnabled(t, enabledToolsets) <=> Selected(cfg, t)
    BY <1>5, EnabledIfSelected DEF RegisterTFETools
  <2>2. {t \in DynamicTools : OperationsGate(cfg, t) /\ IsToolEnabled(t, enabledToolsets)}
          = DynamicOffer
    BY <2>1 DEF DynamicOffer, Tool
  <2>3. StaticOffer' = StaticOffer /\ DynamicOffer' = DynamicOffer
    BY <1>5 DEF RegisterTFETools, StaticOffer, DynamicOffer
  <2>4. offered' = StaticOffer' \cup DynamicOffer' /\ tfeToolsRegistered'
    BY <1>5, <2>2, <2>3 DEF RegisterTFETools
  <2>5. offered' \subseteq Tool
    BY <2>4 DEF StaticOffer, DynamicOffer, Tool
  <2> QED BY <1>5, <2>4, <2>5 DEF RegisterTFETools, StartTypeOK, Phase
<1>6. CASE UNCHANGED startVars
  <2>1. StaticOffer' = StaticOffer /\ DynamicOffer' = DynamicOffer
    BY <1>6 DEF startVars, StaticOffer, DynamicOffer
  <2> QED BY <1>6, <2>1 DEF startVars, StartTypeOK
<1> QED BY <1>1, <1>2, <1>3, <1>4, <1>5, <1>6 DEF StartNext, ProcessNext

\* The invariant, for every set of configurations (main.go:190-254, init.go).
THEOREM Invariance == StartSpec => []Inv
  BY InitInv, NextInv, PTL DEF StartSpec

\* The types of the start-up module, for every set of configurations.
THEOREM Typing == StartSpec => []StartTypeOK
<1>1. Inv => StartTypeOK
  BY DEF Inv
<1> QED BY <1>1, Invariance, PTL

-----------------------------------------------------------------------------
LEMMA InvOffer == Inv => ToolsOnOffer
<1> SUFFICES ASSUME Inv, phase = "serving"
             PROVE  offered = {t \in Tool : Selected(cfg, t) /\ ~Withheld(cfg, t)}
  BY SelectedIfWanted DEF ToolsOnOffer
<1>1. \A t \in StaticTools : t \in StaticOffer <=> Selected(cfg, t) /\ ~Withheld(cfg, t)
  <2>1. \A t \in StaticTools : t \notin DynamicTools
    BY ToolsetsApart DEF StaticTools, DynamicTools
  <2>2. \A t \in StaticTools : t \notin {"delete_workspace_safely", "action_run"}
    <3>1. {"delete_workspace_safely", "action_run"} \subseteq TerraformTools
      BY DEF TerraformTools
    <3> QED BY <2>1, <3>1 DEF DynamicTools
  <2> QED BY <2>1, <2>2 DEF StaticOffer, Withheld, StateToolsAllowed
<1>2. \A t \in DynamicTools :
        t \in DynamicOffer /\ tfeToolsRegistered <=> Selected(cfg, t) /\ ~Withheld(cfg, t)
  BY ToolsetsApart DEF DynamicOffer, Withheld, OperationsGate, DynamicTools
<1>3. offered = StaticOffer \cup (IF tfeToolsRegistered THEN DynamicOffer ELSE {})
  BY DEF Inv
<1>4. StaticOffer \subseteq StaticTools /\ DynamicOffer \subseteq DynamicTools
  BY DEF StaticOffer, DynamicOffer
<1>5. StaticTools \cap DynamicTools = {}
  BY ToolsetsApart DEF StaticTools, DynamicTools
<1> QED BY <1>1, <1>2, <1>3, <1>4, <1>5 DEF Tool

\* A serving process offers what its flags ask for, less what it withholds,
\* whatever configurations there are and whatever names they give
\* (toolsets.go:80-132, mapping.go:91-144, tools.go:80-84, dynamic_tool.go:101).
THEOREM Offer == StartSpec => []ToolsOnOffer
  BY InvOffer, Invariance, PTL

-----------------------------------------------------------------------------
(* Precedence *)

\* FirstOf, once and twice, gives the first of its arguments that is not None.
LEMMA FirstOfThree ==
  ASSUME NEW a, NEW b, NEW c, FirstOf(FirstOf(a, b), c) # None
  PROVE  IsFirst(FirstOf(FirstOf(a, b), c), <<a, b, c>>)
<1> DEFINE v == FirstOf(FirstOf(a, b), c)
           list == <<a, b, c>>
<1>1. \A j \in 1..(1 - 1) : list[j] = None
  OBVIOUS
<1>2. a = None => \A j \in 1..(2 - 1) : list[j] = None
  OBVIOUS
<1>3. a = None /\ b = None => \A j \in 1..(3 - 1) : list[j] = None
  OBVIOUS
<1>4. 1 \in DOMAIN list /\ 2 \in DOMAIN list /\ 3 \in DOMAIN list
  OBVIOUS
<1>5. list[1] = a /\ list[2] = b /\ list[3] = c
  OBVIOUS
<1>6. v = IF a # None THEN a ELSE IF b # None THEN b ELSE c
  BY DEF FirstOf
<1> HIDE DEF list, v
<1>7. IsFirst(v, list)
  BY <1>1, <1>2, <1>3, <1>4, <1>5, <1>6 DEF IsFirst, v
<1> QED BY <1>7 DEF v, list

LEMMA FirstOfFour ==
  ASSUME NEW a, NEW b, NEW c, NEW d, d # None
  PROVE  IsFirst(FirstOf(FirstOf(a, FirstOf(b, c)), FirstOf(c, d)), <<a, b, c, d>>)
<1> DEFINE v == FirstOf(FirstOf(a, FirstOf(b, c)), FirstOf(c, d))
           list == <<a, b, c, d>>
<1>1. \A j \in 1..(1 - 1) : list[j] = None
  OBVIOUS
<1>2. a = None => \A j \in 1..(2 - 1) : list[j] = None
  OBVIOUS
<1>3. a = None /\ b = None => \A j \in 1..(3 - 1) : list[j] = None
  OBVIOUS
<1>4. a = None /\ b = None /\ c = None => \A j \in 1..(4 - 1) : list[j] = None
  OBVIOUS
<1>5. 1 \in DOMAIN list /\ 2 \in DOMAIN list /\ 3 \in DOMAIN list /\ 4 \in DOMAIN list
  OBVIOUS
<1>6. list[1] = a /\ list[2] = b /\ list[3] = c /\ list[4] = d
  OBVIOUS
<1>7. v = IF a # None THEN a ELSE IF b # None THEN b ELSE IF c # None THEN c ELSE d
  BY DEF FirstOf
<1> HIDE DEF list, v
<1>8. IsFirst(v, list)
  BY <1>1, <1>2, <1>3, <1>4, <1>5, <1>6, <1>7 DEF IsFirst, v
<1> QED BY <1>8 DEF v, list

-----------------------------------------------------------------------------
(* One client *)

\* The context over stdio, and the context of a request or, for None, of stdio.
NoContext == [address |-> None, token |-> None, ip |-> None]
ContextOf(p) == IF p = None THEN NoContext ELSE TerraformContext(cfg, p)

\* What NewSessionHandler makes of a context is made of its request.
LEMMA ClientMadeFrom ==
  ASSUME NEW p, ClientFor(cfg, ContextOf(p)).token # None,
         p # None => Answer(cfg, p) = "served"
  PROVE  MadeFrom(ClientFor(cfg, ContextOf(p)), p, cfg)
<1> DEFINE client == ClientFor(cfg, ContextOf(p))
           from == Sources(p, cfg)
           a == IF p = None THEN None ELSE p.address
           b == IF p = None THEN None ELSE p.queryAddress
           t == IF p = None THEN None ELSE p.token
           u == IF p = None THEN None ELSE p.bearer
           given == FirstOf(FirstOf(t, u), cfg.envToken)
<1>1. IsFirst(client.address, from.addresses)
  <2>1. client.address = FirstOf(FirstOf(a, FirstOf(b, cfg.envAddress)),
                                 FirstOf(cfg.envAddress, DefaultTerraformAddress))
    BY DEF ClientFor, ContextOf, NoContext, TerraformContext, FirstOf
  <2>2. from.addresses = <<a, b, cfg.envAddress, DefaultTerraformAddress>>
    BY DEF Sources
  <2> HIDE DEF client, from, a, b
  <2> QED BY <2>1, <2>2, FirstOfFour, RequestAssumption
<1>2. client.token = FirstOf(given, ReadCredentialsFile(cfg, Hostname[client.address]))
  BY DEF ClientFor, ContextOf, NoContext, TerraformContext, TokenGiven, FirstOf, ExtractHostname
<1>3. from.tokens = <<t, u, cfg.envToken>>
  BY DEF Sources
<1> DEFINE fromFile ==
             /\ \A i \in DOMAIN from.tokens : from.tokens[i] = None
             /\ \E h \in DOMAIN cfg.credentials :
                  h = Hostname[client.address] /\ client.token = cfg.credentials[h]
<1>4. ASSUME given # None PROVE IsFirst(client.token, from.tokens)
  <2>1. client.token = given
    BY <1>2, <1>4 DEF FirstOf
  <2>2. IsFirst(client.token, from.tokens)
    <3>1. IsFirst(given, <<t, u, cfg.envToken>>)
      <4> HIDE DEF t, u
      <4> QED BY <1>4, FirstOfThree
    <3> HIDE DEF client, from, given, t, u
    <3> QED BY <2>1, <1>3, <3>1
  <2> QED BY <2>2
<1>5. ASSUME given = None PROVE fromFile
  <2>1. t = None /\ u = None /\ cfg.envToken = None
    BY <1>5 DEF FirstOf
  <2>2. \A i \in DOMAIN from.tokens : from.tokens[i] = None
    BY <1>3, <2>1
  <2>3. client.token # None /\ client.token = ReadCredentialsFile(cfg, Hostname[client.address])
    BY <1>2, <1>5 DEF FirstOf
  <2> HIDE DEF client
  <2>4. \E h \in DOMAIN cfg.credentials :
          h = Hostname[client.address] /\ client.token = cfg.credentials[h]
    BY <2>3 DEF ReadCredentialsFile
  <2> QED BY <2>2, <2>4
<1>6. ASSUME p # None
      PROVE  /\ p.method # "OPTIONS"
             /\ \/ p.origin = None \/ cfg.cors = "disabled" \/ p.origin \in cfg.origins
                \/ cfg.cors = "development" /\ p.origin \in LocalOrigins
             /\ p.queryToken # None => p.token # None \/ p.bearer # None
  <2>1. Answer(cfg, p) = "served"
    BY <1>6
  <2>2. /\ ~(TokenGiven(p) = None /\ p.queryToken # None)
        /\ ~(p.origin # None /\ ~IsOriginAllowed(cfg, p.origin))
        /\ p.method # "OPTIONS"
    BY <2>1 DEF Answer
  <2>3. TokenGiven(p) # None => p.token # None \/ p.bearer # None
    BY DEF TokenGiven, FirstOf
  <2> QED BY <2>2, <2>3 DEF IsOriginAllowed, LoadCORSConfigFromEnv
<1>7. AddressKept(client, p, cfg)
  <2>1. ASSUME p # None, cfg.envToken # None PROVE p.address = None
    BY <2>1 DEF Answer
  <2>2. ASSUME cfg.envToken # None, ~AddressInQuery(p)
        PROVE  client.address \in {cfg.envAddress, DefaultTerraformAddress}
    <3>1. a = None /\ b = None
      BY <2>1, <2>2 DEF AddressInQuery
    <3> QED BY <3>1 DEF ClientFor, ContextOf, NoContext, TerraformContext, FirstOf
  <2> HIDE DEF client
  <2> QED BY <2>1, <2>2 DEF AddressKept
<1> HIDE DEF client, given
<1>8. MadeFrom(client, p, cfg)
  BY <1>1, <1>4, <1>5, <1>6, <1>7, Zenon DEF MadeFrom, from
<1> QED BY <1>8 DEF client

-----------------------------------------------------------------------------
(* Every client *)

FrontInv == FrontTypeOK /\ ClientFromOwnRequest

\* The client made for a request that is among those that arrived.
LEMMA HandlerInv ==
  ASSUME FrontInv, NEW s \in Session, NEW p, p # None => Answer(cfg, p) = "served",
         p \in IF Transport(cfg) = "stdio" THEN {None} ELSE arrived'[s],
         \A r \in Session : arrived[r] \subseteq arrived'[r],
         NewSessionHandler(s, ContextOf(p))
  PROVE  /\ ClientFromOwnRequest'
         /\ DOMAIN tfeClient' = Session
         /\ \A r \in Session : tfeClient'[r] # None => tfeClient'[r].token # None
<1>1. cfg' = cfg
  BY DEF NewSessionHandler, startVars, RegisterTFETools
<1>2. \A r \in Session :
        \/ tfeClient'[r] = tfeClient[r]
        \/ /\ r = s /\ tfeClient'[r] = ClientFor(cfg, ContextOf(p))
           /\ ClientFor(cfg, ContextOf(p)).token # None
  BY DEF NewSessionHandler, FrontInv, FrontTypeOK
<1>5. \A r \in Session : tfeClient'[r] # None =>
        \E q \in IF Transport(cfg) = "stdio" THEN {None} ELSE arrived'[r] :
          MadeFrom(tfeClient'[r], q, cfg)
  <2> SUFFICES ASSUME NEW r \in Session, tfeClient'[r] # None
               PROVE  \E q \in IF Transport(cfg) = "stdio" THEN {None} ELSE arrived'[r] :
                        MadeFrom(tfeClient'[r], q, cfg)
    OBVIOUS
  <2>1. CASE tfeClient'[r] = tfeClient[r]
    BY <2>1 DEF FrontInv, ClientFromOwnRequest
  <2>2. CASE r = s /\ tfeClient'[r] = ClientFor(cfg, ContextOf(p))
             /\ ClientFor(cfg, ContextOf(p)).token # None
    BY <2>2, ClientMadeFrom
  <2> QED BY <1>2, <2>1, <2>2
<1>6. ClientFromOwnRequest'
  BY <1>1, <1>5 DEF ClientFromOwnRequest
<1>7. DOMAIN tfeClient' = Session
  BY DEF NewSessionHandler, FrontInv, FrontTypeOK
<1>8. \A r \in Session : tfeClient'[r] # None => tfeClient'[r].token # None
  BY <1>2 DEF FrontInv, FrontTypeOK
<1> QED BY <1>6, <1>7, <1>8

\* The types of the start-up, after a step of the process.
LEMMA StartTypes == StartTypeOK /\ [StartNext]_startVars => StartTypeOK' /\ cfg' = cfg
<1> SUFFICES ASSUME StartTypeOK, [StartNext]_startVars PROVE StartTypeOK' /\ cfg' = cfg
  OBVIOUS
<1> USE DEF StartTypeOK, Phase
<1>1. CASE Launch
  BY <1>1 DEF Launch
<1>2. CASE RunStdioServer \/ RunHTTPServer
  BY <1>2 DEF RunStdioServer, RunHTTPServer, RegisterTools, Tool, StaticTools
<1>3. CASE ServerInit \/ StreamableHTTPServerInit \/ Stop
  BY <1>3 DEF ServerInit, StreamableHTTPServerInit, Stop
<1>4. CASE RegisterTFETools
  BY <1>4 DEF RegisterTFETools, Tool
<1>5. CASE UNCHANGED startVars
  BY <1>5 DEF startVars
<1> QED BY <1>1, <1>2, <1>3, <1>4, <1>5 DEF StartNext, ProcessNext

\* Every step of the front is one of the process or leaves it alone.
LEMMA FrontStartStep == FrontNext => [StartNext]_startVars
<1> SUFFICES ASSUME FrontNext PROVE [StartNext]_startVars
  OBVIOUS
<1>1. \A s, x : NewSessionHandler(s, x) => [StartNext]_startVars
  BY DEF NewSessionHandler, StartNext
<1> QED BY <1>1 DEF FrontNext, StartNext, ServeHTTP, ConnectStdio, EndSession

LEMMA FrontInitInv == FrontInit => FrontInv
<1> SUFFICES ASSUME FrontInit PROVE FrontInv
  OBVIOUS
<1>1. StartTypeOK
  BY DEF FrontInit, StartInit, StartTypeOK, Phase
<1>2. requests \in 0..MaxRequests
  BY RequestsAssumption DEF FrontInit
<1>3. \A s \in Session : tfeClient[s] = None /\ arrived[s] = {}
  BY DEF FrontInit
<1>4. DOMAIN tfeClient = Session /\ DOMAIN arrived = Session
  BY DEF FrontInit
<1> QED BY <1>1, <1>2, <1>3, <1>4 DEF FrontInv, FrontTypeOK, ClientFromOwnRequest

LEMMA FrontNextInv == FrontInv /\ [FrontNext]_<<startVars, frontVars>> => FrontInv'
<1> SUFFICES ASSUME FrontInv, [FrontNext]_<<startVars, frontVars>> PROVE FrontInv'
  OBVIOUS
<1>1. StartTypeOK' /\ cfg' = cfg
  BY StartTypes, FrontStartStep DEF FrontInv, FrontTypeOK
<1>2. CASE UNCHANGED frontVars
  BY <1>1, <1>2 DEF FrontInv, FrontTypeOK, frontVars, ClientFromOwnRequest
<1>3. ASSUME NEW s \in Session, NEW r \in HttpRequest, ServeHTTP(s, r) PROVE FrontInv'
  <2>1. requests' \in 0..MaxRequests
    BY <1>3, RequestsAssumption DEF ServeHTTP, FrontInv, FrontTypeOK
  <2>2. CASE Answer(cfg, r) = "served"
    <3>1. arrived' = [arrived EXCEPT ![s] = @ \cup {r}]
      BY <1>3, <2>2 DEF ServeHTTP
    <3>2. /\ DOMAIN arrived' = Session
          /\ \A q \in Session : arrived[q] \subseteq arrived'[q] /\ arrived'[q] \subseteq HttpRequest
          /\ r \in arrived'[s]
      BY <3>1 DEF FrontInv, FrontTypeOK
    <3>3. Transport(cfg) # "stdio"
      BY <1>3 DEF ServeHTTP
    <3>4. NewSessionHandler(s, ContextOf(r))
      BY <1>3, <2>2, RequestAssumption DEF ServeHTTP, ContextOf
    <3>5. /\ ClientFromOwnRequest'
          /\ DOMAIN tfeClient' = Session
          /\ \A q \in Session : tfeClient'[q] # None => tfeClient'[q].token # None
      BY <2>2, <3>2, <3>3, <3>4, HandlerInv
    <3> QED BY <1>1, <2>1, <3>2, <3>5 DEF FrontInv, FrontTypeOK
  <2>3. CASE Answer(cfg, r) # "served"
    <3>1. UNCHANGED <<startVars, tfeClient, arrived>>
      BY <1>3, <2>3 DEF ServeHTTP
    <3> QED BY <1>1, <2>1, <3>1
        DEF FrontInv, FrontTypeOK, ClientFromOwnRequest
  <2> QED BY <2>2, <2>3
<1>4. ASSUME NEW s \in Session, ConnectStdio(s) PROVE FrontInv'
  <2>1. NewSessionHandler(s, ContextOf(None)) /\ Transport(cfg) = "stdio"
    BY <1>4 DEF ConnectStdio, ContextOf, NoContext
  <2>2. UNCHANGED <<requests, arrived>>
    BY <1>4 DEF ConnectStdio
  <2>3. /\ ClientFromOwnRequest'
        /\ DOMAIN tfeClient' = Session
        /\ \A q \in Session : tfeClient'[q] # None => tfeClient'[q].token # None
    BY <2>1, <2>2, HandlerInv
  <2> QED BY <1>1, <2>2, <2>3 DEF FrontInv, FrontTypeOK
<1>5. ASSUME NEW s \in Session, EndSession(s) PROVE FrontInv'
  <2>1. \A q \in Session \ {s} : tfeClient'[q] = tfeClient[q] /\ arrived'[q] = arrived[q]
    BY <1>5 DEF EndSession, FrontInv, FrontTypeOK
  <2>2. tfeClient'[s] = None /\ arrived'[s] = {}
    BY <1>5 DEF EndSession, FrontInv, FrontTypeOK
  <2>3. DOMAIN tfeClient' = Session /\ DOMAIN arrived' = Session /\ requests' = requests
    BY <1>5 DEF EndSession, FrontInv, FrontTypeOK
  <2>4. ClientFromOwnRequest'
    BY <1>1, <2>1, <2>2 DEF FrontInv, ClientFromOwnRequest
  <2> QED BY <1>1, <2>1, <2>2, <2>3, <2>4 DEF FrontInv, FrontTypeOK
<1> QED BY <1>2, <1>3, <1>4, <1>5 DEF FrontNext, frontVars

\* Every client is made of one request of its own session, and with a token of the
\* server's own keeps to its address unless the query names one, for all requests,
\* addresses and credentials (middleware.go:139-202, tfe_client.go:103-127).
THEOREM OwnRequest == FrontSpec => []ClientFromOwnRequest
<1>1. FrontInv => ClientFromOwnRequest
  BY DEF FrontInv
<1> QED BY <1>1, FrontInitInv, FrontNextInv, PTL DEF FrontSpec
=============================================================================
