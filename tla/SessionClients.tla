--------------------------- MODULE SessionClients ---------------------------
(***************************************************************************)
(* The life of a session's clients over the streamable HTTP transport in   *)
(* stateful mode: the hooks of main.go, NewSessionHandler and              *)
(* EndSessionHandler of pkg/client/session.go, the per-session client maps *)
(* (sync.Map) and pkg/tools/dynamic_tool.go, which registers the TFE tools *)
(* with the server once some session has a TFE client.                     *)
(*                                                                         *)
(* A session has a GET stream, whose opening and closing run the register  *)
(* and unregister hooks, and POST requests, each in a goroutine of its     *)
(* own, whose hook runs NewSessionHandler again before the handler.  No    *)
(* lock spans a hook, so each map access is an action.  A client is        *)
(* abstracted to its presence in the map, and a handler to the clients it  *)
(* asks for.                                                               *)
(***************************************************************************)
EXTENDS Integers

CONSTANTS
  Request,       \* goroutines that serve POST requests
  Session,       \* MCP session ids
  TokenSession,  \* the sessions whose requests resolve a Terraform token
  None

ASSUME SessionAssumption == TokenSession \subseteq Session

ASSUME DisjointAssumption ==
  /\ Request \cap Session = {}
  /\ None \notin Session

VARIABLES
  tfe,              \* keys of activeTfeClients
  http,             \* keys of activeHttpClients
  sessionsWithTFE,  \* DynamicToolRegistry.sessionsWithTFE
  tfeToolsRegistered,
  registrations,    \* history: how often registerTFETools ran
  pc,               \* where each goroutine is
  sess,             \* sess[p]: the session p works for
  made,             \* made[p]: what CreateTfeClientForSession gave to p's hook
  past,             \* history: how past[s] last closed, see Past
  authed,           \* history: the sessions a TFE client was ever created for
  disturbed         \* history: the requests that the closing of a stream overlapped

maps == <<tfe, http>>
registry == <<sessionsWithTFE, tfeToolsRegistered, registrations>>
vars == <<maps, registry, pc, sess, made, past, authed, disturbed>>

\* The goroutines: one per request slot and one per GET stream, named by its session.
Proc == Request \cup Session

HookPC == {"check", "tfe", "http", "register"}
HandlerPC == {"serve", "gethttp", "recheck", "reregister", "refused", "handler", "remake", "rehttp"}
ClosePC == {"unregister", "deltfe", "delhttp"}

\* "fresh": not closed yet, or back in use after a quiet close; "quiet": closing
\* or closed with no request since the close began; "busy": closed while
\* requests were under way or arriving.
Past == {"fresh", "quiet", "busy"}

-----------------------------------------------------------------------------
Goto(p, label) == pc' = [pc EXCEPT ![p] = label]

\* Where a goroutine goes after NewSessionHandler.
AfterHook(p) == IF p \in Session THEN "open" ELSE "serve"

Active(s) == {r \in Request : pc[r] # "idle" /\ sess[r] = s}

Closing(s) == pc[s] \in ClosePC

Init ==
  /\ tfe = {} /\ http = {}
  /\ sessionsWithTFE = {} /\ tfeToolsRegistered = FALSE /\ registrations = 0
  /\ pc = [p \in Proc |-> "idle"]
  /\ sess = [p \in Proc |-> IF p \in Session THEN p ELSE None]
  /\ made = [p \in Proc |-> "none"]
  /\ past = [s \in Session |-> "fresh"]
  /\ authed = {} /\ disturbed = {}

\* The answer is sent and the goroutine ends.
Finish(r) ==
  /\ Goto(r, "idle")
  /\ sess' = [sess EXCEPT ![r] = None]
  /\ made' = [made EXCEPT ![r] = "none"]
  /\ disturbed' = disturbed \ {r}

\* The handler goes on at another step.
Continue(r, label) ==
  /\ Goto(r, label)
  /\ UNCHANGED <<sess, made, disturbed>>

\* The session is in use again.
Reuse(s) ==
  past' = [past EXCEPT ![s] = IF @ = "quiet" THEN IF Closing(s) THEN "busy" ELSE "fresh"
                              ELSE @]

-----------------------------------------------------------------------------
(* Requests and streams begin *)

Begin(r, s, label) ==
  /\ pc[r] = "idle"
  /\ Goto(r, label)
  /\ sess' = [sess EXCEPT ![r] = s]
  /\ Reuse(s)
  /\ disturbed' = IF Closing(s) THEN disturbed \cup {r} ELSE disturbed
  /\ UNCHANGED <<maps, registry, made, authed>>

\* tools/list or tools/call for s: the BeforeListTools or BeforeCallTool hook.
Start(r, s) == Begin(r, s, "check")

\* resources/read has no hook: its handler runs at once.
ReadResource(r, s) == Begin(r, s, "gethttp")

\* The GET stream of s opens: the OnRegisterSession hook.
Open(s) ==
  /\ pc[s] = "idle"
  /\ Goto(s, "check")
  /\ Reuse(s)
  /\ UNCHANGED <<maps, registry, sess, made, authed, disturbed>>

-----------------------------------------------------------------------------
(* NewSessionHandler *)

\* A session that has a TFE client needs nothing more.
CheckClient(p) ==
  /\ pc[p] = "check"
  /\ Goto(p, IF sess[p] \in tfe THEN AfterHook(p) ELSE "tfe")
  /\ UNCHANGED <<maps, registry, sess, made, past, authed, disturbed>>

\* CreateTfeClientForSession: without a token it fails; with one it may fail
\* too, as tfe.NewClient calls the server, and otherwise stores the client.
CreateTfe(p) ==
  /\ pc[p] = "tfe"
  /\ \/ /\ sess[p] \in TokenSession
        /\ tfe' = tfe \cup {sess[p]}
        /\ authed' = authed \cup {sess[p]}
        /\ made' = [made EXCEPT ![p] = "ok"]
     \/ /\ made' = [made EXCEPT ![p] = "failed"]
        /\ UNCHANGED <<tfe, authed>>
  /\ Goto(p, "http")
  /\ UNCHANGED <<http, registry, sess, past, disturbed>>

\* Faulty variant: the session is registered whether or not it has a client.
CreateHttp_AlwaysRegister(p) ==
  /\ pc[p] = "http"
  /\ http' = http \cup {sess[p]}
  /\ Goto(p, "register")
  /\ UNCHANGED <<tfe, registry, sess, made, past, authed, disturbed>>

\* CreateHttpClientForSession always stores; only a TFE client is registered.
CreateHttp(p) ==
  /\ pc[p] = "http"
  /\ http' = http \cup {sess[p]}
  /\ Goto(p, IF made[p] = "ok" THEN "register" ELSE AfterHook(p))
  /\ UNCHANGED <<tfe, registry, sess, made, past, authed, disturbed>>

\* Faulty variant: tfeToolsRegistered is never set.
RegisterSessionWithTFE_NoFlag(s) ==
  /\ sessionsWithTFE' = sessionsWithTFE \cup {s}
  /\ registrations' = registrations + 1
  /\ UNCHANGED tfeToolsRegistered

\* RegisterSessionWithTFE, under the registry's lock.
RegisterSessionWithTFE(s) ==
  /\ sessionsWithTFE' = sessionsWithTFE \cup {s}
  /\ tfeToolsRegistered' = TRUE
  /\ registrations' = IF tfeToolsRegistered THEN registrations ELSE registrations + 1

Register(p) ==
  /\ pc[p] = "register"
  /\ RegisterSessionWithTFE(sess[p])
  /\ Goto(p, AfterHook(p))
  /\ UNCHANGED <<maps, sess, made, past, authed, disturbed>>

-----------------------------------------------------------------------------
(* The handlers *)

\* tools/list, or a call of a TFE tool that the server does not have yet.
AnswerFromTools(r) ==
  /\ pc[r] = "serve"
  /\ Finish(r)
  /\ UNCHANGED <<maps, registry, past, authed>>

\* A TFE tool: once registered, its wrapper asks the registry.
CallTfeTool(r) ==
  /\ pc[r] = "serve" /\ tfeToolsRegistered
  /\ Continue(r, IF sess[r] \in sessionsWithTFE THEN "handler" ELSE "recheck")
  /\ UNCHANGED <<maps, registry, past, authed>>

\* Faulty variant: the wrapper has no second look at the client map.
Recheck_Refuses(r) ==
  /\ pc[r] = "recheck"
  /\ Continue(r, "refused")
  /\ UNCHANGED <<maps, registry, past, authed>>

\* The wrapper looks at the client map itself before it refuses.
Recheck(r) ==
  /\ pc[r] = "recheck"
  /\ Continue(r, IF sess[r] \in tfe THEN "reregister" ELSE "refused")
  /\ UNCHANGED <<maps, registry, past, authed>>

Reregister(r) ==
  /\ pc[r] = "reregister"
  /\ RegisterSessionWithTFE(sess[r])
  /\ Continue(r, "handler")
  /\ UNCHANGED <<maps, past, authed>>

Refuse(r) ==
  /\ pc[r] = "refused"
  /\ Finish(r)
  /\ UNCHANGED <<maps, registry, past, authed>>

\* GetTfeClientFromContext, called by a TFE tool's handler or, with no wrapper
\* before it, by a state tool's.
GetTfe(r) ==
  /\ pc[r] \in {"handler", "serve"}
  /\ \/ sess[r] \in tfe /\ Finish(r)
     \/ sess[r] \notin tfe /\ Continue(r, "remake")
  /\ UNCHANGED <<maps, registry, past, authed>>

\* Faulty variant: the new client is stored under no session id.
RemakeTfe_Unkeyed(r) ==
  /\ pc[r] = "remake"
  /\ tfe' = tfe \cup {None}
  /\ Finish(r)
  /\ UNCHANGED <<http, registry, past, authed>>

\* Without a client it creates one, or fails; it does not register the session.
RemakeTfe(r) ==
  /\ pc[r] = "remake"
  /\ \/ /\ sess[r] \in TokenSession
        /\ tfe' = tfe \cup {sess[r]}
        /\ authed' = authed \cup {sess[r]}
     \/ UNCHANGED <<tfe, authed>>
  /\ Finish(r)
  /\ UNCHANGED <<http, registry, past>>

\* GetHttpClientFromContext, called by the handlers of registry tools and resources.
GetHttp(r) ==
  /\ pc[r] \in {"serve", "gethttp"}
  /\ \/ sess[r] \in http /\ Finish(r)
     \/ sess[r] \notin http /\ Continue(r, "rehttp")
  /\ UNCHANGED <<maps, registry, past, authed>>

RemakeHttp(r) ==
  /\ pc[r] = "rehttp"
  /\ http' = http \cup {sess[r]}
  /\ Finish(r)
  /\ UNCHANGED <<tfe, registry, past, authed>>

-----------------------------------------------------------------------------
(* The stream closes: the OnUnregisterSession hook and EndSessionHandler *)

Close(s) ==
  /\ pc[s] = "open"
  /\ Goto(s, "unregister")
  /\ made' = [made EXCEPT ![s] = "none"]
  /\ past' = [past EXCEPT ![s] = IF Active(s) = {} THEN "quiet" ELSE "busy"]
  /\ disturbed' = disturbed \cup Active(s)
  /\ UNCHANGED <<maps, registry, sess, authed>>

\* Faulty variant: the registry keeps the session.
UnregisterSessionWithTFE_Kept(s) ==
  /\ pc[s] = "unregister"
  /\ Goto(s, "deltfe")
  /\ UNCHANGED <<maps, registry, sess, made, past, authed, disturbed>>

UnregisterSessionWithTFE(s) ==
  /\ pc[s] = "unregister"
  /\ sessionsWithTFE' = sessionsWithTFE \ {s}
  /\ Goto(s, "deltfe")
  /\ UNCHANGED <<maps, tfeToolsRegistered, registrations, sess, made, past, authed, disturbed>>

DeleteTfeClient(s) ==
  /\ pc[s] = "deltfe"
  /\ tfe' = tfe \ {s}
  /\ Goto(s, "delhttp")
  /\ UNCHANGED <<http, registry, sess, made, past, authed, disturbed>>

\* Faulty variant: the HTTP client is left behind.
DeleteHttpClient_Forgotten(s) ==
  /\ pc[s] = "delhttp"
  /\ Goto(s, "idle")
  /\ UNCHANGED <<maps, registry, sess, made, past, authed, disturbed>>

DeleteHttpClient(s) ==
  /\ pc[s] = "delhttp"
  /\ http' = http \ {s}
  /\ Goto(s, "idle")
  /\ UNCHANGED <<tfe, registry, sess, made, past, authed, disturbed>>

Next ==
  \/ \E s \in Session :
       \/ \E r \in Request : Start(r, s) \/ ReadResource(r, s)
       \/ Open(s)
       \/ Close(s)
       \/ UnregisterSessionWithTFE(s)
       \/ DeleteTfeClient(s)
       \/ DeleteHttpClient(s)
  \/ \E p \in Proc :
       \/ CheckClient(p)
       \/ CreateTfe(p)
       \/ CreateHttp(p)
       \/ Register(p)
  \/ \E r \in Request :
       \/ AnswerFromTools(r)
       \/ CallTfeTool(r)
       \/ Recheck(r)
       \/ Reregister(r)
       \/ Refuse(r)
       \/ GetTfe(r)
       \/ RemakeTfe(r)
       \/ GetHttp(r)
       \/ RemakeHttp(r)

Spec == Init /\ [][Next]_vars

-----------------------------------------------------------------------------
(* Properties *)

\* Every variable has its type, and a goroutine at work has a session.
TypeOK ==
  /\ tfe \subseteq Session /\ http \subseteq Session
  /\ sessionsWithTFE \subseteq Session
  /\ tfeToolsRegistered \in BOOLEAN
  /\ registrations \in Nat
  /\ pc \in [Proc -> {"idle", "open"} \cup HookPC \cup HandlerPC \cup ClosePC]
  /\ sess \in [Proc -> Session \cup {None}]
  /\ \A s \in Session : sess[s] = s
  /\ \A r \in Request : pc[r] # "idle" => sess[r] \in Session
  /\ made \in [Proc -> {"none", "ok", "failed"}]
  /\ past \in [Session -> Past]
  /\ authed \subseteq Session
  /\ disturbed \subseteq Request

\* The TFE tools are added to the server exactly once, and not before some
\* session had a TFE client, however many sessions race to be the first and
\* however many of them end (dynamic_tool.go:52-63, 314).
ToolsRegisteredOnce ==
  /\ registrations = IF tfeToolsRegistered THEN 1 ELSE 0
  /\ tfeToolsRegistered => authed # {}

\* The handler of a wrapped TFE tool runs only for a session that a TFE client
\* was once created for, whatever the registry and the client map went through
\* in between (dynamic_tool.go:336-364).
HandlerNeedsClient ==
  \A r \in Request : pc[r] = "handler" => sess[r] \in authed

\* A registered session has a client, so that the wrapper may trust the registry
\* without a look at the client map, also while and after the session's stream
\* closes.  The exception is a session left behind by a close that requests
\* overlapped, until its next close unregisters it (session.go:17-53,
\* dynamic_tool.go:347).
RegisteredHasClient ==
  \A s \in sessionsWithTFE \ tfe : past[s] = "busy" \/ pc[s] = "unregister"

\* EndSessionHandler leaves nothing of a session that has had no request since
\* its stream began to close (session.go:44-53, main.go:48-52).
EndCleansUp ==
  \A s \in Session :
    past[s] = "quiet" /\ pc[s] = "idle" => s \notin tfe \cup http \cup sessionsWithTFE

\* A TFE tool call is refused only if its own hook failed to create a client or
\* the session's stream was closed meanwhile (dynamic_tool.go:347-359).
RefusedForCause ==
  \A r \in Request : pc[r] = "refused" => made[r] = "failed" \/ r \in disturbed

\* The comment on the hooks (main.go:53-57): they are "a safety net to ensure
\* that all sessions have the necessary clients initialized" before any tool
\* call.  A request whose hook did not fail finds both clients and the registry
\* in place, unless the session's stream was closed meanwhile.
HookInitializesSession ==
  \A r \in Request :
    pc[r] = "serve" /\ made[r] # "failed" /\ r \notin disturbed =>
      sess[r] \in tfe /\ sess[r] \in http /\ sess[r] \in sessionsWithTFE

\* "If this is the first session with TFE, register the tools"
\* (dynamic_tool.go:59): once some session has a TFE client and none of its
\* goroutines is at work, the TFE tools are on offer.
ClientMeansTools ==
  \A s \in tfe : Active(s) = {} /\ pc[s] \in {"idle", "open"} => tfeToolsRegistered
=============================================================================
