# Verification of the Terraform MCP server

TLA+ models of the server under `src/`, TLC configurations that check them on
small instances, and TLAPS proofs of what holds for every instance.

    tlc -config MCServer.cfg MCServer.tla
    tlapm ServerProofs.tla

## The system

The server speaks MCP to AI clients over stdio or streamable HTTP and offers
tools that read the public Terraform registry, operate Terraform Cloud or
Enterprise (TFE), and inspect Terraform state. The MCP protocol itself
(mcp-go) is a library outside `src/`; it runs every HTTP request in a goroutine
of its own, calls the server's hooks before and after a request, and calls the
register and unregister hooks when a session's GET stream opens and closes.

| Component | State | Operations | What makes it correct |
|---|---|---|---|
| State cache and loader (`pkg/tools/state/loader.go`, `refresh_cache.go`) | map from key to state and load time, under a mutex | `Load`, `get`, `put`, `invalidate`, `Invalidate` | bounded; a session gets only what it read itself; nothing older than the TTL; a refresh is honoured; no client sees a state go back |
| Session clients (`pkg/client/session.go`, `tfe_client.go`, `registry_client.go`, hooks in `main.go`) | two `sync.Map`s of clients per session id | `NewSessionHandler`, `EndSessionHandler`, `Get...FromContext` | every session that can have clients has them; a session that ended leaves nothing |
| Dynamic tool registry (`pkg/tools/dynamic_tool.go`) | set of sessions with a TFE client, one flag, under a lock | register, unregister, the availability wrapper | TFE tools are added once; a handler runs only for a session with a client; no refusal without a cause |
| Rate limiting (`pkg/client/ratelimit.go`) | a global and one limiter per session | `Middleware`, `getSessionLimiter`, `CleanupSessions` | one limiter per session; bounds on accepted calls |
| Metrics (`pkg/client/metrics.go`, hooks in `main.go`) | start times by request id, client info by session | three hooks | each call recorded once, with its own start |
| Registry client (`pkg/client/registry.go`, `common.go`) | none | `SendRegistryCall`, pagination, retry on 429 | ends; retries only what it should; resolves names to the right version |
| Start-up and TLS (`main.go`, `init.go`, `tls.go`) | the phase of the process | read the flags, choose the transport, register tools, listen | it serves only what and where it should |
| Toolset selection and tool registration (`pkg/toolsets`, `tools.go`, `dynamic_tool.go`) | the selection, the tools on offer | parse, clean, expand, enable; add static tools, later the TFE tools | exactly the selected tools are on offer |
| HTTP middleware and credentials (`middleware.go`, `tfe_client.go`, `credentials.go`) | none; it makes the sessions' clients | origin check, precedence of headers, parameters, environment and file | a client is made of one admitted request of its own session |
| State tools and redaction (`pkg/tools/state/*.go`) | none of their own; they share cached states | diff, dependency graph, redaction, queries | nothing sensitive is shown; a diff loses no visible change |
| TFE tools (`pkg/tools/tfe/*.go`) | none; remote objects | create/act on runs, workspaces, variables, tags, policy sets | a call keeps to the workspace it was asked for; its answer tells what it changed; every call ends |
| Registry tools and resources (`pkg/tools/registry`, `pkg/resources`) | none | resolve a provider and version, list documents, read and format | an answer is of the provider asked for; a search leaves nothing out, a survey is that of all documents |

Interaction: a request runs the hooks (`NewSessionHandler`, metrics), then, for
a tool call, the rate limiter and the tool's handler; TFE tools have the
availability wrapper in between. Handlers take clients from the maps and, on a
miss, create them. State tools go through the state cache.

What is hard: no lock spans a request, so hooks, handlers, refreshes and the
closing of a stream interleave at every map access; the cache reads the backend
between two lock regions; remote calls fail half way; clocks and limits have
boundaries. The `hazards` of `PROJECT.json` list each such place with its line.

## Modules

    VersionStore  <= refined by =  StateLoader
    StartUp <- HttpFront <-+
                StateTools <-+- Server          SessionClients   ToolCalls   RegistryClient
                TfeTools   <-+

`Server` extends the modules of the process, its HTTP front and its tools and composes
their actions. The other four go into one part each where goroutines interleave at
every lock, which would be hidden, or multiply the states, in the whole.

### StateLoader

`entries` is `stateCache.entries`, its keys made by `CacheKey`. `Call` is the
set of goroutines that can be inside `Load` at once, and `pc` says where: one
action per lock region or unlocked access. `StartLoad` is `Load` up to the
cache look-up; `CacheGet`, `CheckAge` and `DropExpired` are the three parts of
`get`, which copies the entry under the read lock, looks at its age without a
lock and deletes under the write lock; `Fetch` and `FetchFails` are
`fetchState`; `Put` is `put` with its eviction (any entry of least load time,
as the code takes the first the map's iteration meets); `Refresh` is
`tf_refresh_cache` with `Invalidate`. `Apply` (a change made outside the
server), `Tick` (the clock) and `Reply` (the answer reaches the client) are the
environment.

A state is reduced to a version number, and to who read it and when, which the
properties compare. A fetch is one read of the current version: for the tfc
backend that is `ReadCurrent`; what follows can only fail. `known` is a history
variable: the newest version a session has seen or was promised by a refresh.

Assumptions: a fetch takes at most `FetchTime` ticks (the code bounds a
subprocess and has HTTP timeouts; only `HitIsRecent` depends on it). Names with
surrounding blanks are left out, as Terraform Cloud has none. A *serial*
session is one whose client awaits each answer before its next call, other
sessions overlap theirs; `None` as a session is a stateless request.

### VersionStore

What the state tools promise, without a cache: a call is answered with a version that
the backend holds or held, and a client that awaits each answer is never given an older
one than before, nor than a refresh of its own promised. `StateLoader` implements it:
`ImplementsVersionStore` keeps `source`, maps the program counters to "asked" and
"answered" (`StatusOf`; looking up, expiring, fetching and storing are all "asked", or
stutter), what a goroutine has loaded to the answer (`AnswerOf`), `req` to `asked` and
`known` to `seen`. Deleting the identity from a cache key breaks it.

### SessionClients

`tfe`, `http` and `sessionsWithTFE` are the keys of the two client maps and of
the registry, `tfeToolsRegistered` its flag; `registrations` counts the runs of
`registerTFETools`. A process is the goroutine of a POST request or of a
session's GET stream. `Start` (tools/list and tools/call) and `Open` enter
`NewSessionHandler`: `CheckClient`, `CreateTfe`, `CreateHttp`, `Register` are
its accesses in order, and `CreateTfe` may fail even with a token. Then the
handler: `CallTfeTool`, `Recheck`, `Reregister`, `Refuse` are the availability
wrapper; `GetTfe`/`RemakeTfe` and `GetHttp`/`RemakeHttp` are
`Get...ClientFromContext`, used by every tool and resource. `Close`,
`UnregisterSessionWithTFE`, `DeleteTfeClient`, `DeleteHttpClient` are the
unregister hook and `EndSessionHandler`.

A client is its presence in the map (its token and address are not modelled).
The kind of a request is chosen when its handler begins. `past`, `authed` and
`disturbed` are history variables for the properties. A session may close and
open its stream again, and requests may arrive before, during and after that,
as mcp-go allows. The client information of the metrics hooks is not part of
this module.

### ToolCalls

What surrounds every tool call. A call's goroutine passes `BeforeCallTool` (the
metrics hook), `AllowGlobally` or `RejectGlobally`, then, if it has a session,
the two lock regions of `getSessionLimiter` (`FindLimiter`, `CreateLimiter`) and
`AllowInSession` or `RejectInSession`, and, once its handler has answered,
`AfterCallTool`. A rejected call and one of an unknown tool end with an error,
after which mcp-go does not run the after hook.

`limiters` holds every session limiter ever made and `sessionLimiters` the map to
their addresses, so that two limiters of one session would show; `limiter[c]` is
the address that call `c` was given. A limiter is modelled from
`golang.org/x/time/rate`: tokens and the time of the last call, in ticks and
integer fractions of a token. `toolStartTimes` is keyed by the request id alone,
as in `main.go`; a client does not reuse an id while it awaits its answer, a
stateless one cannot be told from another. `admitted` and `taken` are histories of
the calls that each session and the global limiter let through, `shared` of the
running calls whose id another used at the same time.

`CleanupSessions` is not an action: nothing in the repository calls it, so a
session's limiter stays for ever. Calls that a session's limiter rejects have
already taken a global token; the model keeps that order.

### RegistryClient

One call of a tool that reads the public registry. `pc` is the HTTP request that
is on its way. `Limited` and `Resend` are the retry of a 429 with its wait,
`Fails` is every other failure with what the tool makes of it (a search falls
back or leaves a description out, everything else gives up), and the other
actions are the requests that succeed: `GetLatestProviderVersion`, `FallBack`,
`GetDocs` (the v1 answer with all documents, of which a search keeps those that match and
`get_provider_capabilities` makes a survey), `GetProviderVersionID`, `GetPage`,
`GetOverview`, `GetContent`, and `Read` for the tools that make a single request
(search and read of modules and policies, one document). One call at a time is enough:
calls share an `http.Client` and nothing else.

`AnalyzeAndFormatCapabilities` is the survey: the documents for the hcl language, by
category, each category with its number of documents and, if it has more than `ShowAll`
(10 in the code), only its first `ShowFew` (3). The map of categories has no order, so the
survey is a function from them. Nothing is said of the documents that a provider has for
other languages.

`Publish` and `AddDoc` are the registry, which changes between two requests of a
call. A version's documents are numbered as the registry lists them. The model assumes
that it adds a document at the end of its list: if it put one in the middle, page
numbers would shift under the reader and a document could be missed. `docs` counts the
documents of the one version that the call reads, `before` how many there were
when it was resolved, `latest` collects the versions that were the latest during the
call; the last two are history variables.

### StartUp

A configuration `cfg` is a record of the command, the flags and the environment
variables that decide something. `Launch` is the beginning of `main` and of the commands:
the logger, then `getToolsetsFromCmd`, with the flags as the process really reads them
(with `TRANSPORT_MODE` and the like `main` reads them before cobra has parsed anything,
so they have their defaults). `RunStdioServer` and `RunHTTPServer` register the static
tools, `ServerInit` and `StreamableHTTPServerInit` begin to serve or fail,
`RegisterTFETools` adds the TFE tools once, `Stop` is a signal or the end of the
input. The toolset operators (`CleanToolsets`, `ExpandDefaultToolset`, `IsToolEnabled`,
...) have the names of the functions; the map of tools to toolsets is the code's, tool
by tool. A comma-separated flag is a set of names, as only membership is asked of it.
`ToolsOnOffer` compares what they give, in their order and through all phases, with
`Wanted` and `Withheld`, which say name by name what a flag asks for. Two cases in which
the process differs from what the repository says of it are exceptions of their own:
`Unset` (no flag, or flags that are not read) and `MarkerGiven` (the internal marker among
the toolsets); of the latter only that nothing withheld is on offer is claimed.

### HttpFront

`ServeHTTP` is one request through `TerraformContextMiddleware` (`Answer`,
`TerraformContext`) and the security handler (`IsOriginAllowed`) to `NewSessionHandler`
with `ClientFor` (`CreateTfeClientForSession`); `ConnectStdio` the same without a
request, `EndSession` the end of a session. A client is its address, token and forwarded
IP, `None` for what is absent. `arrived` is history: the requests of a session that got
through. `ClientFromOwnRequest` also says that a server with a token of its own keeps to
its own address, and excepts what the code lets pass: an address in the query of the
request (`AddressInQuery`). Making a client may fail, and the first one of all adds the TFE tools.

### StateTools

Pure functions from a state and the parameters of a tool to its answer, and
`InspectState`, a call with some state. A document is a function from the paths of its
leaves to their values, so that nested maps and lists need no recursion: `SetAtPath` puts
one leaf in the place of all below a path, `ApplyPatternRedaction` cuts paths at
their first key that matches. The entries of `sensitive_attributes` are gone through in
their order by a recursive function (`RedactedBy`), and an extracted instance is known by
its place, the resource and the instance in it (`Places`), so that the first or the last
place with an address (`FirstPlace`, `LastPlace`) is what a loop over them finds. An
answer keeps what it shows, each value with its address and path, and what it lists; the
layout is left out. A filter by a part of a type or of a module is the set of those that
contain it, one of `Fragment`.

`StatesAssumption` says what a parsed state file is: documents are trees, so nothing is
below a leaf; attributes are a map; no key begins with the zero byte of the code's
placeholder for an unknown step (`Unmatched`); and a path given to the diff names one file.

`NothingSensitiveShown` does not use the redaction: it looks every value that is shown up
in the raw state and asks whether an entry of `sensitive_attributes` or a matching key is
above it. `DiffReportsVisibleChanges` does not use it either. It has two sides: a leaf
that differs and is no secret in one of the two states makes its key a reported change,
and a reported key has a leaf that `Differs` before redaction: in its value, as a secret
that only one has, or in how far up it is sensitive. A value whose text is that of a label
cannot be told from one, and is no visible leaf (`Visible`).

`NothingSensitiveShown` says nothing of entries with a step of an unknown shape
(`Unmatched`), which the code takes for paths to nowhere. `UnknownStepFailsSafe` does:
it is what the comment of `normalizeStep` claims, read generously (at least one leaf in
reach of such an entry is not shown as it is), and `unknown_step` finds it false.

### TfeTools

Every handler is a *plan*, the requests it makes in their order, each with what it
concerns (the workspace found, a name, a new one, none) and whether the handler gives up
or goes on without it (`must`). One call with its plan goes on by `FindWorkspace`,
`ReadPart`, `PollFinished`, `PollPending`, `ReadPage` and `MakeChange`; any request may be
turned down (`RejectRequest`) or its answer be lost (`LoseAnswer`), after which it is
sent again, since `NewTfeClient` sets `RetryServerErrors`, with a change made or not.
`AcceptForm` and `DeclineForm` are the user in the elicitation of
`create_no_code_workspace`; the check of the values is the code's (`ExtractVariables`,
`ConvertVariableValue`). `OthersChangeNames`, `OthersManage` and `OthersPublish` are
other users of the same Terraform server between two requests. `named`, `pins`, `seen`,
`done` and `lost` are histories for the properties. The values and options of requests
are left out unless they decide what a change does: the run types, a rename, and
`autoApply`, the option of that name of a run or a workspace, which is "unset" if it is
not sent. A call that lacks an argument ends by `RefuseCall` before any request.

The tools of `Describing` put their answer together from what the server returned for the
change. `MakeChange` has the case in which that fails (`Undescribed`): the change is made,
and the caller is told of an error. `ChangesMatchAnswers` names this case
(`FailedToDescribe`) and says that one change was made then, no more and no fewer.

What the Terraform server does (`Effect`) is external: a name belongs to one workspace at
most, an id never comes back, and the safe deletion spares workspaces with managed
resources, which is what `Workspaces.SafeDelete` of the API promises.

### Server

The composition: configuration, process, requests, sessions, one call of a Terraform
tool that is on offer, and calls of state tools. A call gets beyond its arguments
only with a client of some session. `OperationsNeedOptIn` is a property of the whole: it
takes the registration of `action_run` and `delete_workspace_safely`, the two variants of
`create_run`, their run types and the option `auto_apply` to break it. It says what
`ENABLE_TF_OPERATIONS` really withholds: no run is told to apply itself, and a
plan_and_apply is told not to. It does not say that no run applies itself, which is false:
`SetsWorkspace` names the tools that set a workspace to apply its runs, and the run types
that leave the option unset do as their workspace is set (see "Noted while modelling").

## Runs

| Run | Question | Result |
|---|---|---|
| `state_cache` | tfc backend, two loads at a time, a serial session, an overlapping one and stateless requests on a full cache | bound, isolation, eviction order, age of hits and monotonic reads hold; the loader implements `VersionStore` |
| `refresh_race` | is the next call after a refresh fresh? | no: a load in flight undoes the refresh |
| `refresh_default_org` | the same for a serial client that relies on `TF_CLOUD_ORG` | no: `Invalidate` does not resolve the default organization, `Load` does |
| `session_clients` | two requests at a time, a session with a token and one without, streams that open and close | tools registered once, handlers only with a client, clean ends, no refusal without cause |
| `hook_returns_early` | does the hook guarantee the session's clients? | no: it returns once the first of three steps of a concurrent hook is done |
| `client_not_registered` | does a TFE client always mean TFE tools? | no: a client made on demand is never registered if its session would be the first |
| `tool_calls` | two calls at a time of two sessions and of stateless clients, limiters of one and three tokens | both limits hold in every window of time; a session is rejected only for its own excess; the recorded latency is a call's own unless ids are shared |
| `shared_request_id` | is the recorded duration that of the call? | no: another client's call with the same id replaces the start time |
| `registry_calls` | every call, with any request failing, limited or late, and a registry that changes | every call ends; answers are of the provider asked for; searches are complete, surveys are those of all documents |
| `unknown_step` | does an entry with a step of unknown shape "fail safe"? | no: it redacts nothing of what is in its reach |
| `server` | the whole server, from flags and environment through requests and clients to every state tool and every Terraform tool | offer, opt-in, clients of one's own request, redaction, diffs, named workspaces, honest answers, consent, safe deletion; every call ends |
| `namespace_fallback` | does a search fall back only if the provider is not there? | no: also if the request for its latest version failed |

Bounds of `state_cache`: two goroutines are enough for every pair of lock
regions to interleave; three keys (two sessions and the stateless one) exceed
`MaxSize = 2`; `TTL = 2` of three ticks lets entries expire and be renewed; two
versions distinguish stale from fresh. Bounds of `session_clients`: two requests
and a stream give three goroutines in one session's hook; nothing is counted
without a bound there, so the run explores the whole behaviour. Bounds of `tool_calls`: two
calls race for one limiter's creation; `MaxNow = 2` at one token per tick, or one
every other tick, lets each limiter run empty, refill in part and reject. Bounds of
`registry_calls`: two namespaces give a fallback, two versions a publication during a
call; five documents on pages of two give full pages, a partial one, the empty
one that ends the listing, and a document added between any two. Four of them are for
hcl: one category stays within `ShowAll = 2`, another exceeds it by one and is cut to
`ShowFew = 1`, which stand for 10 and 3. `RetryMax = 2` stands for the code's 3: a
first and a last retry. `unknown_step` has the state tools alone, on every state
of `server`.

Bounds of `server`: the configurations cover both transports, every kind of flag value
(none, blank, unknown, default, a mix, the internal marker), backend and consent for the
state tools, every TLS and CORS case, and credentials from each source. To keep the
product small (149,456 distinct states), requests, calls and state inspections are explored in the
configurations of `MCServer` that matter for them (`CallConfig`, `InspectConfig`).
Two requests of two sessions let one session's credentials meet another's and a
later request its own client. Two names and three workspace ids let the workspace of
a call lose its name, and another take it, while it runs, which takes two changes of others
(`MaxChanges`). `MaxTries = 2` loses one answer and the repetition's too; the code's
library tries more often, to no other effect. `MaxPolls = 2` stands for 30 attempts and
`MaxPages = 3` for any number of pages of a list that has a last one: first, next and last
are distinct. That it has one is an assumption. `list_workspace_policy_sets` asks for as
long as the server names a next page (`policy_sets.go:116-164`), and nothing in the code
ends a listing without end; `EveryCallEnds` does not speak of one. Versions of the no-code
module differ in their inputs and in a type. The states have flat and nested sensitive
paths, paths above and beside what is there, entries of unknown shape, a secret that is
null, and two instances with one address.

Two runs assume fairness. `registry_calls`, for `EveryCallAnswered`: a call takes its next step
some day. Each attempt ends by the client's timeout of ten seconds (`registry.go:37`),
and a wait ends at the registry's reset time, which the code does not bound: the
property says that a call ends, not when. The registry adds finitely many documents
(`MaxDoc`); nothing else is assumed of it, it may fail or limit every request.

`server` has weak fairness of `ServeCall`, for `EveryCallEnds`: a handler that waits for a
request goes on, as each is answered or given up by the same timeout, and the
resending is bounded. Users and other clients are not assumed to do anything, so the
property excepts an open form and a server that stopped.

Two properties have an exception for what the code does not do. A fresh entry of
a session that overlaps its calls may be deleted by `get` after another call has
just renewed it (`FreshEntryDroppedOnlyIfOldest` is stated of serial sessions;
the effect is one more fetch). A close that requests overlap may leave clients
and a registration behind until the next close (`RegisteredHasClient`,
`EndCleansUp`).

## Proofs

Eight modules hold proofs. They cover every invariant and every action property of the
passing runs, and the refinement, for all values of the constants, from the named
assumptions of the modules. The two liveness properties, `EveryCallAnswered` and
`EveryCallEnds`, are model-checked only; `CallsAdvance` and `ServerCallsSpend` prove the
part of them that is safety.

- `Typing`: `TypeOK` is inductive in every module.
- `SizeBound`: `CacheBounded` with the finiteness of `entries`; the lemma
  `SurvivorsBound` shows that `put` leaves room for one more.
- `SessionIsolation`: every entry's state was read by the session in its key, for
  the target in its key, and a goroutine holds only such states.
- `SerialReads`: strengthened with: every entry of a serial session is at least as
  new as what the session knows, as is what its one running call holds. It assumes
  the tfc backend and no default organization, which `refresh_default_org` shows to be
  necessary.
- `HitAge`: every entry was put at most `FetchTime` after it was read.
- `Evictions`: `FreshEntryDroppedOnlyIfOldest`. `put` needs the size bound: a full map
  with no room once the expired entries are gone has none that expired. `get` drops
  under the write lock what it found expired without a lock; `DropInv` says that in
  between only the session's one call could renew the entry.
- `HandlerClient`, `RegisteredOnce`: whoever is registered, in the map, or about to
  be, once had a client created (`AuthInv`).
- `EndCleans`, `RegisteredClient`: `QuietInv` follows a close step by step,
  `FreshInv` says that whoever is about to register finds its client still there.
- `Refusals`: `CauseInv`, a request whose hook did not fail and that no close
  overlapped keeps its client in the map.
- `GlobalRateLimit`, `SessionRateLimit`: a window of calls says nothing of the next
  step, so the invariant (`Backs`) relates the limiter's tokens to the calls it let
  through: since any of them, tokens and calls together are no more than the burst and
  what the rate has added. For sessions `LimiterInv` adds that each has one limiter,
  no two the same, and that a call holds the one in the map.
- `SessionRejections`: the converse (`Tight`): a limiter is full, or since some call
  its tokens and calls add up exactly, so a call that finds less than one token would
  exceed the rate.
- `OwnLatency`: `StartInv` says that two running calls with one id both count as
  sharing it, so ending one call removes no start time that another relies on.
- `AskedProvider`: `AskedInv` follows the target from the arguments to the answer and
  says that the present version is always among `latest`.
- `CompleteAnswers`: `PagesInv`, which relates the list to the pages so far: it
  holds what `before` counts up to the end of the last page, and nothing after it.
  `LastPage` turns an empty page into a complete list, for every page size. A survey
  is right because a category is listed in order and a part shown is its beginning
  (`SectionsOf`, `Beginning`, `SurveyRight`).
- `Refinement`: `StateLoader` implements `VersionStore`. The step simulation needs
  `HeldInv`, that nothing cached or on its way to a client is ahead of the backend, and
  `SerialReads`' invariant for the floor below which a serial client is not answered.
- `Offer` (`HttpFrontProofs`, on `StartUp`): `Inv` says that the selection is fixed from
  registration on and that what is on offer is what `RegisterTools` adds plus, once the flag
  is set, what `RegisterTFETools` adds; `EnabledIfWanted` relates the operators on toolsets
  to `Wanted` for every set of names.
- `OwnRequest` (`HttpFrontProofs`): nested `FirstOf`s give the first source that gives
  anything (`FirstOfThree`, `FirstOfFour`), so one client is made of one request
  (`ClientMadeFrom`), and the requests of a session are only forgotten with its client.
- `RedactionForm` (`StateToolsProofs`): what the loop over the entries of
  `sensitive_attributes` leaves of a document does not depend on their order. A label is at
  the shortest entry that is at or above a leaf, and every leaf without one stays as it is
  (`CopyForm`). The loop is a recursive function; `CopiesExist` shows that there is a
  function with its equations, as the prover does not take that from the definition, and
  the invariant of the loop is proved by least counterexample (`LeastNat`,
  `InductionUpTo`), where the library's induction needs an operator as a parameter.
- `Redaction`: each leaf after both redactions is a label, or the raw leaf of the same path
  with no entry and no matching key at or above it. `CopyInvStep` is one round of the
  loop, `HitsCovers` relates the entry as normalized to what it says, and `WhereCut` finds
  the first key that matches.
- `RedactionLocal`: what becomes of a key depends only on the leaves below it and on how
  far up entries cover them. This is why a change that a diff reports is one before
  redaction. It rests on `RedactionForm`: two lists of entries with the same shortest ones
  at each leaf leave the same (`LeftAlike`).
- `InspectStep`, for every state tool: `OutputsFit`, `ResourceFits`, `SearchFits` and
  `DiffFits` take a value that is shown back to the instance or output that it is of;
  `FirstExists` and `LastExists` are the loops that find an instance by its address;
  `SeenDiffers` and `OpenIsSeen` are the two sides of a diff. `ServerNothingSensitive`
  and `ServerDiff` say it of the server.
- `CallsAdvance` (`RegistryClientProofs`): a step of a call lowers `Rank`, in the
  lexicographic order of what stage the call is at, how many pages or contents are left,
  and how many retries and waits; the order has no endless descent (`NearerEnds`), and
  what the registry publishes leaves the rank alone. So no call can go on for ever. That it
  does not stop before its answer is left to the run, as it needs fairness and ENABLED.
- `TfeInvariance` (`TfeToolsProofs`): every plan is a `GoodPlan` (`GoodPlans`): what must
  be found is found first, one request at most makes a change, it must succeed and is
  last, except for an export. The requests left are a suffix of the plan (`ShapeInv`),
  which makes every step of a handler one of a few kinds. `TfeInv` then has the names of
  workspaces (`WorldInv`), what the call is about (`TargetInv`), the counters
  (`PollsInv`), what was done and what is still pending (`ChangesInv`, for honest answers:
  an intended change is done or pending, never both unless an answer was lost, and after an
  error of a tool of `Describing` with nothing left to ask for it is done, once), who bore
  the name (`NamedInv`), that each change made is one of the plan (`WhatInv`), and what the
  form of a no-code workspace holds after each of its requests (`ConsentInv`).
- `ServerProofs`: each step of the server is a step of `StartUp`, of `HttpFront` and of a
  call, or leaves their variables alone (`StartPart`, `FrontPart`, `TfePart`), so their
  invariants hold of the whole (`Parts`). `ServerOffer`, `ServerOwnRequest`,
  `ServerKeepsToNamed`, `ServerChangesMatch`, `ServerConsent` and `ServerSafeDelete`
  follow. `ServerOptIn` needs both: `OptInInv` ties the plan of the call to the tools on
  offer when it began, and `MildPlans` says that without the two tools no plan has such
  a change, and that a run it asks for is not told to apply itself (`MildSetting`).
  `ServerTyping` adds the answers of the state tools.
- `ServerCallsSpend`: a call of a Terraform tool has a `Budget`, never more than the
  requests of its plan with the further pages or attempts of the two tools that poll, each
  sent `MaxTries` times. Each step of the handler or the user spends of it, nothing that
  others do gives any back, and a call runs exactly as long as some is left. `Spends` says
  how: a request or a poll less, or the same request once more (`PollsInv` and `ShapeInv`
  bound both).

Liveness under fairness and enabledness are out of the prover's reach and stay with TLC:
that a call of the registry or of Terraform has a next step as long as it is not
answered, and takes it.

## Noted while modelling

Checked by a run, and listed under `findings` in `PROJECT.json`: the seven runs above that
expect a violation. Not the subject of a run, but visible in the model or met on the way:

- `--tools` alone, which `README.md:541` shows as the way to enable single tools (so does
  the container example, `README.md:479`), ends the process: the default of `--toolsets` is
  "all" (`init.go:127`), and the check for conflicting flags takes it for a flag that was
  given (`main.go:238`). `FlagsConflict` is that check. With `--toolsets=` or
  `--toolsets=default` beside it, `--tools` works.
- `README.md:538` gives `registry` as the default of `--toolsets`; `init.go:127` says
  "all". `ToolsOnOffer` excepts it (`Unset`).
- With an environment that asks for HTTP, `main` reads `--toolsets`, `--tools` and
  `--log-file` before the command line is parsed (`main.go:278-300`), so they are ignored.
- Names that are neither toolset nor tool are reported as ignored (`main.go:195`) and kept;
  they enable nothing, but the internal marker of `--tools`, given as a toolset, takes all
  other toolsets away (`mapping.go:131-134`). `ToolsOnOffer` excepts it (`MarkerGiven`).
- With a token in its environment the server refuses an address in the header, so that
  the token goes to no address that a client chose (`middleware.go:150-157`; `README.md:605`
  says that overriding the address is blocked). The query parameter of that name is read a
  few lines on without that check (`middleware.go:168`). `ClientFromOwnRequest` excepts it
  (`AddressInQuery`); the run has the case.
- Without `ENABLE_TF_OPERATIONS` (`README.md:50`: "Enable tools that require explicit
  approval"), runs may apply themselves all the same: `update_workspace` and
  `create_workspace` set a workspace to do so, `create_no_code_workspace` makes one whose
  first run does, and of the run types of the safe `create_run` only plan_and_apply sends
  auto_apply = false (`create_run.go:80-89`); the others, and any unknown type, leave it to
  the workspace. `OperationsNeedOptIn` excepts it (`SetsWorkspace`).
- Five tools answer with an error after their change was made, when the answer cannot be
  put together (`create_run.go:101-103`, 197-200, `update_workspace.go:172-175`,
  `create_workspace.go:182-185`, `create_no_code_workspace.go:100-103`,
  `delete_workspace_safely.go:60-63`). `ChangesMatchAnswers` excepts it.
- `list_workspace_policy_sets` goes on for as long as the server names a next page.
- A TLS configuration is set up and `ListenAndServe`, not `ListenAndServeTLS`, is called
  (`init.go:358, 371`); `StartUp` models the decision to listen only.
- A session keeps the client of its first credentials; a later request with others
  finds it (`tfe_client.go:90-96`).
- A diff sees redacted values: a change from one secret to another does not show, and a
  change of what is sensitive does (`DiffReportsVisibleChanges` says which do). So a
  secret that is null in one state and absent in the other is reported, and so are two
  equal secrets if an entry of one state lies further up than those of the other.
- `RetryServerErrors` resends requests that are not idempotent: a change may be made twice
  (`ChangesMatchAnswers` excepts lost answers).
- `get_sentinel_mock` is annotated as read-only and creates an export.
- `get_workspace_details` succeeds without the variables it could not read.

## Not modelled

- Stateless mode of the HTTP server outside `StateLoader` (requests without an identity),
  where every request has the session id "".
- A shutdown in progress, and the timeouts of the HTTP server towards its clients.
- The `gsutil` and `aws` processes that read state from GCS and S3: a fetch succeeds or fails.
- That redaction copies before it changes (`redact.go:21`): states are values in
  `StateTools`, so two readers cannot share one.
- Resources (`pkg/resources`): stateless reads and formatting. Utilities
  (`pkg/utils`): parsing of arguments and logging. Counters and exporters of the metrics.
- How answers are formatted, but for the survey of `get_provider_capabilities`, and failures
  to marshal the answer of a tool that changes nothing.
- The load test, the end-to-end tests and the release tooling.

`PROJECT.json` lists every component with the reason.

## Plan

Done: `StateLoader`, `SessionClients`, `ToolCalls`, `RegistryClient`, `VersionStore` and
the refinement, `StartUp`, `HttpFront`, `StateTools`, `TfeTools`, `Server`, and the proofs
above. Left:

1. An abstract specification of what tools a session sees, `ToolOffer`, refined by
   `SessionClients` with the offer of `StartUp`.
2. Several overlapping calls of TFE tools in `Server`, which share a session's client.
3. Stateless mode in `SessionClients`.
