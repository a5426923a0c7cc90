---------------------------- MODULE StateLoader ----------------------------
(***************************************************************************)
(* The Terraform state cache: pkg/tools/state/loader.go and the            *)
(* tf_refresh_cache tool.                                                  *)
(*                                                                         *)
(* Every state-inspection tool (tf_list_resources, tf_get_outputs, ...)    *)
(* calls StateLoader.Load, which runs in the goroutine of its request: it  *)
(* looks the workspace up in an in-memory cache with a TTL and a size      *)
(* bound, fetches the state from the backend on a miss, and stores what it *)
(* fetched.  The cache's mutex covers each map access, not the whole Load, *)
(* so each lock region is an action of its own here and other requests run *)
(* in between.  The content of a state is abstracted to a version number   *)
(* that grows whenever something outside the server applies a change.      *)
(***************************************************************************)
EXTENDS Integers, FiniteSets

CONSTANTS
  Call,            \* goroutines that may be inside Load at the same time
  Session,         \* MCP session ids; None among them is the id "" of a stateless request
  SerialSession,   \* the sessions whose client awaits each answer before its next call
  Watched,         \* the sessions whose promises the history variable known records
  Org, Workspace,  \* names of organizations and workspaces, other than ""
  None,            \* Go's "" and nil
  Backend,         \* TF_STATE_BACKEND
  TFCloudOrg,      \* TF_CLOUD_ORG, or None
  TFEOrg,          \* TFE_ORG, or None
  MaxSize,         \* TF_STATE_CACHE_MAX_WORKSPACES
  TTL,             \* defaultCacheTTL, in ticks of the clock
  FetchTime,       \* assumed bound on the time between reading a version and storing it
  MaxNow,          \* bound on the clock
  MaxVersion       \* bound on the versions of a state

TFC == Backend = "tfc"

\* What a state can be fetched for: a workspace of Terraform Cloud, or the one
\* object the local, gcs and s3 backends are configured with.
TargetSet == IF TFC THEN Org \X Workspace ELSE {<<None, None>>}

ASSUME NameAssumption ==
  /\ None \notin Org \cup Workspace
  /\ None \notin Call
  /\ {TFCloudOrg, TFEOrg} \subseteq Org \cup {None}

ASSUME BoundAssumption ==
  /\ MaxSize \in Nat \ {0}
  /\ TTL \in Nat \ {0}
  /\ FetchTime \in Nat
  /\ MaxNow \in Nat
  /\ MaxVersion \in Nat \ {0}

ASSUME SessionAssumption ==
  /\ SerialSession \subseteq Watched
  /\ Watched \subseteq Session \ {None}

VARIABLES
  now,      \* the wall clock
  source,   \* source[t]: the version of target t's state at the backend
  entries,  \* stateCache.entries, a map whose domain changes
  pc,       \* pc[c]: where goroutine c is in Load
  req,      \* req[c]: the request c serves, with its resolved target
  entry,    \* entry[c]: the cacheEntry c read under the read lock
  state,    \* state[c]: the state c fetched, then its answer
  known     \* history: known[<<s, t>>] is the newest version s has seen or was promised

vars == <<now, source, entries, pc, req, entry, state, known>>

-----------------------------------------------------------------------------
(* Types *)

\* A TerraformState, reduced to whose request read what and when.
State == [reader : Session, target : TargetSet, version : Nat, readAt : Nat]
Entry == [state : State, loadedAt : Nat]
Request == [sess : Session, target : TargetSet, floor : Nat]
Key == (Session \cup {None}) \X TargetSet
PC == {"idle", "get", "check", "drop", "fetch", "store", "done"}

-----------------------------------------------------------------------------
(* Helpers *)

\* TF_CLOUD_ORG, then TFE_ORG, stand in for an organization that is not given.
ResolveOrg(org) ==
  IF org # None THEN org ELSE IF TFCloudOrg # None THEN TFCloudOrg ELSE TFEOrg

\* Only the tfc backend looks at the organization and the workspace.
Target(org, ws) == IF TFC THEN <<org, ws>> ELSE <<None, None>>

\* Load returns an error, with no effect, when either name is missing.
Rejected(org, ws) == TFC /\ (ResolveOrg(org) = None \/ ws = None)

\* Faulty variant: the entries of all sessions share one key per workspace.
CacheKey_NoIdentity(s, t) == <<None, t>>

CacheKey(s, t) == <<IF TFC THEN s ELSE None, t>>

\* A tfc request without an identity never reads the cache.
Forced(s) == TFC /\ s = None

Expired(e) == now - e.loadedAt >= TTL

Without(k) == [j \in DOMAIN entries \ {k} |-> entries[j]]

\* Faulty variant: the comparison of load times is the wrong way round.
Oldest_Newest(keys) ==
  {k \in keys : \A j \in keys : entries[k].loadedAt >= entries[j].loadedAt}

Oldest(keys) ==
  {k \in keys : \A j \in keys : entries[k].loadedAt <= entries[j].loadedAt}

\* Faulty variant: the size test is off by one.
Survivors_OffByOne ==
  IF Cardinality(DOMAIN entries) <= MaxSize THEN {DOMAIN entries}
  ELSE {DOMAIN entries \ {k} : k \in Oldest(DOMAIN entries)}

\* The keys put may leave in the map before it adds its own: at the size limit
\* it deletes the expired entries and, if that made no room, an oldest one.
Survivors ==
  IF Cardinality(DOMAIN entries) < MaxSize THEN {DOMAIN entries}
  ELSE LET live == {k \in DOMAIN entries : ~Expired(entries[k])}
       IN IF Cardinality(live) < MaxSize THEN {live}
          ELSE {live \ {k} : k \in Oldest(live)}

\* The oldest version that a call which starts now may be answered with.
Floor(s, t) ==
  IF Forced(s) THEN source[t] ELSE IF s \in Watched THEN known[<<s, t>>] ELSE 0

\* The promises after a refresh by session s of what org and ws stand for.
PromisedBy(s, org, ws) ==
  IF s \notin Watched \/ Rejected(org, ws) THEN known
  ELSE LET t == Target(ResolveOrg(org), ws)
       IN [known EXCEPT ![<<s, t>>] = source[t]]

\* No goroutine is serving a call of session s.
Quiet(s) == \A c \in Call : pc[c] # "idle" => req[c].sess # s

KeyOf(c) == CacheKey(req[c].sess, req[c].target)

Goto(c, label) == pc' = [pc EXCEPT ![c] = label]

-----------------------------------------------------------------------------
Init ==
  /\ now = 0
  /\ source = [t \in TargetSet |-> 1]
  /\ entries = [k \in {} |-> None]
  /\ pc = [c \in Call |-> "idle"]
  /\ req = [c \in Call |-> None]
  /\ entry = [c \in Call |-> None]
  /\ state = [c \in Call |-> None]
  /\ known = [p \in Watched \X TargetSet |-> 0]

\* A tool call of session s enters Load (forceRefresh is false in every caller).
StartLoad(c, s, org, ws) ==
  /\ pc[c] = "idle"
  /\ s \in SerialSession => Quiet(s)
  /\ ~Rejected(org, ws)
  /\ LET t == Target(ResolveOrg(org), ws)
     IN req' = [req EXCEPT ![c] =
                  [sess |-> s, target |-> t, floor |-> Floor(s, t)]]
  /\ Goto(c, IF Forced(s) THEN "fetch" ELSE "get")
  /\ UNCHANGED <<now, source, entries, entry, state, known>>

\* stateCache.get, under the read lock: the entry is copied out.
CacheGet(c) ==
  /\ pc[c] = "get"
  /\ IF KeyOf(c) \in DOMAIN entries
     THEN /\ entry' = [entry EXCEPT ![c] = entries[KeyOf(c)]]
          /\ Goto(c, "check")
     ELSE /\ Goto(c, "fetch")
          /\ UNCHANGED entry
  /\ UNCHANGED <<now, source, entries, req, state, known>>

\* Faulty variant: a hit renews the entry, a TTL of the last use.
CheckAge_Renews(c) ==
  /\ pc[c] = "check"
  /\ ~Expired(entry[c])
  /\ Goto(c, "done")
  /\ state' = [state EXCEPT ![c] = entry[c].state]
  /\ entries' = [k \in DOMAIN entries |->
                   IF k = KeyOf(c) THEN [entries[k] EXCEPT !.loadedAt = now]
                                   ELSE entries[k]]
  /\ entry' = [entry EXCEPT ![c] = None]
  /\ UNCHANGED <<now, source, req, known>>

\* stateCache.get, after the read lock: the age of the copy decides.
CheckAge(c) ==
  /\ pc[c] = "check"
  /\ IF Expired(entry[c])
     THEN /\ Goto(c, "drop")
          /\ UNCHANGED state
     ELSE /\ Goto(c, "done")
          /\ state' = [state EXCEPT ![c] = entry[c].state]
  /\ entry' = [entry EXCEPT ![c] = None]
  /\ UNCHANGED <<now, source, entries, req, known>>

\* stateCache.get, under the write lock: whatever the key holds by now goes.
DropExpired(c) ==
  /\ pc[c] = "drop"
  /\ entries' = Without(KeyOf(c))
  /\ Goto(c, "fetch")
  /\ UNCHANGED <<now, source, req, entry, state, known>>

\* fetchState reads the backend's current version (for tfc, ReadCurrent).
Fetch(c) ==
  /\ pc[c] = "fetch"
  /\ state' = [state EXCEPT ![c] =
                 [reader |-> req[c].sess, target |-> req[c].target,
                  version |-> source[req[c].target], readAt |-> now]]
  /\ Goto(c, "store")
  /\ UNCHANGED <<now, source, entries, req, entry, known>>

\* Faulty variant: the error of fetchState is dropped and a nil state stored.
FetchFails_Stored(c) ==
  /\ pc[c] = "fetch"
  /\ state' = [state EXCEPT ![c] = None]
  /\ Goto(c, "store")
  /\ UNCHANGED <<now, source, entries, req, entry, known>>

\* Any call of fetchState may fail, before or after it chose the version (the
\* download, the size limit, the parse): Load returns the error, stores nothing.
FetchFails(c) ==
  /\ pc[c] \in {"fetch", "store"}
  /\ state' = [state EXCEPT ![c] = None]
  /\ Goto(c, "done")
  /\ UNCHANGED <<now, source, entries, req, entry, known>>

\* stateCache.put, all under the write lock; loadedAt is the time of the put.
Put(c) ==
  /\ pc[c] = "store"
  /\ \E kept \in Survivors :
       entries' = [k \in kept \cup {KeyOf(c)} |->
                     IF k = KeyOf(c) THEN [state |-> state[c], loadedAt |-> now]
                                     ELSE entries[k]]
  /\ Goto(c, "done")
  /\ UNCHANGED <<now, source, req, entry, state, known>>

\* The tool's answer reaches its client.  A serial client has now seen it.
Reply(c) ==
  /\ pc[c] = "done"
  /\ known' = IF state[c] # None /\ req[c].sess \in SerialSession
              THEN [known EXCEPT ![<<req[c].sess, req[c].target>>] = state[c].version]
              ELSE known
  /\ Goto(c, "idle")
  /\ req' = [req EXCEPT ![c] = None]
  /\ state' = [state EXCEPT ![c] = None]
  /\ UNCHANGED <<now, source, entries, entry>>

\* Faulty variant: Invalidate was not adapted to keys that hold an identity.
Refresh_NoIdentity(s, org, ws) ==
  /\ s \in SerialSession => Quiet(s)
  /\ entries' = Without(CacheKey(None, Target(org, ws)))
  /\ known' = PromisedBy(s, org, ws)
  /\ UNCHANGED <<now, source, pc, req, entry, state>>

\* tf_refresh_cache: one lock region.  Invalidate builds its key from the
\* organization as given.  The answer promises that the next Load of the same
\* arguments fetches from the backend.
Refresh(s, org, ws) ==
  /\ s \in SerialSession => Quiet(s)
  /\ entries' = Without(CacheKey(s, Target(org, ws)))
  /\ known' = PromisedBy(s, org, ws)
  /\ UNCHANGED <<now, source, pc, req, entry, state>>

\* Something outside the server applies a change to a target.
Apply(t) ==
  /\ source[t] < MaxVersion
  /\ source' = [source EXCEPT ![t] = @ + 1]
  /\ UNCHANGED <<now, entries, pc, req, entry, state, known>>

\* Time passes, but no fetch takes longer than FetchTime.
Tick ==
  /\ now < MaxNow
  /\ \A c \in Call : pc[c] = "store" => now < state[c].readAt + FetchTime
  /\ now' = now + 1
  /\ UNCHANGED <<source, entries, pc, req, entry, state, known>>

Next ==
  \/ \E s \in Session, org \in Org \cup {None}, ws \in Workspace \cup {None} :
       \/ \E c \in Call : StartLoad(c, s, org, ws)
       \/ Refresh(s, org, ws)
  \/ \E c \in Call :
       \/ CacheGet(c)
       \/ CheckAge(c)
       \/ DropExpired(c)
       \/ Fetch(c)
       \/ FetchFails(c)
       \/ Put(c)
       \/ Reply(c)
  \/ \E t \in TargetSet : Apply(t)
  \/ Tick

Spec == Init /\ [][Next]_vars

-----------------------------------------------------------------------------
(* Properties *)

\* Every variable has its type; a goroutine about to put holds a state.
TypeOK ==
  /\ now \in Nat
  /\ source \in [TargetSet -> Nat]
  /\ DOMAIN entries \subseteq Key
  /\ \A k \in DOMAIN entries : entries[k] \in Entry
  /\ pc \in [Call -> PC]
  /\ req \in [Call -> Request \cup {None}]
  /\ entry \in [Call -> Entry \cup {None}]
  /\ state \in [Call -> State \cup {None}]
  /\ known \in [Watched \X TargetSet -> Nat]
  /\ \A c \in Call :
       /\ pc[c] # "idle" => req[c] \in Request
       /\ pc[c] = "check" => entry[c] \in Entry
       /\ pc[c] = "store" => state[c] \in State

\* put makes room before it adds: whatever loads, expires and refreshes run at
\* once, the map never holds more than maxSize entries (loader.go:74-100).
CacheBounded == Cardinality(DOMAIN entries) <= MaxSize

Answered(c) == pc[c] = "done" /\ state[c] # None

\* On the tfc backend a load answers only with a state that was read from the
\* backend by a request of the same session, and of the workspace it asked for:
\* no session gets a state through another one's entry (loader.go:205-212).
AnswersOwnRequest ==
  TFC => \A c \in Call : Answered(c) =>
           /\ state[c].reader = req[c].sess
           /\ state[c].target = req[c].target

\* A client that awaits each answer before its next call never sees a workspace
\* go back: what it gets is at least as new as what it got before and as what
\* the backend held at its last tf_refresh_cache.  A request without an identity
\* is never behind the backend at the time it started (loader.go:233-239).
SerialReadsNeverGoBack ==
  \A c \in Call :
    Answered(c) /\ (req[c].sess \in SerialSession \/ Forced(req[c].sess)) =>
      state[c].version >= req[c].floor

\* tf_refresh_cache answers "The next call to any state inspection tool will
\* fetch fresh data from the backend" (refresh_cache.go:55): a call that starts
\* after a refresh gets at least the version the backend held at that refresh.
RefreshIsFresh ==
  \A c \in Call : Answered(c) => state[c].version >= req[c].floor

\* An entry that has not expired disappears only when its own key is refreshed,
\* or when put finds the map full of entries that have not expired either and
\* none of them is older (loader.go:77-98).  Of a serial session: get may drop
\* what a concurrent call of the same session has just stored.
FreshEntryDroppedOnlyIfOldest ==
  [][\A k \in DOMAIN entries \ DOMAIN entries' :
       k[1] \in SerialSession /\ ~Expired(entries[k]) =>
         \/ pc' = pc /\ DOMAIN entries' = DOMAIN entries \ {k}
         \/ /\ Cardinality(DOMAIN entries) = MaxSize
            /\ \A j \in DOMAIN entries :
                 ~Expired(entries[j]) /\ entries[k].loadedAt <= entries[j].loadedAt]_vars

\* The TTL counts from put, not from the read: a hit is a state the backend held
\* less than TTL plus the duration of one fetch ago (loader.go:65, 99).
HitIsRecent ==
  [][\A c \in Call : pc[c] = "check" /\ pc'[c] = "done" =>
       now < state'[c].readAt + TTL + FetchTime]_vars
-----------------------------------------------------------------------------
(* The abstract specification *)

\* Where goroutine c is, as its client sees it.
StatusOf(c) ==
  IF pc[c] = "idle" THEN "none" ELSE IF pc[c] = "done" THEN "answered" ELSE "asked"

\* The versions that goroutine c answers with: none before it has answered and
\* none for an error.
AnswerOf(c) == IF Answered(c) THEN {state[c].version} ELSE {}

Store == INSTANCE VersionStore WITH
  Serial <- SerialSession,
  Direct <- {s \in Session : Forced(s)},
  Object <- TargetSet,
  status <- [c \in Call |-> StatusOf(c)],
  asked <- req,
  answer <- [c \in Call |-> AnswerOf(c)],
  seen <- known

\* To its clients the cache is a store without one: whatever loads, evictions,
\* expiries and refreshes overlap, each step of the loader is a step the abstract
\* store allows, or none (loader.go:217-264; no default organization, see the
\* run refresh_default_org).
ImplementsVersionStore == Store!Spec
=============================================================================
