----------------------------- MODULE ToolCalls -----------------------------
(***************************************************************************)
(* What surrounds every tool call: the rate limiter, installed as a        *)
(* middleware of the MCP server (pkg/client/ratelimit.go), and the metrics *)
(* hooks before and after the call (attachMetricsHooks in main.go).        *)
(*                                                                         *)
(* A call runs in a goroutine of its own.  It takes a token of the global  *)
(* limiter and then one of its session's limiter, which the session's      *)
(* first call creates under double-checked locking.  A limiter is a token  *)
(* bucket of golang.org/x/time/rate, whose Allow is atomic.  Time is       *)
(* counted in ticks and tokens in fractions, of which a call costs Cost.   *)
(***************************************************************************)
EXTENDS Integers, Sequences

CONSTANTS
  Call,       \* goroutines that serve a tools/call request
  Session,    \* MCP session ids other than ""
  Id,         \* JSON-RPC request ids, which each session counts for itself
  None,       \* the session id "" of a stateless request
  Cost,       \* fractions that make up one token
  GlobalRate, GlobalBurst,    \* fractions per tick, and tokens at most
  SessionRate, SessionBurst,
  MaxNow      \* bound on the clock

ASSUME NoneAssumption == None \notin Session

ASSUME RateAssumption ==
  /\ Cost \in Nat \ {0} /\ MaxNow \in Nat
  /\ GlobalRate \in Nat /\ GlobalBurst \in Nat \ {0}
  /\ SessionRate \in Nat /\ SessionBurst \in Nat \ {0}

VARIABLES
  now,              \* the clock
  globalLimiter,
  limiters,         \* every session limiter ever made; its index is its address
  sessionLimiters,  \* the map from session ids to addresses
  toolStartTimes,   \* the map from request ids to start times
  pc, call,         \* per goroutine: where it is, and what it serves
  limiter,          \* limiter[c]: the address getSessionLimiter returned to c
  admitted,         \* history: admitted[s], when the calls of s were let through
  taken,            \* history: when calls took a token of the global limiter
  shared            \* history: the running calls whose id another call used too

limits == <<globalLimiter, limiters, sessionLimiters, limiter>>
history == <<admitted, taken, shared>>
vars == <<now, limits, toolStartTimes, pc, call, history>>

Limiter == [tokens : Nat, last : Nat]
CallInfo == [sess : Session \cup {None}, id : Id, started : Nat]

-----------------------------------------------------------------------------
(* Token buckets *)

NewLimiter(burst) == [tokens |-> burst * Cost, last |-> now]

\* The tokens at the present time: what time has added, up to the burst.
Refilled(l, rate, burst) ==
  LET t == l.tokens + (now - l.last) * rate
  IN IF t < burst * Cost THEN t ELSE burst * Cost

Allows(l, rate, burst) == Refilled(l, rate, burst) >= Cost

Taken(l, rate, burst) == [tokens |-> Refilled(l, rate, burst) - Cost, last |-> now]

-----------------------------------------------------------------------------
Goto(c, label) == pc' = [pc EXCEPT ![c] = label]

Running == {c \in Call : pc[c] # "idle"}

Put(f, k, v) == [j \in DOMAIN f \cup {k} |-> IF j = k THEN v ELSE f[j]]

Init ==
  /\ now = 0
  /\ globalLimiter = NewLimiter(GlobalBurst)
  /\ limiters = <<>>
  /\ sessionLimiters = [s \in {} |-> 0]
  /\ toolStartTimes = [i \in {} |-> 0]
  /\ pc = [c \in Call |-> "idle"]
  /\ call = [c \in Call |-> None]
  /\ limiter = [c \in Call |-> 0]
  /\ admitted = [s \in Session |-> <<>>]
  /\ taken = <<>>
  /\ shared = {}

\* The client of session s awaits an answer with id i, and may not use i again.
Awaits(s, i) == s # None /\ \E c \in Running : call[c].sess = s /\ call[c].id = i

\* Faulty variant: a start time that is there already is not replaced.
BeforeCallTool_KeepsOld(c, s, i) ==
  /\ pc[c] = "idle" /\ ~Awaits(s, i)
  /\ call' = [call EXCEPT ![c] = [sess |-> s, id |-> i, started |-> now]]
  /\ toolStartTimes' = IF i \in DOMAIN toolStartTimes THEN toolStartTimes
                       ELSE Put(toolStartTimes, i, now)
  /\ Goto(c, "global")
  /\ shared' = LET same == {d \in Running : call[d].id = i}
               IN IF same = {} THEN shared ELSE shared \cup same \cup {c}
  /\ UNCHANGED <<now, limits, admitted, taken>>

\* A call arrives: the metrics hook stores its start under the request id alone.
BeforeCallTool(c, s, i) ==
  /\ pc[c] = "idle" /\ ~Awaits(s, i)
  /\ call' = [call EXCEPT ![c] = [sess |-> s, id |-> i, started |-> now]]
  /\ toolStartTimes' = Put(toolStartTimes, i, now)
  /\ Goto(c, "global")
  /\ shared' = LET same == {d \in Running : call[d].id = i}
               IN IF same = {} THEN shared ELSE shared \cup same \cup {c}
  /\ UNCHANGED <<now, limits, admitted, taken>>

\* The call is over.  After an error of Go, the after hook does not run.
End(c) ==
  /\ Goto(c, "idle")
  /\ call' = [call EXCEPT ![c] = None]
  /\ limiter' = [limiter EXCEPT ![c] = 0]
  /\ shared' = shared \ {c}

\* The server has no such tool.
ToolNotFound(c) ==
  /\ pc[c] = "global"
  /\ End(c)
  /\ UNCHANGED <<now, globalLimiter, limiters, sessionLimiters, toolStartTimes, admitted, taken>>

\* Faulty variant: the global limiter is asked but not drawn on.
AllowGlobally_Free(c) ==
  /\ pc[c] = "global"
  /\ Allows(globalLimiter, GlobalRate, GlobalBurst)
  /\ taken' = Append(taken, now)
  /\ Goto(c, IF call[c].sess = None THEN "handler" ELSE "lookup")
  /\ UNCHANGED <<now, limits, toolStartTimes, call, admitted, shared>>

\* The global token is taken before the session's limiter is asked; a call
\* without a session needs no other.
AllowGlobally(c) ==
  /\ pc[c] = "global"
  /\ Allows(globalLimiter, GlobalRate, GlobalBurst)
  /\ globalLimiter' = Taken(globalLimiter, GlobalRate, GlobalBurst)
  /\ taken' = Append(taken, now)
  /\ Goto(c, IF call[c].sess = None THEN "handler" ELSE "lookup")
  /\ UNCHANGED <<now, limiters, sessionLimiters, limiter, toolStartTimes, call, admitted, shared>>

RejectGlobally(c) ==
  /\ pc[c] = "global"
  /\ ~Allows(globalLimiter, GlobalRate, GlobalBurst)
  /\ End(c)
  /\ UNCHANGED <<now, globalLimiter, limiters, sessionLimiters, toolStartTimes, admitted, taken>>

\* Faulty variant: what the map gives for a missing key is returned.
FindLimiter_Nil(c) ==
  /\ pc[c] = "lookup"
  /\ limiter' = [limiter EXCEPT ![c] =
                   IF call[c].sess \in DOMAIN sessionLimiters
                   THEN sessionLimiters[call[c].sess] ELSE 0]
  /\ Goto(c, "session")
  /\ UNCHANGED <<now, globalLimiter, limiters, sessionLimiters, toolStartTimes, call, history>>

\* getSessionLimiter under the read lock.
FindLimiter(c) ==
  /\ pc[c] = "lookup"
  /\ IF call[c].sess \in DOMAIN sessionLimiters
     THEN /\ limiter' = [limiter EXCEPT ![c] = sessionLimiters[call[c].sess]]
          /\ Goto(c, "session")
     ELSE /\ Goto(c, "create")
          /\ UNCHANGED limiter
  /\ UNCHANGED <<now, globalLimiter, limiters, sessionLimiters, toolStartTimes, call, history>>

\* Faulty variant: no second look under the write lock.
CreateLimiter_Unchecked(c) ==
  /\ pc[c] = "create"
  /\ limiters' = Append(limiters, NewLimiter(SessionBurst))
  /\ sessionLimiters' = Put(sessionLimiters, call[c].sess, Len(limiters'))
  /\ limiter' = [limiter EXCEPT ![c] = sessionLimiters'[call[c].sess]]
  /\ Goto(c, "session")
  /\ UNCHANGED <<now, globalLimiter, toolStartTimes, call, history>>

\* Faulty variant: a new limiter starts without its burst.
CreateLimiter_Empty(c) ==
  /\ pc[c] = "create"
  /\ IF call[c].sess \in DOMAIN sessionLimiters
     THEN UNCHANGED <<limiters, sessionLimiters>>
     ELSE /\ limiters' = Append(limiters, NewLimiter(0))
          /\ sessionLimiters' = Put(sessionLimiters, call[c].sess, Len(limiters'))
  /\ limiter' = [limiter EXCEPT ![c] = sessionLimiters'[call[c].sess]]
  /\ Goto(c, "session")
  /\ UNCHANGED <<now, globalLimiter, toolStartTimes, call, history>>

\* getSessionLimiter under the write lock, after a second look.
CreateLimiter(c) ==
  /\ pc[c] = "create"
  /\ IF call[c].sess \in DOMAIN sessionLimiters
     THEN UNCHANGED <<limiters, sessionLimiters>>
     ELSE /\ limiters' = Append(limiters, NewLimiter(SessionBurst))
          /\ sessionLimiters' = Put(sessionLimiters, call[c].sess, Len(limiters'))
  /\ limiter' = [limiter EXCEPT ![c] = sessionLimiters'[call[c].sess]]
  /\ Goto(c, "session")
  /\ UNCHANGED <<now, globalLimiter, toolStartTimes, call, history>>

AllowInSession(c) ==
  LET a == limiter[c] s == call[c].sess
  IN /\ pc[c] = "session"
     /\ Allows(limiters[a], SessionRate, SessionBurst)
     /\ limiters' = [limiters EXCEPT ![a] = Taken(@, SessionRate, SessionBurst)]
     /\ admitted' = [admitted EXCEPT ![s] = Append(@, now)]
     /\ Goto(c, "handler")
     /\ UNCHANGED <<now, globalLimiter, sessionLimiters, limiter, toolStartTimes, call, taken, shared>>

RejectInSession(c) ==
  /\ pc[c] = "session"
  /\ ~Allows(limiters[limiter[c]], SessionRate, SessionBurst)
  /\ End(c)
  /\ UNCHANGED <<now, globalLimiter, limiters, sessionLimiters, toolStartTimes, admitted, taken>>

\* The latency that RecordToolCall records if c ends now: without a start time,
\* the present time stands in for it.
Latency(c) ==
  IF call[c].id \in DOMAIN toolStartTimes THEN now - toolStartTimes[call[c].id] ELSE 0

\* The handler has answered: the metrics hook takes the start time out.
AfterCallTool(c) ==
  /\ pc[c] = "handler"
  /\ toolStartTimes' = [i \in DOMAIN toolStartTimes \ {call[c].id} |-> toolStartTimes[i]]
  /\ End(c)
  /\ UNCHANGED <<now, globalLimiter, limiters, sessionLimiters, admitted, taken>>

Tick ==
  /\ now < MaxNow
  /\ now' = now + 1
  /\ UNCHANGED <<limits, toolStartTimes, pc, call, history>>

Next ==
  \/ \E c \in Call :
       \/ \E s \in Session \cup {None}, i \in Id : BeforeCallTool(c, s, i)
       \/ ToolNotFound(c)
       \/ AllowGlobally(c)
       \/ RejectGlobally(c)
       \/ FindLimiter(c)
       \/ CreateLimiter(c)
       \/ AllowInSession(c)
       \/ RejectInSession(c)
       \/ AfterCallTool(c)
  \/ Tick

Spec == Init /\ [][Next]_vars

-----------------------------------------------------------------------------
(* Properties *)

\* Every variable has its type; a call that asks its session's limiter has one.
TypeOK ==
  /\ now \in Nat
  /\ globalLimiter \in Limiter
  /\ limiters \in Seq(Limiter)
  /\ DOMAIN sessionLimiters \subseteq Session
  /\ \A s \in DOMAIN sessionLimiters : sessionLimiters[s] \in DOMAIN limiters
  /\ DOMAIN toolStartTimes \subseteq Id
  /\ \A i \in DOMAIN toolStartTimes : toolStartTimes[i] \in 0..now
  /\ pc \in [Call -> {"idle", "global", "lookup", "create", "session", "handler"}]
  /\ call \in [Call -> CallInfo \cup {None}]
  /\ limiter \in [Call -> Nat]
  /\ admitted \in [Session -> Seq(Nat)]
  /\ taken \in Seq(Nat)
  /\ shared \subseteq Call
  /\ \A c \in Call :
       /\ pc[c] # "idle" => call[c] \in CallInfo
       /\ pc[c] \in {"lookup", "create", "session"} => call[c].sess \in Session
       /\ pc[c] = "session" => limiter[c] \in DOMAIN limiters

\* The calls that log lists, over any stretch of time, are no more than the burst
\* and what the rate adds in that time.
WithinRate(log, rate, burst) ==
  \A i, j \in DOMAIN log :
    i <= j => (j - i + 1) * Cost <= burst * Cost + (log[j] - log[i]) * rate

\* MCP_RATE_LIMIT_SESSION (README.md:49): over any stretch of time, however its
\* first calls race for a limiter, a session is served no more calls than its
\* burst and its rate allow (ratelimit.go:105-125, 138-144).
SessionRateKept == \A s \in Session : WithinRate(admitted[s], SessionRate, SessionBurst)

\* MCP_RATE_LIMIT_GLOBAL: the same for all calls together.
GlobalRateKept == WithinRate(taken, GlobalRate, GlobalBurst)

\* A call is rejected for its session only if serving it would break the
\* session's rate: nothing but the session's own served calls counts against it.
SessionRejectsOnlyExcess ==
  [][\A c \in Call : pc[c] = "session" /\ pc'[c] = "idle" =>
       ~WithinRate(Append(admitted[call[c].sess], now), SessionRate, SessionBurst)]_vars

\* The recorded latency of a call is its own, whatever start times the calls that
\* were rejected left behind, unless another call with the same id overlapped it
\* (main.go:104-142).
LatencyIsOwnUnlessShared ==
  \A c \in Call \ shared : pc[c] = "handler" => Latency(c) = now - call[c].started

\* mcp_tool_duration_seconds is the "Duration of tool calls in seconds"
\* (main.go:433-435): what is recorded at the end of a call is its duration.
LatencyIsOwn ==
  \A c \in Call : pc[c] = "handler" => Latency(c) = now - call[c].started
=============================================================================
