-------------------------- MODULE ToolCallsProofs --------------------------
(***************************************************************************)
(* What TLAPS proves of ToolCalls, for any number of goroutines, sessions  *)
(* and ids, and any rates and bursts.                                      *)
(***************************************************************************)
EXTENDS ToolCalls, TLAPS

-----------------------------------------------------------------------------
(* Arithmetic of the token bucket *)

\* What a rate adds over two stretches of time in a row is what it adds over both.
LEMMA RateAdds ==
  ASSUME NEW r \in Nat, NEW a \in Int, NEW b \in Int, NEW c \in Int
  PROVE  /\ (c - b) * r + (b - a) * r = (c - a) * r
         /\ (c - a) * r \in Int
         /\ a <= b => (b - a) * r >= 0
OBVIOUS

\* A new limiter is full.
LEMMA NewLimiterType ==
  ASSUME NEW burst \in Nat, now \in Nat
  PROVE  /\ NewLimiter(burst) \in Limiter
         /\ NewLimiter(burst).tokens = burst * Cost
         /\ NewLimiter(burst).last = now
BY RateAssumption DEF NewLimiter, Limiter

\* Time never takes tokens away, nor adds more than the rate or above the burst.
LEMMA RefilledBounds ==
  ASSUME NEW l \in Limiter, NEW rate \in Nat, NEW burst \in Nat,
         now \in Nat, l.last <= now
  PROVE  /\ Refilled(l, rate, burst) \in Nat
         /\ Refilled(l, rate, burst) <= burst * Cost
         /\ Refilled(l, rate, burst) <= l.tokens + (now - l.last) * rate
<1>1. burst * Cost \in Nat
  BY RateAssumption
<1>2. (now - l.last) * rate \in Nat
  BY DEF Limiter
<1>3. l.tokens \in Nat
  BY DEF Limiter
<1>4. QED
  BY <1>1, <1>2, <1>3 DEF Refilled

LEMMA TakenType ==
  ASSUME NEW l \in Limiter, NEW rate \in Nat, NEW burst \in Nat,
         now \in Nat, l.last <= now, Allows(l, rate, burst)
  PROVE  /\ Taken(l, rate, burst) \in Limiter
         /\ Taken(l, rate, burst).tokens = Refilled(l, rate, burst) - Cost
         /\ Taken(l, rate, burst).last = now
<1>1. Refilled(l, rate, burst) \in Nat /\ Refilled(l, rate, burst) >= Cost
  BY RefilledBounds DEF Allows
<1>2. Refilled(l, rate, burst) - Cost \in Nat
  BY <1>1, RateAssumption
<1>3. QED
  BY <1>2 DEF Taken, Limiter

-----------------------------------------------------------------------------
(* A limiter and the log of what it let through *)

\* The tokens of l, of which log lists the calls that took one, leave no room for
\* more than the burst and the rate allow since any of these calls.
Backs(l, log, rate, burst) ==
  /\ l.tokens <= burst * Cost
  /\ \A i \in DOMAIN log :
       /\ log[i] \in Nat
       /\ log[i] <= l.last
       /\ l.tokens + (Len(log) - i + 1) * Cost <= burst * Cost + (l.last - log[i]) * rate

\* What one Allow does: the log grows within the rate.
LEMMA TakeKeepsRate ==
  ASSUME NEW l \in Limiter, NEW log \in Seq(Nat), NEW rate \in Nat, NEW burst \in Nat,
         now \in Nat, l.last <= now, Allows(l, rate, burst),
         Backs(l, log, rate, burst), WithinRate(log, rate, burst)
  PROVE  /\ Append(log, now) \in Seq(Nat)
         /\ Backs(Taken(l, rate, burst), Append(log, now), rate, burst)
         /\ WithinRate(Append(log, now), rate, burst)
<1> DEFINE n == Len(log)
           new == Append(log, now)
           full == burst * Cost
           t == Taken(l, rate, burst)
<1>1. /\ n \in Nat /\ Len(new) = n + 1 /\ DOMAIN log = 1..n /\ DOMAIN new = 1..(n + 1)
      /\ new \in Seq(Nat)
      /\ \A i \in 1..n : new[i] = log[i] /\ log[i] \in Nat
      /\ new[n + 1] = now
  OBVIOUS
<1>2. /\ t.last = now
      /\ t.tokens = Refilled(l, rate, burst) - Cost
      /\ Refilled(l, rate, burst) \in Nat
      /\ Refilled(l, rate, burst) <= full
      /\ Refilled(l, rate, burst) <= l.tokens + (now - l.last) * rate
      /\ Refilled(l, rate, burst) >= Cost
  BY TakenType, RefilledBounds DEF Allows
<1>3. full \in Nat /\ Cost \in Nat /\ l.tokens \in Nat /\ l.last \in Nat
  BY RateAssumption DEF Limiter
<1>4. ASSUME NEW i \in 1..n
      PROVE  t.tokens + (n - i + 2) * Cost <= full + (now - log[i]) * rate
  <2> DEFINE a == (n - i + 1) * Cost
             b == (n - i + 2) * Cost
             p == (l.last - log[i]) * rate
             q == (now - l.last) * rate
             w == (now - log[i]) * rate
             f == Refilled(l, rate, burst)
  <2>1. l.tokens + a <= full + p
    BY <1>1, <1>4 DEF Backs
  <2>2. q + p = w
    BY <1>1, <1>3, <1>4, RateAdds
  <2>3. b = a + Cost
    BY <1>1, <1>3, <1>4
  <2>4. a \in Int /\ b \in Int /\ p \in Int /\ q \in Int /\ w \in Int
    <3>1. i \in Int /\ n \in Int /\ log[i] \in Int /\ l.last \in Int /\ now \in Int
      BY <1>1, <1>3, <1>4
    <3> HIDE DEF n
    <3>2. a \in Int /\ b \in Int
      BY <1>3, <3>1
    <3>3. p \in Int /\ q \in Int /\ w \in Int
      BY <3>1
    <3>4. QED
      BY <3>2, <3>3
  <2>5. t.tokens = f - Cost /\ f \in Nat /\ f <= l.tokens + q
    BY <1>2
  <2> HIDE DEF t, n, full, a, b, p, q, w, f
  <2>6. t.tokens + b <= full + w
    BY <1>3, <2>1, <2>2, <2>3, <2>4, <2>5
  <2>7. QED
    BY <2>6 DEF b, w
<1>5. Backs(t, new, rate, burst)
  <2>1. ASSUME NEW i \in DOMAIN new
        PROVE  /\ new[i] \in Nat /\ new[i] <= now
               /\ t.tokens + (Len(new) - i + 1) * Cost <= full + (now - new[i]) * rate
    <3>1. CASE i \in 1..n
      <4>1. log[i] <= l.last
        BY <1>1, <3>1 DEF Backs
      <4>2. Len(new) - i + 1 = n - i + 2
        BY <1>1, <3>1
      <4>3. new[i] = log[i] /\ log[i] \in Nat /\ log[i] <= now
        BY <1>1, <1>3, <3>1, <4>1
      <4>4. t.tokens + (n - i + 2) * Cost <= full + (now - log[i]) * rate
        BY <1>4, <3>1
      <4> HIDE DEF t, n, full, new
      <4>5. QED
        BY <4>2, <4>3, <4>4
    <3>2. CASE i = n + 1
      <4>1. (Len(new) - i + 1) * Cost = Cost /\ (now - new[i]) * rate = 0
        BY <1>1, <1>3, <3>2
      <4>2. QED
        BY <1>1, <1>2, <1>3, <3>2, <4>1
    <3>3. QED
      BY <1>1, <2>1, <3>1, <3>2
  <2>2. t.tokens <= full
    BY <1>2, <1>3
  <2>3. QED
    BY <1>2, <2>1, <2>2 DEF Backs
<1>6. ASSUME NEW i \in DOMAIN new, NEW j \in DOMAIN new, i <= j
      PROVE  (j - i + 1) * Cost <= full + (new[j] - new[i]) * rate
  <2>1. CASE j \in 1..n
    BY <1>1, <1>6, <2>1 DEF WithinRate
  <2>2. CASE j = n + 1
    <3> DEFINE a == (Len(new) - i + 1) * Cost
               w == (now - new[i]) * rate
    <3>1. (j - i + 1) = (Len(new) - i + 1) /\ new[j] = now
      BY <1>1, <2>2
    <3>2. t.tokens + a <= full + w
      BY <1>2, <1>5 DEF Backs
    <3>3. t.tokens \in Nat
      BY TakenType DEF Limiter
    <3>4. i \in Nat /\ Len(new) \in Nat /\ new[i] \in Nat
      BY <1>1, <1>6
    <3>5. a \in Int /\ w \in Int
      BY <1>3, <3>4
    <3> HIDE DEF t, new, full, a, w
    <3>6. a <= full + w
      BY <1>3, <3>2, <3>3, <3>5
    <3>7. QED
      BY <3>1, <3>6 DEF a, w
  <2>3. QED
    BY <1>1, <2>1, <2>2
<1>7. QED
  BY <1>1, <1>5, <1>6 DEF WithinRate

-----------------------------------------------------------------------------
(* Type correctness *)

LEMMA LimitersAtRest ==
  ASSUME TypeOK, NEW a \in DOMAIN limiters
  PROVE  limiters[a] \in Limiter
BY DEF TypeOK

\* No limiter was used later than now.
TimeInv ==
  /\ globalLimiter.last <= now
  /\ \A a \in DOMAIN limiters : limiters[a].last <= now

LEMMA TypeInit == Init => TypeOK /\ TimeInv
<1> SUFFICES ASSUME Init
             PROVE  TypeOK /\ TimeInv
  OBVIOUS
<1>1. NewLimiter(GlobalBurst) \in Limiter /\ NewLimiter(GlobalBurst).last = now
  BY NewLimiterType, RateAssumption DEF Init
<1>2. /\ pc \in [Call -> {"idle"}] /\ call \in [Call -> {None}]
      /\ limiter \in [Call -> Nat]
      /\ admitted \in [Session -> Seq(Nat)]
      /\ limiters = <<>> /\ taken = <<>>
      /\ DOMAIN sessionLimiters = {} /\ DOMAIN toolStartTimes = {}
  BY DEF Init
<1>3. QED
  BY <1>1, <1>2 DEF Init, TypeOK, TimeInv

LEMMA TypeStep == TypeOK /\ TimeInv /\ [Next]_vars => TypeOK' /\ TimeInv'
<1> SUFFICES ASSUME TypeOK, TimeInv, [Next]_vars
             PROVE  TypeOK' /\ TimeInv'
  OBVIOUS
<1>1. ASSUME NEW c \in Call, NEW s \in Session \cup {None}, NEW i \in Id,
             BeforeCallTool(c, s, i)
      PROVE  TypeOK' /\ TimeInv'
  BY <1>1 DEF BeforeCallTool, Put, Goto, Running, CallInfo, limits, TypeOK, TimeInv
<1>2. ASSUME NEW c \in Call, ToolNotFound(c)
      PROVE  TypeOK' /\ TimeInv'
  BY <1>2 DEF ToolNotFound, End, Goto, TypeOK, TimeInv
<1>3. ASSUME NEW c \in Call, AllowGlobally(c)
      PROVE  TypeOK' /\ TimeInv'
  <2>1. globalLimiter' \in Limiter /\ globalLimiter'.last = now
    BY <1>3, TakenType, RateAssumption DEF AllowGlobally, TypeOK, TimeInv
  <2>2. taken' \in Seq(Nat)
    BY <1>3 DEF AllowGlobally, TypeOK
  <2>3. QED
    BY <1>3, <2>1, <2>2 DEF AllowGlobally, Goto, CallInfo, TypeOK, TimeInv
<1>4. ASSUME NEW c \in Call, RejectGlobally(c)
      PROVE  TypeOK' /\ TimeInv'
  BY <1>4 DEF RejectGlobally, End, Goto, TypeOK, TimeInv
<1>5. ASSUME NEW c \in Call, FindLimiter(c)
      PROVE  TypeOK' /\ TimeInv'
  <2>1. CASE call[c].sess \in DOMAIN sessionLimiters
    <3>1. sessionLimiters[call[c].sess] \in DOMAIN limiters \cap Nat
      BY <2>1 DEF TypeOK
    <3>2. limiter' = [limiter EXCEPT ![c] = sessionLimiters[call[c].sess]]
      BY <1>5, <2>1 DEF FindLimiter
    <3>3. limiter' \in [Call -> Nat] /\ limiter'[c] \in DOMAIN limiters
      BY <3>1, <3>2 DEF TypeOK
    <3>4. QED
      BY <1>5, <2>1, <3>2, <3>3 DEF FindLimiter, Goto, history, TypeOK, TimeInv
  <2>2. CASE call[c].sess \notin DOMAIN sessionLimiters
    BY <1>5, <2>2 DEF FindLimiter, Goto, history, TypeOK, TimeInv
  <2>3. QED
    BY <2>1, <2>2
<1>6. ASSUME NEW c \in Call, CreateLimiter(c)
      PROVE  TypeOK' /\ TimeInv'
  <2>1. call[c].sess \in Session
    BY <1>6 DEF CreateLimiter, TypeOK
  <2>2. /\ limiters' \in Seq(Limiter)
        /\ \A a \in DOMAIN limiters' : limiters'[a].last <= now
        /\ DOMAIN sessionLimiters' = DOMAIN sessionLimiters \cup {call[c].sess}
        /\ \A s \in DOMAIN sessionLimiters' : sessionLimiters'[s] \in DOMAIN limiters'
    <3>1. CASE call[c].sess \in DOMAIN sessionLimiters
      BY <1>6, <3>1 DEF CreateLimiter, TypeOK, TimeInv
    <3>2. CASE call[c].sess \notin DOMAIN sessionLimiters
      <4> DEFINE l == NewLimiter(SessionBurst)
      <4>1. l \in Limiter /\ l.last = now
        BY NewLimiterType, RateAssumption DEF TypeOK
      <4>2. /\ limiters' = Append(limiters, l)
            /\ sessionLimiters' = Put(sessionLimiters, call[c].sess, Len(limiters'))
        BY <1>6, <3>2 DEF CreateLimiter
      <4> HIDE DEF l
      <4>3. /\ limiters' \in Seq(Limiter)
            /\ Len(limiters') = Len(limiters) + 1
            /\ DOMAIN limiters' = 1..(Len(limiters) + 1)
            /\ limiters'[Len(limiters) + 1] = l
            /\ \A a \in DOMAIN limiters : a \in DOMAIN limiters' /\ limiters'[a] = limiters[a]
        BY <4>1, <4>2 DEF TypeOK
      <4>4. \A a \in DOMAIN limiters' : a \in DOMAIN limiters \/ a = Len(limiters) + 1
        BY <4>3 DEF TypeOK
      <4>5. /\ DOMAIN sessionLimiters' = DOMAIN sessionLimiters \cup {call[c].sess}
            /\ sessionLimiters'[call[c].sess] = Len(limiters) + 1
            /\ \A s \in DOMAIN sessionLimiters : s # call[c].sess => sessionLimiters'[s] = sessionLimiters[s]
        BY <4>2, <4>3 DEF Put
      <4>6. Len(limiters) + 1 \in DOMAIN limiters'
        BY <4>3 DEF TypeOK
      <4>7. \A a \in DOMAIN limiters' : limiters'[a].last <= now
        BY <4>1, <4>3, <4>4 DEF TypeOK, TimeInv
      <4>8. \A s \in DOMAIN sessionLimiters' : sessionLimiters'[s] \in DOMAIN limiters'
        BY <4>3, <4>5, <4>6 DEF TypeOK
      <4>9. QED
        BY <4>3, <4>5, <4>7, <4>8
    <3>3. QED
      BY <3>1, <3>2
  <2>3. /\ limiter' = [limiter EXCEPT ![c] = sessionLimiters'[call[c].sess]]
        /\ limiter'[c] \in DOMAIN limiters'
        /\ limiter' \in [Call -> Nat]
    BY <1>6, <2>1, <2>2 DEF CreateLimiter, TypeOK
  <2>4. \A a \in DOMAIN limiters : a \in DOMAIN limiters'
    BY <1>6 DEF CreateLimiter, TypeOK
  <2>5. QED
    BY <1>6, <2>1, <2>2, <2>3, <2>4 DEF CreateLimiter, Goto, history, TypeOK, TimeInv
<1>7. ASSUME NEW c \in Call, AllowInSession(c)
      PROVE  TypeOK' /\ TimeInv'
  <2> DEFINE a == limiter[c]
             s == call[c].sess
  <2>1. a \in DOMAIN limiters /\ s \in Session
    BY <1>7 DEF AllowInSession, TypeOK
  <2>2. /\ Taken(limiters[a], SessionRate, SessionBurst) \in Limiter
        /\ Taken(limiters[a], SessionRate, SessionBurst).last = now
    BY <1>7, <2>1, TakenType, LimitersAtRest, RateAssumption
       DEF AllowInSession, TypeOK, TimeInv
  <2>3. /\ limiters' \in Seq(Limiter) /\ DOMAIN limiters' = DOMAIN limiters
        /\ \A b \in DOMAIN limiters : limiters'[b].last <= now
    BY <1>7, <2>1, <2>2 DEF AllowInSession, TypeOK, TimeInv
  <2>4. admitted' \in [Session -> Seq(Nat)]
    BY <1>7, <2>1 DEF AllowInSession, TypeOK
  <2>5. QED
    BY <1>7, <2>3, <2>4 DEF AllowInSession, Goto, TypeOK, TimeInv
<1>8. ASSUME NEW c \in Call, RejectInSession(c)
      PROVE  TypeOK' /\ TimeInv'
  <2>1. /\ End(c)
        /\ UNCHANGED <<now, globalLimiter, limiters, sessionLimiters, toolStartTimes, admitted, taken>>
    BY <1>8 DEF RejectInSession
  <2>2. QED
    BY <2>1 DEF End, Goto, TypeOK, TimeInv
<1>9. ASSUME NEW c \in Call, AfterCallTool(c)
      PROVE  TypeOK' /\ TimeInv'
  BY <1>9 DEF AfterCallTool, End, Goto, TypeOK, TimeInv
<1>10. CASE Tick
  BY <1>10, LimitersAtRest DEF Tick, limits, history, TypeOK, TimeInv, Limiter
<1>11. CASE UNCHANGED vars
  BY <1>11 DEF vars, limits, history, TypeOK, TimeInv
<1>12. QED
  BY <1>1, <1>2, <1>3, <1>4, <1>5, <1>6, <1>7, <1>8, <1>9, <1>10, <1>11 DEF Next

\* Every step keeps the variables typed; a call that asks its session's limiter
\* always has one.
THEOREM Typing == Spec => []TypeOK
BY TypeInit, TypeStep, PTL DEF Spec

-----------------------------------------------------------------------------
(* The global limit *)

GlobalInv ==
  /\ Backs(globalLimiter, taken, GlobalRate, GlobalBurst)
  /\ GlobalRateKept

LEMMA GlobalInit == Init => GlobalInv
<1> SUFFICES ASSUME Init
             PROVE  GlobalInv
  OBVIOUS
<1>1. globalLimiter.tokens = GlobalBurst * Cost /\ GlobalBurst * Cost \in Nat
  BY NewLimiterType, RateAssumption DEF Init
<1>2. taken = <<>> /\ DOMAIN taken = {}
  BY DEF Init
<1>3. QED
  BY <1>1, <1>2 DEF GlobalInv, Backs, GlobalRateKept, WithinRate

LEMMA GlobalStep == TypeOK /\ TimeInv /\ GlobalInv /\ [Next]_vars => GlobalInv'
<1> SUFFICES ASSUME TypeOK, TimeInv, GlobalInv, [Next]_vars
             PROVE  GlobalInv'
  OBVIOUS
<1>1. ASSUME NEW c \in Call, AllowGlobally(c)
      PROVE  GlobalInv'
  <2>1. /\ globalLimiter' = Taken(globalLimiter, GlobalRate, GlobalBurst)
        /\ taken' = Append(taken, now)
        /\ Allows(globalLimiter, GlobalRate, GlobalBurst)
    BY <1>1 DEF AllowGlobally
  <2>2. /\ GlobalRate \in Nat /\ GlobalBurst \in Nat
        /\ globalLimiter \in Limiter /\ taken \in Seq(Nat) /\ now \in Nat
        /\ globalLimiter.last <= now
    BY RateAssumption DEF TypeOK, TimeInv
  <2>3. QED
    BY <2>1, <2>2, TakeKeepsRate DEF GlobalInv, GlobalRateKept
<1>2. CASE UNCHANGED <<globalLimiter, taken>>
  BY <1>2 DEF GlobalInv, GlobalRateKept, Backs, WithinRate
<1>3. (\E c \in Call : AllowGlobally(c)) \/ UNCHANGED <<globalLimiter, taken>>
  BY DEF Next, vars, BeforeCallTool, ToolNotFound, RejectGlobally, FindLimiter, CreateLimiter,
         AllowInSession, RejectInSession, AfterCallTool, Tick, limits, history
<1>4. QED
  BY <1>1, <1>2, <1>3

\* Over any stretch of time no more calls pass the global limiter than the
\* configured burst and rate allow.
THEOREM GlobalRateLimit == Spec => []GlobalRateKept
<1>1. GlobalInv => GlobalRateKept
  BY DEF GlobalInv
<1>2. QED
  BY <1>1, TypeInit, TypeStep, GlobalInit, GlobalStep, PTL DEF Spec

-----------------------------------------------------------------------------
(* The limit of a session *)

\* Distinct sessions have distinct limiters, each of which backs the log of its
\* session, and whoever is about to ask a limiter holds its session's.
LimiterInv ==
  /\ \A s \in Session \ DOMAIN sessionLimiters : admitted[s] = <<>>
  /\ \A s \in DOMAIN sessionLimiters :
       Backs(limiters[sessionLimiters[s]], admitted[s], SessionRate, SessionBurst)
  /\ \A s, u \in DOMAIN sessionLimiters : sessionLimiters[s] = sessionLimiters[u] => s = u
  /\ \A c \in Call : pc[c] = "session" =>
       /\ call[c].sess \in DOMAIN sessionLimiters
       /\ limiter[c] = sessionLimiters[call[c].sess]

SessionInv == LimiterInv /\ SessionRateKept

LEMMA SessionInit == Init => SessionInv
<1> SUFFICES ASSUME Init
             PROVE  SessionInv
  OBVIOUS
<1>1. /\ DOMAIN sessionLimiters = {}
      /\ \A s \in Session : admitted[s] = <<>> /\ DOMAIN admitted[s] = {}
      /\ \A c \in Call : pc[c] = "idle"
  BY DEF Init
<1>2. QED
  BY <1>1 DEF SessionInv, LimiterInv, SessionRateKept, WithinRate

\* The steps that leave the limiters, the map and the logs alone, and let no
\* goroutine but c move, c not towards its session's limiter.
LEMMA SessionFrame ==
  ASSUME SessionInv, NEW c \in Call,
         UNCHANGED <<limiters, sessionLimiters, admitted>>,
         pc'[c] # "session",
         \A d \in Call \ {c} : pc'[d] = pc[d] /\ call'[d] = call[d] /\ limiter'[d] = limiter[d]
  PROVE  SessionInv'
BY DEF SessionInv, LimiterInv, SessionRateKept, Backs, WithinRate

LEMMA SessionStep == TypeOK /\ TimeInv /\ SessionInv /\ [Next]_vars => SessionInv'
<1> SUFFICES ASSUME TypeOK, TimeInv, SessionInv, [Next]_vars
             PROVE  SessionInv'
  OBVIOUS
<1>1. ASSUME NEW c \in Call,
             \/ \E s \in Session \cup {None}, i \in Id : BeforeCallTool(c, s, i)
             \/ ToolNotFound(c) \/ AllowGlobally(c) \/ RejectGlobally(c)
             \/ RejectInSession(c) \/ AfterCallTool(c)
      PROVE  SessionInv'
  <2>1. /\ UNCHANGED <<limiters, sessionLimiters, admitted>>
        /\ pc'[c] # "session"
        /\ \A d \in Call \ {c} : pc'[d] = pc[d] /\ call'[d] = call[d] /\ limiter'[d] = limiter[d]
    BY <1>1 DEF BeforeCallTool, ToolNotFound, AllowGlobally, RejectGlobally, RejectInSession,
                AfterCallTool, End, Goto, limits, TypeOK
  <2>2. QED
    BY <2>1, SessionFrame
<1>2. ASSUME NEW c \in Call, FindLimiter(c)
      PROVE  SessionInv'
  <2>1. /\ UNCHANGED <<limiters, sessionLimiters, admitted, call>>
        /\ \A d \in Call \ {c} : pc'[d] = pc[d] /\ limiter'[d] = limiter[d]
        /\ pc'[c] = "session" =>
             /\ call[c].sess \in DOMAIN sessionLimiters
             /\ limiter'[c] = sessionLimiters[call[c].sess]
    BY <1>2 DEF FindLimiter, Goto, history, TypeOK
  <2>2. QED
    BY <2>1 DEF SessionInv, LimiterInv, SessionRateKept, Backs, WithinRate
<1>3. ASSUME NEW c \in Call, CreateLimiter(c)
      PROVE  SessionInv'
  <2> DEFINE s == call[c].sess
  <2>1. /\ s \in Session
        /\ UNCHANGED <<admitted, call>>
        /\ \A d \in Call \ {c} : pc'[d] = pc[d] /\ limiter'[d] = limiter[d]
        /\ limiter'[c] = sessionLimiters'[s]
    BY <1>3 DEF CreateLimiter, Goto, history, TypeOK
  <2>2. CASE s \in DOMAIN sessionLimiters
    <3>1. UNCHANGED <<limiters, sessionLimiters>>
      BY <1>3, <2>2 DEF CreateLimiter
    <3>2. QED
      BY <2>1, <2>2, <3>1 DEF SessionInv, LimiterInv, SessionRateKept, Backs, WithinRate
  <2>3. CASE s \notin DOMAIN sessionLimiters
    <3> DEFINE l == NewLimiter(SessionBurst)
    <3>1. l.tokens = SessionBurst * Cost /\ SessionBurst * Cost \in Nat
      BY NewLimiterType, RateAssumption DEF TypeOK
    <3>2. /\ limiters' = Append(limiters, l)
          /\ sessionLimiters' = Put(sessionLimiters, s, Len(limiters'))
      BY <1>3, <2>3 DEF CreateLimiter
    <3> HIDE DEF l
    <3>3. /\ Len(limiters) \in Nat /\ DOMAIN limiters = 1..Len(limiters)
          /\ Len(limiters') = Len(limiters) + 1
          /\ limiters'[Len(limiters) + 1] = l
          /\ \A a \in DOMAIN limiters : limiters'[a] = limiters[a] /\ a # Len(limiters) + 1
      BY <3>2 DEF TypeOK
    <3>4. /\ DOMAIN sessionLimiters' = DOMAIN sessionLimiters \cup {s}
          /\ sessionLimiters'[s] = Len(limiters) + 1
          /\ \A u \in DOMAIN sessionLimiters :
               /\ sessionLimiters'[u] = sessionLimiters[u]
               /\ sessionLimiters[u] \in DOMAIN limiters
      BY <2>3, <3>2, <3>3 DEF Put, TypeOK
    <3>5. /\ admitted[s] = <<>> /\ DOMAIN admitted[s] = {}
          /\ Backs(l, admitted[s], SessionRate, SessionBurst)
      BY <2>1, <2>3, <3>1 DEF SessionInv, LimiterInv, Backs
    <3>6. \A u \in DOMAIN sessionLimiters' :
            Backs(limiters'[sessionLimiters'[u]], admitted'[u], SessionRate, SessionBurst)
      BY <2>1, <3>3, <3>4, <3>5 DEF SessionInv, LimiterInv, Backs
    <3>7. \A u, w \in DOMAIN sessionLimiters' : sessionLimiters'[u] = sessionLimiters'[w] => u = w
      BY <3>3, <3>4 DEF SessionInv, LimiterInv
    <3>8. \A d \in Call : pc'[d] = "session" =>
            /\ call'[d].sess \in DOMAIN sessionLimiters'
            /\ limiter'[d] = sessionLimiters'[call'[d].sess]
      BY <2>1, <3>4 DEF SessionInv, LimiterInv
    <3>9. QED
      BY <2>1, <3>4, <3>6, <3>7, <3>8 DEF SessionInv, LimiterInv, SessionRateKept, Backs, WithinRate
  <2>4. QED
    BY <2>2, <2>3
<1>4. ASSUME NEW c \in Call, AllowInSession(c)
      PROVE  SessionInv'
  <2> DEFINE s == call[c].sess
             a == limiter[c]
             l == limiters[a]
             t == Taken(l, SessionRate, SessionBurst)
  <2>1. /\ s \in DOMAIN sessionLimiters /\ a = sessionLimiters[s]
        /\ s \in Session /\ a \in DOMAIN limiters /\ l \in Limiter /\ l.last <= now
        /\ Allows(l, SessionRate, SessionBurst)
        /\ Backs(l, admitted[s], SessionRate, SessionBurst)
        /\ WithinRate(admitted[s], SessionRate, SessionBurst)
    BY <1>4, LimitersAtRest
       DEF AllowInSession, SessionInv, LimiterInv, SessionRateKept, TypeOK, TimeInv
  <2>2. /\ SessionRate \in Nat /\ SessionBurst \in Nat /\ now \in Nat /\ admitted[s] \in Seq(Nat)
    BY <2>1, RateAssumption DEF TypeOK
  <2>3. /\ Backs(t, Append(admitted[s], now), SessionRate, SessionBurst)
        /\ WithinRate(Append(admitted[s], now), SessionRate, SessionBurst)
    BY <2>1, <2>2, TakeKeepsRate
  <2>4. /\ limiters' = [limiters EXCEPT ![a] = t]
        /\ admitted' = [admitted EXCEPT ![s] = Append(admitted[s], now)]
        /\ UNCHANGED <<sessionLimiters, call, limiter>>
        /\ pc' = [pc EXCEPT ![c] = "handler"]
    BY <1>4 DEF AllowInSession, Goto
  <2> HIDE DEF t, l
  <2>5. /\ limiters'[a] = t /\ \A b \in DOMAIN limiters : b # a => limiters'[b] = limiters[b]
        /\ admitted'[s] = Append(admitted[s], now)
        /\ \A u \in Session : u # s => admitted'[u] = admitted[u]
    BY <2>1, <2>4 DEF TypeOK
  <2>6. \A u \in DOMAIN sessionLimiters :
          Backs(limiters'[sessionLimiters[u]], admitted'[u], SessionRate, SessionBurst)
    <3> SUFFICES ASSUME NEW u \in DOMAIN sessionLimiters
                 PROVE  Backs(limiters'[sessionLimiters[u]], admitted'[u], SessionRate, SessionBurst)
      OBVIOUS
    <3>1. CASE u = s
      BY <2>1, <2>3, <2>5, <3>1
    <3>2. CASE u # s
      <4>1. sessionLimiters[u] # a /\ sessionLimiters[u] \in DOMAIN limiters /\ u \in Session
        BY <2>1, <3>2 DEF SessionInv, LimiterInv, TypeOK
      <4>2. limiters'[sessionLimiters[u]] = limiters[sessionLimiters[u]] /\ admitted'[u] = admitted[u]
        BY <2>5, <3>2, <4>1
      <4>3. QED
        BY <4>2 DEF SessionInv, LimiterInv
    <3>3. QED
      BY <3>1, <3>2
  <2>7. \A u \in Session : WithinRate(admitted'[u], SessionRate, SessionBurst)
    BY <2>3, <2>5 DEF SessionInv, SessionRateKept
  <2>8. \A u \in Session \ DOMAIN sessionLimiters : admitted'[u] = <<>>
    BY <2>1, <2>5 DEF SessionInv, LimiterInv
  <2>9. \A d \in Call : pc'[d] = "session" => pc[d] = "session"
    BY <2>4 DEF TypeOK
  <2>10. QED
    BY <2>4, <2>6, <2>7, <2>8, <2>9 DEF SessionInv, LimiterInv, SessionRateKept
<1>5. CASE UNCHANGED <<limiters, sessionLimiters, admitted, pc, call, limiter>>
  BY <1>5 DEF SessionInv, LimiterInv, SessionRateKept, Backs, WithinRate
<1>6. Tick \/ UNCHANGED vars => UNCHANGED <<limiters, sessionLimiters, admitted, pc, call, limiter>>
  BY DEF Tick, vars, limits, history
<1>7. QED
  BY <1>1, <1>2, <1>3, <1>4, <1>5, <1>6 DEF Next

\* However the first calls of a session race for a limiter, it is served no more
\* calls over any stretch of time than the configured burst and rate allow.
THEOREM SessionRateLimit == Spec => []SessionRateKept
<1>1. SessionInv => SessionRateKept
  BY DEF SessionInv
<1>2. QED
  BY <1>1, TypeInit, TypeStep, SessionInit, SessionStep, PTL DEF Spec

-----------------------------------------------------------------------------
(* A session's limiter rejects nothing but excess *)

\* The tokens of l are as many as the burst and the rate allow: l is full, or since
\* some call they add up exactly.
Tight(l, log, rate, burst) ==
  \/ l.tokens = burst * Cost
  \/ \E i \in DOMAIN log :
       l.tokens + (Len(log) - i + 1) * Cost = burst * Cost + (l.last - log[i]) * rate

\* What a product gains when one more is counted.
LEMMA OneMore ==
  ASSUME NEW k \in Int, NEW c \in Int
  PROVE  (k + 1) * c = k * c + c /\ k * c \in Int
OBVIOUS

\* x tokens and k calls that cost c each balance f and what r adds in a stretch of
\* time.
Balance(x, k, c, f, r, from, to) == x + k * c = f + (to - from) * r

\* The balance after more time and one more call.
LEMMA BalanceAdds ==
  ASSUME NEW x \in Int, NEW f \in Int, NEW k \in Int, NEW c \in Int, NEW r \in Nat,
         NEW from \in Int, NEW last \in Int, NEW to \in Int,
         Balance(x, k, c, f, r, from, last)
  PROVE  Balance(x + (to - last) * r, k + 1, c, f + c, r, from, to)
<1> DEFINE a == k * c
           p == (last - from) * r
           q == (to - last) * r
           w == (to - from) * r
           b == (k + 1) * c
<1>1. q + p = w /\ p \in Int /\ q \in Int /\ w \in Int
  BY RateAdds
<1>2. b = a + c /\ a \in Int
  BY OneMore
<1>3. x + a = f + p
  BY DEF Balance
<1> HIDE DEF a, b, p, q, w
<1>4. x + q + b = f + c + w
  BY <1>1, <1>2, <1>3
<1>5. QED
  BY <1>4 DEF b, q, w, Balance

\* The balance since call i, after more time and one more call.
LEMMA BalanceMoves ==
  ASSUME NEW l \in Limiter, NEW log \in Seq(Nat), NEW rate \in Nat, NEW burst \in Nat,
         now \in Nat, NEW i \in DOMAIN log,
         l.tokens + (Len(log) - i + 1) * Cost = burst * Cost + (l.last - log[i]) * rate
  PROVE  /\ Append(log, now)[i] = log[i] /\ i \in DOMAIN Append(log, now)
         /\ i \in Int /\ log[i] \in Int
         /\ (Len(log) - i + 2) * Cost \in Int /\ (now - log[i]) * rate \in Int
         /\ l.tokens + (now - l.last) * rate + (Len(log) - i + 2) * Cost
              = burst * Cost + Cost + (now - log[i]) * rate
<1> DEFINE k == Len(log) - i + 1
<1>1. Len(log) \in Nat /\ i \in Int /\ log[i] \in Int
  OBVIOUS
<1>2. l.tokens \in Int /\ l.last \in Int /\ now \in Int
  BY DEF Limiter
<1>3. Cost \in Int /\ burst * Cost \in Int
  BY RateAssumption
<1>4. k \in Int /\ k + 1 = Len(log) - i + 2
  BY <1>1
<1>5. Balance(l.tokens, k, Cost, burst * Cost, rate, log[i], l.last)
  BY DEF Balance
<1> HIDE DEF k
<1>6. Balance(l.tokens + (now - l.last) * rate, k + 1, Cost, burst * Cost + Cost, rate, log[i], now)
  BY <1>1, <1>2, <1>3, <1>4, <1>5, BalanceAdds
<1>7. (k + 1) * Cost \in Int /\ (now - log[i]) * rate \in Int
  BY <1>1, <1>2, <1>3, <1>4, OneMore, RateAdds
<1>8. Append(log, now)[i] = log[i] /\ i \in DOMAIN Append(log, now)
  OBVIOUS
<1>9. QED
  BY <1>1, <1>4, <1>6, <1>7, <1>8 DEF Balance

LEMMA TakeKeepsTight ==
  ASSUME NEW l \in Limiter, NEW log \in Seq(Nat), NEW rate \in Nat, NEW burst \in Nat,
         now \in Nat, l.last <= now, Allows(l, rate, burst), Tight(l, log, rate, burst)
  PROVE  Tight(Taken(l, rate, burst), Append(log, now), rate, burst)
<1> DEFINE n == Len(log)
           new == Append(log, now)
           full == burst * Cost
           t == Taken(l, rate, burst)
           q == (now - l.last) * rate
<1>1. /\ n \in Nat /\ Cost \in Nat /\ full \in Nat /\ l.tokens \in Nat /\ l.last \in Nat
      /\ q \in Int /\ q >= 0
      /\ Len(new) = n + 1 /\ n + 1 \in DOMAIN new /\ new[n + 1] = now
  BY RateAssumption, RateAdds DEF Limiter
<1>2. /\ t.last = now
      /\ t.tokens = Refilled(l, rate, burst) - Cost
      /\ Refilled(l, rate, burst) = IF l.tokens + q < full THEN l.tokens + q ELSE full
  BY TakenType DEF Refilled
<1>3. CASE Refilled(l, rate, burst) = full
  <2>1. (Len(new) - (n + 1) + 1) * Cost = Cost /\ (t.last - new[n + 1]) * rate = 0
    BY <1>1, <1>2
  <2>2. t.tokens + Cost = full
    BY <1>1, <1>2, <1>3
  <2> HIDE DEF t, n, new, full
  <2>3. t.tokens + (Len(new) - (n + 1) + 1) * Cost = full + (t.last - new[n + 1]) * rate
    BY <1>1, <2>1, <2>2
  <2>4. QED
    BY <1>1, <2>3 DEF Tight, full, new, t
<1>4. CASE Refilled(l, rate, burst) # full
  <2>1. Refilled(l, rate, burst) = l.tokens + q /\ l.tokens # full
    BY <1>1, <1>2, <1>4
  <2>2. PICK i \in DOMAIN log : l.tokens + (n - i + 1) * Cost = full + (l.last - log[i]) * rate
    BY <2>1 DEF Tight
  <2> DEFINE b == (n - i + 2) * Cost
             w == (now - log[i]) * rate
  <2>3. /\ new[i] = log[i] /\ i \in DOMAIN new
        /\ l.tokens + q + b = full + Cost + w
    BY <2>2, BalanceMoves
  <2>4. i \in Int /\ log[i] \in Int /\ b \in Int /\ w \in Int
    BY <2>2, BalanceMoves
  <2> HIDE DEF t, n, new, full, q, b, w
  <2>5. Len(new) - i + 1 = n - i + 2
    BY <1>1, <2>4
  <2>6. t.tokens \in Int /\ t.tokens + Cost = l.tokens + q
    BY <1>1, <1>2, <2>1
  <2>7. t.tokens + b = full + w
    <3> DEFINE x == t.tokens
               y == l.tokens
    <3>1. /\ x \in Int /\ y \in Int /\ q \in Int /\ Cost \in Int /\ full \in Int
          /\ b \in Int /\ w \in Int
          /\ y + q + b = full + Cost + w /\ x + Cost = y + q
      BY <1>1, <2>3, <2>4, <2>6
    <3> HIDE DEF x, y
    <3>2. x + b = full + w
      BY <3>1
    <3>3. QED
      BY <3>2 DEF x
  <2>8. t.tokens + (Len(new) - i + 1) * Cost = full + (t.last - new[i]) * rate
    BY <1>2, <2>3, <2>5, <2>7 DEF b, w
  <2>9. QED
    BY <2>3, <2>8 DEF Tight, full, new, t
<1>5. QED
  BY <1>3, <1>4

\* A tight limiter that does not allow a call has no room for it.
LEMMA RejectedIsExcess ==
  ASSUME NEW l \in Limiter, NEW log \in Seq(Nat), NEW rate \in Nat, NEW burst \in Nat \ {0},
         now \in Nat, l.last <= now, ~Allows(l, rate, burst), Tight(l, log, rate, burst)
  PROVE  ~WithinRate(Append(log, now), rate, burst)
<1> DEFINE n == Len(log)
           new == Append(log, now)
           full == burst * Cost
           q == (now - l.last) * rate
<1>1. /\ n \in Nat /\ Cost \in Nat /\ full \in Nat /\ l.tokens \in Nat /\ l.last \in Nat
      /\ q \in Int /\ q >= 0
      /\ n + 1 \in DOMAIN new /\ new[n + 1] = now
  BY RateAssumption, RateAdds DEF Limiter
<1>2. full >= Cost
  BY RateAssumption
<1>3. Refilled(l, rate, burst) = IF l.tokens + q < full THEN l.tokens + q ELSE full
  BY DEF Refilled
<1>4. ~(Refilled(l, rate, burst) >= Cost)
  BY DEF Allows
<1> HIDE DEF full, q, n, new
<1>5. l.tokens + q < Cost /\ l.tokens # full
  BY <1>1, <1>2, <1>3, <1>4
<1>6. PICK i \in DOMAIN log : l.tokens + (n - i + 1) * Cost = full + (l.last - log[i]) * rate
  BY <1>5 DEF Tight, full, n
<1> DEFINE b == (n - i + 2) * Cost
           w == (now - log[i]) * rate
<1>7. /\ new[i] = log[i] /\ i \in DOMAIN new
      /\ l.tokens + q + b = full + Cost + w
  BY <1>6, BalanceMoves DEF full, n, new, q
<1>8. i \in Int /\ log[i] \in Int /\ i <= n + 1
  BY DEF n
<1>9. b \in Int /\ w \in Int
  BY <1>1, <1>8
<1>10. (n + 1) - i + 1 = n - i + 2
  BY <1>1, <1>8
<1> HIDE DEF b, w
<1>11. ~(b <= full + w)
  BY <1>1, <1>5, <1>7, <1>9
<1>12. ~(((n + 1) - i + 1) * Cost <= full + (new[n + 1] - new[i]) * rate)
  BY <1>1, <1>7, <1>10, <1>11 DEF b, w
<1>13. QED
  BY <1>1, <1>7, <1>8, <1>12 DEF WithinRate, full, new

\* The limiter of every session is tight.
TightInv ==
  \A s \in DOMAIN sessionLimiters :
    Tight(limiters[sessionLimiters[s]], admitted[s], SessionRate, SessionBurst)

LEMMA TightStep == TypeOK /\ TimeInv /\ SessionInv /\ TightInv /\ [Next]_vars => TightInv'
<1> SUFFICES ASSUME TypeOK, TimeInv, SessionInv, TightInv, [Next]_vars
             PROVE  TightInv'
  OBVIOUS
<1>1. ASSUME NEW c \in Call, CreateLimiter(c)
      PROVE  TightInv'
  <2> DEFINE s == call[c].sess
  <2>1. CASE s \in DOMAIN sessionLimiters
    BY <1>1, <2>1 DEF CreateLimiter, history, TightInv, Tight
  <2>2. CASE s \notin DOMAIN sessionLimiters
    <3> DEFINE l == NewLimiter(SessionBurst)
    <3>1. l.tokens = SessionBurst * Cost
      BY NewLimiterType, RateAssumption DEF TypeOK
    <3>2. /\ limiters' = Append(limiters, l)
          /\ sessionLimiters' = Put(sessionLimiters, s, Len(limiters'))
          /\ UNCHANGED admitted
      BY <1>1, <2>2 DEF CreateLimiter, history
    <3> HIDE DEF l
    <3>3. /\ Len(limiters') = Len(limiters) + 1
          /\ limiters'[Len(limiters) + 1] = l
          /\ \A a \in DOMAIN limiters : limiters'[a] = limiters[a]
      BY <3>2 DEF TypeOK
    <3>4. /\ DOMAIN sessionLimiters' = DOMAIN sessionLimiters \cup {s}
          /\ sessionLimiters'[s] = Len(limiters) + 1
          /\ \A u \in DOMAIN sessionLimiters :
               /\ sessionLimiters'[u] = sessionLimiters[u]
               /\ sessionLimiters[u] \in DOMAIN limiters
      BY <2>2, <3>2, <3>3 DEF Put, TypeOK
    <3>5. Tight(l, admitted[s], SessionRate, SessionBurst)
      BY <3>1 DEF Tight
    <3>6. QED
      BY <3>2, <3>3, <3>4, <3>5 DEF TightInv
  <2>3. QED
    BY <2>1, <2>2
<1>2. ASSUME NEW c \in Call, AllowInSession(c)
      PROVE  TightInv'
  <2> DEFINE s == call[c].sess
             a == limiter[c]
             l == limiters[a]
             t == Taken(l, SessionRate, SessionBurst)
  <2>1. /\ s \in DOMAIN sessionLimiters /\ a = sessionLimiters[s]
        /\ s \in Session /\ a \in DOMAIN limiters /\ l \in Limiter /\ l.last <= now
        /\ Allows(l, SessionRate, SessionBurst)
        /\ Tight(l, admitted[s], SessionRate, SessionBurst)
    BY <1>2, LimitersAtRest DEF AllowInSession, SessionInv, LimiterInv, TightInv, TypeOK, TimeInv
  <2>2. /\ SessionRate \in Nat /\ SessionBurst \in Nat /\ now \in Nat /\ admitted[s] \in Seq(Nat)
    BY <2>1, RateAssumption DEF TypeOK
  <2>3. Tight(t, Append(admitted[s], now), SessionRate, SessionBurst)
    BY <2>1, <2>2, TakeKeepsTight
  <2>4. /\ limiters' = [limiters EXCEPT ![a] = t]
        /\ admitted' = [admitted EXCEPT ![s] = Append(admitted[s], now)]
        /\ UNCHANGED sessionLimiters
    BY <1>2 DEF AllowInSession
  <2> HIDE DEF t, l
  <2>5. /\ limiters'[a] = t /\ \A b \in DOMAIN limiters : b # a => limiters'[b] = limiters[b]
        /\ admitted'[s] = Append(admitted[s], now)
        /\ \A u \in Session : u # s => admitted'[u] = admitted[u]
    BY <2>1, <2>4 DEF TypeOK
  <2>6. ASSUME NEW u \in DOMAIN sessionLimiters
        PROVE  Tight(limiters'[sessionLimiters[u]], admitted'[u], SessionRate, SessionBurst)
    <3>1. CASE u = s
      BY <2>1, <2>3, <2>5, <3>1
    <3>2. CASE u # s
      <4>1. sessionLimiters[u] # a /\ sessionLimiters[u] \in DOMAIN limiters /\ u \in Session
        BY <2>1, <3>2 DEF SessionInv, LimiterInv, TypeOK
      <4>2. limiters'[sessionLimiters[u]] = limiters[sessionLimiters[u]] /\ admitted'[u] = admitted[u]
        BY <2>5, <3>2, <4>1
      <4>3. QED
        BY <4>2 DEF TightInv
    <3>3. QED
      BY <3>1, <3>2
  <2>7. QED
    BY <2>4, <2>6 DEF TightInv
<1>3. CASE UNCHANGED <<limiters, sessionLimiters, admitted>>
  BY <1>3 DEF TightInv, Tight
<1>4. \/ \E c \in Call : CreateLimiter(c) \/ AllowInSession(c)
      \/ UNCHANGED <<limiters, sessionLimiters, admitted>>
  BY DEF Next, vars, BeforeCallTool, ToolNotFound, AllowGlobally, RejectGlobally, FindLimiter,
         RejectInSession, AfterCallTool, Tick, limits, history
<1>5. QED
  BY <1>1, <1>2, <1>3, <1>4

\* The goroutine that leaves "session" for "idle" was rejected.
LEMMA RejectStep ==
  ASSUME TypeOK, TimeInv, SessionInv, TightInv, [Next]_vars,
         NEW c \in Call, pc[c] = "session", pc'[c] = "idle"
  PROVE  ~WithinRate(Append(admitted[call[c].sess], now), SessionRate, SessionBurst)
<1>1. RejectInSession(c)
  BY DEF Next, vars, BeforeCallTool, ToolNotFound, AllowGlobally, RejectGlobally, FindLimiter,
         CreateLimiter, AllowInSession, RejectInSession, AfterCallTool, Tick, End, Goto, TypeOK
<1> DEFINE s == call[c].sess
           l == limiters[limiter[c]]
<1>2. /\ s \in Session /\ l \in Limiter /\ l.last <= now /\ now \in Nat
      /\ ~Allows(l, SessionRate, SessionBurst)
      /\ Tight(l, admitted[s], SessionRate, SessionBurst)
      /\ admitted[s] \in Seq(Nat)
  BY <1>1, LimitersAtRest DEF RejectInSession, SessionInv, LimiterInv, TightInv, TypeOK, TimeInv
<1>3. SessionRate \in Nat /\ SessionBurst \in Nat \ {0}
  BY RateAssumption
<1>4. QED
  BY <1>2, <1>3, RejectedIsExcess

\* No call is rejected for its session that the session's rate had room for.
THEOREM SessionRejections == Spec => SessionRejectsOnlyExcess
<1>1. Init => TightInv
  BY DEF Init, TightInv
<1>2. TypeOK /\ TimeInv /\ SessionInv /\ TightInv /\ [Next]_vars =>
        [\A c \in Call : pc[c] = "session" /\ pc'[c] = "idle" =>
           ~WithinRate(Append(admitted[call[c].sess], now), SessionRate, SessionBurst)]_vars
  BY RejectStep
<1>3. QED
  BY <1>1, <1>2, TypeInit, TypeStep, SessionInit, SessionStep, TightStep, PTL
     DEF Spec, SessionRejectsOnlyExcess

-----------------------------------------------------------------------------
(* The start time of a call *)

\* The start time under a running call's id is its own unless the id is shared;
\* two running calls with one id both count as sharing it.
StartInv ==
  /\ \A c \in Running \ shared :
       call[c].id \in DOMAIN toolStartTimes /\ toolStartTimes[call[c].id] = call[c].started
  /\ \A c, d \in Running : (c # d /\ call[c].id = call[d].id) => c \in shared

LEMMA StartStep == TypeOK /\ StartInv /\ [Next]_vars => StartInv'
<1> SUFFICES ASSUME TypeOK, StartInv, [Next]_vars
             PROVE  StartInv'
  OBVIOUS
<1>1. ASSUME NEW c \in Call, NEW s \in Session \cup {None}, NEW i \in Id,
             BeforeCallTool(c, s, i)
      PROVE  StartInv'
  <2> DEFINE same == {d \in Running : call[d].id = i}
  <2>1. /\ c \notin Running /\ Running' = Running \cup {c}
        /\ call'[c].id = i /\ call'[c].started = now
        /\ \A d \in Running : call'[d] = call[d]
    BY <1>1 DEF BeforeCallTool, Goto, Running, TypeOK
  <2>2. /\ DOMAIN toolStartTimes' = DOMAIN toolStartTimes \cup {i}
        /\ toolStartTimes'[i] = now
        /\ \A j \in DOMAIN toolStartTimes : j # i => toolStartTimes'[j] = toolStartTimes[j]
    BY <1>1 DEF BeforeCallTool, Put
  <2>3. shared \subseteq shared' /\ (same # {} => (same \subseteq shared' /\ c \in shared'))
    BY <1>1 DEF BeforeCallTool
  <2>4. \A d \in Running : call[d].id = i => d \in shared' /\ c \in shared'
    BY <2>3
  <2> HIDE DEF same
  <2>5. QED
    BY <2>1, <2>2, <2>3, <2>4 DEF StartInv
<1>2. ASSUME NEW c \in Call, End(c), c \in Running,
             \/ UNCHANGED toolStartTimes
             \/ toolStartTimes' = [i \in DOMAIN toolStartTimes \ {call[c].id} |-> toolStartTimes[i]]
      PROVE  StartInv'
  <2>1. /\ Running' = Running \ {c} /\ shared' = shared \ {c}
        /\ \A d \in Running' : call'[d] = call[d]
    BY <1>2 DEF End, Goto, Running, TypeOK
  <2>2. ASSUME NEW d \in Running' \ shared'
        PROVE  /\ call[d].id \in DOMAIN toolStartTimes'
               /\ toolStartTimes'[call[d].id] = call[d].started
    <3>1. d \in Running \ shared /\ d # c
      BY <2>1
    <3>2. call[d].id # call[c].id
      BY <1>2, <3>1 DEF StartInv
    <3>3. QED
      BY <1>2, <3>1, <3>2 DEF StartInv
  <2>3. QED
    BY <2>1, <2>2 DEF StartInv
<1>3. ASSUME NEW c \in Call, AfterCallTool(c)
      PROVE  StartInv'
  <2>1. c \in Running
    BY <1>3 DEF AfterCallTool, Running
  <2>2. QED
    BY <1>2, <1>3, <2>1 DEF AfterCallTool
<1>4. ASSUME NEW c \in Call, ToolNotFound(c) \/ RejectGlobally(c) \/ RejectInSession(c)
      PROVE  StartInv'
  <2>1. End(c) /\ c \in Running /\ UNCHANGED toolStartTimes
    BY <1>4 DEF ToolNotFound, RejectGlobally, RejectInSession, Running
  <2>2. QED
    BY <1>2, <2>1
<1>5. ASSUME UNCHANGED <<toolStartTimes, call, shared>>, Running' = Running
      PROVE  StartInv'
  BY <1>5 DEF StartInv
<1>6. ASSUME NEW c \in Call,
             AllowGlobally(c) \/ FindLimiter(c) \/ CreateLimiter(c) \/ AllowInSession(c)
      PROVE  StartInv'
  <2>1. UNCHANGED <<toolStartTimes, call, shared>>
    BY <1>6 DEF AllowGlobally, FindLimiter, CreateLimiter, AllowInSession, history
  <2>2. Running' = Running
    BY <1>6 DEF AllowGlobally, FindLimiter, CreateLimiter, AllowInSession, Goto, Running, TypeOK
  <2>3. QED
    BY <1>5, <2>1, <2>2
<1>7. CASE Tick \/ UNCHANGED vars
  BY <1>5, <1>7 DEF Tick, vars, history, Running
<1>8. QED
  BY <1>1, <1>3, <1>4, <1>6, <1>7 DEF Next

\* The recorded latency of a call is its own unless another call with the same id
\* overlapped it, whatever start times the rejected calls left behind.
THEOREM OwnLatency == Spec => []LatencyIsOwnUnlessShared
<1>1. Init => StartInv
  BY DEF Init, StartInv, Running
<1>2. StartInv => LatencyIsOwnUnlessShared
  BY DEF StartInv, LatencyIsOwnUnlessShared, Latency, Running
<1>3. QED
  BY <1>1, <1>2, TypeInit, TypeStep, StartStep, PTL DEF Spec
=============================================================================
