------------------------- MODULE StateLoaderProofs -------------------------
(***************************************************************************)
(* What TLAPS proves of StateLoader, for any number of goroutines, sessions*)
(* and workspaces, any size and any TTL of the cache.                      *)
(***************************************************************************)
EXTENDS StateLoader, FiniteSetTheorems, TLAPS

\* A load that is not rejected has one of the targets.
LEMMA TargetType ==
  ASSUME NEW org \in Org \cup {None}, NEW ws \in Workspace \cup {None},
         ~Rejected(org, ws)
  PROVE  Target(ResolveOrg(org), ws) \in TargetSet
BY NameAssumption DEF Rejected, ResolveOrg, Target, TargetSet

\* A goroutine that is serving a request has a cache key.
LEMMA KeyType ==
  ASSUME TypeOK, NEW c \in Call, pc[c] # "idle"
  PROVE  /\ req[c] \in Request
         /\ req[c].sess \in Session
         /\ req[c].target \in TargetSet
         /\ req[c].floor \in Nat
         /\ KeyOf(c) \in Key
BY DEF TypeOK, KeyOf, CacheKey, Key, Request

\* put never keeps a key that was not there.
LEMMA SurvivorsKept ==
  ASSUME NEW kept \in Survivors
  PROVE  kept \subseteq DOMAIN entries
BY DEF Survivors, Oldest

-----------------------------------------------------------------------------
(* Type correctness *)

\* Every step of every goroutine keeps the variables typed; in particular no
\* failed fetch ever reaches put.
THEOREM Typing == Spec => []TypeOK
<1>1. Init => TypeOK
  BY DEF Init, TypeOK, PC
<1>2. TypeOK /\ [Next]_vars => TypeOK'
  <2> SUFFICES ASSUME TypeOK, [Next]_vars
               PROVE  TypeOK'
    OBVIOUS
  <2>1. ASSUME NEW c \in Call, NEW s \in Session,
               NEW org \in Org \cup {None}, NEW ws \in Workspace \cup {None},
               StartLoad(c, s, org, ws)
        PROVE  TypeOK'
    <3> DEFINE t == Target(ResolveOrg(org), ws)
    <3>1. t \in TargetSet
      BY <2>1, TargetType DEF StartLoad
    <3>2. Floor(s, t) \in Nat
      BY <3>1 DEF Floor, TypeOK
    <3>3. [sess |-> s, target |-> t, floor |-> Floor(s, t)] \in Request
      BY <3>1, <3>2 DEF Request
    <3>4. req' = [req EXCEPT ![c] = [sess |-> s, target |-> t, floor |-> Floor(s, t)]]
      BY <2>1 DEF StartLoad
    <3> HIDE DEF t
    <3>5. QED
      BY <2>1, <3>3, <3>4 DEF StartLoad, Goto, TypeOK, PC
  <2>2. ASSUME NEW s \in Session,
               NEW org \in Org \cup {None}, NEW ws \in Workspace \cup {None},
               Refresh(s, org, ws)
        PROVE  TypeOK'
    <3>1. PromisedBy(s, org, ws) \in [Watched \X TargetSet -> Nat]
      BY TargetType DEF PromisedBy, TypeOK
    <3>2. QED
      BY <2>2, <3>1 DEF Refresh, Without, TypeOK
  <2>3. ASSUME NEW c \in Call, CacheGet(c)
        PROVE  TypeOK'
    BY <2>3, KeyType DEF CacheGet, Goto, TypeOK, PC
  <2>4. ASSUME NEW c \in Call, CheckAge(c)
        PROVE  TypeOK'
    BY <2>4 DEF CheckAge, Goto, TypeOK, PC, Entry
  <2>5. ASSUME NEW c \in Call, DropExpired(c)
        PROVE  TypeOK'
    BY <2>5 DEF DropExpired, Without, Goto, TypeOK, PC
  <2>6. ASSUME NEW c \in Call, Fetch(c)
        PROVE  TypeOK'
    <3>1. [reader |-> req[c].sess, target |-> req[c].target,
           version |-> source[req[c].target], readAt |-> now] \in State
      BY <2>6, KeyType DEF Fetch, State, TypeOK
    <3>2. QED
      BY <2>6, <3>1 DEF Fetch, Goto, TypeOK, PC
  <2>7. ASSUME NEW c \in Call, FetchFails(c)
        PROVE  TypeOK'
    BY <2>7 DEF FetchFails, Goto, TypeOK, PC
  <2>8. ASSUME NEW c \in Call, Put(c)
        PROVE  TypeOK'
    <3>1. KeyOf(c) \in Key /\ [state |-> state[c], loadedAt |-> now] \in Entry
      BY <2>8, KeyType DEF Put, TypeOK, Entry
    <3>2. PICK kept \in Survivors :
            entries' = [k \in kept \cup {KeyOf(c)} |->
                          IF k = KeyOf(c) THEN [state |-> state[c], loadedAt |-> now]
                                          ELSE entries[k]]
      BY <2>8 DEF Put
    <3>3. /\ DOMAIN entries' \subseteq Key
          /\ \A k \in DOMAIN entries' : entries'[k] \in Entry
      BY <3>1, <3>2, SurvivorsKept DEF TypeOK
    <3>4. QED
      BY <2>8, <3>3 DEF Put, Goto, TypeOK, PC
  <2>9. ASSUME NEW c \in Call, Reply(c)
        PROVE  TypeOK'
    <3>1. known' \in [Watched \X TargetSet -> Nat]
      <4>1. CASE state[c] # None /\ req[c].sess \in SerialSession
        <5>1. state[c] \in State
          BY <4>1 DEF TypeOK
        <5>2. QED
          BY <2>9, <4>1, <5>1 DEF Reply, TypeOK, State
      <4>2. CASE ~(state[c] # None /\ req[c].sess \in SerialSession)
        BY <2>9, <4>2 DEF Reply, TypeOK
      <4>3. QED
        BY <4>1, <4>2
    <3>2. QED
      BY <2>9, <3>1 DEF Reply, Goto, TypeOK, PC
  <2>10. ASSUME NEW t \in TargetSet, Apply(t)
         PROVE  TypeOK'
    BY <2>10 DEF Apply, TypeOK
  <2>11. CASE Tick
    BY <2>11 DEF Tick, TypeOK
  <2>12. CASE UNCHANGED vars
    BY <2>12 DEF vars, TypeOK
  <2>13. QED
    BY <2>1, <2>2, <2>3, <2>4, <2>5, <2>6, <2>7, <2>8, <2>9, <2>10, <2>11, <2>12
       DEF Next
<1>3. QED
  BY <1>1, <1>2, PTL DEF Spec

-----------------------------------------------------------------------------
(* The size bound *)

\* What put keeps is finite and leaves room for one entry.
LEMMA SurvivorsBound ==
  ASSUME IsFiniteSet(DOMAIN entries), CacheBounded, NEW kept \in Survivors
  PROVE  IsFiniteSet(kept) /\ Cardinality(kept) < MaxSize
<1> DEFINE live == {k \in DOMAIN entries : ~Expired(entries[k])}
<1> USE BoundAssumption
<1>1. /\ IsFiniteSet(live)
      /\ Cardinality(live) \in Nat
      /\ Cardinality(live) <= Cardinality(DOMAIN entries)
      /\ Cardinality(DOMAIN entries) \in Nat
  BY FS_Subset, FS_CardinalityType
<1>2. CASE Cardinality(DOMAIN entries) < MaxSize
  BY <1>2 DEF Survivors
<1>3. CASE ~(Cardinality(DOMAIN entries) < MaxSize) /\ Cardinality(live) < MaxSize
  BY <1>1, <1>3 DEF Survivors
<1>4. CASE ~(Cardinality(DOMAIN entries) < MaxSize) /\ ~(Cardinality(live) < MaxSize)
  <2>1. PICK k \in Oldest(live) : kept = live \ {k}
    BY <1>4 DEF Survivors
  <2>2. k \in live
    BY <2>1 DEF Oldest
  <2>3. IsFiniteSet(kept) /\ Cardinality(kept) = Cardinality(live) - 1
    BY <1>1, <2>1, <2>2, FS_RemoveElement
  <2>4. QED
    BY <1>1, <2>3 DEF CacheBounded
<1>5. QED
  BY <1>2, <1>3, <1>4

SizeInv == IsFiniteSet(DOMAIN entries) /\ CacheBounded

\* SizeInv is inductive: every lock region but put's shrinks the map, and put adds
\* one key to what is kept.
LEMMA SizeInvariance == Spec => []SizeInv
<1>1. Init => SizeInv
  BY FS_EmptySet, BoundAssumption DEF Init, SizeInv, CacheBounded
<1>2. SizeInv /\ [Next]_vars => SizeInv'
  <2> SUFFICES ASSUME SizeInv, [Next]_vars
               PROVE  SizeInv'
    OBVIOUS
  <2>1. ASSUME NEW k, entries' = Without(k)
        PROVE  SizeInv'
    <3>1. DOMAIN entries' = DOMAIN entries \ {k}
      BY <2>1 DEF Without
    <3>2. /\ IsFiniteSet(DOMAIN entries')
          /\ Cardinality(DOMAIN entries') \in Nat
          /\ Cardinality(DOMAIN entries) \in Nat
          /\ Cardinality(DOMAIN entries') <= Cardinality(DOMAIN entries)
      BY <3>1, FS_Subset, FS_CardinalityType DEF SizeInv
    <3>3. QED
      BY <3>2, BoundAssumption DEF SizeInv, CacheBounded
  <2>2. ASSUME NEW c \in Call, Put(c)
        PROVE  SizeInv'
    <3>1. PICK kept \in Survivors : DOMAIN entries' = kept \cup {KeyOf(c)}
      BY <2>2 DEF Put
    <3>2. IsFiniteSet(kept) /\ Cardinality(kept) < MaxSize /\ Cardinality(kept) \in Nat
      BY SurvivorsBound, FS_CardinalityType DEF SizeInv
    <3>3. /\ IsFiniteSet(kept \cup {KeyOf(c)})
          /\ \/ Cardinality(kept \cup {KeyOf(c)}) = Cardinality(kept)
             \/ Cardinality(kept \cup {KeyOf(c)}) = Cardinality(kept) + 1
      BY <3>2, FS_AddElement
    <3>4. QED
      BY <3>1, <3>2, <3>3, BoundAssumption DEF SizeInv, CacheBounded
  <2>3. CASE UNCHANGED entries
    BY <2>3 DEF SizeInv, CacheBounded
  <2>4. QED
    BY <2>1, <2>2, <2>3
       DEF Next, vars, StartLoad, Refresh, CacheGet, CheckAge, DropExpired, Fetch,
           FetchFails, Reply, Apply, Tick
<1>3. QED
  BY <1>1, <1>2, PTL DEF Spec

\* The map never holds more than maxSize entries, whatever loads, expires and is
\* refreshed at once (loader.go:74-100).
THEOREM SizeBound == Spec => []CacheBounded
<1>1. SizeInv => CacheBounded
  BY DEF SizeInv
<1>2. QED
  BY <1>1, SizeInvariance, PTL

-----------------------------------------------------------------------------
(* Whose state is it? *)

\* st was read by session s, for the tfc target t.
ReadFor(st, s, t) == st.reader = s /\ st.target = t

\* Everything cached under a key, and everything a goroutine holds, was read by
\* the session and for the workspace of that key or request.
OwnerInv ==
  /\ \A k \in DOMAIN entries : ReadFor(entries[k].state, k[1], k[2])
  /\ \A c \in Call :
       /\ pc[c] = "check" => ReadFor(entry[c].state, req[c].sess, req[c].target)
       /\ pc[c] = "store" => ReadFor(state[c], req[c].sess, req[c].target)
       /\ Answered(c) => ReadFor(state[c], req[c].sess, req[c].target)

\* On the tfc backend no session is ever answered with what another one read.
THEOREM SessionIsolation == Spec => []AnswersOwnRequest
<1>1. OwnerInv => AnswersOwnRequest
  BY DEF OwnerInv, AnswersOwnRequest, ReadFor
<1>2. ASSUME TFC PROVE Init => OwnerInv
  BY DEF Init, OwnerInv, Answered
<1>3. ASSUME TFC PROVE TypeOK /\ OwnerInv /\ [Next]_vars => OwnerInv'
  <2> SUFFICES ASSUME TypeOK, OwnerInv, [Next]_vars
               PROVE  OwnerInv'
    OBVIOUS
  <2> USE DEF Goto
  <2>1. ASSUME NEW c \in Call, NEW s \in Session,
               NEW org \in Org \cup {None}, NEW ws \in Workspace \cup {None},
               StartLoad(c, s, org, ws)
        PROVE  OwnerInv'
    BY <2>1 DEF StartLoad, OwnerInv, Answered, TypeOK
  <2>2. ASSUME NEW k, entries' = Without(k),
               UNCHANGED <<pc, req, entry, state>>
        PROVE  OwnerInv'
    BY <2>2 DEF Without, OwnerInv, Answered
  <2>3. ASSUME NEW c \in Call, CacheGet(c)
        PROVE  OwnerInv'
    <3>1. KeyOf(c)[1] = req[c].sess /\ KeyOf(c)[2] = req[c].target
      BY <1>3 DEF KeyOf, CacheKey
    <3>2. QED
      BY <2>3, <3>1 DEF CacheGet, OwnerInv, Answered, TypeOK
  <2>4. ASSUME NEW c \in Call, CheckAge(c)
        PROVE  OwnerInv'
    BY <2>4 DEF CheckAge, OwnerInv, Answered, TypeOK
  <2>5. ASSUME NEW c \in Call, DropExpired(c)
        PROVE  OwnerInv'
    BY <2>5 DEF DropExpired, Without, OwnerInv, Answered, TypeOK
  <2>6. ASSUME NEW c \in Call, Fetch(c)
        PROVE  OwnerInv'
    BY <2>6 DEF Fetch, OwnerInv, Answered, ReadFor, TypeOK
  <2>7. ASSUME NEW c \in Call, FetchFails(c)
        PROVE  OwnerInv'
    BY <2>7 DEF FetchFails, OwnerInv, Answered, TypeOK
  <2>8. ASSUME NEW c \in Call, Put(c)
        PROVE  OwnerInv'
    <3>1. /\ KeyOf(c)[1] = req[c].sess
          /\ KeyOf(c)[2] = req[c].target
      BY <1>3 DEF KeyOf, CacheKey
    <3>2. PICK kept \in Survivors :
            entries' = [k \in kept \cup {KeyOf(c)} |->
                          IF k = KeyOf(c) THEN [state |-> state[c], loadedAt |-> now]
                                          ELSE entries[k]]
      BY <2>8 DEF Put
    <3>3. \A k \in DOMAIN entries' : ReadFor(entries'[k].state, k[1], k[2])
      BY <2>8, <3>1, <3>2, SurvivorsKept DEF Put, OwnerInv
    <3>4. QED
      BY <2>8, <3>3 DEF Put, OwnerInv, Answered, TypeOK
  <2>9. ASSUME NEW c \in Call, Reply(c)
        PROVE  OwnerInv'
    BY <2>9 DEF Reply, OwnerInv, Answered, TypeOK
  <2>10. CASE UNCHANGED <<entries, pc, req, entry, state>>
    BY <2>10 DEF OwnerInv, Answered
  <2>11. QED
    BY <2>1, <2>2, <2>3, <2>4, <2>5, <2>6, <2>7, <2>8, <2>9, <2>10
       DEF Next, vars, Refresh, Apply, Tick
<1>4. CASE TFC
  BY <1>1, <1>2, <1>3, <1>4, Typing, PTL DEF Spec
<1>5. CASE ~TFC
  <2>1. AnswersOwnRequest
    BY <1>5 DEF AnswersOwnRequest
  <2>2. QED
    BY <2>1, PTL
<1>6. QED
  BY <1>4, <1>5

-----------------------------------------------------------------------------
(* What a serial client sees *)

\* k is absent from the cache, or holds a version from lo on.
AtLeast(k, lo) == k \in DOMAIN entries => entries[k].state.version >= lo

\* The call c of a serial session is the only one, its floor is what the session
\* knows, and what it holds is no older than that and no newer than the entry.
SerialCall(c) ==
  LET s == req[c].sess
      t == req[c].target
  IN /\ \A d \in Call : pc[d] # "idle" /\ req[d].sess = s => d = c
     /\ req[c].floor = known[<<s, t>>]
     /\ pc[c] = "check" => /\ req[c].floor <= entry[c].state.version
                           /\ entry[c].state.version <= source[t]
                           /\ AtLeast(KeyOf(c), entry[c].state.version)
     /\ pc[c] = "store" => /\ req[c].floor <= state[c].version
                           /\ state[c].version <= source[t]
     /\ Answered(c) => /\ req[c].floor <= state[c].version
                       /\ state[c].version <= source[t]
                       /\ AtLeast(KeyOf(c), state[c].version)

\* A call without an identity holds nothing older than its start.
ForcedCall(c) ==
  /\ pc[c] \in {"fetch", "store", "done"}
  /\ req[c].floor <= source[req[c].target]
  /\ pc[c] = "store" \/ Answered(c) => req[c].floor <= state[c].version

KnownInv ==
  /\ \A s \in SerialSession, t \in TargetSet :
       /\ known[<<s, t>>] <= source[t]
       /\ AtLeast(CacheKey(s, t), known[<<s, t>>])
       /\ CacheKey(s, t) \in DOMAIN entries =>
            entries[CacheKey(s, t)].state.version <= source[t]
  /\ \A c \in Call : pc[c] # "idle" /\ req[c].sess \in SerialSession => SerialCall(c)
  /\ \A c \in Call : pc[c] # "idle" /\ Forced(req[c].sess) => ForcedCall(c)

\* A serial client that names its organizations never sees a workspace go back,
\* whatever other sessions do, and a request without an identity is never behind
\* the backend.  It needs KnownInv: between two calls of a serial session its
\* entries are at least as new as what it knows, and during a call only the call
\* itself can put an older one.
THEOREM SerialReads ==
  ASSUME TFC, TFCloudOrg = None, TFEOrg = None
  PROVE  Spec => []SerialReadsNeverGoBack
<1>1. TypeOK /\ KnownInv => SerialReadsNeverGoBack
  <2> SUFFICES ASSUME TypeOK, KnownInv, NEW c \in Call, Answered(c),
                      req[c].sess \in SerialSession \/ Forced(req[c].sess)
               PROVE  state[c].version >= req[c].floor
    BY DEF SerialReadsNeverGoBack
  <2>1. /\ pc[c] # "idle"
        /\ req[c].floor \in Nat
        /\ state[c].version \in Nat
    BY KeyType DEF Answered, TypeOK, State
  <2>2. req[c].floor <= state[c].version
    BY <2>1 DEF KnownInv, SerialCall, ForcedCall
  <2>3. QED
    BY <2>1, <2>2
<1>2. Init => KnownInv
  BY SessionAssumption DEF Init, KnownInv, AtLeast, TargetSet
<1>3. TypeOK /\ KnownInv /\ [Next]_vars => KnownInv'
  <2> SUFFICES ASSUME TypeOK, KnownInv, [Next]_vars
               PROVE  KnownInv'
    OBVIOUS
  <2> USE SessionAssumption DEF Goto
  <2>0. /\ \A s, t, s1, t1 : CacheKey(s, t) = CacheKey(s1, t1) => s = s1 /\ t = t1
        /\ \A s \in SerialSession : s \in Session /\ ~Forced(s) /\ s \in Watched
        /\ \A t \in TargetSet : source[t] \in Nat
        /\ \A s \in SerialSession, t \in TargetSet : known[<<s, t>>] \in Nat
    BY DEF CacheKey, Forced, TypeOK
  <2>1. ASSUME NEW c \in Call, NEW s \in Session,
               NEW org \in Org \cup {None}, NEW ws \in Workspace \cup {None},
               StartLoad(c, s, org, ws)
        PROVE  KnownInv'
    <3> DEFINE t == Target(ResolveOrg(org), ws)
    <3>1. t \in TargetSet
      BY <2>1, TargetType DEF StartLoad
    <3>2. /\ pc[c] = "idle"
          /\ s \in SerialSession => Quiet(s)
          /\ req' = [req EXCEPT ![c] = [sess |-> s, target |-> t, floor |-> Floor(s, t)]]
          /\ pc' = [pc EXCEPT ![c] = IF Forced(s) THEN "fetch" ELSE "get"]
          /\ UNCHANGED <<source, entries, entry, state, known>>
      BY <2>1 DEF StartLoad
    <3> HIDE DEF t
    <3>3. ASSUME NEW d \in Call, d # c, pc'[d] # "idle"
          PROVE  /\ req'[d].sess \in SerialSession => SerialCall(d)'
                 /\ Forced(req'[d].sess) => ForcedCall(d)'
      BY <3>2, <3>3
         DEF KnownInv, SerialCall, ForcedCall, AtLeast, Answered, KeyOf, CacheKey, Quiet, TypeOK
    <3>4. req'[c].sess \in SerialSession => SerialCall(c)'
      BY <2>0, <3>1, <3>2
         DEF KnownInv, SerialCall, Answered, Quiet, TypeOK, Floor
    <3>5. Forced(req'[c].sess) => ForcedCall(c)'
      BY <2>0, <3>1, <3>2 DEF ForcedCall, Answered, TypeOK, Floor
    <3>6. QED
      BY <3>2, <3>3, <3>4, <3>5 DEF KnownInv, AtLeast
  <2>2. ASSUME NEW s \in Session,
               NEW org \in Org \cup {None}, NEW ws \in Workspace \cup {None},
               Refresh(s, org, ws)
        PROVE  KnownInv'
    <3>1. /\ s \in SerialSession => Quiet(s)
          /\ entries' = Without(CacheKey(s, Target(org, ws)))
          /\ known' = PromisedBy(s, org, ws)
          /\ UNCHANGED <<source, pc, req, entry, state>>
      BY <2>2 DEF Refresh
    <3>2. CASE s \notin Watched \/ Rejected(org, ws)
      BY <2>0, <3>1, <3>2
         DEF PromisedBy, KnownInv, SerialCall, ForcedCall, AtLeast, Answered, KeyOf, Without
    <3>3. CASE s \in Watched /\ ~Rejected(org, ws)
      <4> DEFINE t == Target(org, ws)
      <4>1. /\ ResolveOrg(org) = org
            /\ t \in TargetSet
            /\ known' = [known EXCEPT ![<<s, t>>] = source[t]]
            /\ entries' = Without(CacheKey(s, t))
        BY <3>1, <3>3, TargetType DEF PromisedBy, ResolveOrg, Rejected
      <4> HIDE DEF t
      <4>2. \A s1 \in SerialSession, t1 \in TargetSet :
              known'[<<s1, t1>>] =
                IF s1 = s /\ t1 = t THEN source[t] ELSE known[<<s1, t1>>]
        BY <2>0, <4>1, <3>3 DEF TypeOK
      <4>3. /\ DOMAIN entries' = DOMAIN entries \ {CacheKey(s, t)}
            /\ \A k \in DOMAIN entries' : entries'[k] = entries[k]
        BY <4>1 DEF Without
      <4>4. \A s1 \in SerialSession, t1 \in TargetSet :
              /\ known'[<<s1, t1>>] <= source'[t1]
              /\ AtLeast(CacheKey(s1, t1), known[<<s1, t1>>])'
              /\ CacheKey(s1, t1) \in DOMAIN entries' =>
                   entries'[CacheKey(s1, t1)].state.version <= source'[t1]
        <5>1. TAKE s1 \in SerialSession, t1 \in TargetSet
        <5>2. CASE s1 = s /\ t1 = t
          <6>1. CacheKey(s1, t1) \notin DOMAIN entries'
            BY <4>3, <5>2
          <6>2. known'[<<s1, t1>>] = source[t1] /\ source'[t1] = source[t1]
            BY <3>1, <4>2, <5>2
          <6>3. QED
            BY <2>0, <6>1, <6>2 DEF AtLeast
        <5>3. CASE ~(s1 = s /\ t1 = t)
          <6>1. known'[<<s1, t1>>] = known[<<s1, t1>>] /\ source'[t1] = source[t1]
            BY <3>1, <4>2, <5>3
          <6>2. QED
            BY <4>3, <6>1 DEF KnownInv, AtLeast
        <5>4. QED
          BY <5>2, <5>3
      <4>5. ASSUME NEW d \in Call, pc[d] # "idle", req[d].sess \in SerialSession
            PROVE  SerialCall(d)'
        <5>1. req[d].sess # s /\ req[d].target \in TargetSet
          BY <3>1, <4>5, KeyType DEF Quiet
        <5>2. known'[<<req[d].sess, req[d].target>>] = known[<<req[d].sess, req[d].target>>]
          BY <4>2, <4>5, <5>1
        <5>3. SerialCall(d)
          BY <4>5 DEF KnownInv
        <5>4. QED
          BY <3>1, <4>3, <4>5, <5>2, <5>3 DEF SerialCall, AtLeast, Answered, KeyOf
      <4>6. ASSUME NEW d \in Call, pc[d] # "idle", Forced(req[d].sess)
            PROVE  ForcedCall(d)'
        BY <3>1, <4>6 DEF KnownInv, ForcedCall, Answered
      <4>7. QED
        BY <3>1, <4>4, <4>5, <4>6 DEF KnownInv
    <3>4. QED
      BY <3>2, <3>3
  <2>3. ASSUME NEW c \in Call, CacheGet(c)
        PROVE  KnownInv'
    <3>1. /\ pc[c] = "get"
          /\ req[c].target \in TargetSet
          /\ pc' = [pc EXCEPT ![c] = IF KeyOf(c) \in DOMAIN entries THEN "check" ELSE "fetch"]
          /\ UNCHANGED <<source, entries, req, state, known>>
          /\ KeyOf(c) \in DOMAIN entries => entry'[c] = entries[KeyOf(c)]
          /\ \A d \in Call : d # c => entry'[d] = entry[d]
      BY <2>3, KeyType DEF CacheGet, TypeOK
    <3>2. ASSUME NEW d \in Call, d # c, pc'[d] # "idle"
          PROVE  /\ req'[d].sess \in SerialSession => SerialCall(d)'
                 /\ Forced(req'[d].sess) => ForcedCall(d)'
      BY <3>1, <3>2
         DEF KnownInv, SerialCall, ForcedCall, AtLeast, Answered, KeyOf, TypeOK
    <3>3. req[c].sess \in SerialSession => SerialCall(c)'
      <4> HAVE req[c].sess \in SerialSession
      <4>1. SerialCall(c)
        BY <3>1 DEF KnownInv
      <4>2. pc'[c] = "check" =>
              /\ entry'[c] = entries[KeyOf(c)]
              /\ known[<<req[c].sess, req[c].target>>] <= entries[KeyOf(c)].state.version
              /\ entries[KeyOf(c)].state.version <= source[req[c].target]
              /\ entries[KeyOf(c)].state.version \in Nat
        BY <3>1 DEF KnownInv, AtLeast, KeyOf, TypeOK, Entry, State
      <4>3. QED
        BY <3>1, <4>1, <4>2 DEF SerialCall, AtLeast, Answered, KeyOf, TypeOK
    <3>4. ~Forced(req[c].sess)
      BY <3>1 DEF KnownInv, ForcedCall
    <3>5. QED
      BY <3>1, <3>2, <3>3, <3>4 DEF KnownInv, AtLeast
  <2>4. ASSUME NEW c \in Call, CheckAge(c)
        PROVE  KnownInv'
    <3>1. /\ pc[c] = "check"
          /\ \/ pc' = [pc EXCEPT ![c] = "drop"] /\ state' = state
             \/ /\ pc' = [pc EXCEPT ![c] = "done"]
                /\ state' = [state EXCEPT ![c] = entry[c].state]
          /\ entry' = [entry EXCEPT ![c] = None]
          /\ UNCHANGED <<source, entries, req, known>>
      BY <2>4 DEF CheckAge
    <3>2. ASSUME NEW d \in Call, d # c, pc'[d] # "idle"
          PROVE  /\ req'[d].sess \in SerialSession => SerialCall(d)'
                 /\ Forced(req'[d].sess) => ForcedCall(d)'
      BY <3>1, <3>2
         DEF KnownInv, SerialCall, ForcedCall, AtLeast, Answered, KeyOf, TypeOK
    <3>3. req[c].sess \in SerialSession => SerialCall(c)'
      BY <3>1 DEF KnownInv, SerialCall, AtLeast, Answered, KeyOf, TypeOK
    <3>4. ~Forced(req[c].sess)
      BY <3>1 DEF KnownInv, ForcedCall
    <3>5. QED
      BY <3>1, <3>2, <3>3, <3>4 DEF KnownInv, AtLeast
  <2>5. ASSUME NEW c \in Call, DropExpired(c)
        PROVE  KnownInv'
    <3>1. /\ pc[c] = "drop"
          /\ pc' = [pc EXCEPT ![c] = "fetch"]
          /\ DOMAIN entries' \subseteq DOMAIN entries
          /\ \A k \in DOMAIN entries' : entries'[k] = entries[k]
          /\ UNCHANGED <<source, req, entry, state, known>>
      BY <2>5 DEF DropExpired, Without
    <3>2. \A k, lo : AtLeast(k, lo) => AtLeast(k, lo)'
      BY <3>1 DEF AtLeast
    <3>3. ASSUME NEW d \in Call, pc'[d] # "idle"
          PROVE  /\ req'[d].sess \in SerialSession => SerialCall(d)'
                 /\ Forced(req'[d].sess) => ForcedCall(d)'
      BY <3>1, <3>2, <3>3
         DEF KnownInv, SerialCall, ForcedCall, AtLeast, Answered, KeyOf, TypeOK
    <3>4. QED
      BY <3>1, <3>2, <3>3 DEF KnownInv, AtLeast
  <2>6. ASSUME NEW c \in Call, Fetch(c)
        PROVE  KnownInv'
    <3>1. /\ pc[c] = "fetch"
          /\ req[c].target \in TargetSet
          /\ pc' = [pc EXCEPT ![c] = "store"]
          /\ state'[c].version = source[req[c].target]
          /\ \A d \in Call : d # c => state'[d] = state[d]
          /\ UNCHANGED <<source, entries, req, entry, known>>
      BY <2>6, KeyType DEF Fetch, TypeOK
    <3>2. ASSUME NEW d \in Call, d # c, pc'[d] # "idle"
          PROVE  /\ req'[d].sess \in SerialSession => SerialCall(d)'
                 /\ Forced(req'[d].sess) => ForcedCall(d)'
      BY <3>1, <3>2
         DEF KnownInv, SerialCall, ForcedCall, AtLeast, Answered, KeyOf, TypeOK
    <3>3. req[c].sess \in SerialSession => SerialCall(c)'
      BY <2>0, <3>1 DEF KnownInv, SerialCall, AtLeast, Answered, KeyOf, TypeOK
    <3>4. Forced(req[c].sess) => ForcedCall(c)'
      BY <2>0, <3>1 DEF KnownInv, ForcedCall, Answered, TypeOK
    <3>5. QED
      BY <3>1, <3>2, <3>3, <3>4 DEF KnownInv, AtLeast
  <2>7. ASSUME NEW c \in Call, FetchFails(c)
        PROVE  KnownInv'
    <3>1. /\ pc[c] \in {"fetch", "store"}
          /\ pc' = [pc EXCEPT ![c] = "done"]
          /\ state' = [state EXCEPT ![c] = None]
          /\ UNCHANGED <<source, entries, req, entry, known>>
      BY <2>7 DEF FetchFails
    <3>2. ASSUME NEW d \in Call, pc'[d] # "idle"
          PROVE  /\ req'[d].sess \in SerialSession => SerialCall(d)'
                 /\ Forced(req'[d].sess) => ForcedCall(d)'
      BY <3>1, <3>2
         DEF KnownInv, SerialCall, ForcedCall, AtLeast, Answered, KeyOf, TypeOK
    <3>3. QED
      BY <3>1, <3>2 DEF KnownInv, AtLeast
  <2>8. ASSUME NEW c \in Call, Put(c)
        PROVE  KnownInv'
    <3>1. /\ pc[c] = "store"
          /\ req[c].target \in TargetSet
          /\ req[c].sess \in Session
          /\ pc' = [pc EXCEPT ![c] = "done"]
          /\ UNCHANGED <<source, req, entry, state, known>>
          /\ state[c].version \in Nat
      BY <2>8, KeyType DEF Put, TypeOK, State
    <3>2. /\ DOMAIN entries' \subseteq DOMAIN entries \cup {KeyOf(c)}
          /\ entries'[KeyOf(c)].state = state[c]
          /\ \A k \in DOMAIN entries' : k # KeyOf(c) => entries'[k] = entries[k]
      <4>1. PICK kept \in Survivors :
              entries' = [k \in kept \cup {KeyOf(c)} |->
                            IF k = KeyOf(c) THEN [state |-> state[c], loadedAt |-> now]
                                            ELSE entries[k]]
        BY <2>8 DEF Put
      <4>2. QED
        BY <4>1, SurvivorsKept
    <3>3. ASSUME NEW d \in Call, d # c, pc'[d] # "idle"
          PROVE  /\ req'[d].sess \in SerialSession => SerialCall(d)'
                 /\ Forced(req'[d].sess) => ForcedCall(d)'
      <4>1. req[d].sess \in SerialSession => KeyOf(d) # KeyOf(c)
        <5> HAVE req[d].sess \in SerialSession
        <5>1. pc[d] # "idle" /\ pc[c] # "idle" /\ req'[d] = req[d]
          BY <3>1, <3>3 DEF TypeOK
        <5>2. req[c].sess # req[d].sess
          BY <3>3, <5>1 DEF KnownInv, SerialCall
        <5>3. QED
          BY <2>0, <5>2 DEF KeyOf
      <4>2. QED
        BY <3>1, <3>2, <3>3, <4>1
           DEF KnownInv, SerialCall, ForcedCall, AtLeast, Answered, KeyOf, TypeOK
    <3>4. req[c].sess \in SerialSession => SerialCall(c)'
      BY <3>1, <3>2 DEF KnownInv, SerialCall, AtLeast, Answered, KeyOf, TypeOK
    <3>5. Forced(req[c].sess) => ForcedCall(c)'
      BY <3>1 DEF KnownInv, ForcedCall, Answered, TypeOK
    <3>6. ASSUME NEW s \in SerialSession, NEW t \in TargetSet
          PROVE  /\ AtLeast(CacheKey(s, t), known[<<s, t>>])'
                 /\ CacheKey(s, t) \in DOMAIN entries' =>
                      entries'[CacheKey(s, t)].state.version <= source'[t]
      <4>1. CASE s = req[c].sess /\ t = req[c].target
        BY <2>0, <3>1, <3>2, <4>1 DEF KnownInv, SerialCall, AtLeast, KeyOf
      <4>2. CASE ~(s = req[c].sess /\ t = req[c].target)
        <5>1. CacheKey(s, t) # KeyOf(c)
          BY <2>0, <4>2 DEF KeyOf
        <5>2. QED
          BY <3>1, <3>2, <5>1 DEF KnownInv, AtLeast
      <4>3. QED
        BY <4>1, <4>2
    <3>7. QED
      BY <3>1, <3>3, <3>4, <3>5, <3>6 DEF KnownInv
  <2>9. ASSUME NEW c \in Call, Reply(c)
        PROVE  KnownInv'
    <3>1. /\ pc[c] = "done"
          /\ req[c].target \in TargetSet
          /\ pc' = [pc EXCEPT ![c] = "idle"]
          /\ req' = [req EXCEPT ![c] = None]
          /\ state' = [state EXCEPT ![c] = None]
          /\ UNCHANGED <<source, entries, entry>>
      BY <2>9, KeyType DEF Reply
    <3>2. CASE ~(state[c] # None /\ req[c].sess \in SerialSession)
      <4>1. known' = known
        BY <2>9, <3>2 DEF Reply
      <4>2. QED
        BY <3>1, <4>1
           DEF KnownInv, SerialCall, ForcedCall, AtLeast, Answered, KeyOf, TypeOK
    <3>3. CASE state[c] # None /\ req[c].sess \in SerialSession
      <4> DEFINE s == req[c].sess
                 t == req[c].target
      <4>1. known' = [known EXCEPT ![<<s, t>>] = state[c].version]
        BY <2>9, <3>3 DEF Reply
      <4>2. \A s1 \in SerialSession, t1 \in TargetSet :
              known'[<<s1, t1>>] =
                IF s1 = s /\ t1 = t THEN state[c].version ELSE known[<<s1, t1>>]
        BY <2>0, <3>1, <3>3, <4>1 DEF TypeOK
      <4>3. /\ SerialCall(c)
            /\ state[c].version <= source[t]
            /\ AtLeast(CacheKey(s, t), state[c].version)
        BY <3>1, <3>3 DEF KnownInv, SerialCall, Answered, KeyOf
      <4>4. \A s1 \in SerialSession, t1 \in TargetSet :
              /\ known'[<<s1, t1>>] <= source'[t1]
              /\ AtLeast(CacheKey(s1, t1), known[<<s1, t1>>])'
              /\ CacheKey(s1, t1) \in DOMAIN entries' =>
                   entries'[CacheKey(s1, t1)].state.version <= source'[t1]
        BY <3>1, <4>2, <4>3 DEF KnownInv, AtLeast
      <4>5. ASSUME NEW d \in Call, pc'[d] # "idle", req'[d].sess \in SerialSession
            PROVE  SerialCall(d)'
        <5>1. /\ d # c
              /\ pc[d] # "idle"
              /\ req'[d] = req[d]
              /\ state'[d] = state[d]
              /\ pc'[d] = pc[d]
              /\ req[d].target \in TargetSet
          BY <3>1, <4>5, KeyType DEF TypeOK
        <5>2. req[d].sess # s
          BY <4>3, <5>1 DEF SerialCall
        <5>3. SerialCall(d)
          BY <4>5, <5>1 DEF KnownInv
        <5>4. known'[<<req[d].sess, req[d].target>>] = known[<<req[d].sess, req[d].target>>]
          BY <4>2, <4>5, <5>1, <5>2
        <5>5. QED
          BY <3>1, <5>1, <5>3, <5>4 DEF SerialCall, AtLeast, Answered, KeyOf, TypeOK
      <4>6. ASSUME NEW d \in Call, pc'[d] # "idle", Forced(req'[d].sess)
            PROVE  ForcedCall(d)'
        BY <3>1, <4>6 DEF KnownInv, ForcedCall, Answered, TypeOK
      <4>7. QED
        BY <4>4, <4>5, <4>6 DEF KnownInv
    <3>4. QED
      BY <3>2, <3>3
  <2>10. ASSUME NEW u \in TargetSet, Apply(u)
         PROVE  KnownInv'
    <3>1. /\ \A t \in TargetSet : source[t] <= source'[t] /\ source'[t] \in Nat
          /\ UNCHANGED <<entries, pc, req, entry, state, known>>
      BY <2>10 DEF Apply, TypeOK
    <3>2. \A s \in SerialSession, t \in TargetSet :
            CacheKey(s, t) \in DOMAIN entries =>
              entries[CacheKey(s, t)].state.version \in Nat
      BY DEF TypeOK, Entry, State
    <3>3. ASSUME NEW c \in Call, pc[c] # "idle"
          PROVE  /\ req[c].sess \in SerialSession => SerialCall(c)'
                 /\ Forced(req[c].sess) => ForcedCall(c)'
      <4>1. /\ source[req[c].target] <= source'[req[c].target]
            /\ source[req[c].target] \in Nat
            /\ source'[req[c].target] \in Nat
            /\ req[c].floor \in Nat
            /\ pc[c] = "check" => entry[c].state.version \in Nat
            /\ pc[c] = "store" \/ Answered(c) => state[c].version \in Nat
        BY <2>0, <3>1, <3>3, KeyType DEF TypeOK, Entry, State, Answered
      <4>2. QED
        BY <3>1, <3>3, <4>1 DEF KnownInv, SerialCall, ForcedCall, AtLeast, Answered, KeyOf
    <3>4. QED
      BY <2>0, <3>1, <3>2, <3>3 DEF KnownInv, AtLeast
  <2>11. CASE UNCHANGED <<source, entries, pc, req, entry, state, known>>
    BY <2>11 DEF KnownInv, SerialCall, ForcedCall, AtLeast, Answered, KeyOf
  <2>12. QED
    BY <2>1, <2>2, <2>3, <2>4, <2>5, <2>6, <2>7, <2>8, <2>9, <2>10, <2>11
       DEF Next, vars, Tick
<1>4. QED
  BY <1>1, <1>2, <1>3, Typing, PTL DEF Spec

-----------------------------------------------------------------------------
(* How old a hit can be *)

\* An entry was stored at most FetchTime after its state was read, and not in
\* the future.
StoredInTime(e) == e.loadedAt <= e.state.readAt + FetchTime

AgeInv ==
  /\ \A k \in DOMAIN entries : StoredInTime(entries[k])
  /\ \A c \in Call :
       /\ pc[c] = "check" => StoredInTime(entry[c])
       /\ pc[c] = "store" => now <= state[c].readAt + FetchTime

\* If no fetch takes longer than FetchTime, no hit is older than TTL + FetchTime.
THEOREM HitAge == Spec => HitIsRecent
<1> DEFINE Recent == \A c \in Call : pc[c] = "check" /\ pc'[c] = "done" =>
                       now < state'[c].readAt + TTL + FetchTime
<1> USE BoundAssumption DEF StoredInTime
<1>1. Init => AgeInv
  BY DEF Init, AgeInv
<1>2. TypeOK /\ AgeInv /\ [Next]_vars => AgeInv'
  <2> SUFFICES ASSUME TypeOK, AgeInv, [Next]_vars
               PROVE  AgeInv'
    OBVIOUS
  <2> USE DEF Goto
  <2>1. ASSUME NEW c \in Call, NEW s, NEW org, NEW ws, StartLoad(c, s, org, ws)
        PROVE  AgeInv'
    BY <2>1 DEF StartLoad, AgeInv, TypeOK
  <2>2. ASSUME NEW k, entries' = Without(k), UNCHANGED <<now, pc, entry, state>>
        PROVE  AgeInv'
    BY <2>2 DEF Without, AgeInv
  <2>3. ASSUME NEW c \in Call, CacheGet(c)
        PROVE  AgeInv'
    BY <2>3 DEF CacheGet, AgeInv, TypeOK
  <2>4. ASSUME NEW c \in Call, CheckAge(c)
        PROVE  AgeInv'
    BY <2>4 DEF CheckAge, AgeInv, TypeOK
  <2>5. ASSUME NEW c \in Call, DropExpired(c)
        PROVE  AgeInv'
    BY <2>5 DEF DropExpired, Without, AgeInv, TypeOK
  <2>6. ASSUME NEW c \in Call, Fetch(c)
        PROVE  AgeInv'
    BY <2>6 DEF Fetch, AgeInv, TypeOK
  <2>7. ASSUME NEW c \in Call, FetchFails(c)
        PROVE  AgeInv'
    BY <2>7 DEF FetchFails, AgeInv, TypeOK
  <2>8. ASSUME NEW c \in Call, Put(c)
        PROVE  AgeInv'
    <3>1. PICK kept \in Survivors :
            entries' = [k \in kept \cup {KeyOf(c)} |->
                          IF k = KeyOf(c) THEN [state |-> state[c], loadedAt |-> now]
                                          ELSE entries[k]]
      BY <2>8 DEF Put
    <3>2. \A k \in DOMAIN entries' : StoredInTime(entries'[k])
      BY <2>8, <3>1, SurvivorsKept DEF Put, AgeInv
    <3>3. QED
      BY <2>8, <3>2 DEF Put, AgeInv, TypeOK
  <2>9. ASSUME NEW c \in Call, Reply(c)
        PROVE  AgeInv'
    BY <2>9 DEF Reply, AgeInv, TypeOK
  <2>10. CASE Tick
    <3>1. ASSUME NEW c \in Call, pc[c] = "store"
          PROVE  now' <= state'[c].readAt + FetchTime
      <4>1. state[c].readAt \in Nat /\ now < state[c].readAt + FetchTime
        BY <2>10, <3>1 DEF Tick, TypeOK, State
      <4>2. QED
        BY <2>10, <4>1 DEF Tick, TypeOK
    <3>2. QED
      BY <2>10, <3>1 DEF Tick, AgeInv
  <2>11. CASE UNCHANGED <<now, entries, pc, entry, state>>
    BY <2>11 DEF AgeInv
  <2>12. QED
    BY <2>1, <2>2, <2>3, <2>4, <2>5, <2>6, <2>7, <2>8, <2>9, <2>10, <2>11
       DEF Next, vars, Refresh, Apply
<1>3. TypeOK /\ AgeInv /\ [Next]_vars => [Recent]_vars
  <2> SUFFICES ASSUME TypeOK, AgeInv, [Next]_vars,
                      NEW c \in Call, pc[c] = "check", pc'[c] = "done"
               PROVE  now < state'[c].readAt + TTL + FetchTime
    OBVIOUS
  <2>1. CheckAge(c)
    BY DEF Next, vars, Goto, StartLoad, Refresh, CacheGet, CheckAge, DropExpired, Fetch,
           FetchFails, Put, Reply, Apply, Tick, TypeOK
  <2>2. ~Expired(entry[c]) /\ state'[c] = entry[c].state
    BY <2>1 DEF CheckAge, Goto, TypeOK
  <2>3. entry[c].loadedAt \in Nat /\ entry[c].state.readAt \in Nat /\ now \in Nat
    BY DEF TypeOK, Entry, State
  <2>4. entry[c].loadedAt <= entry[c].state.readAt + FetchTime
    BY DEF AgeInv
  <2>5. QED
    BY <2>2, <2>3, <2>4 DEF Expired
<1>4. QED
  BY <1>1, <1>2, <1>3, Typing, PTL DEF Spec, HitIsRecent

-----------------------------------------------------------------------------
(* Which entries may go *)

\* No other goroutine serves the serial session that c serves.
Alone(c) ==
  pc[c] # "idle" /\ req[c].sess \in SerialSession =>
    \A d \in Call \ {c} : pc[d] # "idle" => req[d].sess # req[c].sess

\* While a call of a serial session looks at the age of an entry, and until it
\* drops it, the entry stays what it was, or goes.
DropCall(c) ==
  /\ pc[c] \in {"check", "drop"}
  /\ KeyOf(c)[1] \in SerialSession
  /\ KeyOf(c) \in DOMAIN entries
  => /\ pc[c] = "check" => entries[KeyOf(c)] = entry[c]
     /\ pc[c] = "drop" => Expired(entries[KeyOf(c)])

DropInv == \A c \in Call : Alone(c) /\ DropCall(c)

\* The key of a serial session tells which session it is.
LEMMA SerialKey ==
  ASSUME NEW c, NEW d, KeyOf(c) = KeyOf(d), KeyOf(c)[1] \in SerialSession
  PROVE  req[c].sess = req[d].sess /\ req[c].sess \in SerialSession
BY SessionAssumption DEF KeyOf, CacheKey

LEMMA DropInvariance == Spec => []DropInv
<1>1. Init => DropInv
  BY DEF Init, DropInv, Alone, DropCall
<1>2. TypeOK /\ DropInv /\ [Next]_vars => DropInv'
  <2> SUFFICES ASSUME TypeOK, DropInv, [Next]_vars
               PROVE  DropInv'
    OBVIOUS
  <2> USE DEF Goto
  <2>1. ASSUME NEW c \in Call, NEW s \in Session, NEW org, NEW ws, StartLoad(c, s, org, ws)
        PROVE  DropInv'
    <3> DEFINE t == Target(ResolveOrg(org), ws)
               r == [sess |-> s, target |-> t, floor |-> Floor(s, t)]
    <3>1. r.sess = s /\ req' = [req EXCEPT ![c] = r]
      BY <2>1 DEF StartLoad
    <3> HIDE DEF r
    <3>2. /\ s \in SerialSession => Quiet(s)
          /\ pc[c] = "idle" /\ pc' = [pc EXCEPT ![c] = pc'[c]] /\ pc'[c] \in {"get", "fetch"}
          /\ UNCHANGED <<now, entries, entry>>
      BY <2>1 DEF StartLoad, TypeOK
    <3>3. \A d \in Call \ {c} : pc'[d] = pc[d] /\ req'[d] = req[d]
      BY <3>1, <3>2 DEF TypeOK
    <3>4. req'[c].sess = s
      BY <3>1 DEF TypeOK
    <3>5. \A d \in Call : Alone(d)'
      BY <3>2, <3>3, <3>4 DEF DropInv, Alone, Quiet
    <3>6. \A d \in Call \ {c} : DropCall(d)'
      BY <3>2, <3>3 DEF DropInv, DropCall, KeyOf, CacheKey, Expired
    <3>7. DropCall(c)'
      BY <3>2 DEF DropCall
    <3>8. QED
      BY <3>5, <3>6, <3>7 DEF DropInv
  <2>2. ASSUME NEW k, entries' = Without(k), UNCHANGED <<now, pc, req, entry>>
        PROVE  DropInv'
    BY <2>2 DEF Without, DropInv, Alone, DropCall, KeyOf, Expired
  <2>3. ASSUME NEW c \in Call, CacheGet(c)
        PROVE  DropInv'
    BY <2>3 DEF CacheGet, DropInv, Alone, DropCall, KeyOf, Expired, TypeOK
  <2>4. ASSUME NEW c \in Call, CheckAge(c)
        PROVE  DropInv'
    BY <2>4 DEF CheckAge, DropInv, Alone, DropCall, KeyOf, Expired, TypeOK
  <2>5. ASSUME NEW c \in Call, DropExpired(c)
        PROVE  DropInv'
    BY <2>5 DEF DropExpired, Without, DropInv, Alone, DropCall, KeyOf, Expired, TypeOK
  <2>6. ASSUME NEW c \in Call, Fetch(c) \/ FetchFails(c)
        PROVE  DropInv'
    BY <2>6 DEF Fetch, FetchFails, DropInv, Alone, DropCall, KeyOf, Expired, TypeOK
  <2>7. ASSUME NEW c \in Call, Put(c)
        PROVE  DropInv'
    <3>1. /\ DOMAIN entries' \subseteq DOMAIN entries \cup {KeyOf(c)}
          /\ \A k \in DOMAIN entries' : k # KeyOf(c) => entries'[k] = entries[k]
      BY <2>7, SurvivorsKept DEF Put
    <3>2. /\ pc[c] = "store" /\ pc' = [pc EXCEPT ![c] = "done"]
          /\ UNCHANGED <<now, req, entry>>
      BY <2>7 DEF Put
    <3>3. \A d \in Call : Alone(d)'
      BY <3>2 DEF DropInv, Alone, TypeOK
    <3>4. ASSUME NEW d \in Call PROVE DropCall(d)'
      <4>1. CASE d = c
        BY <3>2, <4>1 DEF DropCall, TypeOK
      <4>2. CASE d # c /\ pc[d] \in {"check", "drop"} /\ KeyOf(d)[1] \in SerialSession
        <5>1. KeyOf(d) # KeyOf(c)
          BY <3>2, <4>2, SerialKey DEF DropInv, Alone
        <5>2. QED
          BY <3>1, <3>2, <4>2, <5>1 DEF DropInv, DropCall, KeyOf, Expired, TypeOK
      <4>3. CASE d # c /\ ~(pc[d] \in {"check", "drop"} /\ KeyOf(d)[1] \in SerialSession)
        BY <3>2, <4>3 DEF DropCall, KeyOf, TypeOK
      <4>4. QED
        BY <4>1, <4>2, <4>3
    <3>5. QED
      BY <3>3, <3>4 DEF DropInv
  <2>8. ASSUME NEW c \in Call, Reply(c)
        PROVE  DropInv'
    BY <2>8 DEF Reply, DropInv, Alone, DropCall, KeyOf, Expired, TypeOK
  <2>9. CASE Tick
    <3>1. \A k \in DOMAIN entries : Expired(entries[k]) => Expired(entries[k])'
      BY <2>9, BoundAssumption DEF Tick, Expired, TypeOK, Entry
    <3>2. QED
      BY <2>9, <3>1 DEF Tick, DropInv, Alone, DropCall, KeyOf
  <2>10. CASE UNCHANGED <<now, entries, pc, req, entry>>
    BY <2>10 DEF DropInv, Alone, DropCall, KeyOf, Expired
  <2>11. QED
    BY <2>1, <2>2, <2>3, <2>4, <2>5, <2>6, <2>7, <2>8, <2>9, <2>10
       DEF Next, vars, Refresh, Apply
<1>3. QED
  BY <1>1, <1>2, Typing, PTL DEF Spec

\* An entry whose age has not expired disappears only when its own key is refreshed
\* or when put finds the map full of such entries and none of them is older, so an
\* eviction never takes a session's state before its time while there is something
\* older to take (loader.go:53-100).  DropInv is needed for the unlocked test in get.
THEOREM Evictions == Spec => FreshEntryDroppedOnlyIfOldest
<1> DEFINE Goes(k) ==
             k[1] \in SerialSession /\ ~Expired(entries[k]) =>
               \/ pc' = pc /\ DOMAIN entries' = DOMAIN entries \ {k}
               \/ /\ Cardinality(DOMAIN entries) = MaxSize
                  /\ \A j \in DOMAIN entries :
                       ~Expired(entries[j]) /\ entries[k].loadedAt <= entries[j].loadedAt
           Fresh == \A k \in DOMAIN entries \ DOMAIN entries' : Goes(k)
<1>1. TypeOK /\ SizeInv /\ DropInv /\ [Next]_vars => [Fresh]_vars
  <2> SUFFICES ASSUME TypeOK, SizeInv, DropInv, [Next]_vars,
                      NEW k \in DOMAIN entries \ DOMAIN entries'
               PROVE  Goes(k)
    OBVIOUS
  <2>1. ASSUME NEW s, NEW org, NEW ws, Refresh(s, org, ws)
        PROVE  Goes(k)
    <3>1. DOMAIN entries' = DOMAIN entries \ {CacheKey(s, Target(org, ws))} /\ pc' = pc
      BY <2>1 DEF Refresh, Without
    <3>2. QED
      BY <3>1
  <2>2. ASSUME NEW c \in Call, DropExpired(c)
        PROVE  Goes(k)
    <3>1. k = KeyOf(c) /\ pc[c] = "drop"
      BY <2>2 DEF DropExpired, Without
    <3>2. QED
      BY <3>1 DEF DropInv, DropCall
  <2>3. ASSUME NEW c \in Call, Put(c)
        PROVE  Goes(k)
    <3> DEFINE live == {j \in DOMAIN entries : ~Expired(entries[j])}
    <3>1. PICK kept \in Survivors : DOMAIN entries' = kept \cup {KeyOf(c)}
      BY <2>3 DEF Put
    <3>2. SUFFICES ASSUME ~Expired(entries[k])
                   PROVE  /\ Cardinality(DOMAIN entries) = MaxSize
                          /\ \A j \in DOMAIN entries :
                               ~Expired(entries[j]) /\ entries[k].loadedAt <= entries[j].loadedAt
      OBVIOUS
    <3>3. k \in live /\ k \notin kept
      BY <3>1, <3>2
    <3>4. ~(Cardinality(DOMAIN entries) < MaxSize) /\ ~(Cardinality(live) < MaxSize)
      BY <3>3 DEF Survivors
    <3>5. PICK old \in Oldest(live) : kept = live \ {old}
      BY <3>4 DEF Survivors
    <3>6. old = k
      BY <3>3, <3>5
    <3>7. /\ Cardinality(live) \in Nat /\ Cardinality(DOMAIN entries) \in Nat
          /\ Cardinality(live) <= Cardinality(DOMAIN entries)
          /\ Cardinality(live) = Cardinality(DOMAIN entries) => live = DOMAIN entries
      BY FS_Subset, FS_CardinalityType DEF SizeInv
    <3>8. Cardinality(DOMAIN entries) = MaxSize /\ live = DOMAIN entries
      BY <3>4, <3>7, BoundAssumption DEF SizeInv, CacheBounded
    <3>9. \A j \in live : entries[k].loadedAt <= entries[j].loadedAt
      BY <3>5, <3>6 DEF Oldest
    <3>10. QED
      BY <3>8, <3>9
  <2>4. CASE UNCHANGED entries
    BY <2>4
  <2>5. QED
    BY <2>1, <2>2, <2>3, <2>4
       DEF Next, vars, StartLoad, CacheGet, CheckAge, Fetch, FetchFails, Reply, Apply, Tick
<1>2. QED
  BY <1>1, Typing, SizeInvariance, DropInvariance, PTL
     DEF Spec, FreshEntryDroppedOnlyIfOldest

-----------------------------------------------------------------------------
(* The refinement *)

\* A state is of the workspace it stands for, and not ahead of the backend.
Held(st, t) == st.target = t /\ st.version <= source[t]

HeldInv ==
  /\ \A k \in DOMAIN entries : Held(entries[k].state, k[2])
  /\ \A c \in Call :
       /\ pc[c] = "check" => Held(entry[c].state, req[c].target)
       /\ pc[c] = "store" \/ Answered(c) => Held(state[c], req[c].target)

\* Nothing in the cache or on its way to a client is ahead of the backend.
LEMMA NeverAhead == Spec => []HeldInv
<1>1. Init => HeldInv
  BY DEF Init, HeldInv, Answered
<1>2. TypeOK /\ HeldInv /\ [Next]_vars => HeldInv'
  <2> SUFFICES ASSUME TypeOK, HeldInv, [Next]_vars
               PROVE  HeldInv'
    OBVIOUS
  <2> USE DEF Goto, Held
  <2>1. ASSUME NEW c \in Call, NEW s, NEW org, NEW ws, StartLoad(c, s, org, ws)
        PROVE  HeldInv'
    BY <2>1 DEF StartLoad, HeldInv, Answered, TypeOK
  <2>2. ASSUME NEW k, entries' = Without(k),
               UNCHANGED <<source, req, entry>>,
               \A c \in Call : /\ pc'[c] = "check" => pc[c] = "check"
                               /\ pc'[c] = "store" => pc[c] = "store"
                               /\ pc'[c] = "done" => pc[c] = "done"
                               /\ state'[c] = state[c]
        PROVE  HeldInv'
    BY <2>2 DEF Without, HeldInv, Answered
  <2>3. ASSUME NEW c \in Call, CacheGet(c)
        PROVE  HeldInv'
    <3>1. KeyOf(c)[2] = req[c].target
      BY DEF KeyOf, CacheKey
    <3>2. QED
      BY <2>3, <3>1 DEF CacheGet, HeldInv, Answered, TypeOK
  <2>4. ASSUME NEW c \in Call, CheckAge(c)
        PROVE  HeldInv'
    BY <2>4 DEF CheckAge, HeldInv, Answered, TypeOK
  <2>5. ASSUME NEW c \in Call, Fetch(c)
        PROVE  HeldInv'
    <3>1. source[req[c].target] \in Nat
      BY <2>5, KeyType DEF Fetch, TypeOK
    <3>2. QED
      BY <2>5, <3>1 DEF Fetch, HeldInv, Answered, TypeOK
  <2>6. ASSUME NEW c \in Call, FetchFails(c)
        PROVE  HeldInv'
    BY <2>6 DEF FetchFails, HeldInv, Answered, TypeOK
  <2>7. ASSUME NEW c \in Call, Put(c)
        PROVE  HeldInv'
    <3>1. PICK kept \in Survivors :
            entries' = [k \in kept \cup {KeyOf(c)} |->
                          IF k = KeyOf(c) THEN [state |-> state[c], loadedAt |-> now]
                                          ELSE entries[k]]
      BY <2>7 DEF Put
    <3>2. KeyOf(c)[2] = req[c].target
      BY DEF KeyOf, CacheKey
    <3>3. (\A k \in DOMAIN entries : Held(entries[k].state, k[2]))'
      BY <2>7, <3>1, <3>2, SurvivorsKept DEF Put, HeldInv
    <3>4. QED
      BY <2>7, <3>3 DEF Put, HeldInv, Answered, TypeOK
  <2>8. ASSUME NEW c \in Call, Reply(c)
        PROVE  HeldInv'
    BY <2>8 DEF Reply, HeldInv, Answered, TypeOK
  <2>9. ASSUME NEW t \in TargetSet, Apply(t)
        PROVE  HeldInv'
    <3>1. \A u \in TargetSet : source[u] \in Nat /\ source[u] <= source'[u] /\ source'[u] \in Nat
      BY <2>9 DEF Apply, TypeOK
    <3>2. ASSUME NEW st \in State, NEW u \in TargetSet, Held(st, u)
          PROVE  Held(st, u)'
      BY <3>1, <3>2 DEF State
    <3>3. \A k \in DOMAIN entries : entries[k].state \in State /\ k[2] \in TargetSet
      BY DEF TypeOK, Entry, Key
    <3>4. \A c \in Call : /\ pc[c] = "check" => entry[c].state \in State /\ req[c].target \in TargetSet
                          /\ pc[c] = "store" \/ Answered(c) =>
                               state[c] \in State /\ req[c].target \in TargetSet
      BY DEF TypeOK, Entry, Request, Answered
    <3> HIDE DEF Held
    <3>5. QED
      BY <2>9, <3>2, <3>3, <3>4 DEF Apply, HeldInv, Answered
  <2>10. CASE UNCHANGED <<source, entries, pc, req, entry, state>>
    BY <2>10 DEF HeldInv, Answered
  <2>11. ASSUME NEW s, NEW org, NEW ws, Refresh(s, org, ws)
         PROVE  HeldInv'
    BY <2>2, <2>11 DEF Refresh
  <2>12. ASSUME NEW c \in Call, DropExpired(c)
         PROVE  HeldInv'
    BY <2>2, <2>12 DEF DropExpired, TypeOK
  <2>13. QED
    BY <2>1, <2>3, <2>4, <2>5, <2>6, <2>7, <2>8, <2>9, <2>10, <2>11, <2>12
       DEF Next, vars, Tick
<1>3. QED
  BY <1>1, <1>2, Typing, PTL DEF Spec

\* A load that ends with an answer answers as the abstract store may.
LEMMA AnswerAllowed ==
  ASSUME TypeOK, TypeOK', HeldInv', SerialReadsNeverGoBack', NEW c \in Call,
         pc[c] \in {"check", "store"}, Goto(c, "done"), Answered(c)',
         UNCHANGED <<source, req, known>>,
         \A d \in Call \ {c} : state'[d] = state[d]
  PROVE  Store!Answer(c)
<1> DEFINE v == state'[c].version
<1>1. /\ pc'[c] = "done"
      /\ \A d \in Call \ {c} : pc'[d] = pc[d]
  BY DEF Goto, TypeOK
<1>2. /\ req[c] \in Request
      /\ source[req[c].target] \in Nat
      /\ req[c].floor \in Nat
  BY KeyType DEF TypeOK
<1>3. v \in Nat
  BY DEF TypeOK, Answered, State
<1>4. v <= source[req[c].target]
  BY DEF HeldInv, Held
<1>5. req[c].sess \in SerialSession \cup {s \in Session : Forced(s)} => v >= req[c].floor
  BY DEF SerialReadsNeverGoBack, Forced
<1>6. [d \in Call |-> StatusOf(d)]' = [[d \in Call |-> StatusOf(d)] EXCEPT ![c] = "answered"]
  BY <1>1 DEF StatusOf
<1>7. [d \in Call |-> AnswerOf(d)]' = [[d \in Call |-> AnswerOf(d)] EXCEPT ![c] = {v}]
  BY <1>1 DEF AnswerOf, Answered
<1>8. v \in 0 .. source[req[c].target]
  BY <1>2, <1>3, <1>4
<1> HIDE DEF v
<1>9. QED
  BY <1>5, <1>6, <1>7, <1>8 DEF Store!Answer, StatusOf

\* The cache implements the store that has none.
THEOREM Refinement ==
  ASSUME TFC, TFCloudOrg = None, TFEOrg = None
  PROVE  Spec => ImplementsVersionStore
<1> DEFINE status == [c \in Call |-> StatusOf(c)]
           answer == [c \in Call |-> AnswerOf(c)]
<1>1. Init => Store!Init
  BY DEF Init, Store!Init, StatusOf, AnswerOf, Answered
<1>2. TypeOK /\ TypeOK' /\ HeldInv' /\ SerialReadsNeverGoBack' /\ [Next]_vars =>
        [Store!Next]_(Store!vars)
  <2> SUFFICES ASSUME TypeOK, TypeOK', HeldInv', SerialReadsNeverGoBack', [Next]_vars
               PROVE  [Store!Next]_(Store!vars)
    OBVIOUS
  <2> USE DEF Store!vars
  <2>1. ASSUME NEW c \in Call, NEW s \in Session,
               NEW org \in Org \cup {None}, NEW ws \in Workspace \cup {None},
               StartLoad(c, s, org, ws)
        PROVE  Store!Next
    <3> DEFINE t == Target(ResolveOrg(org), ws)
    <3>1. t \in TargetSet
      BY <2>1, TargetType DEF StartLoad
    <3>2. /\ status[c] = "none"
          /\ status' = [status EXCEPT ![c] = "asked"]
          /\ answer' = answer
      BY <2>1 DEF StartLoad, Goto, StatusOf, AnswerOf, Answered, TypeOK
    <3>3. Store!Floor(s, t) = Floor(s, t)
      BY DEF Store!Floor, Floor
    <3>4. Store!MayAct(s)
      BY <2>1 DEF StartLoad, Quiet, Store!MayAct, StatusOf
    <3>5. Store!Ask(c, s, t)
      BY <2>1, <3>2, <3>3, <3>4 DEF StartLoad, Store!Ask
    <3>6. QED
      BY <3>1, <3>5 DEF Store!Next
  <2>2. ASSUME NEW s \in Session,
               NEW org \in Org \cup {None}, NEW ws \in Workspace \cup {None},
               Refresh(s, org, ws)
        PROVE  Store!Next \/ UNCHANGED Store!vars
    <3> DEFINE t == Target(ResolveOrg(org), ws)
    <3>1. status' = status /\ answer' = answer
      BY <2>2 DEF Refresh, StatusOf, AnswerOf, Answered
    <3>2. CASE s \notin Watched \/ Rejected(org, ws)
      BY <2>2, <3>1, <3>2 DEF Refresh, PromisedBy
    <3>3. CASE s \in Watched /\ ~Rejected(org, ws)
      <4>1. t \in TargetSet
        BY <3>3, TargetType
      <4>2. Store!MayAct(s)
        BY <2>2 DEF Refresh, Quiet, Store!MayAct, StatusOf
      <4>3. Store!Refresh(s, t)
        BY <2>2, <3>1, <3>3, <4>2 DEF Refresh, PromisedBy, Store!Refresh
      <4>4. QED
        BY <3>3, <4>1, <4>3 DEF Store!Next
    <3>4. QED
      BY <3>2, <3>3
  <2>3. ASSUME NEW c \in Call, CacheGet(c) \/ DropExpired(c) \/ Fetch(c)
        PROVE  UNCHANGED Store!vars
    BY <2>3 DEF CacheGet, DropExpired, Fetch, Goto, StatusOf, AnswerOf, Answered, TypeOK
  <2>4. ASSUME NEW c \in Call, CheckAge(c)
        PROVE  Store!Next \/ UNCHANGED Store!vars
    <3>1. CASE Expired(entry[c])
      BY <2>4, <3>1 DEF CheckAge, Goto, StatusOf, AnswerOf, Answered, TypeOK
    <3>2. CASE ~Expired(entry[c]) /\ Answered(c)'
      <4>1. Store!Answer(c)
        BY <2>4, <3>2, AnswerAllowed DEF CheckAge, TypeOK
      <4>2. QED
        BY <4>1 DEF Store!Next
    <3>3. CASE ~Expired(entry[c]) /\ ~Answered(c)'
      <4>1. Store!Fail(c)
        BY <2>4, <3>3 DEF CheckAge, Goto, StatusOf, AnswerOf, Answered, TypeOK, Store!Fail
      <4>2. QED
        BY <4>1 DEF Store!Next
    <3>4. QED
      BY <3>1, <3>2, <3>3
  <2>5. ASSUME NEW c \in Call, FetchFails(c)
        PROVE  Store!Next
    <3>1. Store!Fail(c)
      BY <2>5 DEF FetchFails, Goto, StatusOf, AnswerOf, Answered, TypeOK, Store!Fail
    <3>2. QED
      BY <3>1 DEF Store!Next
  <2>6. ASSUME NEW c \in Call, Put(c)
        PROVE  Store!Next
    <3>1. CASE Answered(c)'
      <4>1. Store!Answer(c)
        BY <2>6, <3>1, AnswerAllowed DEF Put
      <4>2. QED
        BY <4>1 DEF Store!Next
    <3>2. CASE ~Answered(c)'
      <4>1. Store!Fail(c)
        BY <2>6, <3>2 DEF Put, Goto, StatusOf, AnswerOf, Answered, TypeOK, Store!Fail
      <4>2. QED
        BY <4>1 DEF Store!Next
    <3>3. QED
      BY <3>1, <3>2
  <2>7. ASSUME NEW c \in Call, Reply(c)
        PROVE  Store!Next
    <3>1. /\ status[c] = "answered"
          /\ status' = [status EXCEPT ![c] = "none"]
          /\ answer' = [answer EXCEPT ![c] = {}]
      BY <2>7 DEF Reply, Goto, StatusOf, AnswerOf, Answered, TypeOK
    <3>2. answer[c] = IF state[c] # None THEN {state[c].version} ELSE {}
      BY <2>7 DEF Reply, AnswerOf, Answered
    <3>3. \/ /\ req[c].sess \in SerialSession
             /\ \E v \in answer[c] :
                  known' = [known EXCEPT ![<<req[c].sess, req[c].target>>] = v]
          \/ /\ req[c].sess \in SerialSession => answer[c] = {}
             /\ known' = known
      BY <2>7, <3>2 DEF Reply
    <3>4. Store!Deliver(c)
      BY <2>7, <3>1, <3>3 DEF Reply, Store!Deliver
    <3>5. QED
      BY <3>4 DEF Store!Next
  <2>8. ASSUME NEW t \in TargetSet, Apply(t)
        PROVE  Store!Next
    <3>1. Store!Change(t)
      BY <2>8 DEF Apply, StatusOf, AnswerOf, Answered, Store!Change
    <3>2. QED
      BY <3>1 DEF Store!Next
  <2>9. CASE Tick \/ UNCHANGED vars
    BY <2>9 DEF Tick, vars, StatusOf, AnswerOf, Answered
  <2>10. QED
    BY <2>1, <2>2, <2>3, <2>4, <2>5, <2>6, <2>7, <2>8, <2>9 DEF Next
<1>3. Spec => []SerialReadsNeverGoBack
  BY SerialReads
<1>4. QED
  BY <1>1, <1>2, <1>3, Typing, NeverAhead, PTL
     DEF Spec, ImplementsVersionStore, Store!Spec
=============================================================================
