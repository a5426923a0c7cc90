-------------------------- MODULE StateToolsProofs --------------------------
(***************************************************************************)
(* Proofs about StateTools, for all states, patterns and paths: what       *)
(* redaction takes away and what it leaves, and with that what the answers *)
(* of the tools may show and which differences a diff reports.             *)
(***************************************************************************)
EXTENDS StateTools, WellFoundedInduction, TLAPS

-----------------------------------------------------------------------------
(* Numbers and sequences *)

\* A set of natural numbers has a least one.
LEMMA LeastNat ==
  ASSUME NEW S, S \subseteq Nat, S # {}
  PROVE  \E n \in S : \A m \in S : n <= m
<1> DEFINE R == OpToRel(<, Nat)
<1>1. IsWellFoundedOn(R, Nat)
  BY NatLessThanWellFounded
<1>2. \A m, n \in Nat : m < n => <<m, n>> \in R
  BY DEF OpToRel
<1> HIDE DEF R
<1>3. PICK n \in S : \A m \in S : ~(<<m, n>> \in R)
  BY <1>1, WFMin
<1>4. n \in Nat /\ \A m \in S : m \in Nat /\ ~(m < n)
  BY <1>2, <1>3
<1>5. \A m \in Nat : ~(m < n) => n <= m
  BY <1>4
<1> QED BY <1>3, <1>4, <1>5

\* Induction, on a set of numbers.
LEMMA InductionUpTo ==
  ASSUME NEW N \in Nat, NEW S, 0 \in S, \A n \in Nat : n < N /\ n \in S => n + 1 \in S
  PROVE  N \in S
<1> DEFINE Out == {n \in 0..N : n \notin S}
<1>1. SUFFICES ASSUME N \notin S PROVE FALSE
  OBVIOUS
<1>2. Out \subseteq Nat /\ N \in Out
  BY <1>1
<1>3. PICK n \in Out : \A m \in Out : n <= m
  <2> HIDE DEF Out
  <2> QED BY <1>2, LeastNat
<1>4. n \in Nat /\ n # 0 /\ n <= N
  OBVIOUS
<1>5. n - 1 \in 0..N /\ n - 1 \in Nat /\ n - 1 < N /\ n - 1 + 1 = n /\ ~(n <= n - 1)
  BY <1>4
<1>6. n - 1 \in S
  BY <1>3, <1>5
<1> QED BY <1>5, <1>6

LEMMA Induction ==
  ASSUME NEW S, 0 \in S, \A n \in Nat : n \in S => n + 1 \in S
  PROVE  \A n \in Nat : n \in S
  BY InductionUpTo

\* A set of natural numbers up to a bound has a greatest one.
LEMMA GreatestNat ==
  ASSUME NEW N \in Nat, NEW S, S \subseteq 0..N, S # {}
  PROVE  \E n \in S : \A m \in S : m <= n
<1> DEFINE T == {N - n : n \in S}
<1>1. T \subseteq Nat /\ T # {}
  <2>1. \A n \in S : n \in 0..N
    OBVIOUS
  <2>2. \A n \in 0..N : N - n \in Nat
    OBVIOUS
  <2> QED BY <2>1, <2>2
<1>2. PICK t \in T : \A m \in T : t <= m
  <2> HIDE DEF T
  <2> QED BY <1>1, LeastNat
<1>3. PICK n \in S : t = N - n
  BY <1>2
<1>4. ASSUME NEW m \in S PROVE m <= n
  <2>1. N - n <= N - m
    BY <1>2, <1>3
  <2>2. n \in Nat /\ m \in Nat
    OBVIOUS
  <2> QED BY <2>1, <2>2
<1> QED BY <1>4

LEMMA LenOf ==
  ASSUME NEW s, NEW n \in Nat, s = [i \in 1..n |-> s[i]]
  PROVE  Len(s) = n
<1>1. s \in Seq({s[i] : i \in 1..n})
  OBVIOUS
<1>2. Len(s) \in Nat /\ DOMAIN s = 1..Len(s)
  BY <1>1
<1>3. \A m \in Nat : 1..m = 1..n => m = n
  OBVIOUS
<1> QED BY <1>2, <1>3

LEMMA FirstSteps ==
  ASSUME NEW s, IsSequence(s), NEW n \in 0..Len(s)
  PROVE  SubSeq(s, 1, n) = [i \in 1..n |-> s[i]] /\ Len(SubSeq(s, 1, n)) = n
<1> DEFINE S == {s[i] : i \in 1..Len(s)}
<1>1. s \in Seq(S)
  BY DEF IsSequence
<1> QED BY <1>1 DEF IsSequence

LEMMA PrefixSteps ==
  ASSUME NEW s, NEW t, IsSequence(s), IsSequence(t)
  PROVE  IsPrefix(s, t) <=> Len(s) <= Len(t) /\ \A i \in 1..Len(s) : s[i] = t[i]
<1>1. Len(s) \in 0..Len(s) /\ (Len(s) <= Len(t) => Len(s) \in 0..Len(t))
  BY DEF IsSequence
<1>2. SubSeq(s, 1, Len(s)) = [i \in 1..Len(s) |-> s[i]]
  BY <1>1, FirstSteps
<1>3. Len(s) <= Len(t) => SubSeq(t, 1, Len(s)) = [i \in 1..Len(s) |-> t[i]]
  BY <1>1, FirstSteps
<1> QED BY <1>2, <1>3 DEF IsPrefix

-----------------------------------------------------------------------------
(* The copy after each entry *)

\* The copies after the entries up to n, one made from the other.
CopiesUpTo(g, n, attrs, paths) ==
  g = [m \in 0..n |-> IF m = 0 THEN attrs ELSE SetAtPath(g[m - 1], PathSteps(paths[m]))]

LEMMA CopiesGoOn ==
  ASSUME NEW attrs, NEW paths, NEW n \in Nat, NEW g, CopiesUpTo(g, n, attrs, paths)
  PROVE  \E h : CopiesUpTo(h, n + 1, attrs, paths)
<1> DEFINE Next1 == SetAtPath(g[n], PathSteps(paths[n + 1]))
           h == [m \in 0..(n + 1) |-> IF m = n + 1 THEN Next1 ELSE g[m]]
<1>1. \A m \in 0..n : g[m] = IF m = 0 THEN attrs ELSE SetAtPath(g[m - 1], PathSteps(paths[m]))
  BY DEF CopiesUpTo
<1>2. ASSUME NEW m \in 0..(n + 1)
      PROVE  h[m] = IF m = 0 THEN attrs ELSE SetAtPath(h[m - 1], PathSteps(paths[m]))
  <2>1. CASE m = n + 1
    <3>1. m # 0 /\ m - 1 = n /\ n \in 0..(n + 1) /\ n # n + 1
      BY <2>1
    <3>2. h[m] = Next1 /\ h[m - 1] = g[n]
      BY <2>1, <3>1
    <3> QED BY <2>1, <3>1, <3>2
  <2>2. CASE m # n + 1
    <3>1. m \in 0..n
      BY <2>2
    <3>2. h[m] = g[m]
      BY <2>2
    <3>3. m # 0 => m - 1 \in 0..n /\ h[m - 1] = g[m - 1]
      BY <3>1
    <3> HIDE DEF h
    <3> QED BY <1>1, <3>1, <3>2, <3>3
  <2> QED BY <2>1, <2>2
<1>3. h = [m \in 0..(n + 1) |-> h[m]]
  OBVIOUS
<1> HIDE DEF h
<1>4. CopiesUpTo(h, n + 1, attrs, paths)
  BY <1>2, <1>3 DEF CopiesUpTo
<1> QED BY <1>4

LEMMA CopiesExist ==
  ASSUME NEW attrs, NEW paths
  PROVE  \A n \in Nat : \E g : CopiesUpTo(g, n, attrs, paths)
<1> DEFINE S == {n \in Nat : \E g : CopiesUpTo(g, n, attrs, paths)}
<1>1. 0 \in S
  <2>1. CopiesUpTo([m \in 0..0 |-> attrs], 0, attrs, paths)
    BY DEF CopiesUpTo
  <2> QED BY <2>1
<1>2. ASSUME NEW n \in Nat, n \in S PROVE n + 1 \in S
  BY <1>2, CopiesGoOn
<1> HIDE DEF S
<1>3. \A n \in Nat : n \in S
  BY <1>1, <1>2, Induction
<1> QED BY <1>3 DEF S

\* What the recursive definition stands for.
LEMMA Copies ==
  ASSUME NEW attrs, NEW paths, IsSequence(paths)
  PROVE  CopiesUpTo(RedactedBy(attrs, paths), Len(paths), attrs, paths)
<1>1. \E g : CopiesUpTo(g, Len(paths), attrs, paths)
  BY CopiesExist DEF IsSequence
<1>2. RedactedBy(attrs, paths) = CHOOSE g : CopiesUpTo(g, Len(paths), attrs, paths)
  BY DEF RedactedBy, CopiesUpTo
<1> QED BY <1>1, <1>2

LEMMA CopiesStep ==
  ASSUME NEW attrs, NEW paths, IsSequence(paths)
  PROVE  /\ RedactedBy(attrs, paths)[0] = attrs
         /\ \A n \in 1..Len(paths) :
              RedactedBy(attrs, paths)[n] =
                SetAtPath(RedactedBy(attrs, paths)[n - 1], PathSteps(paths[n]))
<1> DEFINE g == RedactedBy(attrs, paths)
<1>1. CopiesUpTo(g, Len(paths), attrs, paths)
  BY Copies
<1> HIDE DEF g
<1>2. \A n \in 0..Len(paths) :
        g[n] = IF n = 0 THEN attrs ELSE SetAtPath(g[n - 1], PathSteps(paths[n]))
  BY <1>1 DEF CopiesUpTo
<1>3. g[0] = attrs
  BY <1>2 DEF IsSequence
<1>4. ASSUME NEW n \in 1..Len(paths) PROVE g[n] = SetAtPath(g[n - 1], PathSteps(paths[n]))
  <2>1. n \in 0..Len(paths) /\ n # 0
    BY DEF IsSequence
  <2> QED BY <1>2, <2>1
<1> QED BY <1>3, <1>4 DEF g

-----------------------------------------------------------------------------
(* Redaction by sensitive_attributes *)

\* The entry names the leaf p, or something that holds it.
Hits(raw, p) == PathSteps(raw) # <<>> /\ IsPrefix(PathSteps(raw), p)

\* Attributes and entries as instances have them.
IsAttrs(attrs) == IsDocument(attrs) /\ <<>> \notin DOMAIN attrs
IsEntry(raw) == IsSequence(raw.steps)
IsEntries(paths) == IsSequence(paths) /\ \A i \in 1..Len(paths) : IsEntry(paths[i])

LEMMA StepsOf ==
  ASSUME NEW raw, IsEntry(raw)
  PROVE  IsSequence(PathSteps(raw))
<1>1. CASE raw.legacy # ""
  <2>1. <<raw.legacy>> = [i \in 1..1 |-> <<raw.legacy>>[i]] /\ Len(<<raw.legacy>>) = 1
    OBVIOUS
  <2> QED BY <1>1, <2>1 DEF IsSequence, PathSteps
<1>2. CASE raw.legacy = ""
  <2> DEFINE s == [i \in 1..Len(raw.steps) |-> NormalizeStep(raw.steps[i])]
  <2>1. DOMAIN raw.steps = 1..Len(raw.steps) /\ Len(raw.steps) \in Nat
    BY DEF IsEntry, IsSequence
  <2>2. PathSteps(raw) = s
    BY <1>2, <2>1 DEF PathSteps
  <2>3. Len(s) = Len(raw.steps)
    BY <2>1
  <2> QED BY <2>1, <2>2, <2>3 DEF IsSequence
<1> QED BY <1>1, <1>2

LEMMA PathStepsOf ==
  ASSUME NEW raw, IsEntry(raw), raw.legacy = ""
  PROVE  /\ Len(PathSteps(raw)) = Len(raw.steps)
         /\ \A i \in 1..Len(raw.steps) : PathSteps(raw)[i] = NormalizeStep(raw.steps[i])
<1> DEFINE s == [i \in 1..Len(raw.steps) |-> NormalizeStep(raw.steps[i])]
<1>1. DOMAIN raw.steps = 1..Len(raw.steps) /\ Len(raw.steps) \in Nat
  BY DEF IsEntry, IsSequence
<1>2. PathSteps(raw) = s
  BY <1>1 DEF PathSteps
<1>3. Len(s) = Len(raw.steps)
  <2>1. s = [i \in 1..Len(raw.steps) |-> s[i]]
    OBVIOUS
  <2> HIDE DEF s
  <2> QED BY <1>1, <2>1, LenOf
<1>4. \A i \in 1..Len(raw.steps) : s[i] = NormalizeStep(raw.steps[i])
  OBVIOUS
<1> QED BY <1>1, <1>2, <1>3, <1>4

\* For the keys of documents the entries that hit a leaf are those that cover it.
LEMMA HitsCovers ==
  ASSUME NEW raw, IsEntry(raw), NEW p, IsSequence(p), \A i \in 1..Len(p) : p[i] # Unmatched
  PROVE  Hits(raw, p) <=> Covers(raw, p)
<1>1. CASE raw.legacy # ""
  <2>1. PathSteps(raw) = <<raw.legacy>>
    BY <1>1 DEF PathSteps
  <2>2. Hits(raw, p) <=> 1 <= Len(p) /\ raw.legacy = p[1]
    <3>1. IsSequence(<<raw.legacy>>)
      BY <2>1, StepsOf
    <3>2. IsPrefix(<<raw.legacy>>, p) <=>
            Len(<<raw.legacy>>) <= Len(p) /\ \A i \in 1..Len(<<raw.legacy>>) : <<raw.legacy>>[i] = p[i]
      BY <3>1, PrefixSteps
    <3>3. Len(<<raw.legacy>>) = 1 /\ <<raw.legacy>>[1] = raw.legacy /\ <<raw.legacy>> # <<>>
      OBVIOUS
    <3> QED BY <2>1, <3>2, <3>3 DEF Hits
  <2>3. 1 <= Len(p) <=> p # <<>>
    BY DEF IsSequence
  <2> QED BY <1>1, <2>2, <2>3 DEF Covers
<1>2. CASE raw.legacy = ""
  <2> DEFINE steps == raw.steps
  <2>1. Len(steps) \in Nat /\ DOMAIN steps = 1..Len(steps) /\ (steps = <<>> <=> Len(steps) = 0)
    BY DEF IsEntry, IsSequence
  <2>2. Hits(raw, p) <=> PathSteps(raw) # <<>> /\ Len(steps) <= Len(p)
                         /\ \A i \in 1..Len(steps) : NormalizeStep(steps[i]) = p[i]
    <3> DEFINE ps == PathSteps(raw)
    <3>1. IsSequence(ps)
      BY StepsOf
    <3>2. Len(ps) = Len(steps) /\ \A i \in 1..Len(steps) : ps[i] = NormalizeStep(steps[i])
      BY <1>2, PathStepsOf
    <3>3. Hits(raw, p) <=> ps # <<>> /\ IsPrefix(ps, p)
      BY DEF Hits
    <3> HIDE DEF ps
    <3>4. IsPrefix(ps, p) <=> Len(ps) <= Len(p) /\ \A i \in 1..Len(ps) : ps[i] = p[i]
      BY <3>1, PrefixSteps
    <3>5. IsPrefix(ps, p) <=>
            Len(steps) <= Len(p) /\ \A i \in 1..Len(steps) : NormalizeStep(steps[i]) = p[i]
      BY <3>2, <3>4
    <3> HIDE DEF steps
    <3> QED BY <3>3, <3>5 DEF ps
  <2>3. PathSteps(raw) = <<>> <=> Len(steps) = 0
    <3> DEFINE ps == PathSteps(raw)
    <3>1. IsSequence(ps) /\ Len(ps) = Len(steps)
      BY <1>2, StepsOf, PathStepsOf
    <3> HIDE DEF ps, steps
    <3> QED BY <3>1 DEF IsSequence, ps
  <2>4. Covers(raw, p) <=> steps # <<>> /\ Len(steps) <= Len(p)
                           /\ \A i \in 1..Len(steps) : steps[i].type # "other" /\ steps[i].value = p[i]
    BY <1>2, <2>1 DEF Covers
  <2>5. ASSUME Len(steps) <= Len(p), NEW i \in 1..Len(steps)
        PROVE  NormalizeStep(steps[i]) = p[i] <=> steps[i].type # "other" /\ steps[i].value = p[i]
    <3>1. i \in 1..Len(p)
      BY <2>1, <2>5 DEF IsSequence
    <3> QED BY <3>1 DEF NormalizeStep
  <2> HIDE DEF steps
  <2> QED BY <2>1, <2>2, <2>3, <2>4, <2>5
<1> QED BY <1>1, <1>2

\* The leaves after one entry: those it does not hit, and its own in place of the others.
LEMMA LeavesAfter ==
  ASSUME NEW d, NEW steps, IsSequence(steps), steps # <<>>
  PROVE  /\ \A q : q \in DOMAIN SetAtPath(d, steps) <=>
                     \/ q \in DOMAIN d /\ ~IsPrefix(steps, q)
                     \/ q = steps /\ \E p \in DOMAIN d : IsPrefix(steps, p)
         /\ \A q \in DOMAIN SetAtPath(d, steps) :
              SetAtPath(d, steps)[q] = IF q = steps THEN Sensitive ELSE d[q]
<1> DEFINE below == {p \in DOMAIN d : IsPrefix(steps, p)}
           new == [p \in (DOMAIN d \ below) \cup {steps} |-> IF p = steps THEN Sensitive ELSE d[p]]
<1>1. CASE below = {}
  <2>1. SetAtPath(d, steps) = d
    BY <1>1 DEF SetAtPath
  <2>2. IsPrefix(steps, steps)
    BY PrefixSteps DEF IsSequence
  <2>3. steps \notin DOMAIN d
    BY <1>1, <2>2
  <2> QED BY <1>1, <2>1, <2>3
<1>2. CASE below # {}
  <2>1. SetAtPath(d, steps) = new
    BY <1>2 DEF SetAtPath
  <2>2. DOMAIN new = (DOMAIN d \ below) \cup {steps}
    OBVIOUS
  <2>3. \A q \in DOMAIN new : new[q] = IF q = steps THEN Sensitive ELSE d[q]
    OBVIOUS
  <2> HIDE DEF new
  <2> QED BY <1>2, <2>1, <2>2, <2>3
<1> QED BY <1>1, <1>2

LEMMA NoSteps == \A d : SetAtPath(d, <<>>) = d
  BY DEF SetAtPath

\* After the entries up to n: a leaf is redacted, or it is one of the attributes that
\* no entry hits; an attribute that no entry hits is left alone; no key goes, and no
\* leaf is but where attributes are, or above them.
CopyInv(d, attrs, paths, n) ==
  /\ \A q \in DOMAIN d : IsSequence(q) /\ q # <<>> /\ \E p \in DOMAIN attrs : IsPrefix(q, p)
  /\ \A q \in DOMAIN d :
       d[q] = Sensitive \/
         (q \in DOMAIN attrs /\ d[q] = attrs[q] /\ \A m \in 1..n : ~Hits(paths[m], q))
  /\ \A p \in DOMAIN attrs :
       (\A m \in 1..n : ~Hits(paths[m], p)) => p \in DOMAIN d /\ d[p] = attrs[p]
  /\ TopKeys(d) = TopKeys(attrs)

LEMMA FirstKey ==
  ASSUME NEW s, NEW t, IsSequence(s), IsSequence(t), s # <<>>, IsPrefix(s, t)
  PROVE  s[1] = t[1]
<1>1. 1 \in 1..Len(s)
  BY DEF IsSequence
<1> QED BY <1>1, PrefixSteps

LEMMA PrefixSelf == \A s : IsSequence(s) => IsPrefix(s, s)
  BY PrefixSteps DEF IsSequence

LEMMA PrefixTrans ==
  ASSUME NEW r, NEW s, NEW t, IsSequence(r), IsSequence(s), IsSequence(t),
         IsPrefix(r, s), IsPrefix(s, t)
  PROVE  IsPrefix(r, t)
<1>1. Len(r) <= Len(s) /\ \A i \in 1..Len(r) : r[i] = s[i]
  BY PrefixSteps
<1>2. Len(s) <= Len(t) /\ \A i \in 1..Len(s) : s[i] = t[i]
  BY PrefixSteps
<1>3. Len(r) \in Nat /\ Len(s) \in Nat /\ Len(t) \in Nat
  BY DEF IsSequence
<1>4. Len(r) <= Len(t) /\ \A i \in 1..Len(r) : i \in 1..Len(s)
  BY <1>1, <1>2, <1>3
<1>5. \A i \in 1..Len(r) : r[i] = t[i]
  BY <1>1, <1>2, <1>4
<1> QED BY <1>4, <1>5, PrefixSteps

LEMMA CopyInvStep ==
  ASSUME NEW d, NEW attrs, IsAttrs(attrs), NEW paths, NEW n \in Nat, CopyInv(d, attrs, paths, n),
         IsEntry(paths[n + 1])
  PROVE  CopyInv(SetAtPath(d, PathSteps(paths[n + 1])), attrs, paths, n + 1)
<1> DEFINE steps == PathSteps(paths[n + 1])
           e == SetAtPath(d, steps)
<1>1. IsSequence(steps)
  BY StepsOf
<1>2. \A q : Hits(paths[n + 1], q) <=> steps # <<>> /\ IsPrefix(steps, q)
  BY DEF Hits
<1>3. \A m \in 1..(n + 1) : m \in 1..n \/ m = n + 1
  OBVIOUS
<1>4. CASE steps = <<>>
  <2>1. e = d
    BY <1>4, NoSteps
  <2> HIDE DEF steps, e
  <2> QED BY <1>2, <1>3, <1>4, <2>1 DEF CopyInv, steps, e
<1>5. CASE steps # <<>>
  <2> HIDE DEF steps
  <2>1. \A q : q \in DOMAIN e <=> \/ q \in DOMAIN d /\ ~IsPrefix(steps, q)
                                  \/ q = steps /\ \E p \in DOMAIN d : IsPrefix(steps, p)
    BY <1>1, <1>5, LeavesAfter
  <2>2. \A q \in DOMAIN e : e[q] = IF q = steps THEN Sensitive ELSE d[q]
    BY <1>1, <1>5, LeavesAfter
  <2> HIDE DEF e
  <2>3. ASSUME NEW q \in DOMAIN e
        PROVE  IsSequence(q) /\ q # <<>> /\ \E p \in DOMAIN attrs : IsPrefix(q, p)
    <3>1. CASE q \in DOMAIN d
      BY <3>1 DEF CopyInv
    <3>2. CASE q \notin DOMAIN d
      <4>1. q = steps
        BY <2>1, <3>2
      <4>2. PICK r \in DOMAIN d : IsPrefix(q, r)
        BY <2>1, <3>2
      <4>3. PICK p \in DOMAIN attrs : IsPrefix(r, p)
        BY DEF CopyInv
      <4>4. IsSequence(r) /\ IsSequence(p)
        BY DEF CopyInv, IsAttrs, IsDocument
      <4> QED BY <1>1, <1>5, <4>1, <4>2, <4>3, <4>4, PrefixTrans
    <3> QED BY <3>1, <3>2
  <2>4. ASSUME NEW q \in DOMAIN e, e[q] # Sensitive
        PROVE  q \in DOMAIN attrs /\ e[q] = attrs[q] /\ \A m \in 1..(n + 1) : ~Hits(paths[m], q)
    <3>1. q # steps /\ e[q] = d[q] /\ q \in DOMAIN d /\ ~IsPrefix(steps, q)
      BY <2>1, <2>2, <2>4
    <3>2. ~Hits(paths[n + 1], q)
      BY <1>2, <3>1
    <3> QED BY <1>3, <2>4, <3>1, <3>2 DEF CopyInv
  <2>5. ASSUME NEW p \in DOMAIN attrs, \A m \in 1..(n + 1) : ~Hits(paths[m], p)
        PROVE  p \in DOMAIN e /\ e[p] = attrs[p]
    <3>1. p \in DOMAIN d /\ d[p] = attrs[p]
      BY <2>5 DEF CopyInv
    <3>2. ~IsPrefix(steps, p)
      BY <1>2, <1>5, <2>5
    <3>3. IsPrefix(steps, steps)
      BY <1>1, PrefixSelf
    <3> QED BY <2>1, <2>2, <3>1, <3>2, <3>3
  <2>6. TopKeys(e) = TopKeys(d)
    <3>1. ASSUME NEW q \in DOMAIN e PROVE q[1] \in TopKeys(d)
      <4>1. CASE q \in DOMAIN d
        BY <4>1 DEF TopKeys
      <4>2. CASE q \notin DOMAIN d
        <5>1. PICK p \in DOMAIN d : IsPrefix(steps, p)
          BY <2>1, <4>2
        <5>2. q[1] = p[1]
          BY <1>1, <1>5, <2>1, <4>2, <5>1, FirstKey DEF CopyInv
        <5> QED BY <5>2 DEF TopKeys
      <4> QED BY <4>1, <4>2
    <3>2. ASSUME NEW q \in DOMAIN d PROVE q[1] \in TopKeys(e)
      <4>1. CASE ~IsPrefix(steps, q)
        BY <2>1, <4>1 DEF TopKeys
      <4>2. CASE IsPrefix(steps, q)
        <5>1. steps \in DOMAIN e /\ steps[1] = q[1]
          BY <1>1, <1>5, <2>1, <4>2, FirstKey DEF CopyInv
        <5> QED BY <5>1 DEF TopKeys
      <4> QED BY <4>1, <4>2
    <3> QED BY <3>1, <3>2 DEF TopKeys
  <2> QED BY <2>3, <2>4, <2>5, <2>6 DEF CopyInv, e, steps
<1> QED BY <1>4, <1>5

LEMMA CopyInvAll ==
  ASSUME NEW attrs, NEW paths, IsAttrs(attrs), IsEntries(paths)
  PROVE  CopyInv(RedactSensitiveAttrs(attrs, paths), attrs, paths, Len(paths))
<1> DEFINE g == RedactedBy(attrs, paths)
           S == {n \in 0..Len(paths) : CopyInv(g[n], attrs, paths, n)}
<1>1. Len(paths) \in Nat
  BY DEF IsEntries, IsSequence
<1>2. g[0] = attrs /\ \A n \in 1..Len(paths) : g[n] = SetAtPath(g[n - 1], PathSteps(paths[n]))
  BY CopiesStep DEF IsEntries
<1> HIDE DEF g
<1>3. 0 \in S
  <2>1. \A q \in DOMAIN attrs : IsSequence(q) /\ q # <<>> /\ IsPrefix(q, q)
    BY PrefixSelf DEF IsAttrs, IsDocument
  <2>2. CopyInv(attrs, attrs, paths, 0)
    BY <2>1 DEF CopyInv
  <2> QED BY <1>1, <1>2, <2>2
<1>4. ASSUME NEW n \in Nat, n < Len(paths), n \in S PROVE n + 1 \in S
  <2>1. n + 1 \in 1..Len(paths) /\ n + 1 - 1 = n /\ n + 1 \in 0..Len(paths)
    BY <1>1, <1>4
  <2>2. IsEntry(paths[n + 1])
    BY <2>1 DEF IsEntries
  <2>3. CopyInv(SetAtPath(g[n], PathSteps(paths[n + 1])), attrs, paths, n + 1)
    BY <1>4, <2>2, CopyInvStep
  <2>4. g[n + 1] = SetAtPath(g[n], PathSteps(paths[n + 1]))
    BY <1>2, <2>1
  <2> QED BY <2>1, <2>3, <2>4
<1>5. Len(paths) \in S
  <2> HIDE DEF S
  <2> QED BY <1>1, <1>3, <1>4, InductionUpTo
<1> QED BY <1>5 DEF g, RedactSensitiveAttrs

-----------------------------------------------------------------------------
(* The copy, in one formula: where the entries cut the paths of the attributes *)

\* One of the entries up to n ends at q.
EntryAt(q, paths, n) == q # <<>> /\ \E m \in 1..n : PathSteps(paths[m]) = q

\* What is left of p is q: p itself or where an entry ends, none further up.
IsLeft(q, p, paths, n) ==
  /\ IsPrefix(q, p) /\ (q = p \/ EntryAt(q, paths, n))
  /\ \A m \in 1..n : Hits(paths[m], p) => Len(q) <= Len(PathSteps(paths[m]))

CopyForm(d, attrs, paths, n) ==
  /\ \A q : q \in DOMAIN d <=> \E p \in DOMAIN attrs : IsLeft(q, p, paths, n)
  /\ \A q \in DOMAIN d : d[q] = IF EntryAt(q, paths, n) THEN Sensitive ELSE attrs[q]

\* Of two beginnings of a sequence the shorter begins the longer.
LEMMA Comparable ==
  ASSUME NEW r, NEW s, NEW t, IsSequence(r), IsSequence(s), IsSequence(t),
         IsPrefix(r, t), IsPrefix(s, t), Len(r) <= Len(s)
  PROVE  IsPrefix(r, s)
<1>1. Len(r) \in Nat /\ Len(s) \in Nat
  BY DEF IsSequence
<1>2. \A i \in 1..Len(r) : r[i] = t[i] /\ i \in 1..Len(s)
  BY <1>1, PrefixSteps
<1>3. \A i \in 1..Len(s) : s[i] = t[i]
  BY PrefixSteps
<1> QED BY <1>2, <1>3, PrefixSteps

LEMMA SameLength ==
  ASSUME NEW r, NEW s, IsSequence(r), IsSequence(s), IsPrefix(r, s), Len(r) = Len(s)
  PROVE  r = s
<1>1. \A i \in 1..Len(r) : r[i] = s[i]
  BY PrefixSteps
<1>2. r = [i \in 1..Len(r) |-> r[i]] /\ s = [i \in 1..Len(r) |-> s[i]]
  BY DEF IsSequence
<1>3. [i \in 1..Len(r) |-> r[i]] = [i \in 1..Len(r) |-> s[i]]
  BY <1>1
<1> QED BY <1>2, <1>3

LEMMA EntryIsSequence ==
  ASSUME NEW paths, NEW n, \A m \in 1..n : IsEntry(paths[m]), NEW q, EntryAt(q, paths, n)
  PROVE  IsSequence(q) /\ Len(q) \in Nat
  BY StepsOf DEF EntryAt, IsSequence

LEMMA LeftIsSequence ==
  ASSUME NEW paths, NEW n, \A m \in 1..n : IsEntry(paths[m]), NEW p, IsSequence(p),
         NEW q, IsLeft(q, p, paths, n)
  PROVE  IsSequence(q) /\ Len(q) \in Nat
  BY EntryIsSequence DEF IsLeft, IsSequence

\* Of each path something is left.
LEMMA SomethingLeft ==
  ASSUME NEW paths, NEW n \in Nat, \A m \in 1..n : IsEntry(paths[m]), NEW p, IsSequence(p)
  PROVE  \E q : IsLeft(q, p, paths, n)
<1> DEFINE hitting == {m \in 1..n : Hits(paths[m], p)}
           depths == {Len(PathSteps(paths[m])) : m \in hitting}
<1>1. CASE hitting = {}
  <2>1. IsPrefix(p, p)
    BY PrefixSelf
  <2>2. IsLeft(p, p, paths, n)
    BY <1>1, <2>1 DEF IsLeft
  <2> QED BY <2>2
<1>2. CASE hitting # {}
  <2>1. depths \subseteq Nat /\ depths # {}
    BY <1>2, StepsOf DEF IsSequence
  <2>2. PICK l \in depths : \A k \in depths : l <= k
    <3> HIDE DEF depths
    <3> QED BY <2>1, LeastNat
  <2>3. PICK m \in hitting : l = Len(PathSteps(paths[m]))
    BY <2>2
  <2>4. IsLeft(PathSteps(paths[m]), p, paths, n)
    BY <2>2, <2>3 DEF IsLeft, EntryAt, Hits
  <2> QED BY <2>4
<1> QED BY <1>1, <1>2

LEMMA CopyFormStep ==
  ASSUME NEW d, NEW attrs, IsAttrs(attrs), NEW paths, NEW n \in Nat, CopyForm(d, attrs, paths, n),
         \A m \in 1..(n + 1) : IsEntry(paths[m])
  PROVE  CopyForm(SetAtPath(d, PathSteps(paths[n + 1])), attrs, paths, n + 1)
<1> DEFINE steps == PathSteps(paths[n + 1])
           e == SetAtPath(d, steps)
<1>1. IsSequence(steps) /\ Len(steps) \in Nat
  BY StepsOf DEF IsSequence
<1>2. \A q : Hits(paths[n + 1], q) <=> steps # <<>> /\ IsPrefix(steps, q)
  BY DEF Hits
<1>3. \A m : m \in 1..(n + 1) <=> m \in 1..n \/ m = n + 1
  OBVIOUS
<1>4. \A m \in 1..n : IsEntry(paths[m])
  BY <1>3
<1>5. \A q : EntryAt(q, paths, n + 1) <=> EntryAt(q, paths, n) \/ (q # <<>> /\ q = steps)
  BY <1>3 DEF EntryAt
<1>6. \A p \in DOMAIN attrs : IsSequence(p)
  BY DEF IsAttrs, IsDocument
<1> HIDE DEF steps
<1>7. CASE steps = <<>>
  <2>1. e = d
    BY <1>7, NoSteps
  <2>2. \A q : EntryAt(q, paths, n + 1) <=> EntryAt(q, paths, n)
    BY <1>5, <1>7
  <2>3. \A q, p : IsLeft(q, p, paths, n + 1) <=> IsLeft(q, p, paths, n)
    BY <1>2, <1>3, <1>7, <2>2 DEF IsLeft
  <2> HIDE DEF e
  <2> QED BY <2>1, <2>2, <2>3 DEF CopyForm, e, steps
<1>8. CASE steps # <<>>
  <2>1. \A q : q \in DOMAIN e <=> \/ q \in DOMAIN d /\ ~IsPrefix(steps, q)
                                  \/ q = steps /\ \E p \in DOMAIN d : IsPrefix(steps, p)
    BY <1>1, <1>8, LeavesAfter
  <2>2. \A q \in DOMAIN e : e[q] = IF q = steps THEN Sensitive ELSE d[q]
    BY <1>1, <1>8, LeavesAfter
  <2> HIDE DEF e
  <2>3. ASSUME NEW q \in DOMAIN d, ~IsPrefix(steps, q)
        PROVE  \E p \in DOMAIN attrs : IsLeft(q, p, paths, n + 1)
    <3>1. PICK p \in DOMAIN attrs : IsLeft(q, p, paths, n)
      BY DEF CopyForm
    <3>2. IsSequence(p) /\ IsSequence(q) /\ Len(q) \in Nat
      BY <1>4, <1>6, <3>1, LeftIsSequence
    <3>3. IsPrefix(q, p) /\ (q = p \/ EntryAt(q, paths, n + 1))
      BY <1>5, <3>1 DEF IsLeft
    <3>4. Hits(paths[n + 1], p) => Len(q) <= Len(steps)
      <4> SUFFICES ASSUME IsPrefix(steps, p), ~(Len(q) <= Len(steps)) PROVE FALSE
        BY <1>2
      <4>1. Len(steps) <= Len(q)
        BY <1>1, <3>2
      <4> QED BY <1>1, <2>3, <3>2, <3>3, <4>1, Comparable
    <3>5. \A m \in 1..n : Hits(paths[m], p) => Len(q) <= Len(PathSteps(paths[m]))
      BY <3>1 DEF IsLeft
    <3>6. \A m \in 1..(n + 1) : Hits(paths[m], p) => Len(q) <= Len(PathSteps(paths[m]))
      BY <1>3, <3>4, <3>5 DEF steps
    <3> QED BY <3>3, <3>6 DEF IsLeft
  <2>4. ASSUME NEW r \in DOMAIN d, IsPrefix(steps, r)
        PROVE  \E p \in DOMAIN attrs : IsLeft(steps, p, paths, n + 1)
    <3>1. PICK p \in DOMAIN attrs : IsLeft(r, p, paths, n)
      BY DEF CopyForm
    <3>2. IsSequence(p) /\ IsSequence(r) /\ Len(r) \in Nat /\ IsPrefix(r, p)
      BY <1>4, <1>6, <3>1, LeftIsSequence DEF IsLeft
    <3>3. IsPrefix(steps, p) /\ Len(steps) <= Len(r)
      BY <1>1, <2>4, <3>2, PrefixTrans, PrefixSteps
    <3>4. ASSUME NEW m \in 1..n, Hits(paths[m], p) PROVE Len(steps) <= Len(PathSteps(paths[m]))
      <4>1. Len(r) <= Len(PathSteps(paths[m]))
        BY <3>1, <3>4 DEF IsLeft
      <4>2. Len(PathSteps(paths[m])) \in Nat
        BY <1>4, StepsOf DEF IsSequence
      <4> QED BY <1>1, <3>2, <3>3, <4>1, <4>2
    <3>5. \A m \in 1..(n + 1) : Hits(paths[m], p) => Len(steps) <= Len(PathSteps(paths[m]))
      BY <1>1, <1>3, <3>4 DEF steps
    <3>6. EntryAt(steps, paths, n + 1)
      BY <1>5, <1>8
    <3> QED BY <3>3, <3>5, <3>6 DEF IsLeft
  <2>5. ASSUME NEW q, NEW p \in DOMAIN attrs, IsLeft(q, p, paths, n + 1)
        PROVE  q \in DOMAIN e
    <3>1. IsSequence(p) /\ IsSequence(q) /\ Len(q) \in Nat /\ IsPrefix(q, p)
      BY <1>6, <2>5, LeftIsSequence DEF IsLeft
    <3>2. CASE q = steps
      <4>1. PICK r : IsLeft(r, p, paths, n)
        BY <1>4, <3>1, SomethingLeft
      <4>2. r \in DOMAIN d /\ IsSequence(r) /\ IsPrefix(r, p)
        BY <1>4, <3>1, <4>1, LeftIsSequence DEF CopyForm, IsLeft
      <4>3. CASE r = p
        BY <2>1, <3>1, <3>2, <4>2, <4>3
      <4>4. CASE EntryAt(r, paths, n)
        <5>1. PICK m \in 1..n : PathSteps(paths[m]) = r /\ r # <<>>
          BY <4>4 DEF EntryAt
        <5>2. m \in 1..(n + 1) /\ Hits(paths[m], p)
          BY <1>3, <4>2, <5>1 DEF Hits
        <5>3. Len(q) <= Len(r)
          BY <2>5, <5>1, <5>2 DEF IsLeft
        <5>4. IsPrefix(q, r)
          BY <3>1, <4>2, <5>3, Comparable
        <5> QED BY <2>1, <3>2, <4>2, <5>4
      <4> QED BY <4>1, <4>3, <4>4 DEF IsLeft
    <3>3. CASE q # steps
      <4>1. IsLeft(q, p, paths, n)
        BY <1>3, <1>5, <2>5, <3>3 DEF IsLeft
      <4>2. q \in DOMAIN d
        BY <4>1 DEF CopyForm
      <4>3. ASSUME IsPrefix(steps, q) PROVE FALSE
        <5>1. IsPrefix(steps, p)
          BY <1>1, <3>1, <4>3, PrefixTrans
        <5>2. Hits(paths[n + 1], p)
          BY <1>2, <1>8, <5>1
        <5>3. n + 1 \in 1..(n + 1)
          OBVIOUS
        <5>4. Len(q) <= Len(steps)
          BY <2>5, <5>2, <5>3 DEF IsLeft, steps
        <5>5. Len(steps) <= Len(q)
          BY <1>1, <3>1, <4>3, PrefixSteps
        <5>6. Len(steps) = Len(q)
          BY <1>1, <3>1, <5>4, <5>5
        <5> QED BY <1>1, <3>1, <3>3, <4>3, <5>6, SameLength
      <4> QED BY <2>1, <4>2, <4>3
    <3> QED BY <3>2, <3>3
  <2>6. \A q : q \in DOMAIN e <=> \E p \in DOMAIN attrs : IsLeft(q, p, paths, n + 1)
    BY <2>1, <2>3, <2>4, <2>5
  <2>7. ASSUME NEW q \in DOMAIN e
        PROVE  e[q] = IF EntryAt(q, paths, n + 1) THEN Sensitive ELSE attrs[q]
    <3>1. CASE q = steps
      BY <1>5, <1>8, <2>2, <3>1
    <3>2. CASE q # steps
      <4>1. q \in DOMAIN d /\ e[q] = d[q]
        BY <2>1, <2>2, <3>2
      <4>2. d[q] = IF EntryAt(q, paths, n) THEN Sensitive ELSE attrs[q]
        BY <4>1 DEF CopyForm
      <4> QED BY <1>5, <3>2, <4>1, <4>2
    <3> QED BY <3>1, <3>2
  <2> QED BY <2>6, <2>7 DEF CopyForm, e, steps
<1> QED BY <1>7, <1>8

\* The order of sensitive_attributes does not matter: of several entries at or above an
\* attribute the one with the fewest steps decides, and its label takes the place of
\* all that is there (redact.go:21-36, 78-107).
THEOREM RedactionForm ==
  ASSUME NEW attrs, NEW paths, IsAttrs(attrs), IsEntries(paths)
  PROVE  CopyForm(RedactSensitiveAttrs(attrs, paths), attrs, paths, Len(paths))
<1> DEFINE g == RedactedBy(attrs, paths)
           S == {n \in 0..Len(paths) : CopyForm(g[n], attrs, paths, n)}
<1>1. Len(paths) \in Nat
  BY DEF IsEntries, IsSequence
<1>2. g[0] = attrs /\ \A n \in 1..Len(paths) : g[n] = SetAtPath(g[n - 1], PathSteps(paths[n]))
  BY CopiesStep DEF IsEntries
<1> HIDE DEF g
<1>3. 0 \in S
  <2>1. \A q : ~EntryAt(q, paths, 0)
    BY DEF EntryAt
  <2>2. \A q \in DOMAIN attrs : IsLeft(q, q, paths, 0)
    BY PrefixSelf DEF IsLeft, IsAttrs, IsDocument
  <2>3. \A q, p : IsLeft(q, p, paths, 0) => q = p
    BY <2>1 DEF IsLeft
  <2>4. CopyForm(attrs, attrs, paths, 0)
    BY <2>1, <2>2, <2>3 DEF CopyForm
  <2> QED BY <1>1, <1>2, <2>4
<1>4. ASSUME NEW n \in Nat, n < Len(paths), n \in S PROVE n + 1 \in S
  <2>1. n + 1 \in 1..Len(paths) /\ n + 1 - 1 = n /\ n + 1 \in 0..Len(paths)
    BY <1>1, <1>4
  <2>2. \A m \in 1..(n + 1) : IsEntry(paths[m])
    BY <1>1, <1>4 DEF IsEntries
  <2>3. CopyForm(SetAtPath(g[n], PathSteps(paths[n + 1])), attrs, paths, n + 1)
    BY <1>4, <2>2, CopyFormStep
  <2>4. g[n + 1] = SetAtPath(g[n], PathSteps(paths[n + 1]))
    BY <1>2, <2>1
  <2> QED BY <2>1, <2>3, <2>4
<1>5. Len(paths) \in S
  <2> HIDE DEF S
  <2> QED BY <1>1, <1>3, <1>4, InductionUpTo
<1> QED BY <1>5 DEF g, RedactSensitiveAttrs

-----------------------------------------------------------------------------
(* What is below one key depends on no other *)

SameBelow(d, e, k) ==
  \A q : q # <<>> /\ q[1] = k =>
    (q \in DOMAIN d <=> q \in DOMAIN e) /\ (q \in DOMAIN d => d[q] = e[q])

\* All leaves are at sequences below some key.
Keyed(d) == \A q \in DOMAIN d : IsSequence(q) /\ q # <<>>

-----------------------------------------------------------------------------
(* Redaction by the operator's pattern *)

CutOf(p) == SubSeq(p, 1, CutAt(p))

LEMMA WhereCut ==
  ASSUME NEW p, IsSequence(p)
  PROVE  /\ CutAt(p) \in 0..Len(p)
         /\ p # <<>> => CutAt(p) # 0
         /\ IF HasPatternKey(p) THEN CutAt(p) \in 1..Len(p) /\ p[CutAt(p)] \in Pattern
                                ELSE CutAt(p) = Len(p)
<1> DEFINE hits == {i \in DOMAIN p : p[i] \in Pattern}
<1>1. DOMAIN p = 1..Len(p) /\ Len(p) \in Nat /\ (p # <<>> => Len(p) # 0)
  BY DEF IsSequence
<1>2. HasPatternKey(p) <=> hits # {}
  BY DEF HasPatternKey
<1>3. CASE hits = {}
  BY <1>1, <1>2, <1>3 DEF CutAt
<1>4. CASE hits # {}
  <2>1. hits \subseteq Nat
    BY <1>1
  <2>2. \E i \in hits : \A j \in hits : i <= j
    <3> HIDE DEF hits
    <3> QED BY <1>4, <2>1, LeastNat
  <2>3. CutAt(p) = CHOOSE i \in hits : \A j \in hits : i <= j
    BY <1>4 DEF CutAt
  <2>4. CutAt(p) \in hits
    <3> HIDE DEF hits
    <3> QED BY <2>2, <2>3
  <2> QED BY <1>1, <1>2, <1>4, <2>4
<1> QED BY <1>3, <1>4

LEMMA CutIs ==
  ASSUME NEW p, IsSequence(p)
  PROVE  /\ CutOf(p) = [i \in 1..CutAt(p) |-> p[i]]
         /\ Len(CutOf(p)) = CutAt(p)
         /\ IsSequence(CutOf(p)) /\ IsPrefix(CutOf(p), p)
         /\ p # <<>> => CutOf(p) # <<>> /\ CutOf(p)[1] = p[1]
         /\ ~HasPatternKey(p) => CutOf(p) = p
         /\ HasPatternKey(p) => CutOf(p) # <<>> /\ Last(CutOf(p)) \in Pattern
<1> DEFINE c == CutAt(p)
           q == CutOf(p)
<1>1. c \in 0..Len(p) /\ c \in Nat /\ Len(p) \in Nat
  BY WhereCut DEF IsSequence
<1>2. q = [i \in 1..c |-> p[i]] /\ Len(q) = c
  BY WhereCut, FirstSteps DEF CutOf
<1>3. /\ p # <<>> => c # 0
      /\ IF HasPatternKey(p) THEN c \in 1..Len(p) /\ p[c] \in Pattern ELSE c = Len(p)
  BY WhereCut
<1> HIDE DEF c, q
<1>4. IsSequence(q) /\ IsPrefix(q, p)
  <2>1. IsSequence(q)
    BY <1>1, <1>2 DEF IsSequence
  <2>2. Len(q) <= Len(p) /\ \A i \in 1..Len(q) : q[i] = p[i]
    BY <1>1, <1>2
  <2> QED BY <2>1, <2>2, PrefixSteps
<1>5. ASSUME c # 0 PROVE q # <<>> /\ q[1] = p[1] /\ Last(q) = p[c]
  <2>1. 1 \in 1..c /\ c \in 1..c
    BY <1>1, <1>5
  <2>2. q[1] = p[1] /\ q[c] = p[c]
    BY <1>2, <2>1
  <2>3. q # <<>>
    BY <1>2, <1>5
  <2> QED BY <1>2, <2>2, <2>3 DEF Last
<1>6. ~HasPatternKey(p) => q = p
  BY <1>2, <1>3 DEF IsSequence
<1> QED BY <1>1, <1>2, <1>3, <1>4, <1>5, <1>6 DEF c, q

LEMMA PatternLeaves ==
  ASSUME NEW d
  PROVE  /\ \A q : q \in DOMAIN ApplyPatternRedaction(d) <=> \E p \in DOMAIN d : q = CutOf(p)
         /\ \A q \in DOMAIN ApplyPatternRedaction(d) :
              ApplyPatternRedaction(d)[q] =
                IF q \in DOMAIN d /\ (d[q] = Sensitive \/ q = <<>> \/ Last(q) \notin Pattern) THEN d[q]
                ELSE PatternMatch
  BY DEF ApplyPatternRedaction, CutOf

\* What the pattern leaves is a label or has no key that matches; it leaves all that
\* has none.
LEMMA PatternKeeps ==
  ASSUME NEW d, \A p \in DOMAIN d : IsSequence(p)
  PROVE  /\ \A q \in DOMAIN ApplyPatternRedaction(d) :
              \/ ApplyPatternRedaction(d)[q] \in Label
              \/ q \in DOMAIN d /\ ApplyPatternRedaction(d)[q] = d[q] /\ ~HasPatternKey(q)
         /\ \A p \in DOMAIN d : ~HasPatternKey(p) =>
              p \in DOMAIN ApplyPatternRedaction(d) /\ ApplyPatternRedaction(d)[p] = d[p]
<1> DEFINE e == ApplyPatternRedaction(d)
<1>1. /\ \A q : q \in DOMAIN e <=> \E p \in DOMAIN d : q = CutOf(p)
      /\ \A q \in DOMAIN e :
           e[q] = IF q \in DOMAIN d /\ (d[q] = Sensitive \/ q = <<>> \/ Last(q) \notin Pattern) THEN d[q]
                  ELSE PatternMatch
  BY PatternLeaves
<1> HIDE DEF e
<1>2. ASSUME NEW q \in DOMAIN e, e[q] \notin Label
      PROVE  q \in DOMAIN d /\ e[q] = d[q] /\ ~HasPatternKey(q)
  <2>1. q \in DOMAIN d /\ e[q] = d[q] /\ d[q] # Sensitive /\ (q = <<>> \/ Last(q) \notin Pattern)
    BY <1>1, <1>2 DEF Label
  <2>2. PICK p \in DOMAIN d : q = CutOf(p)
    BY <1>1
  <2>3. ~HasPatternKey(p)
    BY <2>1, <2>2, CutIs
  <2>4. q = p
    BY <2>2, <2>3, CutIs
  <2> QED BY <2>1, <2>3, <2>4
<1>3. ASSUME NEW p \in DOMAIN d, ~HasPatternKey(p)
      PROVE  p \in DOMAIN e /\ e[p] = d[p]
  <2>1. CutOf(p) = p /\ p \in DOMAIN e
    BY <1>1, <1>3, CutIs
  <2>2. p = <<>> \/ Last(p) \notin Pattern
    <3>1. ASSUME p # <<>> PROVE Last(p) = p[Len(p)] /\ Len(p) \in DOMAIN p
      BY <3>1 DEF IsSequence, Last
    <3> QED BY <1>3, <3>1 DEF HasPatternKey
  <2> QED BY <1>1, <2>1, <2>2
<1> QED BY <1>2, <1>3 DEF e

LEMMA PatternKeys ==
  ASSUME NEW d, Keyed(d)
  PROVE  TopKeys(ApplyPatternRedaction(d)) = TopKeys(d) /\ Keyed(ApplyPatternRedaction(d))
<1> DEFINE e == ApplyPatternRedaction(d)
<1>1. \A q : q \in DOMAIN e <=> \E p \in DOMAIN d : q = CutOf(p)
  BY PatternLeaves
<1>2. \A p \in DOMAIN d : IsSequence(CutOf(p)) /\ CutOf(p) # <<>> /\ CutOf(p)[1] = p[1]
  BY CutIs DEF Keyed
<1> HIDE DEF e
<1>3. ASSUME NEW q \in DOMAIN e PROVE IsSequence(q) /\ q # <<>> /\ q[1] \in TopKeys(d)
  BY <1>1, <1>2 DEF TopKeys
<1>4. ASSUME NEW p \in DOMAIN d PROVE p[1] \in TopKeys(e)
  <2>1. CutOf(p) \in DOMAIN e
    BY <1>1
  <2> QED BY <1>2, <2>1 DEF TopKeys
<1> QED BY <1>3, <1>4 DEF TopKeys, Keyed, e

LEMMA PatternLocal ==
  ASSUME NEW d, NEW e, NEW k, Keyed(d), Keyed(e), SameBelow(d, e, k)
  PROVE  SameBelow(ApplyPatternRedaction(d), ApplyPatternRedaction(e), k)
<1> DEFINE dd == ApplyPatternRedaction(d)
           ee == ApplyPatternRedaction(e)
<1>1. /\ \A q : q \in DOMAIN dd <=> \E p \in DOMAIN d : q = CutOf(p)
      /\ \A q \in DOMAIN dd :
           dd[q] = IF q \in DOMAIN d /\ (d[q] = Sensitive \/ q = <<>> \/ Last(q) \notin Pattern) THEN d[q]
                   ELSE PatternMatch
  BY PatternLeaves
<1>2. /\ \A q : q \in DOMAIN ee <=> \E p \in DOMAIN e : q = CutOf(p)
      /\ \A q \in DOMAIN ee :
           ee[q] = IF q \in DOMAIN e /\ (e[q] = Sensitive \/ q = <<>> \/ Last(q) \notin Pattern) THEN e[q]
                   ELSE PatternMatch
  BY PatternLeaves
<1> HIDE DEF dd, ee
<1>3. ASSUME NEW q, q # <<>>, q[1] = k PROVE q \in DOMAIN dd <=> q \in DOMAIN ee
  <2>1. \A p \in DOMAIN d : q = CutOf(p) => p # <<>> /\ p[1] = k
    BY <1>3, CutIs DEF Keyed
  <2>2. \A p \in DOMAIN e : q = CutOf(p) => p # <<>> /\ p[1] = k
    BY <1>3, CutIs DEF Keyed
  <2> QED BY <1>1, <1>2, <2>1, <2>2 DEF SameBelow
<1>4. ASSUME NEW q, q # <<>>, q[1] = k, q \in DOMAIN dd PROVE dd[q] = ee[q]
  <2>1. q \in DOMAIN ee
    BY <1>3, <1>4
  <2>2. (q \in DOMAIN d <=> q \in DOMAIN e) /\ (q \in DOMAIN d => d[q] = e[q])
    BY <1>4 DEF SameBelow
  <2> QED BY <1>1, <1>2, <1>4, <2>1, <2>2
<1> QED BY <1>3, <1>4 DEF SameBelow, dd, ee

-----------------------------------------------------------------------------
(* The attributes of an extracted instance *)

RedactedOf(inst) == ApplyPatternRedaction(RedactSensitiveAttrs(inst.attributes, inst.sensitive))

LEMMA InstanceParts ==
  ASSUME NEW inst, IsInstance(inst)
  PROVE  IsAttrs(inst.attributes) /\ IsEntries(inst.sensitive)
  BY DEF IsInstance, IsAttrs, IsEntries, IsEntry

LEMMA HitIsCovered ==
  ASSUME NEW inst, IsInstance(inst), NEW p \in DOMAIN inst.attributes
  PROVE  (\E m \in 1..Len(inst.sensitive) : Hits(inst.sensitive[m], p)) <=>
         \E i \in DOMAIN inst.sensitive : Covers(inst.sensitive[i], p)
<1>1. IsSequence(p) /\ \A i \in 1..Len(p) : p[i] # Unmatched
  BY DEF IsInstance, IsDocument
<1>2. DOMAIN inst.sensitive = 1..Len(inst.sensitive)
  BY DEF IsInstance, IsSequence
<1>3. \A m \in 1..Len(inst.sensitive) : Hits(inst.sensitive[m], p) <=> Covers(inst.sensitive[m], p)
  BY <1>1, InstanceParts, HitsCovers DEF IsEntries
<1> QED BY <1>2, <1>3

\* Redaction takes every secret away and nothing else: what is left of an instance is
\* a label or an attribute that is no secret, at its place with its value; every
\* attribute that is no secret is left; no key goes, and nothing appears but at the
\* places of attributes and above them (redact.go:21-141).
THEOREM Redaction ==
  ASSUME NEW inst, IsInstance(inst)
  PROVE  /\ \A q \in DOMAIN RedactedOf(inst) :
              \/ RedactedOf(inst)[q] \in Label
              \/ /\ q \in DOMAIN inst.attributes /\ ~Secret(inst, q)
                 /\ RedactedOf(inst)[q] = inst.attributes[q]
         /\ \A p \in DOMAIN inst.attributes : ~Secret(inst, p) =>
              p \in DOMAIN RedactedOf(inst) /\ RedactedOf(inst)[p] = inst.attributes[p]
         /\ TopKeys(RedactedOf(inst)) = TopKeys(inst.attributes)
         /\ Keyed(RedactedOf(inst))
         /\ \A q \in DOMAIN RedactedOf(inst) : \E p \in DOMAIN inst.attributes : IsPrefix(q, p)
<1> DEFINE attrs == inst.attributes
           paths == inst.sensitive
           d == RedactSensitiveAttrs(attrs, paths)
           e == RedactedOf(inst)
<1>1. CopyInv(d, attrs, paths, Len(paths))
  BY InstanceParts, CopyInvAll
<1>2. \A p \in DOMAIN attrs : Secret(inst, p) <=>
        HasPatternKey(p) \/ \E m \in 1..Len(paths) : Hits(paths[m], p)
  BY HitIsCovered DEF Secret
<1>3. e = ApplyPatternRedaction(d)
  BY DEF RedactedOf
<1>4. Keyed(d) /\ TopKeys(d) = TopKeys(attrs)
  BY <1>1 DEF CopyInv, Keyed
<1>5. \A q \in DOMAIN d : IsSequence(q)
  BY <1>4 DEF Keyed
<1> HIDE DEF d, e, attrs, paths
<1>6. ASSUME NEW q \in DOMAIN e, e[q] \notin Label
      PROVE  q \in DOMAIN attrs /\ ~Secret(inst, q) /\ e[q] = attrs[q]
  <2>1. q \in DOMAIN d /\ e[q] = d[q] /\ ~HasPatternKey(q)
    BY <1>3, <1>5, <1>6, PatternKeeps
  <2>2. d[q] # Sensitive
    BY <1>6, <2>1 DEF Label
  <2>3. q \in DOMAIN attrs /\ d[q] = attrs[q] /\ \A m \in 1..Len(paths) : ~Hits(paths[m], q)
    BY <1>1, <2>1, <2>2 DEF CopyInv
  <2> QED BY <1>2, <2>1, <2>3
<1>7. ASSUME NEW p \in DOMAIN attrs, ~Secret(inst, p)
      PROVE  p \in DOMAIN e /\ e[p] = attrs[p]
  <2>1. ~HasPatternKey(p) /\ \A m \in 1..Len(paths) : ~Hits(paths[m], p)
    BY <1>2, <1>7
  <2>2. p \in DOMAIN d /\ d[p] = attrs[p]
    BY <1>1, <2>1 DEF CopyInv
  <2> QED BY <1>3, <1>5, <2>1, <2>2, PatternKeeps
<1>8. TopKeys(e) = TopKeys(attrs) /\ Keyed(e)
  BY <1>3, <1>4, PatternKeys
<1>9. ASSUME NEW q \in DOMAIN e PROVE \E p \in DOMAIN attrs : IsPrefix(q, p)
  <2>1. PICK r \in DOMAIN d : q = CutOf(r)
    BY <1>3, PatternLeaves
  <2>2. IsSequence(r) /\ IsSequence(q) /\ IsPrefix(q, r)
    BY <1>5, <2>1, CutIs
  <2>3. PICK p \in DOMAIN attrs : IsPrefix(r, p)
    BY <1>1 DEF CopyInv
  <2>4. IsSequence(p)
    BY InstanceParts DEF IsAttrs, IsDocument, attrs
  <2> QED BY <2>2, <2>3, <2>4, PrefixTrans
<1> QED BY <1>6, <1>7, <1>8, <1>9 DEF e, attrs

\* Entries as far up as in the first: whatever covers p there, here is one with as few steps.
AsFarUp(paths, other, p) ==
  \A m \in 1..Len(paths) : Hits(paths[m], p) =>
    \E j \in 1..Len(other) :
      Hits(other[j], p) /\ Len(PathSteps(other[j])) <= Len(PathSteps(paths[m]))

LEMMA DepthIs ==
  ASSUME NEW raw, IsEntry(raw)
  PROVE  Depth(raw) = Len(PathSteps(raw)) /\ Depth(raw) \in Nat
<1>1. IsSequence(PathSteps(raw))
  BY StepsOf
<1>2. CASE raw.legacy # ""
  BY <1>2 DEF Depth, PathSteps
<1>3. CASE raw.legacy = ""
  BY <1>3, PathStepsOf DEF Depth, IsEntry, IsSequence
<1> QED BY <1>2, <1>3

\* A leaf of two instances that none covers further up than the other.
LEMMA NotFurtherUp ==
  ASSUME NEW a, NEW b, IsInstance(a), IsInstance(b), NEW p \in DOMAIN a.attributes,
         ~SensitiveFurtherUp(a, b, p)
  PROVE  AsFarUp(a.sensitive, b.sensitive, p)
<1>1. IsSequence(p) /\ \A i \in 1..Len(p) : p[i] # Unmatched
  BY DEF IsInstance, IsDocument
<1>2. /\ DOMAIN a.sensitive = 1..Len(a.sensitive)
      /\ DOMAIN b.sensitive = 1..Len(b.sensitive)
  BY DEF IsInstance, IsSequence
<1>3. /\ \A m \in 1..Len(a.sensitive) : IsEntry(a.sensitive[m])
      /\ \A j \in 1..Len(b.sensitive) : IsEntry(b.sensitive[j])
  BY InstanceParts DEF IsEntries
<1> SUFFICES ASSUME NEW m \in 1..Len(a.sensitive), Hits(a.sensitive[m], p)
             PROVE  \E j \in 1..Len(b.sensitive) :
                      /\ Hits(b.sensitive[j], p)
                      /\ Len(PathSteps(b.sensitive[j])) <= Len(PathSteps(a.sensitive[m]))
  BY DEF AsFarUp
<1>4. Covers(a.sensitive[m], p)
  BY <1>1, <1>3, HitsCovers
<1>5. PICK j \in 1..Len(b.sensitive) :
        Covers(b.sensitive[j], p) /\ ~(Depth(a.sensitive[m]) < Depth(b.sensitive[j]))
  BY <1>2, <1>4 DEF SensitiveFurtherUp
<1>6. Hits(b.sensitive[j], p)
  BY <1>1, <1>3, <1>5, HitsCovers
<1>7. Depth(b.sensitive[j]) <= Depth(a.sensitive[m])
  BY <1>3, <1>5, DepthIs
<1> QED BY <1>3, <1>6, <1>7, DepthIs

\* Then the same is left of it in both.
LEMMA LeftAlike ==
  ASSUME NEW paths, NEW other, IsEntries(paths), IsEntries(other), NEW p, IsSequence(p),
         AsFarUp(paths, other, p), AsFarUp(other, paths, p),
         NEW q, IsLeft(q, p, paths, Len(paths))
  PROVE  /\ EntryAt(q, paths, Len(paths)) <=> EntryAt(q, other, Len(other))
         /\ IsLeft(q, p, other, Len(other))
<1>1. /\ \A m \in 1..Len(paths) : IsEntry(paths[m])
      /\ \A j \in 1..Len(other) : IsEntry(other[j])
  BY DEF IsEntries
<1>2. IsSequence(q) /\ Len(q) \in Nat /\ IsPrefix(q, p)
  BY <1>1, LeftIsSequence DEF IsLeft
<1>3. /\ \A m \in 1..Len(paths) : IsSequence(PathSteps(paths[m])) /\ Len(PathSteps(paths[m])) \in Nat
      /\ \A j \in 1..Len(other) : IsSequence(PathSteps(other[j])) /\ Len(PathSteps(other[j])) \in Nat
  BY <1>1, StepsOf DEF IsSequence
<1>4. \A m \in 1..Len(paths) : Hits(paths[m], p) => Len(q) <= Len(PathSteps(paths[m]))
  BY DEF IsLeft
<1>5. \A j \in 1..Len(other) : Hits(other[j], p) => Len(q) <= Len(PathSteps(other[j]))
  <2> SUFFICES ASSUME NEW j \in 1..Len(other), Hits(other[j], p)
               PROVE  Len(q) <= Len(PathSteps(other[j]))
    OBVIOUS
  <2>1. PICK m \in 1..Len(paths) :
          Hits(paths[m], p) /\ Len(PathSteps(paths[m])) <= Len(PathSteps(other[j]))
    BY DEF AsFarUp
  <2>2. Len(q) <= Len(PathSteps(paths[m]))
    BY <1>4, <2>1
  <2> QED BY <1>2, <1>3, <2>1, <2>2
<1>6. ASSUME EntryAt(q, paths, Len(paths)) PROVE EntryAt(q, other, Len(other))
  <2>1. PICK m \in 1..Len(paths) : PathSteps(paths[m]) = q /\ q # <<>>
    BY <1>6 DEF EntryAt
  <2>2. Hits(paths[m], p)
    BY <1>2, <2>1 DEF Hits
  <2>3. PICK j \in 1..Len(other) : Hits(other[j], p) /\ Len(PathSteps(other[j])) <= Len(q)
    BY <2>1, <2>2 DEF AsFarUp
  <2>4. PathSteps(other[j]) = q
    <3> DEFINE s == PathSteps(other[j])
    <3>1. IsSequence(s) /\ Len(s) \in Nat /\ IsPrefix(s, p) /\ Len(s) <= Len(q) /\ Len(q) <= Len(s)
      BY <1>3, <1>5, <2>3 DEF Hits
    <3> HIDE DEF s
    <3>2. IsPrefix(s, q) /\ Len(s) = Len(q)
      BY <1>2, <3>1, Comparable
    <3>3. s = q
      BY <1>2, <3>1, <3>2, SameLength
    <3> QED BY <3>3 DEF s
  <2> QED BY <2>1, <2>4 DEF EntryAt
<1>7. ASSUME EntryAt(q, other, Len(other)) PROVE EntryAt(q, paths, Len(paths))
  <2>1. PICK j \in 1..Len(other) : PathSteps(other[j]) = q /\ q # <<>>
    BY <1>7 DEF EntryAt
  <2>2. Hits(other[j], p)
    BY <1>2, <2>1 DEF Hits
  <2>3. PICK m \in 1..Len(paths) : Hits(paths[m], p) /\ Len(PathSteps(paths[m])) <= Len(q)
    BY <2>1, <2>2 DEF AsFarUp
  <2>4. PathSteps(paths[m]) = q
    <3> DEFINE s == PathSteps(paths[m])
    <3>1. IsSequence(s) /\ Len(s) \in Nat /\ IsPrefix(s, p) /\ Len(s) <= Len(q) /\ Len(q) <= Len(s)
      BY <1>3, <1>4, <2>3 DEF Hits
    <3> HIDE DEF s
    <3>2. IsPrefix(s, q) /\ Len(s) = Len(q)
      BY <1>2, <3>1, Comparable
    <3>3. s = q
      BY <1>2, <3>1, <3>2, SameLength
    <3> QED BY <3>3 DEF s
  <2> QED BY <2>1, <2>4 DEF EntryAt
<1>8. q = p \/ EntryAt(q, paths, Len(paths))
  BY DEF IsLeft
<1>9. IsLeft(q, p, other, Len(other))
  BY <1>2, <1>5, <1>6, <1>8 DEF IsLeft
<1> QED BY <1>6, <1>7, <1>9

\* The leaves below a key are as sensitive in the one as in the other.
SameSensitivity(a, b, k) ==
  \A p \in DOMAIN a.attributes : p[1] = k => ~SensitiveFurtherUp(a, b, p) /\ ~SensitiveFurtherUp(b, a, p)

\* What is left below the key in the one is left in the other, with the same value.
LEMMA CopyLocal ==
  ASSUME NEW a, NEW b, IsInstance(a), IsInstance(b), NEW k,
         SameBelow(a.attributes, b.attributes, k), SameSensitivity(a, b, k),
         NEW q \in DOMAIN RedactSensitiveAttrs(a.attributes, a.sensitive), q # <<>>, q[1] = k
  PROVE  /\ q \in DOMAIN RedactSensitiveAttrs(b.attributes, b.sensitive)
         /\ RedactSensitiveAttrs(a.attributes, a.sensitive)[q]
              = RedactSensitiveAttrs(b.attributes, b.sensitive)[q]
<1> DEFINE d == RedactSensitiveAttrs(a.attributes, a.sensitive)
           e == RedactSensitiveAttrs(b.attributes, b.sensitive)
           na == Len(a.sensitive)
           nb == Len(b.sensitive)
<1>1. /\ IsAttrs(a.attributes) /\ IsEntries(a.sensitive)
      /\ IsAttrs(b.attributes) /\ IsEntries(b.sensitive)
  BY InstanceParts
<1>2. CopyForm(d, a.attributes, a.sensitive, na) /\ CopyForm(e, b.attributes, b.sensitive, nb)
  BY <1>1, RedactionForm
<1> HIDE DEF d, e, na, nb
<1>3. q \in DOMAIN d
  BY DEF d
<1>4. PICK p \in DOMAIN a.attributes : IsLeft(q, p, a.sensitive, na)
  BY <1>2, <1>3 DEF CopyForm
<1>5. IsSequence(p) /\ p # <<>> /\ IsSequence(q) /\ IsPrefix(q, p)
  <2>1. IsSequence(p) /\ p # <<>> /\ \A m \in 1..na : IsEntry(a.sensitive[m])
    BY <1>1 DEF IsAttrs, IsDocument, IsEntries, na
  <2> QED BY <1>4, <2>1, LeftIsSequence DEF IsLeft
<1>6. p[1] = k
  BY <1>5, FirstKey
<1>7. p \in DOMAIN b.attributes /\ a.attributes[p] = b.attributes[p]
  BY <1>5, <1>6 DEF SameBelow
<1>8. AsFarUp(a.sensitive, b.sensitive, p) /\ AsFarUp(b.sensitive, a.sensitive, p)
  BY <1>6, <1>7, NotFurtherUp DEF SameSensitivity
<1>9. /\ EntryAt(q, a.sensitive, na) <=> EntryAt(q, b.sensitive, nb)
      /\ IsLeft(q, p, b.sensitive, nb)
  BY <1>1, <1>4, <1>5, <1>8, LeftAlike DEF na, nb
<1>10. q \in DOMAIN e
  BY <1>2, <1>7, <1>9 DEF CopyForm
<1>11. /\ d[q] = IF EntryAt(q, a.sensitive, na) THEN Sensitive ELSE a.attributes[q]
       /\ e[q] = IF EntryAt(q, b.sensitive, nb) THEN Sensitive ELSE b.attributes[q]
  BY <1>2, <1>3, <1>10 DEF CopyForm
<1>12. q = p \/ EntryAt(q, a.sensitive, na)
  BY <1>4 DEF IsLeft
<1>13. d[q] = e[q]
  BY <1>7, <1>9, <1>11, <1>12
<1> QED BY <1>10, <1>13 DEF d, e

\* Redaction below a key sees nothing of the others, nor more of the entries of
\* sensitive_attributes than how far up they cover the leaves there: two instances
\* that agree in that below a key agree there when they are redacted (redact.go:21-141).
THEOREM RedactionLocal ==
  ASSUME NEW a, NEW b, IsInstance(a), IsInstance(b), NEW k,
         SameBelow(a.attributes, b.attributes, k), SameSensitivity(a, b, k)
  PROVE  SameBelow(RedactedOf(a), RedactedOf(b), k)
<1> DEFINE d == RedactSensitiveAttrs(a.attributes, a.sensitive)
           e == RedactSensitiveAttrs(b.attributes, b.sensitive)
<1>1. SameBelow(b.attributes, a.attributes, k)
  BY DEF SameBelow
<1>2. SameSensitivity(b, a, k)
  <2>1. ASSUME NEW p \in DOMAIN b.attributes, p[1] = k PROVE p \in DOMAIN a.attributes
    <3>1. p # <<>>
      BY DEF IsInstance
    <3> QED BY <2>1, <3>1 DEF SameBelow
  <2> QED BY <2>1 DEF SameSensitivity
<1>3. \A q : q # <<>> /\ q[1] = k /\ q \in DOMAIN d => q \in DOMAIN e /\ d[q] = e[q]
  BY CopyLocal
<1>4. \A q : q # <<>> /\ q[1] = k /\ q \in DOMAIN e => q \in DOMAIN d
  BY <1>1, <1>2, CopyLocal
<1>5. SameBelow(d, e, k)
  BY <1>3, <1>4 DEF SameBelow
<1>6. CopyInv(d, a.attributes, a.sensitive, Len(a.sensitive))
      /\ CopyInv(e, b.attributes, b.sensitive, Len(b.sensitive))
  BY InstanceParts, CopyInvAll
<1>7. Keyed(d) /\ Keyed(e)
  BY <1>6 DEF CopyInv, Keyed
<1> HIDE DEF d, e
<1>8. SameBelow(ApplyPatternRedaction(d), ApplyPatternRedaction(e), k)
  BY <1>5, <1>7, PatternLocal
<1> QED BY <1>8 DEF d, e, RedactedOf

-----------------------------------------------------------------------------
(* Extraction *)

InstanceAt(state, at) == state.resources[at[1]].instances[at[2]]
AddressAt(state, at) == BuildAddress(state.resources[at[1]], InstanceAt(state, at))

LEMMA PlaceIs ==
  ASSUME NEW state, IsState(state), NEW at \in Places(state)
  PROVE  /\ at = <<at[1], at[2]>>
         /\ at[1] \in 1..Len(state.resources) /\ Len(state.resources) \in Nat
         /\ at[2] \in 1..Len(state.resources[at[1]].instances)
         /\ Len(state.resources[at[1]].instances) \in Nat
         /\ IsInstance(InstanceAt(state, at))
<1>1. PICK i \in DOMAIN state.resources : at \in {<<i, j>> : j \in DOMAIN state.resources[i].instances}
  BY DEF Places
<1>2. PICK j \in DOMAIN state.resources[i].instances : at = <<i, j>>
  BY <1>1
<1>3. i \in 1..Len(state.resources) /\ Len(state.resources) \in Nat
  BY DEF IsState, IsSequence
<1> DEFINE instances == state.resources[i].instances
<1>4. IsSequence(instances) /\ \A n \in 1..Len(instances) : IsInstance(instances[n])
  BY <1>3 DEF IsState
<1>5. j \in 1..Len(instances) /\ Len(instances) \in Nat
  BY <1>4 DEF IsSequence
<1>6. at[1] = i /\ at[2] = j
  BY <1>2
<1> QED BY <1>2, <1>3, <1>4, <1>5, <1>6 DEF InstanceAt

LEMMA ExtractedAt ==
  ASSUME NEW state, NEW at \in Places(state)
  PROVE  /\ ExtractResources(state)[at].address = AddressAt(state, at)
         /\ ExtractResources(state)[at].attributes = RedactedOf(InstanceAt(state, at))
  BY DEF ExtractResources, ExtractedOf, AddressAt, InstanceAt, RedactedOf

LEMMA ExtractedFrom == \A state : DOMAIN ExtractResources(state) = Places(state)
  BY DEF ExtractResources

LEMMA InstancesHavePlaces ==
  ASSUME NEW state
  PROVE  InstancesOf(state) = {<<AddressAt(state, at), InstanceAt(state, at)>> : at \in Places(state)}
<1>1. ASSUME NEW ai \in InstancesOf(state)
      PROVE  \E at \in Places(state) : ai = <<AddressAt(state, at), InstanceAt(state, at)>>
  <2> DEFINE PairsOf(i) == {<<BuildAddress(state.resources[i], state.resources[i].instances[j]),
                              state.resources[i].instances[j]>> : j \in DOMAIN state.resources[i].instances}
  <2>1. PICK i \in DOMAIN state.resources : ai \in PairsOf(i)
    BY DEF InstancesOf
  <2>2. PICK j \in DOMAIN state.resources[i].instances :
          ai = <<BuildAddress(state.resources[i], state.resources[i].instances[j]),
                 state.resources[i].instances[j]>>
    BY <2>1
  <2>3. <<i, j>> \in Places(state)
    BY DEF Places
  <2>4. <<i, j>>[1] = i /\ <<i, j>>[2] = j
    OBVIOUS
  <2> QED BY <2>2, <2>3, <2>4 DEF AddressAt, InstanceAt
<1>2. ASSUME NEW at \in Places(state)
      PROVE  <<AddressAt(state, at), InstanceAt(state, at)>> \in InstancesOf(state)
  <2>1. PICK i \in DOMAIN state.resources : at \in {<<i, j>> : j \in DOMAIN state.resources[i].instances}
    BY DEF Places
  <2>2. PICK j \in DOMAIN state.resources[i].instances : at = <<i, j>>
    BY <2>1
  <2>3. at[1] = i /\ at[2] = j
    BY <2>2
  <2> QED BY <2>3 DEF AddressAt, InstanceAt, InstancesOf
<1> QED BY <1>1, <1>2

\* Of some places there is a first and a last.
LEMMA FirstExists ==
  ASSUME NEW state, IsState(state), NEW S, S \subseteq Places(state), S # {}
  PROVE  FirstPlace(S) \in S
<1>1. \A at \in S : at = <<at[1], at[2]>> /\ at[1] \in Nat /\ at[2] \in Nat
  BY PlaceIs
<1> DEFINE Is == {at[1] : at \in S}
<1>2. PICK i \in Is : \A m \in Is : i <= m
  <2>1. Is \subseteq Nat /\ Is # {}
    BY <1>1
  <2> HIDE DEF Is
  <2> QED BY <2>1, LeastNat
<1> DEFINE Js == {at[2] : at \in {o \in S : o[1] = i}}
<1>3. PICK j \in Js : \A m \in Js : j <= m
  <2>1. Js \subseteq Nat /\ Js # {}
    BY <1>1, <1>2
  <2> HIDE DEF Js
  <2> QED BY <2>1, LeastNat
<1>4. PICK at \in S : at[1] = i /\ at[2] = j
  BY <1>3
<1>5. ASSUME NEW other \in S \ {at} PROVE Before(at, other)
  <2>1. i <= other[1] /\ (other[1] = i => j <= other[2])
    BY <1>2, <1>3
  <2>2. other[1] # i \/ other[2] # j
    BY <1>1, <1>4, <1>5
  <2>3. i \in Nat /\ j \in Nat /\ other[1] \in Nat /\ other[2] \in Nat
    BY <1>1, <1>4
  <2> QED BY <1>4, <2>1, <2>2, <2>3 DEF Before
<1> QED BY <1>5 DEF FirstPlace

LEMMA LastExists ==
  ASSUME NEW state, IsState(state), NEW S, S \subseteq Places(state), S # {}
  PROVE  LastPlace(S) \in S
<1>1. \A at \in S : at = <<at[1], at[2]>> /\ at[1] \in Nat /\ at[2] \in Nat
  BY PlaceIs
<1> DEFINE Is == {at[1] : at \in S}
<1>2. PICK i \in Is : \A m \in Is : m <= i
  <2>1. Is \subseteq 0..Len(state.resources) /\ Is # {} /\ Len(state.resources) \in Nat
    BY PlaceIs
  <2> HIDE DEF Is
  <2> QED BY <2>1, GreatestNat
<1> DEFINE Js == {at[2] : at \in {o \in S : o[1] = i}}
           n == Len(state.resources[i].instances)
<1>3. PICK j \in Js : \A m \in Js : m <= j
  <2>1. Js \subseteq 0..n /\ Js # {} /\ n \in Nat
    BY <1>2, PlaceIs
  <2> HIDE DEF Js, n
  <2> QED BY <2>1, GreatestNat
<1>4. PICK at \in S : at[1] = i /\ at[2] = j
  BY <1>3
<1>5. ASSUME NEW other \in S \ {at} PROVE Before(other, at)
  <2>1. other[1] <= i /\ (other[1] = i => other[2] <= j)
    BY <1>2, <1>3
  <2>2. other[1] # i \/ other[2] # j
    BY <1>1, <1>4, <1>5
  <2>3. i \in Nat /\ j \in Nat /\ other[1] \in Nat /\ other[2] \in Nat
    BY <1>1, <1>4
  <2> QED BY <1>4, <2>1, <2>2, <2>3 DEF Before
<1> QED BY <1>5 DEF LastPlace

-----------------------------------------------------------------------------
(* What the answers show *)

FitsStates(states, e) ==
  \/ e.value \in Label
  \/ \E state \in states : MayShow(state, e) \/ (e.value = Null /\ NoSuchKey(state, e))

LEMMA AnswerParts ==
  ASSUME NEW tool, NEW x
  PROVE  /\ ErrorOf(tool).shown = {} /\ ErrorOf(tool).tool = tool /\ ErrorOf(tool).ok = FALSE
         /\ [AnswerTo(tool) EXCEPT !.shown = x].shown = x
         /\ [AnswerTo(tool) EXCEPT !.shown = x].tool = tool
         /\ [AnswerTo(tool) EXCEPT !.listed = x].shown = {}
         /\ [AnswerTo(tool) EXCEPT !.listed = x].tool = tool
  BY DEF ErrorOf, AnswerTo, NoAnswer

LEMMA LeafIs ==
  ASSUME NEW of, NEW doc, NEW e \in Leaves(of, doc)
  PROVE  e.of = of /\ e.path \in DOMAIN doc /\ e.value = doc[e.path]
  BY DEF Leaves

LEMMA ResourceLeaf ==
  ASSUME NEW state, IsState(state), NEW at \in Places(state), NEW e,
         e.of = AddressAt(state, at), e.path \in DOMAIN RedactedOf(InstanceAt(state, at)),
         e.value = RedactedOf(InstanceAt(state, at))[e.path]
  PROVE  e.value \in Label \/ MayShow(state, e)
<1> DEFINE inst == InstanceAt(state, at)
           ai == <<AddressAt(state, at), inst>>
<1>1. IsInstance(inst)
  BY PlaceIs
<1>2. ai \in InstancesOf(state) /\ ai[1] = e.of /\ ai[2] = inst
  BY InstancesHavePlaces
<1>3. SUFFICES ASSUME e.value \notin Label PROVE MayShow(state, e)
  OBVIOUS
<1> HIDE DEF inst, ai
<1>4. e.path \in DOMAIN inst.attributes /\ ~Secret(inst, e.path) /\ e.value = inst.attributes[e.path]
  BY <1>1, <1>3, Redaction DEF inst
<1> QED BY <1>2, <1>4 DEF MayShow

\* What an answer shows of outputs is a label, or a value of an output that is neither
\* sensitive nor below a key that matches (get_outputs.go:60-90).
LEMMA OutputsFit ==
  ASSUME NEW state, IsState(state), NEW name
  PROVE  \A e \in GetOutputs(state, name).shown : FitsStates({state}, e)
<1> DEFINE outputs == {out \in state.outputs : name \in {"", out.name}}
           shown == UNION {Leaves(<<out.name>>, OutputValue(out)) : out \in outputs}
<1>1. GetOutputs(state, name).shown \subseteq shown
  <2>1. CASE name # "" /\ outputs = {}
    BY <2>1, AnswerParts DEF GetOutputs
  <2>2. CASE ~(name # "" /\ outputs = {})
    <3>1. GetOutputs(state, name) = [AnswerTo("tf_get_outputs") EXCEPT !.shown = shown]
      BY <2>2 DEF GetOutputs
    <3> HIDE DEF shown
    <3> QED BY <3>1, AnswerParts
  <2> QED BY <2>1, <2>2
<1>2. ASSUME NEW e \in shown PROVE FitsStates({state}, e)
  <2>1. PICK out \in outputs : e \in Leaves(<<out.name>>, OutputValue(out))
    OBVIOUS
  <2>2. e.of = <<out.name>> /\ e.path \in DOMAIN OutputValue(out) /\ e.value = OutputValue(out)[e.path]
    <3>1. PICK p \in DOMAIN OutputValue(out) :
            e = [of |-> <<out.name>>, path |-> p, value |-> OutputValue(out)[p]]
      BY <2>1 DEF Leaves
    <3> QED BY <3>1
  <2>3. CASE out.sensitive
    BY <2>2, <2>3 DEF OutputValue, FitsStates, Label
  <2>4. CASE ~out.sensitive /\ out.name \in Pattern
    BY <2>2, <2>4 DEF OutputValue, FitsStates, Label
  <2>5. CASE ~out.sensitive /\ out.name \notin Pattern
    <3> DEFINE doc == out.value
    <3>1. OutputValue(out) = ApplyPatternRedaction(doc)
      BY <2>5 DEF OutputValue
    <3>2. \A p \in DOMAIN doc : IsSequence(p)
      BY <2>1 DEF IsState, IsDocument
    <3>3. \/ e.value \in Label
          \/ e.path \in DOMAIN doc /\ e.value = doc[e.path] /\ ~HasPatternKey(e.path)
      <4>1. e.path \in DOMAIN ApplyPatternRedaction(doc) /\ e.value = ApplyPatternRedaction(doc)[e.path]
        BY <2>2, <3>1
      <4> HIDE DEF doc
      <4> QED BY <3>2, <4>1, PatternKeeps
    <3>4. out \in state.outputs
      BY <2>1
    <3> QED BY <2>2, <2>5, <3>3, <3>4 DEF FitsStates, MayShow
  <2> QED BY <2>3, <2>4, <2>5
<1> QED BY <1>1, <1>2

LEMMA ResourceFits ==
  ASSUME NEW state, IsState(state), NEW address
  PROVE  \A e \in GetResource(state, address).shown : FitsStates({state}, e)
<1> DEFINE resources == ExtractResources(state)
           found == PlacesOf(resources, address)
<1>1. CASE found = {}
  BY <1>1, AnswerParts DEF GetResource
<1>2. CASE found # {}
  <2> DEFINE at == FirstPlace(found)
  <2>1. at \in found /\ found \subseteq Places(state)
    <3>1. found \subseteq Places(state)
      BY ExtractedFrom DEF PlacesOf
    <3> HIDE DEF found
    <3> QED BY <1>2, <3>1, FirstExists
  <2>2. at \in Places(state) /\ address = AddressAt(state, at)
        /\ resources[at].attributes = RedactedOf(InstanceAt(state, at))
    BY <2>1, ExtractedAt DEF PlacesOf
  <2>3. GetResource(state, address).shown = Leaves(address, resources[at].attributes)
    BY <1>2, AnswerParts DEF GetResource
  <2> HIDE DEF at, resources
  <2> QED BY <2>2, <2>3, LeafIs, ResourceLeaf DEF FitsStates
<1> QED BY <1>1, <1>2

LEMMA SearchFits ==
  ASSUME NEW state, IsState(state), NEW query, NEW type
  PROVE  \A e \in SearchAttributes(state, query, type).shown : FitsStates({state}, e)
<1> DEFINE resources == ExtractResources(state)
           Found(at) == Leaves(resources[at].address, SearchAttrs(resources[at].attributes, query))
<1>1. SUFFICES ASSUME NEW e \in UNION {Found(at) : at \in PlacesOfType(resources, type)}
               PROVE  FitsStates({state}, e)
  BY AnswerParts DEF SearchAttributes
<1>2. PICK at \in PlacesOfType(resources, type) : e \in Found(at)
  BY <1>1
<1>3. at \in Places(state)
  BY ExtractedFrom DEF PlacesOfType
<1> DEFINE attrs == resources[at].attributes
           hits == SearchAttrs(attrs, query)
<1>4. resources[at].address = AddressAt(state, at) /\ attrs = RedactedOf(InstanceAt(state, at))
  BY <1>3, ExtractedAt
<1>5. e.of = AddressAt(state, at) /\ e.path \in DOMAIN hits /\ e.value = hits[e.path]
  BY <1>2, <1>4, LeafIs
<1> HIDE DEF attrs
<1>6. e.path \in DOMAIN attrs /\ e.value = attrs[e.path]
  BY <1>5 DEF SearchAttrs
<1> QED BY <1>3, <1>4, <1>5, <1>6, ResourceLeaf DEF FitsStates

-----------------------------------------------------------------------------
(* The diff *)

IndexOf(state) == ResourceIndex(ExtractResources(state))

LEMMA IndexIs ==
  ASSUME NEW state, IsState(state)
  PROVE  /\ DOMAIN IndexOf(state) = {AddressAt(state, at) : at \in Places(state)}
         /\ \A a \in DOMAIN IndexOf(state) : \E at \in Places(state) :
              /\ AddressAt(state, at) = a
              /\ IndexOf(state)[a].attributes = RedactedOf(InstanceAt(state, at))
<1> DEFINE resources == ExtractResources(state)
<1>1. DOMAIN resources = Places(state)
  BY ExtractedFrom
<1>2. \A at \in Places(state) : resources[at].address = AddressAt(state, at)
                               /\ resources[at].attributes = RedactedOf(InstanceAt(state, at))
  BY ExtractedAt
<1> HIDE DEF resources
<1>3. DOMAIN IndexOf(state) = {resources[at].address : at \in DOMAIN resources}
  BY DEF IndexOf, ResourceIndex, resources
<1>4. \A a \in DOMAIN IndexOf(state) : IndexOf(state)[a] = resources[LastPlace(PlacesOf(resources, a))]
  BY DEF IndexOf, ResourceIndex, resources
<1>5. DOMAIN IndexOf(state) = {AddressAt(state, at) : at \in Places(state)}
  BY <1>1, <1>2, <1>3
<1>6. ASSUME NEW a \in DOMAIN IndexOf(state)
      PROVE  \E at \in Places(state) : /\ AddressAt(state, at) = a
                                       /\ IndexOf(state)[a].attributes = RedactedOf(InstanceAt(state, at))
  <2> DEFINE S == PlacesOf(resources, a)
             last == LastPlace(S)
  <2>1. S \subseteq Places(state) /\ S # {}
    BY <1>1, <1>3 DEF PlacesOf
  <2>2. last \in S
    <3> HIDE DEF S
    <3> QED BY <2>1, LastExists
  <2>3. last \in Places(state) /\ resources[last].address = a
    BY <2>1, <2>2 DEF PlacesOf
  <2>4. IndexOf(state)[a] = resources[last]
    BY <1>4
  <2> HIDE DEF last
  <2> QED BY <1>2, <2>3, <2>4
<1> QED BY <1>5, <1>6

LEMMA ValueIs ==
  ASSUME NEW doc, NEW k
  PROVE  IF k \in TopKeys(doc)
         THEN /\ DOMAIN ValueOf(doc, k) = {q \in DOMAIN doc : q[1] = k}
              /\ \A q \in DOMAIN ValueOf(doc, k) : ValueOf(doc, k)[q] = doc[q]
         ELSE ValueOf(doc, k) = [p \in {<<k>>} |-> Null]
<1> DEFINE v == [p \in {q \in DOMAIN doc : q[1] = k} |-> doc[p]]
<1>1. k \in TopKeys(doc) <=> DOMAIN v # {}
  BY DEF TopKeys
<1>2. ValueOf(doc, k) = IF DOMAIN v = {} THEN [p \in {<<k>>} |-> Null] ELSE v
  BY DEF ValueOf
<1>3. DOMAIN v = {q \in DOMAIN doc : q[1] = k} /\ \A q \in DOMAIN v : v[q] = doc[q]
  OBVIOUS
<1> HIDE DEF v
<1> QED BY <1>1, <1>2, <1>3

LEMMA ValueFits ==
  ASSUME NEW state, IsState(state), NEW at \in Places(state), NEW k,
         NEW e \in Leaves(AddressAt(state, at), ValueOf(RedactedOf(InstanceAt(state, at)), k))
  PROVE  FitsStates({state}, e)
<1> DEFINE inst == InstanceAt(state, at)
           doc == RedactedOf(inst)
           value == ValueOf(doc, k)
<1>1. e.of = AddressAt(state, at) /\ e.path \in DOMAIN value /\ e.value = value[e.path]
  BY LeafIs
<1>2. IsInstance(inst)
  BY PlaceIs
<1>3. CASE k \in TopKeys(doc)
  <2>1. e.path \in DOMAIN doc /\ e.value = doc[e.path]
    <3> HIDE DEF doc
    <3> QED BY <1>1, <1>3, ValueIs
  <2> QED BY <1>1, <2>1, ResourceLeaf DEF FitsStates
<1>4. CASE k \notin TopKeys(doc)
  <2>1. value = [p \in {<<k>>} |-> Null]
    <3> HIDE DEF doc
    <3> QED BY <1>4, ValueIs
  <2>2. e.path = <<k>> /\ e.value = Null
    BY <1>1, <2>1
  <2>3. k \notin TopKeys(inst.attributes)
    BY <1>2, <1>4, Redaction
  <2> DEFINE ai == <<AddressAt(state, at), inst>>
  <2>4. ai \in InstancesOf(state) /\ ai[1] = e.of /\ ai[2] = inst
    BY <1>1, InstancesHavePlaces
  <2>5. Len(e.path) = 1 /\ e.path[1] = k
    BY <2>2
  <2> HIDE DEF ai, inst
  <2> QED BY <2>2, <2>3, <2>4, <2>5 DEF FitsStates, NoSuchKey
<1> QED BY <1>3, <1>4

\* What tf_diff_state answers on two states.
KeysOf(state, other, a) == DiffAttrs(IndexOf(state)[a].attributes, IndexOf(other)[a].attributes)
BothOf(state, other) == DOMAIN IndexOf(state) \cap DOMAIN IndexOf(other)
ChangedOf(state, other) ==
  UNION {{<<a, k>> : k \in KeysOf(state, other, a)} : a \in BothOf(state, other)}
ShownBy(state, other, a, k) ==
  Leaves(a, ValueOf(IndexOf(state)[a].attributes, k)) \cup Leaves(a, ValueOf(IndexOf(other)[a].attributes, k))

ShownAt(state, other, a) == UNION {ShownBy(state, other, a, k) : k \in KeysOf(state, other, a)}

LEMMA DiffIs ==
  ASSUME NEW state, NEW path, NEW other, path.file = {other}, SafeDiffPath(path)
  PROVE  /\ DiffState(state, path).added = DOMAIN IndexOf(other) \ DOMAIN IndexOf(state)
         /\ DiffState(state, path).removed = DOMAIN IndexOf(state) \ DOMAIN IndexOf(other)
         /\ DiffState(state, path).changed = ChangedOf(state, other)
<1>1. LoadStateFileInRoot(path) = {other} /\ (CHOOSE f \in LoadStateFileInRoot(path) : TRUE) = other
  BY DEF LoadStateFileInRoot
<1> QED BY <1>1 DEF DiffState, KeysOf, BothOf, ChangedOf, IndexOf, AnswerTo, NoAnswer

LEMMA DiffShows ==
  ASSUME NEW state, NEW path, NEW other, path.file = {other}, SafeDiffPath(path),
         NEW e \in DiffState(state, path).shown
  PROVE  \E a \in BothOf(state, other) : e \in ShownAt(state, other, a)
<1>1. LoadStateFileInRoot(path) = {other} /\ (CHOOSE f \in LoadStateFileInRoot(path) : TRUE) = other
  BY DEF LoadStateFileInRoot
<1> QED BY <1>1 DEF DiffState, KeysOf, BothOf, ShownAt, ShownBy, IndexOf, AnswerTo, NoAnswer

LEMMA DiffFails ==
  ASSUME NEW state, NEW path, path.file = {} \/ ~SafeDiffPath(path)
  PROVE  DiffState(state, path) = ErrorOf("tf_diff_state")
  BY DEF DiffState, LoadStateFileInRoot

LEMMA DiffFits ==
  ASSUME NEW state, NEW path, NEW other, path.file = {other}, SafeDiffPath(path),
         IsState(state), IsState(other)
  PROVE  \A e \in DiffState(state, path).shown : FitsStates({state, other}, e)
<1> SUFFICES ASSUME NEW e \in DiffState(state, path).shown PROVE FitsStates({state, other}, e)
  OBVIOUS
<1>1. PICK a \in BothOf(state, other) : e \in ShownAt(state, other, a)
  BY DiffShows
<1>2. PICK k \in KeysOf(state, other, a) : e \in ShownBy(state, other, a, k)
  BY <1>1 DEF ShownAt
<1>3. PICK at \in Places(state) :
        AddressAt(state, at) = a /\ IndexOf(state)[a].attributes = RedactedOf(InstanceAt(state, at))
  BY <1>1, IndexIs DEF BothOf
<1>4. PICK ot \in Places(other) :
        AddressAt(other, ot) = a /\ IndexOf(other)[a].attributes = RedactedOf(InstanceAt(other, ot))
  BY <1>1, IndexIs DEF BothOf
<1>5. CASE e \in Leaves(a, ValueOf(IndexOf(state)[a].attributes, k))
  <2>1. FitsStates({state}, e)
    BY <1>3, <1>5, ValueFits
  <2> QED BY <2>1 DEF FitsStates
<1>6. CASE e \in Leaves(a, ValueOf(IndexOf(other)[a].attributes, k))
  <2>1. FitsStates({other}, e)
    BY <1>4, <1>6, ValueFits
  <2> QED BY <2>1 DEF FitsStates
<1> QED BY <1>2, <1>5, <1>6 DEF ShownBy

\* A difference in the open is in the values that the diff compares.
LEMMA OpenIsSeen ==
  ASSUME NEW a, NEW b, IsInstance(a), IsInstance(b), NEW p, Visible(a, p), LeafOf(a, p) # LeafOf(b, p)
  PROVE  ValueOf(RedactedOf(a), p[1]) # ValueOf(RedactedOf(b), p[1])
<1> DEFINE da == RedactedOf(a)
           db == RedactedOf(b)
           k == p[1]
           v == a.attributes[p]
<1>1. p \in DOMAIN a.attributes /\ v \notin Label /\ LeafOf(a, p) = {v}
  BY DEF Visible, LeafOf
<1>2. p \in DOMAIN da /\ da[p] = v
  BY Redaction DEF Visible
<1>3. k \in TopKeys(da)
  BY <1>2 DEF TopKeys
<1>4. p \in DOMAIN ValueOf(da, k) /\ ValueOf(da, k)[p] = v
  <2> HIDE DEF da, k, v
  <2>1. p[1] = k
    BY DEF k
  <2> QED BY <1>2, <1>3, <2>1, ValueIs
<1>5. SUFFICES ASSUME p \in DOMAIN ValueOf(db, k), ValueOf(db, k)[p] = v PROVE FALSE
  BY <1>4
<1>6. CASE k \in TopKeys(db)
  <2>1. p \in DOMAIN db /\ db[p] = v
    <3> HIDE DEF db, k, v
    <3> QED BY <1>5, <1>6, ValueIs
  <2>2. p \in DOMAIN b.attributes /\ v = b.attributes[p]
    BY <1>1, <2>1, Redaction
  <2> QED BY <1>1, <2>2 DEF LeafOf
<1>7. CASE k \notin TopKeys(db)
  <2>1. ValueOf(db, k) = [q \in {<<k>>} |-> Null]
    <3> HIDE DEF db, k
    <3> QED BY <1>7, ValueIs
  <2>2. p = <<k>> /\ v = Null
    <3> HIDE DEF db, k, v
    <3> QED BY <1>5, <2>1
  <2>3. p \notin DOMAIN b.attributes
    <3>1. k \notin TopKeys(b.attributes)
      BY <1>7, Redaction
    <3> QED BY <3>1 DEF TopKeys
  <2>4. Len(p) = 1
    <3> HIDE DEF k
    <3> QED BY <2>2
  <2> QED BY <1>1, <2>2, <2>3, <2>4 DEF LeafOf
<1> QED BY <1>6, <1>7

\* The leaves at and below a key are the same before redaction.
SameLeaves(a, b, k) ==
  \A p \in DOMAIN a.attributes \cup DOMAIN b.attributes : p[1] = k => LeafOf(a, p) = LeafOf(b, p)

LEMMA OneKey ==
  ASSUME NEW p, IsSequence(p), Len(p) = 1
  PROVE  p = <<p[1]>>
  BY DEF IsSequence

\* When both have the key, a leaf of the one is a leaf of the other.
LEMMA LeafInBoth ==
  ASSUME NEW a, NEW b, IsInstance(a), IsInstance(b), NEW k, SameLeaves(a, b, k),
         k \in TopKeys(b.attributes), NEW p \in DOMAIN a.attributes, p[1] = k
  PROVE  p \in DOMAIN b.attributes /\ a.attributes[p] = b.attributes[p]
<1>1. LeafOf(a, p) = {a.attributes[p]} /\ LeafOf(a, p) = LeafOf(b, p)
  BY DEF SameLeaves, LeafOf
<1>2. SUFFICES ASSUME p \notin DOMAIN b.attributes PROVE FALSE
  BY <1>1 DEF LeafOf
<1>3. Len(p) = 1
  BY <1>1, <1>2 DEF LeafOf
<1>4. PICK r \in DOMAIN b.attributes : r[1] = k
  BY DEF TopKeys
<1>5. IsSequence(p) /\ IsSequence(r) /\ r # <<>>
  BY DEF IsInstance, IsDocument
<1>6. p # r
  BY <1>2
<1>7. Len(r) # 1
  BY <1>3, <1>4, <1>5, <1>6, OneKey
<1>8. IsPrefix(p, r)
  <2>1. Len(p) <= Len(r)
    BY <1>3, <1>5 DEF IsSequence
  <2>2. \A i \in 1..Len(p) : p[i] = r[i]
    BY <1>3, <1>4
  <2> QED BY <1>5, <2>1, <2>2, PrefixSteps
<1>9. r \notin DOMAIN a.attributes
  BY <1>6, <1>8 DEF IsInstance, IsDocument
<1>10. LeafOf(a, r) = {} /\ LeafOf(b, r) = {b.attributes[r]}
  BY <1>7, <1>9 DEF LeafOf
<1> QED BY <1>4, <1>10 DEF SameLeaves

\* What differs in the values that the diff compares differs before redaction.
LEMMA SeenDiffers ==
  ASSUME NEW a, NEW b, IsInstance(a), IsInstance(b), NEW k, SameLeaves(a, b, k),
         SameSensitivity(a, b, k), k \in TopKeys(a.attributes), k \in TopKeys(b.attributes)
  PROVE  ValueOf(RedactedOf(a), k) = ValueOf(RedactedOf(b), k)
<1> DEFINE da == RedactedOf(a)
           db == RedactedOf(b)
<1>1. SameLeaves(b, a, k)
  BY DEF SameLeaves
<1>2. SameBelow(a.attributes, b.attributes, k)
  BY <1>1, LeafInBoth DEF SameBelow
<1>3. SameBelow(da, db, k)
  BY <1>2, RedactionLocal
<1>4. Keyed(da) /\ Keyed(db)
  BY Redaction
<1> HIDE DEF da, db
<1>5. {q \in DOMAIN da : q[1] = k} = {q \in DOMAIN db : q[1] = k}
  BY <1>3, <1>4 DEF SameBelow, Keyed
<1>6. \A q \in DOMAIN da : q[1] = k => da[q] = db[q]
  BY <1>3, <1>4 DEF SameBelow, Keyed
<1>7. [p \in {q \in DOMAIN da : q[1] = k} |-> da[p]] = [p \in {q \in DOMAIN db : q[1] = k} |-> db[p]]
  BY <1>5, <1>6
<1> QED BY <1>7 DEF ValueOf, da, db

\* Nor is a key seen that one has and the other has not, unless its value is not null
\* or secret.
LEMMA NullUnseen ==
  ASSUME NEW a, NEW b, IsInstance(a), IsInstance(b), NEW k, SameLeaves(a, b, k),
         k \in TopKeys(a.attributes), k \notin TopKeys(b.attributes),
         \A p \in DOMAIN a.attributes : p[1] = k => ~SecretOnlyIn(a, b, p)
  PROVE  ValueOf(RedactedOf(a), k) = ValueOf(RedactedOf(b), k)
<1> DEFINE da == RedactedOf(a)
           db == RedactedOf(b)
<1>1. \A p \in DOMAIN a.attributes : p[1] = k => p \notin DOMAIN b.attributes
  BY DEF TopKeys
<1>2. ASSUME NEW p \in DOMAIN a.attributes, p[1] = k
      PROVE  p = <<k>> /\ a.attributes[p] = Null
  <2>1. LeafOf(a, p) = {a.attributes[p]} /\ LeafOf(a, p) = LeafOf(b, p)
    BY <1>2 DEF SameLeaves, LeafOf
  <2>2. Len(p) = 1 /\ a.attributes[p] = Null
    BY <1>1, <1>2, <2>1 DEF LeafOf
  <2>3. IsSequence(p)
    BY DEF IsInstance, IsDocument
  <2> QED BY <1>2, <2>2, <2>3, OneKey
<1> DEFINE s == <<k>>
<1>3. s \in DOMAIN a.attributes /\ s[1] = k /\ a.attributes[s] = Null
  BY <1>2 DEF TopKeys
<1>4. ~Secret(a, s)
  BY <1>1, <1>3 DEF SecretOnlyIn
<1>5. s \in DOMAIN da /\ da[s] = Null
  BY <1>3, <1>4, Redaction
<1>6. ASSUME NEW q \in DOMAIN da, q[1] = k PROVE q = s
  <2>1. PICK p \in DOMAIN a.attributes : IsPrefix(q, p)
    BY Redaction
  <2>2. IsSequence(q) /\ q # <<>> /\ IsSequence(p)
    BY Redaction DEF Keyed, IsInstance, IsDocument
  <2>3. p[1] = k
    BY <1>6, <2>1, <2>2, FirstKey
  <2>4. p = s
    BY <1>2, <2>3
  <2>5. Len(q) <= Len(p) /\ Len(p) = 1
    BY <2>1, <2>2, <2>4, PrefixSteps
  <2>6. Len(q) = 1
    BY <2>2, <2>5 DEF IsSequence
  <2> QED BY <1>6, <2>2, <2>6, OneKey
<1>7. k \in TopKeys(da) /\ k \notin TopKeys(db)
  BY Redaction
<1> HIDE DEF da, db
<1>8. ValueOf(db, k) = [p \in {s} |-> Null]
  BY <1>7, ValueIs
<1>9. {q \in DOMAIN da : q[1] = k} = {s}
  BY <1>3, <1>5, <1>6
<1>10. [p \in {q \in DOMAIN da : q[1] = k} |-> da[p]] = [p \in {s} |-> Null]
  BY <1>5, <1>9
<1>11. ValueOf(da, k) = [p \in {s} |-> Null]
  BY <1>9, <1>10 DEF ValueOf
<1> QED BY <1>8, <1>11 DEF da, db

LEMMA AddressesIndexed ==
  ASSUME NEW state, IsState(state)
  PROVE  AddressesOf(InstancesOf(state)) = DOMAIN IndexOf(state)
<1>1. ASSUME NEW ai \in InstancesOf(state) PROVE ai[1] \in DOMAIN IndexOf(state)
  <2>1. PICK at \in Places(state) : ai = <<AddressAt(state, at), InstanceAt(state, at)>>
    BY InstancesHavePlaces
  <2> QED BY <2>1, IndexIs
<1>2. ASSUME NEW a \in DOMAIN IndexOf(state) PROVE \E ai \in InstancesOf(state) : ai[1] = a
  <2>1. PICK at \in Places(state) : a = AddressAt(state, at)
    BY IndexIs
  <2>2. <<a, InstanceAt(state, at)>> \in InstancesOf(state)
    BY <2>1, InstancesHavePlaces
  <2> QED BY <2>2
<1> QED BY <1>1, <1>2 DEF AddressesOf

\* An instance alone with its address is the one that the index has.
LEMMA AloneIndexed ==
  ASSUME NEW state, IsState(state), NEW ai \in InstancesOf(state), Alone(ai, InstancesOf(state))
  PROVE  /\ ai[1] \in DOMAIN IndexOf(state) /\ IsInstance(ai[2])
         /\ IndexOf(state)[ai[1]].attributes = RedactedOf(ai[2])
<1>1. ai[1] \in DOMAIN IndexOf(state)
  BY AddressesIndexed DEF AddressesOf
<1>2. PICK at \in Places(state) :
        AddressAt(state, at) = ai[1] /\ IndexOf(state)[ai[1]].attributes = RedactedOf(InstanceAt(state, at))
  BY <1>1, IndexIs
<1> DEFINE bi == <<AddressAt(state, at), InstanceAt(state, at)>>
<1>3. bi \in InstancesOf(state) /\ bi[1] = AddressAt(state, at) /\ bi[2] = InstanceAt(state, at)
  BY InstancesHavePlaces
<1> HIDE DEF bi
<1>4. bi = ai
  BY <1>2, <1>3 DEF Alone
<1> QED BY <1>1, <1>2, <1>3, <1>4, PlaceIs

LEMMA KeyIsReported ==
  ASSUME NEW a, NEW b, IsInstance(a), IsInstance(b),
         NEW k \in TopKeys(a.attributes) \cup TopKeys(b.attributes)
  PROVE  KeyReported(a, b, k, k \in DiffAttrs(RedactedOf(a), RedactedOf(b)))
<1> DEFINE leaves == {p \in DOMAIN a.attributes \cup DOMAIN b.attributes : p[1] = k}
           va == ValueOf(RedactedOf(a), k)
           vb == ValueOf(RedactedOf(b), k)
<1>1. k \in DiffAttrs(RedactedOf(a), RedactedOf(b)) <=> va # vb
  BY Redaction DEF DiffAttrs
<1>2. ASSUME NEW p \in leaves, DiffersInTheOpen(a, b, p) PROVE va # vb
  BY <1>2, OpenIsSeen DEF DiffersInTheOpen
<1>3. ASSUME va # vb, \A p \in leaves : ~Differs(a, b, p)
      PROVE  FALSE
  <2>1. SameLeaves(a, b, k) /\ SameLeaves(b, a, k) /\ SameSensitivity(a, b, k)
    BY <1>3 DEF SameLeaves, SameSensitivity, Differs
  <2>2. CASE k \in TopKeys(a.attributes) /\ k \in TopKeys(b.attributes)
    BY <1>3, <2>1, <2>2, SeenDiffers
  <2>3. CASE k \notin TopKeys(b.attributes)
    BY <1>3, <2>1, <2>3, NullUnseen DEF Differs
  <2>4. CASE k \notin TopKeys(a.attributes)
    BY <1>3, <2>1, <2>4, NullUnseen DEF Differs
  <2> QED BY <2>2, <2>3, <2>4
<1> HIDE DEF va, vb
<1> QED BY <1>1, <1>2, <1>3 DEF KeyReported

\* What tf_diff_state answers on two states tells their difference, as
\* DiffReportsVisibleChanges asks (diff_state.go:81-175).
Reports(state, otherState, answer) ==
  LET cur == InstancesOf(state) other == InstancesOf(otherState)
  IN /\ answer.added = AddressesOf(other) \ AddressesOf(cur)
     /\ answer.removed = AddressesOf(cur) \ AddressesOf(other)
     /\ \A ai \in cur, bi \in other :
          ai[1] = bi[1] /\ Alone(ai, cur) /\ Alone(bi, other) =>
            \A k \in TopKeys(ai[2].attributes) \cup TopKeys(bi[2].attributes) :
              KeyReported(ai[2], bi[2], k, <<ai[1], k>> \in answer.changed)

LEMMA DiffReports ==
  ASSUME NEW state, NEW path, NEW other, path.file = {other}, SafeDiffPath(path),
         IsState(state), IsState(other)
  PROVE  Reports(state, other, DiffState(state, path))
<1> DEFINE answer == DiffState(state, path)
           changed == ChangedOf(state, other)
<1>1. /\ answer.added = DOMAIN IndexOf(other) \ DOMAIN IndexOf(state)
      /\ answer.removed = DOMAIN IndexOf(state) \ DOMAIN IndexOf(other)
      /\ answer.changed = changed
  BY DiffIs
<1>2. \A a \in BothOf(state, other) : \A k : <<a, k>> \in changed <=> k \in KeysOf(state, other, a)
  <2> SUFFICES ASSUME NEW a \in BothOf(state, other), NEW k, <<a, k>> \in changed
               PROVE  k \in KeysOf(state, other, a)
    BY DEF ChangedOf
  <2>1. PICK b \in BothOf(state, other) : <<a, k>> \in {<<b, j>> : j \in KeysOf(state, other, b)}
    BY DEF ChangedOf
  <2> QED BY <2>1
<1> HIDE DEF answer, changed
<1>3. ASSUME NEW ai \in InstancesOf(state), NEW bi \in InstancesOf(other), ai[1] = bi[1],
             Alone(ai, InstancesOf(state)), Alone(bi, InstancesOf(other)),
             NEW k \in TopKeys(ai[2].attributes) \cup TopKeys(bi[2].attributes)
      PROVE  KeyReported(ai[2], bi[2], k, <<ai[1], k>> \in answer.changed)
  <2>1. ai[1] \in BothOf(state, other) /\ IsInstance(ai[2]) /\ IsInstance(bi[2])
    BY <1>3, AloneIndexed DEF BothOf
  <2>2. KeysOf(state, other, ai[1]) = DiffAttrs(RedactedOf(ai[2]), RedactedOf(bi[2]))
    BY <1>3, AloneIndexed DEF KeysOf
  <2>3. <<ai[1], k>> \in answer.changed <=> k \in DiffAttrs(RedactedOf(ai[2]), RedactedOf(bi[2]))
    BY <1>1, <1>2, <2>1, <2>2
  <2> QED BY <2>1, <2>3, KeyIsReported DEF KeyReported
<1> QED BY <1>1, <1>3, AddressesIndexed DEF Reports, answer

-----------------------------------------------------------------------------
(* Calls *)

LEMMA InspectedIs ==
  ASSUME NEW states, NEW other, NEW answer, Inspected(states, other, answer)
  PROVE  inspected'.state = states /\ inspected'.other = other /\ inspected'.answer = answer
  BY DEF Inspected

\* An answer that fits the states it is of, and tells their difference if it is a diff.
Sound(states, other, answer) ==
  /\ \A e \in answer.shown : FitsStates(states \cup other, e)
  /\ answer.tool = "tf_diff_state" /\ answer.ok =>
       \A state \in states, otherState \in other : Reports(state, otherState, answer)

LEMMA SoundShows ==
  ASSUME NEW states, NEW other, NEW answer, Inspected(states, other, answer),
         Sound(states, other, answer)
  PROVE  NothingSensitiveShown' /\ DiffReportsVisibleChanges'
<1>1. inspected'.state = states /\ inspected'.other = other /\ inspected'.answer = answer
  BY InspectedIs
<1>2. NothingSensitiveShown'
  BY <1>1 DEF Sound, FitsStates, NothingSensitiveShown
<1>3. DiffReportsVisibleChanges'
  BY <1>1 DEF Sound, Reports, DiffReportsVisibleChanges
<1> QED BY <1>2, <1>3

LEMMA ErrorSound == \A states, other, tool : Sound(states, other, ErrorOf(tool))
  BY AnswerParts DEF Sound

LEMMA ListingSound ==
  ASSUME NEW states, NEW tool, NEW x
  PROVE  Sound(states, {}, [AnswerTo(tool) EXCEPT !.listed = x])
  BY AnswerParts DEF Sound

\* What the tools of one state answer fits it.
LEMMA OneStateSound ==
  ASSUME NEW state, IsState(state)
  PROVE  /\ \A name : Sound({state}, {}, GetOutputs(state, name))
         /\ \A address : Sound({state}, {}, GetResource(state, address))
         /\ \A query, type : Sound({state}, {}, SearchAttributes(state, query, type))
         /\ \A types, modules : Sound({state}, {}, ListResources(state, types, modules))
         /\ \A type : Sound({state}, {}, DependencyGraph(state, type))
         /\ Sound({state}, {}, Summary(state))
<1> USE DEF Sound
<1>1. \A name : Sound({state}, {}, GetOutputs(state, name))
  BY OutputsFit
<1>2. \A address : Sound({state}, {}, GetResource(state, address))
  BY ResourceFits
<1>3. \A query, type : Sound({state}, {}, SearchAttributes(state, query, type))
  BY SearchFits
<1>4. \A types, modules : Sound({state}, {}, ListResources(state, types, modules))
  BY ListingSound DEF ListResources
<1>5. \A type : Sound({state}, {}, DependencyGraph(state, type))
  BY ListingSound DEF DependencyGraph
<1>6. Sound({state}, {}, Summary(state))
  BY ListingSound DEF Summary
<1> QED BY <1>1, <1>2, <1>3, <1>4, <1>5, <1>6

LEMMA DiffSound ==
  ASSUME NEW state, NEW path \in DiffPath, IsState(state)
  PROVE  Sound({state}, path.file, DiffState(state, path))
<1>1. CASE path.file = {} \/ ~SafeDiffPath(path)
  BY <1>1, DiffFails, ErrorSound
<1>2. CASE path.file # {} /\ SafeDiffPath(path)
  <2>1. PICK other \in path.file : IsState(other) /\ path.file = {other}
    BY <1>2, StatesAssumption
  <2>2. {state} \cup path.file = {state, other}
    BY <2>1
  <2>3. \A e \in DiffState(state, path).shown : FitsStates({state} \cup path.file, e)
    BY <1>2, <2>1, <2>2, DiffFits
  <2>4. Reports(state, other, DiffState(state, path))
    BY <1>2, <2>1, DiffReports
  <2> QED BY <2>1, <2>3, <2>4 DEF Sound
<1> QED BY <1>1, <1>2

LEMMA InspectIsSound ==
  ASSUME NEW t, NEW state \in StateFile, InspectState(t, state)
  PROVE  \E other, answer : Inspected({state}, other, answer) /\ Sound({state}, other, answer)
<1>1. IsState(state)
  BY StatesAssumption
<1>2. CASE \E name : Inspected({state}, {}, GetOutputs(state, name))
  BY <1>1, <1>2, OneStateSound
<1>3. CASE \E address : Inspected({state}, {}, GetResource(state, address))
  BY <1>1, <1>3, OneStateSound
<1>4. CASE \E query, type : Inspected({state}, {}, SearchAttributes(state, query, type))
  BY <1>1, <1>4, OneStateSound
<1>5. CASE \E types, modules : Inspected({state}, {}, ListResources(state, types, modules))
  BY <1>1, <1>5, OneStateSound
<1>6. CASE \E type : Inspected({state}, {}, DependencyGraph(state, type))
  BY <1>1, <1>6, OneStateSound
<1>7. CASE Inspected({state}, {}, Summary(state))
  BY <1>1, <1>7, OneStateSound
<1>8. CASE \E path \in DiffPath : Inspected({state}, path.file, DiffState(state, path))
  BY <1>1, <1>8, DiffSound
<1> QED BY <1>2, <1>3, <1>4, <1>5, <1>6, <1>7, <1>8 DEF InspectState

\* No call of a state tool shows a secret or loses a difference, whatever the state,
\* the pattern and the parameters are, and whatever was inspected before
\* (pkg/tools/state).
THEOREM InspectStep ==
  ASSUME NEW t, (\E state \in StateFile : InspectState(t, state)) \/ InspectFails(t)
  PROVE  NothingSensitiveShown' /\ DiffReportsVisibleChanges'
<1>1. CASE \E state \in StateFile : InspectState(t, state)
  BY <1>1, InspectIsSound, SoundShows
<1>2. CASE InspectFails(t)
  <2>1. Inspected({}, {}, ErrorOf(t)) /\ Sound({}, {}, ErrorOf(t))
    BY <1>2, ErrorSound DEF InspectFails
  <2> QED BY <2>1, SoundShows
<1> QED BY <1>1, <1>2

LEMMA InspectStart == InspectInit => NothingSensitiveShown /\ DiffReportsVisibleChanges
  BY DEF InspectInit, NoAnswer, NothingSensitiveShown, DiffReportsVisibleChanges
=============================================================================
