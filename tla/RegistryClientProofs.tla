------------------------ MODULE RegistryClientProofs ------------------------
(***************************************************************************)
(* What TLAPS proves of RegistryClient, for any number of namespaces,      *)
(* versions, documents, pages and retries.                                 *)
(***************************************************************************)
EXTENDS RegistryClient, FiniteSetTheorems, SequenceTheorems, WellFoundedInduction, TLAPS

LEMMA SeqFromFunction ==
  ASSUME NEW T, NEW n \in Nat, NEW f \in [1..n -> T]
  PROVE  f \in Seq(T)
OBVIOUS

\* The list of some documents is a sequence of them.
LEMMA InOrderType ==
  ASSUME NEW S \in SUBSET (1..MaxDoc), NEW list \in InOrder(S)
  PROVE  /\ list \in Seq(1..MaxDoc)
         /\ Increasing(list)
         /\ {list[k] : k \in DOMAIN list} = S
         /\ Len(list) = Cardinality(S) /\ Cardinality(S) \in 0..MaxDoc
<1> DEFINE n == Cardinality(S)
<1>1. list \in [1..n -> S]
  BY DEF InOrder
<1>2. n \in 0..MaxDoc
  <2>1. /\ IsFiniteSet(1..MaxDoc)
        /\ Cardinality(1..MaxDoc) = IF 1 > MaxDoc THEN 0 ELSE MaxDoc - 1 + 1
    BY RegistryAssumption, FS_Interval
  <2>2. Cardinality(1..MaxDoc) = MaxDoc
    BY <2>1, RegistryAssumption
  <2>3. IsFiniteSet(S) /\ Cardinality(S) <= MaxDoc
    BY <2>1, <2>2, FS_Subset
  <2>4. Cardinality(S) \in Nat
    BY <2>3, FS_CardinalityType
  <2> QED BY <2>3, <2>4, RegistryAssumption
<1> HIDE DEF n
<1>6. n \in Nat
  BY <1>2, RegistryAssumption
<1>3. list \in Seq(1..MaxDoc)
  <2>1. list \in [1..n -> 1..MaxDoc]
    BY <1>1
  <2>2. QED
    BY <1>6, <2>1, SeqFromFunction
<1>4. Increasing(list) /\ S \subseteq {list[k] : k \in DOMAIN list}
  BY DEF InOrder
<1>7. Len(list) = n
  BY <1>1, <1>3, <1>6
<1>5. QED
  BY <1>1, <1>2, <1>3, <1>4, <1>7 DEF n

LEMMA Beginning ==
  ASSUME NEW T, NEW s \in Seq(T), NEW l \in 0..Len(s)
  PROVE  /\ SubSeq(s, 1, l) \in Seq(T)
         /\ Len(SubSeq(s, 1, l)) = l
         /\ \A k \in 1..l : SubSeq(s, 1, l)[k] = s[k]
<1>1. Len(s) \in Nat
  OBVIOUS
<1>2. SubSeq(s, 1, l) = [k \in 1..l |-> s[k]]
  BY <1>1, SubSeqProperties
<1>3. \A k \in 1..l : s[k] \in T
  BY <1>1
<1>4. l \in Nat
  BY <1>1
<1>5. [k \in 1..l |-> s[k]] \in [1..l -> T]
  BY <1>3
<1> QED BY <1>2, <1>4, <1>5, SeqFromFunction

\* A section of a survey, made of the documents items of its category.
Section(items) ==
  [available |-> Len(items),
   shown |-> SubSeq(items, 1, IF Len(items) <= ShowAll THEN Len(items) ELSE ShowFew)]

\* What a survey of n documents consists of.
LEMMA SectionsOf ==
  ASSUME NEW n \in 0..MaxDoc, NEW f \in AnalyzeAndFormatCapabilities(n)
  PROVE  /\ DOMAIN f = {CategoryOf[d] : d \in Hcl \cap 1..n}
         /\ f \in [DOMAIN f -> Shown]
         /\ \A c \in DOMAIN f :
              \E items \in Seq(1..MaxDoc) :
                /\ f[c] = Section(items) /\ Increasing(items)
                /\ {items[k] : k \in DOMAIN items} = OfCategory(c, n)
                /\ Len(items) = Cardinality(OfCategory(c, n))
<1> DEFINE cats == {CategoryOf[d] : d \in Hcl \cap 1..n}
           section(c) == {Section(items) : items \in InOrder(OfCategory(c, n))}
<1>1. /\ f \in [cats -> UNION {section(c) : c \in cats}]
      /\ \A c \in cats : f[c] \in section(c)
  BY DEF AnalyzeAndFormatCapabilities, Section
<1>2. ASSUME NEW c \in cats
      PROVE  /\ f[c] \in Shown
             /\ \E items \in Seq(1..MaxDoc) :
                  /\ f[c] = Section(items) /\ Increasing(items)
                  /\ {items[k] : k \in DOMAIN items} = OfCategory(c, n)
                  /\ Len(items) = Cardinality(OfCategory(c, n))
  <2>1. PICK items \in InOrder(OfCategory(c, n)) : f[c] = Section(items)
    BY <1>1
  <2>2. OfCategory(c, n) \subseteq 1..MaxDoc
    BY RegistryAssumption DEF OfCategory
  <2>3. /\ items \in Seq(1..MaxDoc) /\ Increasing(items)
        /\ {items[k] : k \in DOMAIN items} = OfCategory(c, n)
        /\ Len(items) = Cardinality(OfCategory(c, n)) /\ Len(items) \in 0..MaxDoc
    BY <2>2, InOrderType
  <2>4. \A l \in 0..Len(items) : SubSeq(items, 1, l) \in Seq(1..MaxDoc)
    BY <2>3, Beginning
  <2>5. (IF Len(items) <= ShowAll THEN Len(items) ELSE ShowFew) \in 0..Len(items)
    BY <2>3, RegistryAssumption
  <2>6. Section(items) \in Shown
    BY <2>3, <2>4, <2>5 DEF Section, Shown
  <2> QED BY <2>1, <2>3, <2>6
<1> HIDE DEF section
<1> QED BY <1>1, <1>2

LEMMA SurveyRight ==
  ASSUME NEW n \in 0..MaxDoc, sections' \in AnalyzeAndFormatCapabilities(n)
  PROVE  SurveyOf(n)'
<1>1. DOMAIN sections' = {CategoryOf[d] : d \in Hcl \cap 1..n}
  BY SectionsOf
<1>2. ASSUME NEW c \in DOMAIN sections'
      PROVE  LET all == {d \in 1..n : d \in Hcl /\ CategoryOf[d] = c}
                 list == sections'[c].shown
                 shown == {list[k] : k \in DOMAIN list}
             IN /\ sections'[c].available = Cardinality(all)
                /\ shown \subseteq all /\ Increasing(list)
                /\ Len(list) = IF Cardinality(all) > ShowAll THEN ShowFew ELSE Cardinality(all)
                /\ \A d \in all \ shown, k \in DOMAIN list : list[k] < d
  <2> DEFINE all == {d \in 1..n : d \in Hcl /\ CategoryOf[d] = c}
             list == sections'[c].shown
             shown == {list[k] : k \in DOMAIN list}
  <2>1. PICK items \in Seq(1..MaxDoc) :
          /\ sections'[c] = Section(items) /\ Increasing(items)
          /\ {items[k] : k \in DOMAIN items} = OfCategory(c, n)
          /\ Len(items) = Cardinality(OfCategory(c, n))
    BY SectionsOf
  <2>2. all = OfCategory(c, n)
    BY DEF OfCategory
  <2> DEFINE m == Len(items)
             l == IF m <= ShowAll THEN m ELSE ShowFew
  <2>3. m \in Nat /\ l \in 0..m /\ (l = IF m > ShowAll THEN ShowFew ELSE m)
    BY RegistryAssumption
  <2>4. sections'[c].available = m /\ list = SubSeq(items, 1, l)
    <3> DEFINE cut == SubSeq(items, 1, l)
    <3>1. Section(items) = [available |-> m, shown |-> cut]
      BY DEF Section
    <3> HIDE DEF cut, m
    <3>2. sections'[c].available = m /\ sections'[c].shown = cut
      BY <2>1, <3>1
    <3> QED BY <3>2 DEF cut, m
  <2> HIDE DEF l
  <2>5. Len(list) = l /\ DOMAIN list = 1..l /\ \A k \in 1..l : list[k] = items[k] /\ k \in DOMAIN items
    BY <2>3, <2>4, Beginning
  <2> HIDE DEF list
  <2>6. shown \subseteq all
    BY <2>1, <2>2, <2>5
  <2>7. Increasing(list)
    BY <2>1, <2>5 DEF Increasing
  <2>8. ASSUME NEW d \in all \ shown, NEW k \in DOMAIN list
        PROVE  list[k] < d
    <3>1. PICK j \in DOMAIN items : d = items[j]
      BY <2>1, <2>2
    <3>2. j \in 1..m /\ ~(j <= l)
      BY <2>3, <2>5, <3>1
    <3>3. k < j /\ k \in DOMAIN items /\ list[k] = items[k]
      BY <2>3, <2>5, <3>2
    <3> QED BY <2>1, <3>1, <3>3 DEF Increasing
  <2> QED BY <2>1, <2>2, <2>3, <2>4, <2>5, <2>6, <2>7, <2>8 DEF list
<1> QED BY <1>1, <1>2 DEF SurveyOf, Increasing

-----------------------------------------------------------------------------
(* Types *)

\* Nothing is found before it is asked for, and a content is only asked for while
\* some are left.
ProgressInv ==
  /\ pc \notin {"page", "content", "snippet", "answered"} => found = <<>> /\ page = 1
  /\ pc \notin {"content", "snippet", "answered"} => contents = <<>>
  /\ pc \in {"content", "snippet"} => Len(contents) < Len(found)

TypeInv == TypeOK /\ ProgressInv

LEMMA TypeInit == Init => TypeInv
<1> SUFFICES ASSUME Init
             PROVE  TypeInv
  OBVIOUS
<1>1. NoRequest \in Request /\ [ns |-> Hashicorp, version |-> 0] \in Provider
  BY RegistryAssumption DEF NoRequest, Request, Provider
<1>2. latest \in [Namespace -> SUBSET (0..MaxVersion)]
  BY DEF Init
<1>3. 0 \in 0..RetryMax /\ 0 \in 0..MaxDoc
  BY RegistryAssumption
<1>4. /\ found = <<>> /\ contents = <<>> /\ found \in Seq(1..MaxDoc) /\ contents \in Seq(0..MaxDoc)
      /\ sections \in [DOMAIN sections -> Shown]
  BY DEF Init
<1>5. TypeOK
  <2>1. /\ versions \in [Namespace -> 0..MaxVersion] /\ request = NoRequest
        /\ target = [ns |-> Hashicorp, version |-> 0]
        /\ pc = "idle" /\ attempt = 0 /\ docs = 0 /\ before = 0 /\ page = 1
    BY DEF Init
  <2>2. waiting \in BOOLEAN /\ ok \in BOOLEAN
    BY DEF Init
  <2>3. QED
    BY <1>1, <1>2, <1>3, <1>4, <2>1, <2>2 DEF TypeOK
<1>6. ProgressInv
  BY <1>4 DEF Init, ProgressInv
<1>7. QED
  BY <1>5, <1>6 DEF TypeInv

LEMMA TypeStep == TypeInv /\ [Next]_vars => TypeInv'
<1> SUFFICES ASSUME TypeInv, [Next]_vars
             PROVE  TypeInv'
  OBVIOUS
<1> USE DEF TypeInv
<1>0. 0 \in 0..RetryMax /\ 0 \in 0..MaxDoc
  BY RegistryAssumption
<1>1. ASSUME NEW r \in Request, Start(r)
      PROVE  TypeInv'
  <2>1. r.tool \in {"search", "capabilities", "version", "read"} /\ r.ns \in Namespace
        /\ r.version \in 0..MaxVersion
    BY RegistryAssumption DEF Request
  <2>2. target' \in Provider /\ docs' \in 0..MaxDoc /\ before' \in 0..MaxDoc
    BY <1>1, <2>1, RegistryAssumption DEF Start, Resolve, Provider, TypeOK
  <2>3. pc' \in {"read", "latest", "docs", "version_id"}
    BY <1>1, <2>1 DEF Start
  <2>4. latest' \in [Namespace -> SUBSET (0..MaxVersion)]
    BY <1>1 DEF Start, TypeOK
  <2>5. request' = r /\ UNCHANGED <<versions, waiting, attempt, page, found, contents, sections, ok>>
    BY <1>1 DEF Start
  <2>6. found = <<>> /\ page = 1 /\ contents = <<>>
    BY <1>1 DEF Start, ProgressInv
  <2>7. QED
    BY <2>2, <2>3, <2>4, <2>5, <2>6 DEF TypeOK, ProgressInv, Requests
<1>2. ASSUME Limited
      PROVE  TypeInv'
  BY <1>2, RegistryAssumption DEF Limited, TypeOK, ProgressInv, result, history, registry
<1>3. ASSUME Resend
      PROVE  TypeInv'
  BY <1>3 DEF Resend, TypeOK, ProgressInv, result, history, registry
<1>4. ASSUME Fails
      PROVE  TypeInv'
  <2>1. CASE pc = "latest" /\ request.tool = "search"
    BY <1>4, <2>1, RegistryAssumption DEF Fails, Send, TypeOK, ProgressInv, Requests, result, history
  <2>2. CASE pc = "snippet"
    <3>1. contents' = Append(contents, 0) /\ UNCHANGED <<docs, target, page, found, sections, history>>
      BY <1>4, <2>2 DEF Fails
    <3>2. /\ contents' \in Seq(0..MaxDoc) /\ found' = found
          /\ Len(contents') # Len(found) => Len(contents') < Len(found)
      <4>1. 0 \in 0..MaxDoc /\ contents \in Seq(0..MaxDoc) /\ Len(found) \in Nat
        BY RegistryAssumption DEF TypeOK
      <4>2. Len(contents) < Len(found)
        BY <2>2 DEF ProgressInv
      <4>3. QED
        BY <3>1, <4>1, <4>2
    <3>3. \/ Send("answered") /\ ok' = TRUE
          \/ Send("snippet") /\ ok' = ok /\ Len(contents') # Len(found)
      BY <1>4, <2>2 DEF Fails, Answer
    <3>4. QED
      BY <2>2, <3>1, <3>2, <3>3, <1>0 DEF Send, TypeOK, ProgressInv, Requests, history
  <2>3. CASE ~(pc = "latest" /\ request.tool = "search") /\ pc # "snippet"
    <3>1. Send("answered") /\ ok' = FALSE /\ UNCHANGED <<docs, result, history>>
      BY <1>4, <2>3 DEF Fails, Answer
    <3>2. QED
      BY <3>1, <1>0 DEF Send, TypeOK, ProgressInv, Requests, history, result
  <2>4. QED
    BY <2>1, <2>2, <2>3
<1>5. ASSUME GetLatestProviderVersion \/ FallBack
      PROVE  TypeInv'
  <2>1. PICK n \in Namespace : Resolve([ns |-> n, version |-> versions[n]])
    <3>1. target.ns \in Namespace /\ Hashicorp \in Namespace
      BY RegistryAssumption DEF TypeOK, Provider
    <3>2. QED
      BY <1>5, <3>1 DEF GetLatestProviderVersion, FallBack
  <2>2. target' \in Provider /\ docs' \in 0..MaxDoc /\ before' \in 0..MaxDoc
    BY <2>1, RegistryAssumption DEF Resolve, Provider, TypeOK
  <2>3. UNCHANGED <<page, found, contents, sections, latest>> /\ AfterResolve
    BY <1>5 DEF GetLatestProviderVersion, FallBack
  <2>4. pc \in {"latest", "fallback"}
    BY <1>5 DEF GetLatestProviderVersion, FallBack, Answered
  <2>5. \/ Send("answered") /\ ok' = TRUE
        \/ Send("docs") /\ ok' = ok
        \/ Send("version_id") /\ ok' = ok
    BY <2>3 DEF AfterResolve, Answer
  <2>6. QED
    BY <2>2, <2>3, <2>4, <2>5, <1>0 DEF Send, TypeOK, ProgressInv, Requests
<1>6. ASSUME GetDocs
      PROVE  TypeInv'
  <2>1. pc = "docs" /\ UNCHANGED <<docs, target, page, contents, history>>
    BY <1>6 DEF GetDocs, Answered
  <2>2. CASE request.tool = "capabilities"
    <3>1. /\ sections' \in AnalyzeAndFormatCapabilities(docs) /\ found' = found
          /\ Send("answered") /\ ok' \in BOOLEAN
      BY <1>6, <2>2 DEF GetDocs, Answer
    <3>2. sections' \in [DOMAIN sections' -> Shown]
      BY <3>1, SectionsOf DEF TypeOK
    <3> QED
      BY <2>1, <3>1, <3>2, <1>0 DEF Send, TypeOK, ProgressInv, Requests, history
  <2>3. CASE request.tool # "capabilities"
    <3>1. Matching \cap 1..docs \subseteq 1..MaxDoc
      BY RegistryAssumption DEF TypeOK
    <3>2. found' \in InOrder(Matching \cap 1..docs) /\ sections' = sections
      BY <1>6, <2>3 DEF GetDocs
    <3>3. found' \in Seq(1..MaxDoc)
      BY <3>1, <3>2, InOrderType
    <3>4. \/ Send("answered") /\ ok' \in BOOLEAN
          \/ Send("snippet") /\ ok' = ok /\ found' # <<>>
      BY <1>6, <2>3 DEF GetDocs, Describe, Answer
    <3>5. found' # <<>> => Len(found') > 0
      BY <3>3
    <3> QED
      BY <2>1, <3>2, <3>3, <3>4, <3>5, <1>0 DEF Send, TypeOK, ProgressInv, Requests, history
  <2> QED BY <2>2, <2>3
<1>7. ASSUME GetProviderVersionID
      PROVE  TypeInv'
  <2>1. \/ Send("overview") /\ ok' = ok
        \/ Send("page") /\ ok' = ok
    BY <1>7 DEF GetProviderVersionID
  <2>2. pc = "version_id" /\ UNCHANGED <<docs, result, history>>
    BY <1>7 DEF GetProviderVersionID, Answered
  <2>3. QED
    BY <2>1, <2>2, <1>0 DEF Send, TypeOK, ProgressInv, Requests, history, result
<1>8. ASSUME GetPage
      PROVE  TypeInv'
  <2>1. PICK data \in InOrder(Page(page)) :
          IF data = <<>>
          THEN Describe("snippet", found) /\ UNCHANGED <<page, found>>
          ELSE /\ found' = found \o data
               /\ page' = page + 1
               /\ Send("page") /\ UNCHANGED ok
    BY <1>8 DEF GetPage
  <2>2. pc = "page" /\ UNCHANGED <<docs, target, contents, sections, history>> /\ contents = <<>>
    BY <1>8 DEF GetPage, Answered, ProgressInv
  <2>3. Page(page) \subseteq 1..MaxDoc
    BY RegistryAssumption DEF Page, TypeOK
  <2>4. data \in Seq(1..MaxDoc)
    BY <2>3, InOrderType
  <2>5. CASE data = <<>>
    <3>1. UNCHANGED <<page, found>> /\ found \in Seq(1..MaxDoc)
      BY <2>1, <2>5 DEF TypeOK
    <3>2. \/ Send("answered") /\ ok' = FALSE
          \/ Send("snippet") /\ ok' = ok /\ found # <<>>
      BY <2>1, <2>5 DEF Describe, Answer
    <3>3. found # <<>> => Len(found) > 0
      BY <3>1
    <3>4. QED
      BY <2>2, <3>1, <3>2, <3>3, <1>0 DEF Send, TypeOK, ProgressInv, Requests, history
  <2>6. CASE data # <<>>
    <3>1. found' = found \o data /\ page' = page + 1 /\ Send("page") /\ ok' = ok
      BY <2>1, <2>6
    <3>2. found' \in Seq(1..MaxDoc) /\ page' \in Nat \ {0}
      BY <2>4, <3>1 DEF TypeOK
    <3>3. QED
      BY <2>2, <3>1, <3>2, <1>0 DEF Send, TypeOK, ProgressInv, Requests, history
  <2>7. QED
    BY <2>5, <2>6
<1>9. ASSUME GetOverview
      PROVE  TypeInv'
  <2>1. found' \in Seq(1..MaxDoc)
    <3>1. 1..docs \subseteq 1..MaxDoc
      BY RegistryAssumption DEF TypeOK
    <3>2. QED
      BY <1>9, <3>1, InOrderType DEF GetOverview
  <2>2. \/ Send("answered") /\ ok' = TRUE
        \/ Send("content") /\ ok' = ok /\ found' # <<>>
    BY <1>9 DEF GetOverview, Answer
  <2>3. pc = "overview" /\ UNCHANGED <<docs, target, page, contents, sections, history>>
    BY <1>9 DEF GetOverview, Answered
  <2>4. found' # <<>> => Len(found') > 0
    BY <2>1
  <2>5. QED
    BY <2>1, <2>2, <2>3, <2>4, <1>0 DEF Send, TypeOK, ProgressInv, Requests, history
<1>10. ASSUME GetContent
       PROVE  TypeInv'
  <2>1. pc \in {"content", "snippet"} /\ UNCHANGED <<docs, target, page, found, sections, history>>
        /\ contents' = Append(contents, found[Len(contents) + 1])
    BY <1>10 DEF GetContent, Answered
  <2>2. found[Len(contents) + 1] \in 0..MaxDoc
    BY <2>1, RegistryAssumption DEF TypeOK, ProgressInv
  <2>3. /\ contents' \in Seq(0..MaxDoc) /\ found' = found
        /\ Len(contents') # Len(found) => Len(contents') < Len(found)
    <3>1. contents \in Seq(0..MaxDoc) /\ Len(found) \in Nat
      BY DEF TypeOK
    <3>2. Len(contents) < Len(found)
      BY <2>1 DEF ProgressInv
    <3>3. QED
      BY <2>1, <2>2, <3>1, <3>2
  <2>4. \/ Send("answered") /\ ok' = TRUE
        \/ Send(pc) /\ ok' = ok /\ Len(contents') # Len(found)
    BY <1>10 DEF GetContent, Answer
  <2>5. QED
    BY <2>1, <2>3, <2>4, <1>0 DEF Send, TypeOK, ProgressInv, Requests, history
<1>11. ASSUME Read
       PROVE  TypeInv'
  <2>1. Send("answered") /\ ok' = TRUE /\ UNCHANGED <<docs, result, history>>
    BY <1>11 DEF Read, Answer
  <2>2. QED
    BY <2>1, <1>0 DEF Send, TypeOK, ProgressInv, Requests, history, result
<1>12. ASSUME Reply
       PROVE  TypeInv'
  <2>1. NoRequest \in Request /\ [ns |-> Hashicorp, version |-> 0] \in Provider
    BY RegistryAssumption DEF NoRequest, Request, Provider
  <2>2. latest' \in [Namespace -> SUBSET (0..MaxVersion)]
    BY <1>12 DEF Reply
  <2>3. /\ found' = <<>> /\ contents' = <<>>
        /\ found' \in Seq(1..MaxDoc) /\ contents' \in Seq(0..MaxDoc)
        /\ sections' \in [DOMAIN sections' -> Shown]
    BY <1>12 DEF Reply
  <2>4. TypeOK'
    <3>1. /\ versions' = versions /\ waiting' = waiting /\ request' = NoRequest
          /\ target' = [ns |-> Hashicorp, version |-> 0]
          /\ pc' = "idle" /\ attempt' = 0 /\ docs' = 0 /\ before' = 0 /\ page' = 1
      BY <1>12 DEF Reply
    <3>2. ok' \in BOOLEAN
      BY <1>12 DEF Reply
    <3>3. QED
      BY <1>0, <2>1, <2>2, <2>3, <3>1, <3>2 DEF TypeOK
  <2>5. ProgressInv'
    BY <1>12 DEF Reply, ProgressInv
  <2>6. QED
    BY <2>4, <2>5
<1>13. ASSUME NEW n \in Namespace, Publish(n)
       PROVE  TypeInv'
  <2>1. versions[n] + 1 \in 0..MaxVersion
    BY <1>13, RegistryAssumption DEF Publish, TypeOK
  <2>2. versions' \in [Namespace -> 0..MaxVersion] /\ versions'[n] \in 0..MaxVersion
    BY <1>13, <2>1 DEF Publish, TypeOK
  <2>3. latest' \in [Namespace -> SUBSET (0..MaxVersion)]
    BY <1>13, <2>2 DEF Publish, TypeOK
  <2>4. QED
    BY <1>13, <2>2, <2>3 DEF Publish, TypeOK, ProgressInv, result
<1>14. ASSUME AddDoc
       PROVE  TypeInv'
  <2>1. docs' \in 0..MaxDoc
    BY <1>14, RegistryAssumption DEF AddDoc, TypeOK
  <2>2. UNCHANGED <<versions, pc, waiting, attempt, request, result, ok, history>>
    BY <1>14 DEF AddDoc
  <2> QED BY <2>1, <2>2 DEF TypeOK, ProgressInv, result, history
<1>15. CASE UNCHANGED vars
  BY <1>15 DEF vars, registry, result, history, TypeOK, ProgressInv
<1>16. QED
  BY <1>1, <1>2, <1>3, <1>4, <1>5, <1>6, <1>7, <1>8, <1>9, <1>10, <1>11, <1>12, <1>13, <1>14,
     <1>15 DEF Next, Step

\* Every variable keeps its type, and no request is sent more than RetryMax times again.
THEOREM Typing == Spec => []TypeOK
<1>1. TypeInv => TypeOK
  BY DEF TypeInv
<1>2. QED
  BY <1>1, TypeInit, TypeStep, PTL DEF Spec

-----------------------------------------------------------------------------
(* The provider that is answered for *)

\* What AnswerIsOfAskedProvider says of an answer.
Asked ==
  IF request.version # 0 /\ request.tool # "version"
  THEN target = [ns |-> request.ns, version |-> request.version]
  ELSE /\ target.ns = request.ns \/ (target.ns = Hashicorp /\ request.tool = "search")
       /\ target.version \in latest[target.ns] \ {0}

\* The requests that come after the provider is known.
Later == {"docs", "version_id", "page", "overview", "content", "snippet"}

AskedInv ==
  /\ pc # "idle" => \A n \in Namespace : versions[n] \in latest[n]
  /\ pc = "latest" => target.ns = request.ns /\ (request.version = 0 \/ request.tool = "version")
  /\ pc = "fallback" => request.tool = "search" /\ request.version = 0
  /\ pc = "read" => request.tool = "read"
  /\ pc \in Later => Asked
  /\ pc = "answered" /\ ok /\ request.tool # "read" => Asked

LEMMA AskedStep == TypeInv /\ TypeInv' /\ AskedInv /\ [Next]_vars => AskedInv'
<1> SUFFICES ASSUME TypeInv, TypeInv', AskedInv, [Next]_vars
             PROVE  AskedInv'
  OBVIOUS
<1>1. ASSUME NEW r \in Request, Start(r)
      PROVE  AskedInv'
  <2>1. /\ request' = r /\ target' = [ns |-> r.ns, version |-> r.version]
        /\ versions' = versions /\ latest' = [n \in Namespace |-> {versions[n]}]
    BY <1>1 DEF Start, Resolve
  <2>2. r.tool \in {"search", "capabilities", "version", "read"}
    BY DEF Request
  <2>3. \/ pc' = "read" /\ r.tool = "read"
        \/ pc' = "latest" /\ (r.version = 0 \/ r.tool = "version")
        \/ pc' \in {"docs", "version_id"} /\ r.version # 0 /\ r.tool # "version"
    BY <1>1, <2>2 DEF Start
  <2>4. QED
    BY <2>1, <2>3 DEF AskedInv, Asked, Later
<1>2. ASSUME UNCHANGED <<versions, latest, request, target>>,
             pc \in Later \cup {"read", "latest"},
             \/ pc' = pc
             \/ pc \in Later /\ pc' \in Later \cup {"answered"}
             \/ pc = "read" /\ pc' = "answered"
             \/ pc' = "answered" /\ ~ok'
             \/ pc' = "fallback" /\ request.tool = "search" /\ pc = "latest"
      PROVE  AskedInv'
  <2>1. request.tool = "search" /\ pc = "latest" => request.version = 0
    BY <1>2 DEF AskedInv
  <2>2. Asked' <=> Asked
    BY <1>2 DEF Asked
  <2>3. pc # "idle"
    BY <1>2 DEF Later
  <2>4. QED
    BY <1>2, <2>1, <2>2, <2>3 DEF AskedInv, Later
<1>3. ASSUME Limited \/ Resend \/ AddDoc
      PROVE  AskedInv'
  <2>1. UNCHANGED <<versions, latest, request, target, pc, ok>>
    BY <1>3 DEF Limited, Resend, AddDoc, registry, result, history
  <2>2. QED
    BY <2>1 DEF AskedInv, Asked
<1>4. ASSUME Fails
      PROVE  AskedInv'
  <2>1. UNCHANGED <<versions, latest, request, target>> /\ pc \in Requests
    BY <1>4 DEF Fails, Send, Answer, result, history
  <2>2. CASE pc = "fallback"
    <3>1. pc' = "answered" /\ ok' = FALSE
      BY <1>4, <2>2 DEF Fails, Send, Answer
    <3>2. QED
      BY <2>1, <2>2, <3>1 DEF AskedInv, Later
  <2>3. CASE pc # "fallback"
    <3>1. \/ pc' = "fallback" /\ request.tool = "search" /\ pc = "latest"
          \/ pc = "snippet" /\ pc' \in {"snippet", "answered"}
          \/ pc' = "answered" /\ ok' = FALSE
      BY <1>4 DEF Fails, Send, Answer
    <3>2. pc \in Later \cup {"read", "latest"}
      BY <2>1, <2>3 DEF Requests, Later
    <3>3. QED
      BY <1>2, <2>1, <3>1, <3>2 DEF Later
  <2>4. QED
    BY <2>2, <2>3
<1>5. ASSUME GetLatestProviderVersion
      PROVE  AskedInv'
  <2>1. /\ pc = "latest" /\ versions[request.ns] # 0
        /\ target.ns = request.ns /\ (request.version = 0 \/ request.tool = "version")
    BY <1>5 DEF GetLatestProviderVersion, Answered, Missing, AskedInv
  <2>2. /\ target' = [ns |-> request.ns, version |-> versions[request.ns]]
        /\ UNCHANGED <<versions, request, latest>>
        /\ pc' \in {"answered", "docs", "version_id"}
    BY <1>5, <2>1 DEF GetLatestProviderVersion, Resolve, AfterResolve, Answer, Send
  <2>3. versions[request.ns] \in latest[request.ns]
    BY <2>1 DEF AskedInv, TypeInv, TypeOK, Provider
  <2>4. Asked'
    BY <2>1, <2>2, <2>3 DEF Asked
  <2>5. QED
    BY <2>1, <2>2, <2>4 DEF AskedInv
<1>6. ASSUME FallBack
      PROVE  AskedInv'
  <2>1. /\ pc = "fallback" /\ versions[Hashicorp] # 0
        /\ request.tool = "search" /\ request.version = 0
    BY <1>6 DEF FallBack, Answered, Missing, AskedInv
  <2>2. /\ target' = [ns |-> Hashicorp, version |-> versions[Hashicorp]]
        /\ UNCHANGED <<versions, request, latest>>
        /\ pc' \in {"answered", "docs", "version_id"}
    BY <1>6 DEF FallBack, Resolve, AfterResolve, Answer, Send
  <2>3. versions[Hashicorp] \in latest[Hashicorp]
    BY <2>1, RegistryAssumption DEF AskedInv
  <2>4. Asked'
    BY <2>1, <2>2, <2>3 DEF Asked
  <2>5. QED
    BY <2>1, <2>2, <2>4 DEF AskedInv
<1>7. ASSUME GetDocs \/ GetProviderVersionID \/ GetPage \/ GetOverview \/ GetContent \/ Read
      PROVE  AskedInv'
  <2>1. UNCHANGED <<versions, latest, request, target>>
    BY <1>7 DEF GetDocs, GetProviderVersionID, GetPage, GetOverview, GetContent, Read,
                Describe, Answer, Send, result, history
  <2>2. \/ pc \in Later /\ pc' \in Later \cup {"answered"}
        \/ pc = "read" /\ pc' = "answered"
    BY <1>7 DEF GetDocs, GetProviderVersionID, GetPage, GetOverview, GetContent, Read,
                Describe, Answer, Send, Answered, Later
  <2>3. QED
    BY <1>2, <2>1, <2>2
<1>8. ASSUME Reply
      PROVE  AskedInv'
  BY <1>8 DEF Reply, AskedInv, Later
<1>9. ASSUME NEW n \in Namespace, Publish(n)
      PROVE  AskedInv'
  <2>1. /\ UNCHANGED <<request, target, pc, ok>>
        /\ versions' = [versions EXCEPT ![n] = @ + 1]
        /\ latest' = IF pc = "idle" THEN latest
                     ELSE [latest EXCEPT ![n] = @ \cup {versions'[n]}]
    BY <1>9 DEF Publish, result
  <2>2. CASE pc = "idle"
    BY <2>1, <2>2 DEF AskedInv, Later
  <2>3. CASE pc # "idle"
    <3>1. \A m \in Namespace : latest[m] \subseteq latest'[m] /\ versions'[m] \in latest'[m]
      BY <2>1, <2>3 DEF AskedInv, TypeInv, TypeOK
    <3>2. target.ns \in Namespace
      BY DEF TypeInv, TypeOK, Provider
    <3>3. Asked => Asked'
      BY <2>1, <3>1, <3>2 DEF Asked
    <3>4. QED
      BY <2>1, <3>1, <3>3 DEF AskedInv
  <2>4. QED
    BY <2>2, <2>3
<1>10. CASE UNCHANGED vars
  BY <1>10 DEF vars, registry, result, history, AskedInv, Asked
<1>11. QED
  BY <1>1, <1>3, <1>4, <1>5, <1>6, <1>7, <1>8, <1>9, <1>10 DEF Next, Step

\* An answer is of the provider and version that were asked for, or of a version that
\* was the latest during the call, in the asked namespace or in hashicorp.
THEOREM AskedProvider == Spec => []AnswerIsOfAskedProvider
<1>1. Init => AskedInv
  BY DEF Init, AskedInv, Later
<1>2. AskedInv => AnswerIsOfAskedProvider
  BY DEF AskedInv, Asked, AnswerIsOfAskedProvider, HasResult
<1>3. QED
  BY <1>1, <1>2, TypeInit, TypeStep, AskedStep, PTL DEF Spec

-----------------------------------------------------------------------------
(* The documents that are listed *)

Wanted(n) == IF request.type = "resources" THEN Matching \cap 1..n ELSE 1..n
Listed == {found[k] : k \in DOMAIN found}

\* What AnswerComplete says of the list that is found.
ListComplete ==
  Wanted(before) \subseteq Listed /\ Listed \subseteq Wanted(docs) /\ Increasing(found)

\* The pages so far hold the documents up to the last one's end.
PagesInv ==
  /\ Increasing(found) /\ Listed \subseteq 1..docs
  /\ \A d \in Listed : d <= (page - 1) * PageSize
  /\ \A d \in 1..before : d <= (page - 1) * PageSize => d \in Listed

CompleteInv ==
  /\ before <= docs
  /\ pc \in {"latest", "docs"} /\ request.tool # "search" => request.type \notin {"resources", "overview"}
  /\ pc = "docs" => \/ request.tool = "capabilities"
                    \/ request.tool = "search" /\ request.type = "resources"
  /\ pc = "fallback" => request.tool = "search"
  /\ pc = "read" => request.tool = "read"
  /\ pc = "version_id" => request.type # "resources"
  /\ pc \in {"version_id", "page", "overview", "content", "snippet"} => request.tool = "search"
  /\ pc = "page" => request.type \notin {"resources", "overview"} /\ PagesInv
  /\ pc \in {"overview", "content"} => request.type = "overview"
  /\ pc = "snippet" => request.type # "overview"
  /\ pc = "content" => \A k \in DOMAIN contents : contents[k] = found[k]
  /\ pc \in {"content", "snippet"} => ListComplete
  /\ pc = "answered" /\ ok /\ request.tool = "search" =>
       /\ ListComplete
       /\ Len(contents) = Len(found)
       /\ request.type = "overview" => contents = found
  /\ pc = "answered" /\ ok /\ request.tool = "capabilities" => \E n \in before..docs : SurveyOf(n)

\* A list in order of what is wanted now is complete.
LEMMA InOrderComplete ==
  ASSUME TypeInv', before' <= docs', found' \in InOrder(Wanted(docs)'), Wanted(docs)' \subseteq 1..MaxDoc
  PROVE  ListComplete'
<1>1. /\ Increasing(found)' /\ Listed' = Wanted(docs)'
  BY InOrderType DEF Listed, Increasing
<1>2. Wanted(before)' \subseteq Wanted(docs)'
  BY DEF Wanted, TypeInv, TypeOK
<1>3. QED
  BY <1>1, <1>2 DEF ListComplete

\* One page more.
LEMMA NextPage ==
  ASSUME TypeInv, PagesInv, before <= docs, NEW data \in InOrder(Page(page)),
         UNCHANGED <<docs, before>>, found' = found \o data, page' = page + 1
  PROVE  PagesInv'
<1> DEFINE low == (page - 1) * PageSize
           high == page * PageSize
<1>1. /\ page \in Nat \ {0} /\ PageSize \in Nat \ {0} /\ docs \in Nat /\ before \in Nat
      /\ docs <= MaxDoc /\ MaxDoc \in Nat
  BY RegistryAssumption DEF TypeInv, TypeOK
<1>2. low \in Int /\ high \in Int /\ low <= high
  BY <1>1
<1>3. (page' - 1) * PageSize = high
  BY <1>1
<1>4. Page(page) = {d \in 1..docs : low < d /\ d <= high}
  BY DEF Page
<1> HIDE DEF low, high
<1>5. /\ data \in Seq(1..MaxDoc) /\ Increasing(data)
      /\ {data[k] : k \in DOMAIN data} = Page(page)
  <2>1. Page(page) \subseteq 1..MaxDoc
    BY <1>1, <1>4
  <2>2. QED
    BY <2>1, InOrderType
<1>6. /\ found \in Seq(1..MaxDoc) /\ Increasing(found) /\ Listed \subseteq 1..docs
      /\ \A d \in Listed : d <= low
      /\ \A d \in 1..before : d <= low => d \in Listed
  BY DEF PagesInv, TypeInv, TypeOK, low
<1>7. /\ DOMAIN found' = 1..(Len(found) + Len(data))
      /\ \A k \in DOMAIN found : found'[k] = found[k]
      /\ \A k \in DOMAIN data : found'[Len(found) + k] = data[k] /\ Len(found) + k \in DOMAIN found'
      /\ DOMAIN found = 1..Len(found) /\ DOMAIN data = 1..Len(data)
      /\ Len(found) \in Nat /\ Len(data) \in Nat
  BY <1>5, <1>6
<1>8. \A k \in DOMAIN found' : k \in DOMAIN found \/ \E j \in DOMAIN data : k = Len(found) + j
  <2> SUFFICES ASSUME NEW k \in DOMAIN found', k \notin DOMAIN found
               PROVE  \E j \in DOMAIN data : k = Len(found) + j
    OBVIOUS
  <2>1. k - Len(found) \in DOMAIN data /\ k = Len(found) + (k - Len(found))
    BY <1>7
  <2>2. QED
    BY <2>1
<1>9. Listed' = Listed \cup Page(page)
  <2>1. Listed' \subseteq Listed \cup Page(page)
    <3> SUFFICES ASSUME NEW k \in DOMAIN found'
                 PROVE  found'[k] \in Listed \cup Page(page)
      BY DEF Listed
    <3>1. CASE k \in DOMAIN found
      BY <1>7, <3>1 DEF Listed
    <3>2. ASSUME NEW j \in DOMAIN data, k = Len(found) + j
          PROVE  found'[k] \in Page(page)
      BY <1>5, <1>7, <3>2
    <3>3. QED
      BY <1>8, <3>1, <3>2
  <2>2. Listed \subseteq Listed'
    BY <1>7 DEF Listed
  <2>3. Page(page) \subseteq Listed'
    <3> SUFFICES ASSUME NEW j \in DOMAIN data
                 PROVE  data[j] \in Listed'
      BY <1>5
    <3>1. data[j] = found'[Len(found) + j] /\ Len(found) + j \in DOMAIN found'
      BY <1>7
    <3>2. QED
      BY <3>1 DEF Listed
  <2>4. QED
    BY <2>1, <2>2, <2>3
<1>10. Increasing(found)'
  <2> SUFFICES ASSUME NEW j \in DOMAIN found', NEW k \in DOMAIN found', j < k
               PROVE  found'[j] < found'[k]
    BY DEF Increasing
  <2>1. CASE k \in DOMAIN found
    <3>1. j \in DOMAIN found
      BY <1>7, <2>1
    <3>2. QED
      BY <1>6, <1>7, <2>1, <3>1 DEF Increasing
  <2>2. ASSUME NEW b \in DOMAIN data, k = Len(found) + b
        PROVE  found'[j] < found'[k]
    <3>1. data[b] \in Page(page) /\ found'[k] = data[b]
      BY <1>5, <1>7, <2>2
    <3>2. CASE j \in DOMAIN found
      <4>1. found'[j] \in Listed
        BY <1>7, <3>2 DEF Listed
      <4>2. found'[j] \in 1..docs
        BY <1>6, <4>1
      <4>3. found'[j] \in Int /\ found'[j] <= low
        BY <1>1, <1>6, <4>1, <4>2
      <4>4. data[b] \in Int /\ low < data[b]
        BY <1>4, <3>1
      <4>5. QED
        BY <1>2, <3>1, <4>3, <4>4
    <3>3. ASSUME NEW a \in DOMAIN data, j = Len(found) + a
          PROVE  found'[j] < found'[k]
      BY <1>5, <1>7, <2>2, <3>3 DEF Increasing
    <3>4. QED
      BY <1>8, <3>2, <3>3
  <2>3. QED
    BY <1>8, <2>1, <2>2
<1>11. \A d \in Listed' : d \in 1..docs /\ d <= high
  <2> SUFFICES ASSUME NEW d \in Listed'
               PROVE  d \in 1..docs /\ d <= high
    OBVIOUS
  <2>1. CASE d \in Page(page)
    BY <1>4, <2>1
  <2>2. CASE d \in Listed
    <3>1. d \in 1..docs /\ d <= low
      BY <1>6, <2>2
    <3>2. QED
      BY <1>1, <1>2, <3>1
  <2>3. QED
    BY <1>9, <2>1, <2>2
<1>12. \A d \in 1..before : d <= high => d \in Listed'
  BY <1>1, <1>2, <1>4, <1>6, <1>9
<1>13. QED
  BY <1>3, <1>10, <1>11, <1>12 DEF PagesInv

\* After an empty page, nothing is missing.
LEMMA LastPage ==
  ASSUME TypeInv, PagesInv, before <= docs, <<>> \in InOrder(Page(page)),
         request.type # "resources"
  PROVE  ListComplete
<1> DEFINE low == (page - 1) * PageSize
           high == page * PageSize
<1>1. /\ page \in Nat \ {0} /\ PageSize \in Nat \ {0} /\ docs \in Nat /\ before \in Nat
      /\ docs <= MaxDoc /\ MaxDoc \in Nat
  BY RegistryAssumption DEF TypeInv, TypeOK
<1>2. low \in Nat /\ high \in Nat /\ low < high
  BY <1>1
<1>3. Page(page) = {d \in 1..docs : low < d /\ d <= high} /\ Page(page) \subseteq 1..MaxDoc
  BY <1>1 DEF Page
<1> HIDE DEF low, high
<1>4. Page(page) = {}
  <2> DEFINE none == <<>>
  <2>1. {none[k] : k \in DOMAIN none} = Page(page)
    BY <1>3, InOrderType
  <2>2. DOMAIN none = {}
    OBVIOUS
  <2> QED BY <2>1, <2>2
<1>5. low + 1 \notin Page(page)
  BY <1>4
<1>6. docs <= low
  BY <1>1, <1>2, <1>3, <1>5
<1>7. \A d \in 1..before : d \in Listed
  BY <1>1, <1>2, <1>6 DEF PagesInv, low
<1>8. QED
  BY <1>7 DEF ListComplete, PagesInv, Wanted

LEMMA CompleteStep == TypeInv /\ TypeInv' /\ CompleteInv /\ [Next]_vars => CompleteInv'
<1> SUFFICES ASSUME TypeInv, TypeInv', CompleteInv, [Next]_vars
             PROVE  CompleteInv'
  OBVIOUS
<1>1. ASSUME NEW r \in Request, Start(r)
      PROVE  CompleteInv'
  <2>1. request' = r /\ before' = docs' /\ docs' \in Nat
    BY <1>1, RegistryAssumption DEF Start, Resolve, TypeInv, TypeOK
  <2>2. /\ r.tool \in {"search", "capabilities", "version", "read"}
        /\ r.tool # "search" => r.type \notin {"resources", "overview"}
    BY DEF Request
  <2>3. \/ pc' = "read" /\ r.tool = "read"
        \/ pc' = "latest"
        \/ pc' = "docs" /\ r.tool = "capabilities"
        \/ pc' = "docs" /\ r.tool = "search" /\ r.type = "resources"
        \/ pc' = "version_id" /\ r.type # "resources" /\ r.tool = "search"
    BY <1>1, <2>2 DEF Start
  <2>4. QED
    BY <2>1, <2>2, <2>3 DEF CompleteInv
<1>2. ASSUME Limited \/ Resend \/ UNCHANGED vars
      PROVE  CompleteInv'
  <2>1. UNCHANGED <<docs, before, request, found, contents, sections, page, pc, ok>>
    BY <1>2 DEF Limited, Resend, vars, registry, result, history
  <2>2. /\ (Listed' = Listed) /\ (ListComplete' <=> ListComplete) /\ (PagesInv' <=> PagesInv)
        /\ \A n : SurveyOf(n)' <=> SurveyOf(n)
    BY <2>1 DEF Listed, ListComplete, PagesInv, Wanted, Increasing, SurveyOf
  <2>3. QED
    BY <2>1, <2>2 DEF CompleteInv
<1>3. ASSUME AddDoc \/ \E n \in Namespace : Publish(n)
      PROVE  CompleteInv'
  <2>1. /\ UNCHANGED <<before, request, found, contents, sections, page, pc, ok>>
        /\ docs' = docs \/ docs' = docs + 1
    BY <1>3 DEF AddDoc, Publish, result, history
  <2>2. docs \in Nat /\ before \in Nat
    BY RegistryAssumption DEF TypeInv, TypeOK
  <2>3. 1..docs \subseteq 1..docs' /\ (before <= docs => before <= docs')
    BY <2>1, <2>2
  <2>4. /\ Listed' = Listed /\ Wanted(before)' = Wanted(before) /\ Wanted(docs) \subseteq Wanted(docs)'
        /\ Increasing(found)' = Increasing(found)
    BY <2>1, <2>3 DEF Listed, Wanted, Increasing
  <2>5. (ListComplete => ListComplete') /\ (PagesInv => PagesInv')
    BY <2>1, <2>3, <2>4 DEF ListComplete, PagesInv
  <2>6. /\ before..docs \subseteq before..docs'
        /\ \A n : SurveyOf(n)' <=> SurveyOf(n)
    BY <2>1, <2>2 DEF SurveyOf, Increasing
  <2>7. QED
    BY <2>1, <2>3, <2>5, <2>6 DEF CompleteInv
<1>4. ASSUME Fails
      PROVE  CompleteInv'
  <2>1. UNCHANGED <<docs, before, request, found, page>>
    BY <1>4 DEF Fails, Send, Answer, result, history
  <2>2. Listed' = Listed /\ (ListComplete' <=> ListComplete)
    BY <2>1 DEF Listed, ListComplete, Wanted, Increasing
  <2>3. \/ pc = "latest" /\ request.tool = "search" /\ pc' = "fallback"
        \/ pc' = "answered" /\ ok' = FALSE
        \/ pc = "snippet" /\ pc' = "snippet"
        \/ pc = "snippet" /\ pc' = "answered" /\ Len(contents') = Len(found)
    BY <1>4 DEF Fails, Send, Answer
  <2>4. QED
    BY <2>1, <2>2, <2>3 DEF CompleteInv
<1>5. ASSUME GetLatestProviderVersion \/ FallBack
      PROVE  CompleteInv'
  <2>1. before' = docs' /\ docs' \in Nat /\ request' = request
    BY <1>5, RegistryAssumption
       DEF GetLatestProviderVersion, FallBack, Resolve, AfterResolve, Answer, Send, TypeInv, TypeOK
  <2>2. pc = "latest" \/ pc = "fallback"
    BY <1>5 DEF GetLatestProviderVersion, FallBack, Answered
  <2>3. \/ pc' = "answered" /\ request.tool = "version"
        \/ pc' = "docs" /\ request.tool = "capabilities"
        \/ pc' = "docs" /\ request.tool = "search" /\ request.type = "resources"
        \/ pc' = "version_id" /\ request.type # "resources" /\ request.tool = "search"
    BY <1>5 DEF GetLatestProviderVersion, FallBack, AfterResolve, Answer, Send
  <2>4. QED
    BY <2>1, <2>2, <2>3 DEF CompleteInv
<1>6. ASSUME GetDocs
      PROVE  CompleteInv'
  <2>1. pc = "docs" /\ UNCHANGED <<docs, before, request, page, contents>>
    BY <1>6 DEF GetDocs, Answered, Describe, Answer, Send, history
  <2>2. CASE request.tool = "capabilities"
    <3>1. sections' \in AnalyzeAndFormatCapabilities(docs) /\ pc' = "answered"
      BY <1>6, <2>2 DEF GetDocs, Answer, Send
    <3>2. docs \in 0..MaxDoc /\ before \in 0..MaxDoc /\ before <= docs /\ MaxDoc \in Nat
      BY RegistryAssumption DEF TypeInv, TypeOK, CompleteInv
    <3>3. \A n : n \in 0..MaxDoc /\ sections' \in AnalyzeAndFormatCapabilities(n) => SurveyOf(n)'
      BY SurveyRight
    <3>4. \E n \in before'..docs' : SurveyOf(n)'
      BY <2>1, <3>1, <3>2, <3>3
    <3> QED BY <2>1, <2>2, <3>1, <3>2, <3>4 DEF CompleteInv
  <2>3. CASE request.tool # "capabilities"
    <3>1. Wanted(docs)' \subseteq 1..MaxDoc
      BY <2>1, RegistryAssumption DEF Wanted, TypeInv, TypeOK
    <3>2. request.type = "resources" /\ request.tool = "search" /\ found' \in InOrder(Wanted(docs)')
      BY <1>6, <2>1, <2>3 DEF GetDocs, CompleteInv, Wanted
    <3>3. ListComplete'
      BY <2>1, <3>1, <3>2, InOrderComplete DEF CompleteInv
    <3>4. (pc' = "answered" /\ ok' = FALSE) \/ pc' = "snippet"
      BY <1>6, <2>3 DEF GetDocs, Describe, Answer, Send
    <3> QED BY <2>1, <2>3, <3>2, <3>3, <3>4 DEF CompleteInv
  <2> QED BY <2>2, <2>3
<1>7. ASSUME GetProviderVersionID
      PROVE  CompleteInv'
  <2>1. /\ pc = "version_id" /\ UNCHANGED <<docs, before, request, page, found, contents>>
        /\ pc' = IF request.type = "overview" THEN "overview" ELSE "page"
    BY <1>7 DEF GetProviderVersionID, Answered, Send, result, history
  <2>2. page = 1 /\ found = <<>>
    BY <2>1 DEF TypeInv, ProgressInv
  <2>3. PagesInv'
    <3>1. (page' - 1) * PageSize = 0
      BY <2>1, <2>2, RegistryAssumption
    <3>2. DOMAIN found' = {} /\ Listed' = {}
      BY <2>1, <2>2 DEF Listed
    <3>3. QED
      BY <3>1, <3>2 DEF PagesInv, Increasing
  <2>4. QED
    BY <2>1, <2>3 DEF CompleteInv
<1>8. ASSUME GetPage
      PROVE  CompleteInv'
  <2>1. /\ pc = "page" /\ UNCHANGED <<docs, before, request, contents>>
        /\ request.type \notin {"resources", "overview"} /\ PagesInv /\ before <= docs
    BY <1>8 DEF GetPage, Answered, Describe, Answer, Send, history, CompleteInv
  <2>2. PICK data \in InOrder(Page(page)) :
          IF data = <<>>
          THEN Describe("snippet", found) /\ UNCHANGED <<page, found>>
          ELSE /\ found' = found \o data
               /\ page' = page + 1
               /\ Send("page") /\ UNCHANGED ok
    BY <1>8 DEF GetPage
  <2>3. CASE data = <<>>
    <3>1. ListComplete
      BY <2>1, <2>2, <2>3, LastPage
    <3>2. UNCHANGED found /\ (pc' = "snippet" \/ (pc' = "answered" /\ ok' = FALSE))
      BY <2>2, <2>3 DEF Describe, Answer, Send
    <3>3. ListComplete'
      BY <2>1, <3>1, <3>2 DEF ListComplete, Listed, Wanted, Increasing
    <3>4. QED
      BY <2>1, <3>2, <3>3 DEF CompleteInv
  <2>4. CASE data # <<>>
    <3>1. pc' = "page" /\ found' = found \o data /\ page' = page + 1
      BY <2>2, <2>4 DEF Send
    <3>2. PagesInv'
      BY <2>1, <3>1, NextPage
    <3>3. QED
      BY <2>1, <3>1, <3>2 DEF CompleteInv
  <2>5. QED
    BY <2>3, <2>4
<1>9. ASSUME GetOverview
      PROVE  CompleteInv'
  <2>1. /\ pc = "overview" /\ UNCHANGED <<docs, before, request, page, contents>>
        /\ request.type = "overview" /\ contents = <<>>
    BY <1>9 DEF GetOverview, Answered, Answer, Send, history, CompleteInv, TypeInv, ProgressInv
  <2>2. Wanted(docs)' \subseteq 1..MaxDoc /\ found' \in InOrder(Wanted(docs)')
    BY <1>9, <2>1, RegistryAssumption DEF GetOverview, Wanted, TypeInv, TypeOK
  <2>3. ListComplete'
    BY <2>1, <2>2, InOrderComplete DEF CompleteInv
  <2>4. pc' = "content" \/ (pc' = "answered" /\ found' = <<>>)
    BY <1>9 DEF GetOverview, Answer, Send
  <2>5. QED
    BY <2>1, <2>3, <2>4 DEF CompleteInv
<1>10. ASSUME GetContent
       PROVE  CompleteInv'
  <2>1. /\ pc \in {"content", "snippet"}
        /\ UNCHANGED <<docs, before, request, page, found>>
        /\ contents' = Append(contents, found[Len(contents) + 1])
        /\ pc' = pc \/ (pc' = "answered" /\ Len(contents') = Len(found))
    BY <1>10 DEF GetContent, Answered, Answer, Send, history
  <2>2. ListComplete'
    BY <2>1 DEF CompleteInv, ListComplete, Listed, Wanted, Increasing
  <2>3. contents \in Seq(0..MaxDoc) /\ found \in Seq(1..MaxDoc)
    BY DEF TypeInv, TypeOK
  <2>4. pc = "content" => \A k \in DOMAIN contents' : contents'[k] = found'[k]
    BY <2>1, <2>3 DEF CompleteInv
  <2>5. pc = "content" /\ pc' = "answered" => contents' = found'
    BY <2>1, <2>3, <2>4
  <2>6. QED
    BY <2>1, <2>2, <2>4, <2>5 DEF CompleteInv
<1>11. ASSUME Read
       PROVE  CompleteInv'
  <2>1. pc = "read" /\ pc' = "answered" /\ UNCHANGED <<docs, before, request>>
    BY <1>11 DEF Read, Answered, Answer, Send, history
  <2>2. request.tool = "read"
    BY <2>1 DEF CompleteInv
  <2>3. QED
    BY <2>1, <2>2 DEF CompleteInv
<1>12. ASSUME Reply
       PROVE  CompleteInv'
  BY <1>12 DEF Reply, CompleteInv
<1>13. QED
  BY <1>1, <1>2, <1>3, <1>4, <1>5, <1>6, <1>7, <1>8, <1>9, <1>10, <1>11, <1>12 DEF Next, Step

\* Whatever was added while the pages were read, a search lists every document that
\* was there when the version was resolved, once and in order, with its contents; a
\* survey gives, of the documents there were at one time, the hcl ones by category,
\* their numbers, and the first of each (search_providers.go:110-145, 210-246,
\* get_provider_capabilities.go:104-145).
THEOREM CompleteAnswers == Spec => []AnswerComplete
<1>1. Init => CompleteInv
  BY DEF Init, CompleteInv
<1>2. CompleteInv => AnswerComplete
  BY DEF CompleteInv, ListComplete, Listed, Wanted, AnswerComplete, SearchComplete, HasResult
<1>3. QED
  BY <1>1, <1>2, TypeInit, TypeStep, CompleteStep, PTL DEF Spec

-----------------------------------------------------------------------------
(* A call comes to its end.  That it does is EveryCallAnswered; what is     *)
(* proved is that it can take no endless number of steps.                   *)

\* How far the present request is from the answer.
Stage ==
  CASE pc = "latest" -> 5
    [] pc = "fallback" -> 4
    [] pc \in {"docs", "version_id"} -> 3
    [] pc \in {"page", "overview"} -> 2
    [] pc \in {"content", "snippet", "read"} -> 1
    [] OTHER -> 0

\* What is left at this stage: pages that may hold a document, or contents.
Left ==
  CASE pc = "page" -> MaxDoc + 1 - page
    [] pc \in {"content", "snippet"} -> Len(found) - Len(contents)
    [] OTHER -> 0

\* What is left of the request: its retries, each with its wait.
Tries == 2 * (RetryMax - attempt) + (IF waiting THEN 1 ELSE 0)

Below == {mn \in Nat \X Nat : mn[1] < mn[2]}
Triples == Nat \X (Nat \X Nat)
Nearer == LexPairOrdering(Below, LexPairOrdering(Below, Below, Nat, Nat), Nat, Nat \X Nat)

Rank == <<Stage, <<Left, Tries>>>>

\* There is no endless descent.
LEMMA NearerEnds == IsWellFoundedOn(Nearer, Triples)
<1>1. IsWellFoundedOn(Below, Nat)
  <2>1. Below = OpToRel(<, Nat)
    BY DEF Below, OpToRel
  <2> QED BY <2>1, NatLessThanWellFounded
<1>2. IsWellFoundedOn(LexPairOrdering(Below, Below, Nat, Nat), Nat \X Nat)
  BY <1>1, WFLexPairOrdering
<1> QED BY <1>1, <1>2, WFLexPairOrdering DEF Nearer, Triples

LEMMA NearerIf ==
  ASSUME NEW a \in Nat, NEW b \in Nat, NEW c \in Nat, NEW x \in Nat, NEW y \in Nat, NEW z \in Nat,
         a < x \/ (a = x /\ (b < y \/ (b = y /\ c < z)))
  PROVE  <<<<a, <<b, c>>>>, <<x, <<y, z>>>>>> \in Nearer
<1>1. \A m, n \in Nat : m < n => <<m, n>> \in Below
  BY DEF Below
<1> DEFINE Inner == LexPairOrdering(Below, Below, Nat, Nat)
           p == <<b, c>>
           q == <<y, z>>
<1>2. b < y \/ (b = y /\ c < z) => <<p, q>> \in Inner
  BY <1>1 DEF LexPairOrdering
<1>3. p \in Nat \X Nat /\ q \in Nat \X Nat /\ (b = y /\ c = z => p = q)
  OBVIOUS
<1> HIDE DEF Inner, p, q
<1>4. <<<<a, p>>, <<x, q>>>> \in LexPairOrdering(Below, Inner, Nat, Nat \X Nat)
  BY <1>1, <1>2, <1>3 DEF LexPairOrdering
<1> QED BY <1>4 DEF Nearer, Inner, p, q

\* No page is asked for beyond the first one that is empty.
PageBound == page <= MaxDoc + 1

LEMMA PageStep == TypeInv /\ PageBound /\ [Next]_vars => PageBound'
<1> SUFFICES ASSUME TypeInv, PageBound, [Next]_vars PROVE PageBound'
  OBVIOUS
<1>1. MaxDoc \in Nat /\ PageSize \in Nat \ {0} /\ page \in Nat \ {0} /\ docs \in 0..MaxDoc
  BY RegistryAssumption DEF TypeInv, TypeOK
<1>2. CASE page' = page
  BY <1>2 DEF PageBound
<1>3. CASE page' = 1
  BY <1>1, <1>3 DEF PageBound
<1>4. CASE GetPage
  <2>1. PICK data \in InOrder(Page(page)) :
          \/ page' = page
          \/ data # <<>> /\ page' = page + 1
    BY <1>4 DEF GetPage, Describe
  <2>2. CASE data # <<>> /\ page' = page + 1
    <3>1. Page(page) \subseteq 1..MaxDoc
      BY <1>1 DEF Page
    <3>2. data \in Seq(1..MaxDoc) /\ {data[k] : k \in DOMAIN data} = Page(page)
      BY <3>1, InOrderType
    <3>3. 1 \in DOMAIN data
      BY <2>2, <3>2
    <3>4. data[1] \in Page(page)
      BY <3>2, <3>3
    <3>5. (page - 1) * PageSize < data[1] /\ data[1] \in 1..docs
      BY <3>4 DEF Page
    <3>6. \A n, s \in Nat : s # 0 => n <= n * s
      BY SMTT(30)
    <3>7. page - 1 \in Nat /\ page - 1 <= (page - 1) * PageSize
      BY <1>1, <3>6
    <3>8. (page - 1) * PageSize \in Nat
      BY <1>1, <3>7
    <3> QED BY <1>1, <2>2, <3>5, <3>7, <3>8 DEF PageBound
  <2> QED BY <1>2, <2>1, <2>2
<1>5. CASE UNCHANGED vars
  BY <1>5 DEF vars, result, PageBound
<1> QED
  BY <1>2, <1>3, <1>4, <1>5 DEF Next, Step, Start, Reply, Publish, AddDoc, Limited, Resend, Fails,
     GetLatestProviderVersion, FallBack, GetDocs, GetProviderVersionID, GetOverview, GetContent,
     Read, result, registry

\* The parts of the rank are numbers.
RankOK == Stage \in Nat /\ Left \in Nat /\ Tries \in Nat

LEMMA RankType == TypeInv /\ PageBound => RankOK
<1> SUFFICES ASSUME TypeInv, PageBound PROVE RankOK
  OBVIOUS
<1>1. /\ MaxDoc \in Nat /\ RetryMax \in Nat /\ page \in Nat /\ page <= MaxDoc + 1
      /\ attempt \in 0..RetryMax /\ waiting \in BOOLEAN
      /\ Len(found) \in Nat /\ Len(contents) \in Nat
      /\ pc \in {"content", "snippet"} => Len(contents) < Len(found)
  BY RegistryAssumption DEF TypeInv, TypeOK, ProgressInv, PageBound
<1>2. Stage \in Nat
  BY DEF Stage
<1>3. Left \in Nat
  BY <1>1 DEF Left
<1>4. Tries \in Nat
  BY <1>1 DEF Tries
<1> QED BY <1>2, <1>3, <1>4 DEF RankOK

\* Every step of a call brings it nearer to its answer.
LEMMA StepAdvances ==
  ASSUME TypeInv, TypeInv', PageBound, PageBound', Step
  PROVE  <<Rank', Rank>> \in Nearer
<1> DEFINE lower == \/ Stage' < Stage
                    \/ /\ Stage' = Stage
                       /\ Left' < Left \/ (Left' = Left /\ Tries' < Tries)
<1>1. lower => <<Rank', Rank>> \in Nearer
  <2>1. RankOK /\ RankOK'
    BY RankType, PTL
  <2>2. /\ Stage \in Nat /\ Left \in Nat /\ Tries \in Nat
        /\ Stage' \in Nat /\ Left' \in Nat /\ Tries' \in Nat
    BY <2>1 DEF RankOK
  <2>3. Rank = <<Stage, <<Left, Tries>>>> /\ Rank' = <<Stage', <<Left', Tries'>>>>
    BY DEF Rank
  <2> HIDE DEF Rank, Stage, Left, Tries
  <2> QED BY <2>1, <2>2, <2>3, NearerIf
<1>2. /\ MaxDoc \in Nat /\ RetryMax \in Nat /\ page \in Nat
      /\ attempt \in 0..RetryMax /\ waiting \in BOOLEAN /\ pc \in Requests \cup {"idle", "answered"}
      /\ contents \in Seq(0..MaxDoc) /\ Len(found) \in Nat /\ Len(contents) \in Nat
  BY RegistryAssumption DEF TypeInv, TypeOK
\* The same request, with a retry or a wait less.
<1>3. CASE Limited \/ Resend
  <2>1. UNCHANGED <<pc, page, found, contents>>
    BY <1>3 DEF Limited, Resend, result
  <2>2. Stage' = Stage /\ Left' = Left
    BY <2>1 DEF Stage, Left
  <2>3. Tries' < Tries
    BY <1>2, <1>3 DEF Limited, Resend, Tries
  <2> QED BY <1>1, <2>2, <2>3
\* One content more, or one that is left out.
<1>4. ASSUME pc \in {"content", "snippet"}, pc' = pc, UNCHANGED found,
             NEW c \in 0..MaxDoc, contents' = Append(contents, c)
      PROVE  lower
  <2>1. Stage' = Stage
    BY <1>4 DEF Stage
  <2>2. Len(contents') = Len(contents) + 1
    BY <1>2, <1>4
  <2>3. Left = Len(found) - Len(contents) /\ Left' = Len(found) - Len(contents')
    BY <1>4 DEF Left
  <2>4. Left' < Left
    BY <1>2, <2>2, <2>3
  <2> QED BY <2>1, <2>4
\* The next page.
<1>5. ASSUME pc = "page", pc' = "page", page' = page + 1
      PROVE  lower
  <2>1. Stage' = Stage /\ Left = MaxDoc + 1 - page /\ Left' = MaxDoc + 1 - page'
    BY <1>5 DEF Stage, Left
  <2> QED BY <1>2, <1>5, <2>1
<1> HIDE DEF lower
\* The next stage.
<1>6. ASSUME pc' = "answered", pc \in Requests
      PROVE  lower
  BY <1>6 DEF Stage, Requests, lower
<1>7. CASE Fails
  <2>1. pc \in Requests
    BY <1>7 DEF Fails
  <2>2. \/ pc = "latest" /\ pc' = "fallback"
        \/ pc' = "answered"
        \/ pc = "snippet" /\ pc' = pc /\ UNCHANGED found /\ contents' = Append(contents, 0)
    BY <1>7 DEF Fails, Send, Answer
  <2>3. ASSUME pc = "latest", pc' = "fallback" PROVE lower
    BY <2>3 DEF Stage, lower
  <2>4. 0 \in 0..MaxDoc
    BY <1>2
  <2>5. lower
    BY <1>4, <1>6, <2>1, <2>2, <2>3, <2>4
  <2> QED BY <1>1, <2>5
<1>8. CASE GetLatestProviderVersion \/ FallBack
  <2>1. pc \in {"latest", "fallback"} /\ pc' \in {"answered", "docs", "version_id"}
    BY <1>8 DEF GetLatestProviderVersion, FallBack, Answered, AfterResolve, Answer, Send
  <2>2. lower
    BY <2>1 DEF Stage, lower
  <2> QED BY <1>1, <2>2
<1>9. CASE GetDocs \/ GetProviderVersionID
  <2>1. pc \in {"docs", "version_id"} /\ pc' \in {"answered", "snippet", "page", "overview"}
    BY <1>9 DEF GetDocs, GetProviderVersionID, Answered, Describe, Answer, Send
  <2>2. lower
    BY <2>1 DEF Stage, lower
  <2> QED BY <1>1, <2>2
<1>10. CASE GetOverview
  <2>1. pc = "overview" /\ pc' \in {"answered", "content"}
    BY <1>10 DEF GetOverview, Answered, Answer, Send
  <2>2. lower
    BY <2>1 DEF Stage, lower
  <2> QED BY <1>1, <2>2
<1>11. CASE GetPage
  <2>1. pc = "page" /\ (pc' \in {"answered", "snippet"} \/ (pc' = "page" /\ page' = page + 1))
    BY <1>11 DEF GetPage, Answered, Describe, Answer, Send
  <2>2. ASSUME pc' \in {"answered", "snippet"} PROVE lower
    BY <2>1, <2>2 DEF Stage, lower
  <2>3. lower
    BY <1>5, <2>1, <2>2
  <2> QED BY <1>1, <2>3
<1>12. CASE GetContent
  <2>1. /\ pc \in {"content", "snippet"} /\ pc' \in {pc, "answered"} /\ UNCHANGED found
        /\ contents' = Append(contents, found[Len(contents) + 1])
    BY <1>12 DEF GetContent, Answered, Answer, Send
  <2>2. found[Len(contents) + 1] \in 0..MaxDoc
    <3>1. found \in Seq(1..MaxDoc) /\ Len(contents) < Len(found)
      BY <2>1 DEF TypeInv, TypeOK, ProgressInv
    <3>2. Len(contents) + 1 \in 1..Len(found)
      BY <1>2, <3>1
    <3>3. \A T : \A s \in Seq(T) : \A i \in 1..Len(s) : s[i] \in T
      OBVIOUS
    <3>4. found[Len(contents) + 1] \in 1..MaxDoc
      BY <3>1, <3>2, <3>3
    <3> QED BY <1>2, <3>4
  <2>3. lower
    BY <1>4, <1>6, <2>1, <2>2 DEF Requests
  <2> QED BY <1>1, <2>3
<1>13. CASE Read
  <2>1. pc = "read" /\ pc' = "answered"
    BY <1>13 DEF Read, Answered, Answer, Send
  <2> QED BY <1>1, <1>6, <2>1 DEF Requests
<1> QED BY <1>3, <1>7, <1>8, <1>9, <1>10, <1>11, <1>12, <1>13 DEF Step

\* The registry cannot put a call off: what it publishes is no farther to go.
LEMMA RegistryWaits ==
  ASSUME AddDoc \/ \E n \in Namespace : Publish(n)
  PROVE  Rank' = Rank
<1>1. UNCHANGED <<pc, page, found, contents, attempt, waiting>>
  BY DEF AddDoc, Publish, result
<1> QED BY <1>1 DEF Rank, Stage, Left, Tries

\* A call makes only so many requests, retries and waits, whatever the registry answers
\* and publishes meanwhile: each step brings it nearer to its answer, and nothing but the
\* next call takes it away again (registry.go:41-60, 107-134, search_providers.go:173-246).
THEOREM CallsAdvance ==
  Spec => [][ /\ Step => <<Rank', Rank>> \in Nearer
              /\ (AddDoc \/ \E n \in Namespace : Publish(n)) => Rank' = Rank ]_vars
<1>1. Init => PageBound
  BY RegistryAssumption DEF Init, PageBound
<1>2. Spec => []TypeInv
  BY TypeInit, TypeStep, PTL DEF Spec
<1>3. Spec => []PageBound
  BY <1>1, <1>2, PageStep, PTL DEF Spec
<1>4. TypeInv /\ TypeInv' /\ PageBound /\ PageBound' /\ [Next]_vars =>
        [ /\ Step => <<Rank', Rank>> \in Nearer
          /\ (AddDoc \/ \E n \in Namespace : Publish(n)) => Rank' = Rank ]_vars
  BY StepAdvances, RegistryWaits
<1> QED BY <1>2, <1>3, <1>4, PTL DEF Spec
=============================================================================
