--------------------------- MODULE RegistryClient ---------------------------
(***************************************************************************)
(* A call of a tool that reads the public Terraform registry: the HTTP     *)
(* requests that SendRegistryCall makes for it, one after another, with    *)
(* their retries (pkg/client/registry.go), and what the tool does with     *)
(* each answer (pkg/client/common.go, pkg/tools/registry).                 *)
(*                                                                         *)
(* The registry changes between two requests: it publishes versions of a   *)
(* provider and adds documents to a version.  Requests fail, and the       *)
(* registry answers 429 with the time at which to try again.  Calls share  *)
(* nothing but an http.Client, so one call is enough.                      *)
(***************************************************************************)
EXTENDS Integers, Sequences, FiniteSets

CONSTANTS
  Namespace,  \* namespaces that may hold the provider that is asked for
  Hashicorp,  \* the namespace to fall back to
  MaxVersion, \* bound on the versions of a provider, which are 1, 2, ...
  MaxDoc,     \* bound on the documents of a version, which are 1, 2, ...
  Hcl,        \* the documents for the hcl language; providers have them for others too
  CategoryOf, \* the category of each document
  Matching,   \* the hcl documents that match the asked slug and type
  ShowAll,    \* the longest category that is shown as a whole (10 in the code)
  ShowFew,    \* what is shown of a longer one (3 in the code)
  PageSize,   \* documents on a page of the registry
  RetryMax    \* retries of one request

ASSUME RegistryAssumption ==
  /\ Hashicorp \in Namespace
  /\ MaxVersion \in Nat /\ MaxDoc \in Nat /\ RetryMax \in Nat
  /\ PageSize \in Nat \ {0}
  /\ Matching \subseteq Hcl /\ Hcl \subseteq Nat \ {0}
  /\ ShowAll \in Nat /\ ShowFew \in 0..ShowAll

VARIABLES
  versions,   \* versions[n]: how many versions of the provider n has published
  docs,       \* how many documents the version that target names has
  pc,         \* the request that is on its way, or "idle" or "answered"
  waiting,    \* a retry waits for the registry's reset time
  attempt,    \* retries of the present request so far
  request,    \* the call's arguments; version 0 asks for the latest
  target,     \* the ProviderDetail that the call has resolved
  page,       \* the page that is asked for
  found,      \* the documents found so far
  contents,   \* per document: itself if its content was read, 0 if that failed
  sections,   \* per category: how many documents it has, and those that are shown
  ok,         \* the answer is a result and not an error
  before,     \* history: how many documents target had when it was resolved
  latest      \* history: latest[n], the versions that were n's latest during the call

registry == <<versions, docs>>
result == <<target, page, found, contents, sections>>
history == <<before, latest>>
vars == <<registry, pc, waiting, attempt, request, result, ok, history>>

Request ==
  [tool : {"search"}, type : {"resources", "guides", "overview"},
   ns : Namespace, version : 0..MaxVersion]
  \cup [tool : {"capabilities"}, type : {"all"}, ns : Namespace, version : 0..MaxVersion]
  \cup [tool : {"version"}, type : {"none"}, ns : Namespace, version : {0}]
  \cup [tool : {"read"}, type : {"none"}, ns : {Hashicorp}, version : {0}]
Provider == [ns : Namespace, version : 0..MaxVersion]
Shown == [available : 0..MaxDoc, shown : Seq(1..MaxDoc)]
Requests == {"latest", "fallback", "docs", "version_id", "page", "overview",
             "content", "snippet", "read"}

-----------------------------------------------------------------------------
Increasing(list) == \A j, k \in DOMAIN list : j < k => list[j] < list[k]

\* The documents of S as the registry lists them: there is one such list.
InOrder(S) ==
  {list \in [1..Cardinality(S) -> S] :
     Increasing(list) /\ S \subseteq {list[k] : k \in DOMAIN list}}

OfCategory(c, n) == {d \in Hcl \cap 1..n : CategoryOf[d] = c}

\* Faulty variant: the documents for other languages count as well.
AnalyzeAndFormatCapabilities_AnyLanguage(n) ==
  LET of(c) == {d \in 1..n : CategoryOf[d] = c}
      limit(m) == IF m <= ShowAll THEN m ELSE ShowFew
      categories == {CategoryOf[d] : d \in 1..n}
      section(c) == {[available |-> Len(items), shown |-> SubSeq(items, 1, limit(Len(items)))] :
                       items \in InOrder(of(c))}
  IN {f \in [categories -> UNION {section(c) : c \in categories}] :
        \A c \in categories : f[c] \in section(c)}

\* What is answered of n documents: the hcl ones by category, of a long category only
\* the first.  The categories come in no particular order.
AnalyzeAndFormatCapabilities(n) ==
  LET limit(m) == IF m <= ShowAll THEN m ELSE ShowFew
      categories == {CategoryOf[d] : d \in Hcl \cap 1..n}
      section(c) == {[available |-> Len(items), shown |-> SubSeq(items, 1, limit(Len(items)))] :
                       items \in InOrder(OfCategory(c, n))}
  IN {f \in [categories -> UNION {section(c) : c \in categories}] :
        \A c \in categories : f[c] \in section(c)}

Page(p) == {d \in 1..docs : (p - 1) * PageSize < d /\ d <= p * PageSize}

\* The next request, or the answer if there is none.
Send(label) ==
  /\ pc' = label
  /\ attempt' = 0
  /\ UNCHANGED <<versions, waiting, request>>

Answer(success) == Send("answered") /\ ok' = success

\* The call has resolved its provider.  Its version, if there is one, has some number
\* of documents.
Resolve(p) ==
  /\ target' = p
  /\ docs' \in IF p.version \in 1..versions[p.ns] THEN 0..MaxDoc ELSE {0}
  /\ before' = docs'

\* What follows when the provider and its version are known.
AfterResolve ==
  \/ request.tool = "version" /\ Answer(TRUE)
  \/ request.tool = "capabilities" /\ Send("docs") /\ UNCHANGED ok
  \/ /\ request.tool = "search"
     /\ Send(IF request.type = "resources" THEN "docs" ELSE "version_id")
     /\ UNCHANGED ok

\* The documents are known: their contents follow, one by one.
Describe(label, list) ==
  IF list = <<>> THEN Answer(FALSE) ELSE Send(label) /\ UNCHANGED ok

NoRequest == [tool |-> "read", type |-> "none", ns |-> Hashicorp, version |-> 0]

Init ==
  /\ versions \in [Namespace -> 0..MaxVersion]
  /\ docs = 0
  /\ pc = "idle" /\ waiting = FALSE /\ attempt = 0
  /\ request = NoRequest
  /\ target = [ns |-> Hashicorp, version |-> 0]
  /\ page = 1 /\ found = <<>> /\ contents = <<>> /\ sections = <<>> /\ ok = FALSE
  /\ before = 0
  /\ latest = [n \in Namespace |-> {}]

\* A handler begins.  A version in the form of a version is taken as it is;
\* otherwise the latest is asked for.
Start(r) ==
  /\ pc = "idle"
  /\ request' = r
  /\ Resolve([ns |-> r.ns, version |-> r.version])
  /\ latest' = [n \in Namespace |-> {versions[n]}]
  /\ pc' = CASE r.tool = "read" -> "read"
             [] r.tool = "version" -> "latest"
             [] r.tool \in {"search", "capabilities"} /\ r.version = 0 -> "latest"
             [] r.tool = "capabilities" /\ r.version # 0 -> "docs"
             [] r.tool = "search" /\ r.version # 0 ->
                  IF r.type = "resources" THEN "docs" ELSE "version_id"
  /\ UNCHANGED <<versions, waiting, attempt, page, found, contents, sections, ok>>

-----------------------------------------------------------------------------
(* One HTTP request *)

\* Faulty variant: retries are not counted.
Limited_Uncounted ==
  /\ pc \in Requests /\ ~waiting
  /\ attempt < RetryMax
  /\ waiting' = TRUE
  /\ UNCHANGED <<registry, pc, attempt, request, result, ok, history>>

\* Faulty variant: one retry too many.
Limited_OffByOne ==
  /\ pc \in Requests /\ ~waiting
  /\ attempt <= RetryMax
  /\ waiting' = TRUE
  /\ attempt' = attempt + 1
  /\ UNCHANGED <<registry, pc, request, result, ok, history>>

\* The registry answers 429 with a reset time, and retries are left.
Limited ==
  /\ pc \in Requests /\ ~waiting
  /\ attempt < RetryMax
  /\ waiting' = TRUE
  /\ attempt' = attempt + 1
  /\ UNCHANGED <<registry, pc, request, result, ok, history>>

\* The time has come: the request is sent again.
Resend ==
  /\ waiting
  /\ waiting' = FALSE
  /\ UNCHANGED <<registry, pc, attempt, request, result, ok, history>>

\* The registry has nothing to answer the request with.
Missing ==
  CASE pc = "latest" -> versions[request.ns] = 0
    [] pc = "fallback" -> versions[Hashicorp] = 0
    [] pc \in {"docs", "version_id"} -> target.version \notin 1..versions[target.ns]
    [] OTHER -> FALSE

\* Faulty variant: a page that fails ends the listing as if it were empty.
Fails_Partial ==
  /\ pc \in Requests /\ ~waiting
  /\ CASE pc = "latest" /\ request.tool = "search" ->
            Send("fallback") /\ UNCHANGED <<docs, result, ok, history>>
       [] pc = "snippet" ->
            /\ contents' = Append(contents, 0)
            /\ UNCHANGED <<docs, target, page, found, sections, history>>
            /\ IF Len(contents') = Len(found) THEN Answer(TRUE) ELSE Send("snippet") /\ UNCHANGED ok
       [] pc = "page" -> Describe("snippet", found) /\ UNCHANGED <<docs, result, history>>
       [] OTHER -> Answer(FALSE) /\ UNCHANGED <<docs, result, history>>

\* The request fails: nothing there, an answer other than 200, no answer, a body
\* that cannot be read, or 429 with no reset time or no retry left.  The tool
\* falls back, leaves a description out, or gives up.
Fails ==
  /\ pc \in Requests /\ ~waiting
  /\ CASE pc = "latest" /\ request.tool = "search" ->
            Send("fallback") /\ UNCHANGED <<docs, result, ok, history>>
       [] pc = "snippet" ->
            /\ contents' = Append(contents, 0)
            /\ UNCHANGED <<docs, target, page, found, sections, history>>
            /\ IF Len(contents') = Len(found) THEN Answer(TRUE) ELSE Send("snippet") /\ UNCHANGED ok
       [] OTHER -> Answer(FALSE) /\ UNCHANGED <<docs, result, history>>

\* Request "label" is answered with what the registry has now.
Answered(label) == pc = label /\ ~waiting /\ ~Missing

-----------------------------------------------------------------------------
(* What the tools do with the answers *)

GetLatestProviderVersion ==
  /\ Answered("latest")
  /\ Resolve([ns |-> target.ns, version |-> versions[target.ns]])
  /\ UNCHANGED <<page, found, contents, sections, latest>>
  /\ AfterResolve

\* Faulty variant: the version of one namespace with the name of the other.
FallBack_KeepsNamespace ==
  /\ Answered("fallback")
  /\ Resolve([ns |-> target.ns, version |-> versions[Hashicorp]])
  /\ UNCHANGED <<page, found, contents, sections, latest>>
  /\ AfterResolve

FallBack ==
  /\ Answered("fallback")
  /\ Resolve([ns |-> Hashicorp, version |-> versions[Hashicorp]])
  /\ UNCHANGED <<page, found, contents, sections, latest>>
  /\ AfterResolve

\* All documents of a version in one answer: get_provider_capabilities gives a survey
\* of them, a search keeps those that match.
GetDocs ==
  /\ Answered("docs")
  /\ IF request.tool = "capabilities"
     THEN /\ sections' \in AnalyzeAndFormatCapabilities(docs)
          /\ Answer(TRUE) /\ UNCHANGED found
     ELSE /\ found' \in InOrder(Matching \cap 1..docs)
          /\ Describe("snippet", found') /\ UNCHANGED sections
  /\ UNCHANGED <<docs, target, page, contents, history>>

GetProviderVersionID ==
  /\ Answered("version_id")
  /\ Send(IF request.type = "overview" THEN "overview" ELSE "page")
  /\ UNCHANGED <<docs, result, ok, history>>

\* SendPaginatedRegistryCall: pages are asked for until one is empty.
GetPage ==
  /\ Answered("page")
  /\ \E data \in InOrder(Page(page)) :
       IF data = <<>>
       THEN Describe("snippet", found) /\ UNCHANGED <<page, found>>
       ELSE /\ found' = found \o data
            /\ page' = page + 1
            /\ Send("page") /\ UNCHANGED ok
  /\ UNCHANGED <<docs, target, contents, sections, history>>

\* GetProviderOverviewDocs; with no page of an overview, the answer is empty.
GetOverview ==
  /\ Answered("overview")
  /\ found' \in InOrder(1..docs)
  /\ UNCHANGED <<docs, target, page, contents, sections, history>>
  /\ IF found' = <<>> THEN Answer(TRUE) ELSE Send("content") /\ UNCHANGED ok

\* The content of one document: a page of an overview, or a description.
GetContent ==
  /\ Answered("content") \/ Answered("snippet")
  /\ contents' = Append(contents, found[Len(contents) + 1])
  /\ UNCHANGED <<docs, target, page, found, sections, history>>
  /\ IF Len(contents') = Len(found) THEN Answer(TRUE) ELSE Send(pc) /\ UNCHANGED ok

\* The tools that make one request and format its answer.
Read == Answered("read") /\ Answer(TRUE) /\ UNCHANGED <<docs, result, history>>

\* The next call starts with nothing of this one.
Reply ==
  /\ pc = "answered"
  /\ pc' = "idle"
  /\ attempt' = 0 /\ request' = NoRequest
  /\ target' = [ns |-> Hashicorp, version |-> 0]
  /\ page' = 1 /\ found' = <<>> /\ contents' = <<>> /\ sections' = <<>> /\ ok' = FALSE
  /\ docs' = 0 /\ before' = 0 /\ latest' = [n \in Namespace |-> {}]
  /\ UNCHANGED <<versions, waiting>>

-----------------------------------------------------------------------------
(* The registry *)

Publish(n) ==
  /\ versions[n] < MaxVersion
  /\ versions' = [versions EXCEPT ![n] = @ + 1]
  /\ latest' = IF pc = "idle" THEN latest
               ELSE [latest EXCEPT ![n] = @ \cup {versions'[n]}]
  /\ UNCHANGED <<docs, pc, waiting, attempt, request, result, ok, before>>

\* The version that is being read gets one more document.
AddDoc ==
  /\ target.version \in 1..versions[target.ns] /\ docs < MaxDoc
  /\ docs' = docs + 1
  /\ UNCHANGED <<versions, pc, waiting, attempt, request, result, ok, history>>

Step ==
  \/ Limited \/ Resend \/ Fails
  \/ GetLatestProviderVersion \/ FallBack \/ GetDocs \/ GetProviderVersionID
  \/ GetPage \/ GetOverview \/ GetContent \/ Read

Next ==
  \/ \E r \in Request : Start(r)
  \/ Step
  \/ Reply
  \/ \E n \in Namespace : Publish(n)
  \/ AddDoc

\* Every request ends, as the client gives it ten seconds (registry.go:37), and so does
\* every wait for a reset time.
Spec == Init /\ [][Next]_vars /\ WF_vars(Step)

-----------------------------------------------------------------------------
(* Properties *)

\* Every variable has its type; no request is sent more than RetryMax times again.
TypeOK ==
  /\ versions \in [Namespace -> 0..MaxVersion]
  /\ docs \in 0..MaxDoc
  /\ pc \in Requests \cup {"idle", "answered"}
  /\ waiting \in BOOLEAN
  /\ attempt \in 0..RetryMax
  /\ request \in Request
  /\ target \in Provider
  /\ page \in Nat \ {0}
  /\ found \in Seq(1..MaxDoc)
  /\ contents \in Seq(0..MaxDoc)
  /\ sections \in [DOMAIN sections -> Shown]
  /\ ok \in BOOLEAN
  /\ before \in 0..MaxDoc
  /\ latest \in [Namespace -> SUBSET (0..MaxVersion)]

HasResult(tools) == pc = "answered" /\ ok /\ request.tool \in tools

\* search_providers.go:173-195, get_provider_capabilities.go:70-82: the provider and
\* version that an answer names are the asked ones, or, if no version was asked for,
\* one that was the latest during the call: of the asked namespace or, in a search, of
\* hashicorp.  A version of one namespace never goes with the name of another.
AnswerIsOfAskedProvider ==
  HasResult({"search", "capabilities", "version"}) =>
    IF request.version # 0 /\ request.tool # "version"
    THEN target = [ns |-> request.ns, version |-> request.version]
    ELSE /\ target.ns = request.ns \/ (target.ns = Hashicorp /\ request.tool = "search")
         /\ target.version \in latest[target.ns] \ {0}

\* A search lists every document that the version had when it was resolved and none
\* that it has not, once and in order; an overview has the content of each.
SearchComplete ==
  LET wanted(n) == IF request.type = "resources" THEN Matching \cap 1..n ELSE 1..n
      listed == {found[k] : k \in DOMAIN found}
  IN /\ wanted(before) \subseteq listed /\ listed \subseteq wanted(docs)
     /\ Increasing(found)
     /\ Len(contents) = Len(found)
     /\ request.type = "overview" => contents = found

\* The survey is that of the first n documents: it has the categories of those for
\* hcl and no other, each with its number of documents.  It shows all of them or, of
\* more than ShowAll, ShowFew; none that is left out comes before one that is shown.
SurveyOf(n) ==
  /\ DOMAIN sections = {CategoryOf[d] : d \in Hcl \cap 1..n}
  /\ \A c \in DOMAIN sections :
       LET all == {d \in 1..n : d \in Hcl /\ CategoryOf[d] = c}
           list == sections[c].shown
           shown == {list[k] : k \in DOMAIN list}
       IN /\ sections[c].available = Cardinality(all)
          /\ shown \subseteq all /\ Increasing(list)
          /\ Len(list) = IF Cardinality(all) > ShowAll THEN ShowFew ELSE Cardinality(all)
          /\ \A d \in all \ shown, k \in DOMAIN list : list[k] < d

\* registry.go:107-134, search_providers.go:110-145, 210-246: a search leaves out no
\* document, whatever was added while its pages were read.
\* get_provider_capabilities.go:104-145: its survey is the one of the documents the
\* version had at some time during the call.
AnswerComplete ==
  /\ HasResult({"search"}) => SearchComplete
  /\ HasResult({"capabilities"}) => \E n \in before..docs : SurveyOf(n)

\* registry.go:41-60, 107-134: every call is answered, as its retries, pages and
\* documents come to an end, if each request and each wait for a reset does.
EveryCallAnswered == (pc \in Requests) ~> (pc = "answered")

\* "If the provider version doesn't exist, try the hashicorp namespace"
\* (search_providers.go:183): another namespace is tried only if the asked one does
\* not have the provider.
FallsBackOnlyIfMissing == [][pc = "latest" /\ pc' = "fallback" => Missing]_vars
=============================================================================
