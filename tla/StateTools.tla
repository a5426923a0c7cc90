----------------------------- MODULE StateTools -----------------------------
(***************************************************************************)
(* The state inspection tools (pkg/tools/state): how the instances of a    *)
(* loaded state are extracted and redacted, and what each tool answers.    *)
(* How a state is loaded and cached is the matter of module StateLoader; a *)
(* call here has some state of the backend, or fails to load one.          *)
(*                                                                         *)
(* A document (attributes, or the value of an output) is a function from   *)
(* the paths of its leaves to their values.  A path is a sequence of keys  *)
(* and list indices; an index is a string too, such as "#0".  Addresses    *)
(* keep their parts apart.                                                 *)
(***************************************************************************)
EXTENDS SequencesExt, Integers

CONSTANTS
  StateFile,  \* the states the backend or a file may hold
  Pattern,    \* the keys that TF_STATE_SENSITIVE_PATTERN matches
  DiffPath,   \* paths to compare with: tfstate, inside, and file, the state there
  Query,      \* what is searched for, each as the set of values that contain it
  Fragment    \* what types and modules are filtered by, each as the set of those
              \* that contain it

VARIABLE inspected   \* the last answer of a state tool

Sensitive == "[REDACTED - sensitive]"
SensitiveOutput == "[REDACTED - sensitive output]"
PatternMatch == "[REDACTED - pattern match]"
Label == {Sensitive, SensitiveOutput, PatternMatch}
Null == "null"
Unmatched == "unmatched"

\* A state as JSON gives it.  A document is a tree, so that nothing is below a leaf;
\* no key begins with a zero byte, as Unmatched does.
IsSequence(s) == Len(s) \in Nat /\ s = [i \in 1..Len(s) |-> s[i]]

IsDocument(doc) ==
  /\ doc = [p \in DOMAIN doc |-> doc[p]]
  /\ \A p \in DOMAIN doc : IsSequence(p) /\ \A i \in 1..Len(p) : p[i] # Unmatched
  /\ \A p, q \in DOMAIN doc : IsPrefix(p, q) => p = q

\* Attributes are a map, each under its key.
IsInstance(inst) ==
  /\ IsDocument(inst.attributes) /\ <<>> \notin DOMAIN inst.attributes
  /\ IsSequence(inst.sensitive)
  /\ \A i \in 1..Len(inst.sensitive) : IsSequence(inst.sensitive[i].steps)

IsState(state) ==
  /\ \A out \in state.outputs : IsDocument(out.value)
  /\ IsSequence(state.resources)
  /\ \A i \in 1..Len(state.resources) :
       LET instances == state.resources[i].instances
       IN IsSequence(instances) /\ \A j \in 1..Len(instances) : IsInstance(instances[j])

\* A path is of one file, which may hold a state.
ASSUME StatesAssumption ==
  /\ \A state \in StateFile : IsState(state)
  /\ \A path \in DiffPath :
       \A state \in path.file : IsState(state) /\ path.file = {state}

-----------------------------------------------------------------------------
(* Redaction *)

\* One step of a path of sensitive_attributes: what it holds is the key or the
\* index, whatever its type says; a step of another shape matches no key.
NormalizeStep(seg) == IF seg.type = "other" THEN Unmatched ELSE seg.value

\* A sensitive attribute is a flat key (the legacy form) or a list of steps.
PathSteps(raw) ==
  IF raw.legacy # "" THEN <<raw.legacy>>
  ELSE [i \in DOMAIN raw.steps |-> NormalizeStep(raw.steps[i])]

\* One leaf takes the place of all that is at or below steps.
SetAtPath(doc, steps) ==
  LET below == {p \in DOMAIN doc : IsPrefix(steps, p)}
  IN IF steps = <<>> \/ below = {} THEN doc
     ELSE [p \in (DOMAIN doc \ below) \cup {steps} |-> IF p = steps THEN Sensitive ELSE doc[p]]

\* The copy of the attributes after each entry of sensitive_attributes.
RedactedBy(attrs, sensitivePaths) ==
  LET after[n \in 0..Len(sensitivePaths)] ==
        IF n = 0 THEN attrs ELSE SetAtPath(after[n - 1], PathSteps(sensitivePaths[n]))
  IN after

RedactSensitiveAttrs(attrs, sensitivePaths) ==
  RedactedBy(attrs, sensitivePaths)[Len(sensitivePaths)]

\* How much of the path p stays: up to its first key that matches.
CutAt(p) ==
  LET hits == {i \in DOMAIN p : p[i] \in Pattern}
  IN IF hits = {} THEN Len(p) ELSE CHOOSE i \in hits : \A j \in hits : i <= j

\* Faulty variant: only the keys of the top level are matched.
ApplyPatternRedaction_TopLevel(doc) ==
  LET Cut(p) == IF p # <<>> /\ p[1] \in Pattern THEN <<p[1]>> ELSE p
  IN [q \in {Cut(p) : p \in DOMAIN doc} |->
        IF q \in DOMAIN doc /\ (doc[q] = Sensitive \/ q = <<>> \/ q[1] \notin Pattern) THEN doc[q]
        ELSE PatternMatch]

\* applyPatternRedaction and redactValue.  A value that is redacted already
\* keeps its label.
ApplyPatternRedaction(doc) ==
  [q \in {SubSeq(p, 1, CutAt(p)) : p \in DOMAIN doc} |->
     IF q \in DOMAIN doc /\ (doc[q] = Sensitive \/ q = <<>> \/ Last(q) \notin Pattern) THEN doc[q]
     ELSE PatternMatch]

-----------------------------------------------------------------------------
(* Extraction *)

BuildAddress(res, inst) == <<res.module, res.mode, res.type, res.name, inst.index>>

ExtractedOf(res, inst) ==
  [address |-> BuildAddress(res, inst), type |-> res.type, module |-> res.module,
   attributes |-> ApplyPatternRedaction(RedactSensitiveAttrs(inst.attributes, inst.sensitive)),
   dependencies |-> inst.dependencies]

\* Where instances are: the number of the resource, and that of its instance.
Places(state) ==
  UNION {{<<i, j>> : j \in DOMAIN state.resources[i].instances} : i \in DOMAIN state.resources}

\* Every instance of every resource, each at its place.
ExtractResources(state) ==
  [at \in Places(state) |->
     LET res == state.resources[at[1]] IN ExtractedOf(res, res.instances[at[2]])]

\* The order in which they are extracted.
Before(at, other) == at[1] < other[1] \/ (at[1] = other[1] /\ at[2] < other[2])

FirstPlace(places) == CHOOSE at \in places : \A other \in places \ {at} : Before(at, other)
LastPlace(places) == CHOOSE at \in places : \A other \in places \ {at} : Before(other, at)

PlacesOf(resources, address) == {at \in DOMAIN resources : resources[at].address = address}

-----------------------------------------------------------------------------
(* Answers.  shown: the values of documents, each with its address or output *)
(* name and its path; listed: addresses and names.                          *)

NoAnswer == [tool |-> "none", ok |-> FALSE, shown |-> {}, listed |-> <<>>,
             changed |-> {}, added |-> {}, removed |-> {}]

AnswerTo(tool) == [NoAnswer EXCEPT !.tool = tool, !.ok = TRUE]
ErrorOf(tool) == [NoAnswer EXCEPT !.tool = tool]

Leaves(of, doc) == {[of |-> of, path |-> p, value |-> doc[p]] : p \in DOMAIN doc}

TypeMatches(filter, type) == filter = "" \/ filter = type

\* A sensitive output is a label, and so is one whose name matches.
OutputValue(out) ==
  IF out.sensitive THEN [p \in {<<>>} |-> SensitiveOutput]
  ELSE IF out.name \in Pattern THEN [p \in {<<>>} |-> PatternMatch]
  ELSE ApplyPatternRedaction(out.value)

GetOutputs(state, name) ==
  LET outputs == {out \in state.outputs : name \in {"", out.name}}
  IN IF name # "" /\ outputs = {} THEN ErrorOf("tf_get_outputs")
     ELSE [AnswerTo("tf_get_outputs") EXCEPT
             !.shown = UNION {Leaves(<<out.name>>, OutputValue(out)) : out \in outputs}]

\* The first resource with the address.
GetResource(state, address) ==
  LET resources == ExtractResources(state)
      found == PlacesOf(resources, address)
  IN IF found = {} THEN ErrorOf("tf_get_resource")
     ELSE [AnswerTo("tf_get_resource") EXCEPT
             !.shown = Leaves(address, resources[FirstPlace(found)].attributes)]

\* The places of the resources of a type, or of all.
PlacesOfType(resources, filter) ==
  {at \in DOMAIN resources : TypeMatches(filter, resources[at].type)}

\* The leaves that contain the query, in their places; nothing of their siblings.
SearchAttrs(attrs, query) == [p \in {q \in DOMAIN attrs : attrs[q] \in query} |-> attrs[p]]

SearchAttributes(state, query, type) ==
  LET resources == ExtractResources(state)
  IN [AnswerTo("tf_search_attributes") EXCEPT
        !.shown = UNION {Leaves(resources[at].address, SearchAttrs(resources[at].attributes, query))
                         : at \in PlacesOfType(resources, type)}]

\* Addresses of the resources with one of the types in one of the modules, and no
\* attributes.
ListResources(state, types, modules) ==
  LET resources == ExtractResources(state)
      filtered == {at \in DOMAIN resources :
                     resources[at].type \in types /\ resources[at].module \in modules}
  IN [AnswerTo("tf_list_resources") EXCEPT
        !.listed = [at \in filtered |-> resources[at].address]]

\* Addresses with the dependencies of each.
DependencyGraph(state, type) ==
  LET resources == ExtractResources(state)
  IN [AnswerTo("tf_dependency_graph") EXCEPT
        !.listed = [at \in PlacesOfType(resources, type) |->
                      <<resources[at].address, resources[at].dependencies>>]]

\* Counts by type and module, and the names of the outputs.
Summary(state) ==
  LET resources == ExtractResources(state)
      CountOf(field) ==
        [v \in {field[at] : at \in DOMAIN field} |-> Cardinality({at \in DOMAIN field : field[at] = v})]
  IN [AnswerTo("tf_summary") EXCEPT
        !.listed = << CountOf([at \in DOMAIN resources |-> resources[at].type]),
                      CountOf([at \in DOMAIN resources |-> resources[at].module]),
                      {out.name : out \in state.outputs} >>]

-----------------------------------------------------------------------------
(* tf_diff_state *)

\* Of several resources with one address, the last.
ResourceIndex(resources) ==
  [a \in {resources[at].address : at \in DOMAIN resources} |->
     resources[LastPlace(PlacesOf(resources, a))]]

TopKeys(doc) == {p[1] : p \in DOMAIN doc}

\* The value of a key: its leaves; no such key is as good as null.
ValueOf(doc, k) ==
  LET v == [p \in {q \in DOMAIN doc : q[1] = k} |-> doc[p]]
  IN IF DOMAIN v = {} THEN [p \in {<<k>>} |-> Null] ELSE v

\* Faulty variant: keys that only the other state has are passed over.
DiffAttrs_BeforeOnly(before, after) ==
  {k \in TopKeys(before) : ValueOf(before, k) # ValueOf(after, k)}

DiffAttrs(before, after) ==
  {k \in TopKeys(before) \cup TopKeys(after) : ValueOf(before, k) # ValueOf(after, k)}

\* The path keeps to the base directory and to .tfstate.
SafeDiffPath(path) == path.tfstate /\ path.inside

\* The state in a file below the base directory: none if the file cannot be opened
\* there, is not regular, is too large or does not parse.
LoadStateFileInRoot(path) == path.file

DiffState(state, path) ==
  IF ~SafeDiffPath(path) \/ LoadStateFileInRoot(path) = {} THEN ErrorOf("tf_diff_state")
  ELSE LET otherState == CHOOSE f \in LoadStateFileInRoot(path) : TRUE
           current == ResourceIndex(ExtractResources(state))
           other == ResourceIndex(ExtractResources(otherState))
           both == DOMAIN current \cap DOMAIN other
           Keys(a) == DiffAttrs(current[a].attributes, other[a].attributes)
       IN [AnswerTo("tf_diff_state") EXCEPT
             !.added = DOMAIN other \ DOMAIN current,
             !.removed = DOMAIN current \ DOMAIN other,
             !.changed = UNION {{<<a, k>> : k \in Keys(a)} : a \in both},
             !.shown = UNION {UNION {Leaves(a, ValueOf(current[a].attributes, k)) \cup
                                     Leaves(a, ValueOf(other[a].attributes, k)) : k \in Keys(a)}
                              : a \in both}]

-----------------------------------------------------------------------------
(* Calls *)

Inspected(state, other, answer) ==
  inspected' = [state |-> state, other |-> other, answer |-> answer]

InspectInit == inspected = [state |-> {}, other |-> {}, answer |-> NoAnswer]

\* A call of the tool t on the state that Load gives.
InspectState(t, state) ==
  LET resources == ExtractResources(state)
      types == {resources[at].type : at \in DOMAIN resources}
      modules == {resources[at].module : at \in DOMAIN resources}
      addresses == {resources[at].address : at \in DOMAIN resources}
  IN \/ /\ t = "tf_get_outputs"
        /\ \E name \in {"", "no such output"} \cup {out.name : out \in state.outputs} :
             Inspected({state}, {}, GetOutputs(state, name))
     \/ /\ t = "tf_get_resource"
        /\ \E address \in addresses \cup {<<>>} : Inspected({state}, {}, GetResource(state, address))
     \/ /\ t = "tf_search_attributes"
        /\ \E query \in Query, type \in {""} \cup types :
             Inspected({state}, {}, SearchAttributes(state, query, type))
     \/ /\ t = "tf_list_resources"
        /\ \E typeFilter \in Fragment \cup {types}, moduleFilter \in Fragment \cup {modules} :
             Inspected({state}, {}, ListResources(state, typeFilter, moduleFilter))
     \/ /\ t = "tf_dependency_graph"
        /\ \E type \in {""} \cup types : Inspected({state}, {}, DependencyGraph(state, type))
     \/ /\ t = "tf_summary"
        /\ Inspected({state}, {}, Summary(state))
     \/ /\ t = "tf_diff_state"
        /\ \E path \in DiffPath : Inspected({state}, path.file, DiffState(state, path))

\* The state cannot be loaded, or a parameter is missing.
InspectFails(t) == Inspected({}, {}, ErrorOf(t))

-----------------------------------------------------------------------------
(* Properties *)

\* An entry of sensitive_attributes covers the leaf p: it names the leaf itself or
\* something that holds it.  An entry with a step of an unknown shape covers nothing,
\* and redacts nothing: see UnknownStepFailsSafe.
Covers(raw, p) ==
  IF raw.legacy # "" THEN p # <<>> /\ p[1] = raw.legacy
  ELSE /\ raw.steps # <<>> /\ Len(raw.steps) <= Len(p)
       /\ \A i \in DOMAIN raw.steps : raw.steps[i].type # "other" /\ raw.steps[i].value = p[i]

HasPatternKey(p) == \E i \in DOMAIN p : p[i] \in Pattern

Secret(inst, p) == HasPatternKey(p) \/ \E i \in DOMAIN inst.sensitive : Covers(inst.sensitive[i], p)

\* The instances of a state, each with its address.
InstancesOf(state) ==
  UNION {{<<BuildAddress(state.resources[i], state.resources[i].instances[j]),
            state.resources[i].instances[j]>> : j \in DOMAIN state.resources[i].instances}
         : i \in DOMAIN state.resources}

MayShow(state, e) ==
  \/ \E ai \in InstancesOf(state) :
       /\ ai[1] = e.of /\ e.path \in DOMAIN ai[2].attributes
       /\ e.value = ai[2].attributes[e.path] /\ ~Secret(ai[2], e.path)
  \/ \E out \in state.outputs :
       /\ <<out.name>> = e.of /\ e.path \in DOMAIN out.value
       /\ e.value = out.value[e.path]
       /\ ~out.sensitive /\ out.name \notin Pattern /\ ~HasPatternKey(e.path)

\* Null stands for a key that an instance with the address has not.
NoSuchKey(state, e) ==
  \E ai \in InstancesOf(state) : ai[1] = e.of /\ Len(e.path) = 1 /\ e.path[1] \notin TopKeys(ai[2].attributes)

\* No state tool shows a value that the state marks as sensitive with steps of known
\* shapes, at its own path or at one above it, or that lies under a key that the operator's pattern
\* matches, however lists and maps are nested: what it shows is a label, a value
\* that is no secret of a state asked for, or null where one of them has no such
\* key (redact.go:21-141, search_attributes.go:119-145, get_outputs.go:60-85).
NothingSensitiveShown ==
  \A e \in inspected.answer.shown :
    \/ e.value \in Label
    \/ \E state \in inspected.state \cup inspected.other :
         MayShow(state, e) \/ (e.value = Null /\ NoSuchKey(state, e))

\* What a diff compares at a path: the leaf, if there is one; no such key is null.
LeafOf(inst, p) ==
  IF p \in DOMAIN inst.attributes THEN {inst.attributes[p]}
  ELSE IF Len(p) = 1 THEN {Null} ELSE {}

\* A leaf that is no secret; a value that has the text of a label cannot be told from one.
Visible(inst, p) ==
  p \in DOMAIN inst.attributes /\ ~Secret(inst, p) /\ inst.attributes[p] \notin Label

\* The difference of a leaf is plain to see: it is visible in one of the two.
DiffersInTheOpen(a, b, p) ==
  LeafOf(a, p) # LeafOf(b, p) /\ (Visible(a, p) \/ Visible(b, p))

\* A secret, of whatever value, that only the first has.
SecretOnlyIn(a, b, p) ==
  p \in DOMAIN a.attributes \ DOMAIN b.attributes /\ Secret(a, p)

AddressesOf(instances) == {ai[1] : ai \in instances}

\* The only instance with its address.
Alone(ai, instances) == \A bi \in instances : bi[1] = ai[1] => bi = ai

\* The number of steps of an entry of sensitive_attributes.
Depth(raw) == IF raw.legacy # "" THEN 1 ELSE Len(raw.steps)

\* An entry of the first covers p, and each of the second that does lies deeper.
SensitiveFurtherUp(a, b, p) ==
  \E i \in DOMAIN a.sensitive :
    /\ Covers(a.sensitive[i], p)
    /\ \A j \in DOMAIN b.sensitive :
         Covers(b.sensitive[j], p) => Depth(a.sensitive[i]) < Depth(b.sensitive[j])

\* Leaf p of two instances is not the same, or not of the same sensitivity.
Differs(a, b, p) ==
  \/ LeafOf(a, p) # LeafOf(b, p)
  \/ SecretOnlyIn(a, b, p) \/ SecretOnlyIn(b, a, p)
  \/ SensitiveFurtherUp(a, b, p) \/ SensitiveFurtherUp(b, a, p)

\* Key k of two instances: a difference in the open is reported, and what is reported
\* differs before redaction.
KeyReported(a, b, k, reported) ==
  LET leaves == {p \in DOMAIN a.attributes \cup DOMAIN b.attributes : p[1] = k}
  IN /\ (\E p \in leaves : DiffersInTheOpen(a, b, p)) => reported
     /\ reported => \E p \in leaves : Differs(a, b, p)

\* A difference in a value that is no secret is never lost in a diff, next to
\* whatever redacted values, and a key that is reported has a leaf that differs
\* before redaction as well, be it in its value, in where it is sensitive from, or as
\* a secret that one has and the other has not; the addresses that only one state has
\* are told apart (diff_state.go:81-175).
DiffReportsVisibleChanges ==
  LET answer == inspected.answer
  IN answer.tool = "tf_diff_state" /\ answer.ok =>
       \A state \in inspected.state, otherState \in inspected.other :
         LET cur == InstancesOf(state) other == InstancesOf(otherState)
         IN /\ answer.added = AddressesOf(other) \ AddressesOf(cur)
            /\ answer.removed = AddressesOf(cur) \ AddressesOf(other)
            /\ \A ai \in cur, bi \in other :
                 ai[1] = bi[1] /\ Alone(ai, cur) /\ Alone(bi, other) =>
                   \A k \in TopKeys(ai[2].attributes) \cup TopKeys(bi[2].attributes) :
                     KeyReported(ai[2], bi[2], k, <<ai[1], k>> \in answer.changed)

\* Leaf p is in reach of an entry with a step of an unknown shape: it lies at or below
\* what the steps before that step name.
InReach(raw, p) ==
  \E k \in DOMAIN raw.steps :
    /\ raw.steps[k].type = "other"
    /\ k - 1 <= Len(p)
    /\ \A i \in 1..(k - 1) : raw.steps[i].type # "other" /\ raw.steps[i].value = p[i]

\* "redaction fails safe (it never silently treats an unparsed step as "nothing to
\* redact")" (redact.go:58-59): of the leaves in reach of an entry with an unparsed
\* step, tf_get_resource does not show every one as it is in the state.
\* Of several instances with one address it shows the first.
UnknownStepFailsSafe ==
  LET answer == inspected.answer
  IN answer.tool = "tf_get_resource" /\ answer.ok =>
       \A state \in inspected.state : \A ai \in InstancesOf(state) :
         Alone(ai, InstancesOf(state)) =>
           \A n \in DOMAIN ai[2].sensitive :
             LET reach == {p \in DOMAIN ai[2].attributes : InReach(ai[2].sensitive[n], p)}
             IN reach = {} \/ \E p \in reach :
                  [of |-> ai[1], path |-> p, value |-> ai[2].attributes[p]] \notin answer.shown
=============================================================================
