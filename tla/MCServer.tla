------------------------------ MODULE MCServer ------------------------------
(***************************************************************************)
(* Server for TLC: selections of tools over stdio and HTTP, networks and   *)
(* credentials, states with every shape of sensitive path, and a Terraform *)
(* server with three workspace ids, two names and two module versions.     *)
(***************************************************************************)
EXTENDS Server

-----------------------------------------------------------------------------
(* Configurations *)

Base ==
  [command |-> "stdio", envHttp |-> FALSE, toolsets |-> {}, tools |-> {}, logFileOk |-> TRUE,
   operations |-> FALSE, backend |-> "local", allowShared |-> FALSE,
   host |-> "127.0.0.1", tls |-> "none", cors |-> "", origins |-> {"https://app.example"},
   envToken |-> "env token", envAddress |-> None, credentials |-> [h \in {} |-> None],
   forwardIP |-> FALSE]

Http == [Base EXCEPT !.command = "streamable-http"]

OverStdio ==
  {[Base EXCEPT !.command = c, !.toolsets = ts, !.tools = t, !.operations = o] :
     c \in {"", "stdio"}, o \in BOOLEAN,
     ts \in {{}, {{}}, {{All}}, {{Default}}, {{Registry, Terraform}}, {{"", "unknown", StateInspection}},
             {{Default, RegistryPrivate}}, {{individualToolsMarker, "list_runs"}}, {{"list_runs", Registry}}},
     t \in {{}, {"unknown"}, {"unknown", "list_runs", "search_modules", "action_run"}}}
  \cup {[Base EXCEPT !.logFileOk = FALSE], [Base EXCEPT !.envToken = None]}

OverHttp ==
  {[Http EXCEPT !.envHttp = e, !.toolsets = ts, !.tools = t, !.backend = b, !.allowShared = a] :
     e \in BOOLEAN, ts \in {{}, {{Default}}, {{StateInspection, Terraform}}},
     t \in {{}, {"tf_summary", "get_run_details"}}, b \in {"local", "tfc"}, a \in BOOLEAN}

Networks ==
  {[Http EXCEPT !.host = h, !.tls = t] :
     h \in {"0.0.0.0", "mcp.example"}, t \in {"none", "config", "half", "invalid"}}
  \cup
  {[Http EXCEPT !.cors = m, !.envToken = t, !.envAddress = a, !.credentials = c, !.forwardIP = TRUE] :
     m \in {"", "development", "disabled"}, t \in {None, "env token"},
     a \in {None, "https://tfe.example"},
     c \in {[h \in {} |-> None], [h \in {"app.terraform.io"} |-> "file token"],
            [h \in {"tfe.example"} |-> "file token"]}}

\* One HTTP server with a single tool of a Terraform server.
OneTool == [Http EXCEPT !.toolsets = {{Default}}, !.tools = {"list_terraform_orgs"}]

\* The state tools alone, on states of a Terraform server.
TfcStates == [Base EXCEPT !.toolsets = {{StateInspection}}, !.backend = "tfc"]

Configs == OverStdio \cup OverHttp \cup Networks \cup {OneTool, TfcStates}

Everything == {[Base EXCEPT !.operations = o, !.toolsets = {{All}}] : o \in BOOLEAN}
CallConfigs == Everything \cup {OneTool, TfcStates}
InspectConfigs == {[Base EXCEPT !.toolsets = {{Default}}, !.tools = {}], Base}

\* For the state tools alone.
Inspector == {Base}

-----------------------------------------------------------------------------
(* Requests *)

LocalOriginSet == {"http://localhost:8080"}

HostnameOf ==
  [a \in {DefaultTerraformAddress, "https://tfe.example", "https://tfe.example/", "no address"} |->
     IF a = "no address" THEN None
     ELSE IF a = DefaultTerraformAddress THEN "app.terraform.io" ELSE "tfe.example"]

Post == [method |-> "POST", origin |-> None, token |-> None, bearer |-> None, queryToken |-> None,
         address |-> None, queryAddress |-> None, forwardedFor |-> <<>>, realIP |-> None,
         remote |-> "10.0.0.1"]

Requests ==
  {Post,
   [Post EXCEPT !.origin = "https://app.example", !.bearer = "bearer 1"],
   [Post EXCEPT !.origin = "http://localhost:8080", !.token = "token 1"],
   [Post EXCEPT !.origin = "https://other.example", !.token = "token 2"],
   [Post EXCEPT !.origin = "https://app.example", !.method = "OPTIONS", !.token = "token 2"],
   [Post EXCEPT !.queryToken = "query token"],
   [Post EXCEPT !.queryToken = "query token", !.bearer = "bearer 1"],
   [Post EXCEPT !.token = "token 1", !.bearer = "bearer 1", !.address = "https://tfe.example",
                !.forwardedFor = <<"10.0.0.2", "10.0.0.3">>],
   [Post EXCEPT !.address = "https://tfe.example/", !.realIP = "10.0.0.4"],
   [Post EXCEPT !.queryAddress = "no address"],
   [Post EXCEPT !.queryAddress = "https://tfe.example", !.bearer = "bearer 2"]}

-----------------------------------------------------------------------------
(* States *)

Attr(name) == [type |-> "get_attr", value |-> name]
Index(i) == [type |-> "index", value |-> i]
Step(s) == [type |-> "plain", value |-> s]
Odd == [type |-> "other", value |-> "conf"]

Legacy(name) == [legacy |-> name, steps |-> <<>>]
Path(steps) == [legacy |-> "", steps |-> steps]

Instance(index, attributes, sensitive) ==
  [index |-> index, attributes |-> attributes, sensitive |-> sensitive,
   dependencies |-> <<"aws_vpc.main">>]

Resource(module, type, instances) ==
  [module |-> module, mode |-> "managed", type |-> type, name |-> "main", instances |-> instances]

Leaf(p, v) == p :> v

Database ==
  Leaf(<<"id">>, "x1") @@ Leaf(<<"password">>, "s1") @@ Leaf(<<"engine">>, "null")
  @@ Leaf(<<"conf", "#0", "key">>, "k1") @@ Leaf(<<"conf", "#0", "note">>, "n1")
  @@ Leaf(<<"conf", "#1", "key">>, "k2") @@ Leaf(<<"tags", "token">>, "t1")
  @@ Leaf(<<"tags", "name">>, "n2") @@ Leaf(<<"token", "#0">>, "t2")

Paths ==
  {<<>>,
   <<Legacy("password"), Legacy("engine"), Path(<<Attr("conf"), Index("#0"), Attr("key")>>)>>,
   <<Path(<<Attr("conf")>>), Path(<<Attr("conf"), Index("#1"), Step("key")>>), Path(<<Step("token")>>)>>,
   <<Path(<<Step("conf"), Odd>>), Path(<<>>), Path(<<Attr("conf"), Index("#7")>>), Legacy("id")>>}

Output(name, value, sensitive) == [name |-> name, value |-> value, sensitive |-> sensitive]

Outputs ==
  {Output("address", Leaf(<<>>, "x1"), FALSE), Output("token", Leaf(<<>>, "t3"), FALSE),
   Output("secret", Leaf(<<"a">>, "s2"), TRUE),
   Output("map", Leaf(<<"#0", "token">>, "t4") @@ Leaf(<<"#0", "name">>, "n3"), FALSE)}

StateOf(outputs, resources) == [outputs |-> outputs, resources |-> resources]

Empty == StateOf({}, <<>>)

WithPaths(attributes) ==
  {StateOf(Outputs, <<Resource("", "aws_db", <<Instance("", attributes, paths)>>)>>) : paths \in Paths}

\* Another value, a value gone and one more.
Changed ==
  [p \in (DOMAIN Database \cup {<<"extra">>}) \ {<<"tags", "token">>, <<"engine">>} |->
     IF p = <<"id">> THEN "x2" ELSE IF p = <<"extra">> THEN "e1"
     ELSE IF p = <<"conf", "#1", "key">> THEN "k3" ELSE Database[p]]

\* Two instances, the first twice: a deposed object keeps the address.
Many ==
  StateOf({}, <<Resource("module.a", "aws_db",
                  <<Instance("[0]", Leaf(<<"id">>, "x3"), <<Legacy("id")>>),
                    Instance("[0]", Leaf(<<"id">>, "x4"), <<>>),
                    Instance("[1]", Leaf(<<"id">>, "x5"), <<>>)>>),
               Resource("", "aws_vpc", <<Instance("", Leaf(<<"id">>, "x6"), <<>>)>>)>>)

States == {Empty, Many} \cup WithPaths(Database) \cup WithPaths(Changed)

FilePaths ==
  {[tfstate |-> t, inside |-> i, file |-> {Empty}] : t, i \in BOOLEAN}
  \cup {[tfstate |-> TRUE, inside |-> TRUE, file |-> f] : f \in {{}} \cup {{s} : s \in States}}

\* Texts that some, other, and no types and modules contain.
Fragments == {{"aws_db", "aws_vpc"}, {"aws_db"}, {"module.a"}, {}}

Queries == {{"x1", "x2", "n1"}, {"s1", "s2", "k1", "k2", "t1", "t2", "t4", "x3", "x4", Sensitive}}

-----------------------------------------------------------------------------
(* The Terraform server *)

Names0 == [w \in {"ws-1", "ws-2", "ws-3"} |-> IF w = "ws-1" THEN "a" ELSE Unborn]

Versions ==
  [v \in {"1.0", "2.0"} |->
     IF v = "1.0" THEN [i \in {"region"} |-> "string"]
     ELSE [i \in {"region", "count"} |-> IF i = "count" THEN "number" ELSE "list"]]
=============================================================================
