----------------------------- MODULE HttpFront ------------------------------
(***************************************************************************)
(* The way of an HTTP request to the MCP server, and the TFE client its    *)
(* session gets: TerraformContextMiddleware around the security handler    *)
(* (middleware.go), CreateTfeClientForSession (tfe_client.go) and the      *)
(* credentials file (credentials.go).                                      *)
(*                                                                         *)
(* A request is handled in one step here: how the hooks of one session     *)
(* interleave is the matter of module SessionClients.  Sessions are        *)
(* stateful.  Absent headers, parameters and variables are None.           *)
(***************************************************************************)
EXTENDS StartUp, Sequences

CONSTANTS
  Session,
  HttpRequest,   \* requests: method, origin, token, bearer, queryToken, address,
                 \* queryAddress, forwardedFor (a sequence), realIP, remote
  LocalOrigins,  \* origins of the local host with a port
  Hostname,      \* the host that each address names, None if it names none
  None,
  MaxRequests    \* bound on the requests received

DefaultTerraformAddress == "https://app.terraform.io"

ASSUME RequestAssumption == None \notin HttpRequest /\ None # DefaultTerraformAddress

ASSUME RequestsAssumption == MaxRequests \in Nat

VARIABLES
  tfeClient,  \* per session: None, or the token, address and client IP of its client
  requests,   \* how many requests were received
  arrived     \* history: the requests that reached the MCP server, per session

frontVars == <<tfeClient, requests, arrived>>

FirstOf(a, b) == IF a # None THEN a ELSE b

-----------------------------------------------------------------------------
(* Origins *)

\* MCP_CORS_MODE; strict unless it is given.
LoadCORSConfigFromEnv(c) == IF c.cors = "" THEN "strict" ELSE c.cors

IsOriginAllowed(c, origin) ==
  \/ LoadCORSConfigFromEnv(c) = "disabled"
  \/ origin \in c.origins
  \/ LoadCORSConfigFromEnv(c) = "development" /\ origin \in LocalOrigins

-----------------------------------------------------------------------------
(* TerraformContextMiddleware *)

TokenGiven(r) == FirstOf(r.token, r.bearer)

\* The forwarded address of the client, the proxy's, or the connection's.
GetClientIP(r) ==
  IF r.forwardedFor # <<>> THEN r.forwardedFor[1] ELSE FirstOf(r.realIP, r.remote)

\* What the middleware puts into the context of r.
TerraformContext(c, r) ==
  [address |-> FirstOf(r.address, FirstOf(r.queryAddress, c.envAddress)),
   token |-> FirstOf(TokenGiven(r), c.envToken),
   ip |-> IF c.forwardIP THEN GetClientIP(r) ELSE None]

\* The middleware answers some requests itself, the security handler others; a
\* preflight needs an allowed origin too.
Answer(c, r) ==
  IF r.address # None /\ c.envToken # None THEN "address refused"
  ELSE IF TokenGiven(r) = None /\ r.queryToken # None THEN "token refused"
  ELSE IF r.origin # None /\ ~IsOriginAllowed(c, r.origin) THEN "origin refused"
  ELSE IF r.method = "OPTIONS" THEN "preflight"
  ELSE "served"

-----------------------------------------------------------------------------
(* The client of a session *)

ExtractHostname(address) == Hostname[address]

\* None stands for a host that is not in the file, and for no usable file.
ReadCredentialsFile(c, host) ==
  IF host \in DOMAIN c.credentials THEN c.credentials[host] ELSE None

\* Faulty variant: the server's own token comes first.
ClientFor_EnvFirst(c, x) ==
  LET address == FirstOf(x.address, FirstOf(c.envAddress, DefaultTerraformAddress))
      token == FirstOf(c.envToken, x.token)
  IN [address |-> address, ip |-> x.ip,
      token |-> FirstOf(token, ReadCredentialsFile(c, ExtractHostname(address)))]

\* The client that CreateTfeClientForSession asks for with the context x.
ClientFor(c, x) ==
  LET address == FirstOf(x.address, FirstOf(c.envAddress, DefaultTerraformAddress))
      token == FirstOf(x.token, c.envToken)
  IN [address |-> address, ip |-> x.ip,
      token |-> FirstOf(token, ReadCredentialsFile(c, ExtractHostname(address)))]

\* The client of a session is kept.  NewTfeClient needs a token and asks the
\* server, which may fail.  The first client of all brings the TFE tools.
NewSessionHandler(s, x) ==
  \/ UNCHANGED <<startVars, tfeClient>>
  \/ /\ tfeClient[s] = None
     /\ ClientFor(cfg, x).token # None
     /\ tfeClient' = [tfeClient EXCEPT ![s] = ClientFor(cfg, x)]
     /\ IF tfeToolsRegistered THEN UNCHANGED startVars ELSE RegisterTFETools

-----------------------------------------------------------------------------
FrontInit ==
  /\ StartInit
  /\ tfeClient = [s \in Session |-> None]
  /\ requests = 0
  /\ arrived = [s \in Session |-> {}]

\* A request that names session s.
ServeHTTP(s, r) ==
  /\ phase = "serving" /\ Transport(cfg) = "http"
  /\ requests < MaxRequests
  /\ requests' = requests + 1
  /\ IF Answer(cfg, r) = "served"
     THEN /\ arrived' = [arrived EXCEPT ![s] = @ \cup {r}]
          /\ NewSessionHandler(s, TerraformContext(cfg, r))
     ELSE UNCHANGED <<startVars, tfeClient, arrived>>

\* Over stdio there is one session, and no request to take anything from.
ConnectStdio(s) ==
  /\ phase = "serving" /\ Transport(cfg) = "stdio"
  /\ \A t \in Session : tfeClient[t] = None
  /\ NewSessionHandler(s, [address |-> None, token |-> None, ip |-> None])
  /\ UNCHANGED <<requests, arrived>>

EndSession(s) ==
  /\ phase = "serving" /\ Transport(cfg) = "http"
  /\ arrived[s] # {}
  /\ tfeClient' = [tfeClient EXCEPT ![s] = None]
  /\ arrived' = [arrived EXCEPT ![s] = {}]
  /\ UNCHANGED <<startVars, requests>>

FrontNext ==
  \/ ProcessNext /\ UNCHANGED frontVars
  \/ \E s \in Session :
       \/ \E r \in HttpRequest : ServeHTTP(s, r)
       \/ ConnectStdio(s)
       \/ EndSession(s)

FrontSpec == FrontInit /\ [][FrontNext]_<<startVars, frontVars>>

-----------------------------------------------------------------------------
(* Properties *)

FrontTypeOK ==
  /\ StartTypeOK
  /\ DOMAIN tfeClient = Session /\ DOMAIN arrived = Session
  /\ \A s \in Session : tfeClient[s] # None => tfeClient[s].token # None
  /\ requests \in 0..MaxRequests
  /\ \A s \in Session : arrived[s] \subseteq HttpRequest

\* What one request gives a client, source by source; p is the request, or None.
Sources(p, c) ==
  [tokens |-> <<IF p = None THEN None ELSE p.token, IF p = None THEN None ELSE p.bearer, c.envToken>>,
   addresses |-> <<IF p = None THEN None ELSE p.address, IF p = None THEN None ELSE p.queryAddress,
                   c.envAddress, DefaultTerraformAddress>>]

\* v is the first of the sources that gives something.
IsFirst(v, sources) ==
  \E i \in DOMAIN sources :
    v = sources[i] /\ v # None /\ \A j \in 1..(i - 1) : sources[j] = None

\* Exception: an address in the query counts whether or not the server has a token of
\* its own (middleware.go:168); only the header is refused then (middleware.go:153).
\* README.md:605 says that overriding the address is blocked.
AddressInQuery(p) == p # None /\ p.queryAddress # None

\* With a token of its own the server keeps to its address.
AddressKept(client, p, c) ==
  c.envToken # None =>
    /\ p # None => p.address = None
    /\ client.address \in {c.envAddress, DefaultTerraformAddress} \/ AddressInQuery(p)

\* The client was made of p: address and token are the first that p and then the
\* environment give, or the token is the one filed under the host of the address;
\* p changed no address it must not, came with an allowed origin or none and was no
\* preflight.
MadeFrom(client, p, c) ==
  LET from == Sources(p, c)
  IN /\ IsFirst(client.address, from.addresses)
     /\ AddressKept(client, p, c)
     /\ \/ IsFirst(client.token, from.tokens)
        \/ /\ \A i \in DOMAIN from.tokens : from.tokens[i] = None
           /\ \E h \in DOMAIN c.credentials :
                h = Hostname[client.address] /\ client.token = c.credentials[h]
     /\ p # None =>
          /\ p.method # "OPTIONS"
          /\ \/ p.origin = None \/ c.cors = "disabled" \/ p.origin \in c.origins
             \/ c.cors = "development" /\ p.origin \in LocalOrigins
          /\ p.queryToken # None => p.token # None \/ p.bearer # None

\* Every client was made from one single request of its own session that passed the
\* checks, and a token of the credentials file goes to no other host than the one
\* it is filed under, whatever other sessions and later requests carry; with a token
\* of the server's own no header changes the address, while the query does
\* (middleware.go:139-202, tfe_client.go:103-127).
ClientFromOwnRequest ==
  \A s \in Session : tfeClient[s] # None =>
    \E p \in IF Transport(cfg) = "stdio" THEN {None} ELSE arrived[s] :
      MadeFrom(tfeClient[s], p, cfg)
=============================================================================
