---------------------------- MODULE VersionStore ----------------------------
(***************************************************************************)
(* What the state tools promise their clients, with no word about a cache: *)
(* a call is answered with a version of the state it asked for, a version  *)
(* that the backend holds or held, and, for a client that awaits each      *)
(* answer before its next call, none older than what the client has been   *)
(* given before or was promised by a refresh.  StateLoader implements it.  *)
(***************************************************************************)
EXTENDS Naturals

CONSTANTS
  Call,     \* calls that may be open at the same time
  Session,  \* who calls
  Serial,   \* the sessions with at most one open call
  Direct,   \* the sessions that are always answered with what is current
  Watched,  \* the sessions whose promises are recorded, the serial ones among them
  Object,   \* the states that can be asked for
  None      \* what nobody asks for

VARIABLES
  source,   \* source[t]: the version of state t at the backend
  status,   \* status[c]: no call, or it has been asked, or answered
  asked,    \* asked[c]: what call c asks for, and the oldest answer it may get
  answer,   \* answer[c]: {the version it is answered with}; {} before, and for an error
  seen      \* seen[<<s, t>>]: the version of t that session s must not fall behind

vars == <<source, status, asked, answer, seen>>

Init ==
  /\ source = [t \in Object |-> 1]
  /\ status = [c \in Call |-> "none"]
  /\ asked = [c \in Call |-> None]
  /\ answer = [c \in Call |-> {}]
  /\ seen = [p \in Watched \X Object |-> 0]

\* A serial session acts only when it has no open call.
MayAct(s) == s \in Serial => \A c \in Call : status[c] # "none" => asked[c].sess # s

Floor(s, t) ==
  IF s \in Direct THEN source[t] ELSE IF s \in Watched THEN seen[<<s, t>>] ELSE 0

Ask(c, s, t) ==
  /\ status[c] = "none"
  /\ MayAct(s)
  /\ status' = [status EXCEPT ![c] = "asked"]
  /\ asked' = [asked EXCEPT ![c] = [sess |-> s, target |-> t, floor |-> Floor(s, t)]]
  /\ UNCHANGED <<source, answer, seen>>

\* The backend holds or held the version, and the client is not taken back.
Answer(c) ==
  /\ status[c] = "asked"
  /\ status' = [status EXCEPT ![c] = "answered"]
  /\ \E v \in 0 .. source[asked[c].target] :
       /\ asked[c].sess \in Serial \cup Direct => v >= asked[c].floor
       /\ answer' = [answer EXCEPT ![c] = {v}]
  /\ UNCHANGED <<source, asked, seen>>

\* An error is an answer without a version.
Fail(c) ==
  /\ status[c] = "asked"
  /\ status' = [status EXCEPT ![c] = "answered"]
  /\ UNCHANGED <<source, asked, answer, seen>>

Deliver(c) ==
  /\ status[c] = "answered"
  /\ status' = [status EXCEPT ![c] = "none"]
  /\ \/ /\ asked[c].sess \in Serial
        /\ \E v \in answer[c] :
             seen' = [seen EXCEPT ![<<asked[c].sess, asked[c].target>>] = v]
     \/ /\ asked[c].sess \in Serial => answer[c] = {}
        /\ seen' = seen
  /\ asked' = [asked EXCEPT ![c] = None]
  /\ answer' = [answer EXCEPT ![c] = {}]
  /\ UNCHANGED source

Refresh(s, t) ==
  /\ MayAct(s)
  /\ seen' = [seen EXCEPT ![<<s, t>>] = source[t]]
  /\ UNCHANGED <<source, status, asked, answer>>

Change(t) ==
  /\ source' = [source EXCEPT ![t] = @ + 1]
  /\ UNCHANGED <<status, asked, answer, seen>>

Next ==
  \/ \E c \in Call :
       \/ \E s \in Session, t \in Object : Ask(c, s, t)
       \/ Answer(c)
       \/ Fail(c)
       \/ Deliver(c)
  \/ \E s \in Watched, t \in Object : Refresh(s, t)
  \/ \E t \in Object : Change(t)

Spec == Init /\ [][Next]_vars
=============================================================================
