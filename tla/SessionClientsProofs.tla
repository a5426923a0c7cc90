------------------------ MODULE SessionClientsProofs ------------------------
(***************************************************************************)
(* What TLAPS proves of SessionClients, for any number of sessions and of  *)
(* overlapping requests.                                                   *)
(***************************************************************************)
EXTENDS SessionClients, TLAPS

-----------------------------------------------------------------------------
(* Type correctness *)

LEMMA TypeInit == Init => TypeOK
<1> SUFFICES ASSUME Init
             PROVE  TypeOK
  OBVIOUS
<1>1. /\ pc \in [Proc -> {"idle"}] /\ made \in [Proc -> {"none"}]
      /\ sess \in [Proc -> Session \cup {None}]
      /\ \A s \in Session : sess[s] = s
      /\ \A r \in Request : pc[r] = "idle"
  BY DisjointAssumption DEF Init, Proc
<1>2. QED
  BY <1>1 DEF Init, TypeOK, Past

LEMMA TypeStep == TypeOK /\ [Next]_vars => TypeOK'
<1> SUFFICES ASSUME TypeOK, [Next]_vars
             PROVE  TypeOK'
  OBVIOUS
<1> USE DisjointAssumption DEF Proc, HookPC, HandlerPC, ClosePC, Past
<1>1. ASSUME NEW s \in Session, NEW r \in Request, Start(r, s)
      PROVE  TypeOK'
  BY <1>1 DEF Start, Begin, Reuse, Closing, Goto, maps, registry, TypeOK
<1>2. ASSUME NEW s \in Session, NEW r \in Request, ReadResource(r, s)
      PROVE  TypeOK'
  BY <1>2 DEF ReadResource, Begin, Reuse, Closing, Goto, maps, registry, TypeOK
<1>3. ASSUME NEW s \in Session, Open(s)
      PROVE  TypeOK'
  BY <1>3 DEF Open, Reuse, Closing, Goto, maps, registry, TypeOK
<1>4. ASSUME NEW s \in Session, Close(s)
      PROVE  TypeOK'
  BY <1>4 DEF Close, Active, Goto, maps, registry, TypeOK
<1>5. ASSUME NEW s \in Session, UnregisterSessionWithTFE(s)
      PROVE  TypeOK'
  BY <1>5 DEF UnregisterSessionWithTFE, Goto, maps, registry, TypeOK
<1>6. ASSUME NEW s \in Session, DeleteTfeClient(s)
      PROVE  TypeOK'
  BY <1>6 DEF DeleteTfeClient, Goto, maps, registry, TypeOK
<1>7. ASSUME NEW s \in Session, DeleteHttpClient(s)
      PROVE  TypeOK'
  BY <1>7 DEF DeleteHttpClient, Goto, maps, registry, TypeOK
<1>8. ASSUME NEW p \in Proc, CheckClient(p)
      PROVE  TypeOK'
  BY <1>8 DEF CheckClient, AfterHook, Goto, maps, registry, TypeOK
<1>9. ASSUME NEW p \in Proc, CreateTfe(p)
      PROVE  TypeOK'
  BY <1>9 DEF CreateTfe, Goto, maps, registry, TypeOK
<1>10. ASSUME NEW p \in Proc, CreateHttp(p)
       PROVE  TypeOK'
  BY <1>10 DEF CreateHttp, AfterHook, Goto, maps, registry, TypeOK
<1>11. ASSUME NEW p \in Proc, Register(p)
       PROVE  TypeOK'
  BY <1>11 DEF Register, RegisterSessionWithTFE, AfterHook, Goto, maps, registry, TypeOK
<1>12. ASSUME NEW r \in Request, AnswerFromTools(r)
       PROVE  TypeOK'
  BY <1>12 DEF AnswerFromTools, Finish, Goto, maps, registry, TypeOK
<1>13. ASSUME NEW r \in Request, CallTfeTool(r)
       PROVE  TypeOK'
  BY <1>13 DEF CallTfeTool, Continue, Goto, maps, registry, TypeOK
<1>14. ASSUME NEW r \in Request, Recheck(r)
       PROVE  TypeOK'
  BY <1>14 DEF Recheck, Continue, Goto, maps, registry, TypeOK
<1>15. ASSUME NEW r \in Request, Reregister(r)
       PROVE  TypeOK'
  BY <1>15 DEF Reregister, RegisterSessionWithTFE, Continue, Goto, maps, registry, TypeOK
<1>16. ASSUME NEW r \in Request, Refuse(r)
       PROVE  TypeOK'
  BY <1>16 DEF Refuse, Finish, Goto, maps, registry, TypeOK
<1>17. ASSUME NEW r \in Request, GetTfe(r)
       PROVE  TypeOK'
  BY <1>17 DEF GetTfe, Finish, Continue, Goto, maps, registry, TypeOK
<1>18. ASSUME NEW r \in Request, RemakeTfe(r)
       PROVE  TypeOK'
  BY <1>18 DEF RemakeTfe, Finish, Goto, maps, registry, TypeOK
<1>19. ASSUME NEW r \in Request, GetHttp(r)
       PROVE  TypeOK'
  BY <1>19 DEF GetHttp, Finish, Continue, Goto, maps, registry, TypeOK
<1>20. ASSUME NEW r \in Request, RemakeHttp(r)
       PROVE  TypeOK'
  BY <1>20 DEF RemakeHttp, Finish, Goto, maps, registry, TypeOK
<1>21. CASE UNCHANGED vars
  BY <1>21 DEF vars, maps, registry, TypeOK
<1>22. QED
  BY <1>1, <1>2, <1>3, <1>4, <1>5, <1>6, <1>7, <1>8, <1>9, <1>10, <1>11,
     <1>12, <1>13, <1>14, <1>15, <1>16, <1>17, <1>18, <1>19, <1>20, <1>21
     DEF Next

\* Every step keeps the variables typed, and a goroutine at work has a session.
THEOREM Typing == Spec => []TypeOK
BY TypeInit, TypeStep, PTL DEF Spec

-----------------------------------------------------------------------------
(* Where clients and registrations come from *)

\* A session that is in a map, in the registry, or about to be put there had a
\* TFE client created for it.
AuthInv ==
  /\ tfe \cup sessionsWithTFE \subseteq authed
  /\ \A p \in Proc :
       \/ pc[p] = "http" /\ made[p] = "ok"
       \/ pc[p] \in {"register", "reregister", "handler"}
       => sess[p] \in authed

LEMMA AuthStep == TypeOK /\ AuthInv /\ [Next]_vars => AuthInv'
<1> SUFFICES ASSUME TypeOK, AuthInv, [Next]_vars
             PROVE  AuthInv'
  OBVIOUS
<1> USE DisjointAssumption DEF Proc, TypeOK
<1>1. ASSUME NEW s \in Session, NEW r \in Request, Start(r, s)
      PROVE  AuthInv'
  BY <1>1 DEF Start, Begin, Reuse, Closing, Goto, maps, registry, AuthInv
<1>2. ASSUME NEW s \in Session, NEW r \in Request, ReadResource(r, s)
      PROVE  AuthInv'
  BY <1>2 DEF ReadResource, Begin, Reuse, Closing, Goto, maps, registry, AuthInv
<1>3. ASSUME NEW s \in Session, Open(s)
      PROVE  AuthInv'
  BY <1>3 DEF Open, Reuse, Closing, Goto, maps, registry, AuthInv
<1>4. ASSUME NEW s \in Session, Close(s)
      PROVE  AuthInv'
  BY <1>4 DEF Close, Active, Goto, maps, registry, AuthInv
<1>5. ASSUME NEW s \in Session, UnregisterSessionWithTFE(s)
      PROVE  AuthInv'
  BY <1>5 DEF UnregisterSessionWithTFE, Goto, maps, registry, AuthInv
<1>6. ASSUME NEW s \in Session, DeleteTfeClient(s)
      PROVE  AuthInv'
  BY <1>6 DEF DeleteTfeClient, Goto, maps, registry, AuthInv
<1>7. ASSUME NEW s \in Session, DeleteHttpClient(s)
      PROVE  AuthInv'
  BY <1>7 DEF DeleteHttpClient, Goto, maps, registry, AuthInv
<1>8. ASSUME NEW p \in Proc, CheckClient(p)
      PROVE  AuthInv'
  BY <1>8 DEF CheckClient, AfterHook, Goto, maps, registry, AuthInv
<1>9. ASSUME NEW p \in Proc, CreateTfe(p)
      PROVE  AuthInv'
  BY <1>9 DEF CreateTfe, Goto, maps, registry, AuthInv
<1>10. ASSUME NEW p \in Proc, CreateHttp(p)
       PROVE  AuthInv'
  BY <1>10 DEF CreateHttp, AfterHook, Goto, maps, registry, AuthInv
<1>11. ASSUME NEW p \in Proc, Register(p)
       PROVE  AuthInv'
  BY <1>11 DEF Register, RegisterSessionWithTFE, AfterHook, Goto, maps, registry, AuthInv
<1>12. ASSUME NEW r \in Request, AnswerFromTools(r)
       PROVE  AuthInv'
  BY <1>12 DEF AnswerFromTools, Finish, Goto, maps, registry, AuthInv
<1>13. ASSUME NEW r \in Request, CallTfeTool(r)
       PROVE  AuthInv'
  BY <1>13 DEF CallTfeTool, Continue, Goto, maps, registry, AuthInv
<1>14. ASSUME NEW r \in Request, Recheck(r)
       PROVE  AuthInv'
  BY <1>14 DEF Recheck, Continue, Goto, maps, registry, AuthInv
<1>15. ASSUME NEW r \in Request, Reregister(r)
       PROVE  AuthInv'
  BY <1>15 DEF Reregister, RegisterSessionWithTFE, Continue, Goto, maps, registry, AuthInv
<1>16. ASSUME NEW r \in Request, Refuse(r)
       PROVE  AuthInv'
  BY <1>16 DEF Refuse, Finish, Goto, maps, registry, AuthInv
<1>17. ASSUME NEW r \in Request, GetTfe(r)
       PROVE  AuthInv'
  BY <1>17 DEF GetTfe, Finish, Continue, Goto, maps, registry, AuthInv
<1>18. ASSUME NEW r \in Request, RemakeTfe(r)
       PROVE  AuthInv'
  BY <1>18 DEF RemakeTfe, Finish, Goto, maps, registry, AuthInv
<1>19. ASSUME NEW r \in Request, GetHttp(r)
       PROVE  AuthInv'
  BY <1>19 DEF GetHttp, Finish, Continue, Goto, maps, registry, AuthInv
<1>20. ASSUME NEW r \in Request, RemakeHttp(r)
       PROVE  AuthInv'
  BY <1>20 DEF RemakeHttp, Finish, Goto, maps, registry, AuthInv
<1>21. CASE UNCHANGED vars
  BY <1>21 DEF vars, maps, registry, AuthInv
<1>22. QED
  BY <1>1, <1>2, <1>3, <1>4, <1>5, <1>6, <1>7, <1>8, <1>9, <1>10, <1>11,
     <1>12, <1>13, <1>14, <1>15, <1>16, <1>17, <1>18, <1>19, <1>20, <1>21
     DEF Next

\* The handler of a wrapped TFE tool runs only for a session that had a client,
\* however the requests and the closing of streams interleave.
THEOREM HandlerClient == Spec => []HandlerNeedsClient
<1>1. Init => AuthInv
  BY DEF Init, AuthInv, Proc
<1>2. TypeOK /\ AuthInv => HandlerNeedsClient
  BY DEF AuthInv, HandlerNeedsClient, Proc
<1>3. QED
  BY <1>1, <1>2, Typing, AuthStep, PTL DEF Spec

LEMMA OnceStep == TypeOK /\ AuthInv /\ ToolsRegisteredOnce /\ [Next]_vars => ToolsRegisteredOnce'
<1> SUFFICES ASSUME TypeOK, AuthInv, ToolsRegisteredOnce, [Next]_vars
             PROVE  ToolsRegisteredOnce'
  OBVIOUS
<1> USE DisjointAssumption DEF Proc, TypeOK, AuthInv
<1>1. ASSUME NEW s \in Session, NEW r \in Request, Start(r, s)
      PROVE  ToolsRegisteredOnce'
  BY <1>1 DEF Start, Begin, Reuse, Closing, Goto, maps, registry, ToolsRegisteredOnce
<1>2. ASSUME NEW s \in Session, NEW r \in Request, ReadResource(r, s)
      PROVE  ToolsRegisteredOnce'
  BY <1>2 DEF ReadResource, Begin, Reuse, Closing, Goto, maps, registry, ToolsRegisteredOnce
<1>3. ASSUME NEW s \in Session, Open(s)
      PROVE  ToolsRegisteredOnce'
  BY <1>3 DEF Open, Reuse, Closing, Goto, maps, registry, ToolsRegisteredOnce
<1>4. ASSUME NEW s \in Session, Close(s)
      PROVE  ToolsRegisteredOnce'
  BY <1>4 DEF Close, Active, Goto, maps, registry, ToolsRegisteredOnce
<1>5. ASSUME NEW s \in Session, UnregisterSessionWithTFE(s)
      PROVE  ToolsRegisteredOnce'
  BY <1>5 DEF UnregisterSessionWithTFE, Goto, maps, registry, ToolsRegisteredOnce
<1>6. ASSUME NEW s \in Session, DeleteTfeClient(s)
      PROVE  ToolsRegisteredOnce'
  BY <1>6 DEF DeleteTfeClient, Goto, maps, registry, ToolsRegisteredOnce
<1>7. ASSUME NEW s \in Session, DeleteHttpClient(s)
      PROVE  ToolsRegisteredOnce'
  BY <1>7 DEF DeleteHttpClient, Goto, maps, registry, ToolsRegisteredOnce
<1>8. ASSUME NEW p \in Proc, CheckClient(p)
      PROVE  ToolsRegisteredOnce'
  BY <1>8 DEF CheckClient, AfterHook, Goto, maps, registry, ToolsRegisteredOnce
<1>9. ASSUME NEW p \in Proc, CreateTfe(p)
      PROVE  ToolsRegisteredOnce'
  BY <1>9 DEF CreateTfe, Goto, maps, registry, ToolsRegisteredOnce
<1>10. ASSUME NEW p \in Proc, CreateHttp(p)
       PROVE  ToolsRegisteredOnce'
  BY <1>10 DEF CreateHttp, AfterHook, Goto, maps, registry, ToolsRegisteredOnce
<1>11. ASSUME NEW p \in Proc, Register(p)
       PROVE  ToolsRegisteredOnce'
  BY <1>11 DEF Register, RegisterSessionWithTFE, AfterHook, Goto, maps, registry, ToolsRegisteredOnce
<1>12. ASSUME NEW r \in Request, AnswerFromTools(r)
       PROVE  ToolsRegisteredOnce'
  BY <1>12 DEF AnswerFromTools, Finish, Goto, maps, registry, ToolsRegisteredOnce
<1>13. ASSUME NEW r \in Request, CallTfeTool(r)
       PROVE  ToolsRegisteredOnce'
  BY <1>13 DEF CallTfeTool, Continue, Goto, maps, registry, ToolsRegisteredOnce
<1>14. ASSUME NEW r \in Request, Recheck(r)
       PROVE  ToolsRegisteredOnce'
  BY <1>14 DEF Recheck, Continue, Goto, maps, registry, ToolsRegisteredOnce
<1>15. ASSUME NEW r \in Request, Reregister(r)
       PROVE  ToolsRegisteredOnce'
  BY <1>15 DEF Reregister, RegisterSessionWithTFE, Continue, Goto, maps, registry, ToolsRegisteredOnce
<1>16. ASSUME NEW r \in Request, Refuse(r)
       PROVE  ToolsRegisteredOnce'
  BY <1>16 DEF Refuse, Finish, Goto, maps, registry, ToolsRegisteredOnce
<1>17. ASSUME NEW r \in Request, GetTfe(r)
       PROVE  ToolsRegisteredOnce'
  BY <1>17 DEF GetTfe, Finish, Continue, Goto, maps, registry, ToolsRegisteredOnce
<1>18. ASSUME NEW r \in Request, RemakeTfe(r)
       PROVE  ToolsRegisteredOnce'
  BY <1>18 DEF RemakeTfe, Finish, Goto, maps, registry, ToolsRegisteredOnce
<1>19. ASSUME NEW r \in Request, GetHttp(r)
       PROVE  ToolsRegisteredOnce'
  BY <1>19 DEF GetHttp, Finish, Continue, Goto, maps, registry, ToolsRegisteredOnce
<1>20. ASSUME NEW r \in Request, RemakeHttp(r)
       PROVE  ToolsRegisteredOnce'
  BY <1>20 DEF RemakeHttp, Finish, Goto, maps, registry, ToolsRegisteredOnce
<1>21. CASE UNCHANGED vars
  BY <1>21 DEF vars, maps, registry, ToolsRegisteredOnce
<1>22. QED
  BY <1>1, <1>2, <1>3, <1>4, <1>5, <1>6, <1>7, <1>8, <1>9, <1>10, <1>11,
     <1>12, <1>13, <1>14, <1>15, <1>16, <1>17, <1>18, <1>19, <1>20, <1>21
     DEF Next

\* registerTFETools runs exactly once, however many first sessions race.
THEOREM RegisteredOnce == Spec => []ToolsRegisteredOnce
<1>1. Init => AuthInv /\ ToolsRegisteredOnce
  BY DEF Init, AuthInv, Proc, ToolsRegisteredOnce
<1>2. QED
  BY <1>1, Typing, AuthStep, OnceStep, PTL DEF Spec

-----------------------------------------------------------------------------
(* A quiet close, and the client of a registered session *)

\* Nothing is at work for a quiet session but its closing stream, which has
\* removed what its finished steps remove.
QuietInv ==
  \A s \in Session :
    /\ Closing(s) => past[s] # "fresh"
    /\ past[s] = "quiet" =>
         /\ pc[s] \in ClosePC \cup {"idle"}
         /\ \A r \in Request : sess[r] = s => pc[r] = "idle"
         /\ s \in sessionsWithTFE => pc[s] = "unregister"
         /\ s \in tfe => pc[s] \in {"unregister", "deltfe"}
         /\ s \in http => Closing(s)

LEMMA QuietStep == TypeOK /\ QuietInv /\ [Next]_vars => QuietInv'
<1> SUFFICES ASSUME TypeOK, QuietInv, [Next]_vars
             PROVE  QuietInv'
  OBVIOUS
<1> USE DisjointAssumption DEF Proc, TypeOK, Closing, HookPC, HandlerPC, ClosePC, Past
<1>1. ASSUME NEW s \in Session, NEW r \in Request, Start(r, s)
      PROVE  QuietInv'
  BY <1>1 DEF Start, Begin, Reuse, Closing, Goto, maps, registry, QuietInv
<1>2. ASSUME NEW s \in Session, NEW r \in Request, ReadResource(r, s)
      PROVE  QuietInv'
  BY <1>2 DEF ReadResource, Begin, Reuse, Closing, Goto, maps, registry, QuietInv
<1>3. ASSUME NEW s \in Session, Open(s)
      PROVE  QuietInv'
  BY <1>3 DEF Open, Reuse, Closing, Goto, maps, registry, QuietInv
<1>4. ASSUME NEW s \in Session, Close(s)
      PROVE  QuietInv'
  BY <1>4 DEF Close, Active, Goto, maps, registry, QuietInv
<1>5. ASSUME NEW s \in Session, UnregisterSessionWithTFE(s)
      PROVE  QuietInv'
  BY <1>5 DEF UnregisterSessionWithTFE, Goto, maps, registry, QuietInv
<1>6. ASSUME NEW s \in Session, DeleteTfeClient(s)
      PROVE  QuietInv'
  BY <1>6 DEF DeleteTfeClient, Goto, maps, registry, QuietInv
<1>7. ASSUME NEW s \in Session, DeleteHttpClient(s)
      PROVE  QuietInv'
  BY <1>7 DEF DeleteHttpClient, Goto, maps, registry, QuietInv
<1>8. ASSUME NEW p \in Proc, CheckClient(p)
      PROVE  QuietInv'
  BY <1>8 DEF CheckClient, AfterHook, Goto, maps, registry, QuietInv
<1>9. ASSUME NEW p \in Proc, CreateTfe(p)
      PROVE  QuietInv'
  BY <1>9 DEF CreateTfe, Goto, maps, registry, QuietInv
<1>10. ASSUME NEW p \in Proc, CreateHttp(p)
       PROVE  QuietInv'
  BY <1>10 DEF CreateHttp, AfterHook, Goto, maps, registry, QuietInv
<1>11. ASSUME NEW p \in Proc, Register(p)
       PROVE  QuietInv'
  BY <1>11 DEF Register, RegisterSessionWithTFE, AfterHook, Goto, maps, registry, QuietInv
<1>12. ASSUME NEW r \in Request, AnswerFromTools(r)
       PROVE  QuietInv'
  BY <1>12 DEF AnswerFromTools, Finish, Goto, maps, registry, QuietInv
<1>13. ASSUME NEW r \in Request, CallTfeTool(r)
       PROVE  QuietInv'
  BY <1>13 DEF CallTfeTool, Continue, Goto, maps, registry, QuietInv
<1>14. ASSUME NEW r \in Request, Recheck(r)
       PROVE  QuietInv'
  BY <1>14 DEF Recheck, Continue, Goto, maps, registry, QuietInv
<1>15. ASSUME NEW r \in Request, Reregister(r)
       PROVE  QuietInv'
  BY <1>15 DEF Reregister, RegisterSessionWithTFE, Continue, Goto, maps, registry, QuietInv
<1>16. ASSUME NEW r \in Request, Refuse(r)
       PROVE  QuietInv'
  BY <1>16 DEF Refuse, Finish, Goto, maps, registry, QuietInv
<1>17. ASSUME NEW r \in Request, GetTfe(r)
       PROVE  QuietInv'
  BY <1>17 DEF GetTfe, Finish, Continue, Goto, maps, registry, QuietInv
<1>18. ASSUME NEW r \in Request, RemakeTfe(r)
       PROVE  QuietInv'
  BY <1>18 DEF RemakeTfe, Finish, Goto, maps, registry, QuietInv
<1>19. ASSUME NEW r \in Request, GetHttp(r)
       PROVE  QuietInv'
  BY <1>19 DEF GetHttp, Finish, Continue, Goto, maps, registry, QuietInv
<1>20. ASSUME NEW r \in Request, RemakeHttp(r)
       PROVE  QuietInv'
  BY <1>20 DEF RemakeHttp, Finish, Goto, maps, registry, QuietInv
<1>21. CASE UNCHANGED vars
  BY <1>21 DEF vars, maps, registry, QuietInv
<1>22. QED
  BY <1>1, <1>2, <1>3, <1>4, <1>5, <1>6, <1>7, <1>8, <1>9, <1>10, <1>11,
     <1>12, <1>13, <1>14, <1>15, <1>16, <1>17, <1>18, <1>19, <1>20, <1>21
     DEF Next

\* A session that no close with requests under way has touched is registered, or
\* about to be, only with its client in the map.
FreshInv ==
  \A s \in Session :
    past[s] = "fresh" =>
      /\ s \in sessionsWithTFE => s \in tfe
      /\ \A p \in Proc :
           sess[p] = s /\ (pc[p] \in {"register", "reregister"} \/ (pc[p] = "http" /\ made[p] = "ok"))
             => s \in tfe

LEMMA FreshStep == TypeOK /\ QuietInv /\ FreshInv /\ [Next]_vars => FreshInv'
<1> SUFFICES ASSUME TypeOK, QuietInv, FreshInv, [Next]_vars
             PROVE  FreshInv'
  OBVIOUS
<1> USE DisjointAssumption DEF Proc, TypeOK, Closing, HookPC, HandlerPC, ClosePC, Past, QuietInv
<1>1. ASSUME NEW s \in Session, NEW r \in Request, Start(r, s)
      PROVE  FreshInv'
  BY <1>1 DEF Start, Begin, Reuse, Closing, Goto, maps, registry, FreshInv
<1>2. ASSUME NEW s \in Session, NEW r \in Request, ReadResource(r, s)
      PROVE  FreshInv'
  BY <1>2 DEF ReadResource, Begin, Reuse, Closing, Goto, maps, registry, FreshInv
<1>3. ASSUME NEW s \in Session, Open(s)
      PROVE  FreshInv'
  BY <1>3 DEF Open, Reuse, Closing, Goto, maps, registry, FreshInv
<1>4. ASSUME NEW s \in Session, Close(s)
      PROVE  FreshInv'
  BY <1>4 DEF Close, Active, Goto, maps, registry, FreshInv
<1>5. ASSUME NEW s \in Session, UnregisterSessionWithTFE(s)
      PROVE  FreshInv'
  BY <1>5 DEF UnregisterSessionWithTFE, Goto, maps, registry, FreshInv
<1>6. ASSUME NEW s \in Session, DeleteTfeClient(s)
      PROVE  FreshInv'
  BY <1>6 DEF DeleteTfeClient, Goto, maps, registry, FreshInv
<1>7. ASSUME NEW s \in Session, DeleteHttpClient(s)
      PROVE  FreshInv'
  BY <1>7 DEF DeleteHttpClient, Goto, maps, registry, FreshInv
<1>8. ASSUME NEW p \in Proc, CheckClient(p)
      PROVE  FreshInv'
  BY <1>8 DEF CheckClient, AfterHook, Goto, maps, registry, FreshInv
<1>9. ASSUME NEW p \in Proc, CreateTfe(p)
      PROVE  FreshInv'
  BY <1>9 DEF CreateTfe, Goto, maps, registry, FreshInv
<1>10. ASSUME NEW p \in Proc, CreateHttp(p)
       PROVE  FreshInv'
  BY <1>10 DEF CreateHttp, AfterHook, Goto, maps, registry, FreshInv
<1>11. ASSUME NEW p \in Proc, Register(p)
       PROVE  FreshInv'
  <2>1. sess[p] \in Session /\ (past[sess[p]] = "fresh" => sess[p] \in tfe)
    BY <1>11 DEF Register, FreshInv
  <2>2. sessionsWithTFE' = sessionsWithTFE \cup {sess[p]}
    BY <1>11 DEF Register, RegisterSessionWithTFE
  <2>3. /\ pc' = [pc EXCEPT ![p] = AfterHook(p)]
        /\ UNCHANGED <<tfe, past, sess, made>>
    BY <1>11 DEF Register, Goto, maps
  <2>4. ASSUME NEW s \in Session, past[s] = "fresh", s \in sessionsWithTFE'
        PROVE  s \in tfe
    BY <2>1, <2>2, <2>4 DEF FreshInv
  <2>5. ASSUME NEW s \in Session, past[s] = "fresh", NEW q \in Proc, sess[q] = s,
               pc'[q] \in {"register", "reregister"} \/ (pc'[q] = "http" /\ made[q] = "ok")
        PROVE  s \in tfe
    <3>1. pc'[q] = pc[q] \/ q = p
      BY <2>3
    <3>2. QED
      BY <2>1, <2>5, <3>1 DEF FreshInv
  <2>6. QED
    BY <2>3, <2>4, <2>5 DEF FreshInv
<1>12. ASSUME NEW r \in Request, AnswerFromTools(r)
       PROVE  FreshInv'
  BY <1>12 DEF AnswerFromTools, Finish, Goto, maps, registry, FreshInv
<1>13. ASSUME NEW r \in Request, CallTfeTool(r)
       PROVE  FreshInv'
  BY <1>13 DEF CallTfeTool, Continue, Goto, maps, registry, FreshInv
<1>14. ASSUME NEW r \in Request, Recheck(r)
       PROVE  FreshInv'
  BY <1>14 DEF Recheck, Continue, Goto, maps, registry, FreshInv
<1>15. ASSUME NEW r \in Request, Reregister(r)
       PROVE  FreshInv'
  <2>1. sess[r] \in Session /\ (past[sess[r]] = "fresh" => sess[r] \in tfe)
    BY <1>15 DEF Reregister, FreshInv
  <2>2. sessionsWithTFE' = sessionsWithTFE \cup {sess[r]}
    BY <1>15 DEF Reregister, RegisterSessionWithTFE
  <2>3. /\ pc' = [pc EXCEPT ![r] = "handler"]
        /\ UNCHANGED <<tfe, past, sess, made>>
    BY <1>15 DEF Reregister, Goto, maps, Continue
  <2>4. ASSUME NEW s \in Session, past[s] = "fresh", s \in sessionsWithTFE'
        PROVE  s \in tfe
    BY <2>1, <2>2, <2>4 DEF FreshInv
  <2>5. ASSUME NEW s \in Session, past[s] = "fresh", NEW q \in Proc, sess[q] = s,
               pc'[q] \in {"register", "reregister"} \/ (pc'[q] = "http" /\ made[q] = "ok")
        PROVE  s \in tfe
    <3>1. pc'[q] = pc[q] \/ q = r
      BY <2>3
    <3>2. QED
      BY <2>1, <2>5, <3>1 DEF FreshInv
  <2>6. QED
    BY <2>3, <2>4, <2>5 DEF FreshInv
<1>16. ASSUME NEW r \in Request, Refuse(r)
       PROVE  FreshInv'
  BY <1>16 DEF Refuse, Finish, Goto, maps, registry, FreshInv
<1>17. ASSUME NEW r \in Request, GetTfe(r)
       PROVE  FreshInv'
  BY <1>17 DEF GetTfe, Finish, Continue, Goto, maps, registry, FreshInv
<1>18. ASSUME NEW r \in Request, RemakeTfe(r)
       PROVE  FreshInv'
  BY <1>18 DEF RemakeTfe, Finish, Goto, maps, registry, FreshInv
<1>19. ASSUME NEW r \in Request, GetHttp(r)
       PROVE  FreshInv'
  BY <1>19 DEF GetHttp, Finish, Continue, Goto, maps, registry, FreshInv
<1>20. ASSUME NEW r \in Request, RemakeHttp(r)
       PROVE  FreshInv'
  BY <1>20 DEF RemakeHttp, Finish, Goto, maps, registry, FreshInv
<1>21. CASE UNCHANGED vars
  BY <1>21 DEF vars, maps, registry, FreshInv
<1>22. QED
  BY <1>1, <1>2, <1>3, <1>4, <1>5, <1>6, <1>7, <1>8, <1>9, <1>10, <1>11,
     <1>12, <1>13, <1>14, <1>15, <1>16, <1>17, <1>18, <1>19, <1>20, <1>21
     DEF Next

LEMMA QuietFreshInit == Init => QuietInv /\ FreshInv
BY DisjointAssumption DEF Init, QuietInv, FreshInv, Closing, ClosePC, Proc

\* EndSessionHandler leaves nothing behind unless requests overlapped it.
THEOREM EndCleans == Spec => []EndCleansUp
<1>1. QuietInv => EndCleansUp
  BY DEF QuietInv, EndCleansUp, Closing, ClosePC
<1>2. QED
  BY <1>1, Typing, QuietFreshInit, QuietStep, PTL DEF Spec

\* The registry may be trusted for every session that no such close touched.
THEOREM RegisteredClient == Spec => []RegisteredHasClient
<1>1. TypeOK /\ QuietInv /\ FreshInv => RegisteredHasClient
  BY DEF TypeOK, QuietInv, FreshInv, RegisteredHasClient, Past
<1>2. QED
  BY <1>1, Typing, QuietFreshInit, QuietStep, FreshStep, PTL DEF Spec

-----------------------------------------------------------------------------
(* Refusals *)

\* A request that no close overlapped and whose hook did not fail has its
\* session's client in the map from then on.
CauseInv ==
  \A r \in Request :
    /\ pc[r] # "idle" /\ Closing(sess[r]) => r \in disturbed
    /\ pc[r] = "http" => made[r] # "none"
    /\ /\ pc[r] \in {"http", "register", "serve", "recheck", "reregister", "refused"}
       /\ made[r] # "failed"
       /\ r \notin disturbed
       => sess[r] \in tfe /\ pc[r] # "refused"

LEMMA CauseStep == TypeOK /\ CauseInv /\ [Next]_vars => CauseInv'
<1> SUFFICES ASSUME TypeOK, CauseInv, [Next]_vars
             PROVE  CauseInv'
  OBVIOUS
<1> USE DisjointAssumption DEF Proc, TypeOK, Closing, HookPC, HandlerPC, ClosePC
<1>1. ASSUME NEW s \in Session, NEW r \in Request, Start(r, s)
      PROVE  CauseInv'
  BY <1>1 DEF Start, Begin, Reuse, Closing, Goto, maps, registry, CauseInv
<1>2. ASSUME NEW s \in Session, NEW r \in Request, ReadResource(r, s)
      PROVE  CauseInv'
  BY <1>2 DEF ReadResource, Begin, Reuse, Closing, Goto, maps, registry, CauseInv
<1>3. ASSUME NEW s \in Session, Open(s)
      PROVE  CauseInv'
  BY <1>3 DEF Open, Reuse, Closing, Goto, maps, registry, CauseInv
<1>4. ASSUME NEW s \in Session, Close(s)
      PROVE  CauseInv'
  BY <1>4 DEF Close, Active, Goto, maps, registry, CauseInv
<1>5. ASSUME NEW s \in Session, UnregisterSessionWithTFE(s)
      PROVE  CauseInv'
  BY <1>5 DEF UnregisterSessionWithTFE, Goto, maps, registry, CauseInv
<1>6. ASSUME NEW s \in Session, DeleteTfeClient(s)
      PROVE  CauseInv'
  BY <1>6 DEF DeleteTfeClient, Goto, maps, registry, CauseInv
<1>7. ASSUME NEW s \in Session, DeleteHttpClient(s)
      PROVE  CauseInv'
  BY <1>7 DEF DeleteHttpClient, Goto, maps, registry, CauseInv
<1>8. ASSUME NEW p \in Proc, CheckClient(p)
      PROVE  CauseInv'
  BY <1>8 DEF CheckClient, AfterHook, Goto, maps, registry, CauseInv
<1>9. ASSUME NEW p \in Proc, CreateTfe(p)
      PROVE  CauseInv'
  BY <1>9 DEF CreateTfe, Goto, maps, registry, CauseInv
<1>10. ASSUME NEW p \in Proc, CreateHttp(p)
       PROVE  CauseInv'
  BY <1>10 DEF CreateHttp, AfterHook, Goto, maps, registry, CauseInv
<1>11. ASSUME NEW p \in Proc, Register(p)
       PROVE  CauseInv'
  BY <1>11 DEF Register, RegisterSessionWithTFE, AfterHook, Goto, maps, registry, CauseInv
<1>12. ASSUME NEW r \in Request, AnswerFromTools(r)
       PROVE  CauseInv'
  BY <1>12 DEF AnswerFromTools, Finish, Goto, maps, registry, CauseInv
<1>13. ASSUME NEW r \in Request, CallTfeTool(r)
       PROVE  CauseInv'
  BY <1>13 DEF CallTfeTool, Continue, Goto, maps, registry, CauseInv
<1>14. ASSUME NEW r \in Request, Recheck(r)
       PROVE  CauseInv'
  BY <1>14 DEF Recheck, Continue, Goto, maps, registry, CauseInv
<1>15. ASSUME NEW r \in Request, Reregister(r)
       PROVE  CauseInv'
  BY <1>15 DEF Reregister, RegisterSessionWithTFE, Continue, Goto, maps, registry, CauseInv
<1>16. ASSUME NEW r \in Request, Refuse(r)
       PROVE  CauseInv'
  BY <1>16 DEF Refuse, Finish, Goto, maps, registry, CauseInv
<1>17. ASSUME NEW r \in Request, GetTfe(r)
       PROVE  CauseInv'
  BY <1>17 DEF GetTfe, Finish, Continue, Goto, maps, registry, CauseInv
<1>18. ASSUME NEW r \in Request, RemakeTfe(r)
       PROVE  CauseInv'
  BY <1>18 DEF RemakeTfe, Finish, Goto, maps, registry, CauseInv
<1>19. ASSUME NEW r \in Request, GetHttp(r)
       PROVE  CauseInv'
  BY <1>19 DEF GetHttp, Finish, Continue, Goto, maps, registry, CauseInv
<1>20. ASSUME NEW r \in Request, RemakeHttp(r)
       PROVE  CauseInv'
  BY <1>20 DEF RemakeHttp, Finish, Goto, maps, registry, CauseInv
<1>21. CASE UNCHANGED vars
  BY <1>21 DEF vars, maps, registry, CauseInv
<1>22. QED
  BY <1>1, <1>2, <1>3, <1>4, <1>5, <1>6, <1>7, <1>8, <1>9, <1>10, <1>11,
     <1>12, <1>13, <1>14, <1>15, <1>16, <1>17, <1>18, <1>19, <1>20, <1>21
     DEF Next

\* No TFE tool call is refused without a failed hook or a close in between.
THEOREM Refusals == Spec => []RefusedForCause
<1>1. Init => CauseInv
  BY DEF Init, CauseInv, Closing, ClosePC, Proc
<1>2. CauseInv => RefusedForCause
  BY DEF CauseInv, RefusedForCause
<1>3. QED
  BY <1>1, <1>2, Typing, CauseStep, PTL DEF Spec
=============================================================================
