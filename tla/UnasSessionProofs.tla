-------------------------- MODULE UnasSessionProofs --------------------------
(***************************************************************************)
(* Safety of the shared session for any set of tasks, any bound on the     *)
(* requests of an attempt, and both authentication modes; and that it      *)
(* implements SharedSession.                                               *)
(***************************************************************************)
EXTENDS UnasSession, TLAPS

(***************************************************************************)
(* The inductive invariant, in three parts.                                *)
(***************************************************************************)

\* The lock is held exactly by the call that is in a login exchange, which
\* opens with no answer pending.
LockInv ==
    \A t \in Tasks :
        /\ (lock = t) <=> (pc[t] \in LoggingIn)
        /\ pc[t] = "priming" => reply[t] = "none"

\* Sessions in the order they pass through the client: what calls carry is no
\* newer than the cookie, an unread login response is newer than all of it.
OrderInv ==
    /\ cookie <= issued
    /\ authenticated /\ ~useApiKey => cookie >= 1
    /\ \A t \in Tasks :
        /\ sent[t] <= cookie
        /\ rejected[t] <= cookie
        /\ pc[t] = "idle" => attempt[t] = 1
        /\ pc[t] = "posting" /\ reply[t] = "accepted" => cookie < grant[t] /\ grant[t] <= issued
        /\ pc[t] = "waiting" /\ attempt[t] = 2 /\ authenticated => rejected[t] < cookie
        /\ pc[t] \in LoggingIn \cup {"waiting"} => ~useApiKey
        /\ pc[t] = "inflight" /\ ~useApiKey =>
              sent[t] >= 1 /\ (attempt[t] = 2 => rejected[t] < sent[t])

\* As long as nothing valid was refused, a rejection means a dead session.
Dead == (1 .. issued) \ live

DeadInv ==
    ~refused => \A t \in Tasks :
        /\ pc[t] = "posting" => reply[t] # "rejected"
        /\ pc[t] = "inflight" /\ reply[t] = "rejected" => sent[t] \in Dead /\ ~useApiKey
        /\ attempt[t] = 2 => rejected[t] \in Dead /\ ~useApiKey
        /\ pc[t] = "authFailed" => sent[t] \in Dead /\ rejected[t] \in Dead /\ rejected[t] < sent[t]

IInv == TypeOK /\ LockInv /\ OrderInv /\ DeadInv

-----------------------------------------------------------------------------

\* The two flags stay Boolean (kept apart: these leaves are Zenon's).
LEMMA FlagStep ==
    TypeOK /\ [Next]_vars =>
        authenticated' \in BOOLEAN /\ refused' \in BOOLEAN /\ useApiKey' \in BOOLEAN
<1>1. TypeOK /\ [Next]_vars => authenticated' \in BOOLEAN
  BY ZenonT(60) DEF TypeOK, Next, Proceed, AllEnded, Begin, Acquire, Prime, LoginGranted,
         LoginCut, LoginRefused, Finish, SendAnother, Reauthenticate, GiveUp, Unreachable, Cancel,
         Expire, Serve, RejectDead, RefuseRequest, OpenSession, RefuseLogin, EnterLogin, vars,
         client, calls, wire, console
<1>2. TypeOK /\ [Next]_vars => refused' \in BOOLEAN
  BY ZenonT(60) DEF TypeOK, Next, Proceed, AllEnded, Begin, Acquire, Prime, LoginGranted,
         LoginCut, LoginRefused, Finish, SendAnother, Reauthenticate, GiveUp, Unreachable, Cancel,
         Expire, Serve, RejectDead, RefuseRequest, OpenSession, RefuseLogin, EnterLogin, vars,
         client, calls, wire, console
<1>3. TypeOK /\ [Next]_vars => useApiKey' \in BOOLEAN
  BY ZenonT(60) DEF TypeOK, Next, Proceed, AllEnded, Begin, Acquire, Prime, LoginGranted,
         LoginCut, LoginRefused, Finish, SendAnother, Reauthenticate, GiveUp, Unreachable, Cancel,
         Expire, Serve, RejectDead, RefuseRequest, OpenSession, RefuseLogin, EnterLogin, vars,
         client, calls, wire, console
<1>4. QED
  BY <1>1, <1>2, <1>3, Zenon

\* Every variable keeps its type.
THEOREM TypeCorrect == Spec => []TypeOK
<1>1. Init => TypeOK
  <2>1. Init => authenticated \in BOOLEAN /\ refused \in BOOLEAN /\ useApiKey \in BOOLEAN
    BY Zenon DEF Init
  <2>2. QED
    BY <2>1, SessionAssumption DEF Init, TypeOK, Phases, LoggingIn, Ended, Replies
<1>2. TypeOK /\ [Next]_vars => TypeOK'
  <2> SUFFICES ASSUME TypeOK, [Next]_vars PROVE TypeOK'
    OBVIOUS
  <2>0. authenticated' \in BOOLEAN /\ refused' \in BOOLEAN /\ useApiKey' \in BOOLEAN
    BY FlagStep
  <2> USE SessionAssumption, <2>0 DEF TypeOK, Phases, LoggingIn, Ended, Replies
  <2>1. ASSUME NEW t \in Tasks, Begin(t) PROVE TypeOK'
    BY <2>1 DEF Begin, Send, EnterLogin, console
  <2>2. ASSUME NEW t \in Tasks, Acquire(t) PROVE TypeOK'
    BY <2>2 DEF Acquire, Send, EnterLogin, console
  <2>3. ASSUME NEW t \in Tasks, Prime(t) PROVE TypeOK'
    BY <2>3 DEF Prime, client, wire, console
  <2>4. ASSUME NEW t \in Tasks, LoginGranted(t) PROVE TypeOK'
    BY <2>4 DEF LoginGranted, Send, console
  <2>5. ASSUME NEW t \in Tasks, LoginRefused(t) PROVE TypeOK'
    BY <2>5 DEF LoginRefused, End, wire, console
  <2>6. ASSUME NEW t \in Tasks, Finish(t) PROVE TypeOK'
    BY <2>6 DEF Finish, End, wire, console
  <2>7. ASSUME NEW t \in Tasks, SendAnother(t) PROVE TypeOK'
    BY <2>7 DEF SendAnother, Send, client, console
  <2>8. ASSUME NEW t \in Tasks, Reauthenticate(t) PROVE TypeOK'
    BY <2>8 DEF Reauthenticate, Send, EnterLogin, console
  <2>9. ASSUME NEW t \in Tasks, GiveUp(t) PROVE TypeOK'
    BY <2>9 DEF GiveUp, End, wire, console
  <2>10. ASSUME NEW t \in Tasks, Unreachable(t) PROVE TypeOK'
    BY <2>10 DEF Unreachable, End, wire, console
  <2>11. ASSUME NEW t \in Tasks, Cancel(t) PROVE TypeOK'
    BY <2>11 DEF Cancel, End, wire, console
  <2>12. ASSUME NEW t \in Tasks, Serve(t) \/ RejectDead(t) \/ RefuseRequest(t)
         PROVE TypeOK'
    BY <2>12 DEF Serve, RejectDead, RefuseRequest, client, calls, console
  <2>13. ASSUME NEW t \in Tasks, OpenSession(t) PROVE TypeOK'
    BY <2>13 DEF OpenSession, client, calls
  <2>14. ASSUME NEW t \in Tasks, RefuseLogin(t) PROVE TypeOK'
    BY <2>14 DEF RefuseLogin, client, calls
  <2>15. CASE Expire
    BY <2>15 DEF Expire, client, calls, wire
  <2>16. CASE UNCHANGED vars
    BY <2>16 DEF vars, client, calls, wire, console
  <2>17. ASSUME NEW t \in Tasks, LoginCut(t) PROVE TypeOK'
    BY <2>17 DEF LoginCut, End, wire, console
  <2>18. HIDE DEF TypeOK, Phases, LoggingIn, Ended, Replies
  <2>19. QED
    BY <2>1, <2>2, <2>3, <2>4, <2>5, <2>6, <2>7, <2>8, <2>9, <2>10, <2>11,
       <2>12, <2>13, <2>14, <2>15, <2>16, <2>17 DEF Next, Proceed, AllEnded
<1>3. QED
  BY <1>1, <1>2, PTL DEF Spec

-----------------------------------------------------------------------------

\* The login lock: held exactly during a login exchange.
LEMMA LockStep == TypeOK /\ LockInv /\ [Next]_vars => LockInv'
<1> SUFFICES ASSUME TypeOK, LockInv, [Next]_vars PROVE LockInv'
  OBVIOUS
<1> USE SessionAssumption DEF LockInv, TypeOK, Phases, LoggingIn, Ended, Replies
<1>1. ASSUME NEW t \in Tasks, Begin(t) PROVE LockInv'
  BY <1>1 DEF Begin, Send, EnterLogin
<1>2. ASSUME NEW t \in Tasks, Acquire(t) PROVE LockInv'
  BY <1>2 DEF Acquire, Send, EnterLogin
<1>3. ASSUME NEW t \in Tasks, Prime(t) PROVE LockInv'
  BY <1>3 DEF Prime, client, wire
<1>4. ASSUME NEW t \in Tasks, LoginGranted(t) PROVE LockInv'
  BY <1>4 DEF LoginGranted, Send
<1>5. ASSUME NEW t \in Tasks, LoginRefused(t) \/ Finish(t) \/ GiveUp(t) \/ Unreachable(t) \/ Cancel(t)
      PROVE LockInv'
  BY <1>5 DEF LoginRefused, Finish, GiveUp, Unreachable, Cancel, End, wire
<1>6. ASSUME NEW t \in Tasks, SendAnother(t) PROVE LockInv'
  BY <1>6 DEF SendAnother, Send, client
<1>7. ASSUME NEW t \in Tasks, Reauthenticate(t) PROVE LockInv'
  BY <1>7 DEF Reauthenticate, Send, EnterLogin
<1>8. ASSUME NEW t \in Tasks, Serve(t) \/ RejectDead(t) PROVE LockInv'
  BY <1>8 DEF Serve, RejectDead, Honoured, client, calls, console
<1>9. ASSUME NEW t \in Tasks, RefuseRequest(t) PROVE LockInv'
  BY <1>9 DEF RefuseRequest, client, calls
<1>10. ASSUME NEW t \in Tasks, OpenSession(t) PROVE LockInv'
  BY <1>10 DEF OpenSession, client, calls
<1>11. ASSUME NEW t \in Tasks, RefuseLogin(t) PROVE LockInv'
  BY <1>11 DEF RefuseLogin, client, calls
<1>12. CASE Expire
  BY <1>12 DEF Expire, client, calls, wire
<1>13. CASE UNCHANGED vars
  BY <1>13 DEF vars, client, calls, wire
<1>14. ASSUME NEW t \in Tasks, LoginCut(t) PROVE LockInv'
  BY <1>14 DEF LoginCut, End, wire
<1>15. HIDE DEF LockInv, TypeOK, Phases, LoggingIn, Ended, Replies
<1>16. QED
  BY <1>1, <1>2, <1>3, <1>4, <1>5, <1>6, <1>7, <1>8, <1>9, <1>10, <1>11, <1>12,
     <1>13, <1>14
  DEF Next, Proceed, AllEnded

\* The order of sessions.  Only a login response moves the cookie, and the
\* lock makes its grant the only unread one.
LEMMA OrderStep == TypeOK /\ LockInv /\ OrderInv /\ [Next]_vars => OrderInv'
<1> SUFFICES ASSUME TypeOK, LockInv, OrderInv, [Next]_vars PROVE OrderInv'
  OBVIOUS
<1> USE SessionAssumption DEF LockInv, OrderInv, TypeOK, Phases, LoggingIn, Ended, Replies
<1>1. ASSUME NEW t \in Tasks, Begin(t) PROVE OrderInv'
  BY <1>1 DEF Begin, Send, EnterLogin, console
<1>2. ASSUME NEW t \in Tasks, Acquire(t) PROVE OrderInv'
  BY <1>2 DEF Acquire, Send, EnterLogin, console
<1>3. ASSUME NEW t \in Tasks, Prime(t) PROVE OrderInv'
  BY <1>3 DEF Prime, client, wire, console
<1>4. ASSUME NEW t \in Tasks, LoginGranted(t) PROVE OrderInv'
  BY <1>4 DEF LoginGranted, Send, console
<1>5. ASSUME NEW t \in Tasks, LoginRefused(t) \/ Finish(t) \/ GiveUp(t) \/ Unreachable(t) \/ Cancel(t)
      PROVE OrderInv'
  BY <1>5 DEF LoginRefused, Finish, GiveUp, Unreachable, Cancel, End, wire, console
<1>6. ASSUME NEW t \in Tasks, SendAnother(t) PROVE OrderInv'
  BY <1>6 DEF SendAnother, Send, client, console
<1>7. ASSUME NEW t \in Tasks, Reauthenticate(t) PROVE OrderInv'
  BY <1>7 DEF Reauthenticate, Send, EnterLogin, console
<1>8. ASSUME NEW t \in Tasks, Serve(t) \/ RejectDead(t) PROVE OrderInv'
  BY <1>8 DEF Serve, RejectDead, Honoured, client, calls, console
<1>9. ASSUME NEW t \in Tasks, RefuseRequest(t) PROVE OrderInv'
  BY <1>9 DEF RefuseRequest, client, calls
<1>10. ASSUME NEW t \in Tasks, OpenSession(t) PROVE OrderInv'
  BY <1>10 DEF OpenSession, client, calls
<1>11. ASSUME NEW t \in Tasks, RefuseLogin(t) PROVE OrderInv'
  BY <1>11 DEF RefuseLogin, client, calls
<1>12. CASE Expire
  BY <1>12 DEF Expire, client, calls, wire
<1>13. CASE UNCHANGED vars
  BY <1>13 DEF vars, client, calls, wire, console
<1>14. ASSUME NEW t \in Tasks, LoginCut(t) PROVE OrderInv'
  BY <1>14 DEF LoginCut, End, wire, console
<1>15. HIDE DEF LockInv, OrderInv, TypeOK, Phases, LoggingIn, Ended, Replies
<1>16. QED
  BY <1>1, <1>2, <1>3, <1>4, <1>5, <1>6, <1>7, <1>8, <1>9, <1>10, <1>11, <1>12,
     <1>13, <1>14
  DEF Next, Proceed, AllEnded

\* Dead sessions stay dead, and a rejection is recorded only of a dead one.
LEMMA DeadStep == TypeOK /\ LockInv /\ OrderInv /\ DeadInv /\ [Next]_vars => DeadInv'
<1> SUFFICES ASSUME TypeOK, LockInv, OrderInv, DeadInv, [Next]_vars PROVE DeadInv'
  OBVIOUS
<1> USE SessionAssumption
    DEF LockInv, OrderInv, DeadInv, Dead, TypeOK, Phases, LoggingIn, Ended, Replies
<1>1. ASSUME NEW t \in Tasks, Begin(t) PROVE DeadInv'
  BY <1>1 DEF Begin, Send, EnterLogin, console
<1>2. ASSUME NEW t \in Tasks, Acquire(t) PROVE DeadInv'
  BY <1>2 DEF Acquire, Send, EnterLogin, console
<1>3. ASSUME NEW t \in Tasks, Prime(t) PROVE DeadInv'
  BY <1>3 DEF Prime, client, wire, console
<1>4. ASSUME NEW t \in Tasks, LoginGranted(t) PROVE DeadInv'
  BY <1>4 DEF LoginGranted, Send, console
<1>5. ASSUME NEW t \in Tasks, LoginRefused(t) \/ Finish(t) \/ GiveUp(t) \/ Unreachable(t) \/ Cancel(t)
      PROVE DeadInv'
  BY <1>5 DEF LoginRefused, Finish, GiveUp, Unreachable, Cancel, End, wire, console
<1>6. ASSUME NEW t \in Tasks, SendAnother(t) PROVE DeadInv'
  BY <1>6 DEF SendAnother, Send, client, console
<1>7. ASSUME NEW t \in Tasks, Reauthenticate(t) PROVE DeadInv'
  BY <1>7 DEF Reauthenticate, Send, EnterLogin, console
<1>8. ASSUME NEW t \in Tasks, Serve(t) \/ RejectDead(t) PROVE DeadInv'
  BY <1>8 DEF Serve, RejectDead, Honoured, client, calls, console
<1>9. ASSUME NEW t \in Tasks, RefuseRequest(t) PROVE DeadInv'
  BY <1>9 DEF RefuseRequest, client, calls
<1>10. ASSUME NEW t \in Tasks, OpenSession(t) PROVE DeadInv'
  BY <1>10 DEF OpenSession, client, calls
<1>11. ASSUME NEW t \in Tasks, RefuseLogin(t) PROVE DeadInv'
  BY <1>11 DEF RefuseLogin, client, calls
<1>12. CASE Expire
  BY <1>12 DEF Expire, client, calls, wire
<1>13. CASE UNCHANGED vars
  BY <1>13 DEF vars, client, calls, wire, console
<1>14. ASSUME NEW t \in Tasks, LoginCut(t) PROVE DeadInv'
  BY <1>14 DEF LoginCut, End, wire, console
<1>15. HIDE DEF LockInv, OrderInv, DeadInv, Dead, TypeOK, Phases, LoggingIn, Ended, Replies
<1>16. QED
  BY <1>1, <1>2, <1>3, <1>4, <1>5, <1>6, <1>7, <1>8, <1>9, <1>10, <1>11, <1>12,
     <1>13, <1>14
  DEF Next, Proceed, AllEnded

-----------------------------------------------------------------------------

\* The inductive invariant holds in every reachable state.
LEMMA Invariance == Spec => []IInv
<1>1. Init => LockInv /\ OrderInv /\ DeadInv
  <2>1. CASE useApiKey = TRUE
    BY <2>1, SessionAssumption DEF Init, LockInv, OrderInv, DeadInv, LoggingIn
  <2>2. CASE useApiKey = FALSE
    BY <2>2, SessionAssumption DEF Init, LockInv, OrderInv, DeadInv, LoggingIn
  <2>3. QED
    BY <2>1, <2>2 DEF Init
<1>2. IInv /\ TypeOK' /\ [Next]_vars => IInv'
  BY LockStep, OrderStep, DeadStep DEF IInv
<1>3. QED
  BY <1>1, <1>2, TypeCorrect, PTL DEF Spec, IInv

\* The login lock of auth.py:217 excludes: no two login exchanges overlap.
THEOREM LoginsExclude == Spec => []OneLoginAtATime
<1>1. IInv => OneLoginAtATime
  BY DEF IInv, LockInv, OneLoginAtATime
<1>2. QED
  BY <1>1, Invariance, PTL

\* A retry carries a session newer than the one that was rejected.
THEOREM RetriesAreFresh == Spec => []RetryUsesFreshSession
<1>1. IInv => RetryUsesFreshSession
  BY DEF IInv, OrderInv, TypeOK, RetryUsesFreshSession
<1>2. QED
  BY <1>1, Invariance, PTL

\* InvalidAuth reaches the caller only after two sessions have died under the
\* call, unless the console refused something valid.
THEOREM OneExpiryIsTransparent == Spec => []FailureNeedsTwoExpiries
<1>1. IInv => FailureNeedsTwoExpiries
  BY DEF IInv, DeadInv, Dead, TypeOK, FailureNeedsTwoExpiries
<1>2. QED
  BY <1>1, Invariance, PTL

\* No login response overwrites the cookie of a later session.
THEOREM CookieIsMonotonic == Spec => CookieNeverRegresses
<1>1. IInv /\ [Next]_vars => [cookie' >= cookie]_vars
  <2> SUFFICES ASSUME IInv, Next PROVE cookie' >= cookie
    OBVIOUS
  <2>1. ASSUME NEW t \in Tasks, LoginGranted(t) \/ LoginCut(t) PROVE cookie' >= cookie
    BY <2>1 DEF LoginGranted, LoginCut, IInv, LockInv, OrderInv, TypeOK, LoggingIn
  <2>2. CASE cookie' = cookie
    BY <2>2 DEF IInv, TypeOK
  <2>3. QED
    BY <2>1, <2>2 DEF Next, Proceed, AllEnded, Begin, Acquire, Prime, LoginRefused, Finish,
       SendAnother, Reauthenticate, GiveUp, Unreachable, Cancel, Expire, Serve,
       RejectDead, RefuseRequest, OpenSession, RefuseLogin, client, vars
<1>2. QED
  BY <1>1, Invariance, PTL DEF Spec, CookieNeverRegresses

-----------------------------------------------------------------------------
(***************************************************************************)
(* The refinement of SharedSession.                                        *)
(***************************************************************************)

StageMap   == [t \in Tasks |-> Stage(t)]
RefusedMap == [t \in Tasks |-> IF attempt[t] = 1 THEN 0 ELSE rejected[t]]

\* A step of one call that sets its stage sets no other call's.
LEMMA StageMoves ==
    ASSUME NEW t \in Tasks, NEW to, Stage(t)' = to,
           \A u \in Tasks \ {t} : pc'[u] = pc[u] /\ attempt'[u] = attempt[u]
    PROVE  StageMap' = [StageMap EXCEPT ![t] = to]
<1>1. \A u \in Tasks \ {t} : Stage(u)' = Stage(u)
  BY DEF Stage
<1>2. StageMap' = [u \in Tasks |-> IF u = t THEN to ELSE Stage(u)]
  BY <1>1 DEF StageMap
<1> QED
  BY <1>2 DEF StageMap

\* What is refused to a call stays with it unless its attempt changes.
LEMMA RefusedKept ==
    (UNCHANGED <<attempt, rejected>>) => RefusedMap' = RefusedMap
BY DEF RefusedMap

SharedNext(t) ==
    \/ Shared!Start(t) \/ Shared!StartWithLogin(t) \/ Shared!Refused(t)
    \/ Shared!TakesTurn(t) \/ Shared!Joins(t) \/ Shared!LogsIn(t) \/ Shared!Ends(t)

SharedStutters == UNCHANGED <<useApiKey, StageMap, lock, cookie, RefusedMap>>

LEMMA StuttersWith == (UNCHANGED <<pc, attempt, rejected, lock, cookie, useApiKey>>) => SharedStutters
BY DEF SharedStutters, StageMap, RefusedMap, Stage

LEMMA BeginImplements ==
    ASSUME IInv, NEW t \in Tasks, Begin(t) PROVE SharedNext(t)
<1> USE DEF IInv, TypeOK
<1>1. /\ pc[t] = "idle" /\ Stage(t) = "idle"
      /\ UNCHANGED <<cookie, useApiKey, attempt, rejected>> /\ attempt[t] = 1
  <2>1. pc[t] = "idle" /\ UNCHANGED <<cookie, attempt, rejected, console>>
    BY DEF Begin
  <2>2. UNCHANGED useApiKey
    BY <2>1 DEF console
  <2>3. attempt[t] = 1
    BY <2>1 DEF OrderInv
  <2> QED BY <2>1, <2>2, <2>3 DEF Stage, Ended
<1>2. RefusedMap' = RefusedMap
  BY <1>1, RefusedKept
<1>3. CASE useApiKey \/ authenticated
  <2>1. pc' = [pc EXCEPT ![t] = "inflight"] /\ UNCHANGED lock
    BY <1>3 DEF Begin, Send
  <2>2. Stage(t)' = "request"
    BY <1>1, <2>1 DEF Stage, Ended
  <2>3. StageMap' = [StageMap EXCEPT ![t] = "request"]
    BY <1>1, <2>1, <2>2, StageMoves
  <2>4. useApiKey \/ cookie > 0
    BY <1>3 DEF OrderInv
  <2>5. Shared!Start(t)
    BY <1>1, <1>2, <2>1, <2>3, <2>4 DEF Shared!Start, Shared!Moves, StageMap, RefusedMap
  <2> QED BY <2>5 DEF SharedNext
<1>4. CASE ~(useApiKey \/ authenticated)
  <2>1. /\ pc' = [pc EXCEPT ![t] = IF lock = NoTask THEN "priming" ELSE "waiting"]
        /\ lock' = IF lock = NoTask THEN t ELSE lock
    BY <1>4 DEF Begin, EnterLogin
  <2>2. Stage(t)' = "login"
    BY <1>1, <2>1 DEF Stage, Ended
  <2>3. StageMap' = [StageMap EXCEPT ![t] = "login"]
    BY <1>1, <2>1, <2>2, StageMoves
  <2>4. Shared!StartWithLogin(t)
    BY <1>1, <1>2, <1>4, <2>1, <2>3
    DEF Shared!StartWithLogin, Shared!Moves, StageMap, RefusedMap
  <2> QED BY <2>4 DEF SharedNext
<1> QED BY <1>3, <1>4

LEMMA AcquireImplements ==
    ASSUME IInv, NEW t \in Tasks, Acquire(t) PROVE SharedNext(t)
<1> USE DEF IInv, TypeOK
<1>1. /\ pc[t] = "waiting" /\ lock = NoTask /\ attempt[t] \in {1, 2}
      /\ UNCHANGED <<cookie, useApiKey, attempt, rejected>>
  BY DEF Acquire, console
<1>2. RefusedMap' = RefusedMap
  BY <1>1, RefusedKept
<1>3. Stage(t) = IF attempt[t] = 1 THEN "login" ELSE "relogin"
  BY <1>1 DEF Stage, Ended
<1>4. CASE authenticated
  <2>1. pc' = [pc EXCEPT ![t] = "inflight"] /\ UNCHANGED lock
    BY <1>4 DEF Acquire, Send
  <2>2. Stage(t)' = IF attempt[t] = 1 THEN "request" ELSE "retry"
    BY <1>1, <2>1 DEF Stage, Ended
  <2>3. StageMap' = [StageMap EXCEPT ![t] = IF Stage(t) = "login" THEN "request" ELSE "retry"]
    BY <1>1, <1>3, <2>1, <2>2, StageMoves
  <2>4. cookie > RefusedMap[t]
    <3>1. ~useApiKey /\ cookie >= 1
      BY <1>1, <1>4 DEF OrderInv
    <3>2. attempt[t] = 2 => rejected[t] < cookie
      BY <1>1, <1>4 DEF OrderInv
    <3> QED BY <1>1, <3>1, <3>2 DEF RefusedMap
  <2>5. Shared!Joins(t)
    BY <1>1, <1>2, <1>3, <2>1, <2>3, <2>4
    DEF Shared!Joins, Shared!NeedsSession, Shared!Moves, Shared!WithSession, StageMap, RefusedMap
  <2> QED BY <2>5 DEF SharedNext
<1>5. CASE ~authenticated
  <2>1. pc' = [pc EXCEPT ![t] = "priming"] /\ lock' = t
    BY <1>1, <1>5 DEF Acquire, EnterLogin
  <2>2. Stage(t)' = Stage(t)
    BY <1>1, <2>1 DEF Stage, Ended
  <2>3. StageMap' = StageMap
    <3>1. \A u \in Tasks : Stage(u)' = Stage(u)
      BY <1>1, <2>1, <2>2 DEF Stage
    <3> QED BY <3>1 DEF StageMap
  <2>4. Shared!TakesTurn(t)
    BY <1>1, <1>2, <1>3, <2>1, <2>3
    DEF Shared!TakesTurn, Shared!NeedsSession, StageMap, RefusedMap
  <2> QED BY <2>4 DEF SharedNext
<1> QED BY <1>4, <1>5

LEMMA LoginImplements ==
    ASSUME IInv, NEW t \in Tasks, LoginGranted(t) \/ LoginCut(t) PROVE SharedNext(t)
<1> USE DEF IInv, TypeOK
<1>1. /\ pc[t] = "posting" /\ lock = t /\ attempt[t] \in {1, 2}
      /\ cookie' = grant[t] /\ lock' = NoTask
      /\ UNCHANGED <<useApiKey, attempt, rejected>>
  BY DEF LoginGranted, LoginCut, End, console, LockInv, LoggingIn
<1>2. cookie' > cookie
  BY <1>1 DEF LoginGranted, LoginCut, OrderInv
<1>3. RefusedMap' = RefusedMap
  BY <1>1, RefusedKept
<1>4. Stage(t) = IF attempt[t] = 1 THEN "login" ELSE "relogin"
  BY <1>1 DEF Stage, Ended
<1>5. \/ StageMap' = [StageMap EXCEPT ![t] = IF Stage(t) = "login" THEN "request" ELSE "retry"]
      \/ StageMap' = [StageMap EXCEPT ![t] = "ended"]
  <2>1. CASE LoginGranted(t)
    <3>1. pc' = [pc EXCEPT ![t] = "inflight"]
      BY <2>1 DEF LoginGranted, Send
    <3>2. Stage(t)' = IF attempt[t] = 1 THEN "request" ELSE "retry"
      BY <1>1, <3>1 DEF Stage, Ended
    <3> QED BY <1>1, <1>4, <3>1, <3>2, StageMoves
  <2>2. CASE LoginCut(t)
    <3>1. pc' = [pc EXCEPT ![t] = "unreachable"]
      BY <2>2 DEF LoginCut, End
    <3>2. Stage(t)' = "ended"
      BY <3>1 DEF Stage, Ended
    <3> QED BY <1>1, <3>1, <3>2, StageMoves
  <2> QED BY <2>1, <2>2
<1>6. Shared!LogsIn(t)
  BY <1>1, <1>2, <1>3, <1>4, <1>5
  DEF Shared!LogsIn, Shared!Moves, Shared!WithSession, StageMap, RefusedMap
<1> QED BY <1>6 DEF SharedNext

LEMMA RejectedImplements ==
    ASSUME IInv, NEW t \in Tasks, Reauthenticate(t) PROVE SharedNext(t)
<1> USE DEF IInv, TypeOK
<1>1. /\ pc[t] = "inflight" /\ Stage(t) = "request"
      /\ attempt' = [attempt EXCEPT ![t] = 2] /\ rejected' = [rejected EXCEPT ![t] = sent[t]]
      /\ UNCHANGED <<cookie, useApiKey>> /\ sent[t] \in 0 .. cookie
  BY DEF Reauthenticate, Stage, Ended, console, OrderInv
<1>2. RefusedMap' = [RefusedMap EXCEPT ![t] = sent[t]]
  <2>1. RefusedMap' = [u \in Tasks |-> IF u = t THEN sent[t] ELSE RefusedMap[u]]
    BY <1>1 DEF RefusedMap
  <2> QED BY <2>1 DEF RefusedMap
<1>3. CASE useApiKey
  <2>1. pc' = [pc EXCEPT ![t] = "inflight"] /\ UNCHANGED lock
    BY <1>3 DEF Reauthenticate, Send
  <2>2. Stage(t)' = "retry"
    BY <1>1, <2>1 DEF Stage, Ended
  <2>3. StageMap' = [StageMap EXCEPT ![t] = "retry"]
    BY <1>1, <2>1, <2>2, StageMoves
  <2>4. Shared!Refused(t)
    BY <1>1, <1>2, <1>3, <2>1, <2>3 DEF Shared!Refused, Shared!Moves, StageMap, RefusedMap
  <2> QED BY <2>4 DEF SharedNext
<1>4. CASE ~useApiKey
  <2>1. /\ pc' = [pc EXCEPT ![t] = IF lock = NoTask THEN "priming" ELSE "waiting"]
        /\ lock' = IF lock = NoTask THEN t ELSE lock
    BY <1>4 DEF Reauthenticate, EnterLogin
  <2>2. Stage(t)' = "relogin"
    BY <1>1, <2>1 DEF Stage, Ended
  <2>3. StageMap' = [StageMap EXCEPT ![t] = "relogin"]
    BY <1>1, <2>1, <2>2, StageMoves
  <2>4. Shared!Refused(t)
    BY <1>1, <1>2, <1>4, <2>1, <2>3 DEF Shared!Refused, Shared!Moves, StageMap, RefusedMap
  <2> QED BY <2>4 DEF SharedNext
<1> QED BY <1>3, <1>4

LEMMA EndImplements ==
    ASSUME IInv, NEW t \in Tasks,
           LoginRefused(t) \/ Finish(t) \/ GiveUp(t) \/ Unreachable(t) \/ Cancel(t)
    PROVE  SharedNext(t)
<1> USE DEF IInv, TypeOK
<1>1. /\ \E outcome \in Ended : End(t, outcome)
      /\ UNCHANGED <<cookie, useApiKey, attempt, rejected>>
      /\ pc[t] \in LoggingIn \cup {"waiting", "inflight"} /\ attempt[t] \in {1, 2}
  BY DEF LoginRefused, Finish, GiveUp, Unreachable, Cancel, Ended, LoggingIn, console
<1>2. PICK outcome \in Ended : End(t, outcome)
  BY <1>1
<1>3. RefusedMap' = RefusedMap
  BY <1>1, RefusedKept
<1>4. Stage(t) \in {"login", "relogin", "request", "retry"}
  BY <1>1 DEF Stage, Ended, LoggingIn
<1>5. Stage(t)' = "ended"
  BY <1>2 DEF End, Stage, Ended
<1>6. StageMap' = [StageMap EXCEPT ![t] = "ended"]
  BY <1>1, <1>2, <1>5, StageMoves DEF End
<1>7. Shared!Ends(t)
  BY <1>1, <1>2, <1>3, <1>4, <1>6
  DEF Shared!Ends, Shared!Begun, Shared!NeedsSession, Shared!Moves, End, StageMap, RefusedMap
<1> QED BY <1>7 DEF SharedNext

LEMMA SharedStep == IInv /\ [Next]_vars => [Shared!Next]_(Shared!vars)
<1> SUFFICES ASSUME IInv, [Next]_vars
             PROVE  SharedStutters \/ \E t \in Tasks : SharedNext(t)
  BY Zenon DEF SharedNext, SharedStutters, Shared!Next, Shared!vars, StageMap, RefusedMap
<1>1. ASSUME NEW t \in Tasks, Prime(t) PROVE SharedStutters
  <2>1. \A u \in Tasks : Stage(u)' = Stage(u)
    BY <1>1 DEF Prime, Stage, IInv, TypeOK, Ended
  <2>2. StageMap' = StageMap
    BY <2>1 DEF StageMap
  <2>3. UNCHANGED <<lock, cookie, useApiKey, attempt, rejected>>
    BY <1>1 DEF Prime, client, console
  <2> QED BY <2>2, <2>3, RefusedKept DEF SharedStutters
<1>2. ASSUME NEW t \in Tasks, SendAnother(t) PROVE SharedStutters
  <2>1. pc' = pc
    BY <1>2 DEF SendAnother, Send, IInv, TypeOK
  <2> QED BY <1>2, <2>1, StuttersWith DEF SendAnother, client, console
<1>3. ASSUME NEW t \in Tasks,
             Serve(t) \/ RejectDead(t) \/ RefuseRequest(t) \/ OpenSession(t) \/ RefuseLogin(t)
      PROVE  SharedStutters
  BY <1>3, StuttersWith DEF Serve, RejectDead, RefuseRequest, OpenSession, RefuseLogin,
     client, calls, console
<1>4. CASE Expire \/ UNCHANGED vars
  BY <1>4, StuttersWith DEF Expire, vars, client, calls, console
<1> QED
  BY <1>1, <1>2, <1>3, <1>4, BeginImplements, AcquireImplements, LoginImplements,
     RejectedImplements, EndImplements
  DEF Next, Proceed, AllEnded

\* The session frame implements SharedSession: each call logs in at most twice
\* and retries once, and only the holder of the lock replaces the session, by a
\* newer one (auth.py:207-267).
THEOREM ImplementsShared == Spec => SharedSpec
<1>1. Init => Shared!Init
  <2> SUFFICES ASSUME Init PROVE Shared!Init
    OBVIOUS
  <2>1. useApiKey \in BOOLEAN
    BY Zenon DEF Init
  <2>2. [t \in Tasks |-> Stage(t)] = [t \in Tasks |-> "idle"]
    BY DEF Init, Stage, Ended
  <2>3. [t \in Tasks |-> IF attempt[t] = 1 THEN 0 ELSE rejected[t]] = [t \in Tasks |-> 0]
    BY DEF Init
  <2>4. lock = NoTask /\ cookie = 0
    BY DEF Init
  <2> QED
    BY <2>1, <2>2, <2>3, <2>4, Zenon DEF Shared!Init
<1>2. QED
  BY <1>1, Invariance, SharedStep, PTL DEF Spec, SharedSpec, Shared!Spec

\* A call that waits for the login lock waits for nobody or for a call in a
\* login exchange, which its own steps or the time-out end (the safety half of
\* EveryCallEnds).
THEOREM WaitersWaitForALogin ==
    Spec => [](\A t \in Tasks :
                  pc[t] = "waiting" =>
                      lock = NoTask \/ (lock \in Tasks \ {t} /\ pc[lock] \in LoggingIn))
<1>1. IInv => \A t \in Tasks :
                  pc[t] = "waiting" =>
                      lock = NoTask \/ (lock \in Tasks \ {t} /\ pc[lock] \in LoggingIn)
  BY DEF IInv, TypeOK, LockInv, LoggingIn
<1>2. QED
  BY <1>1, Invariance, PTL
=============================================================================
